-------------------------- MODULE PeerStreamsProofs --------------------------
(***************************************************************************)
(* The subscriptions to the peer's streams, proved for any set of peers    *)
(* and any number of pairings and of events.                               *)
(***************************************************************************)
EXTENDS PeerStreams, TLAPS

(* The session is being torn down.  It still has the peer, whom it forgets *)
(* before it handles anything else.                                        *)
Ending == ses \in {"disconnected", "teardown", "clear"}

(* Where the handler is says what the state is.                            *)
SessionInOrder ==
    /\ state = "connecting" /\ ~Ending => peer = None
    /\ ses \in {"teardown", "clear"} => state # "running"
    /\ ses = "timer" => state = "running"

(* All the prefixes are taken as all of them.  Nobody but the callback     *)
(* subscribes, so that nothing is while it does, for the peer it found.    *)
PrefixesKnown ==
    /\ prefixes = Wanted => subscribed
    /\ cb = "manifest" => cbPrefixes # Wanted
    /\ cb \in {"manifest", "subscribe", "subscribed", "store"} => cbPeer # None /\ ~subscribed

(* A subscription the callback is about to store for this pairing is held  *)
(* by the server.                                                          *)
StoredIsHeld ==
    cb \in {"subscribed", "store"} /\ cbPeer = peer /\ cbSince # "paired" /\ cbWant = Wanted
        => held = Wanted \/ Ending

(* The same of what is stored, at every point of a handler.                *)
SubscribedHeld == subscribed /\ ~Ending => held = Wanted \/ crossed

(* A callback of this pairing that ensurePeerSubscriptions told all is     *)
(* subscribed is right about it.                                           *)
EnsuredIsSubscribed ==
    cb \in {"fetch", "config", "apply"} /\ cbOk /\ cbSince = "same"
        => subscribed \/ peer = None \/ Ending

(* A callback that is about to stop the timer and began since the timer    *)
(* was last armed has nothing left to do.                                  *)
StopsWhenDone ==
    cb = "stop" /\ cbSince = "same"
        => Complete \/ peer = None \/ Ending \/ state # "running" \/ ses = "timer"

Inv ==
    /\ TypeOK /\ SessionInOrder /\ PrefixesKnown /\ StoredIsHeld /\ SubscribedHeld
    /\ EnsuredIsSubscribed /\ StopsWhenDone /\ RetryArmed /\ ConfigOfPairedPeer

-----------------------------------------------------------------------------
(* The types, in the parts that the provers take one at a time.            *)
PlacesOK ==
    /\ state \in {"connecting", "pairing", "negotiating", "running"}
    /\ ses \in {"idle", "paired", "timer", "rejected", "unpaired", "disconnected", "teardown",
                "clear"}
    /\ pairing \in 0 .. MaxPairings /\ events \in 0 .. MaxEvents
    /\ cb \in {"idle", "peer", "stop", "subscriptions", "manifest", "subscribe", "subscribed",
               "store", "fetch", "config", "apply"}
    /\ cbSince \in {"same", "armed", "paired"}
FlagsOK ==
    /\ subscribed \in BOOLEAN /\ configured \in BOOLEAN /\ armed \in BOOLEAN
    /\ cbOk \in BOOLEAN /\ crossed \in BOOLEAN
SetsOK ==
    /\ prefixes \subseteq Wanted /\ held \subseteq Wanted /\ manifest \subseteq Wanted
    /\ cbPrefixes \subseteq Wanted /\ cbWant \subseteq Wanted
PeersOK ==
    /\ peer \in Peers \cup {None} /\ applied \in Peers \cup {None}
    /\ cbPeer \in Peers \cup {None}

\* The type invariant in the parts the steps below treat one by one.
LEMMA TypeParts == TypeOK <=> PlacesOK /\ FlagsOK /\ SetsOK /\ PeersOK
  BY DEF TypeOK, PlacesOK, FlagsOK, SetsOK, PeersOK

\* The same for the next state.
LEMMA TypePartsPrime == TypeOK' <=> PlacesOK' /\ FlagsOK' /\ SetsOK' /\ PeersOK'
  BY DEF TypeOK, PlacesOK, FlagsOK, SetsOK, PeersOK

(* The initial state.                                                      *)
LEMMA InvInit == Init => Inv
<1> SUFFICES ASSUME Init PROVE Inv
  OBVIOUS
<1> USE PeerConstants DEF PeerConstants, Init, Wanted
<1>1. PlacesOK
  BY DEF PlacesOK
<1>2. FlagsOK
  BY DEF FlagsOK
<1>3. SetsOK
  BY DEF SetsOK
<1>4. PeersOK
  BY DEF PeersOK
<1>5. SessionInOrder /\ PrefixesKnown
  BY DEF SessionInOrder, PrefixesKnown, Ending
<1>6. StoredIsHeld /\ SubscribedHeld
  BY DEF StoredIsHeld, SubscribedHeld
<1>7. EnsuredIsSubscribed /\ StopsWhenDone /\ RetryArmed /\ ConfigOfPairedPeer
  BY DEF EnsuredIsSubscribed, StopsWhenDone, RetryArmed, ConfigOfPairedPeer, Complete
<1> QED BY <1>1, <1>2, <1>3, <1>4, <1>5, <1>6, <1>7, TypeParts DEF Inv

(* Every step keeps the types.                                             *)
LEMMA TypeOKNext == Inv /\ Next => TypeOK'
<1> SUFFICES ASSUME Inv, Next PROVE TypeOK'
  OBVIOUS
<1> USE PeerConstants DEF PeerConstants, Inv, TypeOK, Wanted, session, peerData, audio,
        cbLocals, local, server
<1>1. CASE PairNegotiates
  BY <1>1 DEF PairNegotiates
<1>2. CASE AdvanceTimer
  BY <1>2 DEF AdvanceTimer
<1>3. CASE RejectPairing
  BY <1>3 DEF RejectPairing
<1>4. CASE TeardownState
  BY <1>4 DEF TeardownState
<1>5. CASE TeardownTimer
  <2>1. PlacesOK'
    BY <1>5 DEF TeardownTimer, PlacesOK
  <2>2. FlagsOK'
    BY <1>5 DEF TeardownTimer, FlagsOK
  <2>3. SetsOK'
    BY <1>5 DEF TeardownTimer, SetsOK
  <2>4. PeersOK'
    BY <1>5 DEF TeardownTimer, PeersOK
  <2> QED BY <2>1, <2>2, <2>3, <2>4, TypePartsPrime
<1>6. CASE TeardownPeer
  <2>1. PlacesOK'
    BY <1>6 DEF TeardownPeer, ClearPeer, ResetRemoteConfig, PlacesOK
  <2>2. FlagsOK'
    BY <1>6 DEF TeardownPeer, ClearPeer, ResetRemoteConfig, FlagsOK
  <2>3. SetsOK'
    BY <1>6 DEF TeardownPeer, ClearPeer, ResetRemoteConfig, SetsOK
  <2>4. PeersOK'
    BY <1>6 DEF TeardownPeer, ClearPeer, ResetRemoteConfig, PeersOK
  <2> QED BY <2>1, <2>2, <2>3, <2>4, TypePartsPrime
<1>7. CASE Advance
  BY <1>7 DEF Advance
<1>8. CASE Registered
  <2>1. PlacesOK'
    BY <1>8 DEF Registered, PlacesOK
  <2>2. FlagsOK'
    BY <1>8 DEF Registered, FlagsOK
  <2>3. SetsOK'
    BY <1>8 DEF Registered, SetsOK
  <2>4. PeersOK'
    BY <1>8 DEF Registered, PeersOK
  <2> QED BY <2>1, <2>2, <2>3, <2>4, TypePartsPrime
<1>9. CASE HeartbeatFail
  <2>1. PlacesOK'
    BY <1>9 DEF HeartbeatFail, Event, PlacesOK
  <2>2. FlagsOK'
    BY <1>9 DEF HeartbeatFail, Event, FlagsOK
  <2>3. SetsOK'
    BY <1>9 DEF HeartbeatFail, Event, SetsOK
  <2>4. PeersOK'
    BY <1>9 DEF HeartbeatFail, Event, PeersOK
  <2> QED BY <2>1, <2>2, <2>3, <2>4, TypePartsPrime
<1>10. CASE CbBegin
  BY <1>10 DEF CbBegin
<1>11. CASE CbHasPeer
  BY <1>11 DEF CbHasPeer
<1>12. CASE CbStop
  BY <1>12 DEF CbStop, CbEnd, Locals
<1>13. CASE EnsureRead
  <2>1. PlacesOK'
    BY <1>13 DEF EnsureRead, EnsureReturns, Locals, PlacesOK
  <2>2. FlagsOK'
    BY <1>13 DEF EnsureRead, EnsureReturns, Locals, FlagsOK
  <2>3. SetsOK'
    BY <1>13 DEF EnsureRead, EnsureReturns, Locals, SetsOK
  <2>4. PeersOK'
    BY <1>13 DEF EnsureRead, EnsureReturns, Locals, PeersOK
  <2> QED BY <2>1, <2>2, <2>3, <2>4, TypePartsPrime
<1>14. CASE SubscribeAnswered
  BY <1>14 DEF SubscribeAnswered
<1>15. CASE EnsureStore
  <2>1. PlacesOK'
    BY <1>15 DEF EnsureStore, EnsureReturns, Locals, PlacesOK
  <2>2. FlagsOK'
    BY <1>15 DEF EnsureStore, EnsureReturns, Locals, FlagsOK
  <2>3. SetsOK'
    BY <1>15 DEF EnsureStore, EnsureReturns, Locals, SetsOK
  <2>4. PeersOK'
    BY <1>15 DEF EnsureStore, EnsureReturns, Locals, PeersOK
  <2> QED BY <2>1, <2>2, <2>3, <2>4, TypePartsPrime
<1>16. CASE FetchRead
  <2>1. PlacesOK'
    BY <1>16 DEF FetchRead, FetchReturns, Locals, CbEnd, PlacesOK
  <2>2. FlagsOK'
    BY <1>16 DEF FetchRead, FetchReturns, Locals, CbEnd, FlagsOK
  <2>3. SetsOK'
    BY <1>16 DEF FetchRead, FetchReturns, Locals, CbEnd, SetsOK
  <2>4. PeersOK'
    BY <1>16 DEF FetchRead, FetchReturns, Locals, CbEnd, PeersOK
  <2> QED BY <2>1, <2>2, <2>3, <2>4, TypePartsPrime
<1>17. CASE FetchApply
  <2>1. PlacesOK'
    BY <1>17 DEF FetchApply, FetchReturns, Locals, CbEnd, PlacesOK
  <2>2. FlagsOK'
    BY <1>17 DEF FetchApply, FetchReturns, Locals, CbEnd, FlagsOK
  <2>3. SetsOK'
    BY <1>17 DEF FetchApply, FetchReturns, Locals, CbEnd, SetsOK
  <2>4. PeersOK'
    BY <1>17 DEF FetchApply, FetchReturns, Locals, CbEnd, PeersOK
  <2> QED BY <2>1, <2>2, <2>3, <2>4, TypePartsPrime
<1>18. CASE ConfigRejected
  <2>1. PlacesOK'
    BY <1>18 DEF ConfigRejected, FetchReturns, Locals, CbEnd, PlacesOK
  <2>2. FlagsOK'
    BY <1>18 DEF ConfigRejected, FetchReturns, Locals, CbEnd, FlagsOK
  <2>3. SetsOK'
    BY <1>18 DEF ConfigRejected, FetchReturns, Locals, CbEnd, SetsOK
  <2>4. PeersOK'
    BY <1>18 DEF ConfigRejected, FetchReturns, Locals, CbEnd, PeersOK
  <2> QED BY <2>1, <2>2, <2>3, <2>4, TypePartsPrime
<1>19. CASE RpcFails
  <2>1. PlacesOK'
    BY <1>19 DEF RpcFails, EnsureReturns, Locals, PlacesOK
  <2>2. FlagsOK'
    BY <1>19 DEF RpcFails, EnsureReturns, Locals, FlagsOK
  <2>3. SetsOK'
    BY <1>19 DEF RpcFails, EnsureReturns, Locals, SetsOK
  <2>4. PeersOK'
    BY <1>19 DEF RpcFails, EnsureReturns, Locals, PeersOK
  <2> QED BY <2>1, <2>2, <2>3, <2>4, TypePartsPrime
<1>20. CASE GetStreamPrefixes
  <2>1. PlacesOK'
    BY <1>20 DEF GetStreamPrefixes, Locals, Available, PlacesOK
  <2>2. FlagsOK'
    BY <1>20 DEF GetStreamPrefixes, Locals, Available, FlagsOK
  <2>3. SetsOK'
    BY <1>20 DEF GetStreamPrefixes, Locals, Available, SetsOK
  <2>4. PeersOK'
    BY <1>20 DEF GetStreamPrefixes, Locals, Available, PeersOK
  <2> QED BY <2>1, <2>2, <2>3, <2>4, TypePartsPrime
<1>21. CASE Subscribe
  BY <1>21 DEF Subscribe
<1>22. CASE FetchFails
  <2>1. PlacesOK'
    BY <1>22 DEF FetchFails, FetchReturns, Locals, CbEnd, PlacesOK
  <2>2. FlagsOK'
    BY <1>22 DEF FetchFails, FetchReturns, Locals, CbEnd, FlagsOK
  <2>3. SetsOK'
    BY <1>22 DEF FetchFails, FetchReturns, Locals, CbEnd, SetsOK
  <2>4. PeersOK'
    BY <1>22 DEF FetchFails, FetchReturns, Locals, CbEnd, PeersOK
  <2> QED BY <2>1, <2>2, <2>3, <2>4, TypePartsPrime
<1>23. CASE FetchAudioConfig
  BY <1>23 DEF FetchAudioConfig
<1>24. ASSUME NEW p \in Peers, Pair(p) PROVE TypeOK'
  <2>1. PlacesOK'
    BY <1>24 DEF Pair, ResetRemoteConfig, PlacesOK
  <2>2. FlagsOK'
    BY <1>24 DEF Pair, ResetRemoteConfig, FlagsOK
  <2>3. SetsOK'
    BY <1>24 DEF Pair, ResetRemoteConfig, SetsOK
  <2>4. PeersOK'
    BY <1>24 DEF Pair, ResetRemoteConfig, PeersOK
  <2> QED BY <2>1, <2>2, <2>3, <2>4, TypePartsPrime
<1>25. ASSUME NEW p \in Peers, Reject(p) PROVE TypeOK'
  <2>1. PlacesOK'
    BY <1>25 DEF Reject, Event, Forget, ClearPeer, PlacesOK
  <2>2. FlagsOK'
    BY <1>25 DEF Reject, Event, Forget, ClearPeer, FlagsOK
  <2>3. SetsOK'
    BY <1>25 DEF Reject, Event, Forget, ClearPeer, SetsOK
  <2>4. PeersOK'
    BY <1>25 DEF Reject, Event, Forget, ClearPeer, PeersOK
  <2> QED BY <2>1, <2>2, <2>3, <2>4, TypePartsPrime
<1>26. ASSUME NEW p \in Peers, Unpair(p) PROVE TypeOK'
  <2>1. PlacesOK'
    BY <1>26 DEF Unpair, Event, Forget, ClearPeer, PlacesOK
  <2>2. FlagsOK'
    BY <1>26 DEF Unpair, Event, Forget, ClearPeer, FlagsOK
  <2>3. SetsOK'
    BY <1>26 DEF Unpair, Event, Forget, ClearPeer, SetsOK
  <2>4. PeersOK'
    BY <1>26 DEF Unpair, Event, Forget, ClearPeer, PeersOK
  <2> QED BY <2>1, <2>2, <2>3, <2>4, TypePartsPrime
<1>27. ASSUME NEW s \in Wanted, Declare(s) PROVE TypeOK'
  BY <1>27 DEF Declare
<1> QED BY <1>1, <1>2, <1>3, <1>4, <1>5, <1>6, <1>7, <1>8, <1>9, <1>10, <1>11, <1>12, <1>13,
           <1>14, <1>15, <1>16, <1>17, <1>18, <1>19, <1>20, <1>21, <1>22, <1>23, <1>24, <1>25, <1>26, <1>27
        DEF Next, SessionStep, CallbackStep

(* The session's handlers.                                                 *)
LEMMA SessionInOrderNext == Inv /\ Next => SessionInOrder'
<1> SUFFICES ASSUME Inv, Next PROVE SessionInOrder'
  OBVIOUS
<1> USE PeerConstants DEF PeerConstants, Inv, TypeOK, Ending, SessionInOrder, session, peerData,
        audio, cbLocals, local, server
<1>1. CASE PairNegotiates
  BY <1>1 DEF PairNegotiates
<1>2. CASE AdvanceTimer
  BY <1>2 DEF AdvanceTimer
<1>3. CASE RejectPairing
  BY <1>3 DEF RejectPairing
<1>4. CASE TeardownState
  BY <1>4 DEF TeardownState
<1>5. CASE TeardownTimer
  BY <1>5 DEF TeardownTimer
<1>6. CASE TeardownPeer
  BY <1>6 DEF TeardownPeer, ClearPeer, ResetRemoteConfig
<1>7. CASE Advance
  BY <1>7 DEF Advance
<1>8. CASE Registered
  BY <1>8 DEF Registered
<1>9. CASE HeartbeatFail
  BY <1>9 DEF HeartbeatFail, Event
<1>10. CASE CbBegin
  BY <1>10 DEF CbBegin
<1>11. CASE CbHasPeer
  BY <1>11 DEF CbHasPeer
<1>12. CASE CbStop
  BY <1>12 DEF CbStop, CbEnd, Locals
<1>13. CASE EnsureRead
  BY <1>13 DEF EnsureRead, EnsureReturns, Locals
<1>14. CASE SubscribeAnswered
  BY <1>14 DEF SubscribeAnswered
<1>15. CASE EnsureStore
  BY <1>15 DEF EnsureStore, EnsureReturns, Locals
<1>16. CASE FetchRead
  BY <1>16 DEF FetchRead, FetchReturns, Locals, CbEnd
<1>17. CASE FetchApply
  BY <1>17 DEF FetchApply, FetchReturns, Locals, CbEnd
<1>18. CASE ConfigRejected
  BY <1>18 DEF ConfigRejected, FetchReturns, Locals, CbEnd
<1>19. CASE RpcFails
  BY <1>19 DEF RpcFails, EnsureReturns, Locals
<1>20. CASE GetStreamPrefixes
  BY <1>20 DEF GetStreamPrefixes, Locals, Available
<1>21. CASE Subscribe
  BY <1>21 DEF Subscribe
<1>22. CASE FetchFails
  BY <1>22 DEF FetchFails, FetchReturns, Locals, CbEnd
<1>23. CASE FetchAudioConfig
  BY <1>23 DEF FetchAudioConfig
<1>24. ASSUME NEW p \in Peers, Pair(p) PROVE SessionInOrder'
  BY <1>24 DEF Pair, ResetRemoteConfig
<1>25. ASSUME NEW p \in Peers, Reject(p) PROVE SessionInOrder'
  BY <1>25 DEF Reject, Event, Forget, ClearPeer
<1>26. ASSUME NEW p \in Peers, Unpair(p) PROVE SessionInOrder'
  BY <1>26 DEF Unpair, Event, Forget, ClearPeer
<1>27. ASSUME NEW s \in Wanted, Declare(s) PROVE SessionInOrder'
  BY <1>27 DEF Declare
<1> QED BY <1>1, <1>2, <1>3, <1>4, <1>5, <1>6, <1>7, <1>8, <1>9, <1>10, <1>11, <1>12, <1>13,
           <1>14, <1>15, <1>16, <1>17, <1>18, <1>19, <1>20, <1>21, <1>22, <1>23, <1>24, <1>25, <1>26, <1>27
        DEF Next, SessionStep, CallbackStep

(* What the callback reads.                                                *)
LEMMA PrefixesKnownNext == Inv /\ Next => PrefixesKnown'
<1> SUFFICES ASSUME Inv, Next PROVE PrefixesKnown'
  OBVIOUS
<1> USE PeerConstants DEF PeerConstants, Inv, TypeOK, Wanted, PrefixesKnown, session, peerData,
        audio, cbLocals, local, server
<1>1. CASE PairNegotiates
  BY <1>1 DEF PairNegotiates
<1>2. CASE AdvanceTimer
  BY <1>2 DEF AdvanceTimer
<1>3. CASE RejectPairing
  BY <1>3 DEF RejectPairing
<1>4. CASE TeardownState
  BY <1>4 DEF TeardownState
<1>5. CASE TeardownTimer
  BY <1>5 DEF TeardownTimer
<1>6. CASE TeardownPeer
  BY <1>6 DEF TeardownPeer, ClearPeer, ResetRemoteConfig
<1>7. CASE Advance
  BY <1>7 DEF Advance
<1>8. CASE Registered
  BY <1>8 DEF Registered
<1>9. CASE HeartbeatFail
  BY <1>9 DEF HeartbeatFail, Event
<1>10. CASE CbBegin
  BY <1>10 DEF CbBegin
<1>11. CASE CbHasPeer
  BY <1>11 DEF CbHasPeer
<1>12. CASE CbStop
  BY <1>12 DEF CbStop, CbEnd, Locals
<1>13. CASE EnsureRead
  BY <1>13 DEF EnsureRead, EnsureReturns, Locals
<1>14. CASE SubscribeAnswered
  BY <1>14 DEF SubscribeAnswered
<1>15. CASE EnsureStore
  BY <1>15 DEF EnsureStore, EnsureReturns, Locals
<1>16. CASE FetchRead
  BY <1>16 DEF FetchRead, FetchReturns, Locals, CbEnd
<1>17. CASE FetchApply
  BY <1>17 DEF FetchApply, FetchReturns, Locals, CbEnd
<1>18. CASE ConfigRejected
  BY <1>18 DEF ConfigRejected, FetchReturns, Locals, CbEnd
<1>19. CASE RpcFails
  BY <1>19 DEF RpcFails, EnsureReturns, Locals
<1>20. CASE GetStreamPrefixes
  BY <1>20 DEF GetStreamPrefixes, Locals, Available
<1>21. CASE Subscribe
  BY <1>21 DEF Subscribe
<1>22. CASE FetchFails
  BY <1>22 DEF FetchFails, FetchReturns, Locals, CbEnd
<1>23. CASE FetchAudioConfig
  BY <1>23 DEF FetchAudioConfig
<1>24. ASSUME NEW p \in Peers, Pair(p) PROVE PrefixesKnown'
  BY <1>24 DEF Pair, ResetRemoteConfig
<1>25. ASSUME NEW p \in Peers, Reject(p) PROVE PrefixesKnown'
  BY <1>25 DEF Reject, Event, Forget, ClearPeer
<1>26. ASSUME NEW p \in Peers, Unpair(p) PROVE PrefixesKnown'
  BY <1>26 DEF Unpair, Event, Forget, ClearPeer
<1>27. ASSUME NEW s \in Wanted, Declare(s) PROVE PrefixesKnown'
  BY <1>27 DEF Declare
<1> QED BY <1>1, <1>2, <1>3, <1>4, <1>5, <1>6, <1>7, <1>8, <1>9, <1>10, <1>11, <1>12, <1>13,
           <1>14, <1>15, <1>16, <1>17, <1>18, <1>19, <1>20, <1>21, <1>22, <1>23, <1>24, <1>25, <1>26, <1>27
        DEF Next, SessionStep, CallbackStep

(* A subscription on its way to be stored.                                 *)
LEMMA StoredIsHeldNext == Inv /\ Next => StoredIsHeld'
<1> SUFFICES ASSUME Inv, Next PROVE StoredIsHeld'
  OBVIOUS
<1> USE PeerConstants DEF PeerConstants, Inv, TypeOK, Wanted, Ending, SessionInOrder,
        PrefixesKnown, StoredIsHeld, session, peerData, audio, cbLocals, local, server
<1>1. CASE PairNegotiates
  BY <1>1 DEF PairNegotiates
<1>2. CASE AdvanceTimer
  BY <1>2 DEF AdvanceTimer
<1>3. CASE RejectPairing
  BY <1>3 DEF RejectPairing
<1>4. CASE TeardownState
  BY <1>4 DEF TeardownState
<1>5. CASE TeardownTimer
  BY <1>5 DEF TeardownTimer
<1>6. CASE TeardownPeer
  BY <1>6 DEF TeardownPeer, ClearPeer, ResetRemoteConfig
<1>7. CASE Advance
  BY <1>7 DEF Advance
<1>8. CASE Registered
  BY <1>8 DEF Registered
<1>9. CASE HeartbeatFail
  BY <1>9 DEF HeartbeatFail, Event
<1>10. CASE CbBegin
  BY <1>10 DEF CbBegin
<1>11. CASE CbHasPeer
  BY <1>11 DEF CbHasPeer
<1>12. CASE CbStop
  BY <1>12 DEF CbStop, CbEnd, Locals
<1>13. CASE EnsureRead
  BY <1>13 DEF EnsureRead, EnsureReturns, Locals
<1>14. CASE SubscribeAnswered
  BY <1>14 DEF SubscribeAnswered
<1>15. CASE EnsureStore
  BY <1>15 DEF EnsureStore, EnsureReturns, Locals
<1>16. CASE FetchRead
  BY <1>16 DEF FetchRead, FetchReturns, Locals, CbEnd
<1>17. CASE FetchApply
  BY <1>17 DEF FetchApply, FetchReturns, Locals, CbEnd
<1>18. CASE ConfigRejected
  BY <1>18 DEF ConfigRejected, FetchReturns, Locals, CbEnd
<1>19. CASE RpcFails
  BY <1>19 DEF RpcFails, EnsureReturns, Locals
<1>20. CASE GetStreamPrefixes
  BY <1>20 DEF GetStreamPrefixes, Locals, Available
<1>21. CASE Subscribe
  BY <1>21 DEF Subscribe
<1>22. CASE FetchFails
  BY <1>22 DEF FetchFails, FetchReturns, Locals, CbEnd
<1>23. CASE FetchAudioConfig
  BY <1>23 DEF FetchAudioConfig
<1>24. ASSUME NEW p \in Peers, Pair(p) PROVE StoredIsHeld'
  BY <1>24 DEF Pair, ResetRemoteConfig
<1>25. ASSUME NEW p \in Peers, Reject(p) PROVE StoredIsHeld'
  BY <1>25 DEF Reject, Event, Forget, ClearPeer
<1>26. ASSUME NEW p \in Peers, Unpair(p) PROVE StoredIsHeld'
  BY <1>26 DEF Unpair, Event, Forget, ClearPeer
<1>27. ASSUME NEW s \in Wanted, Declare(s) PROVE StoredIsHeld'
  BY <1>27 DEF Declare
<1> QED BY <1>1, <1>2, <1>3, <1>4, <1>5, <1>6, <1>7, <1>8, <1>9, <1>10, <1>11, <1>12, <1>13,
           <1>14, <1>15, <1>16, <1>17, <1>18, <1>19, <1>20, <1>21, <1>22, <1>23, <1>24, <1>25, <1>26, <1>27
        DEF Next, SessionStep, CallbackStep

(* A subscription that is stored.                                          *)
LEMMA SubscribedHeldNext == Inv /\ Next => SubscribedHeld'
<1> SUFFICES ASSUME Inv, Next PROVE SubscribedHeld'
  OBVIOUS
<1> USE PeerConstants DEF PeerConstants, Inv, TypeOK, Wanted, Ending, SessionInOrder,
        PrefixesKnown, StoredIsHeld, SubscribedHeld, session, peerData, audio, cbLocals, local, server
<1>1. CASE PairNegotiates
  BY <1>1 DEF PairNegotiates
<1>2. CASE AdvanceTimer
  BY <1>2 DEF AdvanceTimer
<1>3. CASE RejectPairing
  BY <1>3 DEF RejectPairing
<1>4. CASE TeardownState
  BY <1>4 DEF TeardownState
<1>5. CASE TeardownTimer
  BY <1>5 DEF TeardownTimer
<1>6. CASE TeardownPeer
  BY <1>6 DEF TeardownPeer, ClearPeer, ResetRemoteConfig
<1>7. CASE Advance
  BY <1>7 DEF Advance
<1>8. CASE Registered
  BY <1>8 DEF Registered
<1>9. CASE HeartbeatFail
  BY <1>9 DEF HeartbeatFail, Event
<1>10. CASE CbBegin
  BY <1>10 DEF CbBegin
<1>11. CASE CbHasPeer
  BY <1>11 DEF CbHasPeer
<1>12. CASE CbStop
  BY <1>12 DEF CbStop, CbEnd, Locals
<1>13. CASE EnsureRead
  BY <1>13 DEF EnsureRead, EnsureReturns, Locals
<1>14. CASE SubscribeAnswered
  BY <1>14 DEF SubscribeAnswered
<1>15. CASE EnsureStore
  BY <1>15 DEF EnsureStore, EnsureReturns, Locals
<1>16. CASE FetchRead
  BY <1>16 DEF FetchRead, FetchReturns, Locals, CbEnd
<1>17. CASE FetchApply
  BY <1>17 DEF FetchApply, FetchReturns, Locals, CbEnd
<1>18. CASE ConfigRejected
  BY <1>18 DEF ConfigRejected, FetchReturns, Locals, CbEnd
<1>19. CASE RpcFails
  BY <1>19 DEF RpcFails, EnsureReturns, Locals
<1>20. CASE GetStreamPrefixes
  BY <1>20 DEF GetStreamPrefixes, Locals, Available
<1>21. CASE Subscribe
  BY <1>21 DEF Subscribe
<1>22. CASE FetchFails
  BY <1>22 DEF FetchFails, FetchReturns, Locals, CbEnd
<1>23. CASE FetchAudioConfig
  BY <1>23 DEF FetchAudioConfig
<1>24. ASSUME NEW p \in Peers, Pair(p) PROVE SubscribedHeld'
  BY <1>24 DEF Pair, ResetRemoteConfig
<1>25. ASSUME NEW p \in Peers, Reject(p) PROVE SubscribedHeld'
  BY <1>25 DEF Reject, Event, Forget, ClearPeer
<1>26. ASSUME NEW p \in Peers, Unpair(p) PROVE SubscribedHeld'
  BY <1>26 DEF Unpair, Event, Forget, ClearPeer
<1>27. ASSUME NEW s \in Wanted, Declare(s) PROVE SubscribedHeld'
  BY <1>27 DEF Declare
<1> QED BY <1>1, <1>2, <1>3, <1>4, <1>5, <1>6, <1>7, <1>8, <1>9, <1>10, <1>11, <1>12, <1>13,
           <1>14, <1>15, <1>16, <1>17, <1>18, <1>19, <1>20, <1>21, <1>22, <1>23, <1>24, <1>25, <1>26, <1>27
        DEF Next, SessionStep, CallbackStep

(* The result of ensurePeerSubscriptions.                                  *)
LEMMA EnsuredIsSubscribedNext == Inv /\ Next => EnsuredIsSubscribed'
<1> SUFFICES ASSUME Inv, Next PROVE EnsuredIsSubscribed'
  OBVIOUS
<1> USE PeerConstants DEF PeerConstants, Inv, TypeOK, Wanted, Ending, SessionInOrder,
        PrefixesKnown, EnsuredIsSubscribed, session, peerData, audio, cbLocals, local, server
<1>1. CASE PairNegotiates
  BY <1>1 DEF PairNegotiates
<1>2. CASE AdvanceTimer
  BY <1>2 DEF AdvanceTimer
<1>3. CASE RejectPairing
  BY <1>3 DEF RejectPairing
<1>4. CASE TeardownState
  BY <1>4 DEF TeardownState
<1>5. CASE TeardownTimer
  BY <1>5 DEF TeardownTimer
<1>6. CASE TeardownPeer
  BY <1>6 DEF TeardownPeer, ClearPeer, ResetRemoteConfig
<1>7. CASE Advance
  BY <1>7 DEF Advance
<1>8. CASE Registered
  BY <1>8 DEF Registered
<1>9. CASE HeartbeatFail
  BY <1>9 DEF HeartbeatFail, Event
<1>10. CASE CbBegin
  BY <1>10 DEF CbBegin
<1>11. CASE CbHasPeer
  BY <1>11 DEF CbHasPeer
<1>12. CASE CbStop
  BY <1>12 DEF CbStop, CbEnd, Locals
<1>13. CASE EnsureRead
  BY <1>13 DEF EnsureRead, EnsureReturns, Locals
<1>14. CASE SubscribeAnswered
  BY <1>14 DEF SubscribeAnswered
<1>15. CASE EnsureStore
  BY <1>15 DEF EnsureStore, EnsureReturns, Locals
<1>16. CASE FetchRead
  BY <1>16 DEF FetchRead, FetchReturns, Locals, CbEnd
<1>17. CASE FetchApply
  BY <1>17 DEF FetchApply, FetchReturns, Locals, CbEnd
<1>18. CASE ConfigRejected
  BY <1>18 DEF ConfigRejected, FetchReturns, Locals, CbEnd
<1>19. CASE RpcFails
  BY <1>19 DEF RpcFails, EnsureReturns, Locals
<1>20. CASE GetStreamPrefixes
  BY <1>20 DEF GetStreamPrefixes, Locals, Available
<1>21. CASE Subscribe
  BY <1>21 DEF Subscribe
<1>22. CASE FetchFails
  BY <1>22 DEF FetchFails, FetchReturns, Locals, CbEnd
<1>23. CASE FetchAudioConfig
  BY <1>23 DEF FetchAudioConfig
<1>24. ASSUME NEW p \in Peers, Pair(p) PROVE EnsuredIsSubscribed'
  BY <1>24 DEF Pair, ResetRemoteConfig
<1>25. ASSUME NEW p \in Peers, Reject(p) PROVE EnsuredIsSubscribed'
  BY <1>25 DEF Reject, Event, Forget, ClearPeer
<1>26. ASSUME NEW p \in Peers, Unpair(p) PROVE EnsuredIsSubscribed'
  BY <1>26 DEF Unpair, Event, Forget, ClearPeer
<1>27. ASSUME NEW s \in Wanted, Declare(s) PROVE EnsuredIsSubscribed'
  BY <1>27 DEF Declare
<1> QED BY <1>1, <1>2, <1>3, <1>4, <1>5, <1>6, <1>7, <1>8, <1>9, <1>10, <1>11, <1>12, <1>13,
           <1>14, <1>15, <1>16, <1>17, <1>18, <1>19, <1>20, <1>21, <1>22, <1>23, <1>24, <1>25, <1>26, <1>27
        DEF Next, SessionStep, CallbackStep

(* A callback that stops the timer.                                        *)
LEMMA StopsWhenDoneNext == Inv /\ Next => StopsWhenDone'
<1> SUFFICES ASSUME Inv, Next PROVE StopsWhenDone'
  OBVIOUS
<1> USE PeerConstants DEF PeerConstants, Inv, TypeOK, Complete, Ending, SessionInOrder,
        EnsuredIsSubscribed, StopsWhenDone, session, peerData, audio, cbLocals, local, server
<1>1. CASE PairNegotiates
  BY <1>1 DEF PairNegotiates
<1>2. CASE AdvanceTimer
  BY <1>2 DEF AdvanceTimer
<1>3. CASE RejectPairing
  BY <1>3 DEF RejectPairing
<1>4. CASE TeardownState
  BY <1>4 DEF TeardownState
<1>5. CASE TeardownTimer
  BY <1>5 DEF TeardownTimer
<1>6. CASE TeardownPeer
  BY <1>6 DEF TeardownPeer, ClearPeer, ResetRemoteConfig
<1>7. CASE Advance
  BY <1>7 DEF Advance
<1>8. CASE Registered
  BY <1>8 DEF Registered
<1>9. CASE HeartbeatFail
  BY <1>9 DEF HeartbeatFail, Event
<1>10. CASE CbBegin
  BY <1>10 DEF CbBegin
<1>11. CASE CbHasPeer
  BY <1>11 DEF CbHasPeer
<1>12. CASE CbStop
  BY <1>12 DEF CbStop, CbEnd, Locals
<1>13. CASE EnsureRead
  BY <1>13 DEF EnsureRead, EnsureReturns, Locals
<1>14. CASE SubscribeAnswered
  BY <1>14 DEF SubscribeAnswered
<1>15. CASE EnsureStore
  BY <1>15 DEF EnsureStore, EnsureReturns, Locals
<1>16. CASE FetchRead
  BY <1>16 DEF FetchRead, FetchReturns, Locals, CbEnd
<1>17. CASE FetchApply
  BY <1>17 DEF FetchApply, FetchReturns, Locals, CbEnd
<1>18. CASE ConfigRejected
  BY <1>18 DEF ConfigRejected, FetchReturns, Locals, CbEnd
<1>19. CASE RpcFails
  BY <1>19 DEF RpcFails, EnsureReturns, Locals
<1>20. CASE GetStreamPrefixes
  BY <1>20 DEF GetStreamPrefixes, Locals, Available
<1>21. CASE Subscribe
  BY <1>21 DEF Subscribe
<1>22. CASE FetchFails
  BY <1>22 DEF FetchFails, FetchReturns, Locals, CbEnd
<1>23. CASE FetchAudioConfig
  BY <1>23 DEF FetchAudioConfig
<1>24. ASSUME NEW p \in Peers, Pair(p) PROVE StopsWhenDone'
  BY <1>24 DEF Pair, ResetRemoteConfig
<1>25. ASSUME NEW p \in Peers, Reject(p) PROVE StopsWhenDone'
  BY <1>25 DEF Reject, Event, Forget, ClearPeer
<1>26. ASSUME NEW p \in Peers, Unpair(p) PROVE StopsWhenDone'
  BY <1>26 DEF Unpair, Event, Forget, ClearPeer
<1>27. ASSUME NEW s \in Wanted, Declare(s) PROVE StopsWhenDone'
  BY <1>27 DEF Declare
<1> QED BY <1>1, <1>2, <1>3, <1>4, <1>5, <1>6, <1>7, <1>8, <1>9, <1>10, <1>11, <1>12, <1>13,
           <1>14, <1>15, <1>16, <1>17, <1>18, <1>19, <1>20, <1>21, <1>22, <1>23, <1>24, <1>25, <1>26, <1>27
        DEF Next, SessionStep, CallbackStep

(* The timer.                                                              *)
LEMMA RetryArmedNext == Inv /\ Next => RetryArmed'
<1> SUFFICES ASSUME Inv, Next PROVE RetryArmed'
  OBVIOUS
<1> USE PeerConstants DEF PeerConstants, Inv, TypeOK, Complete, Ending, SessionInOrder,
        PrefixesKnown, StopsWhenDone, RetryArmed, session, peerData, audio, cbLocals, local, server
<1>1. CASE PairNegotiates
  BY <1>1 DEF PairNegotiates
<1>2. CASE AdvanceTimer
  BY <1>2 DEF AdvanceTimer
<1>3. CASE RejectPairing
  BY <1>3 DEF RejectPairing
<1>4. CASE TeardownState
  BY <1>4 DEF TeardownState
<1>5. CASE TeardownTimer
  BY <1>5 DEF TeardownTimer
<1>6. CASE TeardownPeer
  BY <1>6 DEF TeardownPeer, ClearPeer, ResetRemoteConfig
<1>7. CASE Advance
  BY <1>7 DEF Advance
<1>8. CASE Registered
  BY <1>8 DEF Registered
<1>9. CASE HeartbeatFail
  BY <1>9 DEF HeartbeatFail, Event
<1>10. CASE CbBegin
  BY <1>10 DEF CbBegin
<1>11. CASE CbHasPeer
  BY <1>11 DEF CbHasPeer
<1>12. CASE CbStop
  BY <1>12 DEF CbStop, CbEnd, Locals
<1>13. CASE EnsureRead
  BY <1>13 DEF EnsureRead, EnsureReturns, Locals
<1>14. CASE SubscribeAnswered
  BY <1>14 DEF SubscribeAnswered
<1>15. CASE EnsureStore
  BY <1>15 DEF EnsureStore, EnsureReturns, Locals
<1>16. CASE FetchRead
  BY <1>16 DEF FetchRead, FetchReturns, Locals, CbEnd
<1>17. CASE FetchApply
  BY <1>17 DEF FetchApply, FetchReturns, Locals, CbEnd
<1>18. CASE ConfigRejected
  BY <1>18 DEF ConfigRejected, FetchReturns, Locals, CbEnd
<1>19. CASE RpcFails
  BY <1>19 DEF RpcFails, EnsureReturns, Locals
<1>20. CASE GetStreamPrefixes
  BY <1>20 DEF GetStreamPrefixes, Locals, Available
<1>21. CASE Subscribe
  BY <1>21 DEF Subscribe
<1>22. CASE FetchFails
  BY <1>22 DEF FetchFails, FetchReturns, Locals, CbEnd
<1>23. CASE FetchAudioConfig
  BY <1>23 DEF FetchAudioConfig
<1>24. ASSUME NEW p \in Peers, Pair(p) PROVE RetryArmed'
  BY <1>24 DEF Pair, ResetRemoteConfig
<1>25. ASSUME NEW p \in Peers, Reject(p) PROVE RetryArmed'
  BY <1>25 DEF Reject, Event, Forget, ClearPeer
<1>26. ASSUME NEW p \in Peers, Unpair(p) PROVE RetryArmed'
  BY <1>26 DEF Unpair, Event, Forget, ClearPeer
<1>27. ASSUME NEW s \in Wanted, Declare(s) PROVE RetryArmed'
  BY <1>27 DEF Declare
<1> QED BY <1>1, <1>2, <1>3, <1>4, <1>5, <1>6, <1>7, <1>8, <1>9, <1>10, <1>11, <1>12, <1>13,
           <1>14, <1>15, <1>16, <1>17, <1>18, <1>19, <1>20, <1>21, <1>22, <1>23, <1>24, <1>25, <1>26, <1>27
        DEF Next, SessionStep, CallbackStep

(* The AudioConfig.                                                        *)
LEMMA ConfigOfPairedPeerNext == Inv /\ Next => ConfigOfPairedPeer'
<1> SUFFICES ASSUME Inv, Next PROVE ConfigOfPairedPeer'
  OBVIOUS
<1> USE PeerConstants DEF PeerConstants, Inv, TypeOK, ConfigOfPairedPeer, session, peerData,
        audio, cbLocals, local, server
<1>1. CASE PairNegotiates
  BY <1>1 DEF PairNegotiates
<1>2. CASE AdvanceTimer
  BY <1>2 DEF AdvanceTimer
<1>3. CASE RejectPairing
  BY <1>3 DEF RejectPairing
<1>4. CASE TeardownState
  BY <1>4 DEF TeardownState
<1>5. CASE TeardownTimer
  BY <1>5 DEF TeardownTimer
<1>6. CASE TeardownPeer
  BY <1>6 DEF TeardownPeer, ClearPeer, ResetRemoteConfig
<1>7. CASE Advance
  BY <1>7 DEF Advance
<1>8. CASE Registered
  BY <1>8 DEF Registered
<1>9. CASE HeartbeatFail
  BY <1>9 DEF HeartbeatFail, Event
<1>10. CASE CbBegin
  BY <1>10 DEF CbBegin
<1>11. CASE CbHasPeer
  BY <1>11 DEF CbHasPeer
<1>12. CASE CbStop
  BY <1>12 DEF CbStop, CbEnd, Locals
<1>13. CASE EnsureRead
  BY <1>13 DEF EnsureRead, EnsureReturns, Locals
<1>14. CASE SubscribeAnswered
  BY <1>14 DEF SubscribeAnswered
<1>15. CASE EnsureStore
  BY <1>15 DEF EnsureStore, EnsureReturns, Locals
<1>16. CASE FetchRead
  BY <1>16 DEF FetchRead, FetchReturns, Locals, CbEnd
<1>17. CASE FetchApply
  BY <1>17 DEF FetchApply, FetchReturns, Locals, CbEnd
<1>18. CASE ConfigRejected
  BY <1>18 DEF ConfigRejected, FetchReturns, Locals, CbEnd
<1>19. CASE RpcFails
  BY <1>19 DEF RpcFails, EnsureReturns, Locals
<1>20. CASE GetStreamPrefixes
  BY <1>20 DEF GetStreamPrefixes, Locals, Available
<1>21. CASE Subscribe
  BY <1>21 DEF Subscribe
<1>22. CASE FetchFails
  BY <1>22 DEF FetchFails, FetchReturns, Locals, CbEnd
<1>23. CASE FetchAudioConfig
  BY <1>23 DEF FetchAudioConfig
<1>24. ASSUME NEW p \in Peers, Pair(p) PROVE ConfigOfPairedPeer'
  BY <1>24 DEF Pair, ResetRemoteConfig
<1>25. ASSUME NEW p \in Peers, Reject(p) PROVE ConfigOfPairedPeer'
  BY <1>25 DEF Reject, Event, Forget, ClearPeer
<1>26. ASSUME NEW p \in Peers, Unpair(p) PROVE ConfigOfPairedPeer'
  BY <1>26 DEF Unpair, Event, Forget, ClearPeer
<1>27. ASSUME NEW s \in Wanted, Declare(s) PROVE ConfigOfPairedPeer'
  BY <1>27 DEF Declare
<1> QED BY <1>1, <1>2, <1>3, <1>4, <1>5, <1>6, <1>7, <1>8, <1>9, <1>10, <1>11, <1>12, <1>13,
           <1>14, <1>15, <1>16, <1>17, <1>18, <1>19, <1>20, <1>21, <1>22, <1>23, <1>24, <1>25, <1>26, <1>27
        DEF Next, SessionStep, CallbackStep

-----------------------------------------------------------------------------
\* Every step preserves the invariant.
LEMMA InvNext == Inv /\ [Next]_vars => Inv'
<1> SUFFICES ASSUME Inv, [Next]_vars PROVE Inv'
  OBVIOUS
<1>1. CASE Next
  BY <1>1, TypeOKNext, SessionInOrderNext, PrefixesKnownNext, StoredIsHeldNext,
     SubscribedHeldNext, EnsuredIsSubscribedNext, StopsWhenDoneNext, RetryArmedNext,
     ConfigOfPairedPeerNext DEF Inv
<1>2. CASE UNCHANGED vars
  BY <1>2 DEF vars, session, peerData, audio, cbLocals, local, server, Inv, TypeOK,
     SessionInOrder, PrefixesKnown, StoredIsHeld, SubscribedHeld, EnsuredIsSubscribed,
     StopsWhenDone, RetryArmed, ConfigOfPairedPeer, Ending, Complete
<1> QED BY <1>1, <1>2

(* Every state of the session and its retry timer satisfies the invariant. *)
THEOREM PeerStreamsInvariant == Spec => []Inv
  BY InvInit, InvNext, PTL DEF Spec

(* The retry timer runs while a running session lacks a stream, unless a   *)
(* callback from before the timer was armed has stopped it.                *)
THEOREM RetryStaysArmed == Spec => []RetryArmed
<1>1. Inv => RetryArmed
  BY DEF Inv
<1> QED BY <1>1, PeerStreamsInvariant, PTL

(* What ensurePeerSubscriptions has stored as subscribed the server        *)
(* forwards, however its RPCs and the pairings were interleaved.           *)
THEOREM SubscribedIsForwarded == Spec => []SubscribedIsHeld
<1>1. Inv => SubscribedIsHeld
  BY DEF Inv, SubscribedHeld, SubscribedIsHeld, Ending
<1> QED BY <1>1, PeerStreamsInvariant, PTL

(* The AudioConfig that fetchRemoteAudioConfig applied is of the peer the  *)
(* session is paired with.                                                 *)
THEOREM AppliedConfigIsOfPeer == Spec => []ConfigOfPairedPeer
<1>1. Inv => ConfigOfPairedPeer
  BY DEF Inv
<1> QED BY <1>1, PeerStreamsInvariant, PTL
=============================================================================
