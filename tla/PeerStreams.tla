----------------------------- MODULE PeerStreams -----------------------------
(***************************************************************************)
(* Receiving the peer's streams: who the session is paired with, what it   *)
(* has subscribed to, and the retry timer that subscribes to pose and      *)
(* audio and accepts the peer's AudioConfig.                               *)
(*                                                                         *)
(* The session handles its events one at a time; the timer's callback runs *)
(* in a callback group of its own and makes RPCs without any lock, so that *)
(* the pairing may end and begin again, with the same peer too, between    *)
(* any two of its locked sections.  An RPC fails, or is served and its     *)
(* answer is lost, or succeeds.                                            *)
(*                                                                         *)
(* The server's part is external: a subscription belongs to the pairing it *)
(* was made in, which is why every pairing here clears the prefixes it     *)
(* takes as subscribed.                                                    *)
(***************************************************************************)
EXTENDS Naturals, FiniteSets

CONSTANTS
    Peers,          \* peers the session may be paired with
    None,           \* paired_peer_session_id_ is empty
    MaxPairings,    \* bound: pairings
    MaxEvents       \* bound: rejections, unpairings and lost connections

ASSUME PeerConstants ==
    /\ None \notin Peers /\ IsFiniteSet(Peers)
    /\ MaxPairings \in Nat /\ MaxEvents \in Nat

(* subscribe_vr_pose_flag_ and wantsRemoteAudio: both are asked for.       *)
Wanted == {"pose", "audio"}

VARIABLES
    state,          \* "connecting", "pairing", "negotiating" or "running"
    peer,           \* paired_peer_session_id_
    subscribed,     \* peer_streams_subscribed_
    prefixes,       \* peer_subscribed_prefixes_
    configured,     \* AudioModule::remote_config_ready_
    applied,        \* the peer whose AudioConfig was accepted
    armed,          \* peer_subscription_retry_timer_ is running
    ses,            \* where the session's handler is
    cb,             \* where the timer's callback is
    cbPeer, cbPrefixes, cbWant, cbOk,   \* its local variables
    cbSince,        \* since the callback began: "same", the timer was "armed", or "paired"
    held,           \* external: what the server forwards in this pairing
    manifest,       \* external: streams the peers have declared
    pairing, events,
    crossed         \* a callback from before stored or stopped in this pairing

session  == <<state, ses, pairing, events>>
peerData == <<peer, subscribed, prefixes>>
audio    == <<configured, applied>>
cbLocals == <<cbPeer, cbPrefixes, cbWant, cbOk>>
local    == <<cbLocals, cbSince>>
server   == <<held, manifest>>
vars == <<session, peerData, audio, armed, cb, local, server, crossed>>

(* The values of the variables.                                            *)
TypeOK ==
    /\ state \in {"connecting", "pairing", "negotiating", "running"}
    /\ ses \in {"idle", "paired", "timer", "rejected", "unpaired", "disconnected", "teardown",
                "clear"}
    /\ pairing \in 0 .. MaxPairings /\ events \in 0 .. MaxEvents
    /\ peer \in Peers \cup {None} /\ applied \in Peers \cup {None}
    /\ cbPeer \in Peers \cup {None}
    /\ subscribed \in BOOLEAN /\ configured \in BOOLEAN /\ armed \in BOOLEAN
    /\ cbOk \in BOOLEAN /\ crossed \in BOOLEAN
    /\ prefixes \subseteq Wanted /\ held \subseteq Wanted /\ manifest \subseteq Wanted
    /\ cbPrefixes \subseteq Wanted /\ cbWant \subseteq Wanted
    /\ cb \in {"idle", "peer", "stop", "subscriptions", "manifest", "subscribe", "subscribed",
               "store", "fetch", "config", "apply"}
    /\ cbSince \in {"same", "armed", "paired"}

Init ==
    /\ state = "pairing" /\ ses = "idle" /\ pairing = 0 /\ events = 0
    /\ peer = None /\ subscribed = FALSE /\ prefixes = {}
    /\ configured = FALSE /\ applied = None
    /\ armed = FALSE /\ cb = "idle"
    /\ cbPeer = None /\ cbPrefixes = {} /\ cbWant = {} /\ cbOk = FALSE /\ cbSince = "same"
    /\ held = {} /\ manifest = {}
    /\ crossed = FALSE

-----------------------------------------------------------------------------
(* The session.                                                            *)

ResetRemoteConfig == configured' = FALSE /\ applied' = None
ClearPeer == peer' = None /\ subscribed' = FALSE /\ prefixes' = {}

(* A PairEvent REQUEST that is accepted, or ACCEPT: the locked section.    *)
Pair(p) ==
    /\ ses = "idle" /\ state # "connecting" /\ pairing < MaxPairings
    /\ pairing' = pairing + 1 /\ ses' = "paired"
    /\ peer' = p /\ subscribed' = FALSE /\ prefixes' = {} /\ ResetRemoteConfig
    /\ held' = {} /\ crossed' = FALSE /\ cbSince' = IF cb = "idle" THEN "same" ELSE "paired"
    /\ UNCHANGED <<state, events, armed, cb, cbLocals, manifest>>

PairNegotiates ==
    /\ ses = "paired" /\ ses' = "idle" /\ state' = "negotiating"
    /\ UNCHANGED <<pairing, events, peerData, audio, armed, cb, local, server, crossed>>

(* tryAdvanceNegotiation: the local configs are published.                 *)
Advance ==
    /\ ses = "idle" /\ state = "negotiating"
    /\ state' = "running" /\ ses' = "timer"
    /\ UNCHANGED <<pairing, events, peerData, audio, armed, cb, local, server, crossed>>

\* Mutant: the timer is armed for the first pairing only.
AdvanceTimerOnce ==
    /\ ses = "timer" /\ ses' = "idle" /\ armed' = (armed \/ pairing = 1)
    /\ cbSince' = IF cb # "idle" /\ cbSince = "same" THEN "armed" ELSE cbSince
    /\ UNCHANGED <<state, pairing, events, peerData, audio, cb, cbLocals, server, crossed>>

(* ensurePeerSubscriptionRetryTimer: created, or reset after a cancel.     *)
AdvanceTimer ==
    /\ ses = "timer" /\ ses' = "idle" /\ armed' = TRUE
    /\ cbSince' = IF cb # "idle" /\ cbSince = "same" THEN "armed" ELSE cbSince
    /\ UNCHANGED <<state, pairing, events, peerData, audio, cb, cbLocals, server, crossed>>

Event(pc) == ses = "idle" /\ ses' = pc /\ events < MaxEvents /\ events' = events + 1

(* REJECT and UNPAIR forget the peer if it is the one they name.           *)
Forget(p) ==
    /\ IF peer = p THEN ClearPeer /\ held' = {} ELSE UNCHANGED <<peerData, held>>
    /\ UNCHANGED <<state, pairing, audio, armed, cb, local, manifest, crossed>>

Reject(p) == state # "connecting" /\ Event("rejected") /\ Forget(p)
Unpair(p) == state # "connecting" /\ Event("unpaired") /\ Forget(p)

RejectPairing ==
    /\ ses = "rejected" /\ ses' = "idle" /\ state' = "pairing"
    /\ UNCHANGED <<pairing, events, peerData, audio, armed, cb, local, server, crossed>>

(* onGrpcHeartbeatFail, before its teardown.                               *)
HeartbeatFail ==
    /\ state # "connecting" /\ Event("disconnected")
    /\ subscribed' = FALSE /\ prefixes' = {} /\ armed' = FALSE /\ held' = {}
    /\ UNCHANGED <<state, pairing, peer, audio, cb, local, manifest, crossed>>

(* teardownActiveSession: the state, the timer, then the locked section.   *)
TeardownState ==
    /\ ses \in {"unpaired", "disconnected"} /\ ses' = "teardown"
    /\ state' = IF ses = "unpaired" THEN "pairing" ELSE "connecting"
    /\ UNCHANGED <<pairing, events, peerData, audio, armed, cb, local, server, crossed>>

TeardownTimer ==
    /\ ses = "teardown" /\ ses' = "clear" /\ armed' = FALSE
    /\ UNCHANGED <<state, pairing, events, peerData, audio, cb, local, server, crossed>>

TeardownPeer ==
    /\ ses = "clear" /\ ses' = "idle" /\ ClearPeer /\ ResetRemoteConfig /\ held' = {}
    /\ UNCHANGED <<state, pairing, events, armed, cb, local, manifest, crossed>>

(* onGrpcRegistered, up to the state in which peers are looked for.        *)
Registered ==
    /\ ses = "idle" /\ state = "connecting" /\ state' = "pairing"
    /\ subscribed' = FALSE /\ prefixes' = {} /\ held' = {}
    /\ UNCHANGED <<ses, pairing, events, peer, audio, armed, cb, local, manifest, crossed>>

SessionStep ==
    \/ PairNegotiates \/ AdvanceTimer \/ RejectPairing \/ TeardownState \/ TeardownTimer
    \/ TeardownPeer

-----------------------------------------------------------------------------
(* peerSubscriptionRetryTimerCallback.  Its functions return their result  *)
(* in cbOk, and their local variables end with them.                       *)

Locals(p, known, want, ok) ==
    cbPeer' = p /\ cbPrefixes' = known /\ cbWant' = want /\ cbOk' = ok

(* The callback returns.                                                   *)
CbEnd == cb' = "idle" /\ Locals(None, {}, {}, FALSE) /\ cbSince' = "same"

CbBegin ==
    /\ cb = "idle" /\ armed
    /\ cb' = IF state \in {"negotiating", "running"} THEN "peer" ELSE "stop"
    /\ UNCHANGED <<session, peerData, audio, armed, local, server, crossed>>

CbHasPeer ==
    /\ cb = "peer" /\ cb' = IF peer = None THEN "stop" ELSE "subscriptions"
    /\ UNCHANGED <<session, peerData, audio, armed, local, server, crossed>>

(* stopPeerSubscriptionRetryTimer.                                         *)
CbStop ==
    /\ cb = "stop" /\ CbEnd /\ armed' = FALSE
    /\ crossed' = (crossed \/ cbSince # "same")
    /\ UNCHANGED <<session, peerData, audio, server>>

EnsureReturns(ok) == cb' = "fetch" /\ Locals(None, {}, {}, ok)

(* ensurePeerSubscriptions: what is known, under the lock.                 *)
EnsureRead ==
    /\ cb = "subscriptions"
    /\ IF subscribed \/ peer = None THEN EnsureReturns(subscribed)
       ELSE cb' = "manifest" /\ Locals(peer, prefixes, {}, FALSE)
    /\ UNCHANGED <<session, peerData, audio, armed, cbSince, server, crossed>>

RpcFails ==
    /\ cb \in {"manifest", "subscribe", "subscribed"} /\ EnsureReturns(FALSE)
    /\ UNCHANGED <<session, peerData, audio, armed, cbSince, server, crossed>>

(* getStreamPrefixes, and what is wanted of what the peer declares.        *)
Available == manifest

GetStreamPrefixes ==
    /\ cb = "manifest"
    /\ LET want == Wanted \cap Available
       IN  /\ Locals(cbPeer, cbPrefixes, want, FALSE)
           /\ cb' = IF want \notin {cbPrefixes, {}} THEN "subscribe" ELSE "store"
    /\ UNCHANGED <<session, peerData, audio, armed, cbSince, server, crossed>>

(* The server takes the subscription if it still pairs the two.            *)
Subscribe ==
    /\ cb = "subscribe" /\ peer = cbPeer /\ state # "connecting"
    /\ held' = cbWant /\ cb' = "subscribed"
    /\ UNCHANGED <<session, peerData, audio, armed, local, manifest, crossed>>

SubscribeAnswered ==
    /\ cb = "subscribed" /\ cb' = "store"
    /\ UNCHANGED <<session, peerData, audio, armed, local, server, crossed>>

\* Mutant: any subscription counts as all.
EnsureStoreAny ==
    /\ cb = "store"
    /\ IF peer # cbPeer THEN EnsureReturns(FALSE) /\ UNCHANGED <<peerData, crossed>>
       ELSE /\ prefixes' = cbWant /\ subscribed' = (cbWant # {}) /\ UNCHANGED peer
            /\ EnsureReturns(cbWant # {})
            /\ crossed' = (crossed \/ cbSince = "paired")
    /\ UNCHANGED <<session, audio, armed, cbSince, server>>

(* The result, under the lock, if the session is still paired with cbPeer. *)
EnsureStore ==
    /\ cb = "store"
    /\ IF peer # cbPeer THEN EnsureReturns(FALSE) /\ UNCHANGED <<peerData, crossed>>
       ELSE /\ prefixes' = cbWant /\ subscribed' = (cbWant = Wanted) /\ UNCHANGED peer
            /\ EnsureReturns(cbWant = Wanted)
            /\ crossed' = (crossed \/ cbSince = "paired")
    /\ UNCHANGED <<session, audio, armed, cbSince, server>>

\* Mutant: one part done stops the timer.
FetchReturnsEither(ready) ==
    IF cbOk \/ ready THEN cb' = "stop" /\ UNCHANGED local ELSE CbEnd

(* With both parts done the timer is stopped.                              *)
FetchReturns(ready) ==
    IF cbOk /\ ready THEN cb' = "stop" /\ UNCHANGED local ELSE CbEnd

(* fetchRemoteAudioConfig: what is known, under the lock.                  *)
FetchRead ==
    /\ cb = "fetch"
    /\ IF peer = None \/ configured THEN FetchReturns(peer # None)
       ELSE cb' = "config" /\ Locals(peer, {}, {}, cbOk) /\ UNCHANGED cbSince
    /\ UNCHANGED <<session, peerData, audio, armed, server, crossed>>

FetchFails ==
    /\ cb = "config" /\ FetchReturns(FALSE)
    /\ UNCHANGED <<session, peerData, audio, armed, server, crossed>>

FetchAudioConfig ==
    /\ cb = "config" /\ cb' = "apply"
    /\ UNCHANGED <<session, peerData, audio, armed, local, server, crossed>>

(* validateRemoteAudioConfig: the config is not the local one.             *)
ConfigRejected ==
    /\ cb = "apply" /\ FetchReturns(FALSE)
    /\ UNCHANGED <<session, peerData, audio, armed, server, crossed>>

\* Mutant: the peer is not compared again.
FetchApplyUnchecked ==
    /\ cb = "apply"
    /\ configured' = TRUE /\ applied' = cbPeer /\ FetchReturns(TRUE)
    /\ UNCHANGED <<session, peerData, armed, server, crossed>>

(* applyRemoteConfig under the lock, if still paired with cbPeer.          *)
FetchApply ==
    /\ cb = "apply"
    /\ IF peer # cbPeer THEN FetchReturns(FALSE) /\ UNCHANGED audio
       ELSE configured' = TRUE /\ applied' = cbPeer /\ FetchReturns(TRUE)
    /\ UNCHANGED <<session, peerData, armed, server, crossed>>

CallbackStep ==
    \/ CbHasPeer \/ CbStop \/ EnsureRead \/ SubscribeAnswered \/ EnsureStore
    \/ FetchRead \/ FetchApply \/ ConfigRejected

-----------------------------------------------------------------------------
(* External: the peer declares one more stream in its manifest.            *)
Declare(s) ==
    /\ s \in Wanted \ manifest /\ manifest' = manifest \cup {s}
    /\ UNCHANGED <<session, peerData, audio, armed, cb, local, held, crossed>>

Next ==
    \/ SessionStep \/ Advance \/ Registered \/ HeartbeatFail
    \/ \E p \in Peers : Pair(p) \/ Reject(p) \/ Unpair(p)
    \/ \E s \in Wanted : Declare(s)
    \/ CbBegin \/ CallbackStep
    \/ RpcFails \/ GetStreamPrefixes \/ Subscribe \/ FetchFails \/ FetchAudioConfig

(* The executor runs the session's handlers and the timer; every RPC ends, *)
(* by its deadline at the latest, and one that is made again and again     *)
(* succeeds in the end; a peer declares its streams and comes to publish   *)
(* the AudioConfig that is asked for.                                      *)
Fairness ==
    /\ WF_vars(SessionStep) /\ WF_vars(CbBegin) /\ WF_vars(CallbackStep) /\ WF_vars(RpcFails)
    /\ WF_vars(FetchFails)
    /\ SF_vars(GetStreamPrefixes) /\ SF_vars(Subscribe) /\ SF_vars(SubscribeAnswered)
    /\ SF_vars(FetchAudioConfig) /\ SF_vars(FetchApply)
    /\ \A s \in Wanted : WF_vars(Declare(s))

Spec == Init /\ [][Next]_vars /\ Fairness

-----------------------------------------------------------------------------
Complete == subscribed /\ configured

(* While streams are missing in a running session the retry timer runs,    *)
(* unless a callback that began in an earlier pairing has stopped it.      *)
RetryArmed ==
    state = "running" /\ ses = "idle" /\ peer # None /\ ~Complete => armed \/ crossed

(* The same, whatever callback stopped it.                                 *)
RetryAlwaysArmed ==
    state = "running" /\ ses = "idle" /\ peer # None /\ ~Complete => armed

(* What the session takes as subscribed the server forwards, whatever      *)
(* answers were lost and however the pairing changed on the way, unless a  *)
(* callback of an earlier pairing with the same peer has stored it.        *)
SubscribedIsHeld == ses = "idle" /\ subscribed => held = Wanted \/ crossed

(* Audio is only accepted with the config of the peer it comes from.       *)
ConfigOfPairedPeer == peer # None /\ configured => applied = peer

(* A running session comes to receive all of its peer's streams, unless it *)
(* ends or a callback of an earlier pairing interferes.                    *)
StreamsComeUp ==
    (state = "running" /\ ses = "idle") ~> (Complete \/ state # "running" \/ crossed)
=============================================================================
