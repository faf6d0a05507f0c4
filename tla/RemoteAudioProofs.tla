-------------------------- MODULE RemoteAudioProofs --------------------------
(***************************************************************************)
(* The jitter buffer, the playback timeline and the two pipelines, proved  *)
(* for every size of the buffer and of the number space, and any number of *)
(* packets, peers and calls.                                               *)
(***************************************************************************)
EXTENDS RemoteAudio, FiniteSetTheorems, FunctionTheorems, WellFoundedInduction,
        SequenceTheorems, TLAPS

(* What a sender puts on the wire, and the states of a receiver.           *)
Packets == [stream : Nat \ {0}, n : Nat]
Receivers == [initialized : BOOLEAN, primed : BOOLEAN, expected : 0 .. SeqMod - 1,
              buffer : SUBSET Packets]

-----------------------------------------------------------------------------
(* Sequence numbers: a number of the right width, different for indices    *)
(* that are less than the number space apart.                              *)
LEMMA NumType == \A i \in Int : Num(i) \in 0 .. SeqMod - 1
  BY ReceiverConstants DEF ReceiverConstants, Num

\* A small number is its own sequence number.
LEMMA NumSmall == \A i \in 0 .. SeqMod - 1 : Num(i) = i
  BY ReceiverConstants DEF ReceiverConstants, Num

\* Every packet has a sequence number below SeqMod.
LEMMA SeqOfType == \A p \in Packets : SeqOf(p) \in 0 .. SeqMod - 1
  BY NumType DEF Packets, SeqOf

\* Different multiples of m are at least m apart.
LEMMA MultipleApart ==
    ASSUME NEW m \in Nat \ {0}, NEW p \in Int, NEW q \in Int, p # q
    PROVE  m * p - m * q >= m \/ m * q - m * p >= m
<1>1. m * p - m * q = m * (p - q) /\ m * q - m * p = m * (q - p)
  OBVIOUS
<1>2. CASE p - q >= 1
  BY <1>1, <1>2
<1>3. CASE q - p >= 1
  BY <1>1, <1>3
<1> QED BY <1>2, <1>3

\* Numbers less than SeqMod apart have different sequence numbers.
LEMMA NumInjective ==
    ASSUME NEW e \in Nat, NEW i \in Nat, NEW j \in Nat, i < j, j - i < SeqMod
    PROVE  Num(e + i) # Num(e + j)
<1> SUFFICES ASSUME Num(e + i) = Num(e + j) PROVE FALSE
  OBVIOUS
<1> DEFINE p == (e + i) \div SeqMod
           q == (e + j) \div SeqMod
           r == Num(e + i)
<1>1. SeqMod \in Nat \ {0} /\ p \in Int /\ q \in Int /\ r \in Int
  BY ReceiverConstants DEF ReceiverConstants, Num
<1>2. e + i = SeqMod * p + r
  BY ReceiverConstants DEF ReceiverConstants, Num
<1>3. e + j = SeqMod * q + r
  BY ReceiverConstants DEF ReceiverConstants, Num
<1> HIDE DEF p, q, r
<1>4. p # q
  BY <1>1, <1>2, <1>3
<1>5. SeqMod * p - SeqMod * q >= SeqMod \/ SeqMod * q - SeqMod * p >= SeqMod
  BY <1>1, <1>4, MultipleApart
<1>6. SeqMod * p \in Int /\ SeqMod * q \in Int
  BY <1>1
<1> QED BY <1>1, <1>2, <1>3, <1>5, <1>6

(* A nonempty set of naturals has a least element.                         *)
LEMMA LeastNatural ==
    ASSUME NEW T, T \subseteq Nat, T # {}
    PROVE  \E k \in T : \A i \in T : k <= i
<1>1. IsWellFoundedOn(OpToRel(<, Nat), Nat)
  BY NatLessThanWellFounded
<1>2. PICK k \in T : \A i \in T : ~ (<<i, k>> \in OpToRel(<, Nat))
  BY <1>1, WFMin
<1>3. \A i \in T : ~ (i < k)
  BY <1>2 DEF OpToRel
<1> QED BY <1>3

-----------------------------------------------------------------------------
(* The loop of drainReadyLocked ends: a buffer of at most MaxPackets       *)
(* cannot hold more numbers in a row than it has packets.                  *)
LEMMA ReadyCountProperties ==
    ASSUME NEW r \in Receivers, IsFiniteSet(r.buffer), Cardinality(r.buffer) <= MaxPackets
    PROVE  /\ ReadyCount(r) \in 0 .. Cardinality(r.buffer)
           /\ \A i \in 0 .. ReadyCount(r) - 1 : Held(r, Num(r.expected + i))
           /\ ~Held(r, Num(r.expected + ReadyCount(r)))
<1> DEFINE c == Cardinality(r.buffer)
           e == r.expected
           B == r.buffer
           T == {i \in 0 .. c : ~Held(r, Num(e + i))}
<1>1. c \in Nat /\ MaxPackets \in Nat /\ SeqMod \in Nat /\ c < SeqMod /\ e \in Nat /\ B = r.buffer
  BY FS_CardinalityType, ReceiverConstants DEF ReceiverConstants, Receivers
<1>2. T # {}
  <2> SUFFICES ASSUME \A i \in 0 .. c : Held(r, Num(e + i)) PROVE FALSE
    OBVIOUS
  <2> DEFINE f == [i \in 0 .. c |-> CHOOSE p \in B : SeqOf(p) = Num(e + i)]
  <2>1. \A i \in 0 .. c : f[i] \in B /\ SeqOf(f[i]) = Num(e + i)
    BY DEF Held
  <2>2. f \in [0 .. c -> B]
    BY <2>1
  <2>3. IsFiniteSet(0 .. c) /\ Cardinality(0 .. c) = c + 1
    BY <1>1, FS_Interval
  <2> HIDE DEF f
  <2>4. PICK x \in 0 .. c, y \in 0 .. c : x # y /\ f[x] = f[y]
    <3>1. IsFiniteSet(B) /\ Cardinality(B) < Cardinality(0 .. c)
      BY <1>1, <2>3
    <3> HIDE DEF B, c
    <3> QED BY <2>2, <2>3, <3>1, FS_PigeonHole
  <2>5. Num(e + x) = Num(e + y)
    BY <2>1, <2>4
  <2>6. x \in Nat /\ y \in Nat /\ (x < y \/ y < x) /\ x - y < SeqMod /\ y - x < SeqMod
    BY <1>1, <2>4
  <2> QED BY <1>1, <2>5, <2>6, NumInjective
<1>3. T \subseteq Nat
  BY <1>1
<1>4. PICK k \in T : \A i \in T : k <= i
  BY <1>2, <1>3, LeastNatural
<1>5. k \in 0 .. c /\ ~Held(r, Num(e + k)) /\ \A i \in 0 .. k - 1 : Held(r, Num(e + i))
  <2>1. k \in 0 .. c /\ ~Held(r, Num(e + k))
    BY <1>4
  <2>2. ASSUME NEW i \in 0 .. k - 1 PROVE Held(r, Num(e + i))
    BY <1>1, <1>4, <2>1, <2>2
  <2> QED BY <2>1, <2>2
<1> QED BY <1>5 DEF ReadyCount

(* drainReadyLocked hands on packets of the buffer and stops at a number   *)
(* that is not held; it takes at least one if the expected one is held.    *)
LEMMA DrainReadyProperties ==
    ASSUME NEW r \in Receivers, IsFiniteSet(r.buffer), Cardinality(r.buffer) <= MaxPackets
    PROVE  LET d == DrainReady(r)
           IN  /\ d.rx \in Receivers /\ d.out \in Seq(Packets)
               /\ d.rx.initialized = r.initialized /\ d.rx.primed = r.primed
               /\ d.rx.buffer \subseteq r.buffer /\ IsFiniteSet(d.rx.buffer)
               /\ ~Held(d.rx, d.rx.expected)
               /\ Cardinality(d.rx.buffer) <= Cardinality(r.buffer)
               /\ Held(r, r.expected) => Cardinality(d.rx.buffer) < Cardinality(r.buffer)
<1> DEFINE k == ReadyCount(r)
           out == [i \in 1 .. k |-> CHOOSE p \in r.buffer : SeqOf(p) = Num(r.expected + i - 1)]
           b == r.buffer \ {out[i] : i \in 1 .. k}
           d == DrainReady(r)
<1>1. /\ k \in Nat /\ \A i \in 0 .. k - 1 : Held(r, Num(r.expected + i))
      /\ ~Held(r, Num(r.expected + k))
  BY ReadyCountProperties, FS_CardinalityType
<1>2. r.expected \in Nat /\ r.buffer \subseteq Packets
  BY ReceiverConstants DEF Receivers, ReceiverConstants
<1> HIDE DEF k
<1>3. \A i \in 1 .. k : out[i] \in r.buffer
  <2> SUFFICES ASSUME NEW i \in 1 .. k PROVE out[i] \in r.buffer
    OBVIOUS
  <2>1. i - 1 \in 0 .. k - 1 /\ r.expected + (i - 1) = r.expected + i - 1
    BY <1>1, <1>2
  <2>2. Held(r, Num(r.expected + i - 1))
    BY <1>1, <2>1
  <2> QED BY <2>2 DEF Held
<1>4. out \in Seq(Packets)
  <2>1. out \in [1 .. k -> Packets]
    BY <1>2, <1>3
  <2> QED BY <1>1, <2>1, SeqDef
<1>5. d.rx = [r EXCEPT !.expected = Num(r.expected + k), !.buffer = b] /\ d.out = out
  BY DEF DrainReady, k
<1> HIDE DEF out, d
<1>6. d.rx \in Receivers /\ d.rx.initialized = r.initialized /\ d.rx.primed = r.primed
      /\ d.rx.buffer = b /\ d.rx.expected = Num(r.expected + k)
  <2>1. b \in SUBSET Packets /\ Num(r.expected + k) \in 0 .. SeqMod - 1
    BY <1>1, <1>2, NumType
  <2> HIDE DEF b
  <2> QED BY <1>5, <2>1 DEF Receivers
<1>7. IsFiniteSet(b) /\ Cardinality(b) <= Cardinality(r.buffer) /\ Cardinality(b) \in Nat
      /\ (Cardinality(b) = Cardinality(r.buffer) => b = r.buffer) /\ Cardinality(r.buffer) \in Nat
  BY FS_Subset, FS_CardinalityType
<1>8. ~Held(d.rx, d.rx.expected)
  BY <1>1, <1>6 DEF Held
<1>9. ASSUME Held(r, r.expected) PROVE b # r.buffer
  <2>1. k # 0
    BY <1>1, <1>2, <1>9, NumSmall, ReceiverConstants DEF ReceiverConstants, Receivers
  <2>2. 1 \in 1 .. k
    BY <1>1, <2>1
  <2> QED BY <1>3, <2>2
<1> HIDE DEF b
<1> QED BY <1>4, <1>5, <1>6, <1>7, <1>8, <1>9 DEF d, b

(* The smallest number in the buffer, from which a loss is given up.       *)
LEMMA FirstIsHeld ==
    ASSUME NEW r \in Receivers, r.buffer # {}
    PROVE  First(r) \in r.buffer
<1> DEFINE N == {SeqOf(p) : p \in r.buffer}
<1>1. \A p \in r.buffer : SeqOf(p) \in Nat
  BY SeqOfType, ReceiverConstants DEF Receivers, ReceiverConstants
<1>2. PICK k \in N : \A i \in N : k <= i
  <2>1. N \subseteq Nat /\ N # {}
    BY <1>1
  <2> QED BY <2>1, LeastNatural
<1>3. \E p \in r.buffer : \A q \in r.buffer : SeqOf(p) <= SeqOf(q)
  BY <1>2
<1> QED BY <1>3 DEF First

(* What pushPacket keeps: BufferMoves, and that a receiver that has not    *)
(* seen a packet holds none.                                               *)
Settled(r) ==
    /\ r \in Receivers /\ IsFiniteSet(r.buffer)
    /\ Cardinality(r.buffer) < MaxPackets
    /\ IF r.primed THEN ~Held(r, r.expected) ELSE Cardinality(r.buffer) < InitialPackets
    /\ r.initialized \/ r.buffer = {}

\* An empty buffer that is not primed is settled.
LEMMA EmptyIsSettled ==
    ASSUME NEW r \in Receivers, r.buffer = {}, ~r.primed
    PROVE  Settled(r)
  BY FS_EmptySet, ReceiverConstants DEF ReceiverConstants, Settled

\* A receiver that was reset is settled.
LEMMA ResetIsSettled == Settled(EmptyReceiver)
<1>1. EmptyReceiver \in Receivers
  BY ReceiverConstants DEF ReceiverConstants, EmptyReceiver, Receivers
<1>2. EmptyReceiver.buffer = {} /\ ~EmptyReceiver.primed
  BY DEF EmptyReceiver
<1> QED BY <1>1, <1>2, EmptyIsSettled

(* maybeSkipLossLocked after a drain.                                      *)
LEMMA SkipLossSettles ==
    ASSUME NEW r \in Receivers, IsFiniteSet(r.buffer), Cardinality(r.buffer) <= MaxPackets,
           r.primed, r.initialized
    PROVE  LET s == SkipLoss(DrainReady(r)) IN Settled(s.rx) /\ s.out \in Seq(Packets)
<1> DEFINE d == DrainReady(r)
<1>1. /\ d.rx \in Receivers /\ d.out \in Seq(Packets)
      /\ d.rx.initialized /\ d.rx.primed /\ IsFiniteSet(d.rx.buffer)
      /\ ~Held(d.rx, d.rx.expected) /\ Cardinality(d.rx.buffer) <= Cardinality(r.buffer)
  BY DrainReadyProperties
<1>2. Cardinality(d.rx.buffer) \in Nat /\ Cardinality(r.buffer) \in Nat /\ MaxPackets \in Nat \ {0}
  BY <1>1, FS_CardinalityType, ReceiverConstants DEF ReceiverConstants
<1> HIDE DEF d
<1>3. CASE ~SkipsLoss(d.rx)
  BY <1>1, <1>2, <1>3 DEF SkipLoss, SkipsLoss, Settled, d
<1>4. CASE SkipsLoss(d.rx)
  <2> DEFINE g == [d.rx EXCEPT !.expected = SeqOf(First(d.rx))]
             e == DrainReady(g)
  <2>1. First(d.rx) \in d.rx.buffer
    BY <1>1, <1>2, <1>4, FirstIsHeld, FS_EmptySet DEF SkipsLoss
  <2>2. SeqOf(First(d.rx)) \in 0 .. SeqMod - 1
    <3>1. First(d.rx) \in Packets
      BY <1>1, <2>1 DEF Receivers
    <3> QED BY <3>1, SeqOfType
  <2>3. g \in Receivers /\ g.buffer = d.rx.buffer /\ g.primed /\ g.initialized
        /\ g.expected = SeqOf(First(d.rx))
    BY <1>1, <2>2 DEF Receivers
  <2> HIDE DEF g
  <2>4. Held(g, g.expected)
    BY <2>1, <2>3 DEF Held
  <2>5. IsFiniteSet(g.buffer) /\ Cardinality(g.buffer) <= MaxPackets
    BY <1>1, <1>2, <2>3
  <2>6. /\ e.rx \in Receivers /\ e.out \in Seq(Packets) /\ e.rx.initialized /\ e.rx.primed
        /\ IsFiniteSet(e.rx.buffer) /\ ~Held(e.rx, e.rx.expected)
        /\ Cardinality(e.rx.buffer) < Cardinality(g.buffer)
    BY <2>3, <2>4, <2>5, DrainReadyProperties
  <2>7. Cardinality(e.rx.buffer) \in Nat /\ Cardinality(e.rx.buffer) < MaxPackets
    BY <1>2, <2>3, <2>5, <2>6, FS_CardinalityType
  <2>8. SkipLoss(d) = [rx |-> e.rx, out |-> d.out \o e.out]
    BY <1>4 DEF SkipLoss, g
  <2> HIDE DEF e
  <2>9. d.out \o e.out \in Seq(Packets)
    BY <1>1, <2>6, ConcatProperties
  <2> QED BY <2>6, <2>7, <2>8, <2>9 DEF Settled, d
<1> QED BY <1>3, <1>4

(* pushPacket: the receiver stays settled, and what it hands to the        *)
(* playback callback are packets it was given.                             *)
LEMMA PushSettles ==
    ASSUME NEW r, Settled(r), NEW p \in Packets
    PROVE  Settled(PushPacket(r, p).rx) /\ PushPacket(r, p).out \in Seq(Packets)
<1> DEFINE known == Initialized(r, p)
           synced == Resynchronized(known, p)
           kept == Buffered(synced, p)
           push == PushPacket(r, p)
<1>1. SeqOf(p) \in 0 .. SeqMod - 1 /\ MaxPackets \in Nat /\ InitialPackets \in Nat \ {0}
      /\ InitialPackets < MaxPackets
  BY SeqOfType, ReceiverConstants DEF ReceiverConstants
<1>2. Settled(known) /\ known.initialized
  <2>1. CASE r.initialized
    BY <2>1 DEF Initialized
  <2>2. CASE ~r.initialized
    <3>1. known = [r EXCEPT !.initialized = TRUE, !.primed = FALSE, !.expected = SeqOf(p)]
      BY <2>2 DEF Initialized
    <3>2. r \in Receivers /\ r.buffer = {}
      BY <2>2 DEF Settled
    <3> HIDE DEF known
    <3>3. known \in Receivers /\ known.buffer = {} /\ ~known.primed /\ known.initialized
      BY <1>1, <3>1, <3>2 DEF Receivers
    <3> QED BY <3>3, EmptyIsSettled
  <2> QED BY <2>1, <2>2
<1> HIDE DEF known
<1>3. Settled(synced) /\ synced.initialized
  <2>1. CASE SeqDelta(SeqOf(p), known.expected) > MaxSequenceGap
    <3>1. synced = [known EXCEPT !.buffer = {}, !.primed = FALSE, !.expected = SeqOf(p)]
      BY <2>1 DEF Resynchronized
    <3>2. known \in Receivers
      BY <1>2 DEF Settled
    <3> HIDE DEF synced
    <3>3. synced \in Receivers /\ synced.buffer = {} /\ ~synced.primed /\ synced.initialized
      BY <1>1, <1>2, <3>1, <3>2 DEF Receivers
    <3> QED BY <3>3, EmptyIsSettled
  <2>2. CASE ~(SeqDelta(SeqOf(p), known.expected) > MaxSequenceGap)
    BY <1>2, <2>2 DEF Resynchronized
  <2> QED BY <2>1, <2>2
<1> HIDE DEF synced
<1>4. /\ kept \in Receivers /\ kept.initialized /\ IsFiniteSet(kept.buffer)
      /\ kept.buffer = synced.buffer \cup {p}
      /\ Cardinality(kept.buffer) \in Nat /\ Cardinality(kept.buffer) <= MaxPackets
      /\ kept.primed = (synced.primed \/ Cardinality(kept.buffer) >= InitialPackets)
  <2>1. IsFiniteSet(synced.buffer \cup {p}) /\ Cardinality(synced.buffer) \in Nat
        /\ Cardinality(synced.buffer \cup {p}) \in Nat
        /\ Cardinality(synced.buffer \cup {p}) <= Cardinality(synced.buffer) + 1
    <3>1. IsFiniteSet(synced.buffer)
      BY <1>3 DEF Settled
    <3>2. /\ IsFiniteSet(synced.buffer \cup {p})
          /\ Cardinality(synced.buffer \cup {p}) =
                IF p \in synced.buffer THEN Cardinality(synced.buffer)
                                       ELSE Cardinality(synced.buffer) + 1
      BY <3>1, FS_AddElement
    <3>3. Cardinality(synced.buffer) \in Nat
      BY <3>1, FS_CardinalityType
    <3> QED BY <3>2, <3>3
  <2>2. synced \in Receivers /\ Cardinality(synced.buffer) < MaxPackets
    BY <1>3 DEF Settled
  <2>3. kept = [synced EXCEPT !.buffer = synced.buffer \cup {p},
                   !.primed = synced.primed
                                \/ Cardinality(synced.buffer \cup {p}) >= InitialPackets]
    BY DEF Buffered
  <2> HIDE DEF kept
  <2>4. kept \in Receivers /\ kept.initialized /\ kept.buffer = synced.buffer \cup {p}
        /\ kept.primed = (synced.primed \/ Cardinality(kept.buffer) >= InitialPackets)
    BY <1>3, <2>2, <2>3 DEF Receivers
  <2> QED BY <1>1, <2>1, <2>2, <2>4
<1> HIDE DEF kept
<1>5. CASE Late(known, p)
  <2>1. push = [rx |-> known, out |-> <<>>]
    BY <1>5 DEF PushPacket, known
  <2> QED BY <1>2, <2>1, EmptySeq
<1>6. CASE ~Late(known, p) /\ Held(synced, SeqOf(p))
  <2>1. push = [rx |-> synced, out |-> <<>>]
    BY <1>6 DEF PushPacket, known, synced
  <2> QED BY <1>3, <2>1, EmptySeq
<1>7. CASE ~Late(known, p) /\ ~Held(synced, SeqOf(p))
  <2>1. push = IF kept.primed THEN SkipLoss(DrainReady(kept)) ELSE [rx |-> kept, out |-> <<>>]
    BY <1>7 DEF PushPacket, known, synced, kept
  <2>2. CASE kept.primed
    BY <1>4, <2>1, <2>2, SkipLossSettles
  <2>3. CASE ~kept.primed
    <3>1. Cardinality(kept.buffer) < InitialPackets
      BY <1>1, <1>4, <2>3 DEF Receivers
    <3>2. Settled(kept)
      BY <1>1, <1>4, <2>3, <3>1 DEF Settled
    <3> QED BY <2>1, <2>3, <3>2, EmptySeq
  <2> QED BY <2>2, <2>3
<1> QED BY <1>5, <1>6, <1>7

-----------------------------------------------------------------------------
(* The states the audio of both directions can be in.                      *)
FlagsOK ==
    /\ started \in BOOLEAN /\ configured \in BOOLEAN /\ running \in BOOLEAN
    /\ captureActive \in BOOLEAN /\ playbackActive \in BOOLEAN /\ timeline \in BOOLEAN

PacketsOK ==
    /\ wire \subseteq Packets /\ batch \in Seq(Packets)
    /\ stream \in Nat \ {0} /\ sent \in Nat /\ origin \in Nat /\ origin <= sent

BatchInHand == rcv # "idle" => batch # <<>>

(* Where start and stop are, by the flags they have set.  While start      *)
(* decides on the playback pipeline no packet passes the test of a push,   *)
(* and capture is off when it begins.                                      *)
StartInOrder ==
    /\ ses \in {"capture", "playback", "run", "reset", "stop", "stopped"} => ~started
    /\ ses = "reset" \/ started => running
    /\ ses \in {"capture", "playback"} => ~playbackActive
    /\ ses = "capture" => ~captureActive

PushSpans == rcv = "push" /\ ses \in {"capture", "playback"} => spanned

CaptureState ==
    /\ ~started /\ ses \in {"idle", "capture", "forgetBuffer", "forgetTimeline"}
          => capture = "null"
    /\ ses \in {"playback", "run", "reset"} =>
          IF captureActive THEN capture = "flowing" \/ early ELSE capture = "null"

(* The timeline is behind the receiver only until it is cleared, too.      *)
TimelineFollows ==
    timeline => heard # None \/ stray \/ ses = "forgetTimeline" \/ tmr = "timeline"

Inv ==
    /\ FlagsOK /\ PacketsOK /\ BatchInHand /\ Settled(rx)
    /\ StartInOrder /\ PushSpans /\ SourceAliveInPush
    /\ CaptureState /\ UplinkFlows /\ TimelineFollows

(* The initial state.                                                      *)
LEMMA InvInit == Init => Inv
<1> SUFFICES ASSUME Init PROVE Inv
  OBVIOUS
<1> USE DEF Init
<1>1. FlagsOK
  BY DEF FlagsOK
<1>2. PacketsOK
  BY EmptySeq DEF PacketsOK
<1>3. Settled(rx)
  BY ResetIsSettled
<1>4. BatchInHand /\ StartInOrder /\ PushSpans /\ SourceAliveInPush /\ CaptureState
      /\ UplinkFlows /\ TimelineFollows
  BY DEF BatchInHand, StartInOrder, PushSpans, SourceAliveInPush, CaptureState, UplinkFlows,
         TimelineFollows
<1> QED BY <1>1, <1>2, <1>3, <1>4 DEF Inv

(* The flags.                                                              *)
LEMMA FlagsOKNext == Inv /\ Next => FlagsOK'
<1> SUFFICES ASSUME Inv, Next PROVE FlagsOK'
  OBVIOUS
<1> USE DEF Inv, FlagsOK, FlagsOK, module, manager, threads, receive, network, history
<1>1. CASE StartFlags
  BY <1>1 DEF StartFlags, Goto
<1>2. CASE StartCapture
  BY <1>2 DEF StartCapture, Goto
<1>3. CASE StartPlayback
  BY <1>3 DEF StartPlayback, Goto
<1>4. CASE StartRunning
  BY <1>4 DEF StartRunning, Goto
<1>5. CASE StartDone
  BY <1>5 DEF StartDone, Goto, ResetReceiver
<1>6. CASE TeardownStarted
  BY <1>6 DEF TeardownStarted, Begins
<1>7. CASE TeardownIdle
  BY <1>7 DEF TeardownIdle, Begins
<1>8. CASE NewPeer
  BY <1>8 DEF NewPeer, Begins
<1>9. CASE StopFlags
  BY <1>9 DEF StopFlags, Goto
<1>10. CASE StopPipelines
  BY <1>10 DEF StopPipelines, Goto
<1>11. CASE ForgetBuffer
  BY <1>11 DEF ForgetBuffer, Goto, ResetReceiver
<1>12. CASE ForgetTimeline
  BY <1>12 DEF ForgetTimeline
<1>13. CASE ApplyReady
  BY <1>13 DEF ApplyReady
<1>14. CASE ApplyBuffer
  BY <1>14 DEF ApplyBuffer, ResetReceiver
<1>15. CASE ApplyTimeline
  BY <1>15 DEF ApplyTimeline
<1>16. CASE Receive
  BY <1>16 DEF Receive
<1>17. CASE PlayTest
  BY <1>17 DEF PlayTest
<1>18. CASE PlayPush
  BY <1>18 DEF PlayPush
<1>19. CASE SampleRefused
  BY <1>19 DEF SampleRefused
<1>20. CASE Send
  BY <1>20 DEF Send
<1>21. ASSUME NEW p \in wire, Arrives(p) PROVE FlagsOK'
  BY <1>21 DEF Arrives
<1> QED BY <1>1, <1>2, <1>3, <1>4, <1>5, <1>6, <1>7, <1>8, <1>9, <1>10, <1>11, <1>12, <1>13,
           <1>14, <1>15, <1>16, <1>17, <1>18, <1>19, <1>20, <1>21
        DEF Next, Start, Stop, ApplyRemoteConfig, ReceiveThread

(* The packets on the wire and in hand.                                    *)
LEMMA PacketsOKNext == Inv /\ Next => PacketsOK'
<1> SUFFICES ASSUME Inv, Next PROVE PacketsOK'
  OBVIOUS
<1> USE DEF Inv, FlagsOK, PacketsOK, BatchInHand, module, manager, threads, receive, network,
        history
<1>1. CASE StartFlags
  BY <1>1 DEF StartFlags, Goto
<1>2. CASE StartCapture
  BY <1>2 DEF StartCapture, Goto
<1>3. CASE StartPlayback
  BY <1>3 DEF StartPlayback, Goto
<1>4. CASE StartRunning
  BY <1>4 DEF StartRunning, Goto
<1>5. CASE StartDone
  BY <1>5 DEF StartDone, Goto, ResetReceiver
<1>6. CASE TeardownStarted
  BY <1>6 DEF TeardownStarted, Begins
<1>7. CASE TeardownIdle
  BY <1>7 DEF TeardownIdle, Begins
<1>8. CASE NewPeer
  BY <1>8 DEF NewPeer, Begins
<1>9. CASE StopFlags
  BY <1>9 DEF StopFlags, Goto
<1>10. CASE StopPipelines
  BY <1>10 DEF StopPipelines, Goto
<1>11. CASE ForgetBuffer
  BY <1>11 DEF ForgetBuffer, Goto, ResetReceiver
<1>12. CASE ForgetTimeline
  BY <1>12 DEF ForgetTimeline
<1>13. CASE ApplyReady
  BY <1>13 DEF ApplyReady
<1>14. CASE ApplyBuffer
  BY <1>14 DEF ApplyBuffer, ResetReceiver
<1>15. CASE ApplyTimeline
  BY <1>15 DEF ApplyTimeline
<1>16. CASE Receive
  <2>1. Head(batch) \in Packets
    BY <1>16 DEF Receive
  <2>2. batch' \in Seq(Packets)
    BY <1>16, <2>1, PushSettles DEF Receive
  <2> QED BY <1>16, <2>2 DEF Receive
<1>17. CASE PlayTest
  <2>1. Tail(batch) \in Seq(Packets)
    BY <1>17 DEF PlayTest
  <2>2. batch' \in Seq(Packets)
    BY <1>17, <2>1 DEF PlayTest
  <2> QED BY <1>17, <2>2 DEF PlayTest
<1>18. CASE PlayPush
  BY <1>18 DEF PlayPush
<1>19. CASE SampleRefused
  BY <1>19 DEF SampleRefused
<1>20. CASE Send
  <2>1. [stream |-> stream, n |-> FirstIndex + sent - origin] \in Packets
    BY AudioConstants DEF AudioConstants, Packets
  <2> QED BY <1>20, <2>1 DEF Send
<1>21. ASSUME NEW p \in wire, Arrives(p) PROVE PacketsOK'
  <2>1. batch' \in Seq(Packets)
    <3>1. <<p>> \in Seq(Packets)
      OBVIOUS
    <3> QED BY <1>21, <3>1 DEF Arrives
  <2>2. wire' \subseteq Packets
    BY <1>21 DEF Arrives
  <2> QED BY <1>21, <2>1, <2>2 DEF Arrives
<1> QED BY <1>1, <1>2, <1>3, <1>4, <1>5, <1>6, <1>7, <1>8, <1>9, <1>10, <1>11, <1>12, <1>13,
           <1>14, <1>15, <1>16, <1>17, <1>18, <1>19, <1>20, <1>21
        DEF Next, Start, Stop, ApplyRemoteConfig, ReceiveThread

(* The receive thread has a packet in hand.                                *)
LEMMA BatchInHandNext == Inv /\ Next => BatchInHand'
<1> SUFFICES ASSUME Inv, Next PROVE BatchInHand'
  OBVIOUS
<1> USE DEF Inv, FlagsOK, BatchInHand, module, manager, threads, receive, network, history
<1>1. CASE StartFlags
  BY <1>1 DEF StartFlags, Goto
<1>2. CASE StartCapture
  BY <1>2 DEF StartCapture, Goto
<1>3. CASE StartPlayback
  BY <1>3 DEF StartPlayback, Goto
<1>4. CASE StartRunning
  BY <1>4 DEF StartRunning, Goto
<1>5. CASE StartDone
  BY <1>5 DEF StartDone, Goto, ResetReceiver
<1>6. CASE TeardownStarted
  BY <1>6 DEF TeardownStarted, Begins
<1>7. CASE TeardownIdle
  BY <1>7 DEF TeardownIdle, Begins
<1>8. CASE NewPeer
  BY <1>8 DEF NewPeer, Begins
<1>9. CASE StopFlags
  BY <1>9 DEF StopFlags, Goto
<1>10. CASE StopPipelines
  BY <1>10 DEF StopPipelines, Goto
<1>11. CASE ForgetBuffer
  BY <1>11 DEF ForgetBuffer, Goto, ResetReceiver
<1>12. CASE ForgetTimeline
  BY <1>12 DEF ForgetTimeline
<1>13. CASE ApplyReady
  BY <1>13 DEF ApplyReady
<1>14. CASE ApplyBuffer
  BY <1>14 DEF ApplyBuffer, ResetReceiver
<1>15. CASE ApplyTimeline
  BY <1>15 DEF ApplyTimeline
<1>16. CASE Receive
  BY <1>16 DEF Receive
<1>17. CASE PlayTest
  BY <1>17 DEF PlayTest
<1>18. CASE PlayPush
  BY <1>18 DEF PlayPush
<1>19. CASE SampleRefused
  BY <1>19 DEF SampleRefused
<1>20. CASE Send
  BY <1>20 DEF Send
<1>21. ASSUME NEW p \in wire, Arrives(p) PROVE BatchInHand'
  BY <1>21 DEF Arrives
<1> QED BY <1>1, <1>2, <1>3, <1>4, <1>5, <1>6, <1>7, <1>8, <1>9, <1>10, <1>11, <1>12, <1>13,
           <1>14, <1>15, <1>16, <1>17, <1>18, <1>19, <1>20, <1>21
        DEF Next, Start, Stop, ApplyRemoteConfig, ReceiveThread

(* The order of start and stop.                                            *)
LEMMA StartInOrderNext == Inv /\ Next => StartInOrder'
<1> SUFFICES ASSUME Inv, Next PROVE StartInOrder'
  OBVIOUS
<1> USE DEF Inv, FlagsOK, StartInOrder, module, manager, threads, receive, network, history
<1>1. CASE StartFlags
  BY <1>1 DEF StartFlags, Goto
<1>2. CASE StartCapture
  BY <1>2 DEF StartCapture, Goto
<1>3. CASE StartPlayback
  BY <1>3 DEF StartPlayback, Goto
<1>4. CASE StartRunning
  BY <1>4 DEF StartRunning, Goto
<1>5. CASE StartDone
  BY <1>5 DEF StartDone, Goto, ResetReceiver
<1>6. CASE TeardownStarted
  BY <1>6 DEF TeardownStarted, Begins
<1>7. CASE TeardownIdle
  BY <1>7 DEF TeardownIdle, Begins
<1>8. CASE NewPeer
  BY <1>8 DEF NewPeer, Begins
<1>9. CASE StopFlags
  BY <1>9 DEF StopFlags, Goto
<1>10. CASE StopPipelines
  BY <1>10 DEF StopPipelines, Goto
<1>11. CASE ForgetBuffer
  BY <1>11 DEF ForgetBuffer, Goto, ResetReceiver
<1>12. CASE ForgetTimeline
  BY <1>12 DEF ForgetTimeline
<1>13. CASE ApplyReady
  BY <1>13 DEF ApplyReady
<1>14. CASE ApplyBuffer
  BY <1>14 DEF ApplyBuffer, ResetReceiver
<1>15. CASE ApplyTimeline
  BY <1>15 DEF ApplyTimeline
<1>16. CASE Receive
  BY <1>16 DEF Receive
<1>17. CASE PlayTest
  BY <1>17 DEF PlayTest
<1>18. CASE PlayPush
  BY <1>18 DEF PlayPush
<1>19. CASE SampleRefused
  BY <1>19 DEF SampleRefused
<1>20. CASE Send
  BY <1>20 DEF Send
<1>21. ASSUME NEW p \in wire, Arrives(p) PROVE StartInOrder'
  BY <1>21 DEF Arrives
<1> QED BY <1>1, <1>2, <1>3, <1>4, <1>5, <1>6, <1>7, <1>8, <1>9, <1>10, <1>11, <1>12, <1>13,
           <1>14, <1>15, <1>16, <1>17, <1>18, <1>19, <1>20, <1>21
        DEF Next, Start, Stop, ApplyRemoteConfig, ReceiveThread

(* A push that start finds.                                                *)
LEMMA PushSpansNext == Inv /\ Next => PushSpans'
<1> SUFFICES ASSUME Inv, Next PROVE PushSpans'
  OBVIOUS
<1> USE DEF Inv, FlagsOK, StartInOrder, PushSpans, module, manager, threads, receive, network,
        history
<1>1. CASE StartFlags
  BY <1>1 DEF StartFlags, Goto
<1>2. CASE StartCapture
  BY <1>2 DEF StartCapture, Goto
<1>3. CASE StartPlayback
  BY <1>3 DEF StartPlayback, Goto
<1>4. CASE StartRunning
  BY <1>4 DEF StartRunning, Goto
<1>5. CASE StartDone
  BY <1>5 DEF StartDone, Goto, ResetReceiver
<1>6. CASE TeardownStarted
  BY <1>6 DEF TeardownStarted, Begins
<1>7. CASE TeardownIdle
  BY <1>7 DEF TeardownIdle, Begins
<1>8. CASE NewPeer
  BY <1>8 DEF NewPeer, Begins
<1>9. CASE StopFlags
  BY <1>9 DEF StopFlags, Goto
<1>10. CASE StopPipelines
  BY <1>10 DEF StopPipelines, Goto
<1>11. CASE ForgetBuffer
  BY <1>11 DEF ForgetBuffer, Goto, ResetReceiver
<1>12. CASE ForgetTimeline
  BY <1>12 DEF ForgetTimeline
<1>13. CASE ApplyReady
  BY <1>13 DEF ApplyReady
<1>14. CASE ApplyBuffer
  BY <1>14 DEF ApplyBuffer, ResetReceiver
<1>15. CASE ApplyTimeline
  BY <1>15 DEF ApplyTimeline
<1>16. CASE Receive
  BY <1>16 DEF Receive
<1>17. CASE PlayTest
  BY <1>17 DEF PlayTest
<1>18. CASE PlayPush
  BY <1>18 DEF PlayPush
<1>19. CASE SampleRefused
  BY <1>19 DEF SampleRefused
<1>20. CASE Send
  BY <1>20 DEF Send
<1>21. ASSUME NEW p \in wire, Arrives(p) PROVE PushSpans'
  BY <1>21 DEF Arrives
<1> QED BY <1>1, <1>2, <1>3, <1>4, <1>5, <1>6, <1>7, <1>8, <1>9, <1>10, <1>11, <1>12, <1>13,
           <1>14, <1>15, <1>16, <1>17, <1>18, <1>19, <1>20, <1>21
        DEF Next, Start, Stop, ApplyRemoteConfig, ReceiveThread

(* The playback source.                                                    *)
LEMMA SourceAliveInPushNext == Inv /\ Next => SourceAliveInPush'
<1> SUFFICES ASSUME Inv, Next PROVE SourceAliveInPush'
  OBVIOUS
<1> USE DEF Inv, FlagsOK, StartInOrder, PushSpans, SourceAliveInPush, module, manager, threads,
        receive, network, history
<1>1. CASE StartFlags
  BY <1>1 DEF StartFlags, Goto
<1>2. CASE StartCapture
  BY <1>2 DEF StartCapture, Goto
<1>3. CASE StartPlayback
  BY <1>3 DEF StartPlayback, Goto
<1>4. CASE StartRunning
  BY <1>4 DEF StartRunning, Goto
<1>5. CASE StartDone
  BY <1>5 DEF StartDone, Goto, ResetReceiver
<1>6. CASE TeardownStarted
  BY <1>6 DEF TeardownStarted, Begins
<1>7. CASE TeardownIdle
  BY <1>7 DEF TeardownIdle, Begins
<1>8. CASE NewPeer
  BY <1>8 DEF NewPeer, Begins
<1>9. CASE StopFlags
  BY <1>9 DEF StopFlags, Goto
<1>10. CASE StopPipelines
  BY <1>10 DEF StopPipelines, Goto
<1>11. CASE ForgetBuffer
  BY <1>11 DEF ForgetBuffer, Goto, ResetReceiver
<1>12. CASE ForgetTimeline
  BY <1>12 DEF ForgetTimeline
<1>13. CASE ApplyReady
  BY <1>13 DEF ApplyReady
<1>14. CASE ApplyBuffer
  BY <1>14 DEF ApplyBuffer, ResetReceiver
<1>15. CASE ApplyTimeline
  BY <1>15 DEF ApplyTimeline
<1>16. CASE Receive
  BY <1>16 DEF Receive
<1>17. CASE PlayTest
  BY <1>17 DEF PlayTest
<1>18. CASE PlayPush
  BY <1>18 DEF PlayPush
<1>19. CASE SampleRefused
  BY <1>19 DEF SampleRefused
<1>20. CASE Send
  BY <1>20 DEF Send
<1>21. ASSUME NEW p \in wire, Arrives(p) PROVE SourceAliveInPush'
  BY <1>21 DEF Arrives
<1> QED BY <1>1, <1>2, <1>3, <1>4, <1>5, <1>6, <1>7, <1>8, <1>9, <1>10, <1>11, <1>12, <1>13,
           <1>14, <1>15, <1>16, <1>17, <1>18, <1>19, <1>20, <1>21
        DEF Next, Start, Stop, ApplyRemoteConfig, ReceiveThread

(* The capture pipeline.                                                   *)
LEMMA CaptureStateNext == Inv /\ Next => CaptureState'
<1> SUFFICES ASSUME Inv, Next PROVE CaptureState'
  OBVIOUS
<1> USE DEF Inv, FlagsOK, StartInOrder, CaptureState, module, manager, threads, receive,
        network, history
<1>1. CASE StartFlags
  BY <1>1 DEF StartFlags, Goto
<1>2. CASE StartCapture
  BY <1>2 DEF StartCapture, Goto
<1>3. CASE StartPlayback
  BY <1>3 DEF StartPlayback, Goto
<1>4. CASE StartRunning
  BY <1>4 DEF StartRunning, Goto
<1>5. CASE StartDone
  BY <1>5 DEF StartDone, Goto, ResetReceiver
<1>6. CASE TeardownStarted
  BY <1>6 DEF TeardownStarted, Begins
<1>7. CASE TeardownIdle
  BY <1>7 DEF TeardownIdle, Begins
<1>8. CASE NewPeer
  BY <1>8 DEF NewPeer, Begins
<1>9. CASE StopFlags
  BY <1>9 DEF StopFlags, Goto
<1>10. CASE StopPipelines
  BY <1>10 DEF StopPipelines, Goto
<1>11. CASE ForgetBuffer
  BY <1>11 DEF ForgetBuffer, Goto, ResetReceiver
<1>12. CASE ForgetTimeline
  BY <1>12 DEF ForgetTimeline
<1>13. CASE ApplyReady
  BY <1>13 DEF ApplyReady
<1>14. CASE ApplyBuffer
  BY <1>14 DEF ApplyBuffer, ResetReceiver
<1>15. CASE ApplyTimeline
  BY <1>15 DEF ApplyTimeline
<1>16. CASE Receive
  BY <1>16 DEF Receive
<1>17. CASE PlayTest
  BY <1>17 DEF PlayTest
<1>18. CASE PlayPush
  BY <1>18 DEF PlayPush
<1>19. CASE SampleRefused
  BY <1>19 DEF SampleRefused
<1>20. CASE Send
  BY <1>20 DEF Send
<1>21. ASSUME NEW p \in wire, Arrives(p) PROVE CaptureState'
  BY <1>21 DEF Arrives
<1> QED BY <1>1, <1>2, <1>3, <1>4, <1>5, <1>6, <1>7, <1>8, <1>9, <1>10, <1>11, <1>12, <1>13,
           <1>14, <1>15, <1>16, <1>17, <1>18, <1>19, <1>20, <1>21
        DEF Next, Start, Stop, ApplyRemoteConfig, ReceiveThread

(* The uplink.                                                             *)
LEMMA UplinkFlowsNext == Inv /\ Next => UplinkFlows'
<1> SUFFICES ASSUME Inv, Next PROVE UplinkFlows'
  OBVIOUS
<1> USE DEF Inv, FlagsOK, StartInOrder, CaptureState, UplinkFlows, module, manager, threads,
        receive, network, history
<1>1. CASE StartFlags
  BY <1>1 DEF StartFlags, Goto
<1>2. CASE StartCapture
  BY <1>2 DEF StartCapture, Goto
<1>3. CASE StartPlayback
  BY <1>3 DEF StartPlayback, Goto
<1>4. CASE StartRunning
  BY <1>4 DEF StartRunning, Goto
<1>5. CASE StartDone
  BY <1>5 DEF StartDone, Goto, ResetReceiver
<1>6. CASE TeardownStarted
  BY <1>6 DEF TeardownStarted, Begins
<1>7. CASE TeardownIdle
  BY <1>7 DEF TeardownIdle, Begins
<1>8. CASE NewPeer
  BY <1>8 DEF NewPeer, Begins
<1>9. CASE StopFlags
  BY <1>9 DEF StopFlags, Goto
<1>10. CASE StopPipelines
  BY <1>10 DEF StopPipelines, Goto
<1>11. CASE ForgetBuffer
  BY <1>11 DEF ForgetBuffer, Goto, ResetReceiver
<1>12. CASE ForgetTimeline
  BY <1>12 DEF ForgetTimeline
<1>13. CASE ApplyReady
  BY <1>13 DEF ApplyReady
<1>14. CASE ApplyBuffer
  BY <1>14 DEF ApplyBuffer, ResetReceiver
<1>15. CASE ApplyTimeline
  BY <1>15 DEF ApplyTimeline
<1>16. CASE Receive
  BY <1>16 DEF Receive
<1>17. CASE PlayTest
  BY <1>17 DEF PlayTest
<1>18. CASE PlayPush
  BY <1>18 DEF PlayPush
<1>19. CASE SampleRefused
  BY <1>19 DEF SampleRefused
<1>20. CASE Send
  BY <1>20 DEF Send
<1>21. ASSUME NEW p \in wire, Arrives(p) PROVE UplinkFlows'
  BY <1>21 DEF Arrives
<1> QED BY <1>1, <1>2, <1>3, <1>4, <1>5, <1>6, <1>7, <1>8, <1>9, <1>10, <1>11, <1>12, <1>13,
           <1>14, <1>15, <1>16, <1>17, <1>18, <1>19, <1>20, <1>21
        DEF Next, Start, Stop, ApplyRemoteConfig, ReceiveThread

(* The timeline.                                                           *)
LEMMA TimelineFollowsNext == Inv /\ Next => TimelineFollows'
<1> SUFFICES ASSUME Inv, Next PROVE TimelineFollows'
  OBVIOUS
<1> USE DEF Inv, FlagsOK, BatchInHand, PacketsOK, TimelineFollows, module, manager, threads,
        receive, network, history
<1>1. CASE StartFlags
  BY <1>1 DEF StartFlags, Goto
<1>2. CASE StartCapture
  BY <1>2 DEF StartCapture, Goto
<1>3. CASE StartPlayback
  BY <1>3 DEF StartPlayback, Goto
<1>4. CASE StartRunning
  BY <1>4 DEF StartRunning, Goto
<1>5. CASE StartDone
  BY <1>5 DEF StartDone, Goto, ResetReceiver
<1>6. CASE TeardownStarted
  BY <1>6 DEF TeardownStarted, Begins
<1>7. CASE TeardownIdle
  BY <1>7 DEF TeardownIdle, Begins
<1>8. CASE NewPeer
  BY <1>8 DEF NewPeer, Begins
<1>9. CASE StopFlags
  BY <1>9 DEF StopFlags, Goto
<1>10. CASE StopPipelines
  BY <1>10 DEF StopPipelines, Goto
<1>11. CASE ForgetBuffer
  BY <1>11 DEF ForgetBuffer, Goto, ResetReceiver
<1>12. CASE ForgetTimeline
  BY <1>12 DEF ForgetTimeline
<1>13. CASE ApplyReady
  BY <1>13 DEF ApplyReady
<1>14. CASE ApplyBuffer
  BY <1>14 DEF ApplyBuffer, ResetReceiver
<1>15. CASE ApplyTimeline
  BY <1>15 DEF ApplyTimeline
<1>16. CASE Receive
  BY <1>16 DEF Receive
<1>17. CASE PlayTest
  BY <1>17 DEF PlayTest
<1>18. CASE PlayPush
  <2>1. Head(batch) \in Packets
    BY <1>18 DEF PlayPush
  <2>2. Head(batch) # None
    BY <2>1 DEF Packets, None
  <2> QED BY <1>18, <2>2 DEF PlayPush
<1>19. CASE SampleRefused
  BY <1>19 DEF SampleRefused
<1>20. CASE Send
  BY <1>20 DEF Send
<1>21. ASSUME NEW p \in wire, Arrives(p) PROVE TimelineFollows'
  BY <1>21 DEF Arrives
<1> QED BY <1>1, <1>2, <1>3, <1>4, <1>5, <1>6, <1>7, <1>8, <1>9, <1>10, <1>11, <1>12, <1>13,
           <1>14, <1>15, <1>16, <1>17, <1>18, <1>19, <1>20, <1>21
        DEF Next, Start, Stop, ApplyRemoteConfig, ReceiveThread

(* The receiver.                                                           *)
LEMMA SettledNext == Inv /\ Next => Settled(rx')
<1> SUFFICES ASSUME Inv, Next PROVE Settled(rx')
  OBVIOUS
<1>1. \/ UNCHANGED rx \/ rx' = EmptyReceiver
      \/ rcv = "buffer" /\ rx' = PushPacket(rx, Head(batch)).rx
  BY DEF Next, Start, Stop, ApplyRemoteConfig, ReceiveThread, StartFlags, StartCapture,
     StartPlayback, StartRunning, StartDone, TeardownStarted, TeardownIdle, NewPeer, StopFlags,
     StopPipelines, ForgetBuffer, ForgetTimeline, ApplyReady, ApplyBuffer, ApplyTimeline,
     Receive, PlayTest, PlayPush, SampleRefused, Send, Arrives, ResetReceiver, module
<1>2. rcv = "buffer" => Head(batch) \in Packets
  BY DEF Inv, PacketsOK, BatchInHand
<1> QED BY <1>1, <1>2, PushSettles, ResetIsSettled DEF Inv

-----------------------------------------------------------------------------
\* Every step preserves the invariant.
LEMMA InvNext == Inv /\ [Next]_vars => Inv'
<1> SUFFICES ASSUME Inv, [Next]_vars PROVE Inv'
  OBVIOUS
<1>1. CASE Next
  BY <1>1, FlagsOKNext, PacketsOKNext, BatchInHandNext, SettledNext, StartInOrderNext,
     PushSpansNext, SourceAliveInPushNext, CaptureStateNext, UplinkFlowsNext,
     TimelineFollowsNext DEF Inv
<1>2. CASE UNCHANGED vars
  BY <1>2 DEF vars, module, manager, threads, receive, network, history, Inv, FlagsOK,
     PacketsOK, BatchInHand, StartInOrder, PushSpans, SourceAliveInPush, CaptureState,
     UplinkFlows, TimelineFollows
<1> QED BY <1>1, <1>2

(* Every state of the audio threads satisfies the invariant.               *)
THEOREM AudioInvariant == Spec => []Inv
  BY InvInit, InvNext, PTL DEF Spec

(* Between two calls of pushPacket the buffer is below its limit and does  *)
(* not hold the packet that is next to be played.                          *)
THEOREM BufferNeverStalls == Spec => []BufferMoves
<1>1. Inv => BufferMoves
  BY DEF Inv, Settled, BufferMoves
<1> QED BY <1>1, AudioInvariant, PTL

(* The playback timeline starts at a packet of the current receiver.       *)
THEOREM TimelineIsFresh == Spec => []TimelineStartsFresh
<1>1. Inv => TimelineStartsFresh
  BY DEF Inv, TimelineFollows, TimelineStartsFresh
<1> QED BY <1>1, AudioInvariant, PTL

(* startPipelines does not destroy the playback source under a push.       *)
THEOREM SourceOutlivesPush == Spec => []SourceAliveInPush
<1>1. Inv => SourceAliveInPush
  BY DEF Inv
<1> QED BY <1>1, AudioInvariant, PTL

(* A started module's uplink flows, or a sample that came too early ended  *)
(* it.                                                                     *)
THEOREM UplinkKeepsFlowing == Spec => []UplinkFlows
<1>1. Inv => UplinkFlows
  BY DEF Inv
<1> QED BY <1>1, AudioInvariant, PTL
=============================================================================
