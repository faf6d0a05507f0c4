---------------------------- MODULE AudioReceiver ----------------------------
(***************************************************************************)
(* The jitter buffer of remote audio, AudioReceiver: what one pushPacket   *)
(* does to the buffer under the lock, and which packets it hands on.       *)
(*                                                                         *)
(* A packet is [stream, n]: the n-th packet of a sender.  The code sees    *)
(* only its 16-bit number, n modulo SeqMod; the index is kept so that the  *)
(* order of what is played can be judged.                                  *)
(***************************************************************************)
EXTENDS Integers, FiniteSets, Sequences

CONSTANTS
    SeqMod,             \* 2^16 in the code: sequence numbers wrap here
    InitialPackets,     \* initial_buffer_packets_
    MaxPackets,         \* max_buffer_packets_
    MaxSequenceGap      \* config_.max_sequence_gap

(* The constructor's std::max: at least one packet, and room for one more. *)
(* A gap is told from a late packet by the sign of a 16-bit difference.    *)
ASSUME ReceiverConstants ==
    /\ InitialPackets \in Nat \ {0}
    /\ MaxPackets \in Nat /\ MaxPackets > InitialPackets
    /\ MaxSequenceGap \in Nat \ {0}
    /\ SeqMod \in Nat /\ SeqMod > 2 * MaxPackets /\ SeqMod > 2 * MaxSequenceGap + 2
    /\ SeqMod % 2 = 0

Num(i) == i % SeqMod
SeqOf(p) == Num(p.n)

(* The difference as a signed number of the same width.                    *)
SeqDelta(lhs, rhs) == Num(lhs - rhs + SeqMod \div 2) - SeqMod \div 2

(* reset: nothing is buffered, and the next packet sets expected_seq_.     *)
EmptyReceiver == [initialized |-> FALSE, primed |-> FALSE, expected |-> 0, buffer |-> {}]

Held(rx, s) == \E p \in rx.buffer : SeqOf(p) = s

(* How many packets are there from expected_seq_ on without a hole.        *)
ReadyCount(rx) ==
    CHOOSE k \in 0 .. Cardinality(rx.buffer) :
        /\ \A i \in 0 .. k - 1 : Held(rx, Num(rx.expected + i))
        /\ ~Held(rx, Num(rx.expected + k))

DrainReady(rx) ==
    LET k == ReadyCount(rx)
        out == [i \in 1 .. k |->
                  CHOOSE p \in rx.buffer : SeqOf(p) = Num(rx.expected + i - 1)]
    IN  [rx  |-> [rx EXCEPT !.expected = Num(@ + k),
                            !.buffer = @ \ {out[i] : i \in 1 .. k}],
         out |-> out]

(* The buffer is a std::map ordered by number: begin() is the smallest     *)
(* number, which after a wrap is not the oldest packet.                    *)
First(rx) == CHOOSE p \in rx.buffer : \A q \in rx.buffer : SeqOf(p) <= SeqOf(q)

(* maybeSkipLossLocked: a full buffer gives the missing packets up.  The   *)
(* loop runs at most once, since a push adds one packet to a buffer that   *)
(* was not full and a drain from First takes one out.                      *)
SkipsLoss(rx) == Cardinality(rx.buffer) >= MaxPackets

\* Mutant: one packet too many before a loss is given up.
SkipLossLate(d) ==
    IF Cardinality(d.rx.buffer) > MaxPackets
    THEN LET e == DrainReady([d.rx EXCEPT !.expected = SeqOf(First(d.rx))])
         IN  [rx |-> e.rx, out |-> d.out \o e.out]
    ELSE d

SkipLoss(d) ==
    IF SkipsLoss(d.rx)
    THEN LET e == DrainReady([d.rx EXCEPT !.expected = SeqOf(First(d.rx))])
         IN  [rx |-> e.rx, out |-> d.out \o e.out]
    ELSE d

\* Mutant: an empty buffer starts over at any packet.
InitializedWhenEmpty(rx, p) ==
    IF rx.initialized /\ rx.buffer # {} THEN rx
    ELSE [rx EXCEPT !.initialized = TRUE, !.primed = FALSE, !.expected = SeqOf(p)]

(* A receiver without packets takes the first number it sees.              *)
Initialized(rx, p) ==
    IF rx.initialized THEN rx
    ELSE [rx EXCEPT !.initialized = TRUE, !.primed = FALSE, !.expected = SeqOf(p)]

Late(rx, p) == SeqDelta(SeqOf(p), rx.expected) < 0

(* A jump beyond the gap drops what is buffered and starts again at p.     *)
Resynchronized(rx, p) ==
    IF SeqDelta(SeqOf(p), rx.expected) > MaxSequenceGap
    THEN [rx EXCEPT !.buffer = {}, !.primed = FALSE, !.expected = SeqOf(p)]
    ELSE rx

Buffered(rx, p) ==
    LET held == rx.buffer \cup {p}
    IN  [rx EXCEPT !.buffer = held, !.primed = @ \/ Cardinality(held) >= InitialPackets]

(* pushPacket: the receiver after it and the packets for the playback      *)
(* callback, which is called once the lock is released.                    *)
PushPacket(rx, p) ==
    LET known == Initialized(rx, p)
        synced == Resynchronized(known, p)
        kept == Buffered(synced, p)
    IN  CASE Late(known, p) -> [rx |-> known, out |-> <<>>]
          [] ~Late(known, p) /\ Held(synced, SeqOf(p)) -> [rx |-> synced, out |-> <<>>]
          [] OTHER -> IF kept.primed THEN SkipLoss(DrainReady(kept))
                                     ELSE [rx |-> kept, out |-> <<>>]

(* The push gives up a loss while the buffer holds numbers of both sides   *)
(* of the wrap: First is then not the packet next after the loss.          *)
SkipsAcrossWrap(rx, p) ==
    LET kept == Buffered(Resynchronized(Initialized(rx, p), p), p)
        d == DrainReady(kept)
    IN  /\ ~Late(Initialized(rx, p), p) /\ kept.primed /\ SkipsLoss(d.rx)
        /\ \E q \in d.rx.buffer :
              SeqDelta(SeqOf(q), d.rx.expected) < SeqDelta(SeqOf(First(d.rx)), d.rx.expected)
=============================================================================
