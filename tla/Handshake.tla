------------------------------ MODULE Handshake ------------------------------
(***************************************************************************)
(* The UDP handshake: ControlPlane (HELLO, PING, loss of the peer), the    *)
(* part of UdpManager and UdpModule that starts, resets and stops it, and  *)
(* the timer that tells MainNode when the peer has answered.               *)
(*                                                                         *)
(* Three threads share two atomics, handshake_ready_ and                   *)
(* last_ack_steady_us_, and write them one after the other: the receive    *)
(* thread, the control thread and the executor, which runs resetSession,   *)
(* stop and the handshake timer one at a time.  Each load and each store   *)
(* is a step.                                                              *)
(*                                                                         *)
(* A time of last activity is none (0), recent, or older than the timeout. *)
(* HELLO and PING differ only in when they are sent; an ACK answers either *)
(* and carries no session, so that an ACK of before a reset counts.        *)
(***************************************************************************)
EXTENDS Naturals

CONSTANTS
    MaxAcks,    \* bound: ACKs on the wire
    MaxResets,  \* bound: resets and stops asked for by the session
    MaxFlips    \* bound: times the peer goes away or comes back

ASSUME HandshakeConstants == MaxAcks \in Nat \ {0} /\ {MaxResets, MaxFlips} \subseteq Nat

VARIABLES
    ready,      \* handshake_ready_
    last,       \* last_ack_steady_us_
    fired,      \* UdpModule::ready_fired_
    armed,      \* the handshake timer runs
    run,        \* UdpManager: "up", "stopping" (running is false), "down" (destroyed)
    exec,       \* where the executor is
    ctl,        \* where the control thread is
    rcv,        \* where the receive thread is
    posted,     \* peer losses posted to the session work queue, and not handled
    ignored,    \* the session has left a peer loss without a reset
    acks,       \* ACKs on the wire
    asked,      \* the peer has a HELLO or a PING to answer
    peer,       \* "up" or "down"
    resets, flips

atomics == <<ready, last>>
module  == <<fired, armed, run>>
session == <<posted, ignored>>
network == <<acks, asked, peer, flips>>
vars == <<atomics, module, exec, ctl, rcv, session, network, resets>>

Init ==
    /\ ready = FALSE /\ last = "none" /\ fired = FALSE /\ armed = TRUE /\ run = "up"
    /\ exec = "idle" /\ ctl = "top" /\ rcv = "idle"
    /\ posted = FALSE /\ ignored = FALSE
    /\ acks = 0 /\ asked = FALSE /\ peer = "up" /\ resets = 0 /\ flips = 0

-----------------------------------------------------------------------------
(* ControlPlane::threadMain.                                               *)

(* A message to the peer: it arrives, or it is lost.                       *)
Send == asked' \in {asked, peer = "up"} /\ UNCHANGED <<acks, peer, flips>>

\* Mutant: HELLO is sent only while the timer waits.
CtlHelloWhileArmed ==
    /\ ctl = "top" /\ run = "up" /\ ~ready
    /\ IF armed THEN Send ELSE UNCHANGED network
    /\ UNCHANGED <<atomics, module, exec, ctl, rcv, session, resets>>

CtlHello ==
    /\ ctl = "top" /\ run = "up" /\ ~ready
    /\ Send
    /\ UNCHANGED <<atomics, module, exec, ctl, rcv, session, resets>>

CtlReady ==
    /\ ctl = "top" /\ run = "up" /\ ready
    /\ ctl' = "check"
    /\ UNCHANGED <<atomics, module, exec, rcv, session, network, resets>>

\* Mutant: the silence of the peer is not tested.
CtlPingWithoutTest ==
    /\ ctl = "check"
    /\ Send /\ ctl' = "top"
    /\ UNCHANGED <<atomics, module, exec, rcv, session, resets>>

CtlPing ==
    /\ ctl = "check" /\ last # "old"
    /\ Send /\ ctl' = "top"
    /\ UNCHANGED <<atomics, module, exec, rcv, session, resets>>

CtlLost ==
    /\ ctl = "check" /\ last = "old"
    /\ ctl' = "roll"
    /\ UNCHANGED <<atomics, module, exec, rcv, session, network, resets>>

CtlRollBack ==
    /\ ctl = "roll"
    /\ ready' = FALSE /\ ctl' = "zero"
    /\ UNCHANGED <<last, module, exec, rcv, session, network, resets>>

CtlForget ==
    /\ ctl = "zero"
    /\ last' = "none" /\ ctl' = "report"
    /\ UNCHANGED <<ready, module, exec, rcv, session, network, resets>>

\* Mutant: the control thread waits for the session.
CtlReportWaiting ==
    /\ ctl = "report"
    /\ IF exec = "idle" THEN fired' = FALSE /\ posted' = TRUE /\ ctl' = "top"
                        ELSE UNCHANGED <<fired, posted, ctl>>
    /\ UNCHANGED <<atomics, armed, run, exec, rcv, ignored, network, resets>>

(* The peer-lost callback of UdpModule, which posts to the session queue.  *)
CtlReport ==
    /\ ctl = "report"
    /\ fired' = FALSE /\ posted' = TRUE /\ ctl' = "top"
    /\ UNCHANGED <<atomics, armed, run, exec, rcv, ignored, network, resets>>

CtlExit ==
    /\ ctl = "top" /\ run = "stopping"
    /\ ctl' = "done"
    /\ UNCHANGED <<atomics, module, exec, rcv, session, network, resets>>

ControlThread ==
    \/ CtlHello \/ CtlReady \/ CtlPing \/ CtlLost \/ CtlRollBack \/ CtlForget
    \/ CtlReport \/ CtlExit

-----------------------------------------------------------------------------
(* UdpManager::recvThreadMain.                                             *)

(* onAckReceived, first store.                                             *)
RecvAck ==
    /\ rcv = "idle" /\ run # "down" /\ acks > 0
    /\ acks' = acks - 1 /\ last' = "recent" /\ rcv' = "ack"
    /\ UNCHANGED <<ready, module, exec, ctl, session, asked, peer, flips, resets>>

(* onAckReceived, second store.                                            *)
RecvReady ==
    /\ rcv = "ack"
    /\ ready' = TRUE /\ rcv' = "idle"
    /\ UNCHANGED <<last, module, exec, ctl, session, network, resets>>

(* Any other datagram: onPeerActivity.                                     *)
RecvData ==
    /\ rcv = "idle" /\ run # "down" /\ peer = "up" /\ ready
    /\ rcv' = "activity"
    /\ UNCHANGED <<atomics, module, exec, ctl, session, network, resets>>

RecvActivity ==
    /\ rcv = "activity"
    /\ last' = "recent" /\ rcv' = "idle"
    /\ UNCHANGED <<ready, module, exec, ctl, session, network, resets>>

RecvExit ==
    /\ rcv = "idle" /\ run = "stopping"
    /\ rcv' = "done"
    /\ UNCHANGED <<atomics, module, exec, ctl, session, network, resets>>

-----------------------------------------------------------------------------
(* The executor: UdpModule::resetSession, stop, start, and the timer.      *)

(* UdpManager::resetSession up to the first store of resetHandshake.       *)
BeginReset ==
    /\ ready' = FALSE /\ exec' = "reset" /\ ignored' = FALSE
    /\ UNCHANGED <<last, module, ctl, rcv, network>>

ResetSession ==
    /\ exec = "idle" /\ run = "up" /\ resets < MaxResets
    /\ resets' = resets + 1 /\ BeginReset /\ UNCHANGED posted

ResetForget ==
    /\ exec = "reset"
    /\ last' = "none" /\ exec' = "rearm"
    /\ UNCHANGED <<ready, module, ctl, rcv, session, network, resets>>

ResetRearm ==
    /\ exec = "rearm"
    /\ fired' = FALSE /\ armed' = TRUE /\ exec' = "idle"
    /\ UNCHANGED <<atomics, run, ctl, rcv, session, network, resets>>

(* handleUdpPeerLost: an active session is torn down, which resets the     *)
(* transport; in any other state nothing is done.                          *)
HandlePeerLost ==
    /\ exec = "idle" /\ posted /\ posted' = FALSE
    /\ \/ run = "up" /\ BeginReset
       \/ ignored' = TRUE /\ UNCHANGED <<atomics, module, exec, ctl, rcv, network>>
    /\ UNCHANGED resets

\* Mutant: the timer fires once.
HandshakeTimerOnce ==
    /\ exec = "idle" /\ armed
    /\ armed' = FALSE /\ exec' = IF ready THEN "tell" ELSE "idle"
    /\ UNCHANGED <<atomics, fired, run, ctl, rcv, session, network, resets>>

(* handshakeTimerCallback: while the handshake is not ready, nothing.      *)
HandshakeTimer ==
    /\ exec = "idle" /\ armed /\ ready
    /\ armed' = FALSE /\ exec' = "tell"
    /\ UNCHANGED <<atomics, fired, run, ctl, rcv, session, network, resets>>

TellReady ==
    /\ exec = "tell"
    /\ fired' = TRUE /\ exec' = "idle"
    /\ UNCHANGED <<atomics, armed, run, ctl, rcv, session, network, resets>>

(* UdpModule::stop, and UdpManager::stop up to the first join.             *)
Stop ==
    /\ exec = "idle" /\ run = "up" /\ resets < MaxResets
    /\ armed' = FALSE /\ run' = "stopping" /\ exec' = "join" /\ resets' = resets + 1
    /\ UNCHANGED <<atomics, fired, ctl, rcv, session, network>>

(* Both threads are joined and the manager is destroyed.                   *)
StopJoined ==
    /\ exec = "join" /\ ctl = "done" /\ rcv = "done"
    /\ run' = "down" /\ fired' = FALSE /\ exec' = "idle"
    /\ ready' = FALSE /\ last' = "none"
    /\ UNCHANGED <<armed, ctl, rcv, session, network, resets>>

(* UdpModule::start: a new manager, whose threads start afresh.            *)
Start ==
    /\ exec = "idle" /\ run = "down"
    /\ ready' = FALSE /\ last' = "none" /\ fired' = FALSE /\ armed' = TRUE /\ run' = "up"
    /\ ctl' = "top" /\ rcv' = "idle" /\ ignored' = FALSE
    /\ UNCHANGED <<exec, posted, network, resets>>

-----------------------------------------------------------------------------
(* The peer, the network and the clock (external).                         *)

PeerAnswers ==
    /\ peer = "up" /\ asked /\ acks < MaxAcks
    /\ asked' = FALSE /\ acks' = acks + 1
    /\ UNCHANGED <<atomics, module, exec, ctl, rcv, session, peer, flips, resets>>

LoseAck ==
    /\ acks > 0 /\ acks' = acks - 1
    /\ UNCHANGED <<atomics, module, exec, ctl, rcv, session, asked, peer, flips, resets>>

PeerFlips ==
    /\ flips < MaxFlips /\ flips' = flips + 1
    /\ peer' = IF peer = "up" THEN "down" ELSE "up"
    /\ asked' = FALSE
    /\ UNCHANGED <<atomics, module, exec, ctl, rcv, session, acks, resets>>

Age ==
    /\ last = "recent" /\ last' = "old"
    /\ UNCHANGED <<ready, module, exec, ctl, rcv, session, network, resets>>

-----------------------------------------------------------------------------
Next ==
    \/ ControlThread
    \/ RecvAck \/ RecvReady \/ RecvData \/ RecvActivity \/ RecvExit
    \/ ResetSession \/ ResetForget \/ ResetRearm \/ HandlePeerLost \/ HandshakeTimer
    \/ TellReady \/ Stop \/ StopJoined \/ Start
    \/ PeerAnswers \/ LoseAck \/ PeerFlips \/ Age

(* The threads run and finish what they have begun; the executor runs      *)
(* queued work and timers; time passes; the session starts the transport   *)
(* again; not every ACK of a peer that answers is lost, and a message to   *)
(* it arrives in the end.                                                  *)
Fairness ==
    /\ WF_vars(ControlThread) /\ SF_vars(CtlHello /\ asked')
    /\ WF_vars(RecvReady \/ RecvActivity) /\ SF_vars(RecvAck) /\ SF_vars(RecvExit)
    /\ WF_vars(ResetForget \/ ResetRearm \/ TellReady \/ StopJoined)
    /\ WF_vars(Start) /\ SF_vars(HandshakeTimer) /\ SF_vars(HandlePeerLost)
    /\ WF_vars(PeerAnswers) /\ WF_vars(Age)

Spec == Init /\ [][Next]_vars /\ Fairness

-----------------------------------------------------------------------------
(* The values of the variables.                                            *)
TypeOK ==
    /\ {ready, fired, armed, posted, ignored, asked} \subseteq BOOLEAN
    /\ last \in {"none", "recent", "old"} /\ run \in {"up", "stopping", "down"}
    /\ exec \in {"idle", "reset", "rearm", "tell", "join"}
    /\ ctl \in {"top", "check", "roll", "zero", "report", "done"}
    /\ rcv \in {"idle", "ack", "activity", "done"} /\ peer \in {"up", "down"}
    /\ acks \in 0 .. MaxAcks /\ resets \in 0 .. MaxResets /\ flips \in 0 .. MaxFlips

(* A peer that stays away is noticed: the handshake rolls back to HELLO,   *)
(* unless a reset or a rollback overlapped an ACK and left the handshake   *)
(* ready without a time of last activity.                                  *)
SilentPeerNoticed ==
    <>[](peer = "down" /\ run = "up") => <>[](~ready \/ last = "none")

(* The same without the exception: what ControlPlane is for.               *)
EverySilentPeerNoticed == <>[](peer = "down" /\ run = "up") => <>[]~ready

(* A peer that stays and answers makes the handshake ready again after     *)
(* every reset, restart and loss, although HELLOs and ACKs get lost.       *)
PeerMakesReady == <>[](peer = "up" /\ run = "up") => []<>ready

(* A handshake that stays ready has been told to the session by the timer, *)
(* whatever resets and losses came before, unless the session left a peer  *)
(* loss without a reset.                                                   *)
ReadyIsTold == <>[](ready /\ run = "up") => <>[](fired \/ ignored)

(* stop returns: the control thread never waits for the executor, which    *)
(* waits for it.                                                           *)
UdpStopReturns == run = "stopping" ~> run = "down"

(* A ready handshake has a time of last activity, up to the thread that is *)
(* about to change that.                                                   *)
ReadyHasActivity ==
    ready /\ last = "none" => exec = "reset" \/ ctl = "zero"
=============================================================================
