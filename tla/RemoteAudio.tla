----------------------------- MODULE RemoteAudio -----------------------------
(***************************************************************************)
(* Audio of both directions: AudioModule, AudioManager and its two         *)
(* GStreamer pipelines, and the receiver's jitter buffer.                  *)
(*                                                                         *)
(* Four threads: the session (start, stop, a new peer), the timer that     *)
(* accepts the peer's AudioConfig, the receive thread of UdpManager, and   *)
(* the thread of the capture pipeline.  The session and the timer hold     *)
(* peer_receive_state_mutex_ around everything but start; the receive      *)
(* thread holds nothing of theirs, and plays after it has released the     *)
(* receiver's lock.  Remote audio may be lost, doubled, reordered, and     *)
(* late: a datagram carries no peer, so one of an earlier peer counts.     *)
(***************************************************************************)
EXTENDS AudioReceiver

CONSTANTS
    FirstIndex,     \* index of the first packet of a stream
    MaxSent,        \* bound: packets sent, by all peers
    MaxStreams,     \* bound: peers that send audio, one after the other
    Window,         \* bound: datagrams on the wire
    MaxCalls        \* bound: starts, stops and pairings by the session

ASSUME AudioConstants ==
    /\ FirstIndex \in Nat /\ MaxSent \in Nat /\ MaxStreams \in Nat
    /\ Window \in Nat /\ MaxCalls \in Nat

VARIABLES
    started,        \* AudioModule::started_
    configured,     \* AudioModule::remote_config_ready_
    rx,             \* AudioReceiver
    running, captureActive, playbackActive,     \* AudioManager's atomics
    pipelines,      \* the pipelines that exist: "capture", "playback"
    timeline,       \* playback_pts_initialized: the timeline has its first packet
    capture,        \* the capture stream: "null", "flowing", or "ended" by its callback
    ses, tmr, rcv,  \* where the session, the timer and the receive thread are
    lock,           \* peer_receive_state_mutex_: "free", "ses" or "tmr"
    batch,          \* packets the receive thread has taken and not played
    wire, stream, sent, origin, calls,  \* the network and the remote peer
    heard,          \* last packet played since the receiver was reset
    outdated,       \* the receiver was reset while the receive thread held a batch
    stray,          \* a packet from before the reset started the timeline
    straddled,      \* a loss was given up across a wrap since the last reset
    early,          \* a sample came between capture's start and running
    spanned         \* a start began while the receive thread was in a push

module   == <<started, configured, rx>>
manager  == <<running, captureActive, playbackActive, pipelines, timeline, capture>>
threads  == <<ses, tmr, lock>>
receive  == <<rcv, batch>>
network  == <<wire, stream, sent, origin>>
history  == <<heard, outdated, stray, straddled, early, spanned>>
vars == <<module, manager, threads, receive, network, calls, history>>

None == [stream |-> 0, n |-> 0]

(* The values of the variables.                                            *)
TypeOK ==
    /\ started \in BOOLEAN /\ configured \in BOOLEAN /\ running \in BOOLEAN
    /\ captureActive \in BOOLEAN /\ playbackActive \in BOOLEAN /\ timeline \in BOOLEAN
    /\ pipelines \subseteq {"capture", "playback"}
    /\ capture \in {"null", "flowing", "ended"}
    /\ rx.expected \in 0 .. SeqMod - 1 /\ IsFiniteSet(rx.buffer)
    /\ lock \in {"free", "ses", "tmr"}

(* initialize has created both pipelines, and nothing is started.          *)
Init ==
    /\ started = FALSE /\ configured = FALSE /\ rx = EmptyReceiver
    /\ running = FALSE /\ captureActive = FALSE /\ playbackActive = FALSE
    /\ pipelines = {"capture", "playback"} /\ timeline = FALSE /\ capture = "null"
    /\ ses = "idle" /\ tmr = "idle" /\ rcv = "idle" /\ lock = "free" /\ batch = <<>>
    /\ wire = {} /\ stream = 1 /\ sent = 0 /\ origin = 0 /\ calls = 0
    /\ heard = None /\ outdated = FALSE /\ stray = FALSE /\ straddled = FALSE
    /\ early = FALSE /\ spanned = FALSE

Goto(pc) == ses' = pc /\ UNCHANGED <<tmr, lock>>

-----------------------------------------------------------------------------
(* AudioModule::start and AudioManager::startPipelines, by the session.    *)

(* A module that is not started; flags and timeline are cleared first.     *)
StartFlags ==
    /\ ses = "idle" /\ ~started /\ calls < MaxCalls /\ calls' = calls + 1
    /\ Goto("capture")
    /\ captureActive' = FALSE /\ playbackActive' = FALSE
    /\ timeline' = FALSE
    /\ early' = FALSE /\ spanned' = (spanned \/ rcv = "push")
    /\ UNCHANGED <<module, running, pipelines, capture, receive, network,
                   heard, outdated, stray, straddled>>

(* A pipeline that does not start is destroyed; the other goes on.  One    *)
(* that was not set to NULL is playing already, and is left as it is.      *)
StartCapture ==
    /\ ses = "capture" /\ Goto("playback")
    /\ \/ /\ "capture" \in pipelines
          /\ capture' = IF capture = "null" THEN "flowing" ELSE capture
          /\ captureActive' = TRUE /\ UNCHANGED pipelines
       \/ pipelines' = pipelines \ {"capture"} /\ UNCHANGED <<capture, captureActive>>
    /\ UNCHANGED <<module, running, playbackActive, timeline, receive, network, calls, history>>

StartPlayback ==
    /\ ses = "playback" /\ Goto("run")
    /\ \/ "playback" \in pipelines /\ playbackActive' = TRUE /\ UNCHANGED pipelines
       \/ pipelines' = pipelines \ {"playback"} /\ UNCHANGED playbackActive
    /\ UNCHANGED <<module, running, captureActive, timeline, capture, receive, network, calls,
                   history>>

(* With neither pipeline start fails and AudioModule stays stopped.        *)
StartRunning ==
    /\ ses = "run"
    /\ running' = (captureActive \/ playbackActive)
    /\ IF running' THEN Goto("reset") ELSE Goto("idle")
    /\ UNCHANGED <<module, captureActive, playbackActive, pipelines, timeline, capture,
                   receive, network, calls, history>>

(* AudioReceiver::reset, by whoever calls it.                              *)
ResetReceiver ==
    /\ rx' = EmptyReceiver
    /\ heard' = None /\ straddled' = FALSE
    /\ outdated' = (outdated \/ batch # <<>>)

(* Nothing reads between the two: started_ is the last store.  A packet    *)
(* played since the pipelines run has started the timeline before the      *)
(* receiver is reset.                                                      *)
StartDone ==
    /\ ses = "reset" /\ Goto("idle") /\ ResetReceiver /\ started' = TRUE
    /\ stray' = timeline
    /\ UNCHANGED <<configured, manager, receive, network, calls, early, spanned>>

Start == StartFlags \/ StartCapture \/ StartPlayback \/ StartRunning \/ StartDone

-----------------------------------------------------------------------------
(* A teardown (stop, then resetRemoteConfig) or a new peer (only the       *)
(* latter), both under the lock.  A new peer is a new stream.              *)

Begins(pc) ==
    /\ ses = "idle" /\ lock = "free" /\ calls < MaxCalls /\ calls' = calls + 1
    /\ ses' = pc /\ lock' = "ses" /\ UNCHANGED tmr

TeardownStarted ==
    /\ started /\ Begins("stop") /\ started' = FALSE
    /\ UNCHANGED <<configured, rx, manager, receive, network, history>>

TeardownIdle ==
    /\ ~started /\ Begins("forgetBuffer") /\ configured' = FALSE
    /\ UNCHANGED <<started, rx, manager, receive, network, history>>

NewPeer ==
    /\ stream < MaxStreams /\ Begins("forgetBuffer") /\ configured' = FALSE
    /\ stream' = stream + 1 /\ origin' = sent
    /\ UNCHANGED <<started, rx, manager, receive, wire, sent, history>>

StopFlags ==
    /\ ses = "stop" /\ Goto("stopped")
    /\ running' = FALSE /\ captureActive' = FALSE /\ playbackActive' = FALSE
    /\ UNCHANGED <<module, pipelines, timeline, capture, receive, network, calls, history>>

\* Mutant: the capture pipeline is not set to NULL.
StopPipelinesKept ==
    /\ ses = "stopped" /\ Goto("forgetBuffer")
    /\ timeline' = FALSE /\ configured' = FALSE
    /\ UNCHANGED <<started, rx, running, captureActive, playbackActive, pipelines, capture,
                   receive, network, calls, history>>

(* Setting a pipeline to NULL waits for its streaming thread.  Then        *)
(* resetRemoteConfig, whose first store nobody reads while started_ is off.*)
StopPipelines ==
    /\ ses = "stopped" /\ Goto("forgetBuffer")
    /\ capture' = "null" /\ timeline' = FALSE /\ configured' = FALSE
    /\ UNCHANGED <<started, rx, running, captureActive, playbackActive, pipelines, receive,
                   network, calls, history>>

(* The rest of resetRemoteConfig, and the end of the locked section.       *)
ForgetBuffer ==
    /\ ses = "forgetBuffer" /\ Goto("forgetTimeline") /\ ResetReceiver
    /\ UNCHANGED <<started, configured, manager, receive, network, calls, stray, early, spanned>>

ForgetTimeline ==
    /\ ses = "forgetTimeline" /\ timeline' = FALSE
    /\ ses' = "idle" /\ lock' = "free" /\ UNCHANGED tmr
    /\ UNCHANGED <<module, running, captureActive, playbackActive, pipelines, capture,
                   receive, network, calls, history>>

Stop == TeardownStarted \/ TeardownIdle \/ NewPeer \/ StopFlags \/ StopPipelines
          \/ ForgetBuffer \/ ForgetTimeline

-----------------------------------------------------------------------------
(* applyRemoteConfig, by the timer, under the lock.                        *)

ApplyReady ==
    /\ tmr = "idle" /\ lock = "free" /\ ~configured
    /\ tmr' = "buffer" /\ lock' = "tmr" /\ UNCHANGED ses
    /\ configured' = TRUE
    /\ UNCHANGED <<started, rx, manager, receive, network, calls, history>>

ApplyBuffer ==
    /\ tmr = "buffer" /\ tmr' = "timeline" /\ UNCHANGED <<ses, lock>> /\ ResetReceiver
    /\ UNCHANGED <<started, configured, manager, receive, network, calls, stray, early, spanned>>

\* Mutant: the timeline survives a new configuration.
ApplyTimelineKept ==
    /\ tmr = "timeline" /\ UNCHANGED timeline
    /\ tmr' = "idle" /\ lock' = "free" /\ UNCHANGED ses
    /\ UNCHANGED <<module, running, captureActive, playbackActive, pipelines, capture,
                   receive, network, calls, history>>

ApplyTimeline ==
    /\ tmr = "timeline" /\ timeline' = FALSE
    /\ tmr' = "idle" /\ lock' = "free" /\ UNCHANGED ses
    /\ UNCHANGED <<module, running, captureActive, playbackActive, pipelines, capture,
                   receive, network, calls, history>>

ApplyRemoteConfig == ApplyReady \/ ApplyBuffer \/ ApplyTimeline

-----------------------------------------------------------------------------
(* The receive thread: receiveRemotePacket, and playback of what it took.  *)

(* started_ and remote_config_ready_ are read; the packet may be doubled.  *)
Arrives(p) ==
    /\ rcv = "idle" /\ p \in wire
    /\ wire' \in {wire, wire \ {p}}
    /\ IF started /\ configured THEN rcv' = "buffer" /\ batch' = <<p>>
                                ELSE UNCHANGED receive
    /\ UNCHANGED <<module, manager, threads, stream, sent, origin, calls, history>>

Receive ==
    /\ rcv = "buffer"
    /\ LET p == Head(batch)
           pushed == PushPacket(rx, p)
       IN  /\ rx' = pushed.rx /\ batch' = pushed.out
           /\ rcv' = IF pushed.out = <<>> THEN "idle" ELSE "play"
           /\ straddled' = (straddled \/ SkipsAcrossWrap(rx, p))
    /\ outdated' = FALSE
    /\ UNCHANGED <<started, configured, manager, threads, network, calls, heard, stray, early,
                   spanned>>

\* Mutant: the playback pipeline itself is not tested.
PlayTestRunning ==
    /\ rcv = "play"
    /\ IF running
       THEN rcv' = "push" /\ UNCHANGED batch
       ELSE batch' = Tail(batch) /\ rcv' = IF Tail(batch) = <<>> THEN "idle" ELSE "play"
    /\ UNCHANGED <<module, manager, threads, network, calls, history>>

(* pushRemotePacket: the test, and then the push itself.                   *)
PlayTest ==
    /\ rcv = "play"
    /\ IF running /\ playbackActive /\ "playback" \in pipelines
       THEN rcv' = "push" /\ UNCHANGED batch
       ELSE batch' = Tail(batch) /\ rcv' = IF Tail(batch) = <<>> THEN "idle" ELSE "play"
    /\ UNCHANGED <<module, manager, threads, network, calls, history>>

PlayPush ==
    /\ rcv = "push"
    /\ timeline' = TRUE /\ stray' = IF timeline THEN stray ELSE outdated
    /\ batch' = Tail(batch) /\ rcv' = IF Tail(batch) = <<>> THEN "idle" ELSE "play"
    /\ heard' = IF outdated THEN heard ELSE Head(batch)
    /\ spanned' = FALSE
    /\ UNCHANGED <<module, running, captureActive, playbackActive, pipelines, capture,
                   threads, network, calls, outdated, straddled, early>>

ReceiveThread == Receive \/ PlayTest \/ PlayPush \/ \E p \in wire : Arrives(p)

-----------------------------------------------------------------------------
(* The capture pipeline's callback: a sample that finds the manager not    *)
(* running is answered GST_FLOW_FLUSHING, which ends the stream.           *)
SampleRefused ==
    /\ capture = "flowing" /\ ~(running /\ captureActive)
    /\ capture' = "ended"
    /\ early' = (early \/ ses \in {"playback", "run"})
    /\ UNCHANGED <<module, running, captureActive, playbackActive, pipelines, timeline,
                   threads, receive, network, calls, heard, outdated, stray, straddled,
                   spanned>>

(* The remote peer sends; the datagram is lost, or on the wire.            *)
Send ==
    /\ sent < MaxSent /\ Cardinality(wire) < Window
    /\ sent' = sent + 1
    /\ wire' \in {wire, wire \cup {[stream |-> stream, n |-> FirstIndex + sent - origin]}}
    /\ UNCHANGED <<module, manager, threads, receive, stream, origin, calls, history>>

Next ==
    \/ Start \/ Stop \/ ApplyRemoteConfig \/ ReceiveThread
    \/ SampleRefused \/ Send

Spec == Init /\ [][Next]_vars

-----------------------------------------------------------------------------
(* Packets of one stream are played in the order they were sent, each at   *)
(* most once, whatever the network does and however often the receiver is  *)
(* reset under the receive thread, except when a loss is given up while    *)
(* the buffer holds numbers of both sides of the wrap.                     *)
InOrder(a, b) == a.stream = b.stream /\ a # None /\ b # a => b.n > a.n

PlayedInOrder ==
    [][heard' \in {heard, None} \/ straddled \/ InOrder(heard, heard')]_vars

(* The same across the wrap.                                               *)
PlayedInOrderAlways ==
    [][heard' \in {heard, None} \/ InOrder(heard, heard')]_vars

(* Between two packets the buffer is below its limit, a primed receiver    *)
(* has handed on what it expects, and one that is not primed holds less    *)
(* than it waits for: no packet waits behind nothing.                      *)
BufferMoves ==
    /\ Cardinality(rx.buffer) < MaxPackets
    /\ IF rx.primed THEN ~Held(rx, rx.expected)
                    ELSE Cardinality(rx.buffer) < InitialPackets

(* The playback timeline starts at a packet received since the receiver    *)
(* was last reset, so that a new peer's packets are timed by its own       *)
(* clock, except when the receive thread plays what it had taken before.   *)
TimelineStartsFresh ==
    timeline /\ ses = "idle" /\ tmr = "idle" => heard # None \/ stray

(* The playback source is not destroyed under a push of the receive        *)
(* thread, unless the push spans a stop and the next start.                *)
SourceAliveInPush == rcv = "push" => "playback" \in pipelines \/ spanned

(* What start reports as started keeps flowing: the uplink is not ended    *)
(* while the module is started, except by a sample that came before        *)
(* startPipelines had set running.                                         *)
UplinkFlows == started /\ captureActive => capture = "flowing" \/ early
=============================================================================
