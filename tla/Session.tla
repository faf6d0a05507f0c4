------------------------------- MODULE Session -------------------------------
(***************************************************************************)
(* The session controller of the robot-side bridge: MainNode together with *)
(* the registration logic of GrpcModule and the handshake logic of         *)
(* UdpModule.                                                              *)
(*                                                                         *)
(* Four kinds of threads act on it:                                        *)
(*   - the ROS executor, whose handlers (timers and queued session work)   *)
(*     share one mutually exclusive callback group and so never overlap    *)
(*     each other (variable ex says which handler is blocked in a join);   *)
(*   - the video encoder thread, which captures the SPS/PPS and then runs  *)
(*     tryAdvanceNegotiation itself (variable vt is its program counter);  *)
(*   - the gRPC event-stream thread and the UDP control thread, which only *)
(*     post work to session_work_queue_ (variable queue).                  *)
(*                                                                         *)
(* A handler is a function from the node's state to its next state, so     *)
(* that a handler that calls another one is the composition of the two.    *)
(* The outcome of every call that may fail is the set ok of the calls that *)
(* succeed.  video_config_sent_ and the audio module's config_published_   *)
(* are booleans in the code; here they carry the registration under which  *)
(* the configuration was published, 0 standing for false.                  *)
(*                                                                         *)
(* Left to other modules: the receive side (peer_streams_subscribed_, the  *)
(* remote audio configuration) and its timer, which no other handler of    *)
(* this module reads, and the instants between the atomics of the UDP      *)
(* control plane.                                                          *)
(***************************************************************************)
EXTENDS Naturals, Sequences

CONSTANTS
    Peers,              \* session ids a signaling event may name
    NoPeer,             \* the empty paired_peer_session_id_
    HeartbeatLimit,     \* kMaxTransientHeartbeatFailuresBeforeReregister
    ActivePairing,      \* pair.mode = "active"
    PublishesAudio,     \* audio.uplink_enabled
    PeerLostEnabled,    \* udp.handshake.peer_lost_timeout_sec > 0
    Overlap,            \* may the encoder callback overlap a handler?
    LateWork,           \* may work still be queued when a heartbeat fails?
    MaxEpoch,           \* bound: number of registrations
    MaxQueue            \* bound: length of session_work_queue_

ASSUME SessionConstants ==
    /\ NoPeer \notin Peers
    /\ HeartbeatLimit \in Nat \ {0}
    /\ {ActivePairing, PublishesAudio, PeerLostEnabled, Overlap, LateWork} \subseteq BOOLEAN
    /\ MaxEpoch \in Nat \ {0}
    /\ MaxQueue \in Nat \ {0}

VARIABLES
    node,       \* the members of MainNode, GrpcModule and UdpModule
    queue,      \* session_work_queue_
    ex,         \* the executor: "idle", "drain", or the join it is blocked in
    vt          \* the encoder thread inside tryAdvanceNegotiation

vars == <<node, queue, ex, vt>>

States   == {"Connecting", "Registered", "Pairing", "Negotiating", "Running"}
Timers   == {"setup", "pair", "neg", "handshake"}
PairOps  == {"REQUEST", "ACCEPT", "REJECT", "UNPAIR"}
MediaCalls == {"videoStart", "publishVideo", "publishAudio", "audioStart"}
Epochs   == 0 .. MaxEpoch       \* 0: never registered

\* The work items that other threads post: signaling events, the end of the
\* event stream and the loss of the UDP peer.
Work == [op : PairOps, peer : Peers] \cup [op : {"HELLO", "STREAM_END", "PEER_LOST"}]

NodeType ==
    [state : States, registered : BOOLEAN, epoch : Epochs, hb : 0 .. HeartbeatLimit - 1,
     timers : SUBSET Timers, manifest : BOOLEAN, peer : Peers \cup {NoPeer},
     video : BOOLEAN, sps : BOOLEAN, cfg : Epochs, acfg : Epochs, audio : BOOLEAN,
     udp : Epochs, ready : BOOLEAN, fired : BOOLEAN, stream : Epochs, telemetry : BOOLEAN]

Init ==
    /\ node = [state |-> "Connecting", registered |-> FALSE, epoch |-> 0, hb |-> 0,
               timers |-> {}, manifest |-> FALSE, peer |-> NoPeer,
               video |-> FALSE, sps |-> FALSE, cfg |-> 0, acfg |-> 0, audio |-> FALSE,
               udp |-> 0, ready |-> FALSE, fired |-> FALSE, stream |-> 0, telemetry |-> FALSE]
    /\ queue = <<>>
    /\ ex = "idle"
    /\ vt = "idle"

-----------------------------------------------------------------------------
(***************************************************************************)
(* The functions that handlers are composed of.                            *)
(***************************************************************************)

SetState(n, s) == [n EXCEPT !.state = s]

Arm(n, t) == [n EXCEPT !.timers = @ \cup {t}]

Cancel(n, ts) == [n EXCEPT !.timers = @ \ ts]

IsRobotTelemetryOnline(n) == n.registered /\ n.udp # 0 /\ n.ready

UpdateRobotTelemetryLifecycle(n) == [n EXCEPT !.telemetry = IsRobotTelemetryOnline(n)]

\* A stream that is running stays bound to the session id it was opened with.
StartEventStream(n) == [n EXCEPT !.stream = IF @ # 0 THEN @ ELSE n.epoch]

EnterPairingState(n) ==
    LET m == StartEventStream(SetState(n, "Pairing"))
    IN  IF ActivePairing THEN Arm(m, "pair") ELSE Cancel(m, {"pair"})

UdpStart(n) ==
    Arm([n EXCEPT !.udp = n.epoch, !.ready = FALSE, !.fired = FALSE], "handshake")

UdpStop(n) ==
    Cancel([n EXCEPT !.udp = 0, !.ready = FALSE, !.fired = FALSE], {"handshake"})

ResetSession(n) ==
    IF n.udp = 0 THEN n
    ELSE Arm([n EXCEPT !.ready = FALSE, !.fired = FALSE], "handshake")

\* Mutant: a manifest that could not be published is not tried again.
CompleteRegisteredSetupWithoutRetry(n, ok) ==
    IF ~n.registered \/ ~(n.manifest \/ "manifest" \in ok) THEN Cancel(n, {"setup"})
    ELSE IF n.udp = 0 /\ "udpStart" \notin ok THEN Arm([n EXCEPT !.manifest = TRUE], "setup")
    ELSE UpdateRobotTelemetryLifecycle(Cancel(
           IF n.udp = 0 THEN UdpStart([n EXCEPT !.manifest = TRUE]) ELSE n, {"setup"}))

CompleteRegisteredSetup(n, ok) ==
    LET manifest == n.manifest \/ "manifest" \in ok
        m == [n EXCEPT !.manifest = manifest]
        started == IF m.udp = 0 THEN UdpStart(m) ELSE m
    IN  IF ~n.registered THEN Cancel(n, {"setup"})
        ELSE IF ~manifest \/ (m.udp = 0 /\ "udpStart" \notin ok) THEN Arm(m, "setup")
        ELSE UpdateRobotTelemetryLifecycle(Cancel(started, {"setup"}))

OnGrpcRegistered(n, ok) ==
    CompleteRegisteredSetup(
        [Cancel(SetState(n, "Registered"), {"neg", "pair", "setup"}) EXCEPT !.manifest = FALSE], ok)

PublishVideoConfig(n) == [n EXCEPT !.cfg = IF @ # 0 THEN @ ELSE n.epoch]

PublishAudioConfig(n) == [n EXCEPT !.acfg = IF @ # 0 THEN @ ELSE n.epoch]

VideoConfigPublished(n, ok) == n.cfg # 0 \/ (n.sps /\ "publishVideo" \in ok)

AudioConfigPublished(n, ok) == n.acfg # 0 \/ ~PublishesAudio \/ "publishAudio" \in ok

EnterRunning(n) == Cancel(SetState(n, "Running"), {"neg"})

\* AudioModule::start refuses without a published configuration.
AudioStart(n, ok) == [n EXCEPT !.audio = @ \/ (n.acfg # 0 /\ "audioStart" \in ok)]

\* tryAdvanceNegotiation as a handler of the executor runs it.
TryAdvanceNegotiation(n, ok) ==
    IF n.state # "Negotiating" THEN n
    ELSE IF ~VideoConfigPublished(n, ok) THEN Arm(n, "neg")
    ELSE IF ~AudioConfigPublished(n, ok) THEN Arm(PublishVideoConfig(n), "neg")
    ELSE AudioStart(EnterRunning(PublishAudioConfig(PublishVideoConfig(n))), ok)

\* Mutant: the retry timer is armed only when the video is started here.
StartVideoAndNegotiateArmsOnStart(n, ok) ==
    LET m == [n EXCEPT !.video = TRUE]
    IN  IF n.video THEN IF n.sps THEN TryAdvanceNegotiation(n, ok) ELSE n
        ELSE IF "videoStart" \in ok THEN Arm(m, "neg") ELSE n

\* A start that fails returns before the retry timer is armed.
StartVideoAndNegotiate(n, ok) ==
    LET m == Arm([n EXCEPT !.video = TRUE], "neg")
    IN  IF ~n.video /\ "videoStart" \notin ok THEN n
        ELSE IF m.sps THEN TryAdvanceNegotiation(m, ok)
        ELSE m

\* Mutant: video_config_sent_ survives the stop.
StopVideoKeepingConfig(n) == [n EXCEPT !.video = FALSE, !.sps = FALSE]

StopVideoAndReset(n) == [n EXCEPT !.video = FALSE, !.sps = FALSE, !.cfg = 0]

\* teardownActiveSession up to stopVideo, which joins the encoder thread.
TeardownBegin(n, target) ==
    Cancel([n EXCEPT !.state = target, !.telemetry = FALSE, !.peer = NoPeer,
                     !.audio = FALSE, !.acfg = 0],
           {"neg", "pair"})

\* Mutant: the transport is reset, not stopped, when the registration is lost.
TeardownKeepingTransport(n, target) ==
    LET reset   == ResetSession(StopVideoAndReset(n))
        updated == UpdateRobotTelemetryLifecycle(reset)
    IN  IF target = "Connecting" THEN updated ELSE EnterPairingState(updated)

\* teardownActiveSession after the join, and for a stream end the
\* enterPairingState that follows it.
TeardownEnd(n, target) ==
    LET stopped  == StopVideoAndReset(n)
        reset    == IF target = "Connecting"
                    THEN UdpStop(Cancel([stopped EXCEPT !.manifest = FALSE], {"setup"}))
                    ELSE ResetSession(stopped)
        pairing  == IF target = "Pairing" THEN EnterPairingState(reset) ELSE reset
        updated  == UpdateRobotTelemetryLifecycle(pairing)
    IN  IF target = "Registered" /\ n.registered THEN EnterPairingState(updated) ELSE updated

\* A pair request that was accepted, or a pair accept of the peer.
Paired(n, p, ok) ==
    StartVideoAndNegotiate(
        Cancel([n EXCEPT !.peer = p, !.state = "Negotiating"], {"pair"}), ok)

ClearPeer(n, p) == [n EXCEPT !.peer = IF @ = p THEN NoPeer ELSE @]

Rejected(n, p) ==
    LET m == SetState(ClearPeer(n, p), "Pairing")
    IN  IF ActivePairing THEN Arm(m, "pair") ELSE m

-----------------------------------------------------------------------------
(***************************************************************************)
(* Handlers of the executor.  Unless Overlap holds, none starts while the  *)
(* encoder thread is inside tryAdvanceNegotiation.                         *)
(***************************************************************************)

EncoderQuiet == Overlap \/ vt = "idle"

Free == ex = "idle" /\ EncoderQuiet

TryRegister ==
    /\ Free
    /\ ~node.registered
    /\ \E ok \in SUBSET {"manifest", "udpStart"} :
          node' = OnGrpcRegistered(
                    [node EXCEPT !.registered = TRUE, !.epoch = @ + 1, !.hb = 0], ok)
    /\ UNCHANGED <<queue, ex, vt>>

RegisteredSetupRetryTimer ==
    /\ Free
    /\ "setup" \in node.timers
    /\ \E ok \in SUBSET {"manifest", "udpStart"} : node' = CompleteRegisteredSetup(node, ok)
    /\ UNCHANGED <<queue, ex, vt>>

HeartbeatOk ==
    /\ Free
    /\ node.registered
    /\ node' = [node EXCEPT !.hb = 0]
    /\ UNCHANGED <<queue, ex, vt>>

\* Mutant: one failure too many is taken for a transient one.
HeartbeatTransportFailureOffByOne ==
    /\ Free
    /\ node.registered
    /\ node.hb < HeartbeatLimit
    /\ node' = [node EXCEPT !.hb = @ + 1]
    /\ UNCHANGED <<queue, ex, vt>>

HeartbeatTransportFailure ==
    /\ Free
    /\ node.registered
    /\ node.hb + 1 < HeartbeatLimit
    /\ node' = [node EXCEPT !.hb = @ + 1]
    /\ UNCHANGED <<queue, ex, vt>>

\* The session is invalid or the limit is reached: unregister, stop the event
\* stream, and run onGrpcHeartbeatFail.
OnGrpcHeartbeatFail(n) ==
    TeardownBegin(
        Cancel([n EXCEPT !.registered = FALSE, !.hb = 0, !.stream = 0, !.manifest = FALSE],
               {"setup"}),
        "Connecting")

HeartbeatFail ==
    /\ Free
    /\ node.registered
    /\ node.epoch < MaxEpoch
    /\ LateWork \/ queue = <<>>
    /\ node' = OnGrpcHeartbeatFail(node)
    /\ ex' = "Connecting"
    /\ UNCHANGED <<queue, vt>>

\* The executor after one item of drainSessionWork, which loops until the
\* queue is empty.
AfterItem == IF queue' # <<>> THEN "drain" ELSE "idle"

TakeWork(op) ==
    /\ ex \in {"idle", "drain"}
    /\ EncoderQuiet
    /\ queue # <<>>
    /\ Head(queue).op = op
    /\ queue' = Tail(queue)
    /\ UNCHANGED vt

HandleRequest ==
    /\ TakeWork("REQUEST")
    /\ \E ok \in SUBSET ({"accept"} \cup MediaCalls) :
          node' = IF "accept" \in ok THEN Paired(node, Head(queue).peer, ok) ELSE node
    /\ ex' = AfterItem

HandleAccept ==
    /\ TakeWork("ACCEPT")
    /\ \E ok \in SUBSET MediaCalls :
          node' = Paired(node, Head(queue).peer, ok)
    /\ ex' = AfterItem

HandleReject ==
    /\ TakeWork("REJECT")
    /\ node' = Rejected(node, Head(queue).peer)
    /\ ex' = AfterItem

HandleUnpair ==
    /\ TakeWork("UNPAIR")
    /\ node' = TeardownBegin(ClearPeer(node, Head(queue).peer), "Pairing")
    /\ ex' = "Pairing"

HandleHelloRequest ==
    /\ TakeWork("HELLO")
    /\ node' = ResetSession(node)
    /\ ex' = AfterItem

HandleStreamEnd ==
    /\ TakeWork("STREAM_END")
    /\ node' = TeardownBegin(node, "Registered")
    /\ ex' = "Registered"

HandleUdpPeerLost ==
    /\ TakeWork("PEER_LOST")
    /\ \/ /\ node.state \in {"Negotiating", "Running"}
          /\ node' = TeardownBegin(node, "Pairing")
          /\ ex' = "Pairing"
       \/ /\ node.state \notin {"Negotiating", "Running"}
          /\ node' = UpdateRobotTelemetryLifecycle(node)
          /\ ex' = AfterItem

\* Mutant: stopVideo does not wait for the encoder thread.
FinishTeardownWithoutJoin ==
    /\ ex \in {"Connecting", "Registered", "Pairing"}
    /\ node' = TeardownEnd(node, ex)
    /\ ex' = IF ex # "Connecting" /\ queue # <<>> THEN "drain" ELSE "idle"
    /\ UNCHANGED <<queue, vt>>

\* The encoder thread has been joined.
FinishTeardown ==
    /\ ex \in {"Connecting", "Registered", "Pairing"}
    /\ vt = "idle"
    /\ node' = TeardownEnd(node, ex)
    /\ ex' = IF ex # "Connecting" /\ queue # <<>> THEN "drain" ELSE "idle"
    /\ UNCHANGED <<queue, vt>>

PairingRetryTimer ==
    /\ Free
    /\ "pair" \in node.timers
    /\ node.state # "Pairing"
    /\ node' = Cancel(node, {"pair"})
    /\ UNCHANGED <<queue, ex, vt>>

\* Mutant: a one-shot timer, which is spent by the attempt.
NegotiationRetryOnce ==
    /\ Free
    /\ "neg" \in node.timers
    /\ \E ok \in SUBSET MediaCalls :
          node' = Cancel(TryAdvanceNegotiation(node, ok), {"neg"})
    /\ UNCHANGED <<queue, ex, vt>>

NegotiationRetryTimer ==
    /\ Free
    /\ "neg" \in node.timers
    /\ \/ /\ node.state # "Negotiating"
          /\ node' = Cancel(node, {"neg"})
          /\ UNCHANGED ex
       \/ /\ node.state = "Negotiating"
          /\ \E ok \in SUBSET MediaCalls :
                node' = IF node.video THEN TryAdvanceNegotiation(node, ok)
                                      ELSE StartVideoAndNegotiate(node, ok)
          /\ UNCHANGED ex
       \/ /\ node.state = "Negotiating" /\ node.video /\ ~node.sps   \* kVideoStartupTimeout
          /\ ex' = "restart"
          /\ UNCHANGED node
    /\ UNCHANGED <<queue, vt>>

\* stopVideo has joined the encoder thread: reset and start again.
FinishVideoRestart ==
    /\ ex = "restart"
    /\ vt = "idle"
    /\ \E ok \in SUBSET MediaCalls :
          node' = StartVideoAndNegotiate(StopVideoAndReset(node), ok)
    /\ ex' = "idle"
    /\ UNCHANGED <<queue, vt>>

HandshakeReady(n) ==
    IF n.fired THEN n
    ELSE EnterPairingState(UpdateRobotTelemetryLifecycle([n EXCEPT !.fired = TRUE]))

HandshakeTimer ==
    /\ Free
    /\ "handshake" \in node.timers
    /\ node.ready
    /\ node' = HandshakeReady(Cancel(node, {"handshake"}))
    /\ UNCHANGED <<queue, ex, vt>>

TelemetryTimer ==
    /\ Free
    /\ node.telemetry
    /\ ~IsRobotTelemetryOnline(node)
    /\ node' = [node EXCEPT !.telemetry = FALSE]
    /\ UNCHANGED <<queue, ex, vt>>

-----------------------------------------------------------------------------
(***************************************************************************)
(* The encoder thread.  It captures the parameter sets once per video run  *)
(* and, if the session is negotiating, runs tryAdvanceNegotiation.         *)
(***************************************************************************)

OnSpsPpsCaptured ==
    /\ Overlap \/ ex = "idle"
    /\ vt = "idle"
    /\ node.video
    /\ ~node.sps
    /\ node' = [node EXCEPT !.sps = TRUE]
    /\ vt' = IF node.state = "Negotiating" THEN "publish" ELSE "idle"
    /\ UNCHANGED <<queue, ex>>

EncoderPublishVideoConfig ==
    /\ vt = "publish"
    /\ \E ok \in SUBSET {"publishVideo"} :
          IF VideoConfigPublished(node, ok)
          THEN node' = PublishVideoConfig(node) /\ vt' = "audio"
          ELSE node' = Arm(node, "neg") /\ vt' = "idle"
    /\ UNCHANGED <<queue, ex>>

EncoderPublishAudioConfig ==
    /\ vt = "audio"
    /\ \E ok \in SUBSET {"publishAudio"} :
          IF AudioConfigPublished(node, ok)
          THEN node' = PublishAudioConfig(node) /\ vt' = "run"
          ELSE node' = Arm(node, "neg") /\ vt' = "idle"
    /\ UNCHANGED <<queue, ex>>

EncoderStopRetryTimer ==
    /\ vt = "run"
    /\ node' = Cancel(node, {"neg"})
    /\ vt' = "set"
    /\ UNCHANGED <<queue, ex>>

\* The state is not read again before it is overwritten.
EncoderEnterRunning ==
    /\ vt = "set"
    /\ node' = SetState(node, "Running")
    /\ vt' = "start"
    /\ UNCHANGED <<queue, ex>>

EncoderStartAudio ==
    /\ vt = "start"
    /\ \E ok \in SUBSET {"audioStart"} : node' = AudioStart(node, ok)
    /\ vt' = "idle"
    /\ UNCHANGED <<queue, ex>>

-----------------------------------------------------------------------------
(***************************************************************************)
(* The event-stream thread and the UDP threads.                            *)
(***************************************************************************)

Post(w) ==
    /\ Len(queue) < MaxQueue
    /\ queue' = Append(queue, w)

OnSignalingEvent ==
    /\ node.stream # 0
    /\ \E w \in Work : w.op \in PairOps \cup {"HELLO"} /\ Post(w)
    /\ UNCHANGED <<node, ex, vt>>

OnGrpcStreamEnd ==
    /\ node.stream # 0
    /\ node' = [node EXCEPT !.stream = 0]
    /\ Post([op |-> "STREAM_END"])
    /\ UNCHANGED <<ex, vt>>

UdpAck ==
    /\ node.udp # 0
    /\ ~node.ready
    /\ node' = [node EXCEPT !.ready = TRUE]
    /\ UNCHANGED <<queue, ex, vt>>

OnUdpPeerLost ==
    /\ PeerLostEnabled
    /\ node.udp # 0
    /\ node.ready
    /\ node' = [node EXCEPT !.ready = FALSE, !.fired = FALSE]
    /\ Post([op |-> "PEER_LOST"])
    /\ UNCHANGED <<ex, vt>>

Executor ==
    \/ TryRegister \/ RegisteredSetupRetryTimer
    \/ HeartbeatOk \/ HeartbeatTransportFailure \/ HeartbeatFail
    \/ HandleRequest \/ HandleAccept \/ HandleReject \/ HandleUnpair
    \/ HandleHelloRequest \/ HandleStreamEnd \/ HandleUdpPeerLost
    \/ FinishTeardown \/ PairingRetryTimer \/ NegotiationRetryTimer
    \/ FinishVideoRestart \/ HandshakeTimer \/ TelemetryTimer

Encoder ==
    \/ OnSpsPpsCaptured \/ EncoderPublishVideoConfig \/ EncoderPublishAudioConfig
    \/ EncoderStopRetryTimer \/ EncoderEnterRunning \/ EncoderStartAudio

Network == OnSignalingEvent \/ OnGrpcStreamEnd \/ UdpAck \/ OnUdpPeerLost

Next == Executor \/ Encoder \/ Network

Spec == Init /\ [][Next]_vars

(***************************************************************************)
(* Fairness.  The executor runs every armed timer and drains the queue     *)
(* again and again, whatever else becomes ready in between; a call that is *)
(* retried for ever succeeds at some time; an encoder that is started      *)
(* again and again delivers its parameter sets; a server that is sent      *)
(* HELLO again and again acknowledges one.                                 *)
(***************************************************************************)
Drain ==
    \/ HandleRequest \/ HandleAccept \/ HandleReject \/ HandleUnpair
    \/ HandleHelloRequest \/ HandleStreamEnd \/ HandleUdpPeerLost

Fairness ==
    /\ SF_vars(TryRegister)
    /\ SF_vars(RegisteredSetupRetryTimer /\ node'.udp # 0)
    /\ SF_vars(Drain)
    /\ WF_vars(FinishTeardown)
    /\ WF_vars(FinishVideoRestart /\ node'.video)
    /\ SF_vars(NegotiationRetryTimer /\ node'.state # "Negotiating")
    /\ SF_vars(NegotiationRetryTimer /\ node'.video)
    /\ SF_vars(HandshakeTimer)
    /\ SF_vars(OnSpsPpsCaptured)
    /\ WF_vars(Encoder /\ vt # "idle")
    /\ SF_vars(UdpAck)

FairSpec == Spec /\ Fairness

-----------------------------------------------------------------------------
(***************************************************************************)
(* Properties.                                                             *)
(***************************************************************************)

\* Every member of the node keeps its type and the work queue its bound.
TypeOK ==
    /\ node \in NodeType
    /\ queue \in Seq(Work)
    /\ Len(queue) <= MaxQueue
    /\ ex \in {"idle", "drain", "Connecting", "Registered", "Pairing", "restart"}
    /\ vt \in {"idle", "publish", "audio", "run", "set", "start"}

\* UdpModule::start does nothing while a manager exists, so a transport that
\* survived a re-registration would send HELLO with the old session id.  The
\* transport that exists is the one of the current registration.
UdpBoundToSession == node.udp \in {0, node.epoch}

\* Running means paired and negotiated: there is a peer, the video runs, and
\* both stream configurations were published under the current registration.
RunningIsPairedAndNegotiated ==
    node.state = "Running" =>
        /\ node.peer # NoPeer
        /\ node.video
        /\ node.cfg = node.epoch
        /\ node.acfg = node.epoch

\* Between the loss of a registration and the next one the node is in
\* Connecting and everything bound to the session is stopped.
UnregisteredStopsStreams ==
    ~node.registered /\ ex = "idle" =>
        /\ node.state = "Connecting"
        /\ ~node.video /\ ~node.audio /\ ~node.telemetry
        /\ node.udp = 0 /\ node.stream = 0

\* A published configuration and an open event stream never outlive the
\* registration they were made under.
ConfigsBoundToSession == {node.stream, node.cfg, node.acfg} \subseteq {0, node.epoch}

\* video_config_sent_ is only set while the video runs and its parameter sets
\* are cached: what was published describes the encoder that is running.
ConfigDescribesRunningVideo == node.cfg # 0 => node.video /\ node.sps

\* A negotiating session whose video runs has its retry timer armed, so that a
\* publish that failed on either thread is tried again, unless the encoder
\* thread has stopped the timer and is about to enter Running.
NegotiatingHasRetry ==
    node.state = "Negotiating" /\ node.video => "neg" \in node.timers \/ vt = "set"

\* UdpModule::stop destroys the transport only when stopVideo has joined the
\* encoder thread and no video is left that could start it again, whichever
\* step of tryAdvanceNegotiation the teardown overlapped.
EncoderStopsBeforeTransport ==
    [][node.udp # 0 /\ node'.udp = 0 => vt = "idle" /\ ~node'.video /\ ~node'.sps]_vars

\* The same of the audio uplink as well.  It fails: the encoder thread may start
\* the uplink after the teardown has stopped it and before it is joined.
ProducersStopBeforeTransport ==
    [][node.udp # 0 /\ node'.udp = 0 => vt = "idle" /\ ~node'.video /\ ~node'.audio]_vars

\* A node without a registration sends nothing with the session id it lost: once
\* the teardown of the registration is over there is no transport, no handshake
\* and no telemetry, whatever work of the lost session is still drained.
UnregisteredSendsNothing ==
    ~node.registered /\ ex # "Connecting" => node.udp = 0 /\ ~node.ready /\ ~node.telemetry

\* A negotiation that becomes Running has a peer, a running video and both
\* configurations published, on whichever thread it is finished, and also when
\* a rejection and the pairing of another peer came between the steps of the
\* encoder thread.
RunningEnteredNegotiated ==
    [][node.state = "Negotiating" /\ node'.state = "Running" =>
          node'.peer # NoPeer /\ node'.video /\ node'.cfg # 0 /\ node'.acfg # 0]_vars

\* A step that takes a running session back to Pairing has ended the pairing.
LeavingRunningUnpairs ==
    [][node.state = "Running" /\ node'.state = "Pairing" => node'.peer = NoPeer]_vars

\* A registered node gets an event stream of its registration, whatever ends,
\* times out or fails on the way, unless it loses the registration.
EventStreamRestored ==
    \A e \in Epochs \ {0} :
        (node.registered /\ node.epoch = e) ~> (node.stream = e \/ node.epoch # e \/ ~node.registered)

\* A negotiation whose video has started comes to an end.
NegotiationEnds == (node.state = "Negotiating" /\ node.video) ~> (node.state # "Negotiating")

\* A negotiation whose video did not start is not left without video.
VideoStartRetried ==
    (node.state = "Negotiating" /\ ~node.video) ~> (node.state # "Negotiating" \/ node.video)

\* In a session that stays in Running with its handshake ready, telemetry runs.
TelemetryResumes ==
    <>[](node.state = "Running" /\ node.ready) => []<>node.telemetry
=============================================================================
