# Verification of the robot-side teleoperation bridge

TLA+ models of `teleop_robot_bridge`, the ROS 2 process that runs on the robot:
it registers with a signaling server over gRPC, is paired with an operator's
headset, sends video, audio and telemetry over UDP and receives poses and audio.
The source is under `src/` (`src/src`, `src/include`), its documents under
`src/doc`. Every definition names its lines in `PROJECT.json`, "map".

## Inventory

| Component | State | Operations | Threads |
|---|---|---|---|
| MainNode (`main_node.cpp`) | session state, paired peer, retry timers, `session_work_queue_`, published flags, telemetry flags | registration and stream-end callbacks, pair events, negotiation, teardown, timers | ROS executor; encoder thread through `onSpsPpsCaptured` |
| GrpcModule, GrpcManager | registered, session id, heartbeat failures, event stream thread | register, heartbeat, publish, subscribe, event stream start/stop | executor, stream reader |
| UdpModule, ControlPlane | transport, handshake flag, time of the last ACK, `ready_fired_` | start, stop, reset, HELLO/PING, peer loss | executor, control thread, receive thread |
| UdpManager, SendQueue, Pacer, FEC | input queue, send queue, byte account, protected group, counters, debt | send calls, FEC, prioritised pop, eviction, requeue, reset | producers, FEC thread, send thread, executor |
| AudioModule, AudioManager, AudioReceiver | devices, codec, jitter buffer, expected sequence number | capture, playback, packet reception | ALSA threads, receive thread |
| VideoModule, VideoStreamManager, VideoEncoder, capturer | pipelines, buffers, parameter sets | start, stop, restart, capture, encode, keyframe request | capture, conversion and encoder threads |
| PoseUdpReceiver | last pose, subscriptions | receive, republish | receive thread |
| Logger, recorder, eye publisher, converters | files, frames | write | workers |

How they interact: MainNode owns the modules and is called back by them. The
event-stream thread and the UDP control thread only post work to
`session_work_queue_`, which one timer of the executor drains. The encoder
thread is the exception: it calls `tryAdvanceNegotiation` in MainNode directly,
and `sendH264Frame` in UdpManager. A teardown on the executor joins that thread.

What is hard: the encoder thread against a teardown; work that is queued in one
registration and run in the next; calls that fail and must be retried by a timer
that is armed on every path; queues at their limits while a packet is on its way
to the socket; `resetSession` against the threads that hold a frame or a packet;
two atomics that three threads write one after the other; RPCs made without a lock
about a peer that may have changed; threads that spawn threads while a stop joins
them; surfaces shared by hardware and two threads; error paths with several things to
undo; sequence numbers that wrap.
`PROJECT.json`, "hazards", lists these at their lines with the properties that
cover them.

What makes each component correct:

* session: Running is paired and negotiated; nothing bound to a session outlives
  its registration; no state waits for a timer that is not armed; producers stop
  before the transport;
* send path: the byte account is exact; the limits hold; packets keep their
  order; a frame that is partly sent is not evicted; parity goes first;
* control plane: a silent peer is noticed, a ready one is reported to the session,
  after every reset, and a stop returns;
* signaling client: readers of successive event streams never mix, a stream the robot
  stopped reports no end, every stop returns, no call outlasts a shutdown;
* peer streams: what counts as subscribed is forwarded, audio is accepted with the
  right peer's configuration, and what is missing is asked for again;
* jitter buffer: packets are played in order of their 16-bit numbers, each at
  most once, and a loss never stops playback;
* video pipeline: every stop ends with every thread joined, a device that fails is
  started again, no component is used after its teardown;
* video frames: every surface, buffer and timestamp has one owner, none leaks on an
  error path, and no surface is reused while it is read.

## Modules

### Session

`Session.tla` models MainNode with the parts of GrpcModule and UdpModule that
keep session state. `node` is a record of their members, `queue` is
`session_work_queue_`, `ex` says where the executor is (idle, between two work
items, or blocked in the join inside a teardown or a video restart), `vt` where
the encoder thread is inside `tryAdvanceNegotiation`.

A handler is a function from node to node, and a handler that calls another is
the composition of the two: `OnGrpcRegistered` is `CompleteRegisteredSetup`
applied to a node in Registered. A call that may fail is in the set `ok` of the
calls that succeed, chosen by the action. `teardownActiveSession` is two
functions, before and after the join of the encoder thread. The encoder thread
makes one step per call of `tryAdvanceNegotiation`; on the executor the same
function is one step, as is the part of a teardown before the join.

`video_config_sent_` and `config_published_` are booleans in the code; the model
keeps the number of the registration under which they were set (`epoch`), so that
a stale flag can be told from a fresh one. The same number stands for the session
id of the transport (`udp`) and of the event stream (`stream`).

Assumed: audio is enabled (`audio.enabled`) and the control plane too; the
timers' periods are left out, an armed timer may fire at any time; an active pair
attempt has no local effect and is not a step. `Overlap` lets the encoder thread run
against handlers, `LateWork` lets work be queued when a heartbeat fails; both happen
in the program. `session_races` has both; `session_serial`, which has neither, is about
what the handlers do one by one, and no theorem assumes either away.

### SendPath

`SendPath.tla` models UdpManager's send side and SendQueue. `input` is
`input_queue_`, `items`, `bytes` and `prot` are the queue, its account and its
protected group, `fec` and `snd` are the two threads with what they hold, `reset`
is the executor inside `resetSession`, `passed` the producers that have seen the
handshake ready and have not pushed yet.

A push is one step up to the eviction loops; every iteration of
`trimVideoBacklogLocked` and `enforceLimitsLocked` is a step of its own, so that a
loop that makes no progress shows as one that never ends. Nothing else happens
while a loop runs: the queue's mutex is held, and the steps that do not need it do
not touch what the loops read. Popping a packet, protecting its group, the result
of the system call and the requeue are separate steps, as in the code. A frame is
its number in capture order and its keyframe flag; a packet is its place in the
batch of its frame. What a loop, a pop or a full input queue leaves is the sequence at
the positions that are left (`Without`), and bytes are counts of positions: neither needs
recursion, so that the module can be proved about. A reset is one step for each thing it
clears; its stores to the counters are one step together, as each counter has one reader. The
pacer only delays a pop and is any delay here. Statistics,
`start` and `stop` are left out.

### PeerStreams

`PeerStreams.tla` models the subscription to the peer's streams in MainNode and the
calls of GrpcModule and GrpcManager it makes: `ensurePeerSubscriptions`,
`fetchRemoteAudioConfig` and their retry timer. The session handles its events one at
a time (`ses`); the timer's callback runs in its own callback group (`cb`, with its
local variables) and gives up `peer_receive_state_mutex_` around each RPC, so the
session may change between any two of its locked sections. An RPC fails, succeeds, or
is served with its answer lost. `held` is what the server forwards and is external: the
model takes a subscription to end with its pairing, which is why the code clears
`peer_subscribed_prefixes_` at every pairing. The code compares the peer's id, so a
callback of an earlier pairing with the *same* peer passes its test; `crossed` records
that, and the properties except it (see the counterexamples).

### GrpcClient

`GrpcClient.tla` models the threads of the signaling client: `StartEventStream`,
`StopEventStream`, the reader thread of each stream, `RpcScope` and `CancelPendingRpcs`
in GrpcManager, `stop` in GrpcModule, and the part of `~MainNode` up to the destruction
of the client. All handlers that start or stop the stream are in one mutually exclusive
callback group, and the destructor runs on the main thread once the executor has
returned: `ex` is where that one sequence is. `reader[s]` is where the reader of stream
`s` is, each load, exchange and blocking call a step; `running` is the one flag all
readers share. `call` is `PublishStreamConfig` on the encoder thread, the only call that
can be pending in the destructor. gRPC is external: a cancelled call ends, also when it
is made after the cancellation; `Read` and `Finish` may block as long as the server says
nothing; a message may be read after the cancellation. `Session` takes the same stream
as one that ends at any time and whose stop returns, which is what this module shows.

### Handshake

`Handshake.tla` models ControlPlane, and start, reset, stop and handshake timer of
UdpManager and UdpModule. `ready` and `last` are the atomics `handshake_ready_` and
`last_ack_steady_us_`; each load and store of the control thread (`ctl`), the receive
thread (`rcv`) and the executor (`exec`) is a step. HELLOs, PINGs and ACKs are lost or
late, the peer goes away and comes back, and an ACK from before a reset counts, as it
carries no session. `Session` uses ACK, reset and loss as single steps.

### AudioReceiver, RemoteAudio

`AudioReceiver.tla` gives the jitter buffer as operators: `PushPacket` returns the new
receiver and the packets handed on, with the initial fill, the signed 16-bit
difference, the resynchronisation after a large gap, the drain, and the skip of a loss.
The width is `SeqMod`. A packet keeps its true index beside its number, so that the
order of what is played can be judged; no guard reads the index.

`RemoteAudio.tla` puts it between its threads: the session in AudioModule and
AudioManager (`Start`, `Stop`), the timer that accepts the remote configuration, the
receive thread, which plays after it has released the receiver's lock, and the thread
of the capture pipeline. Datagrams are lost, doubled, reordered and late, and those of
an earlier peer count. A pipeline is an object that exists, or was destroyed when it
failed to start.

### VideoPipeline

`VideoPipeline.tla` models the life of VideoStreamManager, with the capturer, the
encoder's life cycle and the recorder: the caller of start and stop, the restart
supervisor, the encode thread, the capture and dequeue threads it spawns, the eye image
thread, the recorder's writer, and a caller of `requestKeyframe`. `pc` says where each
thread is and `slot` which thread objects are joinable. `startPipeline` and
`stopPipeline` are run by the caller and by the supervisor. Both capture formats,
recording and eye images on and off, and failures of device, encoder and decoder are explored.

### VideoFrames, SurfacePool

`VideoFrames.tla` models what flows through a running pipeline: camera buffers, decode
buffers, NV12 surfaces, NVENC's input buffers and access units, the maps of pending
frames and start times, and the eye image queue of one. A shared frame
(`SharedNv12Frame`) is the set of its holders, and its deleter gives the surface back
when the last of them lets go. NVENC and the driver are external: NVENC may emit fewer
access units than slices and leave the timestamp of later ones at zero.

`SurfacePool.tla` is the abstract specification: a surface belongs to at most one frame
at a time, is read only in that time, and is released only when nobody reads it.
`VideoFrames` implements it (`ImplementsSurfacePool`): the owner of a surface is the
frame whose holders have it, its readers are NVENC, for the inputs it was given and has
not encoded, and the eye image thread at work. The queue of free surfaces, the pending
map, the deleter and the rollback of a failed submit are the implementation.

## Runs

| Run | Shows |
|---|---|
| `session_serial` | types and limits, and that every stop clears what was published, with two peers, two registrations, a heartbeat limit of three and two queued work items, without overlap or late work |
| `session_races` | with both races, two peers and active pairing: transport binding, configuration flag and retry timer, a node that lost its registration sends nothing, the encoder thread is joined before the transport goes, and a negotiation becomes Running only when it is complete |
| `session_liveness` | the event stream returns and negotiations end |
| `send_queue` | account, limits and the frame being sent, with both limits reached by three frames, an audio and a telemetry packet |
| `send_reset` | order with a reset against every thread, and termination of the loops |
| `peer_streams` | the retry timer runs while something is missing, what counts as subscribed is forwarded, the configuration is the paired peer's, and the streams come up |
| `grpc_client` | the event stream's readers report in order and only ends the server or the network made, a shutdown cancels or refuses every call, and every stop returns |
| `handshake` | a silent peer is noticed, a peer that answers makes the handshake ready, the session is told, stop returns |
| `remote_audio` | order of playback, progress of the buffer, timeline and pipelines under stop, start and a new peer |
| `video_pipeline` | after a stop everything is joined and off, teardown runs alone, the encoder is alive in calls, stop returns, the direct mode comes up |
| `video_frames` | `VideoFrames` implements `SurfacePool`; surfaces, timestamps and in-flight flag are right on every error path; all buffers return |

Every property of these has a mutant of the code that breaks it ("mutants").

A run states what a document of the repository says and finds the program
different; `PROJECT.json`, "findings", quotes the lines: in `session_overlap_running`
the session is Running without a peer after a teardown overtaken by the encoder thread.
What is left of the documented meaning of Running in the presence of that race is
`RunningEnteredNegotiated` of `session_races`: the step from Negotiating to Running is
right on both threads, also when a reject and the pairing of another peer came in between;
only a step to Running from another state, after a teardown has left Negotiating, is not.

### Counterexamples kept beside the runs

These configurations are not in the list of runs. Each states one property that a
reader may expect, and TLC answers with a behaviour of the code that violates it:
`tlc -config <cfg> <module>`.

| Configuration | Property | What happens |
|---|---|---|
| `MCSession_late_work` | `UnregisteredStopsStreams` | a pair event of a lost registration starts the video in Connecting (`main_node.cpp:1153`; LIFECYCLE_SPEC.md:95) |
| `MCSession_audio` | `ProducersStopBeforeTransport` | the encoder thread starts the audio that the teardown has just stopped, before it is joined, and the transport goes first (`main_node.cpp:1772`) |
| `MCSession_hello_running` | `LeavingRunningUnpairs` | REQUEST_UDP_HELLO in Running leads to Pairing with peer and video kept (`main_node.cpp:1123`; LIFECYCLE_SPEC.md:80) |
| `MCSession_video_start` | `VideoStartRetried` | a video that fails to start on pairing is not tried again (`main_node.cpp:1558`; LIFECYCLE_SPEC.md:468) |
| `MCSession_telemetry` | `TelemetryResumes` | a peer loss before Negotiating leaves the handshake timer cancelled and telemetry off (`main_node.cpp:716`; LIFECYCLE_SPEC.md:179) |
| `MCSendPath_keyframe` | `KeyframesGoLast` | a keyframe group is evicted through its GroupEnd marker, which has no flag (`send_queue.cpp:404`) |
| `MCSendPath_old_session` | `ResetDropsOldFrames` | the FEC thread puts a frame of the old session into the cleared queue (`udp_manager.cpp:650`; LIFECYCLE_SPEC.md:234) |
| `MCSendPath_sending` | `SendingKept` | a push between `popPrioritized` and `setProtectedVideoGroup` evicts the rest of the frame with its marker; the frame is never flushed, and the next ones are sent without protection (`udp_manager.cpp:743`) |
| `MCSendPath_reused_group` | `WithinLimits` | a frame numbered before a reset is pushed after it, a later frame gets the same number, both are protected as one group, and the queue stays over its limit after the flush (`udp_manager.cpp:233`) |
| `MCPeerStreams_retry` | `RetryAlwaysArmed` | the callback of an earlier pairing stops the retry timer of the present one (`main_node.cpp:1369`) |
| `MCHandshake_ack` | `ReadyHasActivity` | an ACK between the two stores of a reset leaves the handshake ready without a time, and the peer is never declared lost (`control_plane.cpp:76`) |
| `MCRemoteAudio_order` | `PlayedInOrderAlways` | a loss given up across the wrap jumps to the smallest number, the newest packet, and older ones are played after it (`audio_receiver.cpp:177`) |
| `MCVideoPipeline_restart` | `VideoComesUp` | a camera that fails to start streaming in the MJPEG mode ends the capture thread and asks for no restart (`video_stream_manager.cpp:1372`; LIFECYCLE_SPEC.md:468) |
| `MCGrpcClient_call` | `ClientAliveInCall` | the destructor destroys the signaling client while the encoder thread, joined later, is in a call on it (`main_node.cpp:375`; LIFECYCLE_SPEC.md:55 stops the producers first) |
| `MCGrpcClient_callback` | `CallbackSetInCall` | the destructor clears `on_event_` between the reader's test and its call (`main_node.cpp:326`, `grpc_module.cpp:432`) |
| `MCVideoFrames_camera` | `CameraBuffersKept` | a buffer of zero bytes is dequeued and never requeued (`video_v4l2_capturer.cpp:229`) |

Some properties of the runs therefore carry an exception: `PartlySentKept` speaks of the
frame the send thread counts, not of the one it sends, and with `WithinLimits` is checked
and proved without resets; `RetryArmed`,
`SubscribedIsHeld` and `StreamsComeUp` except `crossed`; `SilentPeerNoticed` excepts a
ready handshake without a time; `PlayedInOrder` excepts a skip across the wrap;
`TimelineStartsFresh` excepts a packet the receive thread had taken before the reset,
which starts the new peer's timeline; `UplinkFlows` excepts a sample between the start
of the capture pipeline and `running = true`, which is answered FLUSHING and ends the
uplink for the session; `StopReturns` holds without recording only, since the
recorder's destructor clears its flag and notifies without the mutex
(`video_recorder.cpp:16`, `StopAlwaysReturns`).

Seen while modelling, without a configuration of their own: telemetry has a lower
priority than video (`udp_manager.cpp:26`, against BUSINESS_FLOW_SPEC.md:305); a new
keyframe clears older frames only when more than four groups are queued; a start that is
refused for want of libnvjpeg leaves the camera open; with several slices the timing
entry of a frame goes with its first access unit, so the warm-up may drop that unit as stale
and deliver the rest of the frame (`FramesDeliveredWhole`); an audio pipeline that fails is destroyed and not created
again in the process (against LIFECYCLE_SPEC.md:469); a late datagram of the previous
peer can set `expected_seq_` and make the new peer's packets late; line 341 of
`grpc_manager.cpp` holds a stray `f`, which the model reads as absent.

Bounds. `MaxEpoch = 2` lets a registration be lost once, which is what a stale
flag needs to show; `MaxQueue = 2` lets one event be queued behind another. The
session's other state is finite. `MaxFrames = 3` with `MaxGroups = 2` reaches the
backlog limit, and the packet and byte limits of `send_queue` are each reached
without the other. `MaxGroups` is 4 in the code, the limits 2048 packets and
1200000 bytes: the policy only compares, so small numbers behave alike.
`peer_streams` has two peers and two pairings, so that a callback meets its own pairing,
another peer, and the same peer again. `handshake` has two resets or stops and two ACKs
under way: an ACK from before a reset meets one from after it. `remote_audio` has six
packets of two peers with numbers modulo ten and a buffer of three, beginning so that the
wrap is reached; the code's limits are larger and are only compared, and
`ReceiverConstants` keeps the half-range wider than buffer and gap, as in the code.
`grpc_client` has three streams in two registrations, so that an ended stream, a stopped
one and a third follow each other, and two events, so that one waits in the queue
behind another. `video_pipeline` has one start and two faults: a failure and a failure of the restart.
`video_frames` has three frames on two surfaces, one input buffer and one fault, so pool,
decoder and encoder each run empty. Deadlock is not checked for `SendPath`, the video modules,
`RemoteAudio` and `PeerStreams`, where frames, packets, pairings or starts are bounds of the
model and it may stop when they are used up, nor for `GrpcClient`, which ends in its destruction; it is checked for `Session` and `Handshake`.

Fairness. `Session!FairSpec`: the executor calls every armed timer again and
again and drains the queue (strong fairness, as other handlers may run in between);
calls that are retried for ever succeed at some time; an encoder that is started
delivers its parameter sets; the server acknowledges one of infinitely many HELLOs.
`SendPath!FairSpec`: the thread that holds the queue's mutex goes on. `PeerStreams`: handlers
and timer run, an RPC ends by its deadline, one that is made again and again succeeds in the
end, and peers declare their streams. `Handshake`: threads run, the executor runs queued work
and timers, time passes, and not every HELLO and ACK of a peer that is up is lost. The video
modules: every runnable thread is scheduled, and NVENC encodes what it is given; nobody need
call start or stop or ask for a keyframe. `GrpcClient`: the threads run and a cancelled
call ends; neither a message nor the end of a stream nor a shutdown need come.
`RemoteAudio` has safety properties only.

## Proofs

`SessionProofs.tla` proves, for every set of peers, every number of registrations,
every heartbeat limit and queue bound, with and without the races:

* `TypeCorrect`: `TypeOK`;
* `TransportBoundToSession`: the transport belongs to the current registration;
* `ConfigMatchesVideo`: a configuration counts as published only while the video
  that it describes runs;
* `NegotiationRetried`: a negotiation with running video has its retry timer.

They follow from one inductive invariant, `Invariant`. The transport's binding
needs that an unregistered node has none outside of a teardown to Connecting, since
the next registration changes the epoch. The configuration's needs that parameter sets
imply running video, and that the encoder thread inside `tryAdvanceNegotiation` keeps
the video running until it is joined. Each function a handler is composed of has a lemma
that says which members it keeps; each action has a step of `NextInvariant`.
The assumption is `SessionConstants`, which TLC evaluates in every session run.

The second part of `SessionProofs.tla` proves, under the same assumption and so with the races,
the action properties `NegotiationCompletes` and `TransportOutlivesEncoder` and the invariant
`UnregisteredIsSilent`. The encoder thread sets Running without reading the state again, so
that the step is right only because of what the handlers cannot do meanwhile. The invariant,
`NegotiationInvariant`, says it: a handler that tears down has left Negotiating before it
blocks in the join; until then no other handler runs; so what the thread has published
(`EncoderPublished`) is still there whenever the state it overwrites is Negotiating, although
the peer may be another one by then. A configuration counts as published by the number of its
registration, so the invariant also needs that nothing but a registration can happen first
(`FirstStepRegisters`). What the races do break, that a session in Running is paired and that a lost
registration stops the video, is refuted by `session_overlap_running` and `MCSession_late_work`
and not proved under an assumption that hides the race.

`SurfacePoolProofs.tla` proves of the abstract pool, for every set of surfaces, frames and
readers: `ReadSurfacesAreOwned`, that a surface somebody reads belongs to a frame, and
`SurfacesNotHandedOver`, that no step gives a surface of one frame to another. The
inductive invariant is the types with `ReadIsOwned` itself: a read begins only on an owned
surface and a release needs that nobody reads. `VideoFrames` inherits both through
`PoolPromiseKept` below.

`SendPathProofs.tla`, for every limit, every number of groups, packets, frames and
packet sizes: `QueueBytesExact` and `VideoKeepsCaptureOrder` with any number of resets,
`SessionWithinLimits` and the action property `SessionPartlySentKept` for one session
(`OneSession == MaxResets = 0`), and `SendPathTypes`. A sequence thinned out to a set of
positions is read through the map that enumerates them (`Enumerates`, `AtThins`,
`WithoutThins`), and counts add up over what is taken and what is left (`CountSplit`) and
over a concatenation (`CountConcat`), each by a bijection of finite sets: no induction over
the queue is needed. `Inv` gives account and order: the held packet leads the queue
(`Leads`), which is what a requeue at the front needs, and the frames not yet cut into
packets are later than any packet. `SessionInv` gives the rest. `LineBounded` bounds the
queue together with the packet on its way to the socket, since a packet that is put back
is not checked against the limits; while a loop runs it bounds only what no loop takes.
It is kept when a loop ends with nothing left to evict because a new batch is never
protected (`GroupsUsedOnce`), and when the marker ends the protection because it is the
last packet of its group. `CountedIsProtected` says that the counted frame is the
protected one. A reset breaks `GroupsUsedOnce`, and `MCSendPath_reused_group` shows that
the limits then fail: `OneSession` is not one assumption too many.

`GrpcClientProofs.tla`, for any number of registrations, streams and events:
`ReportsInOrder` and `PendingCallsCancelled`. All readers share one flag, so the order
rests on `OneReader`, that only the newest stream has a reader that is alive, and that the
next start or stop joins exactly it; on `CancelledIsStopped`, that a context is
cancelled only after the flag was cleared; and on `QueueInOrder`, which relates any two queued items.

`PeerStreamsProofs.tla`, for any peers, pairings and events: `RetryStaysArmed`,
`SubscribedIsForwarded` and `AppliedConfigIsOfPeer`. The callback's locals are stale
whenever it takes the lock again. The invariant says what they still imply at each of its
places: `StoredIsHeld` for a subscription about to be stored, `EnsuredIsSubscribed` for an
answer it was given before the fetch, `StopsWhenDone` for the decision to stop the timer.

`VideoPipelineProofs.tla`, for any number of starts and faults and both formats:
`StoppedIsQuiet`, `TeardownIsAlone` and `EncoderOutlivesCalls`. `OneOwner` says that
API and supervisor never run `startPipeline` or `stopPipeline` together, `WorkersOwned` that a
running thread is in its slot or about to be put there, so that a join cannot miss it,
and `Progress` what is joined at each place of a stop: the capture thread is joined twice, because the
encode thread may spawn it after the first join.

`VideoFramesProofs.tla`, for any number of camera and decode buffers, surfaces, input
buffers, slices and frames: `FrameDataReturns`, `TimestampIsOfFrame`, and the refinement
`PoolPromiseKept`, that every behaviour of `VideoFrames` is one of `SurfacePool`. For the
refinement each step keeps the held frames, fills one free surface or releases one
(`HolderSteps`); that NVENC never reads a released surface rests on `IndicesInUse` and
`IndicesOnce`: an input buffer in use is in one place and has a surface of its own, which the map
keeps until its frame is complete. The timestamps need that frames stay in capture
order from place to place (`CapturesInOrder`, `FramesEarlier`, `UnitsEarlier`, `UnitsInOrder`)
and `TimestampsQueued`: the queue holds, in order, exactly the frames whose first unit is
still to come, so the `pop_back` of a failed `qBuffer` takes back its own timestamp.
`SlicesCounted` says how far the dequeue thread is in a frame, so that it takes a
timestamp once per frame and not once per slice.

`RemoteAudioProofs.tla`, for every number space, buffer and number of packets that
`ReceiverConstants` allows: `BufferNeverStalls`, `TimelineIsFresh`, `SourceOutlivesPush`
and `UplinkKeepsFlowing`. The first needs that the drain ends: a buffer of at most
`MaxPackets` holds no longer run of consecutive numbers, as numbers less than `SeqMod` apart
differ (`NumInjective`). The proof of the second failed for an initial fill of one packet: the
receive thread can set the timeline between two steps of a start, before the
step in which the model took note of what it held. The model now takes note at the end of the
start as well; the run's fill of two had hidden it.

Every theorem above rests only on the constants' assumptions of its module, which TLC
evaluates in the runs, and on `OneSession` where that is said; each inductive invariant was checked by TLC on the run's
instance before it was proved.

Only model-checked: `LoopsTerminate` of `SendPath`, which is liveness; `Handshake`, whose properties are liveness;
`PlayedInOrder`, which holds only while packets are reordered by less than half of the
number space, a bound on the network that the model has by its finite number of packets;
and every liveness property,
which is out of reach of the prover. `TypeOK` of the modules that no theorem treats documents the values of their
variables and is in no run.

## Plan

1. `Session`, `SendPath`, `PeerStreams`, `GrpcClient`, `Handshake`, `AudioReceiver` with `RemoteAudio`,
   `VideoPipeline`, `VideoFrames` with `SurfacePool`: done.
2. Theorems of `Session`, `SurfacePool`, `GrpcClient`, `PeerStreams`, `VideoPipeline`, `RemoteAudio`,
   `VideoFrames` with its refinement of `SurfacePool`, and `SendPath`: done.
3. `PoseReceiver`, `Pacer`, `FecLayout`, if they turn out to hold more than they show.

## Not modelled

Pixel processing on GPU and hardware (converters, decoder, undistorters), packet layout,
GF(256) arithmetic and data definitions have no control to check; what they own, buffers
and surfaces, is in `VideoFrames`. The pacer delays a send by a real-time debt, and
`SendPath` takes any delay. `PoseUdpReceiver` converts and republishes one datagram.
`TeleopLogger` writes files nothing depends on. `direct_running_mode` (a debugging
entry), what a process shutdown does after the signaling client, statistics, bitrate adaptation and the reading of parameters
are left out.
