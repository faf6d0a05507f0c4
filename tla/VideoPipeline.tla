---------------------------- MODULE VideoPipeline ----------------------------
(***************************************************************************)
(* The life of the video pipeline: VideoStreamManager with the capturer,   *)
(* the encoder's life cycle and the recorder it owns.  The threads are     *)
(*   api   the caller of start and stop (VideoModule, one call at a time); *)
(*   sup   restartSupervisorThreadMain;                                    *)
(*   enc   encodeThreadMain, which builds the components and then spawns   *)
(*   cap   captureThreadMain (MJPEG only) and                              *)
(*   dq    encoderDqThreadMain;                                            *)
(*   eye   eyeImageThreadMain;                                             *)
(*   rec   VideoRecorder::writerLoop;                                      *)
(*   ext   a caller of requestKeyframe or setTargetBitrate.                *)
(* pc[t] is the place of thread t, "done" when it has returned or was      *)
(* never spawned.  A thread object is joinable while slot[w] holds it.     *)
(* startPipeline and stopPipeline are run by api and by sup: their places  *)
(* have the same names in both.                                            *)
(*                                                                         *)
(* What flows through the pipeline is in VideoFrames; here a frame is only *)
(* decoded well or badly, and a packet only recorded.                      *)
(***************************************************************************)
EXTENDS Naturals, FiniteSets

CONSTANTS
    Modes,          \* the capture formats of video.pixel_format to explore
    Recordings,     \* the values of video.recording.enabled to explore
    EyeImages,      \* the values of video.eye_image.enabled to explore
    BadThreshold,   \* video.decoder.consecutive_bad_frame_threshold
    RecorderLimit,  \* the size VideoRecorder's queue may exceed by one (300)
    MaxFaults,      \* bound: device failures and badly decoded frames
    MaxStarts       \* bound: calls of start

ASSUME VideoPipelineConstants ==
    /\ Modes \subseteq {"mjpeg", "yuyv"} /\ Recordings \subseteq BOOLEAN
    /\ EyeImages \subseteq BOOLEAN
    /\ BadThreshold \in Nat \ {0}
    /\ RecorderLimit \in Nat /\ MaxFaults \in Nat /\ MaxStarts \in Nat

VARIABLES
    mode,       \* yuyv_direct_enabled_
    recording,  \* recorder_config_.enabled
    eyeImage,   \* eye_image_enabled_
    running,    \* running_
    pipe,       \* pipeline_running_
    restartReq, \* restart_requested_
    pc,         \* where each thread is
    slot,       \* the joinable worker threads
    capturer,   \* capturer_: "none", "open", or "on" while its running_ is set
    post,       \* converter_ or undistorter_ is set
    decoder,    \* decoder_ is set
    published,  \* encoder_ is set
    hw,         \* NVENC: "off", "on", or "closing" once shutting_down_ is set
    bad,        \* consecutive_bad_decode_frames_
    recOn,      \* VideoRecorder::running_
    recq,       \* size of VideoRecorder::queue_
    faults,     \* number of faults so far
    starts      \* number of calls of start so far

config == <<mode, recording, eyeImage>>
flags  == <<running, pipe, restartReq>>
parts  == <<capturer, post, decoder, published, hw>>
recVars == <<recOn, recq>>
bounds == <<faults, starts>>
vars == <<config, flags, pc, slot, parts, bad, recVars, bounds>>

Workers == {"enc", "cap", "dq", "eye"}
Threads == Workers \cup {"api", "sup", "rec", "ext"}

Init ==
    /\ mode \in Modes /\ recording \in Recordings /\ eyeImage \in EyeImages
    /\ running = FALSE /\ pipe = FALSE /\ restartReq = FALSE
    /\ pc = [t \in Threads |-> IF t \in {"api", "ext"} THEN "idle" ELSE "done"]
    /\ slot = [w \in Workers \cup {"sup"} |-> FALSE]
    /\ capturer = "none" /\ post = FALSE /\ decoder = FALSE
    /\ published = FALSE /\ hw = "off"
    /\ bad = 0 /\ recOn = FALSE /\ recq = 0
    /\ faults = 0 /\ starts = 0

Goto(t, place) == pc' = [pc EXCEPT ![t] = place]
Fault == faults < MaxFaults /\ faults' = faults + 1

-----------------------------------------------------------------------------
(* start and stop.                                                         *)

(* restart_mutex_ is held by the supervisor from the test of its condition *)
(* until the wait has released it.                                         *)
RestartMutexFree == pc["sup"] # "u_park"

(* start: the camera is opened, the configuration read, a request left     *)
(* over dropped.                                                           *)
ApiStart ==
    /\ pc["api"] = "idle" /\ ~running /\ starts < MaxStarts
    /\ RestartMutexFree
    /\ capturer' = "open" /\ restartReq' = FALSE
    /\ running' = TRUE /\ starts' = starts + 1
    /\ Goto("api", "p_check")
    /\ UNCHANGED <<config, pipe, slot, post, decoder, published, hw, bad, recVars, faults>>

(* start returns false: the camera cannot be opened, or the MJPEG runtime  *)
(* is missing, which is noticed with the camera open.                      *)
ApiStartRefused ==
    /\ pc["api"] = "idle" /\ ~running /\ starts < MaxStarts
    /\ \/ capturer' = "none"
       \/ capturer' = "open" /\ mode = "mjpeg"
    /\ Fault /\ starts' = starts + 1
    /\ UNCHANGED <<config, flags, pc, slot, post, decoder, published, hw, bad, recVars>>

(* The supervisor is spawned only once the pipeline has been started.      *)
(* (startPipeline cannot fail here: the camera is open, and running_ would *)
(* have to be cleared by a stop that VideoModule calls from this thread.)  *)
ApiSpawnSupervisor ==
    /\ pc["api"] = "p_ok"
    /\ pc' = [pc EXCEPT !["api"] = "idle", !["sup"] = "u_check"]
    /\ slot' = [slot EXCEPT !["sup"] = TRUE]
    /\ UNCHANGED <<config, flags, parts, bad, recVars, bounds>>

ApiStop ==
    /\ pc["api"] = "idle" /\ running
    /\ running' = FALSE /\ Goto("api", "stop_clear")
    /\ UNCHANGED <<config, pipe, restartReq, slot, parts, bad, recVars, bounds>>

Notified == pc["sup"] = "u_wait"

\* Mutant: the notification is sent without the mutex.
ApiStopNotifyUnlocked ==
    /\ pc["api"] = "stop_clear"
    /\ restartReq' = FALSE
    /\ pc' = [pc EXCEPT !["api"] = "join_sup",
                        !["sup"] = IF Notified THEN "u_check" ELSE @]
    /\ UNCHANGED <<config, running, pipe, slot, parts, bad, recVars, bounds>>

(* running_ was cleared without restart_mutex_: taking it before the       *)
(* notification is what keeps the supervisor from missing both.            *)
ApiStopNotify ==
    /\ pc["api"] = "stop_clear" /\ RestartMutexFree
    /\ restartReq' = FALSE
    /\ pc' = [pc EXCEPT !["api"] = "join_sup",
                        !["sup"] = IF Notified THEN "u_check" ELSE @]
    /\ UNCHANGED <<config, running, pipe, slot, parts, bad, recVars, bounds>>

\* Mutant: stop returns without joining the supervisor.
ApiStopWithoutJoin ==
    /\ pc["api"] = "join_sup"
    /\ slot' = [slot EXCEPT !["sup"] = FALSE] /\ Goto("api", "s_begin")
    /\ UNCHANGED <<config, flags, parts, bad, recVars, bounds>>

ApiJoinSupervisor ==
    /\ pc["api"] = "join_sup" /\ (slot["sup"] => pc["sup"] = "done")
    /\ slot' = [slot EXCEPT !["sup"] = FALSE] /\ Goto("api", "s_begin")
    /\ UNCHANGED <<config, flags, parts, bad, recVars, bounds>>

-----------------------------------------------------------------------------
(* startPipeline, by the thread t.                                         *)

StartCheck(t) ==
    /\ pc[t] = "p_check"
    /\ Goto(t, IF ~running THEN "p_fail" ELSE IF pipe THEN "p_ok" ELSE "p_device")
    /\ UNCHANGED <<config, flags, slot, parts, bad, recVars, bounds>>

StartDeviceFails(t) ==
    /\ pc[t] = "p_device" /\ capturer = "none" /\ Fault
    /\ Goto(t, "p_fail")
    /\ UNCHANGED <<config, flags, slot, parts, bad, recVars, starts>>

(* The device is opened, the recorder's thread started (or the recorder    *)
(* given up), the queue and the counters cleared, and the pipeline is on.  *)
StartUp(t) ==
    /\ pc[t] = "p_device"
    /\ capturer' = IF capturer = "none" THEN "open" ELSE capturer
    /\ bad' = 0 /\ pipe' = TRUE
    /\ \/ /\ recording /\ recOn' = TRUE /\ recq' = 0
          /\ pc' = [pc EXCEPT ![t] = "p_enc", !["rec"] = "r_check"]
          /\ UNCHANGED faults
       \/ /\ ~recording /\ Goto(t, "p_enc") /\ UNCHANGED <<recVars, faults>>
       \/ /\ recording /\ Fault /\ Goto(t, "p_enc") /\ UNCHANGED recVars
    /\ UNCHANGED <<config, running, restartReq, slot, post, decoder, published, hw, starts>>

(* std::thread: the worker runs before assignWorkerThread has seen it.     *)
Spawn(t, from, w, to) ==
    /\ pc[t] = from
    /\ pc' = [pc EXCEPT ![t] = to, ![w] = "begin"]
    /\ UNCHANGED <<config, flags, slot, parts, bad, recVars, bounds>>

(* assignWorkerThread keeps the worker, or waits for it if the pipeline    *)
(* has been stopped since.  (It would also wait for a worker it finds in   *)
(* the slot; there is none, stopPipeline has joined them all.)             *)
Assign(t, from, w, to) ==
    /\ pc[t] = from
    /\ \/ pipe /\ slot' = [slot EXCEPT ![w] = TRUE]
       \/ ~pipe /\ pc[w] = "done" /\ UNCHANGED slot
    /\ Goto(t, to)
    /\ UNCHANGED <<config, flags, parts, bad, recVars, bounds>>

(* The eye image thread is optional.                                       *)
StartWithoutEye(t) ==
    /\ pc[t] = "p_eye" /\ ~eyeImage
    /\ Goto(t, "p_ok")
    /\ UNCHANGED <<config, flags, slot, parts, bad, recVars, bounds>>

StartPipeline(t) ==
    \/ StartCheck(t) \/ StartDeviceFails(t) \/ StartUp(t)
    \/ Spawn(t, "p_enc", "enc", "p_encAssign")
    \/ Assign(t, "p_encAssign", "enc", "p_eye")
    \/ StartWithoutEye(t)
    \/ eyeImage /\ Spawn(t, "p_eye", "eye", "p_eyeAssign")
    \/ Assign(t, "p_eyeAssign", "eye", "p_ok")

-----------------------------------------------------------------------------
(* stopPipeline, by the thread t.                                          *)

(* interrupt: STREAMOFF if the camera is streaming.                        *)
Interrupted == IF capturer = "on" THEN "open" ELSE capturer

StopBegin(t) ==
    /\ pc[t] = "s_begin"
    /\ pipe' = FALSE /\ Goto(t, "s_interrupt")
    /\ UNCHANGED <<config, running, restartReq, slot, parts, bad, recVars, bounds>>

StopInterrupt(t) ==
    /\ pc[t] = "s_interrupt"
    /\ capturer' = Interrupted /\ Goto(t, "s_cap1")
    /\ UNCHANGED <<config, flags, slot, post, decoder, published, hw, bad, recVars, bounds>>

\* Mutant: a join that does not wait for a running thread.
JoinFinished(t, from, w, to) ==
    /\ pc[t] = from
    /\ slot' = [slot EXCEPT ![w] = FALSE] /\ Goto(t, to)
    /\ UNCHANGED <<config, flags, parts, bad, recVars, bounds>>

(* joinWorkerThread returns at once when the slot is empty.                *)
Join(t, from, w, to) ==
    /\ pc[t] = from /\ (slot[w] => pc[w] = "done")
    /\ slot' = [slot EXCEPT ![w] = FALSE] /\ Goto(t, to)
    /\ UNCHANGED <<config, flags, parts, bad, recVars, bounds>>

StopInterruptAgain(t) ==
    /\ pc[t] = "s_again"
    /\ capturer' = Interrupted /\ Goto(t, "s_cap2")
    /\ UNCHANGED <<config, flags, slot, post, decoder, published, hw, bad, recVars, bounds>>

(* encoder_ is hidden under callback_mutex_ and told to shut down.         *)
StopHideEncoder(t) ==
    /\ pc[t] = "s_hide"
    /\ published' = FALSE /\ hw' = IF published THEN "closing" ELSE hw
    /\ Goto(t, "s_shutdown")
    /\ UNCHANGED <<config, flags, slot, capturer, post, decoder, bad, recVars, bounds>>

InEncoderCall == pc["ext"] = "x_call" \/ pc["dq"] = "d_packet"

\* Mutant: NVENC is closed without waiting for calls.
StopShutdownAtOnce(t) ==
    /\ pc[t] = "s_shutdown"
    /\ hw' = "off"
    /\ pc' = [pc EXCEPT ![t] = "s_rest", !["ext"] = IF @ = "x_hold" THEN "x_stale" ELSE @]
    /\ UNCHANGED <<config, flags, slot, capturer, post, decoder, published, bad, recVars, bounds>>

(* shutdown waits for encoder_lifecycle_mutex_; whoever still holds the    *)
(* shared_ptr holds an encoder that refuses every call.                    *)
StopShutdown(t) ==
    /\ pc[t] = "s_shutdown" /\ ~InEncoderCall
    /\ hw' = "off"
    /\ pc' = [pc EXCEPT ![t] = "s_rest", !["ext"] = IF @ = "x_hold" THEN "x_stale" ELSE @]
    /\ UNCHANGED <<config, flags, slot, capturer, post, decoder, published, bad, recVars, bounds>>

(* The capturer is stopped, the components retired, and the recorder is    *)
(* destroyed: running_ is cleared and the writer notified, without mutex_. *)
StopRest(t) ==
    /\ pc[t] = "s_rest"
    /\ capturer' = "none" /\ post' = FALSE /\ decoder' = FALSE /\ bad' = 0
    /\ recOn' = FALSE
    /\ pc' = [pc EXCEPT ![t] = "s_recorder",
                        !["rec"] = IF @ = "r_wait" THEN "r_check" ELSE @]
    /\ UNCHANGED <<config, flags, slot, published, hw, recq, bounds>>

(* The destructor joins the writer; then stopPipeline returns.             *)
StopJoinRecorder(t) ==
    /\ pc[t] = "s_recorder" /\ pc["rec"] = "done"
    /\ recq' = 0
    /\ Goto(t, IF t = "api" THEN "idle" ELSE "u_backoff")
    /\ UNCHANGED <<config, flags, slot, parts, bad, recOn, bounds>>

StopPipeline(t) ==
    \/ StopBegin(t) \/ StopInterrupt(t)
    \/ Join(t, "s_cap1", "cap", "s_enc")
    \/ Join(t, "s_enc", "enc", "s_again")
    \/ StopInterruptAgain(t)
    \/ Join(t, "s_cap2", "cap", "s_dq")
    \/ Join(t, "s_dq", "dq", "s_eye")
    \/ Join(t, "s_eye", "eye", "s_hide")
    \/ StopHideEncoder(t) \/ StopShutdown(t) \/ StopRest(t) \/ StopJoinRecorder(t)

-----------------------------------------------------------------------------
(* restartSupervisorThreadMain.                                            *)

(* The loop's test and the condition of the wait.                          *)
SupCheck ==
    /\ pc["sup"] = "u_check"
    /\ \/ ~running /\ Goto("sup", "done") /\ UNCHANGED restartReq
       \/ running /\ restartReq /\ restartReq' = FALSE /\ Goto("sup", "s_begin")
       \/ running /\ ~restartReq /\ Goto("sup", "u_park") /\ UNCHANGED restartReq
    /\ UNCHANGED <<config, running, pipe, slot, parts, bad, recVars, bounds>>

SupPark ==
    /\ pc["sup"] = "u_park" /\ Goto("sup", "u_wait")
    /\ UNCHANGED <<config, flags, slot, parts, bad, recVars, bounds>>

(* The wait between attempts has a timeout.                                *)
SupBackoff ==
    /\ pc["sup"] = "u_backoff"
    /\ Goto("sup", IF running THEN "p_check" ELSE "done")
    /\ UNCHANGED <<config, flags, slot, parts, bad, recVars, bounds>>

SupRestarted ==
    /\ pc["sup"] = "p_ok" /\ Goto("sup", "u_check")
    /\ UNCHANGED <<config, flags, slot, parts, bad, recVars, bounds>>

\* Mutant: a failed restart is not tried again.
SupFailedGivesUp ==
    /\ pc["sup"] = "p_fail" /\ Goto("sup", "u_check")
    /\ UNCHANGED <<config, flags, slot, parts, bad, recVars, bounds>>

(* A failed attempt is stopped and tried again after the backoff.          *)
SupRestartFailed ==
    /\ pc["sup"] = "p_fail" /\ Goto("sup", "s_begin")
    /\ UNCHANGED <<config, flags, slot, parts, bad, recVars, bounds>>

-----------------------------------------------------------------------------
(* requestPipelineRestart, by the worker w: the flags are read first and   *)
(* the request is set under restart_mutex_ later.                          *)
RequestCheck(w) ==
    /\ pc[w] = "q_check"
    /\ Goto(w, IF running /\ pipe THEN "q_set" ELSE "done")
    /\ UNCHANGED <<config, flags, slot, parts, bad, recVars, bounds>>

RequestSet(w) ==
    /\ pc[w] = "q_set" /\ RestartMutexFree
    /\ restartReq' = TRUE
    /\ pc' = [pc EXCEPT ![w] = "done",
                        !["sup"] = IF Notified /\ ~restartReq THEN "u_check" ELSE @]
    /\ UNCHANGED <<config, running, pipe, slot, parts, bad, recVars, bounds>>

-----------------------------------------------------------------------------
(* encodeThreadMain.                                                       *)

Fails(w, to) ==
    /\ Fault /\ Goto(w, to)
    /\ UNCHANGED <<config, flags, slot, parts, bad, recVars, starts>>

Leaves(w) ==
    /\ ~pipe /\ Goto(w, "done")
    /\ UNCHANGED <<config, flags, slot, parts, bad, recVars, bounds>>

EncPostprocess ==
    /\ pc["enc"] = "begin"
    /\ \/ Fails("enc", "q_check")
       \/ /\ post' = TRUE /\ Goto("enc", "e_encoder")
          /\ UNCHANGED <<config, flags, slot, capturer, decoder, published, hw, bad, recVars, bounds>>

(* The encoder is published only after it has been initialised.            *)
EncInitializeEncoder ==
    /\ pc["enc"] = "e_encoder"
    /\ \/ Leaves("enc")
       \/ pipe /\ Fails("enc", "q_check")
       \/ /\ pipe /\ published' = TRUE /\ hw' = "on" /\ Goto("enc", "e_decoder")
          /\ UNCHANGED <<config, flags, slot, capturer, post, decoder, bad, recVars, bounds>>

EncInitializeDecoder ==
    /\ pc["enc"] = "e_decoder"
    /\ \/ Leaves("enc")
       \/ pipe /\ mode = "mjpeg" /\ Fails("enc", "q_check")
       \/ /\ pipe /\ decoder' = (mode = "mjpeg")
          /\ Goto("enc", IF mode = "mjpeg" THEN "e_cap" ELSE "e_dq")
          /\ UNCHANGED <<config, flags, slot, capturer, post, published, hw, bad, recVars, bounds>>

(* VideoV4L2Capturer::start, by the encode thread in the direct mode.      *)
EncStartCamera ==
    /\ pc["enc"] = "e_camera"
    /\ \/ mode = "yuyv" /\ Fails("enc", "q_check")
       \/ /\ capturer' = IF mode = "yuyv" THEN "on" ELSE capturer
          /\ Goto("enc", "e_loop")
          /\ UNCHANGED <<config, flags, slot, post, decoder, published, hw, bad, recVars, bounds>>

EncLoopEnds == pc["enc"] = "e_loop" /\ Leaves("enc")

EncodeThread ==
    \/ EncPostprocess \/ EncInitializeEncoder \/ EncInitializeDecoder
    \/ Spawn("enc", "e_cap", "cap", "e_capAssign")
    \/ Assign("enc", "e_capAssign", "cap", "e_dq")
    \/ Spawn("enc", "e_dq", "dq", "e_dqAssign")
    \/ Assign("enc", "e_dqAssign", "dq", "e_camera")
    \/ EncStartCamera \/ EncLoopEnds
    \/ RequestCheck("enc") \/ RequestSet("enc")

-----------------------------------------------------------------------------
(* captureThreadMain: a camera that does not start ends the thread.        *)

CapStart ==
    /\ pc["cap"] = "begin"
    /\ \/ Leaves("cap")
       \/ pipe /\ Fails("cap", "done")
       \/ /\ pipe /\ capturer' = "on" /\ Goto("cap", "c_loop")
          /\ UNCHANGED <<config, flags, slot, post, decoder, published, hw, bad, recVars, bounds>>

CapFrame ==
    /\ pc["cap"] = "c_loop"
    /\ \/ Leaves("cap")
       \/ /\ pipe /\ capturer = "on" /\ bad' = 0 /\ bad # 0
          /\ UNCHANGED <<config, flags, pc, slot, parts, recVars, bounds>>
       \/ /\ pipe /\ capturer = "on" /\ Fault /\ bad' = bad + 1
          /\ Goto("cap", IF bad' >= BadThreshold THEN "q_check" ELSE "c_loop")
          /\ UNCHANGED <<config, flags, slot, parts, recVars, starts>>

CaptureThread == CapStart \/ CapFrame \/ RequestCheck("cap") \/ RequestSet("cap")

-----------------------------------------------------------------------------
(* encoderDqThreadMain, and the recorder's queue and thread.               *)

DqBegin ==
    /\ pc["dq"] = "begin"
    /\ Goto("dq", IF pipe THEN "d_loop" ELSE "done")
    /\ UNCHANGED <<config, flags, slot, parts, bad, recVars, bounds>>

(* dequeueOne keeps encoder_lifecycle_mutex_ shared until releaseCapture.  *)
DqPacket ==
    /\ pc["dq"] = "d_loop"
    /\ \/ Leaves("dq")
       \/ /\ pipe /\ published /\ capturer = "on" /\ Goto("dq", "d_packet")
          /\ UNCHANGED <<config, flags, slot, parts, bad, recVars, bounds>>

(* onEncoderPacket and writeFrame: a queue past its limit loses its oldest *)
(* entry before the new one is pushed.                                     *)
DqDeliver ==
    /\ pc["dq"] = "d_packet"
    /\ \/ /\ recOn /\ pc["rec"] # "r_park"
          /\ recq' = IF recq > RecorderLimit THEN recq ELSE recq + 1
          /\ pc' = [pc EXCEPT !["dq"] = "d_loop",
                              !["rec"] = IF @ = "r_wait" THEN "r_check" ELSE @]
       \/ ~recOn /\ Goto("dq", "d_loop") /\ UNCHANGED recq
    /\ UNCHANGED <<config, flags, slot, parts, bad, recOn, bounds>>

RecCheck ==
    /\ pc["rec"] = "r_check"
    /\ \/ ~recOn /\ Goto("rec", "done") /\ UNCHANGED recq
       \/ recOn /\ recq > 0 /\ recq' = recq - 1 /\ UNCHANGED pc
       \/ recOn /\ recq = 0 /\ Goto("rec", "r_park") /\ UNCHANGED recq
    /\ UNCHANGED <<config, flags, slot, parts, bad, recOn, bounds>>

RecPark ==
    /\ pc["rec"] = "r_park" /\ Goto("rec", "r_wait")
    /\ UNCHANGED <<config, flags, slot, parts, bad, recVars, bounds>>

-----------------------------------------------------------------------------
(* eyeImageThreadMain: its waits have a timeout.                           *)

EyeThread ==
    /\ pc["eye"] \in {"begin", "y_loop"}
    /\ \/ Leaves("eye")
       \/ pipe /\ pc["eye"] = "begin" /\ Fails("eye", "done")
       \/ /\ pipe /\ pc["eye"] = "begin" /\ Goto("eye", "y_loop")
          /\ UNCHANGED <<config, flags, slot, parts, bad, recVars, bounds>>

-----------------------------------------------------------------------------
(* requestKeyframe and setTargetBitrate: the shared_ptr is copied under    *)
(* callback_mutex_ and used without it; forceIDR and setBitrate hold       *)
(* encoder_lifecycle_mutex_ shared while they use NVENC.                   *)

ExtGrab ==
    /\ pc["ext"] = "idle" /\ published /\ Goto("ext", "x_hold")
    /\ UNCHANGED <<config, flags, slot, parts, bad, recVars, bounds>>

ExtCall ==
    \/ /\ pc["ext"] = "x_hold"
       /\ Goto("ext", IF hw = "on" THEN "x_call" ELSE "idle")
       /\ UNCHANGED <<config, flags, slot, parts, bad, recVars, bounds>>
    \/ /\ pc["ext"] \in {"x_stale", "x_call"} /\ Goto("ext", "idle")
       /\ UNCHANGED <<config, flags, slot, parts, bad, recVars, bounds>>

-----------------------------------------------------------------------------
ApiSteps ==
    \/ ApiSpawnSupervisor \/ ApiStopNotify \/ ApiJoinSupervisor
    \/ StartPipeline("api") \/ StopPipeline("api")

SupervisorThread ==
    \/ SupCheck \/ SupPark \/ SupBackoff \/ SupRestarted \/ SupRestartFailed
    \/ StartPipeline("sup") \/ StopPipeline("sup")

DqThread == DqBegin \/ DqPacket \/ DqDeliver
RecThread == RecCheck \/ RecPark

Next ==
    \/ ApiStart \/ ApiStartRefused \/ ApiStop \/ ApiSteps \/ SupervisorThread
    \/ EncodeThread \/ CaptureThread \/ DqThread \/ RecThread \/ EyeThread
    \/ ExtGrab \/ ExtCall

(* Every thread that is runnable is scheduled.  start and stop need not be *)
(* called, and nobody need ask for a keyframe.                             *)
Fairness ==
    /\ WF_vars(ApiSteps) /\ WF_vars(SupervisorThread) /\ WF_vars(EncodeThread)
    /\ WF_vars(CaptureThread) /\ WF_vars(DqThread) /\ WF_vars(RecThread)
    /\ WF_vars(EyeThread) /\ WF_vars(ExtCall)

Spec == Init /\ [][Next]_vars /\ Fairness

-----------------------------------------------------------------------------
(* The values of the variables.                                            *)
TypeOK ==
    /\ running \in BOOLEAN /\ pipe \in BOOLEAN /\ restartReq \in BOOLEAN
    /\ post \in BOOLEAN /\ decoder \in BOOLEAN /\ published \in BOOLEAN
    /\ recOn \in BOOLEAN /\ recording \in Recordings /\ mode \in Modes
    /\ eyeImage \in EyeImages
    /\ pc \in [Threads -> STRING]
    /\ slot \in [Workers \cup {"sup"} -> BOOLEAN]
    /\ capturer \in {"none", "open", "on"} /\ hw \in {"off", "on", "closing"}
    /\ bad \in 0 .. BadThreshold /\ recq \in 0 .. RecorderLimit + 1
    /\ faults \in 0 .. MaxFaults /\ starts \in 0 .. MaxStarts

(* When stop, or a refused start, has returned, every thread has           *)
(* ended, the camera does not stream and NVENC is down: no worker that was *)
(* spawned, rejected or restarted meanwhile escapes the joins.             *)
QuietAfterStop ==
    pc["api"] = "idle" /\ ~running =>
        /\ \A t \in Workers \cup {"sup", "rec"} : pc[t] = "done"
        /\ \A w \in DOMAIN slot : ~slot[w]
        /\ capturer # "on" /\ hw = "off" /\ ~published /\ ~pipe

(* While stopPipeline takes the components apart (from hiding the encoder  *)
(* on), no worker that uses them runs.                                     *)
TeardownRunsAlone ==
    \A t \in {"api", "sup"} :
        pc[t] \in {"s_hide", "s_shutdown", "s_rest", "s_recorder"} =>
            \A w \in Workers : pc[w] = "done"

(* NVENC is not closed under a call of another thread that holds the       *)
(* encoder: a keyframe request or a packet being delivered.                *)
EncoderAliveInCall == InEncoderCall => hw # "off"

(* A stop that has begun returns, provided that nothing is recorded.       *)
StopReturns ==
    pc["api"] = "stop_clear" /\ ~recording ~> pc["api"] = "idle"

(* The same, recording or not: "VideoStream: Stopping -> Stopped".         *)
StopAlwaysReturns == pc["api"] = "stop_clear" ~> pc["api"] = "idle"

Streaming ==
    /\ pc["enc"] = "e_loop" /\ pc["dq"] \in {"d_loop", "d_packet"} /\ capturer = "on"
    /\ mode = "mjpeg" => pc["cap"] = "c_loop"

(* A pipeline that was started and meets failures of its devices is        *)
(* restarted until it streams, in the direct mode.                         *)
DirectVideoComesUp ==
    running /\ mode = "yuyv" /\ ~recording ~> Streaming \/ ~running

(* The same in both modes: a pipeline error restarts the video stream.     *)
VideoComesUp == running /\ ~recording ~> Streaming \/ ~running
=============================================================================
