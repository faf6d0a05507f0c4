----------------------------- MODULE VideoFrames -----------------------------
(***************************************************************************)
(* What flows through a running video pipeline: camera buffers of the V4L2 *)
(* capturer, decode buffers of the decoder, NV12 surfaces of the converter *)
(* or undistorter, input buffers and access units of NVENC, and the shared *)
(* NV12 frames of VideoStreamManager.  The threads are capture, encode,    *)
(* dequeue and eye image of VideoPipeline; NVENC and the camera driver are *)
(* external.                                                               *)
(*                                                                         *)
(* A frame is a surface (fd) and the number of its capture, which stands   *)
(* for its timestamp: the clock does not repeat.  A SharedNv12Frame lives  *)
(* while somebody holds it: the encode thread, the map of frames NVENC     *)
(* reads, the eye image queue, or the eye image thread.  Its deleter gives *)
(* the surface back to the pool.                                           *)
(*                                                                         *)
(* Left out: pixels, statistics, the recorder, and the capture plane's     *)
(* buffers, of which NVENC always finds one.                               *)
(***************************************************************************)
EXTENDS Naturals, FiniteSets, Sequences, SequencesExt

CONSTANTS
    Modes,          \* the capture formats to explore
    CamBuffers,     \* video.v4l2.buffer_count
    DecodeBuffers,  \* video.decoder.capture_plane_buffers
    PoolSize,       \* buffer_pool_size: NV12 surfaces
    InputBuffers,   \* video.encoder.output_plane_buffers
    Slices,         \* effective_slices_per_frame_
    MaxFrames,      \* bound: frames captured
    MaxFaults       \* bound: empty frames, failed decodes, conversions and qBuffer calls

ASSUME VideoFramesConstants ==
    /\ Modes \subseteq {"mjpeg", "yuyv"}
    /\ CamBuffers \in Nat \ {0} /\ DecodeBuffers \in Nat \ {0} /\ PoolSize \in Nat \ {0}
    /\ InputBuffers \in Nat \ {0} /\ Slices \in Nat \ {0}
    /\ MaxFrames \in Nat /\ MaxFaults \in Nat

VARIABLES
    mode,       \* yuyv_direct_enabled_
    count,      \* frames captured so far
    faults,
    camera,     \* number of camera buffers with the driver
    cap,        \* the frame the capture thread holds, 0: none
    decFree,    \* number of free decode buffers
    decoded,    \* decoded_queue_, as capture numbers
    free,       \* free_indices_ of the pool, as surfaces
    enc,        \* the encode thread: its place, the frame it takes, its shared frame, its index
    pending,    \* encoder_pending_frames_by_fd_
    timing,     \* enc_start_steady_us_by_ts_: captures, and whether submitted in the warm-up
    idxFree,    \* free_output_indices_
    idxFd,      \* index_to_fd_
    nvenc,      \* the inputs NVENC has not encoded: [idx, ts]
    done,       \* the indices NVENC has finished with
    aus,        \* the access units NVENC has produced
    tsq,        \* timestamp_queue_
    last,       \* last_capture_ts_
    remain,     \* remaining_slice_aus_
    out,        \* the last access unit delivered, and the timestamp it was given
    begun,      \* the frames whose first access unit was delivered
    warm,       \* warmup_active_
    past,       \* warmup_deadline_us_ has passed
    eyeq,       \* nv12_queue_
    eye,        \* the eye image thread: the shared frame it holds and whether it works on it
    inflight    \* eye_image_inflight_

camVars == <<camera, cap, decFree, decoded>>
encoderVars == <<idxFree, idxFd, nvenc, done, aus, tsq, last, remain>>
dqVars  == <<out, begun, warm>>
eyeVars == <<eyeq, eye, inflight>>
vars == <<mode, count, faults, camVars, free, enc, pending, timing, encoderVars,
          dqVars, past, eyeVars>>

Pool == 1 .. PoolSize
Indices == 1 .. InputBuffers
NoFrame == [fd |-> 0, ts |-> 0]
Frames == [fd : Pool, ts : 1 .. MaxFrames]
NoUnit == [ts |-> 0, slice |-> 1, driver |-> 0, given |-> 0]
Idle == [pc |-> "top", ts |-> 0, frame |-> NoFrame, idx |-> 0]

(* requestBuffers: every buffer is queued before the stream is on.         *)
CameraInit == camera = CamBuffers /\ cap = 0

DecoderInit == decFree = DecodeBuffers /\ decoded = <<>>

(* The pool of the converter, or the one of the undistorter: alike.        *)
PoolInit == free = [i \in Pool |-> i]

EncoderInit ==
    /\ idxFree = Indices /\ idxFd = [i \in Indices |-> 0]
    /\ nvenc = <<>> /\ done = <<>> /\ aus = <<>>
    /\ tsq = <<>> /\ last = 0 /\ remain = 0

Init ==
    /\ mode \in Modes /\ count = 0 /\ faults = 0
    /\ CameraInit /\ DecoderInit /\ PoolInit /\ EncoderInit
    /\ enc = Idle
    /\ pending = [fd \in Pool |-> NoFrame] /\ timing = {}
    /\ out = NoUnit /\ begun = {} /\ warm = TRUE /\ past = FALSE
    /\ eyeq = <<>> /\ eye = [frame |-> NoFrame, busy |-> FALSE] /\ inflight = FALSE

Fault == faults < MaxFaults /\ faults' = faults + 1
At(pc) == enc.pc = pc

-----------------------------------------------------------------------------
(* Shared frames and their deleter.                                        *)

\* Mutant: the eye image thread holds no reference.
HoldersWithoutEye(e, p, q, y) ==
    ({e.frame} \cup {p[fd] : fd \in Pool} \cup {q[i] : i \in DOMAIN q}) \ {NoFrame}

(* The frames that somebody holds.                                         *)
Holders(e, p, q, y) ==
    ({e.frame, y.frame} \cup {p[fd] : fd \in Pool} \cup {q[i] : i \in DOMAIN q}) \ {NoFrame}

(* The step leaves enc', pending', eyeq' and eye'; every frame that has    *)
(* lost its last holder returns its surface, and directly is a surface     *)
(* released without a frame, 0 if none.                                    *)
GiveBack(pool, directly) ==
    LET dead == Holders(enc, pending, eyeq, eye) \ Holders(enc', pending', eyeq', eye')
    IN  free' = pool \o SetToSeq({f.fd : f \in dead})
                     \o (IF directly = 0 THEN <<>> ELSE <<directly>>)

-----------------------------------------------------------------------------
(* captureThreadMain (MJPEG).                                              *)

(* The frames dropped while the camera settles are requeued at once.       *)
CapDequeue ==
    /\ mode = "mjpeg" /\ cap = 0 /\ camera > 0 /\ count < MaxFrames
    /\ camera' = camera - 1 /\ count' = count + 1 /\ cap' = count + 1
    /\ UNCHANGED <<mode, faults, decFree, decoded, free, enc, pending, timing,
                   encoderVars, dqVars, past, eyeVars>>

(* A buffer without data: dequeue returns false after VIDIOC_DQBUF, and    *)
(* nobody requeues the buffer.                                             *)
CapDequeueEmpty ==
    /\ mode = "mjpeg" /\ cap = 0 /\ camera > 0 /\ Fault
    /\ camera' = camera - 1
    /\ UNCHANGED <<mode, count, cap, decFree, decoded, free, enc, pending, timing,
                   encoderVars, dqVars, past, eyeVars>>

(* submitDetailed, then requeue: the frame is dropped when the decoded     *)
(* queue is full, no decode buffer is free, or the decoder fails.          *)
CapSubmit ==
    /\ cap # 0
    /\ \/ /\ Len(decoded) < DecodeBuffers /\ decFree > 0
          /\ decFree' = decFree - 1 /\ decoded' = Append(decoded, cap)
          /\ UNCHANGED faults
       \/ /\ Len(decoded) >= DecodeBuffers \/ decFree = 0
          /\ UNCHANGED <<decFree, decoded, faults>>
       \/ Fault /\ UNCHANGED <<decFree, decoded>>
    /\ camera' = camera + 1 /\ cap' = 0
    /\ UNCHANGED <<mode, count, free, enc, pending, timing, encoderVars, dqVars, past, eyeVars>>

-----------------------------------------------------------------------------
(* The encode thread: encodeDecodedLoop and encodeYuyvDirectLoop.          *)

\* Mutant: input-done releases the surface itself as well.
InputDoneReleasing(fd) ==
    /\ pending' = [pending EXCEPT ![fd] = NoFrame] /\ UNCHANGED <<enc, eyeq, eye>>
    /\ GiveBack(free, fd)

(* onEncoderInputDone takes the frame out of the map, or releases a        *)
(* surface it does not know.                                               *)
InputDone(fd) ==
    /\ pending' = [pending EXCEPT ![fd] = NoFrame] /\ UNCHANGED <<enc, eyeq, eye>>
    /\ GiveBack(free, IF pending[fd] = NoFrame THEN fd ELSE 0)

(* drainInputDone, one finished input.                                     *)
DrainInputDone ==
    /\ At("top") /\ done # <<>>
    /\ LET idx == Head(done) IN
        /\ done' = Tail(done) /\ idxFd' = [idxFd EXCEPT ![idx] = 0]
        /\ idxFree' = idxFree \cup {idx}
        /\ InputDone(idxFd[idx])
    /\ UNCHANGED <<mode, count, faults, camVars, timing, nvenc, aus, tsq, last, remain,
                   dqVars, past, inflight>>

(* dequeueSync takes the oldest decoded frame; in the direct mode the      *)
(* frame comes from the camera.                                            *)
EncTake ==
    /\ At("top")
    /\ \/ /\ mode = "mjpeg" /\ decoded # <<>>
          /\ enc' = [enc EXCEPT !.pc = "post", !.ts = Head(decoded)]
          /\ decoded' = Tail(decoded) /\ UNCHANGED <<camera, count>>
       \/ /\ mode = "yuyv" /\ camera > 0 /\ count < MaxFrames
          /\ enc' = [enc EXCEPT !.pc = "post", !.ts = count + 1]
          /\ camera' = camera - 1 /\ count' = count + 1 /\ UNCHANGED decoded
    /\ UNCHANGED <<mode, faults, cap, decFree, free, pending, timing, encoderVars,
                   dqVars, past, eyeVars>>

Converted ==
    /\ free # <<>>
    /\ enc' = [enc EXCEPT !.pc = "pend", !.frame = [fd |-> Head(free), ts |-> enc.ts]]
    /\ free' = Tail(free) /\ UNCHANGED faults

(* No surface is free, or the GPU call fails.                              *)
ConversionFails ==
    /\ \/ free = <<>> /\ UNCHANGED <<free, faults>>
       \/ free # <<>> /\ Fault /\ free' = Append(Tail(free), Head(free))
    /\ enc' = Idle

(* postprocessYuv422Fd; either way the source buffer is given back.        *)
EncPostprocess ==
    /\ At("post") /\ (Converted \/ ConversionFails)
    /\ IF mode = "mjpeg" THEN decFree' = decFree + 1 /\ UNCHANGED camera
                         ELSE camera' = camera + 1 /\ UNCHANGED decFree
    /\ UNCHANGED <<mode, count, cap, decoded, pending, timing, encoderVars, dqVars,
                   past, eyeVars>>

(* onConverterOutput: the start time and the pending frame are recorded    *)
(* before NVENC sees the surface.                                          *)
EncPend ==
    /\ At("pend")
    /\ timing' = timing \cup {[ts |-> enc.frame.ts, early |-> ~past]}
    /\ pending' = [pending EXCEPT ![enc.frame.fd] = enc.frame]
    /\ enc' = [enc EXCEPT !.pc = "submit"] /\ UNCHANGED <<eyeq, eye>>
    /\ GiveBack(free, 0)
    /\ UNCHANGED <<mode, count, faults, camVars, encoderVars, dqVars, past, inflight>>

\* Mutant: a failed submit leaves its start time.
SubmitFailedKeepingTime ==
    /\ pending' = [pending EXCEPT ![enc.frame.fd] = NoFrame]
    /\ enc' = Idle /\ UNCHANGED <<eyeq, eye, timing>>
    /\ GiveBack(free, 0)

(* submit returned false.                                                  *)
SubmitFailed ==
    /\ timing' = {t \in timing : t.ts # enc.frame.ts}
    /\ pending' = [pending EXCEPT ![enc.frame.fd] = NoFrame]
    /\ enc' = Idle /\ UNCHANGED <<eyeq, eye>>
    /\ GiveBack(free, 0)

(* submit: an input buffer is taken, or there is none; the surface may     *)
(* turn out unusable, and the buffer is put back.                          *)
EncSubmit ==
    /\ At("submit")
    /\ \/ /\ idxFree = {} /\ SubmitFailed /\ UNCHANGED <<faults, idxFree, idxFd, tsq>>
       \/ /\ idxFree # {} /\ Fault /\ SubmitFailed /\ UNCHANGED <<idxFree, idxFd, tsq>>
       \/ \E idx \in idxFree :
            /\ idxFree' = idxFree \ {idx}
            /\ idxFd' = [idxFd EXCEPT ![idx] = enc.frame.fd]
            /\ tsq' = Append(tsq, enc.frame.ts)
            /\ enc' = [enc EXCEPT !.pc = "queue", !.idx = idx]
            /\ UNCHANGED <<faults, free, pending, timing, eyeq, eye>>
    /\ UNCHANGED <<mode, count, camVars, nvenc, done, aus, last, remain,
                   dqVars, past, inflight>>

\* Mutant: a failed qBuffer loses its index.
QueueFailsLosingIndex ==
    /\ Fault /\ SubmitFailed
    /\ idxFd' = [idxFd EXCEPT ![enc.idx] = 0] /\ UNCHANGED idxFree
    /\ tsq' = IF tsq = <<>> THEN tsq ELSE Front(tsq)
    /\ UNCHANGED nvenc

(* qBuffer fails: index, map and timestamp are rolled back.                *)
QueueFails ==
    /\ Fault /\ SubmitFailed
    /\ idxFd' = [idxFd EXCEPT ![enc.idx] = 0] /\ idxFree' = idxFree \cup {enc.idx}
    /\ tsq' = IF tsq = <<>> THEN tsq ELSE Front(tsq)
    /\ UNCHANGED nvenc

EncQueue ==
    /\ At("queue")
    /\ \/ QueueFails
       \/ /\ nvenc' = Append(nvenc, [idx |-> enc.idx, ts |-> enc.frame.ts])
          /\ enc' = [enc EXCEPT !.pc = "eye", !.idx = 0]
          /\ UNCHANGED <<faults, idxFd, idxFree, tsq, free, pending, timing, eyeq, eye>>
    /\ UNCHANGED <<mode, count, camVars, done, aus, last, remain, dqVars, past, inflight>>

(* maybeEnqueueEyeImageFrame: skipped when the publisher is not ready, has *)
(* no subscribers or was served lately, or when a frame is in flight.      *)
EncOfferEye ==
    /\ At("eye")
    /\ \/ enc' = Idle /\ UNCHANGED inflight
       \/ ~inflight /\ inflight' = TRUE /\ enc' = [enc EXCEPT !.pc = "push"]
    /\ UNCHANGED <<pending, eyeq, eye>>
    /\ GiveBack(free, 0)
    /\ UNCHANGED <<mode, count, faults, camVars, timing, encoderVars, dqVars, past>>

EncPushEye ==
    /\ At("push")
    /\ eyeq' = <<enc.frame>> /\ enc' = Idle /\ UNCHANGED <<pending, eye>>
    /\ GiveBack(free, 0)
    /\ UNCHANGED <<mode, count, faults, camVars, timing, encoderVars, dqVars, past, inflight>>

-----------------------------------------------------------------------------
(* NVENC (external): a frame becomes as many access units as it has slices *)
(* or fewer, since the slice length is rounded up.  The driver stamps the  *)
(* first, and a later one either likewise or with zero.                    *)
NvencEncode ==
    /\ nvenc # <<>>
    /\ \E n \in 1 .. Slices, zero \in BOOLEAN :
        LET in == Head(nvenc) IN
        aus' = aus \o [i \in 1 .. n |->
                  [ts |-> in.ts, slice |-> i, given |-> 0,
                   driver |-> IF i > 1 /\ zero THEN 0 ELSE in.ts]]
    /\ done' = Append(done, Head(nvenc).idx) /\ nvenc' = Tail(nvenc)
    /\ UNCHANGED <<mode, count, faults, camVars, free, enc, pending, timing, idxFree,
                   idxFd, tsq, last, remain, dqVars, past, eyeVars>>

-----------------------------------------------------------------------------
(* encoderDqThreadMain: dequeueOne and onEncoderPacket.                    *)

Expecting == Slices > 1 /\ remain > 0

\* Mutant: a new frame is told by the count alone.
NewFrameByCount(unit) == FALSE

(* driver_reports_new_frame.                                               *)
NewFrame(unit) == unit.driver > 0 /\ last > 0 /\ unit.driver # last

(* The timestamp a unit is given, and what is left of the queue: one       *)
(* queued timestamp per frame, the later units of a frame repeat it.       *)
TakeTimestamp(unit) ==
    IF NewFrame(unit) \/ (~Expecting /\ tsq # <<>>)
    THEN [ts   |-> IF tsq # <<>> THEN Head(tsq) ELSE unit.driver,
          tsq  |-> IF tsq # <<>> THEN Tail(tsq) ELSE tsq,
          remain |-> Slices - 1]
    ELSE IF Expecting THEN [ts |-> last, tsq |-> tsq, remain |-> remain - 1]
    ELSE IF unit.driver > 0 THEN [ts |-> unit.driver, tsq |-> tsq, remain |-> Slices - 1]
    ELSE [ts |-> last, tsq |-> tsq, remain |-> remain]

(* The unit is dropped in the warm-up, and after it when its frame was     *)
(* submitted in it; the frame's entry in the timing map, which tells, is   *)
(* erased by its first unit.                                               *)
DequeueOne ==
    /\ aus # <<>>
    /\ LET unit  == Head(aus)
           taken == TakeTimestamp(unit)
           stale == \E t \in timing : t.ts = taken.ts /\ t.early
       IN  /\ aus' = Tail(aus) /\ tsq' = taken.tsq
           /\ last' = taken.ts /\ remain' = taken.remain
           /\ timing' = {t \in timing : t.ts # taken.ts}
           /\ IF warm /\ (~past \/ stale)
              THEN UNCHANGED dqVars
              ELSE /\ warm' = FALSE
                   /\ out' = [unit EXCEPT !.given = taken.ts]
                   /\ begun' = IF unit.slice = 1 THEN begun \cup {unit.ts} ELSE begun
    /\ UNCHANGED <<mode, count, faults, camVars, free, enc, pending, idxFree, idxFd,
                   nvenc, done, past, eyeVars>>

WarmupEnds ==
    /\ ~past /\ past' = TRUE
    /\ UNCHANGED <<mode, count, faults, camVars, free, enc, pending, timing, encoderVars,
                   dqVars, eyeVars>>

-----------------------------------------------------------------------------
(* eyeImageThreadMain.                                                     *)

EyeTake ==
    /\ eye.frame = NoFrame /\ eyeq # <<>>
    /\ eye' = [frame |-> Last(eyeq), busy |-> TRUE] /\ eyeq' = <<>>
    /\ UNCHANGED <<enc, pending>>
    /\ GiveBack(free, 0)
    /\ UNCHANGED <<mode, count, faults, camVars, timing, encoderVars, dqVars, past, inflight>>

\* Mutant: the flag stays set without subscribers.
EyeProcessWithoutSubscribers ==
    /\ eye.busy
    /\ eye' = [eye EXCEPT !.busy = FALSE] /\ inflight' \in {inflight, FALSE}
    /\ UNCHANGED <<mode, count, faults, camVars, free, enc, pending, timing, encoderVars,
                   dqVars, past, eyeq>>

(* Processed, or passed over for want of subscribers or of a surface.      *)
EyeProcess ==
    /\ eye.busy
    /\ eye' = [eye EXCEPT !.busy = FALSE] /\ inflight' = FALSE
    /\ UNCHANGED <<mode, count, faults, camVars, free, enc, pending, timing, encoderVars,
                   dqVars, past, eyeq>>

(* The end of the loop's body destroys the frame it held.                  *)
EyeDrop ==
    /\ eye.frame # NoFrame /\ ~eye.busy
    /\ eye' = [eye EXCEPT !.frame = NoFrame] /\ UNCHANGED <<enc, pending, eyeq>>
    /\ GiveBack(free, 0)
    /\ UNCHANGED <<mode, count, faults, camVars, timing, encoderVars, dqVars, past, inflight>>

-----------------------------------------------------------------------------
EncodeThread ==
    \/ DrainInputDone \/ EncTake \/ EncPostprocess \/ EncPend \/ EncSubmit \/ EncQueue
    \/ EncOfferEye \/ EncPushEye
EyeThread == EyeTake \/ EyeProcess \/ EyeDrop

Next ==
    \/ CapDequeue \/ CapDequeueEmpty \/ CapSubmit \/ EncodeThread \/ NvencEncode
    \/ DequeueOne \/ WarmupEnds \/ EyeThread

(* The threads run; NVENC encodes what it is given.                        *)
Fairness ==
    /\ WF_vars(CapSubmit) /\ WF_vars(EncodeThread) /\ WF_vars(NvencEncode)
    /\ WF_vars(DequeueOne) /\ WF_vars(EyeThread)

Spec == Init /\ [][Next]_vars /\ Fairness

-----------------------------------------------------------------------------
(* The values of the variables.                                            *)
Units == [ts : 1 .. MaxFrames, slice : 1 .. Slices, driver : 0 .. MaxFrames, given : {0}]

TypeOK ==
    /\ mode \in {"mjpeg", "yuyv"} /\ count \in 0 .. MaxFrames /\ faults \in 0 .. MaxFaults
    /\ camera \in 0 .. CamBuffers /\ cap \in 0 .. MaxFrames
    /\ decFree \in 0 .. DecodeBuffers /\ decoded \in Seq(1 .. MaxFrames)
    /\ free \in Seq(Pool)
    /\ enc \in [pc : {"top", "post", "pend", "submit", "queue", "eye", "push"},
                ts : 0 .. MaxFrames, frame : Frames \cup {NoFrame}, idx : 0 .. InputBuffers]
    /\ pending \in [Pool -> Frames \cup {NoFrame}]
    /\ timing \subseteq [ts : 1 .. MaxFrames, early : BOOLEAN]
    /\ idxFree \subseteq Indices /\ idxFd \in [Indices -> 0 .. PoolSize]
    /\ nvenc \in Seq([idx : Indices, ts : 1 .. MaxFrames]) /\ done \in Seq(Indices)
    /\ aus \in Seq(Units) /\ tsq \in Seq(1 .. MaxFrames)
    /\ last \in 0 .. MaxFrames /\ remain \in 0 .. Slices - 1
    /\ out.ts \in 0 .. MaxFrames /\ begun \subseteq 1 .. MaxFrames
    /\ warm \in BOOLEAN
    /\ past \in BOOLEAN
    /\ eyeq \in Seq(Frames) /\ eye \in [frame : Frames \cup {NoFrame}, busy : BOOLEAN]
    /\ inflight \in BOOLEAN

AllHolders == Holders(enc, pending, eyeq, eye)

(* Every surface of the pool is either free, once, or belongs to exactly   *)
(* one shared frame: none leaks, and none is released twice and handed out *)
(* to two frames.                                                          *)
SurfacesAccounted ==
    /\ IsInjective(free)
    /\ \A fd \in Pool : Contains(free, fd) <=> ~\E f \in AllHolders : f.fd = fd
    /\ \A f, g \in AllHolders : f.fd = g.fd => f = g

(* The frame a surface belongs to: 0 while it is free.                     *)
OwnerOf(fd) ==
    IF Contains(free, fd) THEN 0
    ELSE IF \E f \in AllHolders : f.fd = fd
         THEN (CHOOSE f \in AllHolders : f.fd = fd).ts ELSE MaxFrames + 1

ReadersOf(fd) ==
    {r \in {"nvenc", "eye"} :
        \/ r = "nvenc" /\ \E i \in DOMAIN nvenc : idxFd[nvenc[i].idx] = fd
        \/ r = "eye" /\ eye.busy /\ eye.frame.fd = fd}

Owners   == [fd \in Pool |-> OwnerOf(fd)]
Readings == [fd \in Pool |-> ReadersOf(fd)]

Promise == INSTANCE SurfacePool WITH
    Surfaces <- Pool, Frames <- 1 .. MaxFrames, Readers <- {"nvenc", "eye"}, Nobody <- 0,
    owner <- Owners, reading <- Readings

(* "The fd returns to its owner only after NVENC input-done and eye_image  *)
(* processing have released it": the shared frames, their deleter and the  *)
(* map of pending frames implement the pool's promise.  No surface is      *)
(* released, or filled for another frame, while NVENC or the eye image     *)
(* thread reads it, and none is read before a frame has it.                *)
ImplementsSurfacePool == Promise!Spec

(* eye_image_inflight_ is set only while a frame is on its way to the eye  *)
(* image thread or in its hands; otherwise no image is published again.    *)
InflightMeansWork == inflight => At("push") \/ eyeq # <<>> \/ eye.busy

(* An access unit is delivered with the timestamp of the frame it belongs  *)
(* to, however many units a frame has.                                     *)
UnitHasItsTimestamp == out.given = out.ts

(* A start time stays in the timing map only while its frame is on its way *)
(* through NVENC, so the map does not grow.                                *)
TimingBounded ==
    \A t \in timing :
        \/ enc.frame.ts = t.ts
        \/ \E i \in DOMAIN nvenc : nvenc[i].ts = t.ts
        \/ \E i \in DOMAIN aus : aus[i].ts = t.ts

(* What a frame takes on its way is given back on every path that ends it: *)
(* its surface, its start time and the eye image thread's flag.            *)
FrameDataAccounted == SurfacesAccounted /\ TimingBounded /\ InflightMeansWork

(* When the camera falls silent, every surface, input buffer and decode    *)
(* buffer comes back.                                                      *)
EverythingReturns ==
    count = MaxFrames ~>
        Len(free) = PoolSize /\ idxFree = Indices /\ decFree = DecodeBuffers

(* Every camera buffer is with the driver or with the thread that dequeued *)
(* it, "until requeue()".                                                  *)
CameraBuffersKept ==
    camera + (IF cap # 0 \/ (mode = "yuyv" /\ At("post")) THEN 1 ELSE 0) = CamBuffers

(* The slices of a frame are delivered from the first on: warm-up drops    *)
(* stale frames, not parts of them.                                        *)
FramesDeliveredWhole == out.ts \in begun \cup {0}
=============================================================================
