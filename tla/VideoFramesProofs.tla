-------------------------- MODULE VideoFramesProofs --------------------------
(***************************************************************************)
(* What becomes of a frame's surface, input buffer, start time and         *)
(* timestamp, proved for every number of buffers, surfaces, slices and     *)
(* frames: the pipeline implements the promise of SurfacePool.             *)
(***************************************************************************)
EXTENDS VideoFrames, FiniteSetTheorems, SequenceTheorems, TLAPS

(* The frame's source buffer is counted while the encode thread has it.    *)
BuffersBounded ==
    /\ decFree + Len(decoded) + (IF mode = "mjpeg" /\ At("post") THEN 1 ELSE 0) = DecodeBuffers
    /\ camera + (IF cap # 0 \/ (mode = "yuyv" /\ At("post")) THEN 1 ELSE 0) <= CamBuffers

(* What the encode thread has at each of its places.                       *)
HasFrame == enc.pc \in {"pend", "submit", "queue", "eye", "push"}

EncoderPlaces ==
    /\ HasFrame <=> enc.frame # NoFrame
    /\ At("queue") <=> enc.idx # 0
    /\ At("pend") => pending[enc.frame.fd] = NoFrame
    /\ At("submit") \/ At("queue") => pending[enc.frame.fd] = enc.frame

(* A frame is in flight for the eye image thread in one place at a time.   *)
EyeInFlight ==
    /\ Len(eyeq) <= 1
    /\ eye.busy => eye.frame # NoFrame
    /\ eye.busy => inflight /\ eyeq = <<>> /\ ~At("push")
    /\ eyeq # <<>> => inflight /\ ~At("push")
    /\ At("push") => inflight
    /\ InflightMeansWork

PendingAtHome == \A fd \in Pool : pending[fd] # NoFrame => pending[fd].fd = fd

(* An input buffer in use has a surface of its own, which a frame in the   *)
(* map keeps; it is with NVENC, finished, or in the encode thread's hands, *)
(* and only once.                                                          *)
IndicesInUse ==
    /\ \A idx \in Indices \ idxFree : idxFd[idx] \in Pool /\ pending[idxFd[idx]] # NoFrame
    /\ \A idx, jdx \in Indices \ idxFree : idxFd[idx] = idxFd[jdx] => idx = jdx
    /\ At("submit") => \A idx \in Indices \ idxFree : idxFd[idx] # enc.frame.fd

IndicesOnce ==
    /\ \A i \in 1 .. Len(nvenc) : nvenc[i].idx \notin idxFree
    /\ \A i \in 1 .. Len(done) : done[i] \notin idxFree
    /\ \A i, j \in 1 .. Len(nvenc) : nvenc[i].idx = nvenc[j].idx => i = j
    /\ \A i, j \in 1 .. Len(done) : done[i] = done[j] => i = j
    /\ \A i \in 1 .. Len(nvenc), j \in 1 .. Len(done) : nvenc[i].idx # done[j]
    /\ At("queue") =>
         /\ enc.idx \notin idxFree /\ idxFd[enc.idx] = enc.frame.fd
         /\ \A i \in 1 .. Len(nvenc) : nvenc[i].idx # enc.idx
         /\ \A i \in 1 .. Len(done) : done[i] # enc.idx

(* Captures leave the decoder in the order they were taken.                *)
CapturesInOrder ==
    /\ mode = "yuyv" => decoded = <<>> /\ cap = 0
    /\ cap <= count
    /\ \A i \in 1 .. Len(decoded) : decoded[i] <= count /\ (cap # 0 => decoded[i] < cap)
    /\ \A i, j \in 1 .. Len(decoded) : i < j => decoded[i] < decoded[j]
    /\ At("post") =>
         /\ enc.ts \in 1 .. count /\ (cap # 0 => enc.ts < cap)
         /\ \A i \in 1 .. Len(decoded) : enc.ts < decoded[i]

(* A capture the encode thread has taken before any that is to come.       *)
Earlier(x) ==
    /\ x <= count
    /\ cap # 0 => x < cap
    /\ At("post") => x < enc.ts
    /\ \A i \in 1 .. Len(decoded) : x < decoded[i]

FramesEarlier ==
    /\ \A f \in AllHolders : Earlier(f.ts)
    /\ \A f, g \in AllHolders : f.ts = g.ts => f = g

(* What went to NVENC precedes the frame the encode thread is about to     *)
(* submit.                                                                 *)
Submitting(x) == At("pend") \/ At("submit") \/ At("queue") => x < enc.frame.ts

UnitsEarlier ==
    /\ Earlier(last) /\ Submitting(last)
    /\ \A i \in 1 .. Len(nvenc) : Earlier(nvenc[i].ts) /\ Submitting(nvenc[i].ts)
    /\ \A i \in 1 .. Len(aus) : Earlier(aus[i].ts) /\ Submitting(aus[i].ts)

(* The access units: frames in order, the slices of a frame in order.      *)
UnitsInOrder ==
    /\ \A i, j \in 1 .. Len(nvenc) : i < j => nvenc[i].ts < nvenc[j].ts
    /\ \A i \in 1 .. Len(aus), j \in 1 .. Len(nvenc) : aus[i].ts < nvenc[j].ts
    /\ \A i, j \in 1 .. Len(aus) : i < j =>
          aus[i].ts <= aus[j].ts /\ (aus[j].slice = 1 => aus[i].ts < aus[j].ts)
    /\ \A i \in 1 .. Len(aus) - 1 : aus[i + 1].slice > 1 =>
          aus[i].ts = aus[i + 1].ts /\ aus[i].slice = aus[i + 1].slice - 1
    /\ \A i \in 1 .. Len(aus) :
          aus[i].driver = aus[i].ts \/ (aus[i].driver = 0 /\ aus[i].slice > 1)

(* How far the dequeue thread is in the frame it delivers.                 *)
SlicesCounted ==
    /\ last = 0 => remain = 0
    /\ \A i \in 1 .. Len(nvenc) : last < nvenc[i].ts
    /\ \A i \in 1 .. Len(aus) : last <= aus[i].ts /\ (aus[i].slice = 1 => last < aus[i].ts)
    /\ aus # <<>> /\ aus[1].slice > 1 =>
          last = aus[1].ts /\ remain = Slices - aus[1].slice + 1

(* The queued timestamps are those of the frames whose first unit is still *)
(* to be delivered, in order.                                              *)
Awaited(x) ==
    \/ \E i \in 1 .. Len(aus) : aus[i].ts = x /\ aus[i].slice = 1
    \/ \E i \in 1 .. Len(nvenc) : nvenc[i].ts = x
    \/ At("queue") /\ enc.frame.ts = x

TimestampsQueued ==
    /\ \A i, j \in 1 .. Len(tsq) : i < j => tsq[i] < tsq[j]
    /\ \A x \in 1 .. MaxFrames : (\E i \in 1 .. Len(tsq) : tsq[i] = x) <=> Awaited(x)

(* A start time waits for a unit of its frame.                             *)
TimingAwaited ==
    \A t \in timing :
        \/ (At("submit") \/ At("queue")) /\ enc.frame.ts = t.ts
        \/ \E i \in 1 .. Len(nvenc) : nvenc[i].ts = t.ts
        \/ \E i \in 1 .. Len(aus) : aus[i].ts = t.ts

Inv ==
    /\ TypeOK /\ BuffersBounded /\ EncoderPlaces /\ EyeInFlight
    /\ PendingAtHome /\ SurfacesAccounted /\ IndicesInUse /\ IndicesOnce
    /\ CapturesInOrder /\ FramesEarlier /\ UnitsEarlier /\ UnitsInOrder
    /\ SlicesCounted /\ TimestampsQueued /\ TimingAwaited /\ UnitHasItsTimestamp

-----------------------------------------------------------------------------
(* Queues, element by element.                                             *)

\* Taking the first element shifts the others.
LEMMA Popped ==
    ASSUME NEW S, NEW s \in Seq(S), s # <<>>
    PROVE  /\ Head(s) = s[1] /\ s[1] \in S /\ Len(s) \in Nat \ {0} /\ 1 \in 1 .. Len(s)
           /\ Tail(s) \in Seq(S) /\ Len(Tail(s)) = Len(s) - 1
           /\ \A i \in 1 .. Len(s) - 1 : Tail(s)[i] = s[i + 1]
  <1>1. Len(s) \in Nat \ {0}
    BY EmptySeq
  <1>2. 1 \in 1 .. Len(s)
    BY <1>1
  <1>3. s[1] \in S
    BY <1>2, ElementOfSeq
  <1>4. Head(s) = s[1]
    OBVIOUS
  <1>5. Len(Tail(s)) = Len(s) - 1 /\ Tail(s) \in Seq(S)
        /\ \A i \in 1 .. Len(Tail(s)) : Tail(s)[i] = s[i + 1]
    BY HeadTailProperties
  <1>6. QED BY <1>1, <1>2, <1>3, <1>4, <1>5

\* An element that is appended is the last.
LEMMA Appended ==
    ASSUME NEW S, NEW s \in Seq(S), NEW e \in S
    PROVE  /\ Append(s, e) \in Seq(S) /\ Len(s) \in Nat /\ Len(Append(s, e)) = Len(s) + 1
           /\ \A i \in 1 .. Len(s) : Append(s, e)[i] = s[i]
           /\ Append(s, e)[Len(s) + 1] = e
  BY AppendProperties, LenProperties

\* Dropping the last element keeps the others.
LEMMA Fronted ==
    ASSUME NEW S, NEW s \in Seq(S), s # <<>>
    PROVE  /\ Front(s) \in Seq(S) /\ Len(s) \in Nat \ {0} /\ Len(Front(s)) = Len(s) - 1
           /\ \A i \in 1 .. Len(s) - 1 : Front(s)[i] = s[i]
  <1>1. Len(s) \in Nat \ {0}
    BY EmptySeq
  <1>2. \A i \in 1 .. Len(s) - 1 : s[i] \in S
    BY <1>1, ElementOfSeq
  <1> DEFINE n == Len(s) - 1
  <1>3. n \in Int /\ 1 \in Int /\ \A i \in 1 .. n : s[i] \in S
    BY <1>1, <1>2
  <1> HIDE DEF n
  <1>4. /\ SubSeq(s, 1, n) \in Seq(S) /\ Len(SubSeq(s, 1, n)) = IF 1 <= n THEN n - 1 + 1 ELSE 0
        /\ \A i \in 1 .. n - 1 + 1 : SubSeq(s, 1, n)[i] = s[1 + i - 1]
    BY <1>3, SubSeqProperties
  <1>5. Front(s) = SubSeq(s, 1, n) /\ Len(s) = n + 1
    BY <1>1 DEF Front, n
  <1>6. \A i \in 1 .. n : i \in 1 .. n - 1 + 1 /\ 1 + i - 1 = i
    BY <1>3
  <1>7. n \in Nat /\ (IF 1 <= n THEN n - 1 + 1 ELSE 0) = n
    BY <1>1, <1>3, <1>5
  <1>8. Len(SubSeq(s, 1, n)) = n /\ \A i \in 1 .. n : SubSeq(s, 1, n)[i] = s[i]
    BY <1>4, <1>6, <1>7
  <1>9. QED BY <1>1, <1>4, <1>5, <1>8 DEF n

\* A queue without elements is the empty one.
LEMMA EmptyByLength ==
    ASSUME NEW S, NEW s \in Seq(S)
    PROVE  Len(s) \in Nat /\ (s = <<>> <=> Len(s) = 0) /\ \A i \in 1 .. Len(s) : s[i] \in S
  BY EmptySeq, LenProperties, ElementOfSeq

-----------------------------------------------------------------------------
(* The types, in the parts that the provers take one at a time.            *)
CaptureOK ==
    /\ mode \in {"mjpeg", "yuyv"} /\ count \in 0 .. MaxFrames /\ faults \in 0 .. MaxFaults
    /\ camera \in 0 .. CamBuffers /\ cap \in 0 .. MaxFrames
    /\ decFree \in 0 .. DecodeBuffers /\ decoded \in Seq(1 .. MaxFrames)
EncodeOK ==
    /\ enc \in [pc : {"top", "post", "pend", "submit", "queue", "eye", "push"},
                ts : 0 .. MaxFrames, frame : Frames \cup {NoFrame}, idx : 0 .. InputBuffers]
    /\ pending \in [Pool -> Frames \cup {NoFrame}]
    /\ timing \subseteq [ts : 1 .. MaxFrames, early : BOOLEAN]
NvencOK ==
    /\ idxFree \subseteq Indices /\ idxFd \in [Indices -> 0 .. PoolSize]
    /\ nvenc \in Seq([idx : Indices, ts : 1 .. MaxFrames]) /\ done \in Seq(Indices)
    /\ aus \in Seq(Units) /\ tsq \in Seq(1 .. MaxFrames)
DequeueOK ==
    /\ last \in 0 .. MaxFrames /\ remain \in 0 .. Slices - 1
    /\ out.ts \in 0 .. MaxFrames /\ begun \subseteq 1 .. MaxFrames
    /\ warm \in BOOLEAN /\ past \in BOOLEAN
EyeOK ==
    /\ eyeq \in Seq(Frames) /\ eye \in [frame : Frames \cup {NoFrame}, busy : BOOLEAN]
    /\ inflight \in BOOLEAN

\* The parts make up the type invariant.
LEMMA TypeParts ==
    TypeOK <=> CaptureOK /\ free \in Seq(Pool) /\ EncodeOK /\ NvencOK /\ DequeueOK /\ EyeOK
  BY DEF TypeOK, CaptureOK, EncodeOK, NvencOK, DequeueOK, EyeOK

\* And after a step.
LEMMA TypePartsPrime ==
    TypeOK' <=> CaptureOK' /\ (free \in Seq(Pool))' /\ EncodeOK' /\ NvencOK' /\ DequeueOK'
                /\ EyeOK'
  BY DEF TypeOK, CaptureOK, EncodeOK, NvencOK, DequeueOK, EyeOK

\* What the invariant says of the types.
LEMMA InvTypes ==
    Inv => /\ TypeOK /\ CaptureOK /\ free \in Seq(Pool) /\ EncodeOK /\ NvencOK /\ DequeueOK /\ EyeOK
  BY TypeParts DEF Inv

\* The bounds are numbers.
LEMMA Bounds ==
    /\ MaxFrames \in Nat /\ MaxFaults \in Nat /\ CamBuffers \in Nat /\ DecodeBuffers \in Nat
    /\ PoolSize \in Nat /\ InputBuffers \in Nat /\ Slices \in Nat /\ Slices > 0
  BY VideoFramesConstants DEF VideoFramesConstants

-----------------------------------------------------------------------------
(* Who holds a frame, and what the deleter does.                           *)

\* The surfaces of no frame are no surfaces.
LEMMA EmptySetToSeq == SetToSeq({}) = <<>>
  <1>1. Cardinality({}) = 0
    BY FS_EmptySet
  <1>2. <<>> \in [1 .. 0 -> {}] /\ IsInjective(<<>>)
    BY DEF IsInjective
  <1>3. SetToSeq({}) \in [1 .. 0 -> {}]
    BY <1>1, <1>2 DEF SetToSeq
  <1>4. QED BY <1>3

\* The surfaces of one frame are one.
LEMMA SingletonSetToSeq ==
    ASSUME NEW a
    PROVE  SetToSeq({a}) = <<a>>
  <1>1. Cardinality({a}) = 1
    BY FS_Singleton
  <1>2. <<a>> \in [1 .. 1 -> {a}] /\ IsInjective(<<a>>)
    BY DEF IsInjective
  <1>3. SetToSeq({a}) \in [1 .. 1 -> {a}]
    BY <1>1, <1>2 DEF SetToSeq
  <1>4. QED BY <1>3

\* A frame is held by the encode thread, the eye image thread, the map or the
\* queue.
LEMMA HoldersAre ==
    \A f : f \in AllHolders <=>
        /\ f # NoFrame
        /\ \/ f = enc.frame \/ f = eye.frame
           \/ \E fd \in Pool : pending[fd] = f
           \/ \E i \in DOMAIN eyeq : eyeq[i] = f
  BY DEF AllHolders, Holders

\* The same after a step.
LEMMA HoldersWillBe ==
    \A f : f \in AllHolders' <=>
        /\ f # NoFrame
        /\ \/ f = enc'.frame \/ f = eye'.frame
           \/ \E fd \in Pool : pending'[fd] = f
           \/ \E i \in DOMAIN eyeq' : eyeq'[i] = f
  BY DEF AllHolders, Holders

\* What is held is a frame with a surface of the pool.
LEMMA HoldersType == TypeOK => AllHolders \subseteq Frames
  <1> SUFFICES ASSUME TypeOK, NEW f \in AllHolders PROVE f \in Frames
    OBVIOUS
  <1>1. /\ f # NoFrame
        /\ \/ f = enc.frame \/ f = eye.frame
           \/ \E fd \in Pool : pending[fd] = f
           \/ \E i \in DOMAIN eyeq : eyeq[i] = f
    BY HoldersAre
  <1>2. \A i \in DOMAIN eyeq : eyeq[i] \in Frames
    <2>1. eyeq \in Seq(Frames)
      BY DEF TypeOK
    <2> QED BY <2>1, LenProperties, ElementOfSeq
  <1>3. \A fd \in Pool : pending[fd] \in Frames \cup {NoFrame}
    BY DEF TypeOK
  <1>4. enc.frame \in Frames \cup {NoFrame} /\ eye.frame \in Frames \cup {NoFrame}
    BY DEF TypeOK
  <1>5. QED BY <1>1, <1>2, <1>3, <1>4

\* No surface of the pool is the one of NoFrame.
LEMMA NoFrameIsNone == NoFrame \notin Frames /\ NoFrame.fd = 0 /\ NoFrame.ts = 0 /\ 0 \notin Pool
  BY DEF NoFrame, Frames, Pool

Keeps ==
    /\ AllHolders' = AllHolders
    /\ free' = free \/ (free # <<>> /\ free' = Append(Tail(free), Head(free)))

Releases(f) ==
    /\ f \in AllHolders /\ AllHolders' = AllHolders \ {f}
    /\ free' = Append(free, f.fd)

Fills ==
    /\ EncPostprocess /\ At("post") /\ free # <<>> /\ free' = Tail(free)
    /\ AllHolders' = AllHolders \cup {[fd |-> Head(free), ts |-> enc.ts]}

\* The deleter runs for the frame that lost its last holder, if any.
LEMMA GiveBackReleases ==
    ASSUME TypeOK, GiveBack(free, 0), NEW f, AllHolders' \subseteq AllHolders,
           AllHolders \ AllHolders' \subseteq {f}
    PROVE  Keeps \/ Releases(f)
  <1> DEFINE dead == AllHolders \ AllHolders'
  <1>1. free' = free \o SetToSeq({g.fd : g \in dead}) \o <<>>
    BY DEF GiveBack, AllHolders
  <1>2. free \in Seq(Pool)
    BY DEF TypeOK
  <1>3. CASE dead = {}
    <2>1. {g.fd : g \in dead} = {}
      BY <1>3
    <2>2. free' = free \o <<>> \o <<>>
      BY <1>1, <2>1, EmptySetToSeq
    <2>3. free \o <<>> = free
      BY <1>2, ConcatEmptySeq
    <2>4. free' = free
      BY <2>2, <2>3
    <2>5. QED BY <1>3, <2>4 DEF Keeps
  <1>4. CASE dead # {}
    <2>1. dead = {f} /\ f \in AllHolders /\ AllHolders' = AllHolders \ {f}
      BY <1>4
    <2>2. {g.fd : g \in dead} = {f.fd} /\ f.fd \in Pool
      BY <2>1, HoldersType DEF Frames
    <2>3. free' = free \o <<f.fd>> \o <<>>
      BY <1>1, <2>2, SingletonSetToSeq
    <2>4. free \o <<f.fd>> = Append(free, f.fd) /\ Append(free, f.fd) \in Seq(Pool)
      BY <1>2, <2>2, AppendIsConcat, AppendProperties
    <2>5. free' = Append(free, f.fd)
      BY <2>3, <2>4, ConcatEmptySeq
    <2>6. QED BY <2>1, <2>5 DEF Releases
  <1>5. QED BY <1>3, <1>4

\* A step after which the same frames are held releases nothing.
LEMMA GiveBackKeeps ==
    ASSUME TypeOK, GiveBack(free, 0), AllHolders' = AllHolders
    PROVE  Keeps
  BY GiveBackReleases DEF Releases

\* A step that changes no holder and no surface.
LEMMA UntouchedKeeps ==
    ASSUME UNCHANGED <<free, enc, pending, eyeq, eye>>
    PROVE  Keeps
  BY DEF Keeps, AllHolders, Holders

\* A submit that fails drops the encode thread's frame and its entry in the map.
LEMMA SubmitFailedReleases ==
    ASSUME Inv, At("submit") \/ At("queue"), SubmitFailed
    PROVE  Keeps \/ \E f \in AllHolders : Releases(f)
  <1>1. TypeOK /\ enc.frame \in Frames /\ enc.frame.fd \in Pool
    BY DEF Inv, TypeOK, EncoderPlaces, HasFrame, At, Frames
  <1>2. /\ pending' = [pending EXCEPT ![enc.frame.fd] = NoFrame] /\ enc'.frame = NoFrame
        /\ eyeq' = eyeq /\ eye' = eye /\ GiveBack(free, 0)
    BY DEF SubmitFailed, Idle
  <1>3. \A fd \in Pool : pending'[fd] = IF fd = enc.frame.fd THEN NoFrame ELSE pending[fd]
    BY <1>1, <1>2 DEF TypeOK
  <1>4. pending[enc.frame.fd] = enc.frame
    BY DEF Inv, EncoderPlaces
  <1>5. AllHolders' \subseteq AllHolders /\ AllHolders \ AllHolders' \subseteq {enc.frame}
    BY <1>1, <1>2, <1>3, <1>4, HoldersAre, HoldersWillBe
  <1>6. QED BY <1>1, <1>2, <1>5, GiveBackReleases DEF Releases

\* The eye image thread takes the frame that was queued for it.
LEMMA EyeTakeKeeps ==
    ASSUME Inv, EyeTake
    PROVE  Keeps /\ eye'.frame \in AllHolders
  <1>0. TypeOK
    BY DEF Inv
  <1>1. /\ eye.frame = NoFrame /\ eyeq # <<>> /\ eye'.frame = eyeq[Len(eyeq)] /\ eyeq' = <<>>
        /\ UNCHANGED <<enc, pending>> /\ GiveBack(free, 0)
    BY DEF EyeTake, Last
  <1>2. Len(eyeq) = 1 /\ DOMAIN eyeq = 1 .. Len(eyeq) /\ eyeq[1] \in Frames
    <2>1. eyeq \in Seq(Frames) /\ Len(eyeq) <= 1
      BY <1>0 DEF Inv, EyeInFlight, TypeOK
    <2>2. Len(eyeq) \in Nat /\ Len(eyeq) # 0
      BY <1>1, <2>1, EmptyByLength
    <2>3. DOMAIN eyeq = 1 .. Len(eyeq)
      BY <2>1, LenProperties
    <2>4. eyeq[1] \in Frames
      BY <1>1, <2>1, Popped
    <2> QED BY <2>1, <2>2, <2>3, <2>4
  <1>3. /\ \A f : (\E i \in DOMAIN eyeq : eyeq[i] = f) <=> f = eye'.frame
        /\ \A f : ~\E i \in DOMAIN eyeq' : eyeq'[i] = f
    <2>1. DOMAIN eyeq = {1} /\ eye'.frame = eyeq[1]
      BY <1>1, <1>2
    <2>2. DOMAIN eyeq' = {}
      BY <1>1
    <2> QED BY <2>1, <2>2
  <1>4. \A f : f \in AllHolders' <=> f \in AllHolders
    BY <1>1, <1>3, HoldersAre, HoldersWillBe
  <1>5. eye'.frame \in AllHolders
    BY <1>1, <1>2, <1>3, HoldersAre, NoFrameIsNone
  <1>6. QED BY <1>0, <1>1, <1>4, <1>5, GiveBackKeeps

\* Every step keeps the frames that are held, fills a surface for a new one, or
\* releases the surface of one.
LEMMA HolderSteps ==
    ASSUME Inv, [Next]_vars
    PROVE  Keeps \/ Fills \/ \E f \in AllHolders : Releases(f)
  <1>0. TypeOK
    BY DEF Inv
  <1> USE DEF encoderVars, camVars, dqVars, eyeVars
  <1>1. CASE CapDequeue \/ CapDequeueEmpty \/ CapSubmit
    BY <1>1, UntouchedKeeps DEF CapDequeue, CapDequeueEmpty, CapSubmit
  <1>2. CASE DrainInputDone
    <2> DEFINE idx == Head(done)
               fd  == idxFd[idx]
    <2>1. idx = done[1] /\ idx \in Indices /\ 1 \in 1 .. Len(done)
      BY <1>0, <1>2, Popped DEF DrainInputDone, TypeOK
    <2>2. fd \in Pool /\ pending[fd] # NoFrame
      BY <2>1 DEF Inv, IndicesInUse, IndicesOnce
    <2>3. /\ pending' = [pending EXCEPT ![fd] = NoFrame] /\ UNCHANGED <<enc, eyeq, eye>>
          /\ GiveBack(free, 0)
      BY <1>2, <2>2 DEF DrainInputDone, InputDone
    <2> HIDE DEF fd
    <2>4. \A gd \in Pool : pending'[gd] = IF gd = fd THEN NoFrame ELSE pending[gd]
      BY <1>0, <2>2, <2>3 DEF TypeOK
    <2>5. AllHolders' \subseteq AllHolders /\ AllHolders \ AllHolders' \subseteq {pending[fd]}
      BY <2>2, <2>3, <2>4, HoldersAre, HoldersWillBe
    <2>6. QED BY <1>0, <2>3, <2>5, GiveBackReleases DEF Releases
  <1>3. CASE EncTake
    <2>1. enc'.frame = enc.frame /\ UNCHANGED <<free, pending, eyeq, eye>>
      BY <1>0, <1>3 DEF EncTake, TypeOK
    <2>2. QED BY <2>1 DEF Keeps, AllHolders, Holders
  <1>4. CASE EncPostprocess
    <2>1. At("post") /\ enc.frame = NoFrame /\ UNCHANGED <<pending, eyeq, eye>>
      BY <1>4 DEF EncPostprocess, Inv, EncoderPlaces, HasFrame, At
    <2>2. CASE Converted
      <3>1. /\ enc'.frame = [fd |-> Head(free), ts |-> enc.ts] /\ free # <<>>
            /\ free' = Tail(free)
        BY <1>0, <2>2 DEF Converted, TypeOK
      <3>2. Head(free) \in Pool
        <4>1. free \in Seq(Pool)
          BY <1>0 DEF TypeOK
        <4> QED BY <3>1, <4>1, Popped
      <3>3. enc'.frame # NoFrame
        BY <3>1, <3>2, NoFrameIsNone
      <3>4. AllHolders' = AllHolders \cup {enc'.frame}
        BY <2>1, <3>3, HoldersAre, HoldersWillBe
      <3>5. QED BY <1>4, <2>1, <3>1, <3>4 DEF Fills
    <2>3. CASE ConversionFails
      <3>1. /\ enc'.frame = NoFrame
            /\ free' = free \/ (free # <<>> /\ free' = Append(Tail(free), Head(free)))
        BY <2>3 DEF ConversionFails, Idle
      <3>2. AllHolders' = AllHolders
        BY <2>1, <3>1 DEF AllHolders, Holders
      <3>3. QED BY <3>1, <3>2 DEF Keeps
    <2>4. QED BY <1>4, <2>2, <2>3 DEF EncPostprocess
  <1>5. CASE EncPend
    <2>1. enc.frame \in Frames /\ enc.frame.fd \in Pool /\ pending[enc.frame.fd] = NoFrame
      BY <1>0, <1>5 DEF EncPend, Inv, TypeOK, EncoderPlaces, HasFrame, At, Frames
    <2>2. /\ pending' = [pending EXCEPT ![enc.frame.fd] = enc.frame] /\ enc'.frame = enc.frame
          /\ eyeq' = eyeq /\ eye' = eye /\ GiveBack(free, 0)
      BY <1>0, <1>5 DEF EncPend, TypeOK
    <2>3. \A fd \in Pool : pending'[fd] = IF fd = enc.frame.fd THEN enc.frame ELSE pending[fd]
      BY <1>0, <2>1, <2>2 DEF TypeOK
    <2>4. AllHolders' = AllHolders
      BY <2>1, <2>2, <2>3, HoldersAre, HoldersWillBe
    <2>5. QED BY <1>0, <2>2, <2>4, GiveBackKeeps
  <1>6. CASE EncSubmit
    <2>1. CASE SubmitFailed
      BY <1>6, <2>1, SubmitFailedReleases DEF EncSubmit
    <2>2. CASE ~SubmitFailed
      <3>1. enc'.frame = enc.frame /\ UNCHANGED <<free, pending, eyeq, eye>>
        BY <1>0, <1>6, <2>2 DEF EncSubmit, TypeOK
      <3>2. QED BY <3>1 DEF Keeps, AllHolders, Holders
    <2>3. QED BY <2>1, <2>2
  <1>7. CASE EncQueue
    <2>1. CASE QueueFails
      BY <1>7, <2>1, SubmitFailedReleases DEF EncQueue, QueueFails
    <2>2. CASE ~QueueFails
      <3>1. enc'.frame = enc.frame /\ UNCHANGED <<free, pending, eyeq, eye>>
        BY <1>0, <1>7, <2>2 DEF EncQueue, TypeOK
      <3>2. QED BY <3>1 DEF Keeps, AllHolders, Holders
    <2>3. QED BY <2>1, <2>2
  <1>8. CASE EncOfferEye
    <2>1. /\ enc'.frame \in {NoFrame, enc.frame} /\ UNCHANGED <<pending, eyeq, eye>>
          /\ GiveBack(free, 0)
      BY <1>0, <1>8 DEF EncOfferEye, Idle, TypeOK
    <2>2. AllHolders' \subseteq AllHolders /\ AllHolders \ AllHolders' \subseteq {enc.frame}
      BY <2>1, HoldersAre, HoldersWillBe
    <2>3. QED BY <1>0, <2>1, <2>2, GiveBackReleases DEF Releases
  <1>9. CASE EncPushEye
    <2>1. enc.frame \in Frames /\ eyeq = <<>>
      BY <1>0, <1>9 DEF EncPushEye, Inv, TypeOK, EncoderPlaces, HasFrame, EyeInFlight, At
    <2>2. /\ enc'.frame = NoFrame /\ eyeq' = <<enc.frame>> /\ UNCHANGED <<pending, eye>>
          /\ GiveBack(free, 0)
      BY <1>9 DEF EncPushEye, Idle
    <2>3. /\ \A f : (\E i \in DOMAIN eyeq' : eyeq'[i] = f) <=> f = enc.frame
          /\ \A f : ~\E i \in DOMAIN eyeq : eyeq[i] = f
      BY <2>1, <2>2
    <2>4. \A f : f \in AllHolders' <=> f \in AllHolders
      BY <2>1, <2>2, <2>3, HoldersAre, HoldersWillBe, NoFrameIsNone
    <2>5. QED BY <1>0, <2>2, <2>4, GiveBackKeeps
  <1>10. CASE NvencEncode \/ DequeueOne \/ WarmupEnds
    BY <1>10, UntouchedKeeps DEF NvencEncode, DequeueOne, WarmupEnds
  <1>11. CASE EyeTake
    BY <1>11, EyeTakeKeeps
  <1>12. CASE EyeProcess
    <2>1. eye'.frame = eye.frame /\ UNCHANGED <<free, enc, pending, eyeq>>
      BY <1>0, <1>12 DEF EyeProcess, TypeOK
    <2>2. QED BY <2>1 DEF Keeps, AllHolders, Holders
  <1>13. CASE EyeDrop
    <2>1. eye'.frame = NoFrame /\ UNCHANGED <<enc, pending, eyeq>> /\ GiveBack(free, 0)
      BY <1>0, <1>13 DEF EyeDrop, TypeOK
    <2>2. AllHolders' \subseteq AllHolders /\ AllHolders \ AllHolders' \subseteq {eye.frame}
      BY <2>1, HoldersAre, HoldersWillBe
    <2>3. QED BY <1>0, <2>1, <2>2, GiveBackReleases DEF Releases
  <1>14. CASE UNCHANGED vars
    BY <1>14, UntouchedKeeps DEF vars
  <1>15. QED
    BY <1>1, <1>2, <1>3, <1>4, <1>5, <1>6, <1>7, <1>8, <1>9, <1>10, <1>11, <1>12, <1>13, <1>14
    DEF Next, EncodeThread, EyeThread

-----------------------------------------------------------------------------
(* What NVENC makes of an input, and which timestamp its units get.        *)

\* The units of a frame, one per slice that NVENC makes.
LEMMA SlicesOfFrame ==
    ASSUME NEW in \in [idx : Indices, ts : 1 .. MaxFrames], NEW n \in 1 .. Slices,
           NEW zero \in BOOLEAN, NEW u,
           u = [i \in 1 .. n |-> [ts |-> in.ts, slice |-> i, given |-> 0,
                                  driver |-> IF i > 1 /\ zero THEN 0 ELSE in.ts]]
    PROVE  /\ u \in Seq(Units) /\ Len(u) = n
           /\ \A k \in 1 .. n : /\ u[k].ts = in.ts /\ u[k].slice = k
                                /\ u[k].driver = in.ts \/ (u[k].driver = 0 /\ k > 1)
  <1>1. n \in Nat /\ in.ts \in 1 .. MaxFrames
    BY Bounds
  <1>2. \A k \in 1 .. n :
           u[k] = [ts |-> in.ts, slice |-> k, given |-> 0,
                   driver |-> IF k > 1 /\ zero THEN 0 ELSE in.ts]
    OBVIOUS
  <1>3. \A k \in 1 .. n : k \in 1 .. Slices
    BY Bounds
  <1>4. \A k \in 1 .. n : u[k] \in Units
    BY <1>1, <1>2, <1>3, Bounds DEF Units
  <1>5. u \in [1 .. n -> Units]
    BY <1>4
  <1>6. u \in Seq(Units) /\ Len(u) = n
    BY <1>1, <1>5
  <1>7. QED BY <1>1, <1>2, <1>6

\* NVENC appends the units of its oldest input and is done with the buffer.
LEMMA Encoded ==
    ASSUME Inv, NvencEncode
    PROVE  /\ nvenc # <<>> /\ nvenc' = Tail(nvenc) /\ done' = Append(done, nvenc[1].idx)
           /\ nvenc[1] \in [idx : Indices, ts : 1 .. MaxFrames]
           /\ aus' \in Seq(Units)
           /\ \E n \in 1 .. Slices :
                /\ Len(aus') = Len(aus) + n
                /\ \A i \in 1 .. Len(aus) : aus'[i] = aus[i]
                /\ \A k \in 1 .. n :
                     /\ aus'[Len(aus) + k].ts = nvenc[1].ts /\ aus'[Len(aus) + k].slice = k
                     /\ \/ aus'[Len(aus) + k].driver = nvenc[1].ts
                        \/ aus'[Len(aus) + k].driver = 0 /\ k > 1
  <1> DEFINE in == nvenc[1]
             new(n, zero) == [i \in 1 .. n |-> [ts |-> in.ts, slice |-> i, given |-> 0,
                                  driver |-> IF i > 1 /\ zero THEN 0 ELSE in.ts]]
  <1>1. nvenc # <<>> /\ Head(nvenc) = in /\ in \in [idx : Indices, ts : 1 .. MaxFrames]
    BY InvTypes, Popped DEF NvencEncode, NvencOK
  <1>2. nvenc' = Tail(nvenc) /\ done' = Append(done, in.idx)
    BY <1>1 DEF NvencEncode
  <1>3. PICK n \in 1 .. Slices, zero \in BOOLEAN : aus' = aus \o new(n, zero)
    BY <1>1 DEF NvencEncode
  <1> DEFINE u == new(n, zero)
  <1> u = [i \in 1 .. n |-> [ts |-> in.ts, slice |-> i, given |-> 0,
                             driver |-> IF i > 1 /\ zero THEN 0 ELSE in.ts]]
    OBVIOUS
  <1> HIDE DEF u, in
  <1>4. /\ u \in Seq(Units) /\ Len(u) = n
        /\ \A k \in 1 .. n : /\ u[k].ts = in.ts /\ u[k].slice = k
                             /\ u[k].driver = in.ts \/ (u[k].driver = 0 /\ k > 1)
    BY <1>1, SlicesOfFrame
  <1>5. aus' = aus \o u
    BY <1>3 DEF u
  <1>6. aus \in Seq(Units) /\ Len(aus) \in Nat /\ n \in Nat
    BY InvTypes, EmptyByLength, Bounds DEF NvencOK
  <1>7. /\ aus' \in Seq(Units) /\ Len(aus') = Len(aus) + n
        /\ \A i \in 1 .. Len(aus) + n :
             aus'[i] = IF i <= Len(aus) THEN aus[i] ELSE u[i - Len(aus)]
    BY <1>4, <1>5, <1>6, ConcatProperties
  <1>8. \A i \in 1 .. Len(aus) : aus'[i] = aus[i]
    BY <1>6, <1>7
  <1>9. \A k \in 1 .. n : aus'[Len(aus) + k] = u[k]
    <2> TAKE k \in 1 .. n
    <2>1. Len(aus) + k \in 1 .. Len(aus) + n /\ ~(Len(aus) + k <= Len(aus))
          /\ (Len(aus) + k) - Len(aus) = k
      BY <1>6
    <2> QED BY <1>7, <2>1
  <1>10. \A k \in 1 .. n :
           /\ aus'[Len(aus) + k].ts = in.ts /\ aus'[Len(aus) + k].slice = k
           /\ \/ aus'[Len(aus) + k].driver = in.ts
              \/ aus'[Len(aus) + k].driver = 0 /\ k > 1
    BY <1>4, <1>9
  <1>11. /\ Len(aus') = Len(aus) + n /\ aus' \in Seq(Units)
    BY <1>7
  <1> HIDE DEF new
  <1>12. QED BY <1>1, <1>2, <1>8, <1>10, <1>11 DEF in

\* The first unit of a frame finds its timestamp at the head of the queue.
LEMMA FirstUnitTimestamp ==
    ASSUME Inv, aus # <<>>, aus[1].slice = 1
    PROVE  tsq # <<>> /\ tsq[1] = aus[1].ts
  <1> DEFINE x == aus[1].ts
  <1>1. 1 \in 1 .. Len(aus) /\ x \in 1 .. MaxFrames /\ Len(aus) \in Nat
    <2>1. aus \in Seq(Units)
      BY InvTypes DEF NvencOK
    <2>2. aus[1] \in Units /\ 1 \in 1 .. Len(aus) /\ Len(aus) \in Nat
      BY <2>1, Popped
    <2> QED BY <2>2 DEF Units
  <1>2. PICK j \in 1 .. Len(tsq) : tsq[j] = x
    BY <1>1 DEF Inv, TimestampsQueued, Awaited
  <1>3. tsq # <<>> /\ Len(tsq) \in Nat \ {0} /\ 1 \in 1 .. Len(tsq) /\ tsq[1] \in 1 .. MaxFrames
    <2>1. tsq \in Seq(1 .. MaxFrames)
      BY InvTypes DEF NvencOK
    <2>2. Len(tsq) \in Nat /\ (tsq = <<>> <=> Len(tsq) = 0)
      BY <2>1, EmptyByLength
    <2>3. Len(tsq) \in Nat \ {0} /\ 1 \in 1 .. Len(tsq)
      BY <1>2, <2>2
    <2> QED BY <2>1, <2>2, <2>3, ElementOfSeq
  <1>4. Awaited(tsq[1])
    BY <1>3 DEF Inv, TimestampsQueued
  <1>5. x <= tsq[1]
    <2>1. ASSUME NEW i \in 1 .. Len(aus), aus[i].ts = tsq[1], aus[i].slice = 1 PROVE x <= tsq[1]
      <3>1. i = 1 \/ 1 < i
        BY <1>1
      <3>2. 1 < i => x <= aus[i].ts
        BY <1>1 DEF Inv, UnitsInOrder
      <3> QED BY <1>3, <2>1, <3>1, <3>2
    <2>2. ASSUME NEW i \in 1 .. Len(nvenc), nvenc[i].ts = tsq[1] PROVE x <= tsq[1]
      BY <1>1, <1>3, <2>2 DEF Inv, UnitsInOrder
    <2>3. ASSUME At("queue"), enc.frame.ts = tsq[1] PROVE x <= tsq[1]
      BY <1>1, <1>3, <2>3 DEF Inv, UnitsEarlier, Submitting
    <2> QED BY <1>4, <2>1, <2>2, <2>3 DEF Awaited
  <1>6. j = 1
    <2>1. 1 < j => tsq[1] < tsq[j]
      BY <1>2, <1>3 DEF Inv, TimestampsQueued
    <2> QED BY <1>1, <1>2, <1>3, <1>5, <2>1
  <1> QED BY <1>2, <1>3, <1>6

\* dequeueOne gives a unit the timestamp of its frame.
LEMMA UnitIsTaken ==
    ASSUME Inv, aus # <<>>
    PROVE  LET taken == TakeTimestamp(aus[1])
           IN  /\ taken.ts = aus[1].ts
               /\ \/ /\ aus[1].slice = 1 /\ tsq # <<>> /\ tsq[1] = aus[1].ts
                     /\ taken.tsq = Tail(tsq) /\ taken.remain = Slices - 1
                  \/ /\ aus[1].slice > 1 /\ taken.tsq = tsq
                     /\ taken.remain = Slices - aus[1].slice
  <1> DEFINE u == aus[1]
  <1>1. 1 \in 1 .. Len(aus) /\ u \in Units
    BY InvTypes, Popped DEF NvencOK
  <1>2. /\ u.ts \in 1 .. MaxFrames /\ u.slice \in 1 .. Slices /\ u.driver \in 0 .. MaxFrames
        /\ last \in 0 .. MaxFrames /\ remain \in 0 .. Slices - 1
        /\ u.driver = u.ts \/ (u.driver = 0 /\ u.slice > 1)
    BY <1>1, InvTypes DEF Inv, DequeueOK, Units, UnitsInOrder
  <1>3. CASE u.slice = 1
    <2>1. tsq # <<>> /\ tsq[1] = u.ts /\ Head(tsq) = tsq[1]
      BY <1>3, FirstUnitTimestamp, InvTypes, Popped DEF NvencOK
    <2>2. last < u.ts /\ (last = 0 => remain = 0)
      BY <1>1, <1>3 DEF Inv, SlicesCounted
    <2> HIDE DEF u
    <2>3. NewFrame(u) \/ (~Expecting /\ tsq # <<>>)
      BY <1>2, <1>3, <2>1, <2>2, Bounds DEF NewFrame, Expecting
    <2>4. TakeTimestamp(u) = [ts |-> Head(tsq), tsq |-> Tail(tsq), remain |-> Slices - 1]
      BY <2>1, <2>3 DEF TakeTimestamp
    <2> QED BY <1>3, <2>1, <2>4 DEF u
  <1>4. CASE u.slice > 1
    <2>1. last = u.ts /\ remain = Slices - u.slice + 1
      BY <1>4 DEF Inv, SlicesCounted
    <2> HIDE DEF u
    <2>2. Expecting /\ ~NewFrame(u) /\ remain - 1 = Slices - u.slice
      BY <1>2, <1>4, <2>1, Bounds DEF NewFrame, Expecting
    <2>3. TakeTimestamp(u) = [ts |-> last, tsq |-> tsq, remain |-> remain - 1]
      BY <2>2 DEF TakeTimestamp
    <2> QED BY <1>4, <2>1, <2>2, <2>3 DEF u
  <1>5. u.slice = 1 \/ u.slice > 1
    BY <1>2, Bounds
  <1> QED BY <1>3, <1>4, <1>5

\* What the dequeue thread does with the oldest unit.
LEMMA Delivered ==
    ASSUME Inv, DequeueOne
    PROVE  /\ aus # <<>> /\ aus' = Tail(aus) /\ aus[1] \in Units
           /\ last' = aus[1].ts /\ timing' = {t \in timing : t.ts # aus[1].ts}
           /\ \/ /\ aus[1].slice = 1 /\ tsq # <<>> /\ tsq[1] = aus[1].ts
                 /\ tsq' = Tail(tsq) /\ remain' = Slices - 1
              \/ /\ aus[1].slice > 1 /\ tsq' = tsq /\ remain' = Slices - aus[1].slice
           /\ \/ UNCHANGED <<out, begun, warm>>
              \/ /\ warm' = FALSE /\ out' = [aus[1] EXCEPT !.given = aus[1].ts]
                 /\ begun' \in {begun, begun \cup {aus[1].ts}}
  <1> DEFINE taken == TakeTimestamp(aus[1])
  <1>1. aus # <<>> /\ Head(aus) = aus[1] /\ aus[1] \in Units
    BY InvTypes, Popped DEF DequeueOne, NvencOK
  <1>2. /\ taken.ts = aus[1].ts
        /\ \/ /\ aus[1].slice = 1 /\ tsq # <<>> /\ tsq[1] = aus[1].ts
              /\ taken.tsq = Tail(tsq) /\ taken.remain = Slices - 1
           \/ /\ aus[1].slice > 1 /\ taken.tsq = tsq
              /\ taken.remain = Slices - aus[1].slice
    BY <1>1, UnitIsTaken
  <1>3. /\ aus' = Tail(aus) /\ tsq' = taken.tsq /\ last' = taken.ts /\ remain' = taken.remain
        /\ timing' = {t \in timing : t.ts # taken.ts}
        /\ \/ UNCHANGED <<out, begun, warm>>
           \/ /\ warm' = FALSE /\ out' = [aus[1] EXCEPT !.given = taken.ts]
              /\ begun' \in {begun, begun \cup {aus[1].ts}}
    BY <1>1 DEF DequeueOne, dqVars
  <1> HIDE DEF taken
  <1> QED BY <1>1, <1>2, <1>3

\* Counters and buffers of capture and decoder stay in their ranges.
LEMMA CaptureOKNext ==
    ASSUME Inv, [Next]_vars
    PROVE  CaptureOK'
  <1>0. TypeOK /\ CaptureOK /\ free \in Seq(Pool) /\ EncodeOK /\ NvencOK /\ DequeueOK /\ EyeOK
    BY InvTypes
  <1> USE DEF camVars, encoderVars, dqVars, eyeVars
  <1>1. CASE CapDequeue \/ CapDequeueEmpty
    <2>1. /\ UNCHANGED <<mode, decFree, decoded>> /\ camera > 0 /\ camera' = camera - 1
          /\ \/ count < MaxFrames /\ count' = count + 1 /\ cap' = count + 1 /\ faults' = faults
             \/ Fault /\ UNCHANGED <<count, cap>>
      BY <1>1 DEF CapDequeue, CapDequeueEmpty
    <2>2. camera' \in 0 .. CamBuffers
      BY <1>0, <2>1, Bounds DEF CaptureOK
    <2>3. count' \in 0 .. MaxFrames /\ cap' \in 0 .. MaxFrames /\ faults' \in 0 .. MaxFaults
      BY <1>0, <2>1, Bounds DEF CaptureOK, Fault
    <2> QED BY <1>0, <2>1, <2>2, <2>3 DEF CaptureOK
  <1>2. CASE CapSubmit
    <2>1. camera + 1 <= CamBuffers
      BY <1>2, <1>0, Bounds DEF Inv, CaptureOK, CapSubmit, BuffersBounded
    <2>2. cap \in 1 .. MaxFrames /\ decoded \in Seq(1 .. MaxFrames)
      BY <1>2, <1>0 DEF CaptureOK, CapSubmit
    <2>3. decoded' \in Seq(1 .. MaxFrames)
      <3>1. decoded' = decoded \/ decoded' = Append(decoded, cap)
        BY <1>2 DEF CapSubmit
      <3>2. Append(decoded, cap) \in Seq(1 .. MaxFrames)
        <4> DEFINE S == 1 .. MaxFrames
        <4>1. decoded \in Seq(S) /\ cap \in S
          BY <2>2
        <4> HIDE DEF S
        <4>2. Append(decoded, cap) \in Seq(S)
          BY <4>1, Appended
        <4> QED BY <4>2 DEF S
      <3> QED BY <2>2, <3>1, <3>2
    <2>4. faults' \in 0 .. MaxFaults /\ decFree' \in 0 .. DecodeBuffers
      BY <1>2, <1>0, Bounds DEF CaptureOK, CapSubmit, Fault
    <2> QED BY <1>2, <1>0, <2>1, <2>3, <2>4, Bounds DEF CaptureOK, CapSubmit
  <1>3. CASE EncTake
    <2>1. decoded' \in Seq(1 .. MaxFrames)
      <3>1. decoded' = decoded \/ (decoded # <<>> /\ decoded' = Tail(decoded))
        BY <1>3 DEF EncTake
      <3>2. decoded \in Seq(1 .. MaxFrames)
        BY <1>0 DEF CaptureOK
      <3> QED BY <3>1, <3>2, Popped
    <2>2. camera' \in 0 .. CamBuffers /\ count' \in 0 .. MaxFrames
      <3>1. CASE UNCHANGED <<camera, count>>
        BY <1>0, <3>1 DEF CaptureOK
      <3>2. CASE camera > 0 /\ count < MaxFrames /\ camera' = camera - 1 /\ count' = count + 1
        BY <1>0, <3>2, Bounds DEF CaptureOK
      <3> QED BY <1>3, <3>1, <3>2 DEF EncTake
    <2> QED BY <1>3, <1>0, <2>1, <2>2 DEF CaptureOK, EncTake
  <1>4. CASE EncPostprocess
    <2>1. Len(decoded) \in Nat
      BY <1>0, EmptyByLength DEF CaptureOK
    <2>2. mode = "mjpeg" => decFree + 1 <= DecodeBuffers
      BY <1>4, <1>0, <2>1, Bounds DEF CaptureOK, Inv, EncPostprocess, BuffersBounded
    <2>3. mode # "mjpeg" => camera + 1 <= CamBuffers
      BY <1>4, <1>0, Bounds DEF CaptureOK, Inv, EncPostprocess, BuffersBounded
    <2>4. faults' \in 0 .. MaxFaults
      <3>1. faults' = faults \/ Fault
        BY <1>4 DEF EncPostprocess, Converted, ConversionFails
      <3> QED BY <1>0, <3>1, Bounds DEF CaptureOK, Fault
    <2>5. decFree' \in 0 .. DecodeBuffers /\ camera' \in 0 .. CamBuffers
      BY <1>4, <1>0, <2>2, <2>3, Bounds DEF CaptureOK, EncPostprocess
    <2> QED BY <1>4, <1>0, <2>4, <2>5 DEF CaptureOK, EncPostprocess
  <1>5. CASE EncSubmit \/ EncQueue
    <2>1. faults' \in 0 .. MaxFaults
      <3>1. faults' = faults \/ Fault
        BY <1>5 DEF EncSubmit, EncQueue, QueueFails
      <3> QED BY <1>0, <3>1, Bounds DEF CaptureOK, Fault
    <2>2. UNCHANGED <<mode, count, camera, cap, decFree, decoded>>
      BY <1>5 DEF EncSubmit, EncQueue
    <2> QED BY <1>0, <2>1, <2>2 DEF CaptureOK
  <1>6. CASE DrainInputDone \/ EncPend \/ EncOfferEye \/ EncPushEye \/ NvencEncode \/
             DequeueOne \/ WarmupEnds \/ EyeTake \/ EyeProcess \/ EyeDrop \/ UNCHANGED vars
    <2>1. UNCHANGED <<mode, count, faults, camera, cap, decFree, decoded>>
      BY <1>6 DEF DrainInputDone, EncPend, EncOfferEye, EncPushEye, NvencEncode, DequeueOne,
                  WarmupEnds, EyeTake, EyeProcess, EyeDrop, vars
    <2> QED BY <1>0, <2>1 DEF CaptureOK
  <1> QED BY <1>1, <1>2, <1>3, <1>4, <1>5, <1>6
         DEF Next, EncodeThread, EyeThread

\* The free queue holds surfaces of the pool.
LEMMA FreeNext ==
    ASSUME Inv, [Next]_vars
    PROVE  (free \in Seq(Pool))'
  <1>1. free \in Seq(Pool) /\ AllHolders \subseteq Frames
    BY HoldersType, InvTypes
  <1>2. CASE Keeps
    BY <1>1, <1>2, Popped, Appended DEF Keeps
  <1>3. CASE Fills
    BY <1>1, <1>3, Popped DEF Fills
  <1>4. ASSUME NEW f \in AllHolders, Releases(f) PROVE (free \in Seq(Pool))'
    BY <1>1, <1>4, Appended DEF Releases, Frames
  <1> QED BY <1>2, <1>3, <1>4, HolderSteps

\* An encode thread without a frame.
LEMMA IdleType ==
    /\ Idle \in [pc : {"top", "post", "pend", "submit", "queue", "eye", "push"},
                 ts : 0 .. MaxFrames, frame : Frames \cup {NoFrame}, idx : 0 .. InputBuffers]
    /\ Idle.pc = "top" /\ Idle.frame = NoFrame /\ Idle.idx = 0
  BY Bounds DEF Idle

\* The encode thread, its map of pending frames and the start times.
LEMMA EncodeOKNext ==
    ASSUME Inv, [Next]_vars
    PROVE  EncodeOK'
  <1>0. TypeOK /\ CaptureOK /\ free \in Seq(Pool) /\ EncodeOK /\ NvencOK /\ DequeueOK /\ EyeOK
    BY InvTypes
  <1> USE DEF camVars, encoderVars, dqVars, eyeVars
  <1>1. CASE DrainInputDone
    BY <1>1, <1>0 DEF EncodeOK, DrainInputDone, InputDone
  <1>2. CASE EncTake
    <2>1. PICK x \in 0 .. MaxFrames : enc' = [enc EXCEPT !.pc = "post", !.ts = x]
      <3>1. CASE mode = "mjpeg"
        <4>1. Head(decoded) \in 0 .. MaxFrames
          <5>1. decoded # <<>> /\ decoded \in Seq(1 .. MaxFrames)
            BY <1>0, <1>2, <3>1 DEF CaptureOK, EncTake
          <5>2. Head(decoded) \in 1 .. MaxFrames
            BY <5>1, Popped
          <5> QED BY <5>2, Bounds
        <4> QED BY <1>2, <3>1, <4>1 DEF EncTake
      <3>2. CASE mode # "mjpeg"
        <4>1. count + 1 \in 0 .. MaxFrames
          <5>1. count < MaxFrames /\ count \in 0 .. MaxFrames
            BY <1>0, <1>2, <3>2 DEF CaptureOK, EncTake
          <5> QED BY <5>1, Bounds
        <4> QED BY <1>2, <3>2, <4>1 DEF EncTake
      <3> QED BY <3>1, <3>2
    <2>2. UNCHANGED <<pending, timing>>
      BY <1>2 DEF EncTake
    <2> QED BY <1>0, <2>1, <2>2 DEF EncodeOK
  <1>3. CASE EncPostprocess
    <2>1. UNCHANGED <<pending, timing>>
      BY <1>3 DEF EncPostprocess
    <2>2. CASE Converted
      <3>1. Head(free) \in Pool
        BY <1>0, <2>2, Popped DEF Converted
      <3>2. enc.ts \in 1 .. MaxFrames
        BY <1>3, <1>0, Bounds DEF Inv, CaptureOK, CapturesInOrder, EncPostprocess
      <3>3. [fd |-> Head(free), ts |-> enc.ts] \in Frames
        BY <3>1, <3>2 DEF Frames
      <3> QED BY <1>0, <2>1, <2>2, <3>3 DEF EncodeOK, Converted
    <2>3. CASE ConversionFails
      BY <1>0, <2>1, <2>3, IdleType DEF EncodeOK, ConversionFails
    <2> QED BY <1>3, <2>2, <2>3 DEF EncPostprocess
  <1>4. CASE EncPend
    <2>1. enc.frame \in Frames /\ enc.frame.ts \in 1 .. MaxFrames
      BY <1>4, <1>0 DEF Inv, EncodeOK, EncPend, EncoderPlaces, HasFrame, At, Frames
    <2>2. pending' \in [Pool -> Frames \cup {NoFrame}]
      BY <1>4, <1>0, <2>1 DEF EncodeOK, EncPend
    <2>3. [ts |-> enc.frame.ts, early |-> ~past] \in [ts : 1 .. MaxFrames, early : BOOLEAN]
      BY <2>1
    <2>4. timing' \subseteq [ts : 1 .. MaxFrames, early : BOOLEAN]
      BY <1>4, <1>0, <2>3 DEF EncodeOK, EncPend
    <2> QED BY <1>4, <1>0, <2>2, <2>4 DEF EncodeOK, EncPend
  <1>5. CASE EncSubmit
    <2>1. CASE SubmitFailed
      BY <1>0, <2>1, IdleType DEF EncodeOK, SubmitFailed
    <2>2. CASE ~SubmitFailed
      <3>1. PICK idx \in Indices : /\ enc' = [enc EXCEPT !.pc = "queue", !.idx = idx]
                                   /\ UNCHANGED <<pending, timing>>
        BY <1>5, <1>0, <2>2 DEF NvencOK, EncSubmit
      <3>2. idx \in 0 .. InputBuffers
        BY Bounds DEF Indices
      <3> QED BY <1>0, <3>1, <3>2 DEF EncodeOK
    <2> QED BY <2>1, <2>2
  <1>6. CASE EncQueue
    <2>1. CASE SubmitFailed
      BY <1>0, <2>1, IdleType DEF EncodeOK, SubmitFailed
    <2>2. CASE ~SubmitFailed
      <3>1. enc' = [enc EXCEPT !.pc = "eye", !.idx = 0] /\ UNCHANGED <<pending, timing>>
        BY <1>6, <2>2 DEF EncQueue, QueueFails
      <3>2. 0 \in 0 .. InputBuffers
        BY Bounds
      <3> QED BY <1>0, <3>1, <3>2 DEF EncodeOK
    <2> QED BY <2>1, <2>2
  <1>7. CASE EncOfferEye \/ EncPushEye
    BY <1>7, <1>0, IdleType DEF EncodeOK, EncOfferEye, EncPushEye
  <1>8. CASE DequeueOne
    BY <1>8, <1>0 DEF EncodeOK, DequeueOne
  <1>9. CASE CapDequeue \/ CapDequeueEmpty \/ CapSubmit \/ NvencEncode \/ WarmupEnds \/
             EyeTake \/ EyeProcess \/ EyeDrop \/ UNCHANGED vars
    <2>1. UNCHANGED <<enc, pending, timing>>
      BY <1>9 DEF CapDequeue, CapDequeueEmpty, CapSubmit, NvencEncode, WarmupEnds, EyeTake,
                  EyeProcess, EyeDrop, vars
    <2> QED BY <1>0, <2>1 DEF EncodeOK
  <1> QED BY <1>1, <1>2, <1>3, <1>4, <1>5, <1>6, <1>7, <1>8, <1>9
         DEF Next, EncodeThread, EyeThread

\* The encode thread has a frame when it submits.
LEMMA SubmitHasFrame ==
    Inv /\ (EncPend \/ EncSubmit \/ EncQueue \/ EncOfferEye \/ EncPushEye) => enc.frame \in Frames
  BY InvTypes DEF EncodeOK, Inv, EncoderPlaces, HasFrame, At, EncPend, EncSubmit, EncQueue,
     EncOfferEye, EncPushEye

\* NVENC's buffers, inputs and access units, and the queued timestamps.
LEMMA NvencOKNext ==
    ASSUME Inv, [Next]_vars
    PROVE  NvencOK'
  <1>0. TypeOK /\ CaptureOK /\ free \in Seq(Pool) /\ EncodeOK /\ NvencOK /\ DequeueOK /\ EyeOK
    BY InvTypes
  <1> USE DEF camVars, encoderVars, dqVars, eyeVars
  <1>1. CASE DrainInputDone
    <2>1. done # <<>> /\ done \in Seq(Indices)
      BY <1>1, <1>0 DEF NvencOK, DrainInputDone
    <2>2. Head(done) \in Indices /\ Tail(done) \in Seq(Indices)
      BY <2>1, Popped
    <2>3. 0 \in 0 .. PoolSize
      BY Bounds
    <2> QED BY <1>1, <1>0, <2>2, <2>3 DEF NvencOK, DrainInputDone
  <1>2. CASE EncSubmit
    <2>1. UNCHANGED <<nvenc, done, aus>>
      BY <1>2 DEF EncSubmit
    <2>2. CASE UNCHANGED <<idxFree, idxFd, tsq>>
      BY <1>0, <2>1, <2>2 DEF NvencOK
    <2>3. ASSUME NEW idx \in idxFree, idxFree' = idxFree \ {idx},
                 idxFd' = [idxFd EXCEPT ![idx] = enc.frame.fd],
                 tsq' = Append(tsq, enc.frame.ts)
          PROVE  NvencOK'
      <3>1. enc.frame.fd \in 0 .. PoolSize /\ enc.frame.ts \in 1 .. MaxFrames
        BY <1>2, <1>0, Bounds, SubmitHasFrame DEF Frames, Pool
      <3>2. tsq' \in Seq(1 .. MaxFrames)
        BY <1>0, <2>3, <3>1, Appended DEF NvencOK
      <3> QED BY <1>0, <2>1, <2>3, <3>1, <3>2 DEF NvencOK
    <2> QED BY <1>2, <2>2, <2>3 DEF EncSubmit
  <1>3. CASE EncQueue
    <2>1. UNCHANGED <<done, aus>>
      BY <1>3 DEF EncQueue
    <2>2. enc.idx \in Indices /\ enc.frame.ts \in 1 .. MaxFrames
      BY <1>3, <1>0, SubmitHasFrame, Bounds DEF EncodeOK, Inv, EncoderPlaces, EncQueue, Frames, Indices
    <2>3. CASE QueueFails
      <3>1. tsq' \in Seq(1 .. MaxFrames)
        BY <1>0, <2>3, Fronted DEF NvencOK, QueueFails
      <3>2. 0 \in 0 .. PoolSize
        BY Bounds
      <3> QED BY <1>0, <2>1, <2>2, <2>3, <3>1, <3>2 DEF NvencOK, QueueFails
    <2>4. CASE ~QueueFails
      <3>1. /\ nvenc' = Append(nvenc, [idx |-> enc.idx, ts |-> enc.frame.ts])
            /\ UNCHANGED <<idxFd, idxFree, tsq>>
        BY <1>3, <2>4 DEF EncQueue
      <3>2. nvenc' \in Seq([idx : Indices, ts : 1 .. MaxFrames])
        BY <1>0, <2>2, <3>1, Appended DEF NvencOK
      <3> QED BY <1>0, <2>1, <3>1, <3>2 DEF NvencOK
    <2> QED BY <2>3, <2>4
  <1>4. CASE NvencEncode
    <2>1. /\ nvenc # <<>> /\ nvenc' = Tail(nvenc) /\ done' = Append(done, nvenc[1].idx)
          /\ nvenc[1] \in [idx : Indices, ts : 1 .. MaxFrames] /\ aus' \in Seq(Units)
      BY <1>4, Encoded
    <2>2. nvenc' \in Seq([idx : Indices, ts : 1 .. MaxFrames])
      BY <1>0, <2>1, Popped DEF NvencOK
    <2>3. done' \in Seq(Indices)
      BY <1>0, <2>1, Appended DEF NvencOK
    <2> QED BY <1>4, <1>0, <2>1, <2>2, <2>3 DEF NvencOK, NvencEncode
  <1>5. CASE DequeueOne
    <2>1. aus # <<>> /\ aus' = Tail(aus) /\ (tsq' = tsq \/ (tsq # <<>> /\ tsq' = Tail(tsq)))
      BY <1>5, Delivered
    <2>2. aus' \in Seq(Units)
      BY <1>0, <2>1, Popped DEF NvencOK
    <2>3. tsq' \in Seq(1 .. MaxFrames)
      <3>1. tsq \in Seq(1 .. MaxFrames)
        BY <1>0 DEF NvencOK
      <3> QED BY <2>1, <3>1, Popped
    <2> QED BY <1>5, <1>0, <2>2, <2>3 DEF NvencOK, DequeueOne
  <1>6. CASE CapDequeue \/ CapDequeueEmpty \/ CapSubmit \/ EncTake \/ EncPostprocess \/
             EncPend \/ EncOfferEye \/ EncPushEye \/ WarmupEnds \/ EyeTake \/ EyeProcess \/
             EyeDrop \/ UNCHANGED vars
    <2>1. UNCHANGED <<idxFree, idxFd, nvenc, done, aus, tsq>>
      BY <1>6 DEF CapDequeue, CapDequeueEmpty, CapSubmit, EncTake, EncPostprocess, EncPend,
                  EncOfferEye, EncPushEye, WarmupEnds, EyeTake, EyeProcess, EyeDrop, vars
    <2> QED BY <1>0, <2>1 DEF NvencOK
  <1> QED BY <1>1, <1>2, <1>3, <1>4, <1>5, <1>6
         DEF Next, EncodeThread, EyeThread

\* The dequeue thread.
LEMMA DequeueOKNext ==
    ASSUME Inv, [Next]_vars
    PROVE  DequeueOK'
  <1>0. TypeOK /\ CaptureOK /\ free \in Seq(Pool) /\ EncodeOK /\ NvencOK /\ DequeueOK /\ EyeOK
    BY InvTypes
  <1> USE DEF camVars, encoderVars, dqVars, eyeVars
  <1>1. CASE DequeueOne
    <2>1. aus[1].ts \in 1 .. MaxFrames /\ aus[1].slice \in 1 .. Slices /\ aus[1] \in Units
      BY <1>1, Delivered DEF Units
    <2>2. last' \in 0 .. MaxFrames /\ past' = past
      <3>1. last' = aus[1].ts
        BY <1>1, Delivered
      <3>2. past' = past
        BY <1>1 DEF DequeueOne
      <3> QED BY <2>1, <3>1, <3>2, Bounds
    <2>3. remain' \in 0 .. Slices - 1
      <3>1. remain' = Slices - aus[1].slice
        BY <1>1, Delivered
      <3> QED BY <2>1, <3>1, Bounds
    <2>4. \/ UNCHANGED <<out, begun, warm>>
          \/ /\ warm' = FALSE /\ out' = [aus[1] EXCEPT !.given = aus[1].ts]
             /\ begun' \in {begun, begun \cup {aus[1].ts}}
      BY <1>1, Delivered
    <2>5. out'.ts \in 0 .. MaxFrames /\ begun' \subseteq 1 .. MaxFrames /\ warm' \in BOOLEAN
      <3>1. CASE UNCHANGED <<out, begun, warm>>
        BY <1>0, <3>1 DEF DequeueOK
      <3>2. CASE /\ warm' = FALSE /\ out' = [aus[1] EXCEPT !.given = aus[1].ts]
                 /\ begun' \in {begun, begun \cup {aus[1].ts}}
        <4>1. out'.ts = aus[1].ts
          BY <2>1, <3>2 DEF Units
        <4>2. begun' \subseteq 1 .. MaxFrames
          BY <1>0, <2>1, <3>2 DEF DequeueOK
        <4>3. warm' \in BOOLEAN
          BY <3>2
        <4>4. out'.ts \in 0 .. MaxFrames
          BY <2>1, <4>1, Bounds
        <4> QED BY <4>2, <4>3, <4>4
      <3> QED BY <2>4, <3>1, <3>2
    <2> QED BY <1>0, <2>2, <2>3, <2>5 DEF DequeueOK
  <1>2. CASE WarmupEnds
    BY <1>2, <1>0 DEF DequeueOK, WarmupEnds
  <1>3. CASE CapDequeue \/ CapDequeueEmpty \/ CapSubmit \/ DrainInputDone \/ EncTake \/
             EncPostprocess \/ EncPend \/ EncSubmit \/ EncQueue \/ EncOfferEye \/
             EncPushEye \/ NvencEncode \/ EyeTake \/ EyeProcess \/ EyeDrop \/ UNCHANGED vars
    <2>1. UNCHANGED <<last, remain, out, begun, warm, past>>
      BY <1>3 DEF CapDequeue, CapDequeueEmpty, CapSubmit, DrainInputDone, EncTake,
                  EncPostprocess, EncPend, EncSubmit, EncQueue, EncOfferEye, EncPushEye,
                  NvencEncode, EyeTake, EyeProcess, EyeDrop, vars
    <2> QED BY <1>0, <2>1 DEF DequeueOK
  <1> QED BY <1>1, <1>2, <1>3
         DEF Next, EncodeThread, EyeThread

\* The eye image thread and its queue.
LEMMA EyeOKNext ==
    ASSUME Inv, [Next]_vars
    PROVE  EyeOK'
  <1>0. TypeOK /\ CaptureOK /\ free \in Seq(Pool) /\ EncodeOK /\ NvencOK /\ DequeueOK /\ EyeOK
    BY InvTypes
  <1> USE DEF camVars, encoderVars, dqVars, eyeVars
  <1>1. CASE EncOfferEye
    BY <1>1, <1>0 DEF EyeOK, EncOfferEye
  <1>2. CASE EncPushEye
    <2>1. enc.frame \in Frames
      BY <1>2, SubmitHasFrame
    <2>2. <<enc.frame>> \in Seq(Frames)
      BY <2>1
    <2> QED BY <1>2, <1>0, <2>2 DEF EyeOK, EncPushEye
  <1>3. CASE EyeTake
    <2>1. eyeq \in Seq(Frames) /\ eyeq # <<>>
      BY <1>3, <1>0 DEF EyeOK, EyeTake
    <2>2. Len(eyeq) \in Nat /\ Len(eyeq) # 0
      BY <2>1, EmptyByLength
    <2>3. eyeq[Len(eyeq)] \in Frames
      BY <2>1, <2>2, ElementOfSeq
    <2> QED BY <1>3, <1>0, <2>3, EmptySeq DEF EyeOK, EyeTake, Last
  <1>4. CASE EyeProcess \/ EyeDrop
    BY <1>4, <1>0 DEF EyeOK, EyeProcess, EyeDrop
  <1>5. CASE EncSubmit \/ EncQueue
    BY <1>5, <1>0 DEF EyeOK, EncSubmit, EncQueue, SubmitFailed, QueueFails
  <1>6. CASE DrainInputDone \/ EncPend
    BY <1>6, <1>0 DEF EyeOK, DrainInputDone, InputDone, EncPend
  <1>7. CASE CapDequeue \/ CapDequeueEmpty \/ CapSubmit \/ EncTake \/ EncPostprocess \/
             NvencEncode \/ DequeueOne \/ WarmupEnds \/ UNCHANGED vars
    <2>1. UNCHANGED <<eyeq, eye, inflight>>
      BY <1>7 DEF CapDequeue, CapDequeueEmpty, CapSubmit, EncTake, EncPostprocess,
                  NvencEncode, DequeueOne, WarmupEnds, vars
    <2> QED BY <1>0, <2>1 DEF EyeOK
  <1> QED BY <1>1, <1>2, <1>3, <1>4, <1>5, <1>6, <1>7
         DEF Next, EncodeThread, EyeThread

\* The types hold after every step.
LEMMA TypeOKNext ==
    ASSUME Inv, [Next]_vars
    PROVE  TypeOK'
  BY CaptureOKNext, FreeNext, EncodeOKNext, NvencOKNext, DequeueOKNext, EyeOKNext, TypePartsPrime

-----------------------------------------------------------------------------
(* Buffers and places.                                                     *)

\* A thread that submits a frame is not converting one, before or after.
LEMMA Submission ==
    ASSUME Inv, EncPend \/ EncSubmit \/ EncQueue \/ EncOfferEye \/ EncPushEye
    PROVE  /\ UNCHANGED <<mode, count, camera, cap, decFree, decoded>>
           /\ enc.pc \in {"pend", "submit", "queue", "eye", "push"}
           /\ enc'.pc \in {"top", "submit", "queue", "eye", "push"}
           /\ enc'.frame \in {enc.frame, NoFrame} /\ (enc'.pc # "top" => enc'.frame = enc.frame)
  <1> USE DEF camVars, encoderVars, dqVars, eyeVars
  <1>0. EncodeOK
    BY InvTypes
  <1>1. UNCHANGED <<mode, count, camera, cap, decFree, decoded>>
    BY DEF EncPend, EncSubmit, EncQueue, EncOfferEye, EncPushEye
  <1>2. enc.pc \in {"pend", "submit", "queue", "eye", "push"}
    BY DEF EncPend, EncSubmit, EncQueue, EncOfferEye, EncPushEye, At
  <1>3. \/ enc' = Idle \/ (\E idx : enc' = [enc EXCEPT !.pc = "queue", !.idx = idx])
        \/ enc' = [enc EXCEPT !.pc = "submit"] \/ enc' = [enc EXCEPT !.pc = "eye", !.idx = 0]
        \/ enc' = [enc EXCEPT !.pc = "push"]
    BY DEF EncPend, EncSubmit, EncQueue, EncOfferEye, EncPushEye, SubmitFailed, QueueFails
  <1>4. QED BY <1>0, <1>1, <1>2, <1>3, IdleType DEF EncodeOK

\* How the encode thread takes a frame.
LEMMA Taking ==
    ASSUME Inv, EncTake
    PROVE  /\ At("top") /\ enc'.pc = "post" /\ enc'.frame = enc.frame /\ enc'.idx = enc.idx
           /\ \/ /\ mode = "mjpeg" /\ decoded # <<>> /\ enc'.ts = decoded[1] /\ decoded' = Tail(decoded)
                 /\ camera' = camera /\ count' = count
              \/ /\ mode = "yuyv" /\ camera > 0 /\ count < MaxFrames /\ enc'.ts = count + 1
                 /\ camera' = camera - 1 /\ count' = count + 1 /\ decoded' = decoded
           /\ UNCHANGED <<mode, cap, decFree>>
  <1>0. EncodeOK /\ decoded \in Seq(1 .. MaxFrames)
    BY InvTypes DEF CaptureOK
  <1>1. decoded # <<>> => Head(decoded) = decoded[1]
    BY <1>0, Popped
  <1>2. QED BY <1>0, <1>1 DEF EncTake, EncodeOK

\* And how it leaves the conversion.
LEMMA Converting ==
    ASSUME Inv, EncPostprocess
    PROVE  /\ At("post") /\ enc'.pc \in {"pend", "top"}
           /\ \/ mode = "mjpeg" /\ decFree' = decFree + 1 /\ camera' = camera
              \/ mode = "yuyv" /\ camera' = camera + 1 /\ decFree' = decFree
           /\ UNCHANGED <<mode, count, cap, decoded>>
  BY InvTypes, IdleType
  DEF EncPostprocess, Converted, ConversionFails, EncodeOK, CaptureOK

\* Every source buffer is given back once.
LEMMA BuffersBoundedNext ==
    ASSUME Inv, [Next]_vars
    PROVE  BuffersBounded'
  <1>0. TypeOK /\ CaptureOK /\ free \in Seq(Pool) /\ EncodeOK /\ NvencOK /\ DequeueOK /\ EyeOK
    BY InvTypes
  <1> USE DEF camVars, encoderVars, dqVars, eyeVars
  <1>1. CASE CapDequeue \/ CapDequeueEmpty
    BY <1>1, <1>0, Bounds DEF Inv, CaptureOK, BuffersBounded, CapDequeue, CapDequeueEmpty, At
  <1>2. CASE CapSubmit
    <2>1. Len(decoded) \in Nat /\ cap \in 1 .. MaxFrames
      BY <1>2, <1>0, EmptyByLength DEF CaptureOK, CapSubmit
    <2>2. decFree' + Len(decoded') = decFree + Len(decoded)
      <3>1. Len(Append(decoded, cap)) = Len(decoded) + 1
        BY <1>0, <2>1, Appended DEF CaptureOK
      <3>2. \/ UNCHANGED <<decFree, decoded>>
            \/ decFree > 0 /\ decFree' = decFree - 1 /\ decoded' = Append(decoded, cap)
        BY <1>2 DEF CapSubmit
      <3>3. decFree \in Nat
        BY <1>0, Bounds DEF CaptureOK
      <3> QED BY <2>1, <3>1, <3>2, <3>3
    <2>3. Len(decoded') \in Nat /\ decFree' \in Nat
      BY <1>2, <1>0, CaptureOKNext, EmptyByLength DEF CaptureOK
    <2>4. camera' = camera + 1 /\ cap' = 0 /\ cap # 0 /\ UNCHANGED <<mode, enc>>
      BY <1>2 DEF CapSubmit
    <2>5. mode = "mjpeg"
      BY <1>0, <2>4 DEF Inv, CapturesInOrder, CaptureOK
    <2> QED BY <1>0, <2>1, <2>2, <2>3, <2>4, <2>5, Bounds DEF Inv, CaptureOK, BuffersBounded, At
  <1>3. CASE EncTake
    <2>1. Len(decoded) \in Nat /\ (decoded # <<>> => Len(Tail(decoded)) = Len(decoded) - 1)
      BY <1>0, EmptyByLength, Popped DEF CaptureOK
    <2>2. CASE mode = "mjpeg"
      <3>1. /\ enc.pc = "top" /\ enc'.pc = "post" /\ decoded # <<>> /\ decoded' = Tail(decoded)
            /\ UNCHANGED <<mode, camera, cap, decFree>>
        BY <1>3, <2>2, Taking DEF At
      <3> QED BY <1>0, <2>1, <2>2, <3>1, Bounds DEF Inv, CaptureOK, BuffersBounded, At
    <2>3. CASE mode # "mjpeg"
      <3>1. /\ enc.pc = "top" /\ enc'.pc = "post" /\ camera' = camera - 1 /\ camera > 0
            /\ UNCHANGED <<mode, decoded, cap, decFree>> /\ mode = "yuyv"
        BY <1>3, <2>3, Taking DEF At
      <3>2. cap = 0
        BY <3>1 DEF Inv, CapturesInOrder
      <3> QED BY <1>0, <2>1, <3>1, <3>2, Bounds DEF Inv, CaptureOK, BuffersBounded, At
    <2> QED BY <2>2, <2>3
  <1>4. CASE EncPostprocess
    <2>1. Len(decoded) \in Nat
      BY <1>0, EmptyByLength DEF CaptureOK
    <2>2. /\ enc.pc = "post" /\ enc'.pc # "post" /\ UNCHANGED <<mode, cap, decoded>>
          /\ \/ mode = "mjpeg" /\ decFree' = decFree + 1 /\ camera' = camera
             \/ mode = "yuyv" /\ camera' = camera + 1 /\ decFree' = decFree
      BY <1>4, Converting DEF At
    <2>3. mode = "yuyv" => cap = 0
      BY DEF Inv, CapturesInOrder
    <2>4. decFree \in Nat /\ camera \in Nat
      BY <1>0, Bounds DEF CaptureOK
    <2> QED BY <2>1, <2>2, <2>3, <2>4, Bounds DEF Inv, BuffersBounded, At
  <1>5. CASE EncPend \/ EncSubmit \/ EncQueue \/ EncOfferEye \/ EncPushEye
    BY <1>5, Submission DEF Inv, BuffersBounded, At
  <1>6. CASE DrainInputDone
    BY <1>6 DEF Inv, BuffersBounded, At, DrainInputDone, InputDone
  <1>7. CASE EyeTake \/ EyeDrop
    BY <1>7 DEF Inv, BuffersBounded, At, EyeTake, EyeDrop
  <1>8. CASE NvencEncode \/ DequeueOne \/ WarmupEnds \/ EyeProcess \/ UNCHANGED vars
    <2>1. UNCHANGED <<mode, enc, decFree, decoded, camera, cap>>
      BY <1>8 DEF NvencEncode, DequeueOne, WarmupEnds, EyeProcess, vars
    <2> QED BY <2>1 DEF Inv, BuffersBounded, At
  <1> QED BY <1>1, <1>2, <1>3, <1>4, <1>5, <1>6, <1>7, <1>8
         DEF Next, EncodeThread, EyeThread

\* Captures stay in order between capture, decoder and encode thread.
LEMMA CapturesInOrderNext ==
    ASSUME Inv, [Next]_vars
    PROVE  CapturesInOrder'
  <1>0. TypeOK /\ CaptureOK /\ free \in Seq(Pool) /\ EncodeOK /\ NvencOK /\ DequeueOK /\ EyeOK
    BY InvTypes
  <1> USE DEF camVars, encoderVars, dqVars, eyeVars
  <1>1. CASE CapDequeue
    <2>1. \A i \in 1 .. Len(decoded) : decoded[i] \in 1 .. MaxFrames
      BY <1>0, EmptyByLength DEF CaptureOK
    <2>2. /\ mode = "mjpeg" /\ cap' = count + 1 /\ count' = count + 1
          /\ UNCHANGED <<mode, decoded, enc>> /\ count \in Nat
      BY <1>0, <1>1, Bounds DEF CapDequeue, CaptureOK
    <2>3. \A i \in 1 .. Len(decoded) : decoded[i] <= count' /\ decoded[i] < cap'
      BY <2>1, <2>2, Bounds DEF Inv, CapturesInOrder
    <2>4. At("post") => enc.ts \in 1 .. count' /\ enc.ts < cap'
      BY <2>2 DEF Inv, CapturesInOrder
    <2>5. cap' <= count'
      BY <2>2
    <2> QED BY <2>2, <2>3, <2>4, <2>5 DEF Inv, CapturesInOrder, At
  <1>2. CASE CapSubmit
    <2>1. cap \in 1 .. MaxFrames /\ cap' = 0 /\ UNCHANGED <<mode, count, enc>> /\ Len(decoded) \in Nat
          /\ \A i \in 1 .. Len(decoded) : decoded[i] \in 1 .. MaxFrames
      <3>1. cap \in 1 .. MaxFrames /\ cap' = 0 /\ UNCHANGED <<mode, count, enc>>
        BY <1>2, <1>0 DEF CaptureOK, CapSubmit
      <3>2. Len(decoded) \in Nat /\ \A i \in 1 .. Len(decoded) : decoded[i] \in 1 .. MaxFrames
        BY <1>0, EmptyByLength DEF CaptureOK
      <3> QED BY <3>1, <3>2
    <2>2. mode = "mjpeg"
      BY <1>0, <2>1 DEF Inv, CapturesInOrder, CaptureOK
    <2>3. CASE decoded' = decoded
      BY <1>0, <2>1, <2>2, <2>3 DEF Inv, CapturesInOrder, At, CaptureOK
    <2>4. CASE decoded' = Append(decoded, cap)
      <3>1. /\ Len(decoded') = Len(decoded) + 1 /\ decoded'[Len(decoded) + 1] = cap
            /\ \A i \in 1 .. Len(decoded) : decoded'[i] = decoded[i]
        BY <1>0, <2>1, <2>4, Appended DEF CaptureOK
      <3>2. \A i \in 1 .. Len(decoded') : i \in 1 .. Len(decoded) \/ i = Len(decoded) + 1
        BY <2>1, <3>1
      <3>3. \A i \in 1 .. Len(decoded') : decoded'[i] <= count
        BY <2>1, <3>1, <3>2 DEF Inv, CapturesInOrder
      <3>4. \A i, j \in 1 .. Len(decoded') : i < j => decoded'[i] < decoded'[j]
        <4> SUFFICES ASSUME NEW i \in 1 .. Len(decoded'), NEW j \in 1 .. Len(decoded'), i < j
                     PROVE  decoded'[i] < decoded'[j]
          OBVIOUS
        <4>1. i \in 1 .. Len(decoded)
          BY <2>1, <3>1
        <4>2. CASE j = Len(decoded) + 1
          BY <2>1, <3>1, <4>1, <4>2 DEF Inv, CapturesInOrder
        <4>3. CASE j \in 1 .. Len(decoded)
          BY <3>1, <4>1, <4>3 DEF Inv, CapturesInOrder
        <4> QED BY <3>2, <4>2, <4>3
      <3>5. At("post") => \A i \in 1 .. Len(decoded') : enc.ts < decoded'[i]
        BY <2>1, <3>1, <3>2 DEF Inv, CapturesInOrder
      <3>6. At("post") => enc.ts \in 1 .. count
        BY DEF Inv, CapturesInOrder
      <3> QED BY <1>0, <2>1, <2>2, <3>3, <3>4, <3>5, <3>6, Bounds DEF CapturesInOrder, At, CaptureOK
    <2> QED BY <1>2, <2>3, <2>4 DEF CapSubmit
  <1>3. CASE EncTake
    <2>1. CASE mode = "mjpeg"
      <3>1. /\ decoded # <<>> /\ enc'.ts = decoded[1] /\ decoded' = Tail(decoded)
            /\ UNCHANGED <<mode, cap, count>> /\ enc'.pc = "post"
        BY <1>3, <2>1, Taking
      <3>2. /\ Len(decoded) \in Nat \ {0} /\ 1 \in 1 .. Len(decoded) /\ Len(decoded') = Len(decoded) - 1
            /\ decoded[1] \in 1 .. MaxFrames
            /\ \A i \in 1 .. Len(decoded) - 1 : decoded'[i] = decoded[i + 1]
        BY <1>0, <3>1, Popped DEF CaptureOK
      <3>3. \A i \in 1 .. Len(decoded') : i + 1 \in 1 .. Len(decoded) /\ 1 < i + 1 /\ decoded'[i] = decoded[i + 1]
        BY <3>2
      <3>4. \A i, j \in 1 .. Len(decoded') : i < j => i + 1 < j + 1
        BY <3>2
      <3>5. \A i \in 1 .. Len(decoded') : decoded'[i] <= count /\ (cap # 0 => decoded'[i] < cap)
        BY <3>3 DEF Inv, CapturesInOrder
      <3>6. \A i, j \in 1 .. Len(decoded') : i < j => decoded'[i] < decoded'[j]
        BY <3>3, <3>4 DEF Inv, CapturesInOrder
      <3>7. \A i \in 1 .. Len(decoded') : enc'.ts < decoded'[i]
        BY <3>1, <3>2, <3>3 DEF Inv, CapturesInOrder
      <3>8. enc'.ts \in 1 .. count /\ (cap # 0 => enc'.ts < cap) /\ cap <= count
        BY <1>0, <3>1, <3>2 DEF Inv, CapturesInOrder, CaptureOK
      <3> QED BY <2>1, <3>1, <3>5, <3>6, <3>7, <3>8 DEF CapturesInOrder
    <2>2. CASE mode # "mjpeg"
      <3>1. /\ mode = "yuyv" /\ enc'.ts = count + 1 /\ count' = count + 1
            /\ UNCHANGED <<mode, cap, decoded>> /\ enc'.pc = "post"
        BY <1>3, <2>2, Taking
      <3>2. decoded = <<>> /\ Len(decoded) = 0 /\ cap = 0
        BY <1>0, <3>1, EmptyByLength DEF CaptureOK, Inv, CapturesInOrder
      <3> QED BY <1>0, <3>1, <3>2, Bounds DEF CaptureOK, CapturesInOrder
    <2> QED BY <2>1, <2>2
  <1>4. CASE EncPostprocess
    BY <1>4, Converting DEF Inv, CapturesInOrder, At
  <1>5. CASE EncPend \/ EncSubmit \/ EncQueue \/ EncOfferEye \/ EncPushEye
    BY <1>5, Submission DEF Inv, CapturesInOrder, At
  <1>6. CASE DrainInputDone
    BY <1>6 DEF Inv, CapturesInOrder, At, DrainInputDone, InputDone
  <1>7. CASE EyeTake \/ EyeDrop
    BY <1>7 DEF Inv, CapturesInOrder, At, EyeTake, EyeDrop
  <1>8. CASE CapDequeueEmpty \/ NvencEncode \/ DequeueOne \/ WarmupEnds \/ EyeProcess \/
             UNCHANGED vars
    <2>1. UNCHANGED <<mode, cap, count, decoded, enc>>
      BY <1>8 DEF CapDequeueEmpty, NvencEncode, DequeueOne, WarmupEnds, EyeProcess, vars
    <2> QED BY <2>1 DEF Inv, CapturesInOrder, At
  <1> QED BY <1>1, <1>2, <1>3, <1>4, <1>5, <1>6, <1>7, <1>8
         DEF Next, EncodeThread, EyeThread

\* A frame is in flight for the eye image thread in one place.
LEMMA EyeInFlightNext ==
    ASSUME Inv, [Next]_vars
    PROVE  EyeInFlight'
  <1>0. TypeOK /\ CaptureOK /\ free \in Seq(Pool) /\ EncodeOK /\ NvencOK /\ DequeueOK /\ EyeOK
    BY InvTypes
  <1> USE DEF camVars, encoderVars, dqVars, eyeVars
  <1>1. CASE EncTake
    <2>1. UNCHANGED <<eyeq, eye, inflight>>
      BY <1>1 DEF EncTake
    <2> QED BY <1>1, <2>1, Taking DEF Inv, EyeInFlight, InflightMeansWork, At
  <1>2. CASE EncPostprocess
    <2>1. UNCHANGED <<eyeq, eye, inflight>>
      BY <1>2 DEF EncPostprocess
    <2> QED BY <1>2, <2>1, Converting DEF Inv, EyeInFlight, InflightMeansWork, At
  <1>3. CASE EncPend \/ EncSubmit \/ EncQueue
    <2>1. UNCHANGED <<eyeq, eye, inflight>>
      BY <1>3 DEF EncPend, EncSubmit, EncQueue, SubmitFailed, QueueFails
    <2>2. enc.pc \in {"pend", "submit", "queue"} /\ enc'.pc \in {"top", "submit", "queue", "eye"}
      BY <1>3, <1>0, IdleType
      DEF EncodeOK, EncPend, EncSubmit, EncQueue, SubmitFailed, QueueFails, At
    <2> QED BY <2>1, <2>2 DEF Inv, EyeInFlight, InflightMeansWork, At
  <1>4. CASE EncOfferEye
    <2>1. /\ enc.pc = "eye" /\ UNCHANGED <<eyeq, eye>>
          /\ \/ enc'.pc = "top" /\ UNCHANGED inflight
             \/ ~inflight /\ inflight' = TRUE /\ enc'.pc = "push"
      BY <1>4, <1>0, IdleType DEF EncodeOK, EncOfferEye, At
    <2> QED BY <1>0, <2>1 DEF Inv, EyeInFlight, InflightMeansWork, At, EyeOK
  <1>5. CASE EncPushEye
    <2>1. enc.pc = "push" /\ enc'.pc = "top" /\ eyeq' = <<enc.frame>> /\ UNCHANGED <<eye, inflight>>
      BY <1>5, IdleType DEF EncPushEye, At
    <2>2. Len(eyeq') = 1 /\ eyeq' # <<>>
      BY <2>1
    <2> QED BY <1>0, <2>1, <2>2 DEF Inv, EyeInFlight, InflightMeansWork, At, EyeOK
  <1>6. CASE EyeTake
    <2>1. /\ eyeq # <<>> /\ eye' = [frame |-> eyeq[Len(eyeq)], busy |-> TRUE] /\ eyeq' = <<>>
          /\ UNCHANGED <<enc, inflight>>
      BY <1>6 DEF EyeTake, Last
    <2>2. Len(eyeq) \in Nat /\ Len(eyeq) # 0 /\ Len(eyeq') = 0
      BY <1>0, <2>1, EmptyByLength DEF EyeOK
    <2>3. eyeq[Len(eyeq)] \in Frames
      BY <1>0, <2>2, ElementOfSeq DEF EyeOK
    <2> QED BY <2>1, <2>2, <2>3, NoFrameIsNone DEF Inv, EyeInFlight, InflightMeansWork, At
  <1>7. CASE EyeProcess
    BY <1>7, <1>0 DEF Inv, EyeInFlight, InflightMeansWork, At, EyeProcess, EyeOK
  <1>8. CASE EyeDrop
    BY <1>8, <1>0 DEF Inv, EyeInFlight, InflightMeansWork, At, EyeDrop, EyeOK
  <1>9. CASE DrainInputDone
    BY <1>9 DEF Inv, EyeInFlight, InflightMeansWork, At, DrainInputDone, InputDone
  <1>10. CASE CapDequeue \/ CapDequeueEmpty \/ CapSubmit \/ NvencEncode \/ DequeueOne \/
              WarmupEnds \/ UNCHANGED vars
    <2>1. UNCHANGED <<enc, eyeq, eye, inflight>>
      BY <1>10 DEF CapDequeue, CapDequeueEmpty, CapSubmit, NvencEncode, DequeueOne,
                   WarmupEnds, vars
    <2> QED BY <2>1 DEF Inv, EyeInFlight, InflightMeansWork, At
  <1> QED BY <1>1, <1>2, <1>3, <1>4, <1>5, <1>6, <1>7, <1>8, <1>9, <1>10
         DEF Next, EncodeThread, EyeThread

-----------------------------------------------------------------------------
(* What the steps of the encode thread do to frames and input buffers.     *)

\* A finished input is of the surface whose frame is in the map.
LEMMA Drained ==
    ASSUME Inv, DrainInputDone
    PROVE  LET idx == done[1]
               fd  == idxFd[idx]
           IN  /\ At("top") /\ done # <<>> /\ done' = Tail(done)
               /\ idx \in Indices /\ idx \notin idxFree /\ fd \in Pool
               /\ idxFree' = idxFree \cup {idx}
               /\ \A j \in Indices : idxFd'[j] = IF j = idx THEN 0 ELSE idxFd[j]
               /\ \A g \in Pool : pending'[g] = IF g = fd THEN NoFrame ELSE pending[g]
               /\ UNCHANGED <<enc, eyeq, eye, nvenc, aus, tsq, timing>>
  <1> DEFINE idx == done[1]
             fd  == idxFd[idx]
  <1>0. NvencOK /\ EncodeOK
    BY InvTypes
  <1>1. At("top") /\ done # <<>> /\ done \in Seq(Indices)
    BY <1>0 DEF DrainInputDone, NvencOK
  <1>2. Head(done) = idx /\ idx \in Indices /\ 1 \in 1 .. Len(done)
    BY <1>1, Popped
  <1>3. idx \notin idxFree
    BY <1>2 DEF Inv, IndicesOnce
  <1>4. fd \in Pool
    BY <1>2, <1>3 DEF Inv, IndicesInUse
  <1> HIDE DEF fd
  <1>5. /\ done' = Tail(done) /\ idxFd' = [idxFd EXCEPT ![idx] = 0] /\ idxFree' = idxFree \cup {idx}
        /\ pending' = [pending EXCEPT ![fd] = NoFrame]
        /\ UNCHANGED <<enc, eyeq, eye, nvenc, aus, tsq, timing>>
    BY <1>2 DEF DrainInputDone, InputDone, fd
  <1>6. \A j \in Indices : idxFd'[j] = IF j = idx THEN 0 ELSE idxFd[j]
    BY <1>0, <1>2, <1>5 DEF NvencOK
  <1>7. \A g \in Pool : pending'[g] = IF g = fd THEN NoFrame ELSE pending[g]
    BY <1>0, <1>4, <1>5 DEF EncodeOK
  <1>8. QED BY <1>1, <1>2, <1>3, <1>4, <1>5, <1>6, <1>7 DEF fd

\* The frame is in the map before it is submitted.
LEMMA Pended ==
    ASSUME Inv, EncPend
    PROVE  /\ enc.pc = "pend" /\ enc'.pc = "submit" /\ enc'.frame = enc.frame /\ enc'.idx = enc.idx
           /\ enc.frame \in Frames /\ enc.frame.fd \in Pool /\ enc.frame # NoFrame
           /\ \A g \in Pool : pending'[g] = IF g = enc.frame.fd THEN enc.frame ELSE pending[g]
           /\ UNCHANGED <<idxFree, idxFd, nvenc, done, aus, tsq>>
  <1>0. EncodeOK
    BY InvTypes
  <1>1. enc.frame \in Frames /\ enc.frame.fd \in Pool /\ enc.frame # NoFrame
    BY SubmitHasFrame, NoFrameIsNone DEF Frames
  <1>2. QED BY <1>0, <1>1 DEF EncodeOK, EncPend, At, encoderVars

\* A submit that fails takes its frame out of the map again.
LEMMA Failed ==
    ASSUME Inv, At("submit") \/ At("queue"), SubmitFailed
    PROVE  /\ enc'.pc = "top" /\ enc'.frame = NoFrame /\ enc'.idx = 0
           /\ enc.frame \in Frames /\ enc.frame.fd \in Pool
           /\ \A g \in Pool : pending'[g] = IF g = enc.frame.fd THEN NoFrame ELSE pending[g]
           /\ timing' = {t \in timing : t.ts # enc.frame.ts}
  <1>0. EncodeOK
    BY InvTypes
  <1>1. enc.frame \in Frames /\ enc.frame.fd \in Pool
    BY <1>0 DEF EncodeOK, Inv, EncoderPlaces, HasFrame, At, Frames
  <1>2. QED BY <1>0, <1>1, IdleType DEF EncodeOK, SubmitFailed

\* A submit fails or takes a free input buffer.
LEMMA Submitted ==
    ASSUME Inv, EncSubmit
    PROVE  /\ enc.pc = "submit" /\ enc.frame \in Frames /\ enc.frame.fd \in Pool /\ enc.frame # NoFrame
           /\ UNCHANGED <<nvenc, done, aus>>
           /\ \/ SubmitFailed /\ UNCHANGED <<idxFree, idxFd, tsq>>
              \/ \E idx \in idxFree :
                   /\ idx \in Indices /\ idxFree' = idxFree \ {idx}
                   /\ \A j \in Indices : idxFd'[j] = IF j = idx THEN enc.frame.fd ELSE idxFd[j]
                   /\ tsq' = Append(tsq, enc.frame.ts)
                   /\ enc'.pc = "queue" /\ enc'.frame = enc.frame /\ enc'.idx = idx
                   /\ UNCHANGED <<pending, timing>>
  <1>0. EncodeOK /\ NvencOK
    BY InvTypes
  <1>1. enc.frame \in Frames /\ enc.frame.fd \in Pool /\ enc.frame # NoFrame
    BY SubmitHasFrame, NoFrameIsNone DEF Frames
  <1>2. enc.pc = "submit" /\ UNCHANGED <<nvenc, done, aus>>
    BY DEF EncSubmit, At
  <1>3. CASE SubmitFailed /\ UNCHANGED <<idxFree, idxFd, tsq>>
    BY <1>1, <1>2, <1>3
  <1>4. ASSUME NEW idx \in idxFree, idxFree' = idxFree \ {idx},
               idxFd' = [idxFd EXCEPT ![idx] = enc.frame.fd], tsq' = Append(tsq, enc.frame.ts),
               enc' = [enc EXCEPT !.pc = "queue", !.idx = idx], UNCHANGED <<pending, timing>>
        PROVE  /\ idx \in Indices
               /\ \A j \in Indices : idxFd'[j] = IF j = idx THEN enc.frame.fd ELSE idxFd[j]
               /\ enc'.pc = "queue" /\ enc'.frame = enc.frame /\ enc'.idx = idx
    BY <1>0, <1>4 DEF EncodeOK, NvencOK
  <1>5. QED BY <1>1, <1>2, <1>3, <1>4 DEF EncSubmit

\* qBuffer fails, and the index and the timestamp are taken back, or NVENC gets
\* the input.
LEMMA Queued ==
    ASSUME Inv, EncQueue
    PROVE  /\ enc.pc = "queue" /\ enc.idx \in Indices /\ enc.frame \in Frames /\ enc.frame.fd \in Pool
           /\ enc.frame # NoFrame /\ UNCHANGED <<done, aus>>
           /\ \/ /\ SubmitFailed /\ idxFree' = idxFree \cup {enc.idx}
                 /\ \A j \in Indices : idxFd'[j] = IF j = enc.idx THEN 0 ELSE idxFd[j]
                 /\ tsq' = IF tsq = <<>> THEN tsq ELSE Front(tsq)
                 /\ nvenc' = nvenc
              \/ /\ nvenc' = Append(nvenc, [idx |-> enc.idx, ts |-> enc.frame.ts])
                 /\ enc'.pc = "eye" /\ enc'.frame = enc.frame /\ enc'.idx = 0
                 /\ UNCHANGED <<idxFree, idxFd, tsq, pending, timing, eyeq, eye, free>>
  <1>0. EncodeOK /\ NvencOK
    BY InvTypes
  <1>1. enc.frame \in Frames /\ enc.frame.fd \in Pool /\ enc.frame # NoFrame
    BY SubmitHasFrame, NoFrameIsNone DEF Frames
  <1>2. enc.pc = "queue" /\ UNCHANGED <<done, aus>>
    BY DEF EncQueue, At
  <1>3. enc.idx \in Indices
    BY <1>0, <1>2, Bounds DEF EncodeOK, Inv, EncoderPlaces, At, Indices
  <1>4. CASE QueueFails
    BY <1>0, <1>1, <1>2, <1>3, <1>4 DEF QueueFails, NvencOK
  <1>5. CASE ~QueueFails
    BY <1>0, <1>1, <1>2, <1>3, <1>5 DEF EncQueue, EncodeOK
  <1>6. QED BY <1>4, <1>5

\* A frame that is offered to the eye image thread, or dropped.
LEMMA Offered ==
    ASSUME Inv, EncOfferEye \/ EncPushEye
    PROVE  /\ enc.pc \in {"eye", "push"} /\ enc'.pc \in {"top", "push"} /\ enc'.idx = 0
           /\ \/ enc'.pc = "top" /\ enc'.frame = NoFrame
              \/ enc'.pc = "push" /\ enc'.frame = enc.frame
           /\ UNCHANGED <<pending, timing, idxFree, idxFd, nvenc, done, aus, tsq>>
  <1>0. EncodeOK
    BY InvTypes
  <1>1. enc.pc \in {"eye", "push"} /\ UNCHANGED <<pending, timing, idxFree, idxFd, nvenc, done, aus, tsq>>
    BY DEF EncOfferEye, EncPushEye, At, encoderVars
  <1>2. enc.idx = 0
    BY <1>1 DEF Inv, EncoderPlaces, At
  <1>3. enc' = Idle \/ enc' = [enc EXCEPT !.pc = "push"]
    BY DEF EncOfferEye, EncPushEye
  <1>4. QED BY <1>0, <1>1, <1>2, <1>3, IdleType DEF EncodeOK

\* The surface a conversion fills is of no frame in the map.
LEMMA FreeIsNotPending ==
    ASSUME Inv, NEW fd \in Pool, Contains(free, fd)
    PROVE  pending[fd] = NoFrame
  <1>1. ~\E f \in AllHolders : f.fd = fd
    BY DEF Inv, SurfacesAccounted
  <1>2. pending[fd] # NoFrame => pending[fd] \in AllHolders /\ pending[fd].fd = fd
    BY HoldersAre DEF Inv, PendingAtHome
  <1>3. QED BY <1>1, <1>2

\* A conversion fills the first free surface, or fails.
LEMMA Filled ==
    ASSUME Inv, EncPostprocess
    PROVE  /\ enc.pc = "post" /\ enc.frame = NoFrame
           /\ UNCHANGED <<pending, timing, idxFree, idxFd, nvenc, done, aus, tsq>>
           /\ enc'.idx = 0
           /\ \/ enc'.pc = "top" /\ enc'.frame = NoFrame
              \/ /\ enc'.pc = "pend" /\ free # <<>> /\ enc'.frame = [fd |-> free[1], ts |-> enc.ts]
                 /\ free[1] \in Pool /\ pending[free[1]] = NoFrame /\ enc'.frame # NoFrame
  <1>0. EncodeOK /\ free \in Seq(Pool)
    BY InvTypes
  <1>1. enc.pc = "post" /\ UNCHANGED <<pending, timing, idxFree, idxFd, nvenc, done, aus, tsq>>
    BY DEF EncPostprocess, At, encoderVars
  <1>2. enc.frame = NoFrame /\ enc.idx = 0
    BY <1>1 DEF Inv, EncoderPlaces, HasFrame, At
  <1>3. CASE Converted
    <2>1. free # <<>> /\ Head(free) = free[1] /\ free[1] \in Pool /\ 1 \in 1 .. Len(free)
      BY <1>0, <1>3, Popped DEF Converted
    <2>2. pending[free[1]] = NoFrame
      BY <2>1, FreeIsNotPending DEF Contains
    <2>3. enc'.pc = "pend" /\ enc'.frame = [fd |-> free[1], ts |-> enc.ts] /\ enc'.idx = 0
      BY <1>0, <1>2, <1>3, <2>1 DEF Converted, EncodeOK
    <2>4. enc'.frame # NoFrame
      BY <2>1, <2>3, NoFrameIsNone
    <2> QED BY <1>1, <1>2, <2>1, <2>2, <2>3, <2>4
  <1>4. CASE ConversionFails
    BY <1>1, <1>2, <1>4, IdleType DEF ConversionFails
  <1>5. QED BY <1>3, <1>4 DEF EncPostprocess

\* What the encode thread has at each of its places.
LEMMA EncoderPlacesNext ==
    ASSUME Inv, [Next]_vars
    PROVE  EncoderPlaces'
  <1>0. TypeOK /\ CaptureOK /\ free \in Seq(Pool) /\ EncodeOK /\ NvencOK /\ DequeueOK /\ EyeOK
    BY InvTypes
  <1> USE DEF camVars, encoderVars, dqVars, eyeVars
  <1>1. CASE DrainInputDone
    BY <1>1, Drained DEF Inv, EncoderPlaces, HasFrame, At
  <1>2. CASE EncTake
    <2>1. pending' = pending
      BY <1>2 DEF EncTake
    <2> QED BY <1>2, <2>1, Taking DEF Inv, EncoderPlaces, HasFrame, At
  <1>3. CASE EncPostprocess
    BY <1>3, Filled DEF EncoderPlaces, HasFrame, At
  <1>4. CASE EncPend
    <2>1. enc.idx = 0
      BY <1>4, Pended DEF Inv, EncoderPlaces, At
    <2> QED BY <1>4, <2>1, Pended DEF EncoderPlaces, HasFrame, At
  <1>5. CASE EncSubmit
    <2>1. pending[enc.frame.fd] = enc.frame /\ At("submit")
      BY <1>5 DEF Inv, EncoderPlaces, EncSubmit
    <2>2. CASE SubmitFailed
      BY <2>1, <2>2, Failed DEF EncoderPlaces, HasFrame, At
    <2>3. CASE ~SubmitFailed
      <3>1. enc'.pc = "queue" /\ enc'.frame = enc.frame /\ enc'.idx \in Indices /\ UNCHANGED pending
        BY <1>5, <2>3, Submitted
      <3>2. enc.frame # NoFrame /\ enc'.idx # 0
        BY <1>5, <3>1, Submitted, Bounds DEF Indices
      <3> QED BY <2>1, <3>1, <3>2 DEF EncoderPlaces, HasFrame, At
    <2> QED BY <2>2, <2>3
  <1>6. CASE EncQueue
    <2>1. At("queue")
      BY <1>6 DEF EncQueue
    <2>2. CASE SubmitFailed
      BY <2>1, <2>2, Failed DEF EncoderPlaces, HasFrame, At
    <2>3. CASE ~SubmitFailed
      <3>1. enc'.pc = "eye" /\ enc'.frame = enc.frame /\ enc'.idx = 0 /\ enc.frame # NoFrame
        BY <1>6, <2>3, Queued
      <3> QED BY <3>1 DEF EncoderPlaces, HasFrame, At
    <2> QED BY <2>2, <2>3
  <1>7. CASE EncOfferEye \/ EncPushEye
    <2>1. enc.frame \in Frames
      BY <1>7, SubmitHasFrame
    <2> QED BY <1>7, <2>1, Offered, NoFrameIsNone DEF EncoderPlaces, HasFrame, At
  <1>8. CASE EyeTake \/ EyeDrop
    BY <1>8 DEF Inv, EncoderPlaces, HasFrame, At, EyeTake, EyeDrop
  <1>9. CASE CapDequeue \/ CapDequeueEmpty \/ CapSubmit \/ NvencEncode \/ DequeueOne \/
             WarmupEnds \/ EyeProcess \/ UNCHANGED vars
    <2>1. UNCHANGED <<enc, pending>>
      BY <1>9 DEF CapDequeue, CapDequeueEmpty, CapSubmit, NvencEncode, DequeueOne,
                  WarmupEnds, EyeProcess, vars
    <2> QED BY <2>1 DEF Inv, EncoderPlaces, HasFrame, At
  <1> QED BY <1>1, <1>2, <1>3, <1>4, <1>5, <1>6, <1>7, <1>8, <1>9
         DEF Next, EncodeThread, EyeThread

\* A frame is in the map under its own surface.
LEMMA PendingAtHomeNext ==
    ASSUME Inv, [Next]_vars
    PROVE  PendingAtHome'
  <1>0. TypeOK /\ CaptureOK /\ free \in Seq(Pool) /\ EncodeOK /\ NvencOK /\ DequeueOK /\ EyeOK
    BY InvTypes
  <1> USE DEF camVars, encoderVars, dqVars, eyeVars
  <1>1. CASE DrainInputDone
    BY <1>1, Drained DEF Inv, PendingAtHome
  <1>2. CASE EncPend
    BY <1>2, Pended DEF Inv, PendingAtHome
  <1>3. CASE EncSubmit
    <2>1. CASE SubmitFailed
      BY <1>3, <2>1, Failed DEF Inv, PendingAtHome, EncSubmit
    <2>2. CASE ~SubmitFailed
      BY <1>3, <2>2, Submitted DEF Inv, PendingAtHome
    <2> QED BY <2>1, <2>2
  <1>4. CASE EncQueue
    <2>1. CASE SubmitFailed
      BY <1>4, <2>1, Failed DEF Inv, PendingAtHome, EncQueue
    <2>2. CASE ~SubmitFailed
      BY <1>4, <2>2, Queued DEF Inv, PendingAtHome
    <2> QED BY <2>1, <2>2
  <1>5. CASE CapDequeue \/ CapDequeueEmpty \/ CapSubmit \/ EncTake \/ EncPostprocess \/
             EncOfferEye \/ EncPushEye \/ NvencEncode \/ DequeueOne \/ WarmupEnds \/
             EyeTake \/ EyeProcess \/ EyeDrop \/ UNCHANGED vars
    <2>1. UNCHANGED <<pending>>
      BY <1>5 DEF CapDequeue, CapDequeueEmpty, CapSubmit, EncTake, EncPostprocess,
                  EncOfferEye, EncPushEye, NvencEncode, DequeueOne, WarmupEnds, EyeTake,
                  EyeProcess, EyeDrop, vars
    <2> QED BY <2>1 DEF Inv, PendingAtHome
  <1> QED BY <1>1, <1>2, <1>3, <1>4, <1>5
         DEF Next, EncodeThread, EyeThread

\* Input buffers in use have surfaces of their own.
LEMMA IndicesInUseNext ==
    ASSUME Inv, [Next]_vars
    PROVE  IndicesInUse'
  <1>0. TypeOK /\ CaptureOK /\ free \in Seq(Pool) /\ EncodeOK /\ NvencOK /\ DequeueOK /\ EyeOK
    BY InvTypes
  <1> USE DEF camVars, encoderVars, dqVars, eyeVars
  <1>1. CASE DrainInputDone
    <2> DEFINE idx == done[1]
               fd  == idxFd[idx]
    <2>1. /\ enc.pc = "top" /\ enc' = enc /\ idx \in Indices \ idxFree /\ fd \in Pool
          /\ idxFree' = idxFree \cup {idx}
          /\ \A j \in Indices : idxFd'[j] = IF j = idx THEN 0 ELSE idxFd[j]
          /\ \A g \in Pool : pending'[g] = IF g = fd THEN NoFrame ELSE pending[g]
      BY <1>1, Drained DEF At
    <2>2. \A j \in Indices \ idxFree' : j \in Indices \ idxFree /\ j # idx
      BY <2>1
    <2>3. \A j \in Indices \ idxFree : j # idx => idxFd[j] # fd /\ idxFd[j] \in Pool
      BY <2>1 DEF Inv, IndicesInUse
    <2> HIDE DEF idx, fd
    <2> QED BY <2>1, <2>2, <2>3 DEF Inv, IndicesInUse, At
  <1>2. CASE EncTake
    <2>1. UNCHANGED <<idxFree, idxFd, pending>>
      BY <1>2 DEF EncTake
    <2> QED BY <1>2, <2>1, Taking DEF Inv, IndicesInUse, At
  <1>3. CASE EncPostprocess
    BY <1>3, Filled DEF Inv, IndicesInUse, At
  <1>4. CASE EncPend
    <2>1. pending[enc.frame.fd] = NoFrame
      BY <1>4, Pended DEF Inv, EncoderPlaces, At
    <2>2. \A j \in Indices \ idxFree : idxFd[j] # enc.frame.fd
      BY <2>1 DEF Inv, IndicesInUse
    <2> QED BY <1>4, <2>2, Pended DEF Inv, IndicesInUse, At
  <1>5. CASE EncSubmit
    <2>1. \A j \in Indices \ idxFree : idxFd[j] # enc.frame.fd
      BY <1>5, Submitted DEF Inv, IndicesInUse, At
    <2>2. CASE SubmitFailed
      <3>1. At("submit") /\ UNCHANGED <<idxFree, idxFd>>
        BY <1>5, <2>2, Submitted, Failed DEF At, EncSubmit
      <3> QED BY <2>1, <2>2, <3>1, Failed DEF Inv, IndicesInUse, At
    <2>3. CASE ~SubmitFailed
      <3>1. PICK idx \in idxFree :
              /\ idx \in Indices /\ idxFree' = idxFree \ {idx}
              /\ \A j \in Indices : idxFd'[j] = IF j = idx THEN enc.frame.fd ELSE idxFd[j]
              /\ enc'.pc = "queue" /\ UNCHANGED pending
        BY <1>5, <2>3, Submitted
      <3>2. enc.frame.fd \in Pool /\ pending[enc.frame.fd] # NoFrame
        BY <1>5, Submitted DEF Inv, EncoderPlaces, At
      <3>3. \A j \in Indices \ idxFree' : j = idx \/ j \in Indices \ idxFree
        BY <3>1
      <3> QED BY <2>1, <3>1, <3>2, <3>3 DEF Inv, IndicesInUse, At
    <2> QED BY <2>2, <2>3
  <1>6. CASE EncQueue
    <2>1. CASE SubmitFailed
      <3>1. /\ enc.pc = "queue" /\ enc.idx \in Indices /\ idxFree' = idxFree \cup {enc.idx}
            /\ \A j \in Indices : idxFd'[j] = IF j = enc.idx THEN 0 ELSE idxFd[j]
        BY <1>6, <2>1, Queued, Failed DEF At
      <3>2. /\ enc'.pc = "top" /\ enc.frame.fd \in Pool
            /\ \A g \in Pool : pending'[g] = IF g = enc.frame.fd THEN NoFrame ELSE pending[g]
        BY <2>1, <3>1, Failed DEF At
      <3>3. enc.idx \in Indices \ idxFree /\ idxFd[enc.idx] = enc.frame.fd
        BY <3>1 DEF Inv, IndicesOnce, At
      <3>4. \A j \in Indices \ idxFree' : j \in Indices \ idxFree /\ j # enc.idx
        BY <3>1
      <3>5. \A j \in Indices \ idxFree' : idxFd[j] # enc.frame.fd
        BY <3>3, <3>4 DEF Inv, IndicesInUse
      <3> QED BY <3>1, <3>2, <3>4, <3>5 DEF Inv, IndicesInUse, At
    <2>2. CASE ~SubmitFailed
      BY <1>6, <2>2, Queued DEF Inv, IndicesInUse, At
    <2> QED BY <2>1, <2>2
  <1>7. CASE EncOfferEye \/ EncPushEye
    BY <1>7, Offered DEF Inv, IndicesInUse, At
  <1>8. CASE EyeTake \/ EyeDrop
    BY <1>8 DEF Inv, IndicesInUse, At, EyeTake, EyeDrop
  <1>9. CASE CapDequeue \/ CapDequeueEmpty \/ CapSubmit \/ NvencEncode \/ DequeueOne \/
             WarmupEnds \/ EyeProcess \/ UNCHANGED vars
    <2>1. UNCHANGED <<idxFree, idxFd, pending, enc>>
      BY <1>9 DEF CapDequeue, CapDequeueEmpty, CapSubmit, NvencEncode, DequeueOne,
                  WarmupEnds, EyeProcess, vars
    <2> QED BY <2>1 DEF Inv, IndicesInUse, At
  <1> QED BY <1>1, <1>2, <1>3, <1>4, <1>5, <1>6, <1>7, <1>8, <1>9
         DEF Next, EncodeThread, EyeThread

\* An input buffer in use is in one place.
LEMMA IndicesOnceNext ==
    ASSUME Inv, [Next]_vars
    PROVE  IndicesOnce'
  <1>0. TypeOK /\ CaptureOK /\ free \in Seq(Pool) /\ EncodeOK /\ NvencOK /\ DequeueOK /\ EyeOK
    BY InvTypes
  <1> USE DEF camVars, encoderVars, dqVars, eyeVars
  <1>1. CASE DrainInputDone
    <2> DEFINE idx == done[1]
    <2>1. /\ enc.pc = "top" /\ enc' = enc /\ idx \in Indices /\ idxFree' = idxFree \cup {idx}
          /\ done # <<>> /\ done' = Tail(done) /\ nvenc' = nvenc
      BY <1>1, Drained DEF At
    <2>2. /\ Len(done) \in Nat \ {0} /\ 1 \in 1 .. Len(done) /\ Len(done') = Len(done) - 1
          /\ \A i \in 1 .. Len(done) - 1 : done'[i] = done[i + 1]
      BY <1>0, <2>1, Popped DEF NvencOK
    <2>3. \A i \in 1 .. Len(done') : i + 1 \in 1 .. Len(done) /\ i + 1 # 1 /\ done'[i] = done[i + 1]
      BY <2>2
    <2>4. \A i, j \in 1 .. Len(done') : i + 1 = j + 1 => i = j
      BY <2>2
    <2>5. \A i \in 1 .. Len(done') : done'[i] \notin idxFree'
      BY <2>1, <2>2, <2>3 DEF Inv, IndicesOnce
    <2>6. \A i \in 1 .. Len(nvenc) : nvenc[i].idx \notin idxFree'
      BY <2>1, <2>2 DEF Inv, IndicesOnce
    <2>7. \A i, j \in 1 .. Len(done') : done'[i] = done'[j] => i = j
      BY <2>3, <2>4 DEF Inv, IndicesOnce
    <2>8. \A i \in 1 .. Len(nvenc), j \in 1 .. Len(done') : nvenc[i].idx # done'[j]
      BY <2>3 DEF Inv, IndicesOnce
    <2> QED BY <2>1, <2>5, <2>6, <2>7, <2>8 DEF Inv, IndicesOnce, At
  <1>2. CASE EncTake
    <2>1. UNCHANGED <<nvenc, done, idxFree>>
      BY <1>2 DEF EncTake
    <2> QED BY <1>2, <2>1, Taking DEF Inv, IndicesOnce, At
  <1>3. CASE EncPostprocess
    BY <1>3, Filled DEF Inv, IndicesOnce, At
  <1>4. CASE EncPend
    BY <1>4, Pended DEF Inv, IndicesOnce, At
  <1>5. CASE EncSubmit
    <2>1. CASE SubmitFailed
      <3>1. At("submit") /\ UNCHANGED <<idxFree, nvenc, done>>
        BY <1>5, <2>1, Submitted, Failed DEF At, EncSubmit
      <3> QED BY <2>1, <3>1, Failed DEF Inv, IndicesOnce, At
    <2>2. CASE ~SubmitFailed
      <3>1. PICK idx \in idxFree :
              /\ idx \in Indices /\ idxFree' = idxFree \ {idx}
              /\ \A j \in Indices : idxFd'[j] = IF j = idx THEN enc.frame.fd ELSE idxFd[j]
              /\ enc'.pc = "queue" /\ enc'.frame = enc.frame /\ enc'.idx = idx
        BY <1>5, <2>2, Submitted
      <3>2. UNCHANGED <<nvenc, done>>
        BY <1>5, Submitted
      <3>3. /\ \A i \in 1 .. Len(nvenc) : nvenc[i].idx \notin idxFree' /\ nvenc[i].idx # idx
            /\ \A i \in 1 .. Len(done) : done[i] \notin idxFree' /\ done[i] # idx
        BY <3>1 DEF Inv, IndicesOnce
      <3>4. idx \notin idxFree' /\ idxFd'[idx] = enc.frame.fd
        BY <3>1
      <3> QED BY <3>1, <3>2, <3>3, <3>4 DEF Inv, IndicesOnce, At
    <2> QED BY <2>1, <2>2
  <1>6. CASE EncQueue
    <2>0. enc.pc = "queue" /\ enc.idx \in Indices /\ done' = done
      BY <1>6, Queued
    <2>1. CASE SubmitFailed
      <3>1. idxFree' = idxFree \cup {enc.idx} /\ nvenc' = nvenc /\ enc'.pc = "top"
        BY <1>6, <2>0, <2>1, Queued, Failed DEF At
      <3> QED BY <2>0, <3>1 DEF Inv, IndicesOnce, At
    <2>2. CASE ~SubmitFailed
      <3> DEFINE n == Len(nvenc) + 1
      <3>1. /\ nvenc' = Append(nvenc, [idx |-> enc.idx, ts |-> enc.frame.ts]) /\ enc'.pc = "eye"
            /\ UNCHANGED <<idxFree, idxFd>> /\ enc.frame \in Frames
        BY <1>6, <2>2, Queued
      <3>2. /\ Len(nvenc) \in Nat /\ Len(nvenc') = n /\ nvenc'[n] = [idx |-> enc.idx, ts |-> enc.frame.ts]
            /\ \A i \in 1 .. Len(nvenc) : nvenc'[i] = nvenc[i]
        BY <1>0, <2>0, <3>1, Appended DEF NvencOK, Frames
      <3>3. nvenc'[n].idx = enc.idx /\ \A i \in 1 .. Len(nvenc') : i \in 1 .. Len(nvenc) \/ i = n
        BY <3>2
      <3> HIDE DEF n
      <3>4. \A i \in 1 .. Len(nvenc) : nvenc[i].idx # enc.idx
        BY <2>0 DEF Inv, IndicesOnce, At
      <3>5. \A i \in 1 .. Len(nvenc') : nvenc'[i].idx \notin idxFree'
        BY <2>0, <3>1, <3>2, <3>3 DEF Inv, IndicesOnce, At
      <3>6. \A i, j \in 1 .. Len(nvenc') : nvenc'[i].idx = nvenc'[j].idx => i = j
        BY <3>2, <3>3, <3>4 DEF Inv, IndicesOnce
      <3>7. \A i \in 1 .. Len(nvenc'), j \in 1 .. Len(done) : nvenc'[i].idx # done[j]
        BY <2>0, <3>2, <3>3 DEF Inv, IndicesOnce, At
      <3> QED BY <2>0, <3>1, <3>5, <3>6, <3>7 DEF Inv, IndicesOnce, At
    <2> QED BY <2>1, <2>2
  <1>7. CASE EncOfferEye \/ EncPushEye
    BY <1>7, Offered DEF Inv, IndicesOnce, At
  <1>8. CASE NvencEncode
    <2> DEFINE idx == nvenc[1].idx
               n   == Len(done) + 1
    <2>1. /\ nvenc # <<>> /\ nvenc' = Tail(nvenc) /\ done' = Append(done, idx) /\ idx \in Indices
      BY <1>8, Encoded
    <2>2. UNCHANGED <<idxFree, idxFd, enc>>
      BY <1>8 DEF NvencEncode
    <2>3. /\ Len(nvenc) \in Nat \ {0} /\ 1 \in 1 .. Len(nvenc) /\ Len(nvenc') = Len(nvenc) - 1
          /\ \A i \in 1 .. Len(nvenc) - 1 : nvenc'[i] = nvenc[i + 1]
      BY <1>0, <2>1, Popped DEF NvencOK
    <2>4. /\ \A i \in 1 .. Len(nvenc') : i + 1 \in 1 .. Len(nvenc) /\ i + 1 # 1 /\ nvenc'[i] = nvenc[i + 1]
          /\ \A i, j \in 1 .. Len(nvenc') : i + 1 = j + 1 => i = j
      BY <2>3
    <2>5. /\ Len(done) \in Nat /\ Len(done') = n /\ done'[n] = idx
          /\ \A i \in 1 .. Len(done) : done'[i] = done[i]
      BY <1>0, <2>1, Appended DEF NvencOK
    <2>6. \A i \in 1 .. Len(done') : i \in 1 .. Len(done) \/ i = n
      BY <2>5
    <2> HIDE DEF n
    <2>7. \A i \in 1 .. Len(nvenc') : nvenc'[i].idx \notin idxFree /\ nvenc'[i].idx # idx
      BY <2>3, <2>4 DEF Inv, IndicesOnce
    <2>8. \A i, j \in 1 .. Len(nvenc') : nvenc'[i].idx = nvenc'[j].idx => i = j
      BY <2>4 DEF Inv, IndicesOnce
    <2>9. idx \notin idxFree /\ \A i \in 1 .. Len(done) : done[i] # idx
      BY <2>3 DEF Inv, IndicesOnce
    <2>10. \A i \in 1 .. Len(done') : done'[i] \notin idxFree
      BY <2>5, <2>6, <2>9 DEF Inv, IndicesOnce
    <2>11. \A i, j \in 1 .. Len(done') : done'[i] = done'[j] => i = j
      BY <2>5, <2>6, <2>9 DEF Inv, IndicesOnce
    <2>12. \A i \in 1 .. Len(nvenc'), j \in 1 .. Len(done') : nvenc'[i].idx # done'[j]
      <3>1. \A i \in 1 .. Len(nvenc'), j \in 1 .. Len(done) : nvenc'[i].idx # done[j]
        BY <2>4 DEF Inv, IndicesOnce
      <3> HIDE DEF idx
      <3> QED BY <2>5, <2>6, <2>7, <3>1
    <2>13. At("queue") => /\ idx # enc.idx
                          /\ \A i \in 1 .. Len(nvenc') : nvenc'[i].idx # enc.idx
                          /\ \A i \in 1 .. Len(done') : done'[i] # enc.idx
      BY <2>3, <2>4, <2>5, <2>6 DEF Inv, IndicesOnce
    <2> HIDE DEF idx
    <2> QED BY <2>2, <2>7, <2>8, <2>10, <2>11, <2>12, <2>13 DEF Inv, IndicesOnce, At
  <1>9. CASE EyeTake \/ EyeDrop
    BY <1>9 DEF Inv, IndicesOnce, At, EyeTake, EyeDrop
  <1>10. CASE CapDequeue \/ CapDequeueEmpty \/ CapSubmit \/ DequeueOne \/ WarmupEnds \/
              EyeProcess \/ UNCHANGED vars
    <2>1. UNCHANGED <<nvenc, done, idxFree, idxFd, enc>>
      BY <1>10 DEF CapDequeue, CapDequeueEmpty, CapSubmit, DequeueOne, WarmupEnds,
                   EyeProcess, vars
    <2> QED BY <2>1 DEF Inv, IndicesOnce, At
  <1> QED BY <1>1, <1>2, <1>3, <1>4, <1>5, <1>6, <1>7, <1>8, <1>9, <1>10
         DEF Next, EncodeThread, EyeThread

-----------------------------------------------------------------------------
(* The pool: a surface is free once, or belongs to one frame.              *)

\* A queue without repetition, told by its elements.
LEMMA InjectiveSeq ==
    ASSUME NEW S, NEW s \in Seq(S)
    PROVE  IsInjective(s) <=> \A i, j \in 1 .. Len(s) : s[i] = s[j] => i = j
  BY LenProperties DEF IsInjective

\* Without its first element it holds the others.
LEMMA PoppedOnce ==
    ASSUME NEW S, NEW s \in Seq(S), s # <<>>, IsInjective(s)
    PROVE  /\ IsInjective(Tail(s)) /\ Contains(s, s[1])
           /\ \A x : Contains(Tail(s), x) <=> Contains(s, x) /\ x # s[1]
  <1>1. /\ Len(s) \in Nat \ {0} /\ 1 \in 1 .. Len(s) /\ Tail(s) \in Seq(S)
        /\ Len(Tail(s)) = Len(s) - 1 /\ \A i \in 1 .. Len(s) - 1 : Tail(s)[i] = s[i + 1]
    BY Popped
  <1>2. \A i, j \in 1 .. Len(s) : s[i] = s[j] => i = j
    BY InjectiveSeq
  <1> DEFINE t == Tail(s)
  <1>3. \A i \in 1 .. Len(t) : i + 1 \in 1 .. Len(s) /\ i + 1 # 1 /\ t[i] = s[i + 1]
    BY <1>1
  <1>4. \A i, j \in 1 .. Len(t) : i + 1 = j + 1 => i = j
    BY <1>1
  <1>5. \A i \in 1 .. Len(s) : i = 1 \/ (i - 1 \in 1 .. Len(t) /\ t[i - 1] = s[i])
    <2> TAKE i \in 1 .. Len(s)
    <2>1. i # 1 => i - 1 \in 1 .. Len(s) - 1 /\ (i - 1) + 1 = i
      BY <1>1
    <2> QED BY <1>1, <2>1
  <1>6. IsInjective(t)
    <2>1. \A i, j \in 1 .. Len(t) : t[i] = t[j] => i = j
      BY <1>2, <1>3, <1>4
    <2> QED BY <1>1, <2>1, InjectiveSeq
  <1> HIDE DEF t
  <1>7. \A x : Contains(t, x) <=> Contains(s, x) /\ x # s[1]
    BY <1>1, <1>2, <1>3, <1>5 DEF Contains
  <1>8. QED BY <1>1, <1>6, <1>7 DEF Contains, t

\* An element that was not there is added once.
LEMMA AppendedOnce ==
    ASSUME NEW S, NEW s \in Seq(S), NEW e \in S
    PROVE  /\ IsInjective(s) /\ ~Contains(s, e) => IsInjective(Append(s, e))
           /\ \A x : Contains(Append(s, e), x) <=> Contains(s, x) \/ x = e
  <1> DEFINE t == Append(s, e)
             n == Len(s) + 1
  <1>1. /\ t \in Seq(S) /\ Len(s) \in Nat /\ Len(t) = n /\ t[n] = e
        /\ \A i \in 1 .. Len(s) : t[i] = s[i]
    BY Appended
  <1>2. /\ \A i \in 1 .. Len(t) : i \in 1 .. Len(s) \/ i = n
        /\ \A i \in 1 .. Len(s) : i \in 1 .. Len(t)
        /\ n \in 1 .. Len(t)
    BY <1>1
  <1> HIDE DEF t, n
  <1>3. \A x : Contains(t, x) <=> Contains(s, x) \/ x = e
    BY <1>1, <1>2 DEF Contains
  <1>4. ASSUME IsInjective(s), ~Contains(s, e) PROVE IsInjective(t)
    <2>1. \A i, j \in 1 .. Len(s) : s[i] = s[j] => i = j
      BY <1>4, InjectiveSeq
    <2>2. \A i \in 1 .. Len(s) : s[i] # e
      BY <1>4 DEF Contains
    <2>3. \A i, j \in 1 .. Len(t) : t[i] = t[j] => i = j
      BY <1>1, <1>2, <2>1, <2>2
    <2> QED BY <1>1, <2>3, InjectiveSeq
  <1>5. QED BY <1>3, <1>4 DEF t

\* What a step does to the free surfaces.
LEMMA FreeSteps ==
    ASSUME Inv
    PROVE  /\ Keeps => IsInjective(free') /\ \A x : Contains(free', x) <=> Contains(free, x)
           /\ Fills => /\ IsInjective(free') /\ free[1] \in Pool /\ Contains(free, free[1])
                       /\ \A x : Contains(free', x) <=> Contains(free, x) /\ x # free[1]
                       /\ AllHolders' = AllHolders \cup {[fd |-> free[1], ts |-> enc.ts]}
           /\ \A f \in AllHolders : Releases(f) =>
                /\ IsInjective(free') /\ f.fd \in Pool /\ ~Contains(free, f.fd)
                /\ \A x : Contains(free', x) <=> Contains(free, x) \/ x = f.fd
  <1>0. free \in Seq(Pool) /\ AllHolders \subseteq Frames /\ IsInjective(free)
    BY InvTypes, HoldersType DEF Inv, SurfacesAccounted
  <1>1. ASSUME free # <<>>
        PROVE  /\ Head(free) = free[1] /\ free[1] \in Pool /\ Tail(free) \in Seq(Pool)
               /\ IsInjective(Tail(free)) /\ Contains(free, free[1])
               /\ \A x : Contains(Tail(free), x) <=> Contains(free, x) /\ x # free[1]
    BY <1>0, <1>1, Popped, PoppedOnce
  <1>2. ASSUME Keeps PROVE IsInjective(free') /\ \A x : Contains(free', x) <=> Contains(free, x)
    <2>1. CASE free' = free
      BY <1>0, <2>1
    <2>2. CASE free # <<>> /\ free' = Append(Tail(free), Head(free))
      <3> DEFINE t == Tail(free)
      <3>1. /\ t \in Seq(Pool) /\ IsInjective(t) /\ free[1] \in Pool /\ Contains(free, free[1])
            /\ free' = Append(t, free[1])
            /\ \A x : Contains(t, x) <=> Contains(free, x) /\ x # free[1]
        BY <1>1, <2>2
      <3> HIDE DEF t
      <3>2. ~Contains(t, free[1])
        BY <3>1
      <3>3. IsInjective(free') /\ \A x : Contains(free', x) <=> Contains(t, x) \/ x = free[1]
        BY <3>1, <3>2, AppendedOnce
      <3> QED BY <3>1, <3>3
    <2> QED BY <1>2, <2>1, <2>2 DEF Keeps
  <1>3. ASSUME Fills
        PROVE  /\ IsInjective(free') /\ free[1] \in Pool /\ Contains(free, free[1])
               /\ \A x : Contains(free', x) <=> Contains(free, x) /\ x # free[1]
               /\ AllHolders' = AllHolders \cup {[fd |-> free[1], ts |-> enc.ts]}
    BY <1>1, <1>3 DEF Fills
  <1>4. ASSUME NEW f \in AllHolders, Releases(f)
        PROVE  /\ IsInjective(free') /\ f.fd \in Pool /\ ~Contains(free, f.fd)
               /\ \A x : Contains(free', x) <=> Contains(free, x) \/ x = f.fd
    <2>1. f.fd \in Pool
      BY <1>0 DEF Frames
    <2>2. ~Contains(free, f.fd)
      BY <2>1 DEF Inv, SurfacesAccounted
    <2> QED BY <1>0, <1>4, <2>1, <2>2, AppendedOnce DEF Releases
  <1>5. QED BY <1>2, <1>3, <1>4

\* No step loses a surface or hands one to two frames.
LEMMA SurfacesAccountedNext ==
    ASSUME Inv, [Next]_vars
    PROVE  SurfacesAccounted'
  <1>0. SurfacesAccounted
    BY DEF Inv
  <1>1. CASE Keeps
    <2>1. AllHolders' = AllHolders
      BY <1>1 DEF Keeps
    <2> QED BY <1>0, <1>1, <2>1, FreeSteps DEF SurfacesAccounted
  <1>2. CASE Fills
    <2> DEFINE g == [fd |-> free[1], ts |-> enc.ts]
    <2>1. /\ IsInjective(free') /\ free[1] \in Pool /\ Contains(free, free[1])
          /\ \A x : Contains(free', x) <=> Contains(free, x) /\ x # free[1]
          /\ AllHolders' = AllHolders \cup {g} /\ g.fd = free[1]
      BY <1>2, FreeSteps
    <2> HIDE DEF g
    <2>2. \A f \in AllHolders : f.fd # g.fd
      BY <1>0, <2>1 DEF SurfacesAccounted
    <2>3. \A fd \in Pool : Contains(free', fd) <=> ~\E f \in AllHolders' : f.fd = fd
      BY <1>0, <2>1, <2>2 DEF SurfacesAccounted
    <2>4. \A f, h \in AllHolders' : f.fd = h.fd => f = h
      BY <1>0, <2>1, <2>2 DEF SurfacesAccounted
    <2> QED BY <2>1, <2>3, <2>4 DEF SurfacesAccounted
  <1>3. ASSUME NEW g \in AllHolders, Releases(g) PROVE SurfacesAccounted'
    <2>1. /\ IsInjective(free') /\ g.fd \in Pool
          /\ \A x : Contains(free', x) <=> Contains(free, x) \/ x = g.fd
      BY <1>3, FreeSteps
    <2>2. AllHolders' = AllHolders \ {g}
      BY <1>3 DEF Releases
    <2>3. \A fd \in Pool : Contains(free', fd) <=> ~\E f \in AllHolders' : f.fd = fd
      BY <1>0, <2>1, <2>2 DEF SurfacesAccounted
    <2>4. \A f, h \in AllHolders' : f.fd = h.fd => f = h
      BY <1>0, <2>2 DEF SurfacesAccounted
    <2> QED BY <2>1, <2>3, <2>4 DEF SurfacesAccounted
  <1>4. QED BY <1>1, <1>2, <1>3, HolderSteps

-----------------------------------------------------------------------------
(* The order of captures.                                                  *)

\* What the encode thread has taken stays earlier than what is to come.
LEMMA EarlierKept ==
    ASSUME Inv, [Next]_vars, NEW x \in Nat, Earlier(x)
    PROVE  Earlier(x)'
  <1>0. TypeOK /\ CaptureOK /\ free \in Seq(Pool) /\ EncodeOK /\ NvencOK /\ DequeueOK /\ EyeOK
    BY InvTypes
  <1> USE DEF camVars, encoderVars, dqVars, eyeVars
  <1>1. CASE CapDequeue
    BY <1>1, <1>0 DEF CaptureOK, Earlier, CapDequeue, At
  <1>2. CASE CapSubmit
    <2>1. cap \in 1 .. MaxFrames /\ cap' = 0 /\ UNCHANGED <<count, enc>>
      BY <1>2, <1>0 DEF CaptureOK, CapSubmit
    <2>2. CASE decoded' = decoded
      BY <2>1, <2>2 DEF Earlier, At
    <2>3. CASE decoded' = Append(decoded, cap)
      <3>1. /\ Len(decoded) \in Nat /\ Len(decoded') = Len(decoded) + 1
            /\ decoded'[Len(decoded) + 1] = cap
            /\ \A i \in 1 .. Len(decoded) : decoded'[i] = decoded[i]
        BY <1>0, <2>1, <2>3, Appended DEF CaptureOK
      <3>2. \A i \in 1 .. Len(decoded') : i \in 1 .. Len(decoded) \/ i = Len(decoded) + 1
        BY <3>1
      <3>3. \A i \in 1 .. Len(decoded') : x < decoded'[i]
        BY <2>1, <3>1, <3>2 DEF Earlier
      <3> QED BY <2>1, <3>3 DEF Earlier, At
    <2> QED BY <1>2, <2>2, <2>3 DEF CapSubmit
  <1>3. CASE EncTake
    <2>1. CASE mode = "mjpeg"
      <3>1. /\ decoded # <<>> /\ enc'.ts = decoded[1] /\ decoded' = Tail(decoded)
            /\ UNCHANGED <<cap, count>>
        BY <1>3, <2>1, Taking
      <3>2. /\ Len(decoded) \in Nat \ {0} /\ 1 \in 1 .. Len(decoded) /\ Len(decoded') = Len(decoded) - 1
            /\ \A i \in 1 .. Len(decoded) - 1 : decoded'[i] = decoded[i + 1]
        BY <1>0, <3>1, Popped DEF CaptureOK
      <3>3. \A i \in 1 .. Len(decoded') : i + 1 \in 1 .. Len(decoded) /\ decoded'[i] = decoded[i + 1]
        BY <3>2
      <3>4. x < enc'.ts /\ \A i \in 1 .. Len(decoded') : x < decoded'[i]
        BY <3>1, <3>2, <3>3 DEF Earlier
      <3> QED BY <3>1, <3>4 DEF Earlier
    <2>2. CASE mode # "mjpeg"
      <3>1. /\ mode = "yuyv" /\ enc'.ts = count + 1 /\ count' = count + 1 /\ UNCHANGED <<cap, decoded>>
        BY <1>3, <2>2, Taking
      <3> QED BY <1>0, <3>1 DEF CaptureOK, Earlier
    <2> QED BY <2>1, <2>2
  <1>4. CASE EncPostprocess
    BY <1>4, Converting DEF Earlier, At
  <1>5. CASE EncPend \/ EncSubmit \/ EncQueue \/ EncOfferEye \/ EncPushEye
    BY <1>5, Submission DEF Earlier, At
  <1>6. CASE DrainInputDone
    BY <1>6, Drained DEF Earlier, At, DrainInputDone
  <1>7. CASE EyeTake \/ EyeDrop
    BY <1>7 DEF Earlier, At, EyeTake, EyeDrop
  <1>8. CASE CapDequeueEmpty \/ NvencEncode \/ DequeueOne \/ WarmupEnds \/ EyeProcess \/
             UNCHANGED vars
    <2>1. UNCHANGED <<cap, count, decoded, enc>>
      BY <1>8 DEF CapDequeueEmpty, NvencEncode, DequeueOne, WarmupEnds, EyeProcess, vars
    <2> QED BY <2>1 DEF Inv, Earlier, At
  <1> QED BY <1>1, <1>2, <1>3, <1>4, <1>5, <1>6, <1>7, <1>8
         DEF Next, EncodeThread, EyeThread

\* And earlier than the frame that is being submitted.
LEMMA SubmittingKept ==
    ASSUME Inv, [Next]_vars, NEW x \in Nat, Earlier(x), Submitting(x)
    PROVE  Submitting(x)'
  <1>0. TypeOK /\ CaptureOK /\ free \in Seq(Pool) /\ EncodeOK /\ NvencOK /\ DequeueOK /\ EyeOK
    BY InvTypes
  <1> USE DEF camVars, encoderVars, dqVars, eyeVars
  <1>1. CASE DrainInputDone
    BY <1>1, Drained DEF Submitting, At
  <1>2. CASE EncTake
    BY <1>2, Taking DEF Submitting, At
  <1>3. CASE EncPostprocess
    BY <1>3, Filled DEF Earlier, Submitting, At
  <1>4. CASE EncPend
    BY <1>4, Pended DEF Submitting, At
  <1>5. CASE EncSubmit
    <2>1. enc.pc = "submit" /\ (SubmitFailed \/ enc'.frame = enc.frame)
      BY <1>5, Submitted
    <2> QED BY <2>1, Failed DEF Submitting, At
  <1>6. CASE EncQueue
    <2>1. enc.pc = "queue" /\ (SubmitFailed \/ enc'.frame = enc.frame)
      BY <1>6, Queued
    <2> QED BY <2>1, Failed DEF Submitting, At
  <1>7. CASE EncOfferEye \/ EncPushEye
    BY <1>7, Offered DEF Submitting, At
  <1>8. CASE EyeTake \/ EyeDrop
    BY <1>8 DEF Submitting, At, EyeTake, EyeDrop
  <1>9. CASE CapDequeue \/ CapDequeueEmpty \/ CapSubmit \/ NvencEncode \/ DequeueOne \/
             WarmupEnds \/ EyeProcess \/ UNCHANGED vars
    <2>1. UNCHANGED <<enc>>
      BY <1>9 DEF CapDequeue, CapDequeueEmpty, CapSubmit, NvencEncode, DequeueOne,
                  WarmupEnds, EyeProcess, vars
    <2> QED BY <2>1 DEF Inv, Submitting, At
  <1> QED BY <1>1, <1>2, <1>3, <1>4, <1>5, <1>6, <1>7, <1>8, <1>9
         DEF Next, EncodeThread, EyeThread

\* The frames that are held are of different captures, all taken before the
\* ones that are to come.
LEMMA FramesEarlierNext ==
    ASSUME Inv, [Next]_vars
    PROVE  FramesEarlier'
  <1>0. CaptureOK /\ AllHolders \subseteq Frames
    BY InvTypes, HoldersType
  <1>1. \A f \in AllHolders : f.ts \in Nat /\ Earlier(f.ts)
    BY <1>0, Bounds DEF Frames, Inv, FramesEarlier
  <1>2. \A f \in AllHolders : Earlier(f.ts)'
    BY <1>1, EarlierKept
  <1>3. CASE AllHolders' \subseteq AllHolders
    BY <1>2, <1>3 DEF Inv, FramesEarlier
  <1>4. CASE Fills
    <2> DEFINE g == [fd |-> free[1], ts |-> enc.ts]
    <2>1. AllHolders' = AllHolders \cup {g} /\ g.ts = enc.ts /\ At("post")
      BY <1>4, FreeSteps DEF Fills
    <2> HIDE DEF g
    <2>2. \A x \in {enc.ts} : Earlier(x)'
      <3> TAKE x \in {enc.ts}
      <3>1. EncPostprocess
        BY <1>4 DEF Fills
      <3>2. UNCHANGED <<count, cap, decoded>> /\ enc'.pc # "post"
        BY <3>1, Converting
      <3>3. x <= count /\ (cap # 0 => x < cap) /\ \A i \in 1 .. Len(decoded) : x < decoded[i]
        BY <1>0, <2>1 DEF Inv, CapturesInOrder, CaptureOK
      <3> QED BY <3>2, <3>3 DEF Earlier, At
    <2>3. \A f \in AllHolders : f.ts < enc.ts
      BY <1>1, <2>1 DEF Earlier
    <2>4. \A f \in AllHolders' : Earlier(f.ts)'
      BY <1>2, <2>1, <2>2
    <2>5. \A f, h \in AllHolders' : f.ts = h.ts => f = h
      BY <1>1, <2>1, <2>3 DEF Inv, FramesEarlier
    <2> QED BY <2>4, <2>5 DEF FramesEarlier
  <1>5. QED BY <1>3, <1>4, HolderSteps DEF Keeps, Releases

\* The units after NVENC has encoded an input: the new ones come last.
LEMMA UnitsAfter ==
    ASSUME Inv, NvencEncode
    PROVE  /\ Len(aus) \in Nat /\ Len(aus') \in Nat /\ Len(aus) + 1 \in 1 .. Len(aus')
           /\ \A i \in 1 .. Len(aus) : i \in 1 .. Len(aus') /\ aus'[i] = aus[i]
           /\ aus'[Len(aus) + 1].ts = nvenc[1].ts /\ aus'[Len(aus) + 1].slice = 1
           /\ \A i \in 1 .. Len(aus') :
                \/ i \in 1 .. Len(aus) /\ aus'[i] = aus[i]
                \/ /\ i > Len(aus) /\ aus'[i].ts = nvenc[1].ts /\ aus'[i].slice = i - Len(aus)
                   /\ aus'[i].driver = nvenc[1].ts \/ (aus'[i].driver = 0 /\ aus'[i].slice > 1)
  <1> DEFINE m == Len(aus)
  <1>1. PICK n \in 1 .. Slices :
          /\ Len(aus') = m + n /\ \A i \in 1 .. m : aus'[i] = aus[i]
          /\ \A k \in 1 .. n :
               /\ aus'[m + k].ts = nvenc[1].ts /\ aus'[m + k].slice = k
               /\ aus'[m + k].driver = nvenc[1].ts \/ (aus'[m + k].driver = 0 /\ k > 1)
    BY Encoded
  <1>2. m \in Nat /\ n \in Nat \ {0}
    BY InvTypes, EmptyByLength, Bounds DEF NvencOK
  <1> HIDE DEF m
  <1>3. m + n \in Nat /\ m + 1 \in 1 .. m + n /\ 1 \in 1 .. n /\ \A i \in 1 .. m : i \in 1 .. m + n
    BY <1>2
  <1>4. ASSUME NEW i \in 1 .. m + n
        PROVE  i \in 1 .. m \/ (i > m /\ \E k \in 1 .. n : i = m + k /\ k = i - m)
    <2>1. ~(i \in 1 .. m) => i > m /\ i - m \in 1 .. n /\ i = m + (i - m)
      BY <1>2
    <2> QED BY <2>1
  <1>5. \A i \in 1 .. m + n :
          \/ i \in 1 .. m /\ aus'[i] = aus[i]
          \/ /\ i > m /\ aus'[i].ts = nvenc[1].ts /\ aus'[i].slice = i - m
             /\ aus'[i].driver = nvenc[1].ts \/ (aus'[i].driver = 0 /\ aus'[i].slice > 1)
    BY <1>1, <1>4
  <1> QED BY <1>1, <1>2, <1>3, <1>5 DEF m

\* The units after the oldest has been dequeued.
LEMMA UnitsLeft ==
    ASSUME Inv, aus # <<>>, aus' = Tail(aus)
    PROVE  /\ Len(aus) \in Nat /\ 1 \in 1 .. Len(aus) /\ Len(aus') = Len(aus) - 1
           /\ \A i \in 1 .. Len(aus') :
                /\ i \in Nat /\ i + 1 \in 1 .. Len(aus) /\ 1 < i + 1 /\ aus'[i] = aus[i + 1]
                /\ i \in 1 .. Len(aus) - 1
           /\ \A i \in 1 .. Len(aus) : i = 1 \/ (i - 1 \in 1 .. Len(aus') /\ aus'[i - 1] = aus[i])
  <1>1. /\ Len(aus) \in Nat \ {0} /\ 1 \in 1 .. Len(aus) /\ Len(aus') = Len(aus) - 1
        /\ \A i \in 1 .. Len(aus) - 1 : aus'[i] = aus[i + 1]
    BY InvTypes, Popped DEF NvencOK
  <1>2. \A i \in 1 .. Len(aus') :
           /\ i \in Nat /\ i + 1 \in 1 .. Len(aus) /\ 1 < i + 1 /\ i \in 1 .. Len(aus) - 1
    BY <1>1
  <1>3. \A i \in 1 .. Len(aus) : i = 1 \/ (i - 1 \in 1 .. Len(aus) - 1 /\ (i - 1) + 1 = i)
    BY <1>1
  <1> QED BY <1>1, <1>2, <1>3

(* The captures of frames that went to NVENC.                              *)
Handed(x) ==
    \/ x = last
    \/ \E i \in 1 .. Len(nvenc) : nvenc[i].ts = x
    \/ \E i \in 1 .. Len(aus) : aus[i].ts = x

\* NVENC is handed the frame that is queued, and no other.
LEMMA HandedNext ==
    ASSUME Inv, [Next]_vars, NEW x, Handed(x)'
    PROVE  Handed(x) \/ (EncQueue /\ enc'.pc = "eye" /\ x = enc.frame.ts)
  <1>0. TypeOK /\ CaptureOK /\ free \in Seq(Pool) /\ EncodeOK /\ NvencOK /\ DequeueOK /\ EyeOK
    BY InvTypes
  <1> USE DEF camVars, encoderVars, dqVars, eyeVars
  <1>1. CASE EncQueue
    <2>1. UNCHANGED <<aus, last>> /\ enc.idx \in Indices /\ enc.frame \in Frames
      BY <1>1, Queued DEF EncQueue
    <2>2. CASE SubmitFailed
      <3>1. nvenc' = nvenc
        BY <1>1, <2>2, Queued, Failed DEF At
      <3> QED BY <2>1, <3>1 DEF Handed
    <2>3. CASE ~SubmitFailed
      <3>1. nvenc' = Append(nvenc, [idx |-> enc.idx, ts |-> enc.frame.ts]) /\ enc'.pc = "eye"
        BY <1>1, <2>3, Queued
      <3>2. /\ Len(nvenc) \in Nat /\ Len(nvenc') = Len(nvenc) + 1
            /\ nvenc'[Len(nvenc) + 1] = [idx |-> enc.idx, ts |-> enc.frame.ts]
            /\ \A i \in 1 .. Len(nvenc) : nvenc'[i] = nvenc[i]
        BY <1>0, <2>1, <3>1, Appended DEF NvencOK, Frames
      <3>3. \A i \in 1 .. Len(nvenc') : i \in 1 .. Len(nvenc) \/ i = Len(nvenc) + 1
        BY <3>2
      <3> QED BY <1>1, <2>1, <3>1, <3>2, <3>3 DEF Handed
    <2> QED BY <2>2, <2>3
  <1>2. CASE NvencEncode
    <2>1. nvenc # <<>> /\ nvenc' = Tail(nvenc) /\ last' = last
      BY <1>2, Encoded DEF NvencEncode
    <2>2. /\ Len(nvenc) \in Nat \ {0} /\ 1 \in 1 .. Len(nvenc) /\ Len(nvenc') = Len(nvenc) - 1
          /\ \A i \in 1 .. Len(nvenc) - 1 : nvenc'[i] = nvenc[i + 1]
      BY <1>0, <2>1, Popped DEF NvencOK
    <2>3. \A i \in 1 .. Len(nvenc') : i + 1 \in 1 .. Len(nvenc) /\ nvenc'[i] = nvenc[i + 1]
      BY <2>2
    <2>4. \A i \in 1 .. Len(aus') :
            (i \in 1 .. Len(aus) /\ aus'[i] = aus[i]) \/ aus'[i].ts = nvenc[1].ts
      BY <1>2, UnitsAfter
    <2> QED BY <2>1, <2>2, <2>3, <2>4 DEF Handed
  <1>3. CASE DequeueOne
    <2>1. aus # <<>> /\ aus' = Tail(aus) /\ last' = aus[1].ts /\ nvenc' = nvenc
      BY <1>3, Delivered DEF DequeueOne
    <2>2. /\ 1 \in 1 .. Len(aus)
          /\ \A i \in 1 .. Len(aus') : i + 1 \in 1 .. Len(aus) /\ aus'[i] = aus[i + 1]
      BY <2>1, UnitsLeft
    <2> QED BY <2>1, <2>2 DEF Handed
  <1>4. CASE CapDequeue \/ CapDequeueEmpty \/ CapSubmit \/ DrainInputDone \/ EncTake \/
             EncPostprocess \/ EncPend \/ EncSubmit \/ EncOfferEye \/ EncPushEye \/
             WarmupEnds \/ EyeTake \/ EyeProcess \/ EyeDrop \/ UNCHANGED vars
    <2>1. UNCHANGED <<nvenc, aus, last>>
      BY <1>4 DEF CapDequeue, CapDequeueEmpty, CapSubmit, DrainInputDone, EncTake,
                  EncPostprocess, EncPend, EncSubmit, EncOfferEye, EncPushEye, WarmupEnds,
                  EyeTake, EyeProcess, EyeDrop, vars
    <2> QED BY <2>1 DEF Handed
  <1> QED BY <1>1, <1>2, <1>3, <1>4
         DEF Next, EncodeThread, EyeThread

\* What went to NVENC precedes what is to be submitted.
LEMMA UnitsEarlierNext ==
    ASSUME Inv, [Next]_vars
    PROVE  UnitsEarlier'
  <1>1. \A x : Handed(x) => x \in Nat /\ Earlier(x) /\ Submitting(x)
    <2>1. last \in Nat
      BY InvTypes, Bounds DEF DequeueOK
    <2>2. \A i \in 1 .. Len(nvenc) : nvenc[i].ts \in Nat
      <3>1. \A i \in 1 .. Len(nvenc) : nvenc[i] \in [idx : Indices, ts : 1 .. MaxFrames]
        BY InvTypes, EmptyByLength DEF NvencOK
      <3> QED BY <3>1
    <2>3. \A i \in 1 .. Len(aus) : aus[i].ts \in Nat
      <3>1. \A i \in 1 .. Len(aus) : aus[i] \in Units
        BY InvTypes, EmptyByLength DEF NvencOK
      <3> QED BY <3>1 DEF Units
    <2> QED BY <2>1, <2>2, <2>3 DEF Handed, Inv, UnitsEarlier
  <1>2. ASSUME NEW x, Handed(x)' PROVE Earlier(x)' /\ Submitting(x)'
    <2>1. CASE Handed(x)
      BY <1>1, <2>1, EarlierKept, SubmittingKept
    <2>2. CASE EncQueue /\ enc'.pc = "eye" /\ x = enc.frame.ts
      <3>1. enc.frame \in Frames /\ enc.frame \in AllHolders
        BY <2>2, Queued, HoldersAre
      <3>2. x \in Nat /\ Earlier(x)
        BY <2>2, <3>1 DEF Frames, Inv, FramesEarlier
      <3>3. Earlier(x)'
        BY <3>2, EarlierKept
      <3> QED BY <2>2, <3>3 DEF Submitting, At
    <2> QED BY <1>2, <2>1, <2>2, HandedNext
  <1>3. (Earlier(last) /\ Submitting(last))'
    <2>1. \A x : x = last' => Earlier(x)' /\ Submitting(x)'
      BY <1>2 DEF Handed
    <2> QED BY <2>1 DEF Earlier, Submitting
  <1>4. (\A i \in 1 .. Len(nvenc) : Earlier(nvenc[i].ts) /\ Submitting(nvenc[i].ts))'
    <2>1. \A i \in 1 .. Len(nvenc') : \A x : x = nvenc'[i].ts => Earlier(x)' /\ Submitting(x)'
      BY <1>2 DEF Handed
    <2> QED BY <2>1 DEF Earlier, Submitting
  <1>5. (\A i \in 1 .. Len(aus) : Earlier(aus[i].ts) /\ Submitting(aus[i].ts))'
    <2>1. \A i \in 1 .. Len(aus') : \A x : x = aus'[i].ts => Earlier(x)' /\ Submitting(x)'
      BY <1>2 DEF Handed
    <2> QED BY <2>1 DEF Earlier, Submitting
  <1> QED BY <1>3, <1>4, <1>5 DEF UnitsEarlier

\* The inputs after one is queued, and after the oldest has been encoded.
LEMMA InputQueued ==
    ASSUME Inv, EncQueue
    PROVE  \/ SubmitFailed /\ nvenc' = nvenc /\ aus' = aus
           \/ /\ aus' = aus /\ Len(nvenc) + 1 \in 1 .. Len(nvenc') /\ enc'.pc = "eye"
              /\ \A i \in 1 .. Len(nvenc) : i \in 1 .. Len(nvenc') /\ nvenc'[i] = nvenc[i]
              /\ nvenc'[Len(nvenc) + 1].ts = enc.frame.ts
              /\ \A i \in 1 .. Len(nvenc') :
                   \/ i \in 1 .. Len(nvenc) /\ nvenc'[i] = nvenc[i]
                   \/ i > Len(nvenc) /\ i = Len(nvenc) + 1 /\ nvenc'[i].ts = enc.frame.ts
  <1>0. NvencOK
    BY InvTypes
  <1>1. enc.idx \in Indices /\ enc.frame \in Frames /\ aus' = aus
    BY Queued
  <1>2. CASE SubmitFailed
    <2>1. nvenc' = nvenc
      BY <1>2, Queued, Failed DEF At
    <2> QED BY <1>1, <1>2, <2>1
  <1>3. CASE ~SubmitFailed
    <2>1. nvenc' = Append(nvenc, [idx |-> enc.idx, ts |-> enc.frame.ts]) /\ enc'.pc = "eye"
      BY <1>3, Queued
    <2>2. /\ Len(nvenc) \in Nat /\ Len(nvenc') = Len(nvenc) + 1
          /\ nvenc'[Len(nvenc) + 1] = [idx |-> enc.idx, ts |-> enc.frame.ts]
          /\ \A i \in 1 .. Len(nvenc) : nvenc'[i] = nvenc[i]
      BY <1>0, <1>1, <2>1, Appended DEF NvencOK, Frames
    <2>3. /\ \A i \in 1 .. Len(nvenc') :
               i \in 1 .. Len(nvenc) \/ (i > Len(nvenc) /\ i = Len(nvenc) + 1)
          /\ \A i \in 1 .. Len(nvenc) : i \in 1 .. Len(nvenc')
          /\ Len(nvenc) + 1 \in 1 .. Len(nvenc')
      BY <2>2
    <2> QED BY <1>1, <2>1, <2>2, <2>3
  <1> QED BY <1>2, <1>3

\* The inputs after the oldest has been encoded.
LEMMA InputsLeft ==
    ASSUME Inv, NvencEncode
    PROVE  /\ 1 \in 1 .. Len(nvenc)
           /\ \A i \in 1 .. Len(nvenc') :
                i \in Nat /\ i + 1 \in 1 .. Len(nvenc) /\ 1 < i + 1 /\ nvenc'[i] = nvenc[i + 1]
           /\ \A i \in 1 .. Len(nvenc) :
                i = 1 \/ (i - 1 \in 1 .. Len(nvenc') /\ nvenc'[i - 1] = nvenc[i])
  <1>1. nvenc # <<>> /\ nvenc' = Tail(nvenc)
    BY Encoded
  <1>2. /\ Len(nvenc) \in Nat \ {0} /\ 1 \in 1 .. Len(nvenc) /\ Len(nvenc') = Len(nvenc) - 1
        /\ \A i \in 1 .. Len(nvenc) - 1 : nvenc'[i] = nvenc[i + 1]
    BY <1>1, InvTypes, Popped DEF NvencOK
  <1>3. \A i \in 1 .. Len(nvenc') :
           i \in Nat /\ i + 1 \in 1 .. Len(nvenc) /\ 1 < i + 1 /\ i \in 1 .. Len(nvenc) - 1
    BY <1>2
  <1>4. \A i \in 1 .. Len(nvenc) : i = 1 \/ (i - 1 \in 1 .. Len(nvenc) - 1 /\ (i - 1) + 1 = i)
    BY <1>2
  <1> QED BY <1>2, <1>3, <1>4

\* The captures of inputs and units are numbers.
LEMMA UnitTypes ==
    Inv => /\ Len(nvenc) \in Nat /\ Len(aus) \in Nat /\ last \in Nat
           /\ \A i \in 1 .. Len(nvenc) : nvenc[i].ts \in 1 .. MaxFrames /\ nvenc[i].ts \in Nat
           /\ \A i \in 1 .. Len(aus) : /\ aus[i].ts \in 1 .. MaxFrames /\ aus[i].ts \in Nat
                                       /\ aus[i].slice \in Nat
  <1> SUFFICES ASSUME Inv
               PROVE  /\ Len(nvenc) \in Nat /\ Len(aus) \in Nat /\ last \in Nat
                      /\ \A i \in 1 .. Len(nvenc) : nvenc[i].ts \in 1 .. MaxFrames /\ nvenc[i].ts \in Nat
                      /\ \A i \in 1 .. Len(aus) : /\ aus[i].ts \in 1 .. MaxFrames /\ aus[i].ts \in Nat
                                                  /\ aus[i].slice \in Nat
    OBVIOUS
  <1>1. /\ Len(nvenc) \in Nat
        /\ \A i \in 1 .. Len(nvenc) : nvenc[i] \in [idx : Indices, ts : 1 .. MaxFrames]
    BY InvTypes, EmptyByLength DEF NvencOK
  <1>2. Len(aus) \in Nat /\ \A i \in 1 .. Len(aus) : aus[i] \in Units
    BY InvTypes, EmptyByLength DEF NvencOK
  <1>3. \A i \in 1 .. Len(nvenc) : nvenc[i].ts \in 1 .. MaxFrames
    BY <1>1
  <1>4. \A i \in 1 .. Len(aus) : aus[i].ts \in 1 .. MaxFrames /\ aus[i].slice \in 1 .. Slices
    BY <1>2 DEF Units
  <1>5. last \in Nat
    BY InvTypes, Bounds DEF DequeueOK
  <1> QED BY <1>1, <1>2, <1>3, <1>4, <1>5, Bounds

\* NVENC encodes in the order of submission, and its units are dequeued in order.
LEMMA UnitsInOrderNext ==
    ASSUME Inv, [Next]_vars
    PROVE  UnitsInOrder'
  <1>0. TypeOK /\ CaptureOK /\ free \in Seq(Pool) /\ EncodeOK /\ NvencOK /\ DequeueOK /\ EyeOK
    BY InvTypes
  <1> USE DEF camVars, encoderVars, dqVars, eyeVars
  <1>1. CASE EncQueue
    <2>1. CASE nvenc' = nvenc /\ aus' = aus
      BY <2>1 DEF Inv, UnitsInOrder
    <2>2. CASE /\ aus' = aus
               /\ \A i \in 1 .. Len(nvenc') :
                    \/ i \in 1 .. Len(nvenc) /\ nvenc'[i] = nvenc[i]
                    \/ i > Len(nvenc) /\ i = Len(nvenc) + 1 /\ nvenc'[i].ts = enc.frame.ts
      <3>1. enc.pc = "queue"
        BY <1>1, Queued
      <3>2. /\ \A i \in 1 .. Len(nvenc) : nvenc[i].ts < enc.frame.ts
            /\ \A i \in 1 .. Len(aus) : aus[i].ts < enc.frame.ts
        BY <3>1 DEF Inv, UnitsEarlier, Submitting, At
      <3>3. \A i, j \in 1 .. Len(nvenc') : i < j => nvenc'[i].ts < nvenc'[j].ts
        <4> SUFFICES ASSUME NEW i \in 1 .. Len(nvenc'), NEW j \in 1 .. Len(nvenc'), i < j
                     PROVE  nvenc'[i].ts < nvenc'[j].ts
          OBVIOUS
        <4>1. i \in 1 .. Len(nvenc) /\ nvenc'[i] = nvenc[i]
          <5>1. i = Len(nvenc) + 1 => ~(i < j)
            <6>1. Len(nvenc) \in Nat
              BY UnitTypes
            <6>2. j \in 1 .. Len(nvenc) \/ j = Len(nvenc) + 1
              BY <2>2
            <6> QED BY <6>1, <6>2
          <5> QED BY <2>2, <5>1
        <4>2. CASE j \in 1 .. Len(nvenc) /\ nvenc'[j] = nvenc[j]
          BY <4>1, <4>2 DEF Inv, UnitsInOrder
        <4>3. CASE nvenc'[j].ts = enc.frame.ts
          BY <3>2, <4>1, <4>3
        <4> QED BY <2>2, <4>2, <4>3
      <3>4. \A i \in 1 .. Len(aus), j \in 1 .. Len(nvenc') : aus[i].ts < nvenc'[j].ts
        BY <2>2, <3>2 DEF Inv, UnitsInOrder
      <3> QED BY <2>2, <3>3, <3>4 DEF Inv, UnitsInOrder
    <2> QED BY <1>1, <2>1, <2>2, InputQueued
  <1>2. CASE NvencEncode
    <2> DEFINE x == nvenc[1].ts
               m == Len(aus)
    <2>1. /\ 1 \in 1 .. Len(nvenc)
          /\ \A i \in 1 .. Len(nvenc') :
               i \in Nat /\ i + 1 \in 1 .. Len(nvenc) /\ 1 < i + 1 /\ nvenc'[i] = nvenc[i + 1]
      BY <1>2, InputsLeft
    <2>2. \A i \in 1 .. Len(aus') :
            \/ i \in 1 .. m /\ aus'[i] = aus[i]
            \/ /\ i > m /\ aus'[i].ts = x /\ aus'[i].slice = i - m
               /\ aus'[i].driver = x \/ (aus'[i].driver = 0 /\ aus'[i].slice > 1)
      BY <1>2, UnitsAfter
    <2>3. /\ x \in Nat /\ m \in Nat /\ Len(aus') \in Nat
          /\ \A i \in 1 .. m : aus[i].ts < x /\ aus[i].ts \in Nat
          /\ \A i \in 1 .. Len(nvenc') : x < nvenc'[i].ts
      <3>1. \A i \in 1 .. Len(nvenc') : x < nvenc[i + 1].ts
        BY <2>1 DEF Inv, UnitsInOrder
      <3>2. \A i \in 1 .. m : aus[i].ts < x
        BY <2>1 DEF Inv, UnitsInOrder
      <3> QED BY <1>2, <2>1, <3>1, <3>2, UnitTypes, UnitsAfter
    <2>4. \A i, j \in 1 .. Len(nvenc') : i < j => nvenc'[i].ts < nvenc'[j].ts
      <3>1. \A i, j \in 1 .. Len(nvenc') : i < j => i + 1 < j + 1
        BY <2>1
      <3> QED BY <2>1, <3>1 DEF Inv, UnitsInOrder
    <2>5. \A i \in 1 .. Len(aus'), j \in 1 .. Len(nvenc') : aus'[i].ts < nvenc'[j].ts
      <3>1. \A i \in 1 .. m, j \in 1 .. Len(nvenc') : aus[i].ts < nvenc'[j].ts
        BY <2>1 DEF Inv, UnitsInOrder
      <3> QED BY <2>2, <2>3, <3>1
    <2>6. ASSUME NEW i \in 1 .. Len(aus'), NEW j \in 1 .. Len(aus'), i < j
          PROVE  aus'[i].ts <= aus'[j].ts /\ (aus'[j].slice = 1 => aus'[i].ts < aus'[j].ts)
      <3>1. CASE j \in 1 .. m /\ aus'[j] = aus[j]
        <4>1. i \in 1 .. m
          BY <2>3, <2>6, <3>1
        <4>2. aus'[i] = aus[i]
          BY <2>2, <2>3, <4>1
        <4> QED BY <2>6, <3>1, <4>1, <4>2 DEF Inv, UnitsInOrder
      <3>2. CASE i \in 1 .. m /\ aus'[i] = aus[i] /\ aus'[j].ts = x
        BY <2>3, <3>2
      <3>3. CASE i > m /\ j > m /\ aus'[i].ts = x /\ aus'[j].ts = x /\ aus'[j].slice = j - m
        <4>1. aus'[j].slice # 1
          BY <2>3, <2>6, <3>3
        <4> QED BY <2>3, <3>3, <4>1
      <3> QED BY <2>2, <3>1, <3>2, <3>3
    <2>7. ASSUME NEW i \in 1 .. Len(aus') - 1, aus'[i + 1].slice > 1
          PROVE  aus'[i].ts = aus'[i + 1].ts /\ aus'[i].slice = aus'[i + 1].slice - 1
      <3>1. i \in 1 .. Len(aus') /\ i + 1 \in 1 .. Len(aus') /\ i \in Nat
        BY <2>3
      <3>2. CASE i + 1 \in 1 .. m /\ aus'[i + 1] = aus[i + 1]
        <4>1. i \in 1 .. m /\ i \in 1 .. m - 1 /\ ~(i > m)
          BY <2>3, <3>1, <3>2
        <4>2. aus'[i] = aus[i]
          BY <2>2, <3>1, <4>1
        <4>3. aus[i].ts = aus[i + 1].ts /\ aus[i].slice = aus[i + 1].slice - 1
          BY <2>7, <3>2, <4>1 DEF Inv, UnitsInOrder
        <4> QED BY <3>2, <4>2, <4>3
      <3>3. CASE i + 1 > m /\ aus'[i + 1].ts = x /\ aus'[i + 1].slice = (i + 1) - m
        <4>1. i > m /\ ~(i \in 1 .. m) /\ i - m = ((i + 1) - m) - 1
          BY <2>3, <2>7, <3>1, <3>3
        <4>2. aus'[i].ts = x /\ aus'[i].slice = i - m
          BY <2>2, <3>1, <4>1
        <4> QED BY <3>3, <4>1, <4>2
      <3> QED BY <2>2, <3>1, <3>2, <3>3
    <2>8. \A i \in 1 .. Len(aus') :
            aus'[i].driver = aus'[i].ts \/ (aus'[i].driver = 0 /\ aus'[i].slice > 1)
      BY <2>2 DEF Inv, UnitsInOrder
    <2> HIDE DEF x, m
    <2> QED BY <2>4, <2>5, <2>6, <2>7, <2>8 DEF UnitsInOrder
  <1>3. CASE DequeueOne
    <2>1. nvenc' = nvenc /\ aus # <<>> /\ aus' = Tail(aus)
      BY <1>3, Delivered DEF DequeueOne
    <2>2. /\ Len(aus) \in Nat /\ Len(aus') = Len(aus) - 1
          /\ \A i \in 1 .. Len(aus') :
               i \in Nat /\ i + 1 \in 1 .. Len(aus) /\ aus'[i] = aus[i + 1]
      BY <2>1, UnitsLeft
    <2>3. \A i \in 1 .. Len(aus'), j \in 1 .. Len(nvenc') : aus'[i].ts < nvenc'[j].ts
      BY <2>1, <2>2 DEF Inv, UnitsInOrder
    <2>4. ASSUME NEW i \in 1 .. Len(aus'), NEW j \in 1 .. Len(aus'), i < j
          PROVE  aus'[i].ts <= aus'[j].ts /\ (aus'[j].slice = 1 => aus'[i].ts < aus'[j].ts)
      <3>1. /\ i + 1 \in 1 .. Len(aus) /\ j + 1 \in 1 .. Len(aus) /\ i + 1 < j + 1
            /\ aus'[i] = aus[i + 1] /\ aus'[j] = aus[j + 1]
        BY <2>2, <2>4
      <3>2. \A k, l \in 1 .. Len(aus) : k < l =>
              aus[k].ts <= aus[l].ts /\ (aus[l].slice = 1 => aus[k].ts < aus[l].ts)
        BY DEF Inv, UnitsInOrder
      <3> QED BY <3>1, <3>2
    <2>5. \A i \in 1 .. Len(aus') - 1 : aus'[i + 1].slice > 1 =>
            aus'[i].ts = aus'[i + 1].ts /\ aus'[i].slice = aus'[i + 1].slice - 1
      <3>1. \A i \in 1 .. Len(aus') - 1 :
              i \in 1 .. Len(aus') /\ i + 1 \in 1 .. Len(aus') /\ i + 1 \in 1 .. Len(aus) - 1
        BY <2>2
      <3>2. \A i \in 1 .. Len(aus') - 1 : aus'[i] = aus[i + 1] /\ aus'[i + 1] = aus[(i + 1) + 1]
        BY <2>2, <3>1
      <3>3. \A i \in 1 .. Len(aus') - 1 : aus[(i + 1) + 1].slice > 1 =>
              aus[i + 1].ts = aus[(i + 1) + 1].ts /\ aus[i + 1].slice = aus[(i + 1) + 1].slice - 1
        BY <3>1 DEF Inv, UnitsInOrder
      <3> QED BY <3>2, <3>3
    <2>6. \A i \in 1 .. Len(aus') :
            aus'[i].driver = aus'[i].ts \/ (aus'[i].driver = 0 /\ aus'[i].slice > 1)
      BY <2>2 DEF Inv, UnitsInOrder
    <2> QED BY <2>1, <2>3, <2>4, <2>5, <2>6 DEF Inv, UnitsInOrder
  <1>4. CASE CapDequeue \/ CapDequeueEmpty \/ CapSubmit \/ DrainInputDone \/ EncTake \/
             EncPostprocess \/ EncPend \/ EncSubmit \/ EncOfferEye \/ EncPushEye \/
             WarmupEnds \/ EyeTake \/ EyeProcess \/ EyeDrop \/ UNCHANGED vars
    <2>1. UNCHANGED <<nvenc, aus>>
      BY <1>4 DEF CapDequeue, CapDequeueEmpty, CapSubmit, DrainInputDone, EncTake,
                  EncPostprocess, EncPend, EncSubmit, EncOfferEye, EncPushEye, WarmupEnds,
                  EyeTake, EyeProcess, EyeDrop, vars
    <2> QED BY <2>1 DEF Inv, UnitsInOrder
  <1> QED BY <1>1, <1>2, <1>3, <1>4
         DEF Next, EncodeThread, EyeThread

\* The dequeue thread knows how many units of its frame are to come.
LEMMA SlicesCountedNext ==
    ASSUME Inv, [Next]_vars
    PROVE  SlicesCounted'
  <1>0. TypeOK /\ CaptureOK /\ free \in Seq(Pool) /\ EncodeOK /\ NvencOK /\ DequeueOK /\ EyeOK
    BY InvTypes
  <1> USE DEF camVars, encoderVars, dqVars, eyeVars
  <1>1. CASE EncQueue
    <2>1. enc.pc = "queue" /\ UNCHANGED <<aus, last, remain>>
      BY <1>1, Queued DEF EncQueue
    <2>2. last < enc.frame.ts
      BY <2>1 DEF Inv, UnitsEarlier, Submitting, At
    <2>3. \A i \in 1 .. Len(nvenc') : last < nvenc'[i].ts
      BY <1>1, <2>2, InputQueued DEF Inv, SlicesCounted
    <2> QED BY <2>1, <2>3 DEF Inv, SlicesCounted
  <1>2. CASE NvencEncode
    <2>1. UNCHANGED <<last, remain>>
      BY <1>2 DEF NvencEncode
    <2>2. last < nvenc[1].ts /\ nvenc[1].ts \in Nat /\ last \in Nat
      BY <1>2, InputsLeft, UnitTypes DEF Inv, SlicesCounted
    <2>3. \A i \in 1 .. Len(nvenc') : last < nvenc'[i].ts
      BY <1>2, InputsLeft DEF Inv, SlicesCounted
    <2>4. \A i \in 1 .. Len(aus') : last <= aus'[i].ts /\ (aus'[i].slice = 1 => last < aus'[i].ts)
      <3>1. \A i \in 1 .. Len(aus') :
              (i \in 1 .. Len(aus) /\ aus'[i] = aus[i]) \/ aus'[i].ts = nvenc[1].ts
        BY <1>2, UnitsAfter
      <3> QED BY <2>2, <3>1 DEF Inv, SlicesCounted
    <2>5. aus'[1].slice > 1 => aus # <<>> /\ aus'[1] = aus[1]
      <3>1. CASE aus = <<>>
        BY <1>2, <3>1, UnitsAfter
      <3>2. CASE aus # <<>>
        <4>1. 1 \in 1 .. Len(aus)
          BY <1>0, <3>2, Popped DEF NvencOK
        <4> QED BY <1>2, <3>2, <4>1, UnitsAfter
      <3> QED BY <3>1, <3>2
    <2> QED BY <2>1, <2>3, <2>4, <2>5 DEF Inv, SlicesCounted
  <1>3. CASE DequeueOne
    <2>1. /\ nvenc' = nvenc /\ aus # <<>> /\ aus' = Tail(aus) /\ aus[1] \in Units
          /\ last' = aus[1].ts /\ remain' = Slices - aus[1].slice
      BY <1>3, Delivered DEF DequeueOne
    <2>2. aus[1].ts \in Nat \ {0} /\ aus[1].slice \in Nat
      BY <2>1, Bounds DEF Units
    <2>3. /\ 1 \in 1 .. Len(aus) /\ Len(aus) \in Nat /\ Len(aus') = Len(aus) - 1
          /\ \A i \in 1 .. Len(aus') : i + 1 \in 1 .. Len(aus) /\ 1 < i + 1 /\ aus'[i] = aus[i + 1]
      BY <2>1, UnitsLeft
    <2>4. \A i \in 1 .. Len(nvenc') : last' < nvenc'[i].ts
      BY <2>1, <2>3 DEF Inv, UnitsInOrder
    <2>5. \A i \in 1 .. Len(aus') : last' <= aus'[i].ts /\ (aus'[i].slice = 1 => last' < aus'[i].ts)
      BY <2>1, <2>3 DEF Inv, UnitsInOrder
    <2>6. ASSUME aus' # <<>>, aus'[1].slice > 1
          PROVE  last' = aus'[1].ts /\ remain' = Slices - aus'[1].slice + 1
      <3>1. 1 \in 1 .. Len(aus')
        BY <1>0, <2>1, <2>6, Popped DEF NvencOK
      <3>2. 1 \in 1 .. Len(aus) - 1 /\ 1 + 1 = 2
        BY <2>3, <3>1
      <3>3. aus'[1] = aus[1 + 1]
        BY <2>3, <3>1
      <3>4. aus[1].ts = aus[1 + 1].ts /\ aus[1].slice = aus[1 + 1].slice - 1
        BY <2>6, <3>2, <3>3 DEF Inv, UnitsInOrder
      <3>5. aus[1 + 1].slice \in Nat
        BY <2>3, <3>1, UnitTypes
      <3>6. Slices - aus[1].slice = Slices - aus[1 + 1].slice + 1
        BY <2>2, <3>4, <3>5, Bounds
      <3> QED BY <2>1, <3>3, <3>4, <3>6
    <2> QED BY <2>2, <2>1, <2>4, <2>5, <2>6 DEF SlicesCounted
  <1>4. CASE CapDequeue \/ CapDequeueEmpty \/ CapSubmit \/ DrainInputDone \/ EncTake \/
             EncPostprocess \/ EncPend \/ EncSubmit \/ EncOfferEye \/ EncPushEye \/
             WarmupEnds \/ EyeTake \/ EyeProcess \/ EyeDrop \/ UNCHANGED vars
    <2>1. UNCHANGED <<nvenc, aus, last, remain>>
      BY <1>4 DEF CapDequeue, CapDequeueEmpty, CapSubmit, DrainInputDone, EncTake,
                  EncPostprocess, EncPend, EncSubmit, EncOfferEye, EncPushEye, WarmupEnds,
                  EyeTake, EyeProcess, EyeDrop, vars
    <2> QED BY <2>1 DEF Inv, SlicesCounted
  <1> QED BY <1>1, <1>2, <1>3, <1>4
         DEF Next, EncodeThread, EyeThread

-----------------------------------------------------------------------------
(* The queued timestamps.                                                  *)

(* A frame NVENC has, or whose first unit is still to be dequeued.         *)
AwaitedUnit(x) ==
    \/ \E i \in 1 .. Len(aus) : aus[i].ts = x /\ aus[i].slice = 1
    \/ \E i \in 1 .. Len(nvenc) : nvenc[i].ts = x

\* The timestamps in the queue are of the frames that are awaited.
LEMMA QueuedTypes ==
    Inv => /\ tsq \in Seq(1 .. MaxFrames) /\ Len(tsq) \in Nat
           /\ \A i \in 1 .. Len(tsq) : tsq[i] \in 1 .. MaxFrames /\ tsq[i] \in Nat /\ Awaited(tsq[i])
  <1> SUFFICES ASSUME Inv
               PROVE  /\ tsq \in Seq(1 .. MaxFrames) /\ Len(tsq) \in Nat
                      /\ \A i \in 1 .. Len(tsq) : /\ tsq[i] \in 1 .. MaxFrames /\ tsq[i] \in Nat
                                                  /\ Awaited(tsq[i])
    OBVIOUS
  <1>1. tsq \in Seq(1 .. MaxFrames)
    BY InvTypes DEF NvencOK
  <1>2. Len(tsq) \in Nat /\ \A i \in 1 .. Len(tsq) : tsq[i] \in 1 .. MaxFrames
    BY <1>1, EmptyByLength
  <1>3. \A i \in 1 .. Len(tsq) : Awaited(tsq[i])
    BY <1>2 DEF Inv, TimestampsQueued
  <1> QED BY <1>1, <1>2, <1>3, Bounds

\* A frame that is being submitted is later than the ones awaited before it.
LEMMA SubmitIsLater ==
    ASSUME Inv, At("submit") \/ At("queue"), NEW x, AwaitedUnit(x)
    PROVE  x < enc.frame.ts
  BY DEF AwaitedUnit, Inv, UnitsEarlier, Submitting

\* A step that changes neither the queue nor the awaited frames.
LEMMA SameAwaited ==
    ASSUME Inv, tsq' = tsq, \A x \in 1 .. MaxFrames : Awaited(x)' <=> Awaited(x)
    PROVE  TimestampsQueued'
  BY DEF Inv, TimestampsQueued

\* The queue holds one timestamp for each frame that is awaited, in order.
LEMMA TimestampsQueuedNext ==
    ASSUME Inv, [Next]_vars
    PROVE  TimestampsQueued'
  <1>0. TypeOK /\ CaptureOK /\ free \in Seq(Pool) /\ EncodeOK /\ NvencOK /\ DequeueOK /\ EyeOK
    BY InvTypes
  <1> USE DEF camVars, encoderVars, dqVars, eyeVars
  <1>1. CASE EncTake
    <2>1. UNCHANGED <<tsq, aus, nvenc>>
      BY <1>1 DEF EncTake
    <2> QED BY <1>1, <2>1, Taking, SameAwaited DEF Awaited, At
  <1>2. CASE EncPostprocess
    <2>1. UNCHANGED <<tsq, aus, nvenc>>
      BY <1>2 DEF EncPostprocess
    <2> QED BY <1>2, <2>1, Converting, SameAwaited DEF Awaited, At
  <1>3. CASE EncPend
    BY <1>3, Pended, SameAwaited DEF Awaited, At
  <1>4. CASE EncOfferEye \/ EncPushEye
    BY <1>4, Offered, SameAwaited DEF Awaited, At
  <1>5. CASE DrainInputDone
    BY <1>5, Drained, SameAwaited DEF Awaited, At
  <1>6. CASE EyeTake \/ EyeDrop
    BY <1>6, SameAwaited DEF EyeTake, EyeDrop, Awaited, At
  <1>7. CASE EncSubmit
    <2>0. enc.pc = "submit" /\ enc.frame \in Frames /\ UNCHANGED <<nvenc, aus>>
      BY <1>7, Submitted
    <2>1. CASE SubmitFailed
      <3>1. enc'.pc = "top"
        BY <2>0, <2>1, Failed DEF At
      <3>2. tsq' = tsq
        BY <1>7, <3>1, Submitted
      <3> QED BY <2>0, <3>1, <3>2, SameAwaited DEF Awaited, At
    <2>2. CASE ~SubmitFailed
      <3> DEFINE x == enc.frame.ts
                 n == Len(tsq) + 1
      <3>1. tsq' = Append(tsq, x) /\ enc'.pc = "queue" /\ enc'.frame = enc.frame
        BY <1>7, <2>2, Submitted
      <3>2. x \in 1 .. MaxFrames /\ x \in Nat
        BY <2>0, Bounds DEF Frames
      <3>3. /\ Len(tsq) \in Nat /\ Len(tsq') = n /\ tsq'[n] = x
            /\ \A i \in 1 .. Len(tsq) : tsq'[i] = tsq[i]
        BY <3>1, <3>2, QueuedTypes, Appended
      <3>4. /\ \A i \in 1 .. Len(tsq') : i \in 1 .. Len(tsq) \/ (i = n /\ i > Len(tsq))
            /\ \A i \in 1 .. Len(tsq) : i \in 1 .. Len(tsq')
            /\ n \in 1 .. Len(tsq')
        BY <3>3
      <3>5. \A i \in 1 .. Len(tsq) : tsq[i] < x
        <4>1. \A y : Awaited(y) => AwaitedUnit(y)
          BY <2>0 DEF Awaited, AwaitedUnit, At
        <4> QED BY <2>0, <4>1, QueuedTypes, SubmitIsLater DEF At
      <3>6. \A y : Awaited(y)' <=> Awaited(y) \/ y = x
        BY <2>0, <3>1 DEF Awaited, At
      <3> HIDE DEF n, x
      <3>7. ASSUME NEW i \in 1 .. Len(tsq'), NEW j \in 1 .. Len(tsq'), i < j PROVE tsq'[i] < tsq'[j]
        <4>1. i \in 1 .. Len(tsq) /\ tsq'[i] = tsq[i]
          <5>1. i = n => ~(i < j)
            BY <3>3, <3>4
          <5> QED BY <3>3, <3>4, <3>7, <5>1
        <4>2. CASE j \in 1 .. Len(tsq)
          BY <3>3, <3>7, <4>1, <4>2 DEF Inv, TimestampsQueued
        <4>3. CASE j = n
          BY <3>3, <3>5, <4>1, <4>3
        <4> QED BY <3>4, <4>2, <4>3
      <3>8. \A y \in 1 .. MaxFrames : (\E i \in 1 .. Len(tsq') : tsq'[i] = y) <=> Awaited(y)'
        <4>1. \A y : (\E i \in 1 .. Len(tsq') : tsq'[i] = y)
                     <=> (\E i \in 1 .. Len(tsq) : tsq[i] = y) \/ y = x
          BY <3>3, <3>4
        <4> QED BY <3>6, <4>1 DEF Inv, TimestampsQueued
      <3> QED BY <3>7, <3>8 DEF TimestampsQueued
    <2> QED BY <2>1, <2>2
  <1>8. CASE EncQueue
    <2>0. enc.pc = "queue" /\ enc.frame \in Frames /\ aus' = aus
      BY <1>8, Queued
    <2>1. CASE SubmitFailed
      <3> DEFINE x == enc.frame.ts
                 n == Len(tsq)
      <3>1. enc'.pc = "top" /\ nvenc' = nvenc /\ tsq' = IF tsq = <<>> THEN tsq ELSE Front(tsq)
        BY <1>8, <2>0, <2>1, Queued, Failed DEF At
      <3>2. x \in 1 .. MaxFrames /\ x \in Nat
        BY <2>0, Bounds DEF Frames
      <3>3. Awaited(x) /\ \A y : Awaited(y) => AwaitedUnit(y) \/ y = x
        BY <2>0 DEF Awaited, AwaitedUnit, At
      <3>4. \A y : AwaitedUnit(y) => y < x
        BY <2>0, SubmitIsLater DEF At
      <3>5. PICK k \in 1 .. n : tsq[k] = x
        BY <3>2, <3>3 DEF Inv, TimestampsQueued
      <3>6. tsq # <<>>
        <4>1. n \in Nat /\ (tsq = <<>> <=> n = 0)
          BY QueuedTypes, EmptyByLength
        <4> QED BY <3>5, <4>1
      <3>7. tsq' = Front(tsq) /\ n \in Nat \ {0} /\ Len(tsq') = n - 1
            /\ \A i \in 1 .. n - 1 : tsq'[i] = tsq[i]
        BY <3>1, <3>6, QueuedTypes, Fronted
      <3>8. /\ n \in 1 .. n /\ \A i \in 1 .. n : i \in 1 .. n - 1 \/ i = n
            /\ \A i \in 1 .. Len(tsq') : i \in 1 .. n - 1 /\ i \in 1 .. n /\ i < n
        BY <3>7
      <3>9. tsq[n] = x
        <4>1. tsq[n] \in Nat /\ (tsq[n] = x \/ tsq[n] < x)
          BY <3>3, <3>4, <3>8, QueuedTypes
        <4>2. k = n \/ k < n
          BY <3>7
        <4>3. k < n => tsq[k] < tsq[n]
          BY <3>8 DEF Inv, TimestampsQueued
        <4> QED BY <3>2, <3>5, <4>1, <4>2, <4>3
      <3>10. \A i \in 1 .. Len(tsq') : tsq'[i] = tsq[i] /\ tsq[i] # x
        <4>1. \A i \in 1 .. Len(tsq') : tsq[i] < tsq[n]
          BY <3>8 DEF Inv, TimestampsQueued
        <4> QED BY <3>2, <3>7, <3>8, <3>9, <4>1
      <3>11. \A y : Awaited(y)' <=> AwaitedUnit(y)
        BY <2>0, <3>1 DEF Awaited, AwaitedUnit, At
      <3>12. \A y \in 1 .. MaxFrames : Awaited(y)' <=> Awaited(y) /\ y # x
        <4>1. \A y \in 1 .. MaxFrames : AwaitedUnit(y) => y # x
          BY <3>2, <3>4
        <4>2. \A y : AwaitedUnit(y) => Awaited(y)
          BY DEF AwaitedUnit, Awaited
        <4> QED BY <3>3, <3>11, <4>1, <4>2
      <3>13. \A i, j \in 1 .. Len(tsq') : i < j => tsq'[i] < tsq'[j]
        BY <3>8, <3>10 DEF Inv, TimestampsQueued
      <3> HIDE DEF x
      <3>14. \A y : (\E i \in 1 .. Len(tsq') : tsq'[i] = y) <=> (\E i \in 1 .. n : tsq[i] = y) /\ y # x
        BY <3>7, <3>8, <3>9, <3>10
      <3>15. \A y \in 1 .. MaxFrames : (\E i \in 1 .. Len(tsq') : tsq'[i] = y) <=> Awaited(y)'
        BY <3>12, <3>14 DEF Inv, TimestampsQueued
      <3> QED BY <3>13, <3>15 DEF TimestampsQueued
    <2>2. CASE ~SubmitFailed
      <3>1. enc'.pc = "eye" /\ tsq' = tsq
        BY <1>8, <2>2, Queued
      <3>2. /\ \A i \in 1 .. Len(nvenc) : i \in 1 .. Len(nvenc') /\ nvenc'[i] = nvenc[i]
            /\ Len(nvenc) + 1 \in 1 .. Len(nvenc') /\ nvenc'[Len(nvenc) + 1].ts = enc.frame.ts
            /\ \A i \in 1 .. Len(nvenc') :
                 (i \in 1 .. Len(nvenc) /\ nvenc'[i] = nvenc[i]) \/ nvenc'[i].ts = enc.frame.ts
        BY <1>8, <2>2, InputQueued
      <3>3. \A x : Awaited(x)' <=> Awaited(x)
        BY <2>0, <3>1, <3>2 DEF Awaited, At
      <3> QED BY <3>1, <3>3, SameAwaited
    <2> QED BY <2>1, <2>2
  <1>9. CASE NvencEncode
    <2>1. UNCHANGED <<tsq, enc>>
      BY <1>9 DEF NvencEncode
    <2>2. ASSUME NEW x PROVE (\E i \in 1 .. Len(nvenc) : nvenc[i].ts = x)
                <=> x = nvenc[1].ts \/ (\E i \in 1 .. Len(nvenc') : nvenc'[i].ts = x)
      <3>1. ASSUME NEW i \in 1 .. Len(nvenc), nvenc[i].ts = x, x # nvenc[1].ts
            PROVE  \E k \in 1 .. Len(nvenc') : nvenc'[k].ts = x
        <4>1. i - 1 \in 1 .. Len(nvenc') /\ nvenc'[i - 1] = nvenc[i]
          BY <1>9, <3>1, InputsLeft
        <4> QED BY <3>1, <4>1
      <3>2. ASSUME NEW k \in 1 .. Len(nvenc'), nvenc'[k].ts = x
            PROVE  \E i \in 1 .. Len(nvenc) : nvenc[i].ts = x
        <4>1. k + 1 \in 1 .. Len(nvenc) /\ nvenc'[k] = nvenc[k + 1]
          BY <1>9, InputsLeft
        <4> QED BY <3>2, <4>1
      <3>3. 1 \in 1 .. Len(nvenc)
        BY <1>9, InputsLeft
      <3> QED BY <3>1, <3>2, <3>3
    <2>3. ASSUME NEW x PROVE (\E i \in 1 .. Len(aus') : aus'[i].ts = x /\ aus'[i].slice = 1)
                <=> x = nvenc[1].ts \/ (\E i \in 1 .. Len(aus) : aus[i].ts = x /\ aus[i].slice = 1)
      BY <1>9, UnitsAfter
    <2>4. \A x : Awaited(x)' <=> Awaited(x)
      BY <2>1, <2>2, <2>3 DEF Awaited, At
    <2> QED BY <2>1, <2>4, SameAwaited
  <1>10. CASE DequeueOne
    <2> DEFINE y == aus[1].ts
    <2>1. aus # <<>> /\ aus' = Tail(aus) /\ UNCHANGED <<nvenc, enc>> /\ aus[1] \in Units
      BY <1>10, Delivered DEF DequeueOne
    <2>2. /\ 1 \in 1 .. Len(aus)
          /\ \A i \in 1 .. Len(aus') : i + 1 \in 1 .. Len(aus) /\ 1 < i + 1 /\ aus'[i] = aus[i + 1]
          /\ \A i \in 1 .. Len(aus) : i = 1 \/ (i - 1 \in 1 .. Len(aus') /\ aus'[i - 1] = aus[i])
      BY <2>1, UnitsLeft
    <2>3. ASSUME NEW x
          PROVE  (\E i \in 1 .. Len(aus) : aus[i].ts = x /\ aus[i].slice = 1)
                 <=> \/ x = y /\ aus[1].slice = 1
                     \/ \E i \in 1 .. Len(aus') : aus'[i].ts = x /\ aus'[i].slice = 1
      <3>1. ASSUME NEW i \in 1 .. Len(aus), aus[i].ts = x, aus[i].slice = 1
            PROVE  \/ x = y /\ aus[1].slice = 1
                   \/ \E k \in 1 .. Len(aus') : aus'[k].ts = x /\ aus'[k].slice = 1
        <4>1. i = 1 \/ (i - 1 \in 1 .. Len(aus') /\ aus'[i - 1] = aus[i])
          BY <2>2
        <4> QED BY <3>1, <4>1
      <3>2. ASSUME NEW k \in 1 .. Len(aus'), aus'[k].ts = x, aus'[k].slice = 1
            PROVE  \E i \in 1 .. Len(aus) : aus[i].ts = x /\ aus[i].slice = 1
        <4>1. k + 1 \in 1 .. Len(aus) /\ aus'[k] = aus[k + 1]
          BY <2>2
        <4> QED BY <3>2, <4>1
      <3> QED BY <2>2, <3>1, <3>2
    <2>4. CASE aus[1].slice = 1
      <3>1. tsq # <<>> /\ tsq[1] = y
        BY <2>1, <2>4, FirstUnitTimestamp
      <3>2. tsq' = Tail(tsq)
        <4>1. ~(aus[1].slice > 1)
          BY <2>4
        <4> QED BY <1>10, <4>1, Delivered
      <3>3. /\ Len(tsq) \in Nat \ {0} /\ 1 \in 1 .. Len(tsq) /\ Len(tsq') = Len(tsq) - 1
            /\ \A i \in 1 .. Len(tsq) - 1 : tsq'[i] = tsq[i + 1]
        BY <3>1, <3>2, QueuedTypes, Popped
      <3>4. /\ \A i \in 1 .. Len(tsq') : i + 1 \in 1 .. Len(tsq) /\ 1 < i + 1 /\ tsq'[i] = tsq[i + 1]
            /\ \A i, j \in 1 .. Len(tsq') : i < j => i + 1 < j + 1
        BY <3>3
      <3>5. \A i \in 1 .. Len(tsq) : i = 1 \/ (i - 1 \in 1 .. Len(tsq') /\ tsq'[i - 1] = tsq[i])
        <4>1. \A i \in 1 .. Len(tsq) : i = 1 \/ (i - 1 \in 1 .. Len(tsq) - 1 /\ (i - 1) + 1 = i)
          BY <3>3
        <4> QED BY <3>3, <4>1
      <3>6. y \in Nat /\ \A i \in 1 .. Len(tsq') : tsq'[i] \in Nat /\ y < tsq'[i]
        <4>1. \A i \in 1 .. Len(tsq') : tsq[1] < tsq[i + 1] /\ tsq[i + 1] \in Nat
          BY <3>3, <3>4, QueuedTypes DEF Inv, TimestampsQueued
        <4> QED BY <3>1, <3>3, <3>4, <4>1, QueuedTypes
      <3>7. ASSUME NEW x \in 1 .. MaxFrames, Awaited(x)' PROVE x # y
        <4>1. ASSUME NEW i \in 1 .. Len(aus'), aus'[i].slice = 1 PROVE y < aus'[i].ts
          BY <2>2, <4>1 DEF Inv, UnitsInOrder
        <4>2. \A i \in 1 .. Len(nvenc) : y < nvenc[i].ts
          BY <2>2 DEF Inv, UnitsInOrder
        <4>3. At("queue") => y < enc.frame.ts
          BY <2>2 DEF Inv, UnitsEarlier, Submitting
        <4>4. \A z \in Nat : Awaited(z)' => y < z
          BY <2>1, <4>1, <4>2, <4>3 DEF Awaited, At
        <4> QED BY <3>6, <3>7, <4>4, Bounds
      <3>8. \A x \in 1 .. MaxFrames : Awaited(x)' <=> Awaited(x) /\ x # y
        <4>1. \A x : Awaited(x) <=> x = y \/ Awaited(x)'
          BY <2>1, <2>3, <2>4 DEF Awaited, At
        <4> QED BY <3>7, <4>1
      <3> HIDE DEF y
      <3>9. \A x : (\E i \in 1 .. Len(tsq') : tsq'[i] = x) <=> (\E i \in 1 .. Len(tsq) : tsq[i] = x) /\ x # y
        <4>1. \A i \in 1 .. Len(tsq') : tsq'[i] # y
          BY <3>6
        <4> QED BY <3>1, <3>3, <3>4, <3>5, <4>1
      <3>10. \A x \in 1 .. MaxFrames : (\E i \in 1 .. Len(tsq') : tsq'[i] = x) <=> Awaited(x)'
        BY <3>8, <3>9 DEF Inv, TimestampsQueued
      <3>11. \A i, j \in 1 .. Len(tsq') : i < j => tsq'[i] < tsq'[j]
        BY <3>4 DEF Inv, TimestampsQueued
      <3> QED BY <3>10, <3>11 DEF TimestampsQueued
    <2>5. CASE aus[1].slice # 1
      <3>1. tsq' = tsq
        BY <1>10, <2>5, Delivered
      <3>2. \A x : Awaited(x)' <=> Awaited(x)
        BY <2>1, <2>3, <2>5 DEF Awaited, At
      <3> QED BY <3>1, <3>2, SameAwaited
    <2> QED BY <2>4, <2>5
  <1>11. CASE CapDequeue \/ CapDequeueEmpty \/ CapSubmit \/ WarmupEnds \/ EyeProcess \/
              UNCHANGED vars
    <2>1. UNCHANGED <<tsq, aus, nvenc, enc>>
      BY <1>11 DEF CapDequeue, CapDequeueEmpty, CapSubmit, WarmupEnds, EyeProcess, vars
    <2> QED BY <2>1 DEF Inv, TimestampsQueued, Awaited, At
  <1> QED BY <1>1, <1>2, <1>3, <1>4, <1>5, <1>6, <1>7, <1>8, <1>9, <1>10, <1>11
         DEF Next, EncodeThread, EyeThread

\* A start time is erased with its frame.
LEMMA TimingAwaitedNext ==
    ASSUME Inv, [Next]_vars
    PROVE  TimingAwaited'
  <1>0. TypeOK /\ CaptureOK /\ free \in Seq(Pool) /\ EncodeOK /\ NvencOK /\ DequeueOK /\ EyeOK
    BY InvTypes
  <1> USE DEF camVars, encoderVars, dqVars, eyeVars
  <1>1. CASE EncTake
    <2>1. UNCHANGED <<timing, aus, nvenc>>
      BY <1>1 DEF EncTake
    <2> QED BY <1>1, <2>1, Taking DEF Inv, TimingAwaited, At
  <1>2. CASE EncPostprocess
    BY <1>2, Filled DEF Inv, TimingAwaited, At
  <1>3. CASE EncPend
    <2>1. timing' = timing \cup {[ts |-> enc.frame.ts, early |-> ~past]}
      BY <1>3 DEF EncPend
    <2> QED BY <1>3, <2>1, Pended DEF Inv, TimingAwaited, At
  <1>4. CASE EncOfferEye \/ EncPushEye
    BY <1>4, Offered DEF Inv, TimingAwaited, At
  <1>5. CASE DrainInputDone
    BY <1>5, Drained DEF Inv, TimingAwaited, At
  <1>6. CASE EyeTake \/ EyeDrop
    BY <1>6 DEF EyeTake, EyeDrop, Inv, TimingAwaited, At
  <1>7. CASE EncSubmit
    <2>0. enc.pc = "submit" /\ UNCHANGED <<nvenc, aus>>
      BY <1>7, Submitted
    <2>1. CASE SubmitFailed
      <3>1. timing' = {t \in timing : t.ts # enc.frame.ts}
        BY <2>0, <2>1, Failed DEF At
      <3> QED BY <2>0, <3>1 DEF Inv, TimingAwaited
    <2>2. CASE ~SubmitFailed
      BY <1>7, <2>0, <2>2, Submitted DEF Inv, TimingAwaited, At
    <2> QED BY <2>1, <2>2
  <1>8. CASE EncQueue
    <2>0. enc.pc = "queue" /\ aus' = aus
      BY <1>8, Queued
    <2>1. CASE SubmitFailed
      <3>1. timing' = {t \in timing : t.ts # enc.frame.ts} /\ nvenc' = nvenc
        BY <1>8, <2>0, <2>1, Failed, Queued DEF At
      <3> QED BY <2>0, <3>1 DEF Inv, TimingAwaited
    <2>2. CASE ~SubmitFailed
      <3>1. timing' = timing
        BY <1>8, <2>2, Queued
      <3>2. /\ \A i \in 1 .. Len(nvenc) : i \in 1 .. Len(nvenc') /\ nvenc'[i] = nvenc[i]
            /\ Len(nvenc) + 1 \in 1 .. Len(nvenc') /\ nvenc'[Len(nvenc) + 1].ts = enc.frame.ts
        BY <1>8, <2>2, InputQueued
      <3> QED BY <2>0, <3>1, <3>2 DEF Inv, TimingAwaited
    <2> QED BY <2>1, <2>2
  <1>9. CASE NvencEncode
    <2>1. UNCHANGED <<timing, enc>>
      BY <1>9 DEF NvencEncode
    <2>2. \A x : (\E i \in 1 .. Len(nvenc) : nvenc[i].ts = x)
                => x = nvenc[1].ts \/ (\E i \in 1 .. Len(nvenc') : nvenc'[i].ts = x)
      BY <1>9, InputsLeft
    <2>3. \A x : x = nvenc[1].ts \/ (\E i \in 1 .. Len(aus) : aus[i].ts = x)
                => \E i \in 1 .. Len(aus') : aus'[i].ts = x
      BY <1>9, UnitsAfter
    <2> QED BY <2>1, <2>2, <2>3 DEF Inv, TimingAwaited, At
  <1>10. CASE DequeueOne
    <2>1. /\ aus # <<>> /\ aus' = Tail(aus) /\ UNCHANGED <<nvenc, enc>>
          /\ timing' = {t \in timing : t.ts # aus[1].ts}
      BY <1>10, Delivered DEF DequeueOne
    <2>2. \A x : x # aus[1].ts /\ (\E i \in 1 .. Len(aus) : aus[i].ts = x)
                => \E i \in 1 .. Len(aus') : aus'[i].ts = x
      <3> SUFFICES ASSUME NEW i \in 1 .. Len(aus), aus[i].ts # aus[1].ts
                   PROVE  \E k \in 1 .. Len(aus') : aus'[k].ts = aus[i].ts
        OBVIOUS
      <3>1. i = 1 \/ (i - 1 \in 1 .. Len(aus') /\ aus'[i - 1] = aus[i])
        BY <2>1, UnitsLeft
      <3> QED BY <3>1
    <2> QED BY <2>1, <2>2 DEF Inv, TimingAwaited, At
  <1>11. CASE CapDequeue \/ CapDequeueEmpty \/ CapSubmit \/ WarmupEnds \/ EyeProcess \/
              UNCHANGED vars
    <2>1. UNCHANGED <<timing, aus, nvenc, enc>>
      BY <1>11 DEF CapDequeue, CapDequeueEmpty, CapSubmit, WarmupEnds, EyeProcess, vars
    <2> QED BY <2>1 DEF Inv, TimingAwaited, At
  <1> QED BY <1>1, <1>2, <1>3, <1>4, <1>5, <1>6, <1>7, <1>8, <1>9, <1>10, <1>11
         DEF Next, EncodeThread, EyeThread

\* A unit is delivered with the timestamp of its frame.
LEMMA UnitHasItsTimestampNext ==
    ASSUME Inv, [Next]_vars
    PROVE  UnitHasItsTimestamp'
  <1>0. TypeOK /\ CaptureOK /\ free \in Seq(Pool) /\ EncodeOK /\ NvencOK /\ DequeueOK /\ EyeOK
    BY InvTypes
  <1> USE DEF camVars, encoderVars, dqVars, eyeVars
  <1>1. CASE DequeueOne
    <2>1. aus[1] \in Units /\ (out' = out \/ out' = [aus[1] EXCEPT !.given = aus[1].ts])
      BY <1>1, Delivered
    <2> QED BY <2>1 DEF Inv, UnitHasItsTimestamp, Units
  <1>2. CASE CapDequeue \/ CapDequeueEmpty \/ CapSubmit \/ DrainInputDone \/ EncTake \/
             EncPostprocess \/ EncPend \/ EncSubmit \/ EncQueue \/ EncOfferEye \/
             EncPushEye \/ NvencEncode \/ WarmupEnds \/ EyeTake \/ EyeProcess \/ EyeDrop \/
             UNCHANGED vars
    <2>1. UNCHANGED <<out>>
      BY <1>2 DEF CapDequeue, CapDequeueEmpty, CapSubmit, DrainInputDone, EncTake,
                  EncPostprocess, EncPend, EncSubmit, EncQueue, EncOfferEye, EncPushEye,
                  NvencEncode, WarmupEnds, EyeTake, EyeProcess, EyeDrop, vars
    <2> QED BY <2>1 DEF Inv, UnitHasItsTimestamp
  <1> QED BY <1>1, <1>2
         DEF Next, EncodeThread, EyeThread

-----------------------------------------------------------------------------
(* The invariant.                                                          *)

\* At the start every surface is free.
LEMMA SurfacesInit ==
    ASSUME Init
    PROVE  free \in Seq(Pool) /\ SurfacesAccounted /\ AllHolders = {}
  <1>1. free \in Seq(Pool) /\ Len(free) = PoolSize /\ \A i \in 1 .. Len(free) : free[i] = i
    <2>1. free \in [1 .. PoolSize -> Pool] /\ \A i \in 1 .. PoolSize : free[i] = i
      BY DEF Init, PoolInit, Pool
    <2>2. PoolSize \in Nat
      BY Bounds
    <2> QED BY <2>1, <2>2
  <1>2. AllHolders = {}
    BY HoldersAre DEF Init, Idle
  <1>3. IsInjective(free) /\ \A fd \in Pool : Contains(free, fd)
    BY <1>1, InjectiveSeq DEF Contains, Pool
  <1> QED BY <1>1, <1>2, <1>3 DEF SurfacesAccounted

\* The invariant holds at the start.
LEMMA InvInit == Init => Inv
  <1> SUFFICES ASSUME Init PROVE Inv
    OBVIOUS
  <1>1. /\ decoded = <<>> /\ nvenc = <<>> /\ done = <<>> /\ aus = <<>> /\ tsq = <<>> /\ eyeq = <<>>
        /\ enc.pc = "top" /\ enc.frame = NoFrame /\ enc.idx = 0 /\ enc.ts = 0
        /\ cap = 0 /\ last = 0 /\ remain = 0 /\ count = 0 /\ timing = {}
        /\ eye.frame = NoFrame /\ eye.busy = FALSE /\ inflight = FALSE /\ idxFree = Indices
    BY DEF Init, CameraInit, DecoderInit, EncoderInit, Idle
  <1>2. /\ Len(decoded) = 0 /\ Len(nvenc) = 0 /\ Len(done) = 0 /\ Len(aus) = 0 /\ Len(tsq) = 0
        /\ Len(eyeq) = 0
    BY <1>1
  <1>3. \A fd \in Pool : pending[fd] = NoFrame
    BY DEF Init
  <1>4. TypeOK
    <2>1. CaptureOK
      <3>1. mode \in {"mjpeg", "yuyv"}
        BY VideoFramesConstants DEF VideoFramesConstants, Init
      <3> QED BY <1>1, <3>1, Bounds, EmptySeq DEF CaptureOK, Init, CameraInit, DecoderInit
    <2>2. EncodeOK
      BY <1>1, IdleType DEF EncodeOK, Init
    <2>3. NvencOK
      BY <1>1, Bounds, EmptySeq DEF NvencOK, Init, EncoderInit
    <2>4. DequeueOK
      <3>1. out.ts = 0 /\ begun = {} /\ warm = TRUE /\ past = FALSE
        BY DEF Init, NoUnit
      <3>2. 0 \in 0 .. Slices - 1 /\ 0 \in 0 .. MaxFrames
        BY Bounds
      <3> QED BY <1>1, <3>1, <3>2 DEF DequeueOK
    <2>5. EyeOK
      BY <1>1, EmptySeq DEF EyeOK, Init
    <2> QED BY <2>1, <2>2, <2>3, <2>4, <2>5, SurfacesInit, TypeParts
  <1>5. BuffersBounded
    BY <1>1, <1>2, Bounds DEF BuffersBounded, Init, CameraInit, DecoderInit, At
  <1>6. EncoderPlaces /\ EyeInFlight /\ PendingAtHome
    BY <1>1, <1>2, <1>3 DEF EncoderPlaces, HasFrame, EyeInFlight, InflightMeansWork, PendingAtHome, At
  <1>7. IndicesInUse /\ IndicesOnce
    BY <1>1, <1>2 DEF IndicesInUse, IndicesOnce, At
  <1>8. CapturesInOrder /\ FramesEarlier
    BY <1>1, <1>2, SurfacesInit DEF CapturesInOrder, FramesEarlier, At
  <1>9. UnitsEarlier /\ UnitsInOrder /\ SlicesCounted
    BY <1>1, <1>2 DEF UnitsEarlier, UnitsInOrder, SlicesCounted, Earlier, Submitting, At
  <1>10. TimestampsQueued /\ TimingAwaited
    BY <1>1, <1>2 DEF TimestampsQueued, TimingAwaited, Awaited, At
  <1>11. UnitHasItsTimestamp
    BY DEF UnitHasItsTimestamp, Init, NoUnit
  <1> QED BY <1>4, <1>5, <1>6, <1>7, <1>8, <1>9, <1>10, <1>11, SurfacesInit DEF Inv

\* And after every step.
LEMMA InvNext == Inv /\ [Next]_vars => Inv'
  <1> SUFFICES ASSUME Inv, [Next]_vars PROVE Inv'
    OBVIOUS
  <1>1. TypeOK' /\ BuffersBounded' /\ EncoderPlaces' /\ EyeInFlight'
    BY TypeOKNext, BuffersBoundedNext, EncoderPlacesNext, EyeInFlightNext
  <1>2. PendingAtHome' /\ SurfacesAccounted' /\ IndicesInUse' /\ IndicesOnce'
    BY PendingAtHomeNext, SurfacesAccountedNext, IndicesInUseNext, IndicesOnceNext
  <1>3. CapturesInOrder' /\ FramesEarlier' /\ UnitsEarlier' /\ UnitsInOrder'
    BY CapturesInOrderNext, FramesEarlierNext, UnitsEarlierNext, UnitsInOrderNext
  <1>4. SlicesCounted' /\ TimestampsQueued' /\ TimingAwaited' /\ UnitHasItsTimestamp'
    BY SlicesCountedNext, TimestampsQueuedNext, TimingAwaitedNext, UnitHasItsTimestampNext
  <1> QED BY <1>1, <1>2, <1>3, <1>4 DEF Inv

\* The invariant holds in every run, whatever the threads, the camera and NVENC do.
THEOREM FramesInvariant == Spec => []Inv
  BY InvInit, InvNext, PTL DEF Spec

\* Surfaces, start times and the flag of the eye image thread are given back on
\* every path: no surface leaks or is released twice (releaseSurface, the
\* deleter of SharedNv12Frame), the timing map does not grow, and
\* eye_image_inflight_ is set only while a frame is on its way.
THEOREM FrameDataReturns == Spec => []FrameDataAccounted
  <1>1. Inv => FrameDataAccounted
    <2> SUFFICES ASSUME Inv PROVE FrameDataAccounted
      OBVIOUS
    <2>1. DOMAIN nvenc = 1 .. Len(nvenc) /\ DOMAIN aus = 1 .. Len(aus)
      BY InvTypes, LenProperties DEF NvencOK
    <2>2. TimingBounded
      BY <2>1 DEF Inv, TimingAwaited, TimingBounded
    <2> QED BY <2>2 DEF Inv, EyeInFlight, FrameDataAccounted
  <1>2. QED BY <1>1, FramesInvariant, PTL

\* dequeueOne gives every access unit the timestamp of its own frame, however
\* many slices NVENC makes of a frame and whichever of them it stamps.
THEOREM TimestampIsOfFrame == Spec => []UnitHasItsTimestamp
  <1>1. Inv => UnitHasItsTimestamp
    BY DEF Inv
  <1>2. QED BY <1>1, FramesInvariant, PTL

-----------------------------------------------------------------------------
(* The pool's promise.                                                     *)

(* NVENC and the eye image thread read a surface.                          *)
NvencReads(fd) == \E i \in 1 .. Len(nvenc) : idxFd[nvenc[i].idx] = fd
EyeReads(fd) == eye.busy /\ eye.frame.fd = fd

\* The frame that holds a surface is its owner.
LEMMA OwnersAre ==
    ASSUME TypeOK, SurfacesAccounted
    PROVE  /\ \A f \in AllHolders :
                f.fd \in Pool /\ f.ts \in 1 .. MaxFrames /\ ~Contains(free, f.fd) /\ Owners[f.fd] = f.ts
           /\ \A fd \in Pool : \/ Contains(free, fd) /\ Owners[fd] = 0
                               \/ \E f \in AllHolders : f.fd = fd
  <1>1. \A f \in AllHolders : f.fd \in Pool /\ f.ts \in 1 .. MaxFrames /\ ~Contains(free, f.fd)
    BY HoldersType DEF Frames, SurfacesAccounted
  <1>2. ASSUME NEW f \in AllHolders PROVE Owners[f.fd] = f.ts
    <2>1. (CHOOSE g \in AllHolders : g.fd = f.fd) = f
      BY DEF SurfacesAccounted
    <2> QED BY <1>1, <2>1 DEF Owners, OwnerOf
  <1>3. \A fd \in Pool : (Contains(free, fd) /\ Owners[fd] = 0) \/ \E f \in AllHolders : f.fd = fd
    BY DEF SurfacesAccounted, Owners, OwnerOf
  <1> QED BY <1>1, <1>2, <1>3

\* The same after a step.
LEMMA OwnersWillBe ==
    ASSUME TypeOK', SurfacesAccounted'
    PROVE  /\ \A f \in AllHolders' : Owners'[f.fd] = f.ts
           /\ \A fd \in Pool : \/ Contains(free', fd) /\ Owners'[fd] = 0
                               \/ \E f \in AllHolders' : f.fd = fd
  <1>1. AllHolders' \subseteq Frames
    <2> SUFFICES ASSUME NEW f \in AllHolders' PROVE f \in Frames
      OBVIOUS
    <2>1. /\ \A i \in DOMAIN eyeq' : eyeq'[i] \in Frames
          /\ \A fd \in Pool : pending'[fd] \in Frames \cup {NoFrame}
          /\ enc'.frame \in Frames \cup {NoFrame} /\ eye'.frame \in Frames \cup {NoFrame}
      <3>1. EncodeOK' /\ EyeOK'
        BY TypePartsPrime
      <3>2. \A i \in DOMAIN eyeq' : eyeq'[i] \in Frames
        BY <3>1 DEF EyeOK
      <3>3. \A fd \in Pool : pending'[fd] \in Frames \cup {NoFrame}
        BY <3>1 DEF EncodeOK
      <3>4. enc'.frame \in Frames \cup {NoFrame} /\ eye'.frame \in Frames \cup {NoFrame}
        BY <3>1 DEF EncodeOK, EyeOK
      <3> QED BY <3>2, <3>3, <3>4
    <2> QED BY <2>1, HoldersWillBe
  <1>2. \A f \in AllHolders' : f.fd \in Pool /\ ~Contains(free', f.fd)
    BY <1>1 DEF Frames, SurfacesAccounted
  <1>3. ASSUME NEW f \in AllHolders' PROVE Owners'[f.fd] = f.ts
    <2>1. (CHOOSE g \in AllHolders' : g.fd = f.fd) = f
      BY DEF SurfacesAccounted
    <2> QED BY <1>2, <2>1 DEF Owners, OwnerOf
  <1>4. \A fd \in Pool : (Contains(free', fd) /\ Owners'[fd] = 0) \/ \E f \in AllHolders' : f.fd = fd
    BY DEF SurfacesAccounted, Owners, OwnerOf
  <1> QED BY <1>3, <1>4

\* What keeps holders and free surfaces keeps the owners.
LEMMA KeepsOwners == Inv /\ Keeps => Owners' = Owners
  <1> SUFFICES ASSUME Inv, Keeps PROVE Owners' = Owners
    OBVIOUS
  <1>1. AllHolders' = AllHolders /\ \A x : Contains(free', x) <=> Contains(free, x)
    BY FreeSteps DEF Keeps
  <1> QED BY <1>1 DEF Owners, OwnerOf

\* Who reads a surface.
LEMMA ReadersAre ==
    ASSUME Inv
    PROVE  \A fd \in Pool : \A r : r \in Readings[fd] <=> \/ r = "nvenc" /\ NvencReads(fd)
                                                          \/ r = "eye" /\ EyeReads(fd)
  <1>1. DOMAIN nvenc = 1 .. Len(nvenc)
    BY InvTypes, LenProperties DEF NvencOK
  <1>2. \A fd \in Pool : Readings[fd] = ReadersOf(fd)
    BY DEF Readings
  <1>3. \A fd : \A r : r \in ReadersOf(fd) <=> \/ r = "nvenc" /\ NvencReads(fd)
                                               \/ r = "eye" /\ EyeReads(fd)
    BY <1>1 DEF ReadersOf, NvencReads, EyeReads
  <1> QED BY <1>2, <1>3

\* And after a step.
LEMMA ReadersWillBe ==
    ASSUME NvencOK'
    PROVE  \A fd \in Pool : \A r : r \in Readings'[fd] <=> \/ r = "nvenc" /\ NvencReads(fd)'
                                                           \/ r = "eye" /\ EyeReads(fd)'
  <1>1. DOMAIN nvenc' = 1 .. Len(nvenc')
    BY LenProperties DEF NvencOK
  <1>2. \A fd \in Pool : Readings'[fd] = ReadersOf(fd)'
    BY DEF Readings
  <1>3. \A fd : \A r : r \in ReadersOf(fd)' <=> \/ r = "nvenc" /\ NvencReads(fd)'
                                                \/ r = "eye" /\ EyeReads(fd)'
    BY <1>1 DEF ReadersOf, NvencReads, EyeReads
  <1> QED BY <1>2, <1>3

\* A surface that is read is held by a frame: the map keeps it for NVENC, the
\* eye image thread holds it itself.
LEMMA ReadIsHeld ==
    ASSUME Inv, NEW fd \in Pool, NvencReads(fd) \/ EyeReads(fd)
    PROVE  \E f \in AllHolders : f.fd = fd
  <1>1. CASE NvencReads(fd)
    <2>1. PICK i \in 1 .. Len(nvenc) : idxFd[nvenc[i].idx] = fd
      BY <1>1 DEF NvencReads
    <2>2. nvenc[i].idx \in Indices \ idxFree
      <3>1. nvenc[i] \in [idx : Indices, ts : 1 .. MaxFrames]
        BY InvTypes, EmptyByLength DEF NvencOK
      <3> QED BY <3>1 DEF Inv, IndicesOnce
    <2>3. pending[fd] # NoFrame /\ pending[fd].fd = fd
      BY <2>1, <2>2 DEF Inv, IndicesInUse, PendingAtHome
    <2> QED BY <2>3, HoldersAre
  <1>2. CASE EyeReads(fd)
    BY <1>2, HoldersAre DEF EyeReads, Inv, EyeInFlight
  <1> QED BY <1>1, <1>2

\* Reading begins and ends, told by who reads.
LEMMA ReadingsChange ==
    ASSUME Inv, NvencOK'
    PROVE  /\ (\A fd \in Pool : /\ NvencReads(fd)' <=> NvencReads(fd)
                                /\ EyeReads(fd)' <=> EyeReads(fd))
              => Readings' = Readings
           /\ \A s \in Pool :
                (\A fd \in Pool : /\ NvencReads(fd)' <=> NvencReads(fd) \/ fd = s
                                  /\ EyeReads(fd)' <=> EyeReads(fd))
                => Readings' = [Readings EXCEPT ![s] = @ \cup {"nvenc"}]
           /\ \A s \in Pool :
                (\A fd \in Pool : /\ NvencReads(fd)' <=> NvencReads(fd) /\ fd # s
                                  /\ EyeReads(fd)' <=> EyeReads(fd))
                => Readings' = [Readings EXCEPT ![s] = @ \ {"nvenc"}]
           /\ \A s \in Pool :
                (\A fd \in Pool : /\ NvencReads(fd)' <=> NvencReads(fd)
                                  /\ EyeReads(fd)' <=> EyeReads(fd) \/ fd = s)
                => Readings' = [Readings EXCEPT ![s] = @ \cup {"eye"}]
           /\ \A s \in Pool :
                (\A fd \in Pool : /\ NvencReads(fd)' <=> NvencReads(fd)
                                  /\ EyeReads(fd)' <=> EyeReads(fd) /\ fd # s)
                => Readings' = [Readings EXCEPT ![s] = @ \ {"eye"}]
  <1>1. /\ Readings = [fd \in Pool |-> Readings[fd]]
        /\ Readings' = [fd \in Pool |-> Readings'[fd]]
    BY DEF Readings
  <1>2. \A fd \in Pool : \A r : r \in Readings[fd] <=> \/ r = "nvenc" /\ NvencReads(fd)
                                                       \/ r = "eye" /\ EyeReads(fd)
    BY ReadersAre
  <1>3. \A fd \in Pool : \A r : r \in Readings'[fd] <=> \/ r = "nvenc" /\ NvencReads(fd)'
                                                        \/ r = "eye" /\ EyeReads(fd)'
    BY ReadersWillBe
  <1>4. ASSUME \A fd \in Pool : /\ NvencReads(fd)' <=> NvencReads(fd)
                                /\ EyeReads(fd)' <=> EyeReads(fd)
        PROVE  Readings' = Readings
    <2>1. \A fd \in Pool : Readings'[fd] = Readings[fd]
      <3> TAKE fd \in Pool
      <3>1. \A r : r \in Readings'[fd] <=> r \in Readings[fd]
        BY <1>2, <1>3, <1>4
      <3> QED BY <3>1
    <2> QED BY <1>1, <2>1
  <1>5. ASSUME NEW s \in Pool,
               \A fd \in Pool : /\ NvencReads(fd)' <=> NvencReads(fd) \/ fd = s
                                /\ EyeReads(fd)' <=> EyeReads(fd)
        PROVE  Readings' = [Readings EXCEPT ![s] = @ \cup {"nvenc"}]
    <2>1. \A fd \in Pool : Readings'[fd] = IF fd = s THEN Readings[fd] \cup {"nvenc"} ELSE Readings[fd]
      <3> TAKE fd \in Pool
      <3>1. \A r : r \in Readings'[fd] <=> r \in (IF fd = s THEN Readings[fd] \cup {"nvenc"} ELSE Readings[fd])
        BY <1>2, <1>3, <1>5
      <3> QED BY <3>1
    <2> QED BY <1>1, <2>1
  <1>6. ASSUME NEW s \in Pool,
               \A fd \in Pool : /\ NvencReads(fd)' <=> NvencReads(fd) /\ fd # s
                                /\ EyeReads(fd)' <=> EyeReads(fd)
        PROVE  Readings' = [Readings EXCEPT ![s] = @ \ {"nvenc"}]
    <2>1. \A fd \in Pool : Readings'[fd] = IF fd = s THEN Readings[fd] \ {"nvenc"} ELSE Readings[fd]
      <3> TAKE fd \in Pool
      <3>1. \A r : r \in Readings'[fd] <=> r \in (IF fd = s THEN Readings[fd] \ {"nvenc"} ELSE Readings[fd])
        BY <1>2, <1>3, <1>6
      <3> QED BY <3>1
    <2> QED BY <1>1, <2>1
  <1>7. ASSUME NEW s \in Pool,
               \A fd \in Pool : /\ NvencReads(fd)' <=> NvencReads(fd)
                                /\ EyeReads(fd)' <=> EyeReads(fd) \/ fd = s
        PROVE  Readings' = [Readings EXCEPT ![s] = @ \cup {"eye"}]
    <2>1. \A fd \in Pool : Readings'[fd] = IF fd = s THEN Readings[fd] \cup {"eye"} ELSE Readings[fd]
      <3> TAKE fd \in Pool
      <3>1. \A r : r \in Readings'[fd] <=> r \in (IF fd = s THEN Readings[fd] \cup {"eye"} ELSE Readings[fd])
        BY <1>2, <1>3, <1>7
      <3> QED BY <3>1
    <2> QED BY <1>1, <2>1
  <1>8. ASSUME NEW s \in Pool,
               \A fd \in Pool : /\ NvencReads(fd)' <=> NvencReads(fd)
                                /\ EyeReads(fd)' <=> EyeReads(fd) /\ fd # s
        PROVE  Readings' = [Readings EXCEPT ![s] = @ \ {"eye"}]
    <2>1. \A fd \in Pool : Readings'[fd] = IF fd = s THEN Readings[fd] \ {"eye"} ELSE Readings[fd]
      <3> TAKE fd \in Pool
      <3>1. \A r : r \in Readings'[fd] <=> r \in (IF fd = s THEN Readings[fd] \ {"eye"} ELSE Readings[fd])
        BY <1>2, <1>3, <1>8
      <3> QED BY <3>1
    <2> QED BY <1>1, <2>1
  <1> QED BY <1>4, <1>5, <1>6, <1>7, <1>8

\* The same after a step.
LEMMA ReadIsHeldPrime ==
    ASSUME Inv', NvencOK', NEW fd \in Pool, NvencReads(fd)' \/ EyeReads(fd)'
    PROVE  \E f \in AllHolders' : f.fd = fd
  <1>1. CASE NvencReads(fd)'
    <2>1. PICK i \in 1 .. Len(nvenc') : idxFd'[nvenc'[i].idx] = fd
      BY <1>1 DEF NvencReads
    <2>2. nvenc'[i].idx \in Indices /\ nvenc'[i].idx \notin idxFree'
      <3>1. nvenc' \in Seq([idx : Indices, ts : 1 .. MaxFrames])
        BY DEF NvencOK
      <3>2. nvenc'[i] \in [idx : Indices, ts : 1 .. MaxFrames]
        BY <3>1, EmptyByLength
      <3> QED BY <3>2 DEF Inv, IndicesOnce
    <2>3. pending'[fd] # NoFrame /\ pending'[fd].fd = fd
      BY <2>1, <2>2 DEF Inv, IndicesInUse, PendingAtHome
    <2> QED BY <2>3, HoldersWillBe
  <1>2. CASE EyeReads(fd)'
    BY <1>2, HoldersWillBe DEF EyeReads, Inv, EyeInFlight
  <1> QED BY <1>1, <1>2

\* The inputs that NVENC has are of different surfaces.
LEMMA InputSurfaces ==
    ASSUME Inv
    PROVE  /\ \A i \in 1 .. Len(nvenc) :
                /\ nvenc[i].idx \in Indices /\ nvenc[i].idx \notin idxFree
                /\ idxFd[nvenc[i].idx] \in Pool
           /\ \A i, j \in 1 .. Len(nvenc) : idxFd[nvenc[i].idx] = idxFd[nvenc[j].idx] => i = j
  <1>1. \A i \in 1 .. Len(nvenc) : nvenc[i].idx \in Indices
    <2>1. \A i \in 1 .. Len(nvenc) : nvenc[i] \in [idx : Indices, ts : 1 .. MaxFrames]
      BY InvTypes, EmptyByLength DEF NvencOK
    <2> QED BY <2>1
  <1>2. \A i \in 1 .. Len(nvenc) : nvenc[i].idx \notin idxFree
    BY DEF Inv, IndicesOnce
  <1>3. \A i \in 1 .. Len(nvenc) : idxFd[nvenc[i].idx] \in Pool
    BY <1>1, <1>2 DEF Inv, IndicesInUse
  <1>4. \A i, j \in 1 .. Len(nvenc) : idxFd[nvenc[i].idx] = idxFd[nvenc[j].idx] => i = j
    BY <1>1, <1>2 DEF Inv, IndicesInUse, IndicesOnce
  <1> QED BY <1>1, <1>2, <1>3, <1>4

ReadsBegin ==
    \E s \in Pool, r \in {"nvenc", "eye"} :
        Owners[s] # 0 /\ Readings' = [Readings EXCEPT ![s] = @ \cup {r}]
ReadsEnd ==
    \E s \in Pool, r \in {"nvenc", "eye"} : Readings' = [Readings EXCEPT ![s] = @ \ {r}]

\* Every step keeps who reads what, or one reader begins or ends and no surface
\* changes hands.
LEMMA ReadingSteps ==
    ASSUME Inv, [Next]_vars, NvencOK'
    PROVE  Readings' = Readings \/ (Keeps /\ (ReadsBegin \/ ReadsEnd))
  <1>0. TypeOK /\ CaptureOK /\ free \in Seq(Pool) /\ EncodeOK /\ NvencOK /\ DequeueOK /\ EyeOK
    BY InvTypes
  <1> USE DEF camVars, encoderVars, dqVars, eyeVars
  <1>1. CASE DrainInputDone
    <2> DEFINE idx == done[1]
    <2>1. /\ done # <<>> /\ UNCHANGED <<nvenc, eye>> /\ idx \in Indices
          /\ \A j \in Indices : idxFd'[j] = IF j = idx THEN 0 ELSE idxFd[j]
      BY <1>1, Drained
    <2>2. \A i \in 1 .. Len(nvenc) : nvenc[i].idx # idx
      <3>1. 1 \in 1 .. Len(done)
        BY <1>0, <2>1, Popped DEF NvencOK
      <3> QED BY <3>1 DEF Inv, IndicesOnce
    <2>3. \A i \in 1 .. Len(nvenc) : idxFd'[nvenc[i].idx] = idxFd[nvenc[i].idx]
      BY <2>1, <2>2, InputSurfaces
    <2>4. \A fd : (NvencReads(fd)' <=> NvencReads(fd)) /\ (EyeReads(fd)' <=> EyeReads(fd))
      BY <2>1, <2>3 DEF NvencReads, EyeReads
    <2> QED BY <2>4, ReadingsChange
  <1>2. CASE EncSubmit
    <2>1. UNCHANGED <<nvenc, eye>>
      BY <1>2 DEF EncSubmit, SubmitFailed
    <2>2. idxFd' = idxFd \/ \E idx \in idxFree :
            \A j \in Indices : idxFd'[j] = IF j = idx THEN enc.frame.fd ELSE idxFd[j]
      BY <1>2, Submitted
    <2>3. \A i \in 1 .. Len(nvenc) : idxFd'[nvenc[i].idx] = idxFd[nvenc[i].idx]
      BY <2>2, InputSurfaces
    <2>4. \A fd : (NvencReads(fd)' <=> NvencReads(fd)) /\ (EyeReads(fd)' <=> EyeReads(fd))
      BY <2>1, <2>3 DEF NvencReads, EyeReads
    <2> QED BY <2>4, ReadingsChange
  <1>3. CASE EncQueue
    <2>0. enc.pc = "queue" /\ enc.frame \in Frames /\ enc.frame.fd \in Pool /\ enc.idx \in Indices
          /\ enc.frame # NoFrame
      BY <1>3, Queued
    <2>1. CASE SubmitFailed
      <3>1. /\ UNCHANGED <<nvenc, eye>>
            /\ \A j \in Indices : idxFd'[j] = IF j = enc.idx THEN 0 ELSE idxFd[j]
        BY <1>3, <2>0, <2>1, Queued, Failed DEF At, SubmitFailed
      <3>2. \A i \in 1 .. Len(nvenc) : nvenc[i].idx # enc.idx
        BY <2>0 DEF Inv, IndicesOnce, At
      <3>3. \A i \in 1 .. Len(nvenc) : idxFd'[nvenc[i].idx] = idxFd[nvenc[i].idx]
        BY <3>1, <3>2, InputSurfaces
      <3>4. \A fd : (NvencReads(fd)' <=> NvencReads(fd)) /\ (EyeReads(fd)' <=> EyeReads(fd))
        BY <3>1, <3>3 DEF NvencReads, EyeReads
      <3> QED BY <3>4, ReadingsChange
    <2>2. CASE ~SubmitFailed
      <3> DEFINE s == enc.frame.fd
      <3>1. /\ nvenc' = Append(nvenc, [idx |-> enc.idx, ts |-> enc.frame.ts]) /\ enc'.frame = enc.frame
            /\ UNCHANGED <<idxFd, pending, eyeq, eye, free>>
        BY <1>3, <2>2, Queued
      <3>2. /\ Len(nvenc) \in Nat /\ Len(nvenc') = Len(nvenc) + 1
            /\ nvenc'[Len(nvenc) + 1] = [idx |-> enc.idx, ts |-> enc.frame.ts]
            /\ \A i \in 1 .. Len(nvenc) : nvenc'[i] = nvenc[i]
        BY <1>0, <2>0, <3>1, Appended DEF NvencOK, Frames
      <3>3. /\ \A i \in 1 .. Len(nvenc') : i \in 1 .. Len(nvenc) \/ i = Len(nvenc) + 1
            /\ \A i \in 1 .. Len(nvenc) : i \in 1 .. Len(nvenc')
            /\ Len(nvenc) + 1 \in 1 .. Len(nvenc')
        BY <3>2
      <3>4. idxFd[enc.idx] = s
        BY <2>0 DEF Inv, IndicesOnce, At
      <3>5. \A fd \in Pool : /\ NvencReads(fd)' <=> NvencReads(fd) \/ fd = s
                             /\ EyeReads(fd)' <=> EyeReads(fd)
        BY <3>1, <3>2, <3>3, <3>4 DEF NvencReads, EyeReads
      <3>6. Readings' = [Readings EXCEPT ![s] = @ \cup {"nvenc"}]
        BY <2>0, <3>5, ReadingsChange
      <3>7. Owners[s] # 0
        BY <1>0, <2>0, HoldersAre, OwnersAre DEF Inv
      <3>8. Keeps
        BY <3>1 DEF Keeps, AllHolders, Holders
      <3> QED BY <2>0, <3>6, <3>7, <3>8 DEF ReadsBegin
    <2> QED BY <2>1, <2>2
  <1>4. CASE NvencEncode
    <2> DEFINE s == idxFd[nvenc[1].idx]
    <2>1. UNCHANGED <<free, enc, pending, eyeq, eye, idxFd>>
      BY <1>4 DEF NvencEncode
    <2>2. /\ 1 \in 1 .. Len(nvenc)
          /\ \A i \in 1 .. Len(nvenc') :
               i + 1 \in 1 .. Len(nvenc) /\ i + 1 # 1 /\ nvenc'[i] = nvenc[i + 1]
          /\ \A i \in 1 .. Len(nvenc) :
               i = 1 \/ (i - 1 \in 1 .. Len(nvenc') /\ nvenc'[i - 1] = nvenc[i])
      <3>1. \A i \in 1 .. Len(nvenc') : i \in Nat /\ 1 < i + 1 => i + 1 # 1
        OBVIOUS
      <3> QED BY <1>4, <3>1, InputsLeft
    <2>3. ASSUME NEW fd PROVE NvencReads(fd)' <=> NvencReads(fd) /\ fd # s
      <3>1. ASSUME NEW i \in 1 .. Len(nvenc'), idxFd'[nvenc'[i].idx] = fd
            PROVE  NvencReads(fd) /\ fd # s
        <4>1. i + 1 \in 1 .. Len(nvenc) /\ i + 1 # 1 /\ fd = idxFd[nvenc[i + 1].idx]
          BY <2>1, <2>2, <3>1
        <4> QED BY <2>2, <4>1, InputSurfaces DEF NvencReads
      <3>2. ASSUME NEW i \in 1 .. Len(nvenc), idxFd[nvenc[i].idx] = fd, fd # s
            PROVE  NvencReads(fd)'
        <4>1. i - 1 \in 1 .. Len(nvenc') /\ nvenc'[i - 1] = nvenc[i]
          BY <2>2, <3>2
        <4> QED BY <2>1, <3>2, <4>1 DEF NvencReads
      <3> QED BY <3>1, <3>2 DEF NvencReads
    <2>4. \A fd : EyeReads(fd)' <=> EyeReads(fd)
      BY <2>1 DEF EyeReads
    <2>5. s \in Pool
      BY <2>2, InputSurfaces
    <2>6. Readings' = [Readings EXCEPT ![s] = @ \ {"nvenc"}]
      BY <2>3, <2>4, <2>5, ReadingsChange
    <2> QED BY <2>1, <2>5, <2>6, UntouchedKeeps DEF ReadsEnd
  <1>5. CASE EyeTake
    <2>1. /\ eye.frame = NoFrame /\ eye'.busy = TRUE /\ UNCHANGED <<nvenc, idxFd>>
      BY <1>5 DEF EyeTake
    <2>2. eye'.frame \in AllHolders /\ Keeps
      BY <1>5, EyeTakeKeeps
    <2>3. eye'.frame.fd \in Pool /\ Owners[eye'.frame.fd] # 0
      BY <1>0, <2>2, OwnersAre DEF Inv
    <2>4. eye.busy = FALSE
      BY <1>0, <2>1 DEF Inv, EyeInFlight, EyeOK
    <2>5. \A fd \in Pool : /\ NvencReads(fd)' <=> NvencReads(fd)
                           /\ EyeReads(fd)' <=> EyeReads(fd) \/ fd = eye'.frame.fd
      BY <2>1, <2>4 DEF NvencReads, EyeReads
    <2>6. Readings' = [Readings EXCEPT ![eye'.frame.fd] = @ \cup {"eye"}]
      BY <2>3, <2>5, ReadingsChange
    <2> QED BY <2>2, <2>3, <2>6 DEF ReadsBegin
  <1>6. CASE EyeProcess
    <2>1. /\ eye.busy /\ eye'.busy = FALSE /\ eye'.frame = eye.frame
          /\ UNCHANGED <<free, enc, pending, eyeq, nvenc, idxFd>>
      BY <1>6, <1>0 DEF EyeProcess, EyeOK
    <2>2. eye.frame.fd \in Pool
      BY <1>0, <2>1 DEF Inv, EyeInFlight, EyeOK, Frames
    <2>3. \A fd \in Pool : /\ NvencReads(fd)' <=> NvencReads(fd)
                           /\ EyeReads(fd)' <=> EyeReads(fd) /\ fd # eye.frame.fd
      BY <2>1 DEF NvencReads, EyeReads
    <2>4. Readings' = [Readings EXCEPT ![eye.frame.fd] = @ \ {"eye"}]
      BY <2>2, <2>3, ReadingsChange
    <2>5. Keeps
      BY <2>1 DEF Keeps, AllHolders, Holders
    <2> QED BY <2>2, <2>4, <2>5 DEF ReadsEnd
  <1>7. CASE EyeDrop
    <2>1. ~eye.busy /\ ~eye'.busy /\ UNCHANGED <<nvenc, idxFd>>
      BY <1>7, <1>0 DEF EyeDrop, EyeOK
    <2>2. \A fd : (NvencReads(fd)' <=> NvencReads(fd)) /\ (EyeReads(fd)' <=> EyeReads(fd))
      BY <2>1 DEF NvencReads, EyeReads
    <2> QED BY <2>2, ReadingsChange
  <1>8. CASE CapDequeue \/ CapDequeueEmpty \/ CapSubmit \/ EncTake \/ EncPostprocess \/
             EncPend \/ EncOfferEye \/ EncPushEye \/ DequeueOne \/ WarmupEnds \/
             UNCHANGED vars
    <2>1. UNCHANGED <<nvenc, idxFd, eye>>
      BY <1>8 DEF CapDequeue, CapDequeueEmpty, CapSubmit, EncTake, EncPostprocess, EncPend,
                  EncOfferEye, EncPushEye, DequeueOne, WarmupEnds, vars
    <2> QED BY <2>1 DEF Readings, ReadersOf
  <1> QED BY <1>1, <1>2, <1>3, <1>4, <1>5, <1>6, <1>7, <1>8
         DEF Next, EncodeThread, EyeThread

\* Every step of the pipeline is one of the pool, or changes nothing there.
LEMMA PoolSteps ==
    ASSUME Inv, Inv', [Next]_vars
    PROVE  [Promise!Next]_(Promise!vars)
  <1>0. /\ TypeOK /\ SurfacesAccounted /\ TypeOK' /\ SurfacesAccounted' /\ NvencOK'
    BY TypePartsPrime DEF Inv
  <1>1. Owners = [fd \in Pool |-> Owners[fd]] /\ Owners' = [fd \in Pool |-> Owners'[fd]]
    BY DEF Owners
  <1>2. CASE Keeps /\ Readings' = Readings
    BY <1>2, KeepsOwners DEF Promise!vars
  <1>3. CASE Keeps /\ ReadsBegin
    <2>1. PICK s \in Pool, r \in {"nvenc", "eye"} :
            Owners[s] # 0 /\ Readings' = [Readings EXCEPT ![s] = @ \cup {r}]
      BY <1>3 DEF ReadsBegin
    <2>2. Promise!BeginRead(s, r)
      BY <1>3, <2>1, KeepsOwners DEF Promise!BeginRead
    <2> QED BY <2>2 DEF Promise!Next
  <1>4. CASE Keeps /\ ReadsEnd
    <2>1. PICK s \in Pool, r \in {"nvenc", "eye"} : Readings' = [Readings EXCEPT ![s] = @ \ {r}]
      BY <1>4 DEF ReadsEnd
    <2>2. Promise!EndRead(s, r)
      BY <1>4, <2>1, KeepsOwners DEF Promise!EndRead
    <2> QED BY <2>2 DEF Promise!Next
  <1>5. CASE Fills /\ Readings' = Readings
    <2> DEFINE s == free[1]
               g == [fd |-> s, ts |-> enc.ts]
    <2>1. /\ s \in Pool /\ Contains(free, s) /\ AllHolders' = AllHolders \cup {g}
          /\ \A x : Contains(free', x) <=> Contains(free, x) /\ x # s
          /\ g.fd = s /\ g.ts = enc.ts /\ At("post")
      BY <1>5, FreeSteps DEF Fills
    <2> HIDE DEF g, s
    <2>2. enc.ts \in 1 .. MaxFrames /\ enc.ts # 0
      <3>1. enc.ts \in 1 .. count /\ count \in 0 .. MaxFrames
        BY <2>1, InvTypes DEF Inv, CapturesInOrder, CaptureOK
      <3> QED BY <3>1, Bounds
    <2>3. Owners[s] = 0
      BY <1>0, <2>1, OwnersAre
    <2>4. \A f \in AllHolders : f.ts # enc.ts
      <3>1. \A f \in AllHolders : f.ts < enc.ts /\ f.ts \in 1 .. MaxFrames
        BY <1>0, <2>1, OwnersAre DEF Inv, FramesEarlier, Earlier
      <3> QED BY <2>2, <3>1, Bounds
    <2>5. \A t \in Pool : Owners[t] # enc.ts
      BY <1>0, <2>2, <2>4, OwnersAre
    <2>6. \A fd \in Pool : Owners'[fd] = IF fd = s THEN enc.ts ELSE Owners[fd]
      <3> TAKE fd \in Pool
      <3>1. CASE fd = s
        BY <1>0, <2>1, <3>1, OwnersWillBe
      <3>2. CASE fd # s /\ Contains(free, fd)
        BY <1>0, <2>1, <3>2, OwnersAre, OwnersWillBe DEF SurfacesAccounted
      <3>3. CASE fd # s /\ ~Contains(free, fd)
        <4>1. PICK f \in AllHolders : f.fd = fd
          BY <1>0, <3>3, OwnersAre
        <4> QED BY <1>0, <2>1, <3>3, <4>1, OwnersAre, OwnersWillBe
      <3> QED BY <3>1, <3>2, <3>3
    <2>7. Owners' = [Owners EXCEPT ![s] = enc.ts]
      BY <1>1, <2>6
    <2>8. Promise!Acquire(s, enc.ts)
      BY <1>5, <2>3, <2>5, <2>7 DEF Promise!Acquire
    <2> QED BY <2>1, <2>2, <2>8 DEF Promise!Next
  <1>6. ASSUME NEW g \in AllHolders, Releases(g), Readings' = Readings
        PROVE  Promise!Next
    <2> DEFINE s == g.fd
    <2>1. /\ s \in Pool /\ AllHolders' = AllHolders \ {g}
          /\ \A x : Contains(free', x) <=> Contains(free, x) \/ x = s
      BY <1>6, FreeSteps DEF Releases
    <2> HIDE DEF s
    <2>2. Owners[s] # 0
      BY <1>0, OwnersAre DEF s
    <2>3. Readings[s] = {}
      <3>1. ~NvencReads(s)' /\ ~EyeReads(s)'
        BY <1>0, <2>1, ReadIsHeldPrime DEF SurfacesAccounted
      <3>2. \A r : r \notin Readings'[s]
        BY <1>0, <2>1, <3>1, ReadersWillBe
      <3> QED BY <1>6, <3>2
    <2>4. \A fd \in Pool : Owners'[fd] = IF fd = s THEN 0 ELSE Owners[fd]
      <3> TAKE fd \in Pool
      <3>1. CASE Contains(free', fd)
        <4>1. Owners'[fd] = 0
          BY <1>0, <3>1, OwnersWillBe DEF SurfacesAccounted
        <4>2. fd # s => Owners[fd] = 0
          BY <1>0, <2>1, <3>1, OwnersAre
        <4> QED BY <4>1, <4>2
      <3>2. CASE ~Contains(free', fd)
        <4>1. fd # s /\ ~Contains(free, fd)
          BY <2>1, <3>2
        <4>2. PICK f \in AllHolders : f.fd = fd
          BY <1>0, <4>1, OwnersAre
        <4>3. f \in AllHolders'
          BY <2>1, <4>1, <4>2 DEF s
        <4> QED BY <1>0, <4>1, <4>2, <4>3, OwnersAre, OwnersWillBe
      <3> QED BY <3>1, <3>2
    <2>5. Owners' = [Owners EXCEPT ![s] = 0]
      BY <1>1, <2>4
    <2>6. Promise!Release(s)
      BY <1>6, <2>2, <2>3, <2>5 DEF Promise!Release
    <2> QED BY <2>1, <2>6 DEF Promise!Next
  <1>7. QED
    BY <1>0, <1>2, <1>3, <1>4, <1>5, <1>6, HolderSteps, ReadingSteps

\* "The fd returns to its owner only after NVENC input-done and eye_image
\* processing have released it": the pipeline implements the promise of
\* SurfacePool.  A surface is filled only while it belongs to nobody, read
\* only while it belongs to a frame, and released only when nobody reads it.
THEOREM PoolPromiseKept == Spec => ImplementsSurfacePool
  <1>1. Init => Promise!Init
    <2> SUFFICES ASSUME Init PROVE Promise!Init
      OBVIOUS
    <2>1. Inv /\ AllHolders = {}
      BY InvInit, SurfacesInit
    <2>2. \A fd \in Pool : Owners[fd] = 0
      BY <2>1, OwnersAre DEF Inv
    <2>3. \A fd \in Pool : Readings[fd] = {}
      <3> TAKE fd \in Pool
      <3>1. ~NvencReads(fd) /\ ~EyeReads(fd)
        BY <2>1, ReadIsHeld
      <3>2. \A r : r \notin Readings[fd]
        BY <2>1, <3>1, ReadersAre
      <3> QED BY <3>2
    <2>4. Owners = [fd \in Pool |-> 0] /\ Readings = [fd \in Pool |-> {}]
      BY <2>2, <2>3 DEF Owners, Readings
    <2> QED BY <2>4 DEF Promise!Init
  <1>2. Inv /\ Inv' /\ [Next]_vars => [Promise!Next]_(Promise!vars)
    BY PoolSteps
  <1>3. QED BY <1>1, <1>2, FramesInvariant, PTL DEF Spec, ImplementsSurfacePool, Promise!Spec

=============================================================================
