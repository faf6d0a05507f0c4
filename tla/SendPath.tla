------------------------------ MODULE SendPath ------------------------------
(***************************************************************************)
(* The send side of UdpManager and its SendQueue.  Four threads meet here: *)
(*   - producers: the encoder (sendH264Frame), audio and telemetry;        *)
(*   - the FEC thread, which takes a frame, numbers it, and pushes its     *)
(*     packets and a GroupEnd marker as one batch;                         *)
(*   - the send thread, which pops by priority, protects the group it      *)
(*     sends from eviction, and puts back what the socket refuses;         *)
(*   - the executor inside resetSession, one clearing call after another.  *)
(*                                                                         *)
(* The queue's mutex is held across the loops of trimVideoBacklogLocked    *)
(* and enforceLimitsLocked: loop.pc says which loop runs, and nothing else *)
(* happens until it is "free".  The steps of the other threads that do not *)
(* need the mutex touch nothing the loops read, so the order is no loss.   *)
(*                                                                         *)
(* Left out: payloads, statistics, and the pacer, which only delays a pop. *)
(* The field frame of a packet, its number in capture order, and the field *)
(* session, the number of resets before its capture, are not in the code.  *)
(***************************************************************************)
EXTENDS Integers, FiniteSets, Sequences

CONSTANTS
    MaxPackets,         \* udp.pacing.queue_max_packets, 0: no limit
    MaxBytes,           \* udp.pacing.queue_max_bytes, 0: no limit
    MaxGroups,          \* kMaxQueuedVideoGroups
    MaxInput,           \* udp.fec.input_queue_max_frames
    SourcePackets,      \* total_fragments of a frame
    ParityPackets,      \* parity packets of a frame, 0: FEC disabled
    VideoBytes,         \* wire_bytes of a video packet
    AuxBytes,           \* wire_bytes of an audio or telemetry packet
    MaxFrames,          \* bound: frames captured
    MaxAux,             \* bound: audio packets, and telemetry packets
    MaxResets           \* bound: calls of resetSession

ASSUME SendPathConstants ==
    /\ {MaxPackets, MaxBytes, ParityPackets, MaxFrames, MaxAux, MaxResets} \subseteq Nat
    /\ {MaxGroups, MaxInput, SourcePackets, VideoBytes, AuxBytes} \subseteq Nat \ {0}

VARIABLES
    input,      \* input_queue_
    fec,        \* the FEC thread and the frame it works on
    items,      \* queue_
    bytes,      \* queue_bytes_
    prot,       \* protected_video_group_id_
    loop,       \* the loop that holds mutex_
    snd,        \* the send thread, the item it popped, and its FrameStats
    ctr,        \* frame_id_, audio_group_id_, telemetry_group_id_
    passed,     \* the producers that have seen handshake_ready_ and not yet pushed
    ready,      \* handshake_ready_
    reset,      \* the executor inside resetSession
    captured,   \* number of frames captured
    session     \* number of sessions begun by resetSession

queueVars == <<items, bytes, prot, loop>>
vars == <<input, fec, queueVars, snd, ctr, passed, ready, reset, captured, session>>

NoGroup == -1           \* kNoProtectedVideoGroup
Streams == {"Video", "Audio", "Other"}
Frames  == [frame : 1 .. MaxFrames, key : BOOLEAN, session : 0 .. MaxResets]
NoFrame == [frame |-> 0, key |-> FALSE, session |-> 0]
Groups  == 0 .. MaxFrames + 2 * MaxAux
Items   == [kind : {"Datagram", "GroupEnd"}, stream : Streams, group : Groups, key : BOOLEAN,
            parity : BOOLEAN, index : 0 .. SourcePackets + ParityPackets,
            frame : 0 .. MaxFrames, session : 0 .. MaxResets]
NoItem  == [kind |-> "none"]

Free == loop.pc = "free"

Init ==
    /\ input = <<>>
    /\ fec = [pc |-> "idle", f |-> NoFrame, group |-> 0]
    /\ items = <<>>
    /\ bytes = 0
    /\ prot = NoGroup
    /\ loop = [pc |-> "free", newest |-> NoGroup]
    /\ snd = [pc |-> "idle", item |-> NoItem, frame |-> 0, packets |-> 0]
    /\ ctr = [frame |-> 0, audio |-> 0, other |-> 0]
    /\ passed = {}
    /\ ready = FALSE
    /\ reset = "idle"
    /\ captured = 0
    /\ session = 0

-----------------------------------------------------------------------------
(***************************************************************************)
(* SendQueue.                                                              *)
(***************************************************************************)

WireBytes(i) ==
    IF i.kind = "GroupEnd" THEN 0 ELSE IF i.stream = "Video" THEN VideoBytes ELSE AuxBytes

\* The items of a sequence with a property are counted by their positions.
Count(s, Test(_)) == Cardinality({k \in DOMAIN s : Test(s[k])})

VideoDatagram(i) == i.kind = "Datagram" /\ i.stream = "Video"
AuxDatagram(i)   == i.kind = "Datagram" /\ i.stream # "Video"

\* The sum of the wire_bytes of the items of s.
TotalBytes(s) == VideoBytes * Count(s, VideoDatagram) + AuxBytes * Count(s, AuxDatagram)

\* kAudioPriority, kVideoPriority, kTelemetryPriority
Priority(i) == CASE i.stream = "Audio" -> 0 [] i.stream = "Video" -> 2 [] OTHER -> 3

IsProtected(i) == i.stream = "Video" /\ prot # NoGroup /\ i.group = prot

\* The items of s at the positions K, in their order: the item at position k
\* becomes the n-th when n of the positions are not after k.
At(s, K) ==
    [n \in 1 .. Cardinality(K) |-> s[CHOOSE k \in K : Cardinality({j \in K : j <= k}) = n]]

Without(s, K) == At(s, DOMAIN s \ K)

\* The first item of s with a property, as a set of at most one position.
First(s, Test(_)) == {k \in DOMAIN s : Test(s[k]) /\ \A j \in 1 .. k - 1 : ~Test(s[j])}

\* The first choice that is not empty.
Prefer(a, b) == IF a # {} THEN a ELSE b

\* queue_bytes_ never goes below zero.
BytesWithout(n) == IF bytes >= n THEN bytes - n ELSE 0

\* Remove the items with a property and account for their bytes.
Drop(Test(_)) ==
    LET gone == {k \in DOMAIN items : Test(items[k])}
    IN  /\ items' = Without(items, gone)
        /\ bytes' = BytesWithout(TotalBytes(At(items, gone)))

\* Mutant: the bytes of what is dropped stay on the account.
DropGroupWithoutAccount(group, stream) ==
    /\ items' = Without(items, {k \in DOMAIN items : items[k].group = group /\ items[k].stream = stream})
    /\ bytes' = bytes

\* Mutant: the marker of a dropped group stays in the queue.
DropGroupKeepingMarker(group, stream) ==
    Drop(LAMBDA i : i.group = group /\ i.stream = stream /\ i.kind = "Datagram")

DropGroup(group, stream) == Drop(LAMBDA i : i.group = group /\ i.stream = stream)

DropParityForGroup(group) ==
    Drop(LAMBDA i : i.group = group /\ i.stream = "Video" /\ i.kind = "Datagram" /\ i.parity)

VideoGroups == {items[k].group : k \in {k \in DOMAIN items : items[k].stream = "Video"}}

IsKeyframeGroup(g) ==
    \E k \in DOMAIN items : items[k].stream = "Video" /\ items[k].group = g /\ items[k].key

\* The groups that trimVideoBacklogLocked may drop, oldest first.
BacklogVictim ==
    LET Evictable(i) == i.stream = "Video" /\ i.group # loop.newest /\ ~IsProtected(i)
    IN  Prefer(First(items, LAMBDA i : Evictable(i) /\ ~IsKeyframeGroup(i.group)), First(items, Evictable))

\* One iteration of trimVideoBacklogLocked.
TrimVideoBacklog ==
    /\ loop.pc = "trim"
    /\ LET over == Cardinality(VideoGroups) > MaxGroups
           done == [loop EXCEPT !.pc = "enforce"]
       IN  \/ /\ over /\ IsKeyframeGroup(loop.newest)
              /\ Drop(LAMBDA i : i.stream = "Video" /\ i.group # loop.newest /\ ~IsProtected(i))
              /\ loop' = done
           \/ /\ over /\ ~IsKeyframeGroup(loop.newest)
              /\ \E k \in BacklogVictim : DropGroup(items[k].group, "Video")
              /\ UNCHANGED loop
           \/ /\ ~over \/ (~IsKeyframeGroup(loop.newest) /\ BacklogVictim = {})
              /\ loop' = done
              /\ UNCHANGED <<items, bytes>>
    /\ UNCHANGED <<input, fec, prot, snd, ctr, ready, reset, passed, captured, session>>

ParityVictim ==
    LET Parity(i) == i.stream = "Video" /\ i.parity /\ ~IsProtected(i)
    IN  Prefer(First(items, LAMBDA i : Parity(i) /\ ~i.key), First(items, Parity))

\* A GroupEnd marker never carries the keyframe flag of its group.
GroupVictim ==
    LET Video(i) == i.stream = "Video" /\ ~IsProtected(i)
    IN  Prefer(Prefer(First(items, LAMBDA i : Video(i) /\ ~i.key), First(items, Video)),
               First(items, LAMBDA i : ~IsProtected(i)))

\* Mutant: the byte limit is forgotten.
OverPacketLimit == MaxPackets > 0 /\ Len(items) > MaxPackets

OverLimits ==
    \/ MaxPackets > 0 /\ Len(items) > MaxPackets
    \/ MaxBytes > 0 /\ bytes > MaxBytes

\* One iteration of enforceLimitsLocked.
EnforceLimits ==
    /\ loop.pc = "enforce"
    /\ \/ /\ OverLimits
          /\ \E k \in ParityVictim : DropParityForGroup(items[k].group)
          /\ UNCHANGED loop
       \/ /\ OverLimits /\ ParityVictim = {}
          /\ \E k \in GroupVictim : DropGroup(items[k].group, items[k].stream)
          /\ UNCHANGED loop
       \/ /\ ~OverLimits \/ (ParityVictim = {} /\ GroupVictim = {})
          /\ loop' = [pc |-> "free", newest |-> NoGroup]
          /\ UNCHANGED <<items, bytes>>
    /\ UNCHANGED <<input, fec, prot, snd, ctr, ready, reset, passed, captured, session>>

\* push and pushBatch up to the loops.
PushBatch(batch, newest) ==
    /\ items' = items \o batch
    /\ bytes' = bytes + TotalBytes(batch)
    /\ loop' = [pc |-> IF newest = NoGroup THEN "enforce" ELSE "trim", newest |-> newest]
    /\ UNCHANGED prot

\* Mutant: the item goes to the back, behind the packets that follow it.
RequeueBack(i) ==
    /\ items' = Append(items, i)
    /\ bytes' = bytes + WireBytes(i)
    /\ UNCHANGED <<prot, loop>>

RequeueFront(i) ==
    /\ items' = <<i>> \o items
    /\ bytes' = bytes + WireBytes(i)
    /\ UNCHANGED <<prot, loop>>

\* selectPrioritizedLocked: the oldest of the items of the best priority.
Selected(k) ==
    /\ \A j \in DOMAIN items : Priority(items[k]) <= Priority(items[j])
    /\ \A j \in 1 .. k - 1 : Priority(items[j]) > Priority(items[k])

-----------------------------------------------------------------------------
(***************************************************************************)
(* Producers.                                                              *)
(***************************************************************************)

\* The frame that makes room in the input queue: the oldest that is not a
\* keyframe, or else the oldest.
DropInput(s) == Without(s, Prefer(First(s, LAMBDA f : ~f.key), {1}))

\* The check of running and handshake_ready_ that opens every send call: the
\* push that follows does not look again.
PassReadyCheck(stream) ==
    /\ ready
    /\ stream \notin passed
    /\ passed' = passed \cup {stream}
    /\ UNCHANGED <<input, fec, queueVars, snd, ctr, ready, reset, captured, session>>

SendH264Frame ==
    /\ "Video" \in passed
    /\ passed' = passed \ {"Video"}
    /\ captured < MaxFrames
    /\ captured' = captured + 1
    /\ \E key \in BOOLEAN :
          input' = Append(IF Len(input) >= MaxInput THEN DropInput(input) ELSE input,
                          [frame |-> captured + 1, key |-> key, session |-> session])
    /\ UNCHANGED <<fec, queueVars, snd, ctr, ready, reset, session>>

AuxPacket(stream, group) ==
    [kind |-> "Datagram", stream |-> stream, group |-> group, key |-> FALSE, parity |-> FALSE,
     index |-> 0, frame |-> 0, session |-> session]

SendAudioPacket ==
    /\ "Audio" \in passed
    /\ passed' = passed \ {"Audio"}
    /\ ctr.audio < MaxAux
    /\ PushBatch(<<AuxPacket("Audio", ctr.audio)>>, NoGroup)
    /\ ctr' = [ctr EXCEPT !.audio = @ + 1]
    /\ UNCHANGED <<input, fec, snd, ready, reset, captured, session>>

SendRobotTelemetry ==
    /\ "Other" \in passed
    /\ passed' = passed \ {"Other"}
    /\ ctr.other < MaxAux
    /\ PushBatch(<<AuxPacket("Other", ctr.other)>>, NoGroup)
    /\ ctr' = [ctr EXCEPT !.other = @ + 1]
    /\ UNCHANGED <<input, fec, snd, ready, reset, captured, session>>

-----------------------------------------------------------------------------
(***************************************************************************)
(* The FEC thread.                                                         *)
(***************************************************************************)

FecPopInput ==
    /\ fec.pc = "idle"
    /\ input # <<>>
    /\ fec' = [fec EXCEPT !.pc = "number", !.f = Head(input)]
    /\ input' = Tail(input)
    /\ UNCHANGED <<queueVars, snd, ctr, ready, reset, passed, captured, session>>

FecNumberFrame ==
    /\ fec.pc = "number"
    /\ fec' = [fec EXCEPT !.pc = "push", !.group = ctr.frame]
    /\ ctr' = [ctr EXCEPT !.frame = @ + 1]
    /\ UNCHANGED <<input, queueVars, snd, ready, reset, passed, captured, session>>

\* The source packets, the parity packets and the marker of a frame.
FramePackets(f, group) ==
    LET last == SourcePackets + ParityPackets
    IN  [k \in 1 .. last + 1 |->
           [kind |-> IF k <= last THEN "Datagram" ELSE "GroupEnd",
            stream |-> "Video", group |-> group,
            key |-> k <= last /\ f.key,
            parity |-> SourcePackets < k /\ k <= last,
            index |-> k - 1, frame |-> f.frame, session |-> f.session]]

FecPushFrame ==
    /\ fec.pc = "push"
    /\ PushBatch(FramePackets(fec.f, fec.group), fec.group)
    /\ fec' = [pc |-> "idle", f |-> NoFrame, group |-> 0]
    /\ UNCHANGED <<input, snd, ctr, ready, reset, passed, captured, session>>

-----------------------------------------------------------------------------
(***************************************************************************)
(* The send thread.                                                        *)
(***************************************************************************)

PopPrioritized ==
    /\ snd.pc = "idle"
    /\ \E k \in DOMAIN items :
          /\ Selected(k)
          /\ items' = Without(items, {k})
          /\ bytes' = BytesWithout(WireBytes(items[k]))
          /\ snd' = [snd EXCEPT !.pc = "popped", !.item = items[k]]
    /\ UNCHANGED <<input, fec, prot, loop, ctr, ready, reset, passed, captured, session>>

\* Mutant: the group is protected from its second packet on.
ProtectLate ==
    /\ snd.pc = "popped"
    /\ snd.item.kind = "Datagram"
    /\ LET first == snd.item.stream = "Video" /\ snd.packets = 0
           second == snd.item.stream = "Video" /\ snd.packets = 1
       IN  /\ snd' = [snd EXCEPT !.pc = "send", !.frame = IF first THEN snd.item.group ELSE @]
           /\ prot' = IF second THEN snd.item.group ELSE prot
    /\ UNCHANGED <<input, fec, items, bytes, loop, ctr, ready, reset, passed, captured, session>>

\* send_datagram up to the system call: the first packet of a frame protects
\* its group.
Protect ==
    /\ snd.pc = "popped"
    /\ snd.item.kind = "Datagram"
    /\ LET first == snd.item.stream = "Video" /\ snd.packets = 0
       IN  /\ snd' = [snd EXCEPT !.pc = "send", !.frame = IF first THEN snd.item.group ELSE @]
           /\ prot' = IF first THEN snd.item.group ELSE prot
    /\ UNCHANGED <<input, fec, items, bytes, loop, ctr, ready, reset, passed, captured, session>>

\* flush_frame: a frame none of whose packets was sent stays protected.
FlushFrame ==
    /\ snd.pc = "popped"
    /\ snd.item.kind = "GroupEnd"
    /\ prot' = IF snd.packets > 0 /\ prot = snd.frame THEN NoGroup ELSE prot
    /\ snd' = [pc |-> "idle", item |-> NoItem, frame |-> 0, packets |-> 0]
    /\ UNCHANGED <<input, fec, items, bytes, loop, ctr, ready, reset, passed, captured, session>>

Sent ==
    /\ snd.pc = "send"
    /\ snd' = [snd EXCEPT !.pc = "idle", !.item = NoItem,
                          !.packets = IF snd.item.stream = "Video" THEN @ + 1 ELSE @]
    /\ UNCHANGED <<input, fec, queueVars, ctr, ready, reset, passed, captured, session>>

SendFailed ==
    /\ snd.pc = "send"
    /\ snd' = [snd EXCEPT !.pc = "idle", !.item = NoItem]
    /\ UNCHANGED <<input, fec, queueVars, ctr, ready, reset, passed, captured, session>>

SendWouldBlock ==
    /\ snd.pc = "send"
    /\ RequeueFront(snd.item)
    /\ snd' = [snd EXCEPT !.pc = "idle", !.item = NoItem]
    /\ UNCHANGED <<input, fec, ctr, ready, reset, passed, captured, session>>

-----------------------------------------------------------------------------
(***************************************************************************)
(* resetSession, and the acknowledgement that makes the transport ready.   *)
(***************************************************************************)

ResetInput ==
    /\ reset = "idle"
    /\ session < MaxResets
    /\ input' = <<>>
    /\ reset' = "queue"
    /\ UNCHANGED <<fec, queueVars, snd, ctr, ready, passed, captured, session>>

ResetQueue ==
    /\ reset = "queue"
    /\ items' = <<>>
    /\ bytes' = 0
    /\ prot' = NoGroup
    /\ reset' = "handshake"
    /\ UNCHANGED <<input, fec, loop, snd, ctr, ready, passed, captured, session>>

ResetHandshake ==
    /\ reset = "handshake"
    /\ ready' = FALSE
    /\ session' = session + 1
    /\ reset' = "counters"
    /\ UNCHANGED <<input, fec, queueVars, snd, ctr, passed, captured>>

\* Each of the counters has one reader, a producer or the FEC thread, which
\* sees its store before or after this step: one step stands for all.
ResetCounters ==
    /\ reset = "counters"
    /\ ctr' = [frame |-> 0, audio |-> 0, other |-> 0]
    /\ reset' = "idle"
    /\ UNCHANGED <<input, fec, queueVars, snd, ready, passed, captured, session>>

AckReceived ==
    /\ ~ready
    /\ ready' = TRUE
    /\ UNCHANGED <<input, fec, queueVars, snd, ctr, reset, passed, captured, session>>

\* The control plane's peer timeout.
PeerLost ==
    /\ ready
    /\ ready' = FALSE
    /\ UNCHANGED <<input, fec, queueVars, snd, ctr, reset, passed, captured, session>>

Producers   == (\E stream \in Streams : PassReadyCheck(stream)) \/ SendH264Frame \/ SendAudioPacket \/ SendRobotTelemetry
FecThread   == FecPopInput \/ FecNumberFrame \/ FecPushFrame
QueueLoops  == TrimVideoBacklog \/ EnforceLimits
SendThread  == PopPrioritized \/ Protect \/ FlushFrame \/ Sent \/ SendFailed \/ SendWouldBlock
ResetSession == ResetInput \/ ResetQueue \/ ResetHandshake \/ ResetCounters

Next ==
    \/ QueueLoops
    \/ Free /\ (Producers \/ FecThread \/ SendThread \/ ResetSession \/ AckReceived \/ PeerLost)

Spec == Init /\ [][Next]_vars

\* A thread that holds the mutex keeps running.
FairSpec == Spec /\ WF_vars(QueueLoops)

-----------------------------------------------------------------------------
(***************************************************************************)
(* Properties.                                                             *)
(***************************************************************************)

\* Every variable keeps its type.
TypeOK ==
    /\ input \in Seq(Frames) /\ Len(input) <= MaxInput
    /\ fec \in [pc : {"idle", "number", "push"}, f : Frames \cup {NoFrame}, group : Groups]
    /\ items \in Seq(Items)
    /\ bytes \in Nat
    /\ prot \in Groups \cup {NoGroup}
    /\ loop \in [pc : {"free", "trim", "enforce"}, newest : Groups \cup {NoGroup}]
    /\ snd \in [pc : {"idle", "popped", "send"}, item : Items \cup {NoItem},
                 frame : Groups, packets : Nat]
    /\ ctr \in [frame : 0 .. MaxFrames, audio : 0 .. MaxAux, other : 0 .. MaxAux]
    /\ passed \subseteq Streams
    /\ ready \in BOOLEAN
    /\ reset \in {"idle", "queue", "handshake", "counters"}
    /\ captured \in 0 .. MaxFrames
    /\ session \in 0 .. MaxResets

\* queue_bytes_ is the number of bytes queued, whatever was pushed, popped, put
\* back, evicted or cleared: the limit and the pacer work on the true backlog.
BytesExact == bytes = TotalBytes(items)

LargestPacket == IF VideoBytes >= AuxBytes THEN VideoBytes ELSE AuxBytes

\* Between two operations the queue is over a limit by one packet that was put
\* back at most, unless it holds nothing but the group that is protected: what
\* the socket refuses never adds up.  The input queue never exceeds its limit.
\* Holds as long as no reset lets a group number be used twice.
WithinLimits ==
    /\ Len(input) <= MaxInput
    /\ Free /\ (\E k \in DOMAIN items : ~IsProtected(items[k])) =>
          /\ MaxPackets > 0 => Len(items) <= MaxPackets + 1
          /\ MaxBytes > 0 => TotalBytes(items) <= MaxBytes + LargestPacket

Before(a, b) == a.frame < b.frame \/ (a.frame = b.frame /\ a.index < b.index)

\* Video packets stay in capture order through every queue and thread: the one
\* the send thread holds, the send queue, the FEC thread, the input queue.
VideoInCaptureOrder ==
    LET held == IF snd.item # NoItem THEN <<snd.item>> ELSE <<>>
        sending == held \o items
        waiting == (IF fec.pc = "idle" THEN <<>> ELSE <<fec.f>>) \o input
        video   == {k \in DOMAIN sending : sending[k].stream = "Video"}
    IN  /\ \A j, k \in video : j < k => Before(sending[j], sending[k])
        /\ \A j \in video, k \in DOMAIN waiting : sending[j].frame < waiting[k].frame
        /\ \A j, k \in DOMAIN waiting : j < k => waiting[j].frame < waiting[k].frame

\* Once a packet of the frame that the send thread counts is sent, neither the
\* backlog nor a limit takes a packet that is left of it.  Holds as long as no
\* reset clears the protection.
PartlySentKept ==
    [][~Free /\ snd.packets > 0 =>
         \A k \in DOMAIN items :
            items[k].stream = "Video" /\ items[k].group = snd.frame
            => \E j \in DOMAIN items' : items'[j] = items[k]]_vars

\* The same of the frame whose packet the send thread is sending.  It fails when
\* a push evicts the rest of a frame between popPrioritized and
\* setProtectedVideoGroup: that frame's marker, which ends the count, is gone.
SendingKept ==
    [][~Free /\ snd.pc = "send" =>
         \A k \in DOMAIN items :
            items[k].stream = "Video" /\ snd.item.stream = "Video" /\ items[k].group = snd.item.group
            => \E j \in DOMAIN items' : items'[j] = items[k]]_vars

\* Neither loop under the mutex runs for ever: every iteration that does not
\* end its loop finds something to remove, so producers and the send thread get
\* the mutex back.
LoopsTerminate == ~Free ~> Free

\* Capacity takes groups without keyframe before a group with one.
KeyframesGoLast ==
    [][\A g \in VideoGroups :
         /\ loop.pc = "enforce"
         /\ IsKeyframeGroup(g)
         /\ g \notin VideoGroups'
         => \A h \in VideoGroups : h # prot => IsKeyframeGroup(h)]_vars

\* A session that has begun carries nothing that was captured before it.
ResetDropsOldFrames ==
    reset = "idle" => \A k \in DOMAIN items : items[k].session = session
=============================================================================
