--------------------------- MODULE GrpcClientProofs ---------------------------
(***************************************************************************)
(* The event stream's reports and the cancellation of calls, proved for    *)
(* any number of registrations, streams and events.                        *)
(***************************************************************************)
EXTENDS GrpcClient, SequenceTheorems, TLAPS

Live == {"open", "loop", "read", "event", "call", "finish", "ended"}

(* At most one reader is alive, that of the newest stream, and it is the   *)
(* one the next start or stop joins; its context is the one a stop cancels.*)
OneReader ==
    /\ context = thread /\ thread \in {0, made}
    /\ \A s \in Streams :
          /\ reader[s] \in Live => s = thread
          /\ s > made => s \notin cancelled /\ s \notin over

(* A context is cancelled only once the flag is cleared, or once the       *)
(* module drops what its reader reports.                                   *)
CancelledIsStopped ==
    /\ thread \in cancelled => ex = "join" \/ "module" \in down
    /\ ex \in {"cancel", "join"} => ~running
    /\ ex \in {"refuse", "cancelCalls"} => "module" \in down
    /\ \A s \in Streams : reader[s] = "ended" => s \in over \/ "module" \in down

(* What is queued is of streams that were started; a reader that has       *)
(* reported the end is done.                                               *)
QueueOfStarted ==
    \A i \in 1 .. Len(queue) :
        /\ queue[i].stream <= made
        /\ queue[i].of = "end" => queue[i].stream \in over /\ reader[queue[i].stream] = "done"

(* Items are in the order of their streams, an end last.                   *)
Before(a, b) == a.stream < b.stream \/ (a.stream = b.stream /\ a.of = "event")
QueueInOrder ==
    \A i \in 1 .. Len(queue) : \A j \in i + 1 .. Len(queue) : Before(queue[i], queue[j])

ShutdownInOrder ==
    /\ "manager" \in down => ex \in {"cancelCalls", "flag", "cancel", "join", "gone"}
    /\ ex = "spawn" => made < MaxStreams

Inv ==
    /\ TypeOK /\ OneReader /\ CancelledIsStopped /\ QueueOfStarted /\ QueueInOrder
    /\ ShutdownInOrder /\ CallsCancelled

-----------------------------------------------------------------------------
Items == [of : {"event", "end"}, stream : Streams]

(* What Append and Tail do to the items of a queue.                        *)
LEMMA AppendItem ==
    ASSUME NEW q \in Seq(Items), NEW x \in Items
    PROVE  /\ Append(q, x) \in Seq(Items) /\ Len(Append(q, x)) = Len(q) + 1
           /\ \A i \in 1 .. Len(q) : Append(q, x)[i] = q[i]
           /\ Append(q, x)[Len(q) + 1] = x
  OBVIOUS

\* The items of the tail of a queue are items of the queue.
LEMMA TailItems ==
    ASSUME NEW q \in Seq(Items), q # <<>>
    PROVE  /\ Tail(q) \in Seq(Items) /\ Len(Tail(q)) = Len(q) - 1
           /\ \A i \in 1 .. Len(q) - 1 : Tail(q)[i] = q[i + 1]
  OBVIOUS

(* What postSessionWork leaves in the queue.                               *)
LEMMA PostedItem ==
    ASSUME TypeOK, NEW s \in Streams, NEW of \in {"event", "end"}, PostSessionWork(of, s)
    PROVE  /\ queue' \in Seq(Items)
           /\ \/ queue' = queue
              \/ queue' = Append(queue, [of |-> of, stream |-> s])
  BY AppendItem DEF PostSessionWork, TypeOK, Items

(* The initial state.                                                      *)
LEMMA InvInit == Init => Inv
<1> SUFFICES ASSUME Init PROVE Inv
  OBVIOUS
<1> USE ClientConstants DEF ClientConstants, Init, Streams
<1>1. TypeOK
  <2>1. queue \in Seq(Items)
    BY EmptySeq
  <2>2. /\ down \subseteq {"node", "module", "manager"}
        /\ cancelled \subseteq Streams /\ over \subseteq Streams
    OBVIOUS
  <2>3. /\ sid \in 0 .. MaxSessions /\ sent \in 0 .. MaxEvents /\ thread \in 0 .. MaxStreams
        /\ context \in 0 .. MaxStreams /\ made \in 0 .. MaxStreams
    OBVIOUS
  <2>4. reader \in [Streams -> {"none", "open", "loop", "read", "event", "call", "finish",
                                "ended", "done"}]
    OBVIOUS
  <2> QED BY <2>1, <2>2, <2>3, <2>4 DEF TypeOK, Items
<1>2. OneReader /\ CancelledIsStopped /\ QueueOfStarted /\ QueueInOrder
  BY DEF OneReader, CancelledIsStopped, QueueOfStarted, QueueInOrder, Live
<1>3. ShutdownInOrder /\ CallsCancelled
  BY DEF ShutdownInOrder, CallsCancelled
<1> QED BY <1>1, <1>2, <1>3 DEF Inv

(* Every step keeps the types.                                             *)
LEMMA TypeNext == Inv /\ Next => TypeOK'
<1> SUFFICES ASSUME Inv, Next PROVE TypeOK'
  OBVIOUS
<1> USE ClientConstants DEF ClientConstants, Inv, TypeOK, ShutdownInOrder, Streams,
        handlers, stream, encoder, network
<1>1. CASE Register
  BY <1>1 DEF Register
<1>2. CASE HeartbeatFails
  BY <1>2 DEF HeartbeatFails
<1>3. CASE Shutdown
  BY <1>3 DEF Shutdown
<1>4. CASE EnterPairingState
  BY <1>4 DEF EnterPairingState, StartEventStream
<1>5. CASE HandleWork
  <2>1. queue' \in Seq(Items)
    BY <1>5, TailItems DEF HandleWork, Items
  <2>2. ex' \in {"idle", "spawn"} /\ running' \in BOOLEAN
    BY <1>5 DEF HandleWork, StartEventStream
  <2> QED BY <1>5, <2>1, <2>2 DEF HandleWork, Items
<1>6. CASE Spawn
  BY <1>6 DEF Spawn
<1>7. CASE StopEventStream
  <2>1. CASE ex = "flag"
    BY <1>7, <2>1 DEF StopEventStream
  <2>2. CASE ex = "cancel"
    <3>1. cancelled' \subseteq 1 .. MaxStreams
      <4>1. context = 0 \/ context \in 1 .. MaxStreams
        OBVIOUS
      <4>2. TryCancel(context)
        BY <1>7, <2>2 DEF StopEventStream
      <4> QED BY <4>1, <4>2 DEF TryCancel
    <3> QED BY <1>7, <2>2, <3>1 DEF StopEventStream
  <2> QED BY <1>7, <2>1, <2>2 DEF StopEventStream
<1>8. CASE StopJoin
  <2>1. ex' \in {"gone", "idle"} /\ thread' = 0 /\ context' = 0 /\ registered' \in BOOLEAN
    BY <1>8 DEF StopJoin
  <2> QED BY <1>8, <2>1 DEF StopJoin
<1>9. CASE ClearCallbacks
  <2>1. queue' \in Seq(Items)
    BY <1>9, EmptySeq DEF ClearCallbacks
  <2> QED BY <1>9, <2>1 DEF ClearCallbacks, Items
<1>10. CASE ModuleStop
  BY <1>10 DEF ModuleStop
<1>11. CASE RefuseCalls
  BY <1>11 DEF RefuseCalls
<1>12. CASE CancelPendingRpcs
  BY <1>12 DEF CancelPendingRpcs, TryCancel
<1>13. CASE EncoderStep
  <2>1. CASE CallEnters
    BY <2>1 DEF CallEnters
  <2>2. CASE RpcScope
    BY <2>2 DEF RpcScope
  <2>3. CASE CallReturns
    BY <2>3 DEF CallReturns
  <2>4. CASE RpcScopeEnds
    BY <2>4 DEF RpcScopeEnds
  <2> QED BY <1>13, <2>1, <2>2, <2>3, <2>4 DEF EncoderStep
<1>14. ASSUME NEW s \in Streams, ReaderOpens(s) PROVE TypeOK'
  BY <1>14 DEF ReaderOpens
<1>15. ASSUME NEW s \in Streams, ReaderTests(s) PROVE TypeOK'
  BY <1>15 DEF ReaderTests
<1>16. ASSUME NEW s \in Streams, ReadsMessage(s) PROVE TypeOK'
  BY <1>16 DEF ReadsMessage
<1>17. ASSUME NEW s \in Streams, ReadsEnd(s) PROVE TypeOK'
  BY <1>17 DEF ReadsEnd
<1>18. ASSUME NEW s \in Streams, TestsCallback(s) PROVE TypeOK'
  BY <1>18 DEF TestsCallback
<1>19. ASSUME NEW s \in Streams, PostsEvent(s) \/ PostsEnd(s) PROVE TypeOK'
  <2>1. queue' \in Seq(Items)
    BY <1>19, PostedItem DEF PostsEvent, PostsEnd, Items
  <2>2. reader' \in [Streams -> {"none", "open", "loop", "read", "event", "call", "finish",
                                 "ended", "done"}]
    BY <1>19 DEF PostsEvent, PostsEnd
  <2>3. CASE PostsEvent(s)
    BY <2>1, <2>2, <2>3 DEF PostsEvent, Items
  <2>4. CASE PostsEnd(s)
    BY <2>1, <2>2, <2>4 DEF PostsEnd, Items
  <2> QED BY <1>19, <2>3, <2>4
<1>20. ASSUME NEW s \in Streams, ReaderFinishes(s) PROVE TypeOK'
  BY <1>20 DEF ReaderFinishes
<1>21. ASSUME NEW s \in Streams, StreamBreaks(s) PROVE TypeOK'
  BY <1>21 DEF StreamBreaks
<1> QED BY <1>1, <1>2, <1>3, <1>4, <1>5, <1>6, <1>7, <1>8, <1>9, <1>10, <1>11, <1>12, <1>13,
           <1>14, <1>15, <1>16, <1>17, <1>18, <1>19, <1>20, <1>21
        DEF Next, Destructor, ReaderStep

-----------------------------------------------------------------------------
(* The queue: what a step does to it, and that it stays in order.          *)
LEMMA QueueSteps ==
    Next => \/ UNCHANGED queue
            \/ HandleWork \/ ClearCallbacks
            \/ \E s \in Streams : PostsEvent(s) \/ PostsEnd(s)
  BY DEF Next, Destructor, ReaderStep, EncoderStep, Register, EnterPairingState, HeartbeatFails,
         Spawn, StopEventStream, StopJoin, Shutdown, ModuleStop, RefuseCalls, CancelPendingRpcs,
         ReaderOpens, ReaderTests, ReadsMessage, ReadsEnd, TestsCallback, ReaderFinishes,
         StreamBreaks, CallEnters, RpcScope, CallReturns, RpcScopeEnds

(* A live reader is of the newest stream and has not reported its end, so  *)
(* that everything queued comes before what it posts.                      *)
LEMMA PostsInOrder ==
    ASSUME Inv, NEW s \in Streams, reader[s] \in {"call", "ended"},
           NEW of \in {"event", "end"}, queue' = Append(queue, [of |-> of, stream |-> s])
    PROVE  QueueInOrder'
<1> DEFINE x == [of |-> of, stream |-> s]
<1>1. queue \in Seq(Items) /\ x \in Items
  BY DEF Inv, TypeOK, Items
<1>2. \A i \in 1 .. Len(queue) : Before(queue[i], x)
  <2> SUFFICES ASSUME NEW i \in 1 .. Len(queue) PROVE Before(queue[i], x)
    OBVIOUS
  <2>1. s = made /\ queue[i].stream <= s
    BY ClientConstants DEF Inv, OneReader, QueueOfStarted, Live, Streams
  <2>2. queue[i] \in Items
    BY <1>1
  <2>3. CASE queue[i].stream = s
    BY <2>2, <2>3 DEF Inv, QueueOfStarted, Items, Before
  <2>4. CASE queue[i].stream < s
    BY <2>4 DEF Before
  <2> QED BY <2>1, <2>2, <2>3, <2>4, ClientConstants DEF Items, Streams, ClientConstants
<1>3. /\ Len(queue') = Len(queue) + 1 /\ queue'[Len(queue) + 1] = x
      /\ \A i \in 1 .. Len(queue) : queue'[i] = queue[i]
  BY <1>1, AppendItem
<1>4. Len(queue) \in Nat
  BY <1>1
<1> HIDE DEF x
<1> QED BY <1>2, <1>3, <1>4 DEF Inv, QueueInOrder

\* Every step keeps the queued reports in the order of their streams.
LEMMA QueueInOrderNext == Inv /\ Next => QueueInOrder'
<1> SUFFICES ASSUME Inv, Next PROVE QueueInOrder'
  OBVIOUS
<1>1. CASE UNCHANGED queue
  BY <1>1 DEF Inv, QueueInOrder
<1>2. CASE HandleWork
  <2>1. queue \in Seq(Items) /\ queue # <<>> /\ queue' = Tail(queue)
    BY <1>2 DEF HandleWork, Inv, TypeOK, Items
  <2>2. /\ Len(queue) \in Nat /\ Len(queue') = Len(queue) - 1
        /\ \A i \in 1 .. Len(queue) - 1 : queue'[i] = queue[i + 1]
    BY <2>1, TailItems
  <2> QED BY <2>2 DEF Inv, QueueInOrder
<1>3. CASE ClearCallbacks
  BY <1>3 DEF ClearCallbacks, QueueInOrder
<1>4. ASSUME NEW s \in Streams, PostsEvent(s) \/ PostsEnd(s) PROVE QueueInOrder'
  <2>1. PICK of \in {"event", "end"} :
            \/ UNCHANGED queue
            \/ queue' = Append(queue, [of |-> of, stream |-> s])
    BY <1>4 DEF PostsEvent, PostsEnd, PostSessionWork
  <2>2. reader[s] \in {"call", "ended"}
    BY <1>4 DEF PostsEvent, PostsEnd
  <2> QED BY <1>1, <2>1, <2>2, PostsInOrder
<1> QED BY <1>1, <1>2, <1>3, <1>4, QueueSteps

-----------------------------------------------------------------------------
(* At most one reader is alive.                                            *)
LEMMA OneReaderNext == Inv /\ Next => OneReader'
<1> SUFFICES ASSUME Inv, Next PROVE OneReader'
  OBVIOUS
<1> USE ClientConstants DEF ClientConstants, Inv, TypeOK, Streams, OneReader, ShutdownInOrder,
Live, handlers, stream, encoder, network
<1>1. CASE Register
  BY <1>1 DEF Register
<1>2. CASE HeartbeatFails
  BY <1>2 DEF HeartbeatFails
<1>3. CASE Shutdown
  BY <1>3 DEF Shutdown
<1>4. CASE EnterPairingState
  BY <1>4 DEF EnterPairingState, StartEventStream
<1>5. CASE HandleWork
  BY <1>5 DEF HandleWork, StartEventStream
<1>6. CASE Spawn
  BY <1>6 DEF Spawn, Joinable
<1>7. CASE StopEventStream
  BY <1>7 DEF StopEventStream, TryCancel
<1>8. CASE StopJoin
  BY <1>8 DEF StopJoin, Joinable
<1>9. CASE ClearCallbacks
  BY <1>9 DEF ClearCallbacks
<1>10. CASE ModuleStop
  BY <1>10 DEF ModuleStop
<1>11. CASE RefuseCalls
  BY <1>11 DEF RefuseCalls
<1>12. CASE CancelPendingRpcs
  BY <1>12 DEF CancelPendingRpcs, TryCancel
<1>13. CASE EncoderStep
  BY <1>13 DEF EncoderStep, CallEnters, RpcScope, CallReturns, RpcScopeEnds
<1>14. ASSUME NEW s \in Streams, ReaderOpens(s) PROVE OneReader'
  BY <1>14 DEF ReaderOpens
<1>15. ASSUME NEW s \in Streams, ReaderTests(s) PROVE OneReader'
  BY <1>15 DEF ReaderTests
<1>16. ASSUME NEW s \in Streams, ReadsMessage(s) PROVE OneReader'
  BY <1>16 DEF ReadsMessage
<1>17. ASSUME NEW s \in Streams, ReadsEnd(s) PROVE OneReader'
  BY <1>17 DEF ReadsEnd
<1>18. ASSUME NEW s \in Streams, TestsCallback(s) PROVE OneReader'
  BY <1>18 DEF TestsCallback
<1>19. ASSUME NEW s \in Streams, PostsEvent(s) PROVE OneReader'
  BY <1>19 DEF PostsEvent
<1>20. ASSUME NEW s \in Streams, PostsEnd(s) PROVE OneReader'
  BY <1>20 DEF PostsEnd
<1>21. ASSUME NEW s \in Streams, ReaderFinishes(s) PROVE OneReader'
  BY <1>21 DEF ReaderFinishes
<1>22. ASSUME NEW s \in Streams, StreamBreaks(s) PROVE OneReader'
  BY <1>22 DEF StreamBreaks
<1> QED BY <1>1, <1>2, <1>3, <1>4, <1>5, <1>6, <1>7, <1>8, <1>9, <1>10, <1>11, <1>12, <1>13,
           <1>14, <1>15, <1>16, <1>17, <1>18, <1>19, <1>20, <1>21, <1>22
        DEF Next, Destructor, ReaderStep

(* A cancelled stream reports nothing.                                     *)
LEMMA CancelledIsStoppedNext == Inv /\ Next => CancelledIsStopped'
<1> SUFFICES ASSUME Inv, Next PROVE CancelledIsStopped'
  OBVIOUS
<1> USE ClientConstants DEF ClientConstants, Inv, TypeOK, Streams, OneReader,
CancelledIsStopped, ShutdownInOrder, Live, handlers, stream, encoder, network
<1>1. CASE Register
  BY <1>1 DEF Register
<1>2. CASE HeartbeatFails
  BY <1>2 DEF HeartbeatFails
<1>3. CASE Shutdown
  BY <1>3 DEF Shutdown
<1>4. CASE EnterPairingState
  BY <1>4 DEF EnterPairingState, StartEventStream
<1>5. CASE HandleWork
  BY <1>5 DEF HandleWork, StartEventStream
<1>6. CASE Spawn
  BY <1>6 DEF Spawn, Joinable
<1>7. CASE StopEventStream
  BY <1>7 DEF StopEventStream, TryCancel
<1>8. CASE StopJoin
  BY <1>8 DEF StopJoin, Joinable
<1>9. CASE ClearCallbacks
  BY <1>9 DEF ClearCallbacks
<1>10. CASE ModuleStop
  BY <1>10 DEF ModuleStop
<1>11. CASE RefuseCalls
  BY <1>11 DEF RefuseCalls
<1>12. CASE CancelPendingRpcs
  BY <1>12 DEF CancelPendingRpcs, TryCancel
<1>13. CASE EncoderStep
  BY <1>13 DEF EncoderStep, CallEnters, RpcScope, CallReturns, RpcScopeEnds
<1>14. ASSUME NEW s \in Streams, ReaderOpens(s) PROVE CancelledIsStopped'
  BY <1>14 DEF ReaderOpens
<1>15. ASSUME NEW s \in Streams, ReaderTests(s) PROVE CancelledIsStopped'
  BY <1>15 DEF ReaderTests
<1>16. ASSUME NEW s \in Streams, ReadsMessage(s) PROVE CancelledIsStopped'
  BY <1>16 DEF ReadsMessage
<1>17. ASSUME NEW s \in Streams, ReadsEnd(s) PROVE CancelledIsStopped'
  BY <1>17 DEF ReadsEnd
<1>18. ASSUME NEW s \in Streams, TestsCallback(s) PROVE CancelledIsStopped'
  BY <1>18 DEF TestsCallback
<1>19. ASSUME NEW s \in Streams, PostsEvent(s) PROVE CancelledIsStopped'
  BY <1>19 DEF PostsEvent
<1>20. ASSUME NEW s \in Streams, PostsEnd(s) PROVE CancelledIsStopped'
  BY <1>20 DEF PostsEnd
<1>21. ASSUME NEW s \in Streams, ReaderFinishes(s) PROVE CancelledIsStopped'
  BY <1>21 DEF ReaderFinishes
<1>22. ASSUME NEW s \in Streams, StreamBreaks(s) PROVE CancelledIsStopped'
  BY <1>22 DEF StreamBreaks
<1> QED BY <1>1, <1>2, <1>3, <1>4, <1>5, <1>6, <1>7, <1>8, <1>9, <1>10, <1>11, <1>12, <1>13,
           <1>14, <1>15, <1>16, <1>17, <1>18, <1>19, <1>20, <1>21, <1>22
        DEF Next, Destructor, ReaderStep

(* What is queued stays true of the streams.                               *)
LEMMA QueuedItem ==
    ASSUME TypeOK, NEW i \in 1 .. Len(queue)
    PROVE  queue[i].stream \in Streams
<1>1. queue \in Seq(Items)
  BY DEF TypeOK, Items
<1>2. queue[i] \in Items
  BY <1>1
<1> QED BY <1>2 DEF Items

\* The items of a queue to which a report was posted.
LEMMA PostedQueue ==
    ASSUME TypeOK, NEW s \in Streams, NEW of \in {"event", "end"},
           queue' = Append(queue, [of |-> of, stream |-> s])
    PROVE  \A i \in 1 .. Len(queue') :
              \/ i \in 1 .. Len(queue) /\ queue'[i] = queue[i]
              \/ queue'[i] = [of |-> of, stream |-> s]
<1>1. queue \in Seq(Items) /\ [of |-> of, stream |-> s] \in Items
  BY DEF TypeOK, Items
<1> QED BY <1>1, AppendItem

\* What is queued stays of streams that were started.
LEMMA QueueOfStartedNext == Inv /\ Next => QueueOfStarted'
<1> SUFFICES ASSUME Inv, Next PROVE QueueOfStarted'
  OBVIOUS
<1> USE ClientConstants DEF ClientConstants, Inv, TypeOK, Streams, OneReader, QueueOfStarted,
CancelledIsStopped, ShutdownInOrder, Live, handlers, stream, encoder, network
<1>1. CASE Register
  BY <1>1 DEF Register
<1>2. CASE HeartbeatFails
  BY <1>2 DEF HeartbeatFails
<1>3. CASE Shutdown
  BY <1>3 DEF Shutdown
<1>4. CASE EnterPairingState
  BY <1>4 DEF EnterPairingState, StartEventStream
<1>5. CASE HandleWork
  BY <1>5 DEF HandleWork, StartEventStream
<1>6. CASE Spawn
  <2> SUFFICES ASSUME NEW i \in 1 .. Len(queue)
               PROVE  /\ queue[i].stream <= made'
                      /\ queue[i].of = "end" =>
                            queue[i].stream \in over' /\ reader'[queue[i].stream] = "done"
    BY <1>6 DEF Spawn
  <2>1. queue[i].stream \in Streams
    BY QueuedItem
  <2>2. queue[i].stream # made + 1 /\ queue[i].stream <= made + 1
    BY <2>1
  <2> QED BY <1>6, <2>1, <2>2 DEF Spawn
<1>7. CASE StopEventStream
  BY <1>7 DEF StopEventStream, TryCancel
<1>8. CASE StopJoin
  BY <1>8 DEF StopJoin, Joinable
<1>9. CASE ClearCallbacks
  BY <1>9 DEF ClearCallbacks
<1>10. CASE ModuleStop
  BY <1>10 DEF ModuleStop
<1>11. CASE RefuseCalls
  BY <1>11 DEF RefuseCalls
<1>12. CASE CancelPendingRpcs
  BY <1>12 DEF CancelPendingRpcs, TryCancel
<1>13. CASE EncoderStep
  BY <1>13 DEF EncoderStep, CallEnters, RpcScope, CallReturns, RpcScopeEnds
<1>14. ASSUME NEW s \in Streams, ReaderOpens(s) PROVE QueueOfStarted'
  BY <1>14 DEF ReaderOpens
<1>15. ASSUME NEW s \in Streams, ReaderTests(s) PROVE QueueOfStarted'
  BY <1>15 DEF ReaderTests
<1>16. ASSUME NEW s \in Streams, ReadsMessage(s) PROVE QueueOfStarted'
  BY <1>16 DEF ReadsMessage
<1>17. ASSUME NEW s \in Streams, ReadsEnd(s) PROVE QueueOfStarted'
  BY <1>17 DEF ReadsEnd
<1>18. ASSUME NEW s \in Streams, TestsCallback(s) PROVE QueueOfStarted'
  BY <1>18 DEF TestsCallback
<1>19. ASSUME NEW s \in Streams, PostsEvent(s) PROVE QueueOfStarted'
  <2>1. \/ UNCHANGED queue
        \/ queue' = Append(queue, [of |-> "event", stream |-> s])
    BY <1>19 DEF PostsEvent, PostSessionWork
  <2>2. \A i \in 1 .. Len(queue) : queue[i].of = "end" => queue[i].stream # s
    BY <1>19 DEF PostsEvent
  <2>3. CASE UNCHANGED queue
    BY <1>19, <2>2, <2>3 DEF PostsEvent
  <2>4. CASE queue' = Append(queue, [of |-> "event", stream |-> s])
    BY <1>19, <2>2, <2>4, PostedQueue DEF PostsEvent
  <2> QED BY <2>1, <2>3, <2>4
<1>20. ASSUME NEW s \in Streams, PostsEnd(s) PROVE QueueOfStarted'
  <2>1. \/ UNCHANGED queue
        \/ /\ queue' = Append(queue, [of |-> "end", stream |-> s])
           /\ "module" \notin down
    BY <1>20 DEF PostsEnd, PostSessionWork
  <2>2. \A i \in 1 .. Len(queue) : queue[i].of = "end" => queue[i].stream # s
    BY <1>20 DEF PostsEnd
  <2>3. CASE UNCHANGED queue
    BY <1>20, <2>2, <2>3 DEF PostsEnd
  <2>4. CASE "module" \notin down /\ queue' = Append(queue, [of |-> "end", stream |-> s])
    BY <1>20, <2>2, <2>4, PostedQueue DEF PostsEnd
  <2> QED BY <2>1, <2>3, <2>4
<1>21. ASSUME NEW s \in Streams, ReaderFinishes(s) PROVE QueueOfStarted'
  BY <1>21 DEF ReaderFinishes
<1>22. ASSUME NEW s \in Streams, StreamBreaks(s) PROVE QueueOfStarted'
  BY <1>22 DEF StreamBreaks
<1> QED BY <1>1, <1>2, <1>3, <1>4, <1>5, <1>6, <1>7, <1>8, <1>9, <1>10, <1>11, <1>12, <1>13,
           <1>14, <1>15, <1>16, <1>17, <1>18, <1>19, <1>20, <1>21, <1>22
        DEF Next, Destructor, ReaderStep

(* The order of a shutdown.                                                *)
LEMMA ShutdownInOrderNext == Inv /\ Next => ShutdownInOrder'
<1> SUFFICES ASSUME Inv, Next PROVE ShutdownInOrder'
  OBVIOUS
<1> USE ClientConstants DEF ClientConstants, Inv, TypeOK, Streams, ShutdownInOrder, handlers,
stream, encoder, network
<1>1. CASE Register
  BY <1>1 DEF Register
<1>2. CASE HeartbeatFails
  BY <1>2 DEF HeartbeatFails
<1>3. CASE Shutdown
  BY <1>3 DEF Shutdown
<1>4. CASE EnterPairingState
  BY <1>4 DEF EnterPairingState, StartEventStream
<1>5. CASE HandleWork
  BY <1>5 DEF HandleWork, StartEventStream
<1>6. CASE Spawn
  BY <1>6 DEF Spawn, Joinable
<1>7. CASE StopEventStream
  BY <1>7 DEF StopEventStream, TryCancel
<1>8. CASE StopJoin
  BY <1>8 DEF StopJoin, Joinable
<1>9. CASE ClearCallbacks
  BY <1>9 DEF ClearCallbacks
<1>10. CASE ModuleStop
  BY <1>10 DEF ModuleStop
<1>11. CASE RefuseCalls
  BY <1>11 DEF RefuseCalls
<1>12. CASE CancelPendingRpcs
  BY <1>12 DEF CancelPendingRpcs, TryCancel
<1>13. CASE EncoderStep
  BY <1>13 DEF EncoderStep, CallEnters, RpcScope, CallReturns, RpcScopeEnds
<1>14. ASSUME NEW s \in Streams, ReaderOpens(s) PROVE ShutdownInOrder'
  BY <1>14 DEF ReaderOpens
<1>15. ASSUME NEW s \in Streams, ReaderTests(s) PROVE ShutdownInOrder'
  BY <1>15 DEF ReaderTests
<1>16. ASSUME NEW s \in Streams, ReadsMessage(s) PROVE ShutdownInOrder'
  BY <1>16 DEF ReadsMessage
<1>17. ASSUME NEW s \in Streams, ReadsEnd(s) PROVE ShutdownInOrder'
  BY <1>17 DEF ReadsEnd
<1>18. ASSUME NEW s \in Streams, TestsCallback(s) PROVE ShutdownInOrder'
  BY <1>18 DEF TestsCallback
<1>19. ASSUME NEW s \in Streams, PostsEvent(s) PROVE ShutdownInOrder'
  BY <1>19 DEF PostsEvent
<1>20. ASSUME NEW s \in Streams, PostsEnd(s) PROVE ShutdownInOrder'
  BY <1>20 DEF PostsEnd
<1>21. ASSUME NEW s \in Streams, ReaderFinishes(s) PROVE ShutdownInOrder'
  BY <1>21 DEF ReaderFinishes
<1>22. ASSUME NEW s \in Streams, StreamBreaks(s) PROVE ShutdownInOrder'
  BY <1>22 DEF StreamBreaks
<1> QED BY <1>1, <1>2, <1>3, <1>4, <1>5, <1>6, <1>7, <1>8, <1>9, <1>10, <1>11, <1>12, <1>13,
           <1>14, <1>15, <1>16, <1>17, <1>18, <1>19, <1>20, <1>21, <1>22
        DEF Next, Destructor, ReaderStep

(* The calls a shutdown finds.                                             *)
LEMMA CallsCancelledNext == Inv /\ Next => CallsCancelled'
<1> SUFFICES ASSUME Inv, Next PROVE CallsCancelled'
  OBVIOUS
<1> USE ClientConstants DEF ClientConstants, Inv, TypeOK, Streams, ShutdownInOrder,
CallsCancelled, handlers, stream, encoder, network
<1>1. CASE Register
  BY <1>1 DEF Register
<1>2. CASE HeartbeatFails
  BY <1>2 DEF HeartbeatFails
<1>3. CASE Shutdown
  BY <1>3 DEF Shutdown
<1>4. CASE EnterPairingState
  BY <1>4 DEF EnterPairingState, StartEventStream
<1>5. CASE HandleWork
  BY <1>5 DEF HandleWork, StartEventStream
<1>6. CASE Spawn
  BY <1>6 DEF Spawn, Joinable
<1>7. CASE StopEventStream
  BY <1>7 DEF StopEventStream, TryCancel
<1>8. CASE StopJoin
  BY <1>8 DEF StopJoin, Joinable
<1>9. CASE ClearCallbacks
  BY <1>9 DEF ClearCallbacks
<1>10. CASE ModuleStop
  BY <1>10 DEF ModuleStop
<1>11. CASE RefuseCalls
  BY <1>11 DEF RefuseCalls
<1>12. CASE CancelPendingRpcs
  BY <1>12 DEF CancelPendingRpcs, TryCancel
<1>13. CASE EncoderStep
  BY <1>13 DEF EncoderStep, CallEnters, RpcScope, CallReturns, RpcScopeEnds
<1>14. ASSUME NEW s \in Streams, ReaderOpens(s) PROVE CallsCancelled'
  BY <1>14 DEF ReaderOpens
<1>15. ASSUME NEW s \in Streams, ReaderTests(s) PROVE CallsCancelled'
  BY <1>15 DEF ReaderTests
<1>16. ASSUME NEW s \in Streams, ReadsMessage(s) PROVE CallsCancelled'
  BY <1>16 DEF ReadsMessage
<1>17. ASSUME NEW s \in Streams, ReadsEnd(s) PROVE CallsCancelled'
  BY <1>17 DEF ReadsEnd
<1>18. ASSUME NEW s \in Streams, TestsCallback(s) PROVE CallsCancelled'
  BY <1>18 DEF TestsCallback
<1>19. ASSUME NEW s \in Streams, PostsEvent(s) PROVE CallsCancelled'
  BY <1>19 DEF PostsEvent
<1>20. ASSUME NEW s \in Streams, PostsEnd(s) PROVE CallsCancelled'
  BY <1>20 DEF PostsEnd
<1>21. ASSUME NEW s \in Streams, ReaderFinishes(s) PROVE CallsCancelled'
  BY <1>21 DEF ReaderFinishes
<1>22. ASSUME NEW s \in Streams, StreamBreaks(s) PROVE CallsCancelled'
  BY <1>22 DEF StreamBreaks
<1> QED BY <1>1, <1>2, <1>3, <1>4, <1>5, <1>6, <1>7, <1>8, <1>9, <1>10, <1>11, <1>12, <1>13,
           <1>14, <1>15, <1>16, <1>17, <1>18, <1>19, <1>20, <1>21, <1>22
        DEF Next, Destructor, ReaderStep

-----------------------------------------------------------------------------
\* Every step preserves the invariant.
LEMMA InvNext == Inv /\ [Next]_vars => Inv'
<1> SUFFICES ASSUME Inv, [Next]_vars PROVE Inv'
  OBVIOUS
<1>1. CASE Next
  BY <1>1, TypeNext, OneReaderNext, CancelledIsStoppedNext, QueueOfStartedNext,
     QueueInOrderNext, ShutdownInOrderNext, CallsCancelledNext DEF Inv
<1>2. CASE UNCHANGED vars
  BY <1>2 DEF vars, handlers, stream, encoder, network, Inv, TypeOK, OneReader,
     CancelledIsStopped, QueueOfStarted, QueueInOrder, ShutdownInOrder, CallsCancelled
<1> QED BY <1>1, <1>2

(* Every state the signaling client reaches satisfies the invariant.       *)
THEOREM ClientInvariant == Spec => []Inv
  BY InvInit, InvNext, PTL DEF Spec

(* What the readers of StartEventStream hand to postSessionWork is in the  *)
(* order of the streams, an end is a stream's last item, and only a stream *)
(* that the server or the network ended reports one.                       *)
THEOREM ReportsInOrder == Spec => []StreamReports
<1>1. Inv => StreamReports
  <2> SUFFICES ASSUME Inv PROVE StreamReports
    OBVIOUS
  <2>1. \A i \in 1 .. Len(queue) :
           /\ queue[i].of = "end" => queue[i].stream \in over
           /\ \A j \in i + 1 .. Len(queue) : Before(queue[i], queue[j])
    BY DEF Inv, QueueOfStarted, QueueInOrder
  <2>2. \A s \in Streams, i \in 1 .. Len(queue) :
           reader[s] \in {"event", "call", "ended"} => queue[i].stream <= s
    BY ClientConstants DEF Inv, TypeOK, OneReader, QueueOfStarted, Live, Streams, ClientConstants
  <2> QED BY <2>1, <2>2 DEF StreamReports, Before
<1> QED BY <1>1, ClientInvariant, PTL

(* CancelPendingRpcs finds every call that RpcScope did not refuse.        *)
THEOREM PendingCallsCancelled == Spec => []CallsCancelled
<1>1. Inv => CallsCancelled
  BY DEF Inv
<1> QED BY <1>1, ClientInvariant, PTL
=============================================================================
