------------------------------ MODULE GrpcClient ------------------------------
(***************************************************************************)
(* The signaling client's threads: the event stream's reader, the handlers *)
(* that start and stop the stream, a call another thread has pending, and  *)
(* the shutdown of all of them by MainNode's destructor.                   *)
(*                                                                         *)
(* The handlers share one mutually exclusive callback group and the        *)
(* destructor runs once the executor has returned, so that the two are one *)
(* sequence of steps, `ex`.  Every stream has a reader thread of its own,  *)
(* which runs beside it and hands events, and the stream's end, to the     *)
(* session through the work queue.  The encoder thread publishes the video *)
(* config in a call of its own.                                            *)
(*                                                                         *)
(* gRPC is external: TryCancel, before or during a call, makes the call    *)
(* end; Read blocks until a message or the end, Finish until the end.      *)
(***************************************************************************)
EXTENDS Naturals, Sequences

CONSTANTS
    MaxSessions,    \* bound: registrations
    MaxStreams,     \* bound: event streams started
    MaxEvents       \* bound: events the server sends

ASSUME ClientConstants == MaxSessions \in Nat /\ MaxStreams \in Nat /\ MaxEvents \in Nat

Streams == 1 .. MaxStreams

VARIABLES
    ex,             \* where the handlers, later the destructor, are
    sid,            \* session_id_, 0 when empty
    registered,     \* GrpcModule::registered_
    running,        \* stream_running_
    thread,         \* the stream of stream_thread_, 0 when not joinable
    context,        \* the stream of stream_context_, 0 when null
    made,           \* streams started so far
    reader,         \* where each stream's reader is
    queue,          \* session_work_queue_: what each item is, and of which stream
    callbacks,      \* GrpcModule's callbacks are set
    down,           \* shutting_down_ of "node", "module" and "manager"
    call,           \* the encoder's call
    callCancelled,  \* TryCancel reached it
    cancelled,      \* external: streams whose context was cancelled
    over,           \* external: streams the server or the network ended
    sent            \* external: events sent

handlers == <<ex, sid, registered>>
stream   == <<running, thread, context, made>>
encoder  == <<call, callCancelled>>
network  == <<over, sent>>
vars == <<handlers, stream, reader, queue, callbacks, down, encoder, cancelled, network>>

(* The values of the variables.                                            *)
TypeOK ==
    /\ ex \in {"idle", "spawn", "flag", "cancel", "join", "clear", "stop", "refuse",
               "cancelCalls", "gone"}
    /\ sid \in 0 .. MaxSessions /\ registered \in BOOLEAN
    /\ running \in BOOLEAN /\ callbacks \in BOOLEAN /\ callCancelled \in BOOLEAN
    /\ thread \in 0 .. MaxStreams /\ context \in 0 .. MaxStreams /\ made \in 0 .. MaxStreams
    /\ reader \in [Streams -> {"none", "open", "loop", "read", "event", "call", "finish",
                               "ended", "done"}]
    /\ queue \in Seq([of : {"event", "end"}, stream : Streams])
    /\ down \subseteq {"node", "module", "manager"}
    /\ call \in {"idle", "entered", "pending", "answered"}
    /\ cancelled \subseteq Streams /\ over \subseteq Streams /\ sent \in 0 .. MaxEvents

Init ==
    /\ ex = "idle" /\ sid = 0 /\ registered = FALSE
    /\ running = FALSE /\ thread = 0 /\ context = 0 /\ made = 0
    /\ reader = [s \in Streams |-> "none"]
    /\ queue = <<>> /\ callbacks = TRUE /\ down = {}
    /\ call = "idle" /\ callCancelled = FALSE
    /\ cancelled = {} /\ over = {} /\ sent = 0

TryCancel(s) == cancelled' = IF s = 0 THEN cancelled ELSE cancelled \cup {s}
Joinable == thread # 0 => reader[thread] = "done"

-----------------------------------------------------------------------------
(* The handlers.                                                           *)

(* Register: the server answers with a new session.                        *)
Register ==
    /\ ex = "idle" /\ ~registered /\ sid < MaxSessions
    /\ sid' = sid + 1 /\ registered' = TRUE
    /\ UNCHANGED <<ex, stream, reader, queue, callbacks, down, encoder, cancelled, network>>

(* StartEventStream, up to the join of the reader of before.               *)
StartEventStream ==
    IF sid = 0 \/ running THEN ex' = "idle" /\ UNCHANGED running
    ELSE made < MaxStreams /\ running' = TRUE /\ ex' = "spawn"

(* The rest of it: join, a new context and a new reader.                   *)
Spawn ==
    /\ ex = "spawn" /\ Joinable /\ ex' = "idle"
    /\ made' = made + 1 /\ thread' = made + 1 /\ context' = made + 1
    /\ reader' = [reader EXCEPT ![made + 1] = "open"]
    /\ UNCHANGED <<sid, registered, running, queue, callbacks, down, encoder, cancelled, network>>

(* enterPairingState, once the registered robot's UDP handshake is ready.  *)
EnterPairingState ==
    /\ ex = "idle" /\ registered /\ StartEventStream
    /\ UNCHANGED <<sid, registered, thread, context, made, reader, queue, callbacks, down,
                   encoder, cancelled, network>>

(* drainSessionWork takes an item.  The end of a stream leads back to      *)
(* pairing if the robot is registered; some events do so always.           *)
HandleWork ==
    /\ ex = "idle" /\ queue # <<>> /\ queue' = Tail(queue)
    /\ \/ Head(queue).of = "event" /\ UNCHANGED <<ex, running>>
       \/ (Head(queue).of = "event" \/ registered) /\ StartEventStream
       \/ Head(queue).of = "end" /\ ~registered /\ UNCHANGED <<ex, running>>
    /\ UNCHANGED <<sid, registered, thread, context, made, reader, callbacks, down, encoder,
                   cancelled, network>>

(* onHeartbeat gives the session up: StopEventStream begins.               *)
HeartbeatFails ==
    /\ ex = "idle" /\ registered /\ registered' = FALSE /\ ex' = "flag"
    /\ UNCHANGED <<sid, stream, reader, queue, callbacks, down, encoder, cancelled, network>>

\* Mutant: the context is cancelled before the flag is cleared.
StopClearsLate ==
    /\ ex \in {"flag", "cancel"}
    /\ IF ex = "flag" THEN TryCancel(context) /\ UNCHANGED running
                      ELSE running' = FALSE /\ UNCHANGED cancelled
    /\ ex' = IF ex = "flag" THEN "cancel" ELSE "join"
    /\ UNCHANGED <<sid, registered, thread, context, made, reader, queue, callbacks, down,
                   encoder, network>>

\* Mutant: the context is cancelled once the reader is joined.
StopJoinsFirst ==
    /\ \/ ex = "flag" /\ running' = FALSE /\ UNCHANGED cancelled /\ ex' = "cancel"
       \/ ex = "cancel" /\ Joinable /\ UNCHANGED running /\ TryCancel(context) /\ ex' = "join"
    /\ UNCHANGED <<sid, registered, thread, context, made, reader, queue, callbacks, down,
                   encoder, network>>

(* StopEventStream: the flag, then the context.                            *)
StopEventStream ==
    /\ \/ ex = "flag" /\ running' = FALSE /\ UNCHANGED cancelled /\ ex' = "cancel"
       \/ ex = "cancel" /\ UNCHANGED running /\ TryCancel(context) /\ ex' = "join"
    /\ UNCHANGED <<sid, registered, thread, context, made, reader, queue, callbacks, down,
                   encoder, network>>

(* Then the join.  The heartbeat's handler goes on to tear the session     *)
(* down; the destructor destroys the client.                               *)
StopJoin ==
    /\ ex = "join" /\ Joinable
    /\ thread' = 0 /\ context' = 0
    /\ ex' = IF "manager" \in down THEN "gone" ELSE "idle"
    /\ registered' = FALSE
    /\ UNCHANGED <<sid, running, made, reader, queue, callbacks, down, encoder, cancelled, network>>

-----------------------------------------------------------------------------
(* The destructor: ~MainNode and, in it, GrpcModule::stop.                 *)

(* The executor has returned.                                              *)
Shutdown ==
    /\ ex = "idle" /\ down = {} /\ ex' = "clear" /\ down' = {"node"}
    /\ UNCHANGED <<sid, registered, stream, reader, queue, callbacks, encoder, cancelled, network>>

ClearCallbacks ==
    /\ ex = "clear" /\ ex' = "stop" /\ callbacks' = FALSE /\ queue' = <<>>
    /\ UNCHANGED <<sid, registered, stream, reader, down, encoder, cancelled, network>>

ModuleStop ==
    /\ ex = "stop" /\ ex' = "refuse" /\ down' = down \cup {"module"}
    /\ UNCHANGED <<sid, registered, stream, reader, queue, callbacks, encoder, cancelled, network>>

(* CancelPendingRpcs: the flag, then what is pending and the stream.       *)
RefuseCalls ==
    /\ ex = "refuse" /\ ex' = "cancelCalls" /\ down' = down \cup {"manager"}
    /\ UNCHANGED <<sid, registered, stream, reader, queue, callbacks, encoder, cancelled, network>>

CancelPendingRpcs ==
    /\ ex = "cancelCalls" /\ ex' = "flag"
    /\ callCancelled' = (call = "pending") /\ TryCancel(context)
    /\ UNCHANGED <<sid, registered, stream, reader, queue, callbacks, down, call, network>>

Destructor == ClearCallbacks \/ ModuleStop \/ RefuseCalls \/ CancelPendingRpcs

-----------------------------------------------------------------------------
(* A reader thread.                                                        *)

(* The stream's call is made.                                              *)
ReaderOpens(s) ==
    /\ reader[s] = "open" /\ reader' = [reader EXCEPT ![s] = "loop"]
    /\ UNCHANGED <<handlers, stream, queue, callbacks, down, encoder, cancelled, network>>

ReaderTests(s) ==
    /\ reader[s] = "loop"
    /\ reader' = [reader EXCEPT ![s] = IF running THEN "read" ELSE "finish"]
    /\ UNCHANGED <<handlers, stream, queue, callbacks, down, encoder, cancelled, network>>

(* Read returns a message, which may have come before a cancellation.      *)
ReadsMessage(s) ==
    /\ reader[s] = "read" /\ sent < MaxEvents /\ s \notin over
    /\ sent' = sent + 1 /\ reader' = [reader EXCEPT ![s] = "event"]
    /\ UNCHANGED <<handlers, stream, queue, callbacks, down, encoder, cancelled, over>>

ReadsEnd(s) ==
    /\ reader[s] = "read" /\ s \in over \cup cancelled
    /\ reader' = [reader EXCEPT ![s] = "finish"]
    /\ UNCHANGED <<handlers, stream, queue, callbacks, down, encoder, cancelled, network>>

(* The lambda of startEventStream tests; its call of on_event_ follows.    *)
TestsCallback(s) ==
    /\ reader[s] = "event"
    /\ reader' = [reader EXCEPT ![s] = IF "module" \notin down /\ callbacks THEN "call" ELSE "loop"]
    /\ UNCHANGED <<handlers, stream, queue, callbacks, down, encoder, cancelled, network>>

(* postSessionWork, unless the node is shutting down.                      *)
PostSessionWork(of, s) ==
    queue' = IF "node" \in down THEN queue ELSE Append(queue, [of |-> of, stream |-> s])

(* A callback cleared since the test is called all the same.               *)
PostsEvent(s) ==
    /\ reader[s] = "call" /\ PostSessionWork("event", s)
    /\ reader' = [reader EXCEPT ![s] = "loop"]
    /\ UNCHANGED <<handlers, stream, callbacks, down, encoder, cancelled, network>>

(* Finish, and stream_running_.exchange(false): the end is unexpected if   *)
(* nobody has cleared the flag.                                            *)
ReaderFinishes(s) ==
    /\ reader[s] = "finish" /\ s \in over \cup cancelled
    /\ running' = FALSE
    /\ reader' = [reader EXCEPT ![s] = IF running THEN "ended" ELSE "done"]
    /\ UNCHANGED <<handlers, thread, context, made, queue, callbacks, down, encoder, cancelled,
                   network>>

PostsEnd(s) ==
    /\ reader[s] = "ended" /\ reader' = [reader EXCEPT ![s] = "done"]
    /\ IF "module" \notin down /\ callbacks THEN PostSessionWork("end", s) ELSE UNCHANGED queue
    /\ UNCHANGED <<handlers, stream, callbacks, down, encoder, cancelled, network>>

ReaderStep(s) ==
    \/ ReaderOpens(s) \/ ReaderTests(s) \/ ReadsEnd(s) \/ TestsCallback(s)
    \/ PostsEvent(s) \/ ReaderFinishes(s) \/ PostsEnd(s)

-----------------------------------------------------------------------------
(* The encoder thread's call, as long as there is a client to make it on.  *)

(* onSpsPpsCaptured goes as far as PublishStreamConfig's tests.            *)
CallEnters ==
    /\ call = "idle" /\ ex # "gone" /\ down = {} /\ sid # 0 /\ call' = "entered"
    /\ UNCHANGED <<handlers, stream, reader, queue, callbacks, down, callCancelled, cancelled, network>>

\* Mutant: the scope relies on the test the call began with.
RpcScopeUntested ==
    /\ call = "entered" /\ ex # "gone" /\ call' = "pending"
    /\ UNCHANGED <<handlers, stream, reader, queue, callbacks, down, callCancelled, cancelled, network>>

(* RpcScope, under the mutex: refused in a shutdown, or pending.           *)
RpcScope ==
    /\ call = "entered" /\ ex # "gone"
    /\ call' = IF "manager" \in down THEN "idle" ELSE "pending"
    /\ UNCHANGED <<handlers, stream, reader, queue, callbacks, down, callCancelled, cancelled, network>>

(* The call ends: it is answered, cancelled, or its deadline passes.       *)
CallReturns ==
    /\ call = "pending" /\ call' = "answered"
    /\ UNCHANGED <<handlers, stream, reader, queue, callbacks, down, callCancelled, cancelled, network>>

(* ~RpcScope takes the context out of the pending ones.                    *)
RpcScopeEnds ==
    /\ call = "answered" /\ ex # "gone" /\ call' = "idle" /\ callCancelled' = FALSE
    /\ UNCHANGED <<handlers, stream, reader, queue, callbacks, down, cancelled, network>>

EncoderStep == CallEnters \/ RpcScope \/ CallReturns \/ RpcScopeEnds

(* External: the server ends a stream, or the connection is lost.          *)
StreamBreaks(s) ==
    /\ reader[s] \in {"loop", "read", "event", "call"} /\ s \notin over
    /\ over' = over \cup {s}
    /\ UNCHANGED <<handlers, stream, reader, queue, callbacks, down, encoder, cancelled, sent>>

Next ==
    \/ Register \/ EnterPairingState \/ HandleWork \/ HeartbeatFails
    \/ Spawn \/ StopEventStream \/ StopJoin \/ Shutdown \/ Destructor
    \/ \E s \in Streams : ReaderStep(s) \/ ReadsMessage(s) \/ StreamBreaks(s)
    \/ EncoderStep

(* Every thread goes on while it can; a message or an end may never come.  *)
Fairness ==
    /\ WF_vars(Spawn) /\ WF_vars(StopEventStream) /\ WF_vars(StopJoin) /\ WF_vars(Destructor)
    /\ \A s \in Streams : WF_vars(ReaderStep(s))
    /\ WF_vars(RpcScope) /\ WF_vars(CallReturns) /\ WF_vars(RpcScopeEnds)

Spec == Init /\ [][Next]_vars /\ Fairness

-----------------------------------------------------------------------------
(* What the readers hand to the session is in the order of the streams: a  *)
(* stream's end is its last item and precedes all of a later stream.  Only *)
(* a stream the server or the network ended reports an end; one the robot  *)
(* stopped itself, which would tear down a session that has been           *)
(* registered since, does not.                                             *)
StreamReports ==
    /\ \A i \in 1 .. Len(queue) :
          /\ queue[i].of = "end" => queue[i].stream \in over
          /\ \A j \in i + 1 .. Len(queue) :
                \/ queue[i].stream < queue[j].stream
                \/ queue[i].stream = queue[j].stream /\ queue[i].of = "event"
    /\ \A s \in Streams, i \in 1 .. Len(queue) :
          reader[s] \in {"event", "call", "ended"} => queue[i].stream <= s

(* No call waits for its deadline in a shutdown: one that CancelPendingRpcs*)
(* does not find among the pending calls is refused.                       *)
CallsCancelled == ex \in {"flag", "cancel", "join", "gone"} /\ "manager" \in down
                  /\ call = "pending" => callCancelled

(* A heartbeat's StopEventStream returns, and so does the destructor's     *)
(* stop of the client: the reader they join cannot be waiting on them, nor *)
(* for a server that says nothing.                                         *)
ClientStops ==
    /\ ex \in {"spawn", "flag"} ~> ex \in {"idle", "gone"}
    /\ ex = "clear" ~> ex = "gone"

(* The client outlives the calls made on it.  It does not: the destructor  *)
(* destroys it before it has stopped the encoder thread.                   *)
ClientAliveInCall == call # "idle" => ex # "gone"

(* A callback is there when the reader calls it.  It is not: the           *)
(* destructor clears it between the reader's test and call.                *)
CallbackSetInCall == \A s \in Streams : reader[s] = "call" => callbacks
=============================================================================
