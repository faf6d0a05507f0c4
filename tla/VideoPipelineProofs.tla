------------------------- MODULE VideoPipelineProofs -------------------------
(***************************************************************************)
(* The joins of stopPipeline and the calls on the encoder, proved for any  *)
(* number of starts and of faults and for both formats.                    *)
(***************************************************************************)
EXTENDS VideoPipeline, TLAPS

Starting == {"p_check", "p_device", "p_fail", "p_enc", "p_encAssign", "p_eye", "p_eyeAssign",
             "p_ok"}
Hidden   == {"s_shutdown", "s_rest", "s_recorder"}
EyeJoined == Hidden \cup {"s_hide"}
DqJoined  == EyeJoined \cup {"s_eye"}
CapJoined == DqJoined \cup {"s_dq"}
EncJoined == CapJoined \cup {"s_again", "s_cap2"}
Stopping  == EncJoined \cup {"s_interrupt", "s_cap1", "s_enc"}

(* The types the argument uses.                                            *)
Types ==
    /\ pc = [t \in Threads |-> pc[t]] /\ slot \in [Workers \cup {"sup"} -> BOOLEAN]
    /\ running \in BOOLEAN /\ pipe \in BOOLEAN /\ published \in BOOLEAN
    /\ hw \in {"off", "on", "closing"}

(* The supervisor exists between the end of start and its join by stop, so *)
(* that it and the API never run startPipeline or stopPipeline together.   *)
OneOwner ==
    /\ pc["sup"] # "done" => slot["sup"]
    /\ slot["sup"] => \/ pc["api"] \in {"stop_clear", "join_sup"}
                      \/ pc["api"] = "idle" /\ running
    /\ pc["api"] \in Starting => running
    /\ pc["api"] \in Stopping \cup {"s_begin", "stop_clear", "join_sup"} => ~running

(* A worker that runs is in its slot, or its spawner is about to put it    *)
(* there or to wait for it.                                                *)
WorkersOwned ==
    /\ pc["enc"] # "done" => slot["enc"] \/ "p_encAssign" \in {pc["api"], pc["sup"]}
    /\ pc["eye"] # "done" => slot["eye"] \/ "p_eyeAssign" \in {pc["api"], pc["sup"]}
    /\ pc["cap"] # "done" => slot["cap"] \/ pc["enc"] = "e_capAssign"
    /\ pc["dq"] # "done" => slot["dq"] \/ pc["enc"] = "e_dqAssign"

(* The pipeline does not run.                                              *)
Down ==
    /\ \A w \in Workers : pc[w] = "done" /\ ~slot[w]
    /\ pc["rec"] = "done" /\ capturer # "on" /\ hw = "off" /\ ~published /\ ~pipe

DownBetween ==
    /\ pc["api"] = "idle" /\ ~running => Down
    /\ \A t \in {"api", "sup"} : pc[t] \in {"p_check", "p_device", "p_fail", "u_backoff"} => Down

(* How far startPipeline and stopPipeline have come.                       *)
Progress ==
    \A t \in {"api", "sup"} :
        /\ pc[t] \in {"p_enc", "p_encAssign", "p_eye", "p_eyeAssign"} => pipe
        /\ pc[t] = "p_enc" => \A w \in Workers : pc[w] = "done"
        /\ pc[t] \in Stopping => ~pipe
        /\ pc[t] \in EncJoined => pc["enc"] = "done" /\ ~slot["enc"]
        /\ pc[t] \in CapJoined => pc["cap"] = "done" /\ ~slot["cap"]
        /\ pc[t] \in DqJoined => pc["dq"] = "done" /\ ~slot["dq"]
        /\ pc[t] \in EyeJoined => pc["eye"] = "done" /\ ~slot["eye"]
        /\ pc[t] \in Hidden => ~published
        /\ pc[t] \in {"s_rest", "s_recorder"} => hw = "off"
        /\ pc[t] = "s_recorder" => capturer # "on"

(* The encoder is published exactly while NVENC is open and not closing.   *)
PublishedIsOpen == published <=> hw = "on"

Inv ==
    /\ Types /\ OneOwner /\ WorkersOwned /\ DownBetween /\ Progress /\ PublishedIsOpen
    /\ EncoderAliveInCall

-----------------------------------------------------------------------------
(* The API's own steps.                                                    *)
LEMMA ApiInv ==
    ASSUME Inv,
           ApiStart \/ ApiStartRefused \/ ApiStop \/ ApiSpawnSupervisor \/ ApiStopNotify \/
              ApiJoinSupervisor
    PROVE  Inv'
<1> USE DEF Inv, Types, OneOwner, WorkersOwned, Down, DownBetween, Progress, PublishedIsOpen,
           EncoderAliveInCall, InEncoderCall, Workers, Threads, Goto, Starting, Hidden, EyeJoined,
           DqJoined, CapJoined, EncJoined, Stopping, config, flags, parts, recVars, bounds
<1>1. CASE ApiStart
  BY <1>1 DEF ApiStart
<1>2. CASE ApiStartRefused
  BY <1>2 DEF ApiStartRefused, Fault
<1>3. CASE ApiStop
  <2>1. Types'
    BY <1>3 DEF ApiStop
  <2>2. OneOwner'
    BY <1>3 DEF ApiStop
  <2>3. WorkersOwned'
    BY <1>3 DEF ApiStop
  <2>4. DownBetween'
    BY <1>3 DEF ApiStop
  <2>5. Progress'
    BY <1>3 DEF ApiStop
  <2>6. PublishedIsOpen'
    BY <1>3 DEF ApiStop
  <2>7. EncoderAliveInCall'
    BY <1>3 DEF ApiStop
  <2> QED BY <2>1, <2>2, <2>3, <2>4, <2>5, <2>6, <2>7 DEF Inv
<1>4. CASE ApiSpawnSupervisor
  <2>1. Types'
    BY <1>4 DEF ApiSpawnSupervisor
  <2>2. OneOwner'
    BY <1>4 DEF ApiSpawnSupervisor
  <2>3. WorkersOwned'
    BY <1>4 DEF ApiSpawnSupervisor
  <2>4. DownBetween'
    BY <1>4 DEF ApiSpawnSupervisor
  <2>5. Progress'
    BY <1>4 DEF ApiSpawnSupervisor
  <2>6. PublishedIsOpen'
    BY <1>4 DEF ApiSpawnSupervisor
  <2>7. EncoderAliveInCall'
    BY <1>4 DEF ApiSpawnSupervisor
  <2> QED BY <2>1, <2>2, <2>3, <2>4, <2>5, <2>6, <2>7 DEF Inv
<1>5. CASE ApiStopNotify
  <2>1. Types'
    BY <1>5 DEF ApiStopNotify, Notified
  <2>2. OneOwner'
    BY <1>5 DEF ApiStopNotify, Notified
  <2>3. WorkersOwned'
    BY <1>5 DEF ApiStopNotify, Notified
  <2>4. DownBetween'
    BY <1>5 DEF ApiStopNotify, Notified
  <2>5. Progress'
    BY <1>5 DEF ApiStopNotify, Notified
  <2>6. PublishedIsOpen'
    BY <1>5 DEF ApiStopNotify, Notified
  <2>7. EncoderAliveInCall'
    BY <1>5 DEF ApiStopNotify, Notified
  <2> QED BY <2>1, <2>2, <2>3, <2>4, <2>5, <2>6, <2>7 DEF Inv
<1>6. CASE ApiJoinSupervisor
  <2>1. Types'
    BY <1>6 DEF ApiJoinSupervisor
  <2>2. OneOwner'
    BY <1>6 DEF ApiJoinSupervisor
  <2>3. WorkersOwned'
    BY <1>6 DEF ApiJoinSupervisor
  <2>4. DownBetween'
    BY <1>6 DEF ApiJoinSupervisor
  <2>5. Progress'
    BY <1>6 DEF ApiJoinSupervisor
  <2>6. PublishedIsOpen'
    BY <1>6 DEF ApiJoinSupervisor
  <2>7. EncoderAliveInCall'
    BY <1>6 DEF ApiJoinSupervisor
  <2> QED BY <2>1, <2>2, <2>3, <2>4, <2>5, <2>6, <2>7 DEF Inv
<1> QED BY <1>1, <1>2, <1>3, <1>4, <1>5, <1>6

(* startPipeline.                                                          *)
LEMMA StartInv ==
    ASSUME Inv, NEW t \in {"api", "sup"},
           StartPipeline(t)
    PROVE  Inv'
<1> USE DEF Inv, Types, OneOwner, WorkersOwned, Down, DownBetween, Progress, PublishedIsOpen,
           EncoderAliveInCall, InEncoderCall, Workers, Threads, Goto, Starting, Hidden, EyeJoined,
           DqJoined, CapJoined, EncJoined, Stopping, config, flags, parts, recVars, bounds
<1>1. CASE StartCheck(t)
  BY <1>1 DEF StartCheck
<1>2. CASE StartDeviceFails(t)
  BY <1>2 DEF StartDeviceFails, Fault
<1>3. CASE StartUp(t)
  BY <1>3 DEF StartUp, Fault
<1>4. CASE Spawn(t, "p_enc", "enc", "p_encAssign")
  <2>1. Types'
    BY <1>4 DEF Spawn
  <2>2. OneOwner'
    BY <1>4 DEF Spawn
  <2>3. WorkersOwned'
    BY <1>4 DEF Spawn
  <2>4. DownBetween'
    BY <1>4 DEF Spawn
  <2>5. Progress'
    BY <1>4 DEF Spawn
  <2>6. PublishedIsOpen'
    BY <1>4 DEF Spawn
  <2>7. EncoderAliveInCall'
    BY <1>4 DEF Spawn
  <2> QED BY <2>1, <2>2, <2>3, <2>4, <2>5, <2>6, <2>7 DEF Inv
<1>5. CASE Assign(t, "p_encAssign", "enc", "p_eye")
  <2>1. Types'
    BY <1>5 DEF Assign
  <2>2. OneOwner'
    BY <1>5 DEF Assign
  <2>3. WorkersOwned'
    BY <1>5 DEF Assign
  <2>4. DownBetween'
    BY <1>5 DEF Assign
  <2>5. Progress'
    BY <1>5 DEF Assign
  <2>6. PublishedIsOpen'
    BY <1>5 DEF Assign
  <2>7. EncoderAliveInCall'
    BY <1>5 DEF Assign
  <2> QED BY <2>1, <2>2, <2>3, <2>4, <2>5, <2>6, <2>7 DEF Inv
<1>6. CASE Spawn(t, "p_eye", "eye", "p_eyeAssign")
  <2>1. Types'
    BY <1>6 DEF Spawn
  <2>2. OneOwner'
    BY <1>6 DEF Spawn
  <2>3. WorkersOwned'
    BY <1>6 DEF Spawn
  <2>4. DownBetween'
    BY <1>6 DEF Spawn
  <2>5. Progress'
    BY <1>6 DEF Spawn
  <2>6. PublishedIsOpen'
    BY <1>6 DEF Spawn
  <2>7. EncoderAliveInCall'
    BY <1>6 DEF Spawn
  <2> QED BY <2>1, <2>2, <2>3, <2>4, <2>5, <2>6, <2>7 DEF Inv
<1>7. CASE Assign(t, "p_eyeAssign", "eye", "p_ok")
  <2>1. Types'
    BY <1>7 DEF Assign
  <2>2. OneOwner'
    BY <1>7 DEF Assign
  <2>3. WorkersOwned'
    BY <1>7 DEF Assign
  <2>4. DownBetween'
    BY <1>7 DEF Assign
  <2>5. Progress'
    BY <1>7 DEF Assign
  <2>6. PublishedIsOpen'
    BY <1>7 DEF Assign
  <2>7. EncoderAliveInCall'
    BY <1>7 DEF Assign
  <2> QED BY <2>1, <2>2, <2>3, <2>4, <2>5, <2>6, <2>7 DEF Inv
<1>8. CASE StartWithoutEye(t)
  <2>1. Types'
    BY <1>8 DEF StartWithoutEye
  <2>2. OneOwner'
    BY <1>8 DEF StartWithoutEye
  <2>3. WorkersOwned'
    BY <1>8 DEF StartWithoutEye
  <2>4. DownBetween'
    BY <1>8 DEF StartWithoutEye
  <2>5. Progress'
    BY <1>8 DEF StartWithoutEye
  <2>6. PublishedIsOpen'
    BY <1>8 DEF StartWithoutEye
  <2>7. EncoderAliveInCall'
    BY <1>8 DEF StartWithoutEye
  <2> QED BY <2>1, <2>2, <2>3, <2>4, <2>5, <2>6, <2>7 DEF Inv
<1> QED BY <1>1, <1>2, <1>3, <1>4, <1>5, <1>6, <1>7, <1>8 DEF StartPipeline

(* stopPipeline.                                                           *)
LEMMA StopInv ==
    ASSUME Inv, NEW t \in {"api", "sup"},
           StopPipeline(t)
    PROVE  Inv'
<1> USE DEF Inv, Types, OneOwner, WorkersOwned, Down, DownBetween, Progress, PublishedIsOpen,
           EncoderAliveInCall, InEncoderCall, Workers, Threads, Goto, Starting, Hidden, EyeJoined,
           DqJoined, CapJoined, EncJoined, Stopping, config, flags, parts, recVars, bounds
<1>1. CASE StopBegin(t)
  <2>1. Types'
    BY <1>1 DEF StopBegin
  <2>2. OneOwner'
    BY <1>1 DEF StopBegin
  <2>3. WorkersOwned'
    BY <1>1 DEF StopBegin
  <2>4. DownBetween'
    BY <1>1 DEF StopBegin
  <2>5. Progress'
    BY <1>1 DEF StopBegin
  <2>6. PublishedIsOpen'
    BY <1>1 DEF StopBegin
  <2>7. EncoderAliveInCall'
    BY <1>1 DEF StopBegin
  <2> QED BY <2>1, <2>2, <2>3, <2>4, <2>5, <2>6, <2>7 DEF Inv
<1>2. CASE StopInterrupt(t)
  <2>1. Types'
    BY <1>2 DEF StopInterrupt, Interrupted
  <2>2. OneOwner'
    BY <1>2 DEF StopInterrupt, Interrupted
  <2>3. WorkersOwned'
    BY <1>2 DEF StopInterrupt, Interrupted
  <2>4. DownBetween'
    BY <1>2 DEF StopInterrupt, Interrupted
  <2>5. Progress'
    BY <1>2 DEF StopInterrupt, Interrupted
  <2>6. PublishedIsOpen'
    BY <1>2 DEF StopInterrupt, Interrupted
  <2>7. EncoderAliveInCall'
    BY <1>2 DEF StopInterrupt, Interrupted
  <2> QED BY <2>1, <2>2, <2>3, <2>4, <2>5, <2>6, <2>7 DEF Inv
<1>3. CASE Join(t, "s_cap1", "cap", "s_enc")
  <2>1. Types'
    BY <1>3 DEF Join
  <2>2. OneOwner'
    BY <1>3 DEF Join
  <2>3. WorkersOwned'
    BY <1>3 DEF Join
  <2>4. DownBetween'
    BY <1>3 DEF Join
  <2>5. Progress'
    BY <1>3 DEF Join
  <2>6. PublishedIsOpen'
    BY <1>3 DEF Join
  <2>7. EncoderAliveInCall'
    BY <1>3 DEF Join
  <2> QED BY <2>1, <2>2, <2>3, <2>4, <2>5, <2>6, <2>7 DEF Inv
<1>4. CASE Join(t, "s_enc", "enc", "s_again")
  <2>1. Types'
    BY <1>4 DEF Join
  <2>2. OneOwner'
    BY <1>4 DEF Join
  <2>3. WorkersOwned'
    BY <1>4 DEF Join
  <2>4. DownBetween'
    BY <1>4 DEF Join
  <2>5. Progress'
    BY <1>4 DEF Join
  <2>6. PublishedIsOpen'
    BY <1>4 DEF Join
  <2>7. EncoderAliveInCall'
    BY <1>4 DEF Join
  <2> QED BY <2>1, <2>2, <2>3, <2>4, <2>5, <2>6, <2>7 DEF Inv
<1>5. CASE StopInterruptAgain(t)
  <2>1. Types'
    BY <1>5 DEF StopInterruptAgain, Interrupted
  <2>2. OneOwner'
    BY <1>5 DEF StopInterruptAgain, Interrupted
  <2>3. WorkersOwned'
    BY <1>5 DEF StopInterruptAgain, Interrupted
  <2>4. DownBetween'
    BY <1>5 DEF StopInterruptAgain, Interrupted
  <2>5. Progress'
    BY <1>5 DEF StopInterruptAgain, Interrupted
  <2>6. PublishedIsOpen'
    BY <1>5 DEF StopInterruptAgain, Interrupted
  <2>7. EncoderAliveInCall'
    BY <1>5 DEF StopInterruptAgain, Interrupted
  <2> QED BY <2>1, <2>2, <2>3, <2>4, <2>5, <2>6, <2>7 DEF Inv
<1>6. CASE Join(t, "s_cap2", "cap", "s_dq")
  <2>1. Types'
    BY <1>6 DEF Join
  <2>2. OneOwner'
    BY <1>6 DEF Join
  <2>3. WorkersOwned'
    BY <1>6 DEF Join
  <2>4. DownBetween'
    BY <1>6 DEF Join
  <2>5. Progress'
    BY <1>6 DEF Join
  <2>6. PublishedIsOpen'
    BY <1>6 DEF Join
  <2>7. EncoderAliveInCall'
    BY <1>6 DEF Join
  <2> QED BY <2>1, <2>2, <2>3, <2>4, <2>5, <2>6, <2>7 DEF Inv
<1>7. CASE Join(t, "s_dq", "dq", "s_eye")
  <2>1. Types'
    BY <1>7 DEF Join
  <2>2. OneOwner'
    BY <1>7 DEF Join
  <2>3. WorkersOwned'
    BY <1>7 DEF Join
  <2>4. DownBetween'
    BY <1>7 DEF Join
  <2>5. Progress'
    BY <1>7 DEF Join
  <2>6. PublishedIsOpen'
    BY <1>7 DEF Join
  <2>7. EncoderAliveInCall'
    BY <1>7 DEF Join
  <2> QED BY <2>1, <2>2, <2>3, <2>4, <2>5, <2>6, <2>7 DEF Inv
<1>8. CASE Join(t, "s_eye", "eye", "s_hide")
  <2>1. Types'
    BY <1>8 DEF Join
  <2>2. OneOwner'
    BY <1>8 DEF Join
  <2>3. WorkersOwned'
    BY <1>8 DEF Join
  <2>4. DownBetween'
    BY <1>8 DEF Join
  <2>5. Progress'
    BY <1>8 DEF Join
  <2>6. PublishedIsOpen'
    BY <1>8 DEF Join
  <2>7. EncoderAliveInCall'
    BY <1>8 DEF Join
  <2> QED BY <2>1, <2>2, <2>3, <2>4, <2>5, <2>6, <2>7 DEF Inv
<1>9. CASE StopHideEncoder(t)
  <2>1. Types'
    BY <1>9 DEF StopHideEncoder
  <2>2. OneOwner'
    BY <1>9 DEF StopHideEncoder
  <2>3. WorkersOwned'
    BY <1>9 DEF StopHideEncoder
  <2>4. DownBetween'
    BY <1>9 DEF StopHideEncoder
  <2>5. Progress'
    BY <1>9 DEF StopHideEncoder
  <2>6. PublishedIsOpen'
    BY <1>9 DEF StopHideEncoder
  <2>7. EncoderAliveInCall'
    BY <1>9 DEF StopHideEncoder
  <2> QED BY <2>1, <2>2, <2>3, <2>4, <2>5, <2>6, <2>7 DEF Inv
<1>10. CASE StopShutdown(t)
  <2>1. Types'
    BY <1>10 DEF StopShutdown, InEncoderCall
  <2>2. OneOwner'
    BY <1>10 DEF StopShutdown, InEncoderCall
  <2>3. WorkersOwned'
    BY <1>10 DEF StopShutdown, InEncoderCall
  <2>4. DownBetween'
    BY <1>10 DEF StopShutdown, InEncoderCall
  <2>5. Progress'
    BY <1>10 DEF StopShutdown, InEncoderCall
  <2>6. PublishedIsOpen'
    BY <1>10 DEF StopShutdown, InEncoderCall
  <2>7. EncoderAliveInCall'
    BY <1>10 DEF StopShutdown, InEncoderCall
  <2> QED BY <2>1, <2>2, <2>3, <2>4, <2>5, <2>6, <2>7 DEF Inv
<1>11. CASE StopRest(t)
  <2>1. Types'
    BY <1>11 DEF StopRest
  <2>2. OneOwner'
    BY <1>11 DEF StopRest
  <2>3. WorkersOwned'
    BY <1>11 DEF StopRest
  <2>4. DownBetween'
    BY <1>11 DEF StopRest
  <2>5. Progress'
    BY <1>11 DEF StopRest
  <2>6. PublishedIsOpen'
    BY <1>11 DEF StopRest
  <2>7. EncoderAliveInCall'
    BY <1>11 DEF StopRest
  <2> QED BY <2>1, <2>2, <2>3, <2>4, <2>5, <2>6, <2>7 DEF Inv
<1>12. CASE StopJoinRecorder(t)
  <2>1. Types'
    BY <1>12 DEF StopJoinRecorder
  <2>2. OneOwner'
    BY <1>12 DEF StopJoinRecorder
  <2>3. WorkersOwned'
    BY <1>12 DEF StopJoinRecorder
  <2>4. DownBetween'
    BY <1>12 DEF StopJoinRecorder
  <2>5. Progress'
    BY <1>12 DEF StopJoinRecorder
  <2>6. PublishedIsOpen'
    BY <1>12 DEF StopJoinRecorder
  <2>7. EncoderAliveInCall'
    BY <1>12 DEF StopJoinRecorder
  <2> QED BY <2>1, <2>2, <2>3, <2>4, <2>5, <2>6, <2>7 DEF Inv
<1> QED BY <1>1, <1>2, <1>3, <1>4, <1>5, <1>6, <1>7, <1>8, <1>9, <1>10, <1>11, <1>12 DEF
           StopPipeline

(* restartSupervisorThreadMain.                                            *)
LEMMA SupInv ==
    ASSUME Inv,
           SupCheck \/ SupPark \/ SupBackoff \/ SupRestarted \/ SupRestartFailed
    PROVE  Inv'
<1> USE DEF Inv, Types, OneOwner, WorkersOwned, Down, DownBetween, Progress, PublishedIsOpen,
           EncoderAliveInCall, InEncoderCall, Workers, Threads, Goto, Starting, Hidden, EyeJoined,
           DqJoined, CapJoined, EncJoined, Stopping, config, flags, parts, recVars, bounds
<1>1. CASE SupCheck
  BY <1>1 DEF SupCheck
<1>2. CASE SupPark
  <2>1. Types'
    BY <1>2 DEF SupPark
  <2>2. OneOwner'
    BY <1>2 DEF SupPark
  <2>3. WorkersOwned'
    BY <1>2 DEF SupPark
  <2>4. DownBetween'
    BY <1>2 DEF SupPark
  <2>5. Progress'
    BY <1>2 DEF SupPark
  <2>6. PublishedIsOpen'
    BY <1>2 DEF SupPark
  <2>7. EncoderAliveInCall'
    BY <1>2 DEF SupPark
  <2> QED BY <2>1, <2>2, <2>3, <2>4, <2>5, <2>6, <2>7 DEF Inv
<1>3. CASE SupBackoff
  BY <1>3 DEF SupBackoff
<1>4. CASE SupRestarted
  <2>1. Types'
    BY <1>4 DEF SupRestarted
  <2>2. OneOwner'
    BY <1>4 DEF SupRestarted
  <2>3. WorkersOwned'
    BY <1>4 DEF SupRestarted
  <2>4. DownBetween'
    BY <1>4 DEF SupRestarted
  <2>5. Progress'
    BY <1>4 DEF SupRestarted
  <2>6. PublishedIsOpen'
    BY <1>4 DEF SupRestarted
  <2>7. EncoderAliveInCall'
    BY <1>4 DEF SupRestarted
  <2> QED BY <2>1, <2>2, <2>3, <2>4, <2>5, <2>6, <2>7 DEF Inv
<1>5. CASE SupRestartFailed
  BY <1>5 DEF SupRestartFailed
<1> QED BY <1>1, <1>2, <1>3, <1>4, <1>5

(* requestPipelineRestart.                                                 *)
LEMMA RequestInv ==
    ASSUME Inv, NEW w \in {"enc", "cap"},
           RequestCheck(w) \/ RequestSet(w)
    PROVE  Inv'
<1> USE DEF Inv, Types, OneOwner, WorkersOwned, Down, DownBetween, Progress, PublishedIsOpen,
           EncoderAliveInCall, InEncoderCall, Workers, Threads, Goto, Starting, Hidden, EyeJoined,
           DqJoined, CapJoined, EncJoined, Stopping, config, flags, parts, recVars, bounds
<1>1. CASE RequestCheck(w)
  <2>1. Types'
    BY <1>1 DEF RequestCheck
  <2>2. OneOwner'
    BY <1>1 DEF RequestCheck
  <2>3. WorkersOwned'
    BY <1>1 DEF RequestCheck
  <2>4. DownBetween'
    BY <1>1 DEF RequestCheck
  <2>5. Progress'
    BY <1>1 DEF RequestCheck
  <2>6. PublishedIsOpen'
    BY <1>1 DEF RequestCheck
  <2>7. EncoderAliveInCall'
    BY <1>1 DEF RequestCheck
  <2> QED BY <2>1, <2>2, <2>3, <2>4, <2>5, <2>6, <2>7 DEF Inv
<1>2. CASE RequestSet(w)
  <2>1. Types'
    BY <1>2 DEF RequestSet, Notified
  <2>2. OneOwner'
    BY <1>2 DEF RequestSet, Notified
  <2>3. WorkersOwned'
    BY <1>2 DEF RequestSet, Notified
  <2>4. DownBetween'
    BY <1>2 DEF RequestSet, Notified
  <2>5. Progress'
    BY <1>2 DEF RequestSet, Notified
  <2>6. PublishedIsOpen'
    BY <1>2 DEF RequestSet, Notified
  <2>7. EncoderAliveInCall'
    BY <1>2 DEF RequestSet, Notified
  <2> QED BY <2>1, <2>2, <2>3, <2>4, <2>5, <2>6, <2>7 DEF Inv
<1> QED BY <1>1, <1>2

(* encodeThreadMain.                                                       *)
LEMMA EncInv ==
    ASSUME Inv,
           EncPostprocess \/ EncInitializeEncoder \/ EncInitializeDecoder \/ Spawn("enc", "e_cap", "cap",
              "e_capAssign") \/ Assign("enc", "e_capAssign", "cap", "e_dq") \/ Spawn("enc", "e_dq", "dq",
              "e_dqAssign") \/ Assign("enc", "e_dqAssign", "dq", "e_camera") \/ EncStartCamera \/ EncLoopEnds
    PROVE  Inv'
<1> USE DEF Inv, Types, OneOwner, WorkersOwned, Down, DownBetween, Progress, PublishedIsOpen,
           EncoderAliveInCall, InEncoderCall, Workers, Threads, Goto, Starting, Hidden, EyeJoined,
           DqJoined, CapJoined, EncJoined, Stopping, config, flags, parts, recVars, bounds
<1>1. CASE EncPostprocess
  BY <1>1 DEF EncPostprocess, Fails, Fault
<1>2. CASE EncInitializeEncoder
  <2>1. Types'
    BY <1>2 DEF EncInitializeEncoder, Leaves, Fails, Fault
  <2>2. OneOwner'
    BY <1>2 DEF EncInitializeEncoder, Leaves, Fails, Fault
  <2>3. WorkersOwned'
    BY <1>2 DEF EncInitializeEncoder, Leaves, Fails, Fault
  <2>4. DownBetween'
    BY <1>2 DEF EncInitializeEncoder, Leaves, Fails, Fault
  <2>5. Progress'
    BY <1>2 DEF EncInitializeEncoder, Leaves, Fails, Fault
  <2>6. PublishedIsOpen'
    BY <1>2 DEF EncInitializeEncoder, Leaves, Fails, Fault
  <2>7. EncoderAliveInCall'
    BY <1>2 DEF EncInitializeEncoder, Leaves, Fails, Fault
  <2> QED BY <2>1, <2>2, <2>3, <2>4, <2>5, <2>6, <2>7 DEF Inv
<1>3. CASE EncInitializeDecoder
  BY <1>3 DEF EncInitializeDecoder, Leaves, Fails, Fault
<1>4. CASE Spawn("enc", "e_cap", "cap", "e_capAssign")
  <2>1. Types'
    BY <1>4 DEF Spawn
  <2>2. OneOwner'
    BY <1>4 DEF Spawn
  <2>3. WorkersOwned'
    BY <1>4 DEF Spawn
  <2>4. DownBetween'
    BY <1>4 DEF Spawn
  <2>5. Progress'
    BY <1>4 DEF Spawn
  <2>6. PublishedIsOpen'
    BY <1>4 DEF Spawn
  <2>7. EncoderAliveInCall'
    BY <1>4 DEF Spawn
  <2> QED BY <2>1, <2>2, <2>3, <2>4, <2>5, <2>6, <2>7 DEF Inv
<1>5. CASE Assign("enc", "e_capAssign", "cap", "e_dq")
  <2>1. Types'
    BY <1>5 DEF Assign
  <2>2. OneOwner'
    BY <1>5 DEF Assign
  <2>3. WorkersOwned'
    BY <1>5 DEF Assign
  <2>4. DownBetween'
    BY <1>5 DEF Assign
  <2>5. Progress'
    BY <1>5 DEF Assign
  <2>6. PublishedIsOpen'
    BY <1>5 DEF Assign
  <2>7. EncoderAliveInCall'
    BY <1>5 DEF Assign
  <2> QED BY <2>1, <2>2, <2>3, <2>4, <2>5, <2>6, <2>7 DEF Inv
<1>6. CASE Spawn("enc", "e_dq", "dq", "e_dqAssign")
  <2>1. Types'
    BY <1>6 DEF Spawn
  <2>2. OneOwner'
    BY <1>6 DEF Spawn
  <2>3. WorkersOwned'
    BY <1>6 DEF Spawn
  <2>4. DownBetween'
    BY <1>6 DEF Spawn
  <2>5. Progress'
    BY <1>6 DEF Spawn
  <2>6. PublishedIsOpen'
    BY <1>6 DEF Spawn
  <2>7. EncoderAliveInCall'
    BY <1>6 DEF Spawn
  <2> QED BY <2>1, <2>2, <2>3, <2>4, <2>5, <2>6, <2>7 DEF Inv
<1>7. CASE Assign("enc", "e_dqAssign", "dq", "e_camera")
  <2>1. Types'
    BY <1>7 DEF Assign
  <2>2. OneOwner'
    BY <1>7 DEF Assign
  <2>3. WorkersOwned'
    BY <1>7 DEF Assign
  <2>4. DownBetween'
    BY <1>7 DEF Assign
  <2>5. Progress'
    BY <1>7 DEF Assign
  <2>6. PublishedIsOpen'
    BY <1>7 DEF Assign
  <2>7. EncoderAliveInCall'
    BY <1>7 DEF Assign
  <2> QED BY <2>1, <2>2, <2>3, <2>4, <2>5, <2>6, <2>7 DEF Inv
<1>8. CASE EncStartCamera
  BY <1>8 DEF EncStartCamera, Fails, Fault
<1>9. CASE EncLoopEnds
  <2>1. Types'
    BY <1>9 DEF EncLoopEnds, Leaves
  <2>2. OneOwner'
    BY <1>9 DEF EncLoopEnds, Leaves
  <2>3. WorkersOwned'
    BY <1>9 DEF EncLoopEnds, Leaves
  <2>4. DownBetween'
    BY <1>9 DEF EncLoopEnds, Leaves
  <2>5. Progress'
    BY <1>9 DEF EncLoopEnds, Leaves
  <2>6. PublishedIsOpen'
    BY <1>9 DEF EncLoopEnds, Leaves
  <2>7. EncoderAliveInCall'
    BY <1>9 DEF EncLoopEnds, Leaves
  <2> QED BY <2>1, <2>2, <2>3, <2>4, <2>5, <2>6, <2>7 DEF Inv
<1> QED BY <1>1, <1>2, <1>3, <1>4, <1>5, <1>6, <1>7, <1>8, <1>9

(* The other threads.                                                      *)
LEMMA OthersInv ==
    ASSUME Inv,
           CapStart \/ CapFrame \/ DqBegin \/ DqPacket \/ DqDeliver \/ RecCheck \/ RecPark \/ EyeThread \/
              ExtGrab \/ ExtCall
    PROVE  Inv'
<1> USE DEF Inv, Types, OneOwner, WorkersOwned, Down, DownBetween, Progress, PublishedIsOpen,
           EncoderAliveInCall, InEncoderCall, Workers, Threads, Goto, Starting, Hidden, EyeJoined,
           DqJoined, CapJoined, EncJoined, Stopping, config, flags, parts, recVars, bounds
<1>1. CASE CapStart
  BY <1>1 DEF CapStart, Leaves, Fails, Fault
<1>2. CASE CapFrame
  BY <1>2 DEF CapFrame, Leaves, Fault
<1>3. CASE DqBegin
  <2>1. Types'
    BY <1>3 DEF DqBegin
  <2>2. OneOwner'
    BY <1>3 DEF DqBegin
  <2>3. WorkersOwned'
    BY <1>3 DEF DqBegin
  <2>4. DownBetween'
    BY <1>3 DEF DqBegin
  <2>5. Progress'
    BY <1>3 DEF DqBegin
  <2>6. PublishedIsOpen'
    BY <1>3 DEF DqBegin
  <2>7. EncoderAliveInCall'
    BY <1>3 DEF DqBegin
  <2> QED BY <2>1, <2>2, <2>3, <2>4, <2>5, <2>6, <2>7 DEF Inv
<1>4. CASE DqPacket
  BY <1>4 DEF DqPacket, Leaves
<1>5. CASE DqDeliver
  BY <1>5 DEF DqDeliver
<1>6. CASE RecCheck
  BY <1>6 DEF RecCheck
<1>7. CASE RecPark
  <2>1. Types'
    BY <1>7 DEF RecPark
  <2>2. OneOwner'
    BY <1>7 DEF RecPark
  <2>3. WorkersOwned'
    BY <1>7 DEF RecPark
  <2>4. DownBetween'
    BY <1>7 DEF RecPark
  <2>5. Progress'
    BY <1>7 DEF RecPark
  <2>6. PublishedIsOpen'
    BY <1>7 DEF RecPark
  <2>7. EncoderAliveInCall'
    BY <1>7 DEF RecPark
  <2> QED BY <2>1, <2>2, <2>3, <2>4, <2>5, <2>6, <2>7 DEF Inv
<1>8. CASE EyeThread
  BY <1>8 DEF EyeThread, Leaves, Fails, Fault
<1>9. CASE ExtGrab
  <2>1. Types'
    BY <1>9 DEF ExtGrab
  <2>2. OneOwner'
    BY <1>9 DEF ExtGrab
  <2>3. WorkersOwned'
    BY <1>9 DEF ExtGrab
  <2>4. DownBetween'
    BY <1>9 DEF ExtGrab
  <2>5. Progress'
    BY <1>9 DEF ExtGrab
  <2>6. PublishedIsOpen'
    BY <1>9 DEF ExtGrab
  <2>7. EncoderAliveInCall'
    BY <1>9 DEF ExtGrab
  <2> QED BY <2>1, <2>2, <2>3, <2>4, <2>5, <2>6, <2>7 DEF Inv
<1>10. CASE ExtCall
  BY <1>10 DEF ExtCall
<1> QED BY <1>1, <1>2, <1>3, <1>4, <1>5, <1>6, <1>7, <1>8, <1>9, <1>10

-----------------------------------------------------------------------------
\* The initial state satisfies the invariant.
LEMMA InvInit == Init => Inv
  BY DEF Init, Inv, Types, OneOwner, WorkersOwned, Down, DownBetween, Progress, PublishedIsOpen,
         EncoderAliveInCall, InEncoderCall, Workers, Threads, Starting, Hidden, EyeJoined, DqJoined,
         CapJoined, EncJoined, Stopping

\* Every step preserves the invariant.
LEMMA InvNext == Inv /\ [Next]_vars => Inv'
<1> SUFFICES ASSUME Inv, [Next]_vars PROVE Inv'
  OBVIOUS
<1>1. CASE ApiStart \/ ApiStartRefused \/ ApiStop \/ ApiSteps
  BY <1>1, ApiInv, StartInv, StopInv DEF ApiSteps
<1>2. CASE SupervisorThread
  BY <1>2, SupInv, StartInv, StopInv DEF SupervisorThread
<1>3. CASE EncodeThread
  BY <1>3, EncInv, RequestInv DEF EncodeThread
<1>4. CASE CaptureThread \/ DqThread \/ RecThread \/ EyeThread \/ ExtGrab \/ ExtCall
  BY <1>4, OthersInv, RequestInv DEF CaptureThread, DqThread, RecThread
<1>5. CASE UNCHANGED vars
  BY <1>5 DEF vars, config, flags, parts, recVars, bounds, Inv, Types, OneOwner, WorkersOwned,
     Down, DownBetween, Progress, PublishedIsOpen, EncoderAliveInCall, InEncoderCall
<1> QED BY <1>1, <1>2, <1>3, <1>4, <1>5 DEF Next

(* Every state of the pipeline's threads satisfies the invariant.          *)
THEOREM PipelineInvariant == Spec => []Inv
  BY InvInit, InvNext, PTL DEF Spec

(* When VideoStreamManager::stop has returned, every thread has ended, the *)
(* camera does not stream and NVENC is down.                               *)
THEOREM StoppedIsQuiet == Spec => []QuietAfterStop
<1>1. Inv => QuietAfterStop
  BY DEF Inv, Types, OneOwner, DownBetween, Down, QuietAfterStop, Workers
<1> QED BY <1>1, PipelineInvariant, PTL

(* stopPipeline takes the components apart when every worker has ended.    *)
THEOREM TeardownIsAlone == Spec => []TeardownRunsAlone
<1>1. Inv => TeardownRunsAlone
  BY DEF Inv, Progress, TeardownRunsAlone, Workers, EncJoined, CapJoined, DqJoined, EyeJoined,
     Hidden
<1> QED BY <1>1, PipelineInvariant, PTL

(* NVENC is not closed under forceIDR, setBitrate or a packet's delivery.  *)
THEOREM EncoderOutlivesCalls == Spec => []EncoderAliveInCall
<1>1. Inv => EncoderAliveInCall
  BY DEF Inv
<1> QED BY <1>1, PipelineInvariant, PTL
=============================================================================
