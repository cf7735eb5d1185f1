-------------------------- MODULE Lifecycle_proofs --------------------------
(***************************************************************************)
(* Init, Start and Stop, for any HTTP threads and tasks: no request is      *)
(* handled too early or too late, nothing but a directory's next file is    *)
(* left after Stop, and a plugin that failed to start is quiet.             *)
(***************************************************************************)
EXTENDS Lifecycle, TLAPS

\* The steps of Init, one by one.
LEMMA InitSteps ==
  /\ Len(ManagerInit) = 11
  /\ ManagerInit[1] = "config" /\ ManagerInit[2] = "cipher"
  /\ ManagerInit[3] = "communication" /\ ManagerInit[4] = "server"
  /\ ManagerInit[5] = "handlers" /\ ManagerInit[6] = "limits"
  /\ ManagerInit[7] = "graph" /\ ManagerInit[8] = "job"
  /\ ManagerInit[9] = "engine" /\ ManagerInit[10] = "callbacks"
  /\ ManagerInit[11] = "iam"
  BY DEF ManagerInit, ClientInit, RestfulInit, TaskManagerInit

\* The steps of Start.
LEMMA StartSteps ==
  /\ Len(ManagerStart) = 5
  /\ ManagerStart[1] = "build" /\ ManagerStart[2] = "run"
  /\ ManagerStart[3] = "engine_start" /\ ManagerStart[4] = "listen"
  /\ ManagerStart[5] = "beat"
  BY DEF ManagerStart, ClientStart

\* The steps of Stop.
LEMMA StopSteps ==
  /\ Len(ManagerStop) = 3
  /\ ManagerStop[1] = "beat_stop" /\ ManagerStop[2] = "close"
  /\ ManagerStop[3] = "engine_stop"
  BY DEF ManagerStop, ClientStop

\* What each call makes.
LEMMA StepSets ==
  /\ AllSteps(ManagerInit) =
        {"config", "cipher", "communication", "server", "handlers", "limits",
         "graph", "job", "engine", "callbacks", "iam"}
  /\ AllSteps(ManagerStart) = {"build", "run", "engine_start", "listen", "beat"}
  /\ AllSteps(ManagerStop) = {"beat_stop", "close", "engine_stop"}
<1>1. ASSUME NEW s PROVE Steps(s, 3) = {s[1], s[2], s[3]}
  <2>1. 1 .. 3 = {1, 2, 3}
    OBVIOUS
  <2>2. QED
    BY <2>1, Zenon DEF Steps
<1>2. ASSUME NEW s PROVE Steps(s, 5) = {s[1], s[2], s[3], s[4], s[5]}
  <2>1. 1 .. 5 = {1, 2, 3, 4, 5}
    OBVIOUS
  <2>2. QED
    BY <2>1, Zenon DEF Steps
<1>3. ASSUME NEW s
      PROVE  Steps(s, 11) = {s[1], s[2], s[3], s[4], s[5], s[6], s[7], s[8],
                             s[9], s[10], s[11]}
  <2>1. 1 .. 11 = {1, 2, 3, 4, 5, 6, 7, 8, 9, 10, 11}
    OBVIOUS
  <2>2. QED
    BY <2>1, Zenon DEF Steps
<1>4. QED
  BY <1>1, <1>2, <1>3, InitSteps, StartSteps, StopSteps DEF AllSteps

\* One step more.
LEMMA OneMore ==
  ASSUME NEW s, NEW n \in Nat \ {0}
  PROVE  Steps(s, n) = Steps(s, n - 1) \cup {s[n]}
<1>1. 1 .. n = (1 .. n - 1) \cup {n}
  OBVIOUS
<1>2. QED
  BY <1>1, Zenon DEF Steps

\* The current step, and the number of steps, of a running call.
LEMMA Walk ==
  ASSUME LCTypeOK, MadeInv, Running
  PROVE  /\ main.phase \in {"init", "start", "stop"}
         /\ Current = Script[main.phase][main.at]
         /\ Script[main.phase] = CASE main.phase = "init" -> ManagerInit
                                   [] main.phase = "start" -> ManagerStart
                                   [] main.phase = "stop" -> ManagerStop
         /\ main.at \in Nat \ {0} /\ main.at <= Len(Script[main.phase])
         /\ Len(Script[main.phase]) \in Nat
         /\ made = Before(main.phase) \cup Steps(Script[main.phase], main.at - 1)
<1>1. main.phase \in {"init", "start", "stop"}
  BY DEF Running, Script
<1>2. Script[main.phase] = CASE main.phase = "init" -> ManagerInit
                             [] main.phase = "start" -> ManagerStart
                             [] main.phase = "stop" -> ManagerStop
  BY <1>1 DEF Script
<1>3. Len(Script[main.phase]) \in Nat
  BY <1>1, <1>2, InitSteps, StartSteps, StopSteps
<1>4. main.at \in 1 .. Len(Script[main.phase])
  BY <1>1 DEF MadeInv
<1>5. QED
  BY <1>1, <1>2, <1>3, <1>4 DEF MadeInv, Current

\* A step that succeeds keeps made and the place of the thread together.
LEMMA AdvanceKeepsMade ==
  ASSUME LCTypeOK, MadeInv, Running, Advance
  PROVE  /\ MadeInv'
         /\ main' \in [phase : {"init", "inited", "start", "started",
                                "stop", "stopped", "failed"}, at : 1 .. 20]
<1> DEFINE s == Script[main.phase]
<1>1. /\ main.phase \in {"init", "start", "stop"}
      /\ s = CASE main.phase = "init" -> ManagerInit
               [] main.phase = "start" -> ManagerStart
               [] main.phase = "stop" -> ManagerStop
      /\ main.at \in Nat \ {0} /\ main.at <= Len(s) /\ Len(s) \in 1 .. 11
  BY Walk, InitSteps, StartSteps, StopSteps
<1>2. made' = Before(main.phase) \cup Steps(s, main.at)
  BY Walk, OneMore DEF Advance
<1> HIDE DEF s
<1>3. CASE main.at < Len(s)
  <2>1. main' = [main EXCEPT !.at = @ + 1]
    BY <1>3 DEF Advance, s
  <2>2. main'.phase = main.phase /\ main'.at = main.at + 1
    BY <2>1 DEF LCTypeOK
  <2>3. Running' /\ Script[main'.phase] = s
    BY <2>2, <1>1 DEF Running, Script, s
  <2>4. main'.at \in 1 .. Len(s) /\ main'.at - 1 = main.at
    BY <2>2, <1>1, <1>3
  <2>5. MadeInv'
    BY <2>2, <2>3, <2>4, <1>2, <1>1 DEF MadeInv
  <2>6. main' = [phase |-> main.phase, at |-> main.at + 1]
    BY <2>1 DEF LCTypeOK
  <2>7. \A n \in Nat \ {0}, m \in 1 .. 11 : n < m => n + 1 \in 1 .. 20
    OBVIOUS
  <2>8. QED
    BY <2>5, <2>6, <2>7, <1>1, <1>3
<1>4. CASE ~ (main.at < Len(s))
  <2>1. main' = [phase |-> After[main.phase], at |-> 1]
    BY <1>4 DEF Advance, s
  <2>2. /\ main'.phase = CASE main.phase = "init" -> "inited"
                           [] main.phase = "start" -> "started"
                           [] main.phase = "stop" -> "stopped"
        /\ main'.at = 1
    BY <2>1, <1>1 DEF After
  <2>3. ~ Running'
    BY <2>2, <1>1 DEF Running, Script
  <2>4. made' = Before(main.phase) \cup AllSteps(s)
    BY <1>1, <1>2, <1>4 DEF AllSteps
  <2>5. made' = Before(main'.phase)
    BY <2>2, <2>4, <1>1 DEF Before
  <2>6. MadeInv'
    BY <2>2, <2>3, <2>5, <1>1 DEF MadeInv
  <2>7. QED
    BY <2>1, <2>2, <2>6, <1>1
<1>5. QED
  BY <1>3, <1>4

\* The types, in the initial state.
LEMMA LCInit == Init => LCInv
<1> SUFFICES ASSUME Init PROVE LCInv
  OBVIOUS
<1>1. LCTypeOK
  <2>1. NoInfo \in [TaskIds -> Status \cup {Null}]
    BY DEF NoInfo
  <2>2. HBTypeOK
    BY <2>1 DEF HBTypeOK, Init, HBPC
  <2>3. handler \in [HttpThreads -> [pc : {"idle", "create", "delete", "wait",
                                           "notify"}, task : Tasks \cup {Null}]]
    BY DEF Init, HandlerIdle
  <2>4. engineTask \in [Tasks -> EngineTaskStates] /\ files \in [Tasks -> 0 .. MaxNext]
    BY LifecycleAssumption DEF Init, EngineTaskStates
  <2>5. main \in [phase : {"init", "inited", "start", "started",
                           "stop", "stopped", "failed"}, at : 1 .. 20]
    BY DEF Init
  <2>6. QED
    BY <2>2, <2>3, <2>4, <2>5 DEF LCTypeOK
<1>2. MadeInv
  <2>1. /\ main.phase = "init" /\ main.at = 1 /\ made = {}
        /\ Running /\ Script[main.phase] = ManagerInit
    BY DEF Init, Running, Script
  <2>2. Before(main.phase) = {} /\ Steps(ManagerInit, main.at - 1) = {}
    BY <2>1 DEF Before, Steps
  <2>3. QED
    BY <2>1, <2>2, InitSteps DEF MadeInv
<1>3. ThreadsInv
  BY DEF Init, ThreadsInv, HandlerIdle, Busy
<1>4. QED
  BY <1>1, <1>2, <1>3 DEF LCInv

\* A step that changes neither main nor made keeps them together.
LEMMA SameMade ==
  ASSUME MadeInv, UNCHANGED <<main, made>>
  PROVE  MadeInv'
BY DEF MadeInv, Running

\* When a part fails nothing serves requests yet: no step of Stop can fail,
\* and none of Start behind the first three.
LEMMA FailKeepsMade ==
  ASSUME LCTypeOK, MadeInv, PartFails
  PROVE  MadeInv'
<1> DEFINE s == Script[main.phase]
<1>1. Running /\ Current \notin Special \cup CannotFail
  BY DEF PartFails
<1>2. /\ main.phase \in {"init", "start", "stop"} /\ Current = s[main.at]
      /\ s = CASE main.phase = "init" -> ManagerInit
               [] main.phase = "start" -> ManagerStart
               [] main.phase = "stop" -> ManagerStop
      /\ main.at \in Nat \ {0} /\ main.at <= Len(s)
      /\ made = Before(main.phase) \cup Steps(s, main.at - 1)
  BY <1>1, Walk
<1> HIDE DEF s
<1>3. main.phase # "stop"
  <2>1. SUFFICES ASSUME main.phase = "stop" PROVE FALSE
    OBVIOUS
  <2>2. s = ManagerStop
    BY <1>2, <2>1
  <2>3. main.at \in {1, 2, 3}
    <3>1. \A n \in Nat \ {0} : n <= 3 => n \in {1, 2, 3}
      OBVIOUS
    <3>2. QED
      BY <3>1, <1>2, <2>2, StopSteps
  <2>4. QED
    BY <1>1, <1>2, <2>2, <2>3, StopSteps DEF Special
<1>4. ASSUME main.phase = "init"
      PROVE  made \subseteq AllSteps(ManagerInit)
  <2>1. s = ManagerInit
    BY <1>2, <1>4
  <2>2. 1 .. main.at - 1 \subseteq 1 .. Len(s)
    BY <1>2, <2>1, InitSteps
  <2>3. QED
    BY <1>2, <1>4, <2>1, <2>2 DEF Before, AllSteps, Steps
<1>5. ASSUME main.phase = "start"
      PROVE  made \subseteq AllSteps(ManagerInit) \cup {"build", "run"}
  <2>1. s = ManagerStart
    BY <1>2, <1>5
  <2>2. main.at \in {1, 2, 3, 4, 5}
    <3>1. \A n \in Nat \ {0} : n <= 5 => n \in {1, 2, 3, 4, 5}
      OBVIOUS
    <3>2. QED
      BY <3>1, <1>2, <2>1, StartSteps
  <2>3. main.at \in {1, 3}
    BY <1>1, <1>2, <2>1, <2>2, StartSteps DEF Special, CannotFail
  <2>4. \A i \in 1 .. main.at - 1 : i = 1 \/ i = 2
    BY <2>3
  <2>5. \A i \in 1 .. main.at - 1 : s[i] \in {"build", "run"}
    BY <2>1, <2>4, StartSteps
  <2>6. QED
    BY <2>5, <1>2, <1>5 DEF Before, Steps
<1>6. main'.phase = "failed" /\ made' = made
  BY DEF PartFails, LCTypeOK
<1>7. QED
  BY <1>2, <1>3, <1>4, <1>5, <1>6 DEF MadeInv

\* Between the calls the place is the first one.
LEMMA CallKeepsMade ==
  ASSUME LCTypeOK, MadeInv, HostCalls
  PROVE  MadeInv'
<1>1. /\ main.phase \in {"inited", "started"} /\ ~ Running
      /\ main.at = 1
      /\ main'.phase = IF main.phase = "inited" THEN "start" ELSE "stop"
      /\ main'.at = 1 /\ made' = made
  BY DEF HostCalls, LCTypeOK, MadeInv, Running, Script
<1>2. Running' /\ Steps(Script[main'.phase], main'.at - 1) = {}
  BY <1>1 DEF Running, Script, Steps
<1>3. Len(Script[main'.phase]) \in Nat \ {0}
  BY <1>1, StartSteps, StopSteps DEF Script
<1>4. Before(main'.phase) = Before(main.phase)
  BY <1>1 DEF Before
<1>5. QED
  BY <1>1, <1>2, <1>3, <1>4 DEF MadeInv


\* MadeInv in general: a step is one of the host's thread, or leaves it alone.
LEMMA MadeStep == LCTypeOK /\ MadeInv /\ [Next]_vars => MadeInv'
<1> SUFFICES ASSUME LCTypeOK, MadeInv, [Next]_vars PROVE MadeInv'
  OBVIOUS
<1>1. CASE Running /\ Advance
  BY <1>1, AdvanceKeepsMade
<1>2. CASE PartFails
  BY <1>2, FailKeepsMade
<1>3. CASE HostCalls
  BY <1>3, CallKeepsMade
<1>4. CASE UNCHANGED <<main, made>>
  BY <1>4, SameMade
<1>5. MainStep => (Running /\ Advance) \/ UNCHANGED <<main, made>>
  BY DEF MainStep, MakePart, StartInstanceHeartBeatThread, StopBeat,
         CloseServer, StopEngine, Current
<1>6. ASSUME NEW h \in HttpThreads, Accept(h) \/ Handle(h)
      PROVE  UNCHANGED <<main, made>>
  BY <1>6 DEF Accept, Handle, Create, Delete, Waited, Finish
<1>7. /\ (\E k \in Tasks : EngineTaskEnds(k) \/ Callback(k)) => UNCHANGED <<main, made>>
      /\ Beat => UNCHANGED <<main, made>>
  BY DEF EngineTaskEnds, Callback, RunNext, ReportEnd, SetFinish, Beat,
         BeatAwake, lcVars
<1>8. QED
  BY <1>1, <1>2, <1>3, <1>4, <1>5, <1>6, <1>7 DEF Next, vars, lcVars

\* What a step of the heartbeat, a notification or Stop may do to the types.
LEMMA HBTypes ==
  ASSUME HBTypeOK,
         \/ HBStep \/ HBBuild(NoInfo) \/ HBSent \/ HBTimeout
         \/ SendInstanceInfoToMA \/ StopCall \/ Joined \/ UNCHANGED hbVars
  PROVE  HBTypeOK'
<1>1. NoInfo \in [TaskIds -> Status \cup {Null}]
  BY DEF NoInfo
<1>2. CASE HBStep
  BY <1>2 DEF HBTypeOK, HBPC, HBStep, HBLoop, HBWait, Woken
<1>3. CASE HBBuild(NoInfo) \/ HBSent
  BY <1>1, <1>3 DEF HBTypeOK, HBPC, HBBuild, HBSent
<1>4. CASE HBTimeout
  BY <1>4 DEF HBTypeOK, HBPC, HBTimeout, Woken
<1>5. CASE SendInstanceInfoToMA
  BY <1>5 DEF HBTypeOK, HBPC, SendInstanceInfoToMA, Notified
<1>6. CASE StopCall \/ Joined
  BY <1>6 DEF HBTypeOK, HBPC, StopCall, Joined, Notified
<1>7. CASE UNCHANGED hbVars
  BY <1>7 DEF HBTypeOK, hbVars
<1>8. QED
  BY <1>2, <1>3, <1>4, <1>5, <1>6, <1>7

\* ... and none of them starts a thread that has ended.
LEMMA EndedStaysEnded ==
  ASSUME HBTypeOK, hb.pc = "done",
         \/ HBStep \/ HBBuild(NoInfo) \/ HBSent \/ HBTimeout
         \/ SendInstanceInfoToMA \/ StopCall \/ Joined \/ UNCHANGED hbVars
  PROVE  hb'.pc = "done"
BY DEF HBTypeOK, HBStep, HBLoop, HBWait, HBBuild, HBSent, HBTimeout, Woken,
       SendInstanceInfoToMA, StopCall, Joined, Notified, hbVars

\* The types of what a step of the host's thread leaves.
LEMMA TypeStep == LCTypeOK /\ MadeInv /\ ThreadsInv /\ [Next]_vars => LCTypeOK'
<1> SUFFICES ASSUME LCTypeOK, MadeInv, ThreadsInv, [Next]_vars PROVE LCTypeOK'
  OBVIOUS
<1> USE DEF LCTypeOK
<1>1. ASSUME NEW h \in HttpThreads, Accept(h) PROVE LCTypeOK'
  <2>1. PICK op \in {"create", "delete"}, k \in Tasks :
           handler' = [handler EXCEPT ![h] = [pc |-> op, task |-> k]]
    BY <1>1 DEF Accept
  <2>2. UNCHANGED <<hbVars, main, engineTask, files>>
    BY <1>1 DEF Accept, taskVars
  <2>3. HBTypeOK'
    BY <2>2, HBTypes
  <2>4. QED
    BY <2>1, <2>2, <2>3
<1>2. ASSUME NEW h \in HttpThreads, Handle(h) PROVE LCTypeOK'
  <2>1. UNCHANGED hbVars \/ SendInstanceInfoToMA
    BY <1>2 DEF Handle, Create, Delete, Waited, Finish
  <2>2. HBTypeOK'
    BY <2>1, HBTypes
  <2>3. CASE Create(h)
    <3>1. engineTask' \in [Tasks -> EngineTaskStates]
      BY <2>3 DEF Create, taskVars, EngineTaskStates
    <3>2. files' \in [Tasks -> 0 .. MaxNext]
      <4>1. \A k \in Tasks :
               (IF k \in DirTasks THEN 0 .. MaxNext ELSE {0}) \subseteq 0 .. MaxNext
        BY LifecycleAssumption
      <4>2. QED
        BY <2>3, <4>1 DEF Create, taskVars
    <3>3. handler' = [handler EXCEPT ![h].pc = "notify"] /\ main' = main
      BY <2>3 DEF Create
    <3>4. QED
      BY <2>2, <3>1, <3>2, <3>3
  <2>4. CASE Delete(h)
    BY <2>2, <2>4 DEF Delete, EngineTaskStates
  <2>5. CASE Waited(h)
    BY <2>2, <2>5 DEF Waited, taskVars
  <2>6. CASE Finish(h)
    BY <2>2, <2>6 DEF Finish, HandlerIdle, taskVars
  <2>7. QED
    BY <1>2, <2>3, <2>4, <2>5, <2>6 DEF Handle
<1>3. ASSUME NEW k \in Tasks, EngineTaskEnds(k) \/ Callback(k) PROVE LCTypeOK'
  <2>1. UNCHANGED hbVars \/ SendInstanceInfoToMA
    BY <1>3 DEF EngineTaskEnds, Callback, RunNext, ReportEnd, SetFinish
  <2>2. HBTypeOK'
    BY <2>1, HBTypes
  <2>3. engineTask' \in [Tasks -> EngineTaskStates]
    BY <1>3 DEF EngineTaskEnds, Callback, RunNext, ReportEnd, SetFinish,
                EngineTaskStates
  <2>4. files' \in [Tasks -> 0 .. MaxNext]
    <3>1. CASE RunNext(k)
      <4>1. files[k] > 0
        BY <3>1 DEF RunNext, ThreadsInv
      <4>2. files[k] - 1 \in 0 .. MaxNext
        BY <4>1, LifecycleAssumption
      <4>3. QED
        BY <3>1, <4>2 DEF RunNext
    <3>2. CASE EngineTaskEnds(k) \/ ReportEnd(k) \/ SetFinish(k)
      BY <3>2 DEF EngineTaskEnds, ReportEnd, SetFinish
    <3>3. QED
      BY <1>3, <3>1, <3>2 DEF Callback
  <2>5. UNCHANGED <<main, handler>>
    BY <1>3 DEF EngineTaskEnds, Callback, RunNext, ReportEnd, SetFinish
  <2>6. QED
    BY <2>2, <2>3, <2>4, <2>5
<1>4. CASE Beat
  <2>1. HBTypeOK'
    BY <1>4, HBTypes DEF Beat, BeatAwake
  <2>2. QED
    BY <1>4, <2>1 DEF Beat, BeatAwake, lcVars, taskVars
<1>5. CASE UNCHANGED vars
  <2>1. HBTypeOK'
    BY <1>5, HBTypes DEF vars
  <2>2. QED
    BY <1>5, <2>1 DEF vars, lcVars, taskVars
<1>6. CASE PartFails \/ HostCalls
  <2>1. HBTypeOK'
    BY <1>6, HBTypes DEF PartFails, HostCalls
  <2>2. UNCHANGED <<handler, engineTask, files>>
    BY <1>6 DEF PartFails, HostCalls, taskVars
  <2>3. main' \in [phase : {"init", "inited", "start", "started",
                            "stop", "stopped", "failed"}, at : 1 .. 20]
    BY <1>6 DEF PartFails, HostCalls
  <2>4. QED
    BY <2>1, <2>2, <2>3
<1>7. CASE MainStep
  <2>1. UNCHANGED <<handler, engineTask, files>>
    BY <1>7 DEF MainStep, MakePart, StartInstanceHeartBeatThread, StopBeat,
                CloseServer, StopEngine, taskVars
  <2>2. main' \in [phase : {"init", "inited", "start", "started",
                            "stop", "stopped", "failed"}, at : 1 .. 20]
    <3>1. CASE Running /\ Advance
      BY <3>1, AdvanceKeepsMade
    <3>2. CASE UNCHANGED main
      BY <3>2
    <3>3. (Running /\ Advance) \/ UNCHANGED main
      BY <1>7 DEF MainStep, MakePart, StartInstanceHeartBeatThread, StopBeat,
                  CloseServer, StopEngine, Current
    <3>4. QED
      BY <3>1, <3>2, <3>3
  <2>3. HBTypeOK'
    <3>1. CASE StartInstanceHeartBeatThread
      BY <3>1 DEF StartInstanceHeartBeatThread, HBTypeOK, HBPC
    <3>2. CASE StopCall \/ Joined \/ UNCHANGED hbVars
      BY <3>2, HBTypes
    <3>3. QED
      BY <1>7, <3>1, <3>2 DEF MainStep, MakePart, StopBeat, CloseServer,
                              StopEngine
  <2>4. QED
    BY <2>1, <2>2, <2>3
<1>8. QED
  BY <1>1, <1>2, <1>3, <1>4, <1>5, <1>6, <1>7 DEF Next


\* What MadeInv says of the order of the steps.
LEMMA MadeInOrder ==
  ASSUME LCTypeOK, MadeInv
  PROVE  /\ "listen" \in made =>
               /\ {"handlers", "callbacks", "iam", "run", "engine_start"} \subseteq made
               /\ main.phase # "failed"
         /\ "engine_stop" \in made => "close" \in made
         /\ Current = "beat" => Running /\ "beat_stop" \notin made
         /\ main.phase = "failed" => "beat" \notin made
         /\ main.phase = "stopped" => {"beat_stop", "close", "engine_stop"} \subseteq made
<1>1. CASE main.phase = "failed"
  <2>1. ~ Running
    BY <1>1 DEF Running, Script
  <2>2. QED
    BY <1>1, <2>1, StepSets DEF MadeInv, Current
<1>2. CASE main.phase \in {"inited", "started", "stopped"}
  <2>1. ~ Running
    BY <1>2 DEF Running, Script
  <2>2. made = Before(main.phase)
    BY <1>2, <2>1 DEF MadeInv
  <2>3. QED
    BY <1>2, <2>1, <2>2, StepSets DEF Before, Current
<1>3. CASE main.phase = "init"
  <2>1. /\ Running /\ Script[main.phase] = ManagerInit
        /\ Current = ManagerInit[main.at] /\ main.at \in Nat \ {0} /\ main.at <= 11
        /\ made = Steps(ManagerInit, main.at - 1)
    BY <1>3, Walk, InitSteps DEF Running, Script, Before
  <2>2. \A n \in Nat \ {0} : n <= 11 => n \in 1 .. 11 /\ 1 .. n - 1 \subseteq 1 .. 11
    OBVIOUS
  <2>3. made \subseteq AllSteps(ManagerInit) /\ Current \in AllSteps(ManagerInit)
    BY <2>1, <2>2, InitSteps DEF AllSteps, Steps
  <2>4. QED
    BY <1>3, <2>3, StepSets
<1>4. CASE main.phase = "start"
  <2>1. /\ Running /\ main.at \in Nat \ {0} /\ main.at <= 5
        /\ made = AllSteps(ManagerInit) \cup Steps(ManagerStart, main.at - 1)
    BY <1>4, Walk, StartSteps DEF Running, Script, Before
  <2>2. /\ \A n \in Nat \ {0} : n <= 5 => n \in 1 .. 5 /\ 1 .. n - 1 \subseteq 1 .. 5
        /\ \A n \in Nat \ {0} : n <= 5 =>
              n - 1 \in Nat /\ (4 \in 1 .. n - 1 => {1, 2, 3} \subseteq 1 .. n - 1)
    OBVIOUS
  <2>3. Steps(ManagerStart, main.at - 1) \subseteq AllSteps(ManagerStart)
    BY <2>1, <2>2, StartSteps DEF AllSteps, Steps
  <2>4. "listen" \in Steps(ManagerStart, main.at - 1) => 4 \in 1 .. main.at - 1
    <3>1. \A i \in 1 .. 5 : ManagerStart[i] = "listen" => i = 4
      <4>1. \A i \in 1 .. 5 : i \in {1, 2, 3, 4, 5}
        OBVIOUS
      <4>2. QED
        BY <4>1, StartSteps
    <3>2. QED
      BY <2>1, <2>2, <3>1 DEF Steps
  <2>5. 4 \in 1 .. main.at - 1 =>
           {"run", "engine_start"} \subseteq Steps(ManagerStart, main.at - 1)
    <3>1. \A i \in 1 .. main.at - 1 : ManagerStart[i] \in Steps(ManagerStart, main.at - 1)
      BY DEF Steps
    <3>2. QED
      BY <2>1, <2>2, <3>1, StartSteps
  <2>6. "beat_stop" \notin made /\ "engine_stop" \notin made
    BY <2>1, <2>3, StepSets
  <2>7. "listen" \in made => "listen" \in Steps(ManagerStart, main.at - 1)
    BY <2>1, StepSets
  <2>8. QED
    BY <1>4, <2>1, <2>4, <2>5, <2>6, <2>7, StepSets
<1>5. CASE main.phase = "stop"
  <2>1. /\ Running /\ main.at \in Nat \ {0} /\ main.at <= 3
        /\ Current = ManagerStop[main.at]
        /\ made = Before("stop") \cup Steps(ManagerStop, main.at - 1)
    BY <1>5, Walk, StopSteps DEF Running, Script
  <2>2. Before("stop") = AllSteps(ManagerInit) \cup AllSteps(ManagerStart)
    BY DEF Before
  <2>3. "engine_stop" \notin Steps(ManagerStop, main.at - 1)
    <3>1. \A n \in Nat \ {0} : n <= 3 => \A i \in 1 .. n - 1 : i \in {1, 2}
      OBVIOUS
    <3>2. QED
      BY <2>1, <3>1, StopSteps DEF Steps
  <2>4. Current # "beat"
    <3>1. \A n \in Nat \ {0} : n <= 3 => n \in {1, 2, 3}
      OBVIOUS
    <3>2. QED
      BY <2>1, <3>1, StopSteps
  <2>5. QED
    BY <1>5, <2>1, <2>2, <2>3, <2>4, StepSets
<1>6. QED
  BY <1>1, <1>2, <1>3, <1>4, <1>5 DEF LCTypeOK

\* The steps of the host's thread keep what made says of the other threads.
LEMMA MainThreads ==
  ASSUME LCTypeOK, MadeInv, ThreadsInv, MainStep
  PROVE  ThreadsInv'
<1>1. CASE MakePart
  BY <1>1 DEF MakePart, Advance, Special, ThreadsInv, hbVars, taskVars, Busy
<1>2. CASE StartInstanceHeartBeatThread
  <2>1. "beat_stop" \notin made /\ made' = made \cup {"beat"}
    BY <1>2, MadeInOrder DEF StartInstanceHeartBeatThread, Advance
  <2>2. UNCHANGED <<handler, engineTask, files>>
    BY <1>2 DEF StartInstanceHeartBeatThread, taskVars
  <2>3. QED
    BY <2>1, <2>2 DEF ThreadsInv, Busy
<1>3. CASE StopBeat
  <2>1. CASE StopCall /\ UNCHANGED <<main, made>>
    <3>1. hb.pc = "done" => hb'.pc = "done"
      BY <2>1, EndedStaysEnded DEF LCTypeOK
    <3>2. QED
      BY <1>3, <2>1, <3>1 DEF StopBeat, ThreadsInv, taskVars, Busy
  <2>2. CASE Joined /\ Advance
    BY <1>3, <2>2 DEF StopBeat, Joined, Advance, ThreadsInv, taskVars, Busy
  <2>3. QED
    BY <1>3, <2>1, <2>2 DEF StopBeat
<1>4. CASE CloseServer
  BY <1>4 DEF CloseServer, Advance, ThreadsInv, hbVars, taskVars, Busy
<1>5. CASE StopEngine
  BY <1>5 DEF StopEngine, Advance, ThreadsInv, hbVars, taskVars, Busy
<1>6. QED
  BY <1>1, <1>2, <1>3, <1>4, <1>5 DEF MainStep

\* A callback starts an engine task only for a file that is left.
LEMMA TaskThreads ==
  ASSUME LCTypeOK, ThreadsInv, NEW k \in Tasks, EngineTaskEnds(k) \/ Callback(k)
  PROVE  ThreadsInv'
<1>1. hb.pc = "done" => hb'.pc = "done"
  <2>1. SendInstanceInfoToMA \/ UNCHANGED hbVars
    BY DEF EngineTaskEnds, Callback, RunNext, ReportEnd, SetFinish
  <2>2. QED
    BY <2>1, EndedStaysEnded DEF LCTypeOK
<1>2. UNCHANGED <<made, handler>>
  BY DEF EngineTaskEnds, Callback, RunNext, ReportEnd, SetFinish
<1>3. CASE EngineTaskEnds(k)
  BY <1>1, <1>2, <1>3 DEF EngineTaskEnds, ThreadsInv, LCTypeOK, Busy
<1>4. CASE RunNext(k)
  <2>1. files[k] > 0 /\ k \in DirTasks /\ files[k] \in Nat
    BY <1>4, LifecycleAssumption DEF RunNext, ThreadsInv, LCTypeOK
  <2>2. \A j \in Tasks : /\ engineTask'[j] = "next" => files'[j] > 0
                         /\ files'[j] > 0 => j \in DirTasks
    BY <1>4, <2>1 DEF RunNext, ThreadsInv, LCTypeOK
  <2>3. \A j \in Tasks : Busy(j)' => Busy(j) \/ j = k
    BY <1>4 DEF RunNext, Busy, LCTypeOK
  <2>4. QED
    BY <1>1, <1>2, <2>1, <2>2, <2>3 DEF ThreadsInv
<1>5. CASE ReportEnd(k) \/ SetFinish(k)
  BY <1>1, <1>2, <1>5 DEF ReportEnd, SetFinish, ThreadsInv, LCTypeOK, Busy
<1>6. QED
  BY <1>3, <1>4, <1>5 DEF Callback

\* The steps of handlers, engine tasks and heartbeat keep it too: but for the
\* next files, an engine task is started in a handler, so before the server
\* closes.
LEMMA OtherThreads ==
  ASSUME LCTypeOK, MadeInv, ThreadsInv,
         \/ \E h \in HttpThreads : Accept(h) \/ Handle(h)
         \/ \E k \in Tasks : EngineTaskEnds(k) \/ Callback(k)
         \/ Beat
  PROVE  ThreadsInv'
<1>1. CASE Beat
  <2>1. hb.pc = "done" => hb'.pc = "done"
    BY <1>1, EndedStaysEnded DEF Beat, BeatAwake, LCTypeOK
  <2>2. UNCHANGED lcVars
    BY <1>1 DEF Beat, BeatAwake
  <2>3. QED
    BY <2>1, <2>2 DEF ThreadsInv, lcVars, taskVars, Busy
<1>2. ASSUME NEW k \in Tasks, EngineTaskEnds(k) \/ Callback(k) PROVE ThreadsInv'
  BY <1>2, TaskThreads
<1>3. ASSUME NEW h \in HttpThreads, Accept(h) PROVE ThreadsInv'
  BY <1>3 DEF Accept, Listening, ThreadsInv, LCTypeOK, hbVars, taskVars, Busy
<1>4. ASSUME NEW h \in HttpThreads, Handle(h) PROVE ThreadsInv'
  <2>1. "listen" \in made /\ "close" \notin made /\ made' = made
    BY <1>4 DEF Handle, Create, Delete, Waited, Finish, ThreadsInv
  <2>2. "engine_stop" \notin made
    BY <2>1, MadeInOrder
  <2>3. hb.pc = "done" => hb'.pc = "done"
    <3>1. SendInstanceInfoToMA \/ UNCHANGED hbVars
      BY <1>4 DEF Handle, Create, Delete, Waited, Finish
    <3>2. QED
      BY <3>1, EndedStaysEnded DEF LCTypeOK
  <2>4. \A k \in Tasks : /\ engineTask'[k] = "next" => files'[k] > 0
                         /\ files'[k] > 0 => k \in DirTasks
    <3>1. CASE Create(h)
      <4>1. CASE UNCHANGED taskVars
        BY <4>1 DEF ThreadsInv, taskVars
      <4>2. ASSUME NEW j \in Tasks \cup {Null},
                   NEW n \in IF j \in DirTasks THEN 0 .. MaxNext ELSE {0},
                   engineTask' = [engineTask EXCEPT ![j] = "running"],
                   files' = [files EXCEPT ![j] = n]
            PROVE  \A k \in Tasks : /\ engineTask'[k] = "next" => files'[k] > 0
                                    /\ files'[k] > 0 => k \in DirTasks
        BY <4>2 DEF ThreadsInv, LCTypeOK
      <4>3. handler[h].task \in Tasks \cup {Null}
        BY DEF LCTypeOK
      <4>4. QED
        BY <3>1, <4>1, <4>2, <4>3 DEF Create
    <3>2. CASE Delete(h)
      BY <3>2 DEF Delete, ThreadsInv, LCTypeOK
    <3>3. CASE Waited(h) \/ Finish(h)
      BY <3>3 DEF Waited, Finish, ThreadsInv, taskVars
    <3>4. QED
      BY <1>4, <3>1, <3>2, <3>3 DEF Handle
  <2>5. QED
    BY <2>1, <2>2, <2>3, <2>4 DEF ThreadsInv
<1>5. QED
  BY <1>1, <1>2, <1>3, <1>4

\* The invariant: what is made says where the host's thread is and what the
\* other threads may be doing, for any number of them.
THEOREM LCInvariance == Spec => []LCInv
<1>1. LCInv /\ [Next]_vars => LCInv'
  <2> SUFFICES ASSUME LCInv, [Next]_vars PROVE LCInv'
    OBVIOUS
  <2>1. LCTypeOK' /\ MadeInv'
    BY TypeStep, MadeStep DEF LCInv
  <2>2. ThreadsInv'
    <3>1. CASE MainStep
      BY <3>1, MainThreads DEF LCInv
    <3>2. CASE PartFails \/ HostCalls \/ UNCHANGED vars
      BY <3>2 DEF PartFails, HostCalls, LCInv, ThreadsInv, vars, hbVars, lcVars,
                  taskVars, Busy
    <3>3. QED
      BY <3>1, <3>2, OtherThreads DEF LCInv, Next
  <2>3. QED
    BY <2>1, <2>2 DEF LCInv
<1>2. QED
  BY <1>1, LCInit, PTL DEF Spec

\* A request is handled only while everything its handler uses exists.
THEOREM ServedWhenReadyHolds == Spec => []ServedWhenReady
<1>1. LCInv => ServedWhenReady
  BY MadeInOrder DEF LCInv, ThreadsInv, ServedWhenReady
<1>2. QED
  BY <1>1, LCInvariance, PTL

\* After Stop no heartbeat thread and no handler is left, and whatever the
\* engine still works on is a file of a directory, started by the callback of
\* the file before it.
THEOREM NothingLeftHolds == Spec => []NothingLeft
<1>1. LCInv => NothingLeft
  BY MadeInOrder DEF LCInv, ThreadsInv, NothingLeft
<1>2. QED
  BY <1>1, LCInvariance, PTL

\* A plugin whose Init or Start failed serves nothing.
THEOREM FailedIsQuietHolds == Spec => []FailedIsQuiet
<1>1. LCInv => FailedIsQuiet
  BY MadeInOrder DEF LCInv, ThreadsInv, FailedIsQuiet, Listening
<1>2. QED
  BY <1>1, LCInvariance, PTL

=============================================================================
