------------------------ MODULE PluginService_proofs ------------------------
(***************************************************************************)
(* First, the composition implements its component: with create_func and    *)
(* delete_func replaced by the code of the plugin, and UpdateTaskStatus     *)
(* called by the engine's callback only, every behaviour of the whole is a  *)
(* behaviour of the task manager, so what is proved of the task manager     *)
(* alone holds in the whole.  Then, the plugin implements the abstract      *)
(* service when no engine task ends before its group is listed, for any     *)
(* tasks, ids, directories and threads.                                     *)
(***************************************************************************)
EXTENDS ModelArtsPlugin, TaskManager_proofs

------------------------------------------------------------------------------
(* The composition implements the task manager                              *)

\* What the threads of the plugin hold: every procedure a result that is a
\* Boolean, every callback the task whose engine task ended.
ThreadsOK ==
    /\ taskListMap \in [TaskIds -> TaskOrNone]
    /\ proc \in [HttpThreads -> Proc]
    /\ cb \in [CbThreads -> Cb]
    /\ \A t \in CbThreads : cb[t].pc = "idle" \/ cb[t].task \in Tasks

\* A step of the whole is a step of the task manager or leaves it alone.
LEMMA StepImplements == ThreadsOK /\ [Next]_vars => [TMNext]_tmVars
<1> SUFFICES ASSUME ThreadsOK, Next PROVE [TMNext]_tmVars
  BY DEF vars
<1>1. ASSUME NEW h \in HttpThreads, HttpThread(h) PROVE TMNext \/ UNCHANGED tmVars
  <2>1. CASE HttpOnly(h)
    BY <2>1 DEF HttpOnly, HttpStep, TMNext
  <2>2. CASE EnterCreate(h) \/ EnterDelete(h) \/ LeaveByException(h)
    BY <2>2 DEF EnterCreate, EnterDelete, LeaveByException, HttpStep, TMNext
  <2>3. CASE LeaveCreate(h) \/ LeaveDelete(h)
    <3>1. proc[h].ok \in BOOLEAN
      BY DEF ThreadsOK, Proc
    <3>2. \/ \E ok \in BOOLEAN : CreateTaskProcess(h, ok)
          \/ \E ok \in BOOLEAN : DeleteTaskProcess(h, ok)
      BY <2>3, <3>1 DEF LeaveCreate, LeaveDelete
    <3> QED
      BY <3>2 DEF HttpStep, TMNext
  <2>4. CASE ProcStep(h) /\ UNCHANGED tmVars
    BY <2>4
  <2> QED
    BY <1>1, <2>1, <2>2, <2>3, <2>4 DEF HttpThread
<1>2. ASSUME NEW h \in HttpThreads, Request(h) PROVE TMNext
  BY <1>2 DEF TMNext
<1>3. ASSUME NEW t \in CbThreads, CbThread(t) PROVE TMNext \/ UNCHANGED tmVars
  <2>1. CASE EnterUpdate(t)
    <3>1. cb[t].task \in Tasks
      BY <2>1 DEF EnterUpdate, CallUpdate, ThreadsOK
    <3>2. IdOf[cb[t].task] \in TaskIds
      BY <3>1, IdOfAssumption
    <3>3. StatusCode(cb[t].end) \in Terminal
      BY DEF StatusCode, Terminal
    <3> QED
      BY <2>1, <3>2, <3>3 DEF EnterUpdate, TMNext
  <2>2. CASE InUpdate(t)
    BY <2>2 DEF InUpdate, TMNext
  <2>3. CASE CbStep(t) /\ UNCHANGED tmVars
    BY <2>3
  <2> QED
    BY <1>3, <2>1, <2>2, <2>3 DEF CbThread
<1>4. ASSUME NEW t \in CbThreads, NEW k \in Tasks, EngineTaskEnds(t, k)
      PROVE UNCHANGED tmVars
  BY <1>4 DEF EngineTaskEnds
<1> QED
  BY <1>1, <1>2, <1>3, <1>4 DEF Next

\* The program points the actions assign.
LEMMA PluginConstants ==
  /\ "idle" \in ProcPC /\ "init" \in ProcPC /\ "run" \in ProcPC
  /\ "start" \in ProcPC /\ "insert" \in ProcPC /\ "find" \in ProcPC
  /\ "stop" \in ProcPC /\ "wait" \in ProcPC /\ "return" \in ProcPC
  /\ "throw" \in ProcPC /\ "crash" \in ProcPC
  /\ "idle" \in CbPC /\ "find" \in CbPC /\ "handle" \in CbPC
  /\ "delete" \in CbPC /\ "run" \in CbPC /\ "start" \in CbPC
  /\ "update" \in CbPC /\ "updating" \in CbPC /\ "remove" \in CbPC
  /\ "setfin" \in CbPC /\ "erase" \in CbPC /\ "crash" \in CbPC
  /\ "FINISHED" \in EngineEnds /\ "STOPPED" \in EngineEnds
  /\ "ABNORMAL" \in EngineEnds
BY DEF ProcPC, CbPC, EngineEnds

\* A call of CreateTaskProc carries a task.
LEMMA CreateCarriesTask ==
  ASSUME TMInv, NEW h \in HttpThreads, http[h].op = "create"
  PROVE  http[h].task \in Tasks
BY DEF TMInv, CreateInv, CreateOK

\* A step of an HTTP thread in the plugin keeps the types.
LEMMA HttpThreadTypes ==
  ASSUME TMInv, ThreadsOK, NEW h \in HttpThreads, HttpThread(h)
  PROVE  ThreadsOK'
<1> USE DEF ThreadsOK, TaskOrNone
<1>1. CASE HttpOnly(h)
  BY <1>1 DEF HttpOnly, mmVars
<1>2. CASE EnterCreate(h)
  <2>1. http[h].task \in Tasks
    BY <1>2, CreateCarriesTask DEF EnterCreate, CreateTaskGroup
  <2>2. CASE UNCHANGED mmVars
    BY <2>2 DEF mmVars
  <2>3. CASE CallCreate(h, http[h].task)
    BY <2>1, <2>3, PluginConstants, IdOfAssumption
       DEF CallCreate, ProcIdle, Proc
  <2> QED
    BY <1>2, <2>2, <2>3 DEF EnterCreate
<1>3. CASE EnterDelete(h)
  <2>1. http[h].id \in TaskIds \cup {Null}
    BY DEF TMInv, TypeOK, Http, IdOrNull
  <2>2. CASE UNCHANGED mmVars
    BY <2>2 DEF mmVars
  <2>3. CASE CallDelete(h, http[h].id)
    BY <2>1, <2>3, PluginConstants DEF CallDelete, ProcIdle, Proc
  <2> QED
    BY <1>3, <2>2, <2>3 DEF EnterDelete
<1>4. CASE LeaveCreate(h) \/ LeaveDelete(h) \/ LeaveByException(h)
  <2>1. ReturnProc(h)
    BY <1>4 DEF LeaveCreate, LeaveDelete, LeaveByException
  <2> QED
    BY <2>1, PluginConstants DEF ReturnProc, ProcIdle, Proc
<1>5. CASE ProcStep(h)
  <2>1. CASE MATaskInit(h)
    BY <2>1, PluginConstants DEF MATaskInit, Return, Proc
  <2>2. CASE RunInCreate(h)
    BY <2>2, PluginConstants DEF RunInCreate, Return, Proc
  <2>3. CASE StartInCreate(h)
    BY <2>3, PluginConstants DEF StartInCreate, Return, Proc
  <2>4. CASE InsertTask(h)
    BY <2>4, PluginConstants DEF InsertTask, Return, Proc
  <2>5. CASE FindTaskByMaTaskId(h)
    BY <2>5, PluginConstants DEF FindTaskByMaTaskId, Return, Proc
  <2>6. CASE StopTask(h)
    BY <2>6, PluginConstants DEF StopTask, Return, Proc
  <2>7. CASE WaitTaskFinish(h)
    BY <2>7, PluginConstants DEF WaitTaskFinish, Return, Proc
  <2> QED
    BY <1>5, <2>1, <2>2, <2>3, <2>4, <2>5, <2>6, <2>7 DEF ProcStep
<1> QED
  BY <1>1, <1>2, <1>3, <1>4, <1>5 DEF HttpThread

\* A step of an engine thread keeps the types.
LEMMA CbThreadTypes ==
  ASSUME ThreadsOK, NEW t \in CbThreads,
         CbThread(t) \/ (\E k \in Tasks : EngineTaskEnds(t, k))
  PROVE  ThreadsOK'
<1> USE PluginConstants DEF ThreadsOK, TaskOrNone, Cb
<1>1. CASE EnterUpdate(t)
  BY <1>1 DEF EnterUpdate, CallUpdate
<1>2. CASE InUpdate(t)
  BY <1>2 DEF InUpdate, UpdateReturned, mmVars
<1>3. CASE CbStep(t)
  <2> USE DEF CbIdle
  <2>1. CASE FindTaskByModelboxTaskId(t) \/ HandleEnd(t)
    BY <2>1 DEF FindTaskByModelboxTaskId, HandleEnd
  <2>2. CASE DeleteForRerun(t) \/ RunInCallback(t) \/ StartInCallback(t)
    BY <2>2 DEF DeleteForRerun, RunInCallback, StartInCallback
  <2>3. CASE RemoveEngineTask(t) \/ SetTaskFinishStatus(t) \/ EraseTask(t)
    BY <2>3 DEF RemoveEngineTask, SetTaskFinishStatus, EraseTask
  <2> QED
    BY <1>3, <2>1, <2>2, <2>3 DEF CbStep
<1>4. ASSUME NEW k \in Tasks, EngineTaskEnds(t, k) PROVE ThreadsOK'
  BY <1>4 DEF EngineTaskEnds, EngineEnd
<1> QED
  BY <1>1, <1>2, <1>3, <1>4 DEF CbThread

\* Every step of the whole keeps the types.
LEMMA ThreadsStep == TMInv /\ ThreadsOK /\ [Next]_vars => ThreadsOK'
<1> SUFFICES ASSUME TMInv, ThreadsOK, [Next]_vars PROVE ThreadsOK'
  OBVIOUS
<1>1. CASE UNCHANGED mmVars
  BY <1>1 DEF ThreadsOK, mmVars
<1> QED
  BY <1>1, HttpThreadTypes, CbThreadTypes DEF Next, vars

\* The plugin starts with every thread idle.
LEMMA ThreadsInit == Init => ThreadsOK
BY PluginConstants
   DEF Init, MMInit, ThreadsOK, ProcIdle, CbIdle, Proc, Cb, TaskOrNone

\* The invariants of the task manager hold in the composition, where the
\* plugin's procedures run inside its handlers and the engine's callbacks call
\* UpdateTaskStatus, for any tasks, directories, engine behaviour and threads.
THEOREM InvarianceInPlugin == Spec => [](TMInv /\ ThreadsOK)
<1>1. Init => TMInv /\ ThreadsOK
  BY InitInv, ThreadsInit DEF Init
<1>2. TMInv /\ ThreadsOK /\ [Next]_vars => TMInv' /\ ThreadsOK'
  BY StepImplements, StepInv, ThreadsStep
<1> QED
  BY <1>1, <1>2, PTL DEF Spec

\* The composition implements the task manager.
THEOREM PluginImplements == Spec => TMSpec
<1>1. Init => TMInit
  BY DEF Init
<1>2. TMInv /\ ThreadsOK /\ [Next]_vars => [TMNext]_tmVars
  BY StepImplements
<1> QED
  BY <1>1, <1>2, InvarianceInPlugin, PTL DEF Spec, TMSpec

\* So it implements the abstract registry too: a running task of the plugin
\* is listed, ends once, and is forgotten only after it ended.
THEOREM PluginImplementsRegistry == Spec => ImplementsRegistry
BY PluginImplements, Refinement

------------------------------------------------------------------------------
(* The plugin implements the service                                        *)

\* Records and functions a step takes apart.
LEMMA Records ==
  ASSUME TMInv, ThreadsOK
  PROVE  /\ http \in [HttpThreads -> Http] /\ upd \in [CbThreads -> Upd]
         /\ proc \in [HttpThreads -> Proc] /\ cb \in [CbThreads -> Cb]
         /\ taskGroupMap \in [TaskIds -> TaskOrNull]
         /\ taskListMap \in [TaskIds -> TaskOrNone]
         /\ taskStatus \in [Tasks -> Status]
BY DEF TMInv, TypeOK, ThreadsOK

\* What a step of an HTTP thread in the task manager leaves alone.
LEMMA OthersSame ==
  ASSUME TMInv, ThreadsOK, NEW h \in HttpThreads,
         HttpOnly(h) \/ (Request(h) /\ UNCHANGED mmVars)
  PROVE  /\ UNCHANGED <<taskGroupMap, taskStatus, upd, mmVars>>
         /\ \A g \in HttpThreads \ {h} : http'[g] = http[g]
BY DEF TMInv, TypeOK, HttpOnly, Request, ReceiveCreate, Receive, LockMsg,
       ReturnMsg, DeleteFind, QueryFind, QueryDetail, PostReport, PostSent,
       PostNotify, Answer

\* ... and how its own record changes: it is in no procedure of the plugin
\* before, and in none after.
LEMMA HttpOnlyKeepsProc ==
  ASSUME TMInv, ThreadsOK, ServiceInv, NEW h \in HttpThreads,
         HttpOnly(h) \/ (Request(h) /\ UNCHANGED mmVars)
  PROVE  /\ http[h].pc \notin {"create_func", "delete_func"}
         /\ http'[h].pc \notin {"create_func", "delete_func"}
         /\ InDelete(h)' /\ AnswerOK(h)'
<1> USE Records DEF Http
<1>0. /\ http[h].pc \notin {"create_func", "delete_func"} => proc[h].pc = "idle"
      /\ http[h].pc \in {"lock", "find"} => http[h].code = 0
      /\ Confirming(h) => /\ http[h].pc \in {"notify", "unlock"}
                          /\ http[h].task \in Tasks
                          /\ EarlyEnd \/ taskStatus[http[h].task] \in Terminal
  BY DEF ServiceInv, ProcInv, AnswerOK
<1>1. UNCHANGED <<taskGroupMap, taskStatus, taskListMap, proc>>
  BY OthersSame DEF mmVars
<1>2. CASE Request(h)
  <2>1. http[h].pc = "idle" /\ http'[h].pc = "lock" /\ http'[h].code = 0
    <3>1. ASSUME NEW k \in Tasks, ReceiveCreate(h, k)
          PROVE http[h].pc = "idle" /\ http'[h].pc = "lock" /\ http'[h].code = 0
      BY <3>1 DEF ReceiveCreate, HttpIdle
    <3>2. ASSUME NEW op, NEW id, Receive(h, op, id)
          PROVE http[h].pc = "idle" /\ http'[h].pc = "lock" /\ http'[h].code = 0
      BY <3>2 DEF Receive, HttpIdle
    <3> QED
      BY <1>2, <3>1, <3>2 DEF Request
  <2> QED
    BY <1>0, <1>1, <2>1 DEF InDelete, AnswerOK, Confirming
<1>3. CASE LockMsg(h) \/ ReturnMsg(h)
  BY <1>0, <1>1, <1>3 DEF LockMsg, ReturnMsg, HttpIdle, InDelete, AnswerOK, Confirming
<1>4. CASE DeleteFind(h)
  <2>1. http[h].id \in TaskIds /\ http[h].code = 0
    BY <1>0, <1>4 DEF DeleteFind, TMInv, HandlerInv, HandlerOK
  <2>2. taskGroupMap[http[h].id] # Null =>
            taskListMap[http[h].id] \in {taskGroupMap[http[h].id], Null}
    BY <2>1 DEF ServiceInv, MapsAgree
  <2> QED
    BY <1>0, <1>1, <1>4, <2>1, <2>2
       DEF DeleteFind, FindTask, Answer, InDelete, AnswerOK, Confirming
<1>5. CASE QueryFind(h) \/ QueryDetail(h)
  BY <1>0, <1>1, <1>5
     DEF QueryFind, QueryDetail, FindTask, InDelete, AnswerOK, Confirming
<1>6. CASE PostReport(h) \/ PostSent(h) \/ PostNotify(h)
  BY <1>0, <1>1, <1>6
     DEF PostReport, PostSent, PostNotify, InDelete, AnswerOK, Confirming
<1> QED
  BY <1>2, <1>3, <1>4, <1>5, <1>6 DEF HttpOnly

\* One handler runs at a time.
LEMMA OneHandler ==
  ASSUME TMInv, NEW h \in HttpThreads, NEW g \in HttpThreads \ {h},
         http[h].pc \in Locked
  PROVE  http[g].pc \notin Locked
BY DEF TMInv, LockInv

\* A thread that is not between "find" and "unlock" has nothing to lose.
LEMMA OutsideKept ==
  ASSUME ServiceInv, NEW g \in HttpThreads, http[g].pc \notin Locked,
         http'[g] = http[g], proc'[g] = proc[g]
  PROVE  InCreate(g)' /\ InDelete(g)' /\ AnswerOK(g)'
BY DEF ServiceInv, ProcInv, InCreate, InDelete, AnswerOK, Confirming, Locked

\* A thread between them keeps what it holds while nothing is inserted, its
\* engine task does not start before its time, nor end unless it may end early,
\* and ended tasks stay ended.
LEMMA InsideKept ==
  ASSUME ServiceInv, TMInv, NEW g \in HttpThreads,
         http'[g] = http[g], proc'[g] = proc[g],
         http[g].pc = "create_func" =>
            /\ engine'[http[g].task] \in Busy =>
                  engine[http[g].task] \in Busy \/ Occupied(g)
            /\ engine[http[g].task] \in Busy =>
                  EarlyEnd \/ engine'[http[g].task] \in Busy,
         \A i \in TaskIds : taskListMap'[i] \in {taskListMap[i], Null},
         \A k \in Tasks : taskStatus[k] \in Terminal => taskStatus'[k] \in Terminal
  PROVE  InCreate(g)' /\ InDelete(g)' /\ AnswerOK(g)'
<1>0. InCreate(g) /\ InDelete(g) /\ AnswerOK(g)
  BY DEF ServiceInv, ProcInv
<1>1. http[g].pc = "create_func" => http[g].id \in TaskIds
  BY IdOfAssumption DEF TMInv, CreateInv, CreateOK
<1>2. http[g].pc = "delete_func" => http[g].task \in Tasks
  BY DEF TMInv, HandlerInv, HandlerOK
<1>3. InCreate(g)'
  BY <1>0, <1>1 DEF InCreate, Occupied
<1>4. InDelete(g)'
  BY <1>0, <1>2 DEF InDelete
<1>5. AnswerOK(g)'
  BY <1>0 DEF AnswerOK, Confirming
<1> QED
  BY <1>3, <1>4, <1>5

\* A create that has started its engine task keeps it.
LEMMA ArrivingKept ==
  ASSUME NEW k,
         \A h \in HttpThreads :
            http[h].pc = "create_func" /\ http[h].task = k /\ Occupied(h) =>
               /\ http'[h].pc = "create_func" /\ http'[h].task = k
               /\ Occupied(h)'
  PROVE  Arriving(k) => Arriving(k)'
BY DEF Arriving

\* The callbacks keep what they hold while neither they nor their tasks change.
LEMMA CbKept ==
  ASSUME ServiceInv, UNCHANGED <<cb, upd>>,
         \A t \in CbThreads : cb[t].pc # "idle" =>
            /\ taskStatus[cb[t].task] \in Started =>
                  taskStatus'[cb[t].task] = taskStatus[cb[t].task]
            /\ Arriving(cb[t].task) => Alive(cb[t].task)'
            /\ engine'[cb[t].task] \in Busy => engine[cb[t].task] \in Busy
  PROVE  CbInv'
<1>0. OwnEngineTask /\ \A t \in CbThreads : CbOK(t)
  BY DEF ServiceInv, CbInv
<1>1. OwnEngineTask'
  BY <1>0 DEF OwnEngineTask
<1>2. ASSUME NEW t \in CbThreads PROVE CbOK(t)'
  <2>1. cb[t].pc # "idle" =>
           /\ taskStatus[cb[t].task] \in Started =>
                 taskStatus'[cb[t].task] = taskStatus[cb[t].task]
           /\ Alive(cb[t].task) => Alive(cb[t].task)'
           /\ Over(cb[t].task) => Over(cb[t].task)'
    BY DEF Alive, Over, Started
  <2> QED
    BY <1>0, <2>1 DEF CbOK, Updating, Started
<1> QED
  BY <1>1, <1>2 DEF CbInv

\* A callback works for a task that was started.
LEMMA CbTaskStarted ==
  ASSUME ServiceInv, NEW t \in CbThreads, cb[t].pc \notin {"idle", "crash"}
  PROVE  /\ cb[t].task \in Tasks
         /\ taskStatus[cb[t].task] \in Started \/ Arriving(cb[t].task)
<1>1. cb[t].pc \in CbPC
  BY DEF ServiceInv, MMTypeOK, Cb
<1> QED
  BY <1>1 DEF ServiceInv, CbInv, CbOK, Started, CbPC, Alive, Over

\* Nobody else creates while h does, so no other task is about to be listed.
LEMMA ArrivingHere ==
  ASSUME TMInv, NEW h \in HttpThreads, http[h].pc \in Locked,
         NEW k, Arriving(k)
  PROVE  http[h].pc = "create_func" /\ http[h].task = k /\ Occupied(h)
BY OneHandler DEF Arriving, Locked

\* All of ServiceInv but the types, which ThreadsStep and DataStep treat.
Held == ProcInv /\ CbInv /\ MapsAgree /\ EngineInv

\* The steps of a handler in which the plugin takes no part.
LEMMA HttpOnlyStep ==
  ASSUME TMInv, ThreadsOK, ServiceInv, NEW h \in HttpThreads,
         HttpOnly(h) \/ (Request(h) /\ UNCHANGED mmVars)
  PROVE  Held'
<1>1. /\ UNCHANGED <<taskGroupMap, taskStatus, upd>>
      /\ UNCHANGED <<taskListMap, files, engine, finish, proc, cb>>
      /\ \A g \in HttpThreads \ {h} : http'[g] = http[g]
  BY OthersSame DEF mmVars
<1>2. /\ http[h].pc \notin {"create_func", "delete_func"}
      /\ http'[h].pc \notin {"create_func", "delete_func"}
      /\ InDelete(h)' /\ AnswerOK(h)'
  BY HttpOnlyKeepsProc
<1>3. ProcInv'
  <2>1. ASSUME NEW g \in HttpThreads \ {h}
        PROVE InCreate(g)' /\ InDelete(g)' /\ AnswerOK(g)'
    BY <1>1, InsideKept
  <2>2. InCreate(h)'
    BY <1>2 DEF InCreate
  <2> QED
    BY <1>2, <2>1, <2>2 DEF ProcInv
<1>4. CbInv'
  <2>1. \A j : Arriving(j) => Alive(j)'
    BY <1>1, <1>2 DEF Arriving, Alive, Occupied
  <2> QED
    BY <1>1, <2>1, CbKept
<1>5. MapsAgree'
  BY <1>1 DEF ServiceInv, MapsAgree
<1>6. EngineInv'
  BY <1>1, <1>2 DEF ServiceInv, EngineInv, RunningIsKnown
<1> QED
  BY <1>3, <1>4, <1>5, <1>6 DEF Held

\* Entering and leaving create_func and delete_func: what stays.
LEMMA EnterLeaveFrame ==
  ASSUME TMInv, ThreadsOK, NEW h \in HttpThreads,
         \/ EnterCreate(h) \/ LeaveCreate(h) \/ EnterDelete(h)
         \/ LeaveDelete(h) \/ LeaveByException(h)
  PROVE  /\ UNCHANGED <<taskListMap, files, engine, finish, cb, upd>>
         /\ http[h].pc \in Locked
         /\ \A g \in HttpThreads \ {h} : http'[g] = http[g] /\ proc'[g] = proc[g]
<1> USE Records DEF Locked
<1>1. CASE EnterCreate(h)
  BY <1>1 DEF EnterCreate, CreateTaskGroup, Answer, CallCreate, mmVars
<1>2. CASE LeaveCreate(h)
  BY <1>2 DEF LeaveCreate, CreateTaskProcess, Answer, ReturnProc
<1>3. CASE EnterDelete(h)
  BY <1>3 DEF EnterDelete, DeleteStatus, Answer, CallDelete, mmVars
<1>4. CASE LeaveDelete(h)
  BY <1>4 DEF LeaveDelete, DeleteTaskProcess, Answer, ReturnProc
<1>5. CASE LeaveByException(h)
  BY <1>5 DEF LeaveByException, Throw, ReturnProc
<1> QED
  BY <1>1, <1>2, <1>3, <1>4, <1>5

\* CreateTaskProcess enters create_func.
LEMMA EnterCreateStep ==
  ASSUME TMInv, ThreadsOK, ServiceInv, ~ Crashed, NEW h \in HttpThreads,
         EnterCreate(h)
  PROVE  Held'
<1> DEFINE k == http[h].task
<1>1. /\ UNCHANGED <<taskListMap, files, engine, finish, cb, upd>>
      /\ http[h].pc \in Locked
      /\ \A g \in HttpThreads \ {h} : http'[g] = http[g] /\ proc'[g] = proc[g]
  BY EnterLeaveFrame
<1>2. /\ http[h].pc = "find" /\ http[h].op = "create"
      /\ k \in Tasks /\ http[h].id = IdOf[k] /\ taskStatus[k] = "NONE"
      /\ UNCHANGED taskGroupMap
  BY DEF EnterCreate, CreateTaskGroup, TMInv, CreateInv, CreateOK
<1>3. proc[h].pc = "idle"
  BY <1>2 DEF ServiceInv, ProcInv, AnswerOK
<1>4. engine[k] \notin Busy
  <2>1. \A g \in HttpThreads : ~ (http[g].pc = "create_func" /\ http[g].task = k)
    BY <1>2 DEF TMInv, CreateInv, CreateOK
  <2> QED
    BY <1>2, <2>1 DEF ServiceInv, EngineInv, RunningIsKnown, Busy
<1>5. \A j \in Tasks : /\ taskStatus[j] \in Started => taskStatus'[j] = taskStatus[j]
                       /\ taskStatus'[j] \in Started => taskStatus[j] \in Started
  BY <1>2, Records DEF EnterCreate, CreateTaskGroup, Started, Terminal
<1>6. ProcInv'
  <2>1. ASSUME NEW g \in HttpThreads \ {h}
        PROVE InCreate(g)' /\ InDelete(g)' /\ AnswerOK(g)'
    BY <1>1, OneHandler, OutsideKept
  <2>2. CASE http'[h].pc = "create_func"
    <3>1. /\ http'[h].op = "create" /\ http'[h].task = k
          /\ http'[h].id = http[h].id /\ http'[h].code = http[h].code
      BY <1>2, <2>2, Records DEF EnterCreate, CreateTaskGroup, Answer, Http
    <3>2. http[h].code = 0
      BY <1>2 DEF ServiceInv, ProcInv, AnswerOK
    <3>3. /\ proc'[h].pc = "init" /\ proc'[h].task = k /\ proc'[h].id = IdOf[k]
      BY <2>2, Records DEF EnterCreate, CallCreate, ProcIdle, Proc
    <3> QED
      BY <1>1, <1>2, <1>4, <2>1, <2>2, <3>1, <3>2, <3>3
         DEF ProcInv, InCreate, InDelete, AnswerOK, Confirming, Occupied
  <2>3. CASE http'[h].pc # "create_func"
    <3>1. /\ http'[h].pc = "notify" /\ http'[h].op = "create"
      BY <1>2, <2>3, Records DEF EnterCreate, CreateTaskGroup, Answer, Http
    <3>2. proc'[h] = proc[h]
      BY <2>3 DEF EnterCreate, mmVars
    <3> QED
      BY <1>3, <2>1, <3>1, <3>2
         DEF ProcInv, InCreate, InDelete, AnswerOK, Confirming
  <2> QED
    BY <2>2, <2>3
<1>7. CbInv'
  <2>1. ASSUME NEW t \in CbThreads, cb[t].pc # "idle"
        PROVE /\ cb[t].task \in Tasks
              /\ ~ Arriving(cb[t].task)
    BY <1>1, <1>2, <2>1, CbTaskStarted, ArrivingHere DEF Crashed
  <2> QED
    BY <1>1, <1>5, <2>1, CbKept
<1>8. MapsAgree'
  BY <1>1, <1>2 DEF ServiceInv, MapsAgree
<1>9. EngineInv'
  <2>1. \A g \in HttpThreads : http[g].pc = "create_func" => http'[g] = http[g]
    BY <1>1, <1>2
  <2> QED
    BY <1>1, <1>5, <2>1 DEF ServiceInv, EngineInv, RunningIsKnown, Started, Terminal
<1> QED
  BY <1>6, <1>7, <1>8, <1>9 DEF Held

\* create_func returned, or threw.
LEMMA LeaveCreateStep ==
  ASSUME TMInv, ThreadsOK, ServiceInv, ~ Crashed, NEW h \in HttpThreads,
         http[h].pc = "create_func", LeaveCreate(h) \/ LeaveByException(h)
  PROVE  Held'
<1> DEFINE k == http[h].task
           i == http[h].id
<1>1. /\ UNCHANGED <<taskListMap, files, engine, finish, cb, upd>>
      /\ \A g \in HttpThreads \ {h} : http'[g] = http[g] /\ proc'[g] = proc[g]
  BY EnterLeaveFrame
<1>2. /\ k \in Tasks /\ i = IdOf[k] /\ i \in TaskIds /\ taskStatus[k] = "PENDING"
      /\ http[h].op = "create"
  BY IdOfAssumption DEF TMInv, CreateInv, CreateOK
<1>3. \/ /\ taskListMap[i] \in {k, Null}
         /\ taskStatus' = [taskStatus EXCEPT ![k] = "RUNNING"]
         /\ taskGroupMap' = [taskGroupMap EXCEPT ![i] = k]
      \/ /\ engine[k] \notin Busy /\ ~ Occupied(h)
         /\ UNCHANGED <<taskStatus, taskGroupMap>>
  <2>0. InCreate(h)
    BY DEF ServiceInv, ProcInv
  <2>1. CASE LeaveCreate(h) /\ proc[h].ok
    BY <2>0, <2>1 DEF LeaveCreate, CreateTaskProcess, InCreate, Occupied
  <2>2. CASE LeaveCreate(h) /\ ~ proc[h].ok
    BY <2>0, <2>2 DEF LeaveCreate, CreateTaskProcess, InCreate, Occupied
  <2>3. CASE LeaveByException(h)
    BY <2>0, <2>3 DEF LeaveByException, Throw, InCreate, Occupied
  <2> QED
    BY <2>1, <2>2, <2>3
<1>4. /\ http'[h].pc \in {"report", "notify", "unlock"}
      /\ http'[h].op = "create" /\ proc'[h].pc = "idle"
  <2>1. proc'[h].pc = "idle"
    BY Records DEF LeaveCreate, LeaveByException, ReturnProc, ProcIdle
  <2>2. CASE LeaveByException(h)
    BY <1>2, <2>1, <2>2, Records DEF LeaveByException, Throw, Http
  <2>3. CASE LeaveCreate(h) /\ proc[h].ok
    BY <1>2, <2>1, <2>3, Records DEF LeaveCreate, CreateTaskProcess, Http
  <2>4. CASE LeaveCreate(h) /\ ~ proc[h].ok
    BY <1>2, <2>1, <2>4, Records DEF LeaveCreate, CreateTaskProcess, Answer, Http
  <2> QED
    BY <2>2, <2>3, <2>4
<1> HIDE DEF k, i
<1>5. ProcInv'
  <2>1. ASSUME NEW g \in HttpThreads \ {h}
        PROVE InCreate(g)' /\ InDelete(g)' /\ AnswerOK(g)'
    BY <1>1, OneHandler, OutsideKept DEF Locked
  <2> QED
    BY <1>4, <2>1 DEF ProcInv, InCreate, InDelete, AnswerOK, Confirming
<1>6. \A j \in Tasks \ {k} : taskStatus'[j] = taskStatus[j]
  BY <1>3, Records
<1>7. CbInv'
  <2>1. ASSUME NEW t \in CbThreads, cb[t].pc # "idle"
        PROVE /\ cb[t].task \in Tasks
              /\ taskStatus[cb[t].task] \in Started => cb[t].task # k
              /\ Arriving(cb[t].task) => cb[t].task = k /\ Occupied(h)
    BY <1>2, <2>1, CbTaskStarted, ArrivingHere
       DEF Crashed, Started, Terminal, Locked, k
  <2>2. Occupied(h) => taskStatus'[k] = "RUNNING"
    BY <1>2, <1>3, Records
  <2>3. ASSUME NEW t \in CbThreads, cb[t].pc # "idle"
        PROVE Arriving(cb[t].task) => Alive(cb[t].task)'
    BY <1>1, <2>1, <2>2, <2>3 DEF Alive
  <2> QED
    BY <1>1, <1>6, <2>1, <2>3, CbKept
<1>8. MapsAgree'
  BY <1>1, <1>2, <1>3, Records DEF ServiceInv, MapsAgree
<1>9. EngineInv'
  <2>1. ASSUME NEW g \in HttpThreads, http[g].pc = "create_func"
        PROVE g = h
    BY <2>1, OneHandler DEF Locked
  <2>2. ASSUME NEW j \in Tasks, engine[j] \in Busy PROVE taskStatus'[j] = "RUNNING"
    <3>1. CASE j = k
      BY <1>2, <1>3, <2>2, <3>1, Records
    <3>2. CASE j # k
      BY <1>6, <2>1, <2>2, <3>2 DEF ServiceInv, EngineInv, RunningIsKnown, Busy, k
    <3> QED
      BY <3>1, <3>2
  <2>3. ASSUME NEW j \in Tasks, finish[j]
        PROVE EarlyEnd \/ taskStatus'[j] \in Terminal
    BY <1>2, <1>6, <2>3 DEF ServiceInv, EngineInv, Terminal
  <2> QED
    BY <1>1, <2>2, <2>3 DEF EngineInv, RunningIsKnown, Busy
<1> QED
  BY <1>5, <1>7, <1>8, <1>9 DEF Held

\* DeleteTaskProcess enters and leaves delete_func.
LEMMA DeleteSteps ==
  ASSUME TMInv, ThreadsOK, ServiceInv, NEW h \in HttpThreads,
         http[h].pc \in {"status", "delete_func"},
         EnterDelete(h) \/ LeaveDelete(h) \/ LeaveByException(h)
  PROVE  Held'
<1> DEFINE k == http[h].task
<1>1. /\ UNCHANGED <<taskListMap, files, engine, finish, cb, upd>>
      /\ \A g \in HttpThreads \ {h} : http'[g] = http[g] /\ proc'[g] = proc[g]
  BY EnterLeaveFrame
<1>2. UNCHANGED <<taskStatus, taskGroupMap>>
  BY DEF EnterDelete, DeleteStatus, LeaveDelete, DeleteTaskProcess,
         LeaveByException, Throw
<1>3. /\ InDelete(h) /\ AnswerOK(h) /\ k \in Tasks /\ taskStatus[k] \in Started
      /\ http[h].op = "delete"
  BY DEF ServiceInv, ProcInv, TMInv, HandlerInv, HandlerOK
<1>4. InCreate(h)' /\ InDelete(h)' /\ AnswerOK(h)'
  <2>1. CASE EnterDelete(h) /\ taskStatus[k] = "RUNNING"
    <3>1. /\ http'[h].pc = "delete_func" /\ http'[h].id = http[h].id
          /\ http'[h].task = k /\ http'[h].code = http[h].code
          /\ http[h].pc = "status"
      BY <2>1, Records DEF EnterDelete, DeleteStatus, Http
    <3>2. proc'[h].pc = "find" /\ proc'[h].id = http[h].id
      BY <2>1, <3>1, Records DEF EnterDelete, CallDelete, ProcIdle, Proc
    <3> QED
      BY <1>1, <1>3, <3>1, <3>2 DEF InCreate, InDelete, AnswerOK, Confirming
  <2>2. CASE EnterDelete(h) /\ taskStatus[k] # "RUNNING"
    <3>1. /\ http'[h].pc = "notify" /\ http'[h].task = k /\ http[h].pc = "status"
      BY <2>2, Records DEF EnterDelete, DeleteStatus, Answer, Http
    <3>2. proc'[h] = proc[h]
      BY <2>2, <3>1 DEF EnterDelete, mmVars
    <3>3. taskStatus'[k] \in Terminal
      BY <1>2, <1>3, <2>2 DEF Started
    <3> QED
      BY <1>3, <3>1, <3>2, <3>3 DEF InCreate, InDelete, AnswerOK, Confirming
  <2>3. CASE LeaveDelete(h)
    <3>1. /\ http[h].pc = "delete_func" /\ http'[h].pc = "notify"
          /\ http'[h].task = k
      BY <2>3, Records DEF LeaveDelete, DeleteTaskProcess, Answer, Http
    <3>2. proc'[h].pc = "idle"
      BY <2>3, Records DEF LeaveDelete, ReturnProc, ProcIdle
    <3>3. CASE proc[h].ok
      <4>1. EarlyEnd \/ taskStatus'[k] \in Terminal
        BY <1>2, <1>3, <2>3, <3>1, <3>3 DEF LeaveDelete, InDelete
      <4> QED
        BY <1>3, <3>1, <3>2, <4>1 DEF InCreate, InDelete, AnswerOK, Confirming
    <3>4. CASE ~ proc[h].ok
      <4>1. http'[h].code = 500
        BY <2>3, <3>4, Records DEF LeaveDelete, DeleteTaskProcess, Answer, Http
      <4> QED
        BY <3>1, <3>2, <4>1 DEF InCreate, InDelete, AnswerOK, Confirming
    <3> QED
      BY <3>3, <3>4
  <2>4. CASE LeaveByException(h)
    BY <1>3, <2>4 DEF LeaveByException, Throw, InDelete
  <2> QED
    BY <2>1, <2>2, <2>3, <2>4
<1>5. ProcInv'
  <2>1. ASSUME NEW g \in HttpThreads \ {h}
        PROVE InCreate(g)' /\ InDelete(g)' /\ AnswerOK(g)'
    BY <1>1, OneHandler, OutsideKept DEF Locked
  <2> QED
    BY <1>4, <2>1 DEF ProcInv
<1>6. CbInv'
  <2>1. \A j : ~ Arriving(j)
    BY ArrivingHere DEF Locked
  <2> QED
    BY <1>1, <1>2, <2>1, CbKept
<1>7. MapsAgree'
  BY <1>1, <1>2 DEF ServiceInv, MapsAgree
<1>8. EngineInv'
  <2>1. \A g \in HttpThreads : http[g].pc = "create_func" => http'[g] = http[g]
    BY <1>1
  <2> QED
    BY <1>1, <1>2, <2>1 DEF ServiceInv, EngineInv, RunningIsKnown
<1> QED
  BY <1>5, <1>6, <1>7, <1>8 DEF Held

\* A step inside a procedure of the plugin: which procedure, and what stays.
LEMMA ProcFrame ==
  ASSUME TMInv, ThreadsOK, ServiceInv, NEW h \in HttpThreads, ProcStep(h)
  PROVE  /\ UNCHANGED <<finish, cb>>
         /\ \A g \in HttpThreads \ {h} : proc'[g] = proc[g]
         /\ \/ /\ http[h].pc = "create_func"
               /\ MATaskInit(h) \/ RunInCreate(h) \/ StartInCreate(h) \/ InsertTask(h)
            \/ /\ http[h].pc = "delete_func"
               /\ FindTaskByMaTaskId(h) \/ StopTask(h) \/ WaitTaskFinish(h)
<1>1. /\ http[h].pc \notin {"create_func", "delete_func"} => proc[h].pc = "idle"
      /\ http[h].pc = "create_func" =>
            proc[h].pc \in {"init", "run", "start", "insert", "return", "throw"}
      /\ http[h].pc = "delete_func" =>
            proc[h].pc \in {"find", "stop", "wait", "return", "crash"}
  BY DEF ServiceInv, ProcInv, InCreate, InDelete, AnswerOK
<1>2. CASE MATaskInit(h)
  BY <1>1, <1>2, Records DEF MATaskInit, Return
<1>3. CASE RunInCreate(h)
  BY <1>1, <1>3, Records DEF RunInCreate, Return
<1>4. CASE StartInCreate(h)
  BY <1>1, <1>4, Records DEF StartInCreate, Return
<1>5. CASE InsertTask(h)
  BY <1>1, <1>5, Records DEF InsertTask, Return
<1>6. CASE FindTaskByMaTaskId(h)
  BY <1>1, <1>6, Records DEF FindTaskByMaTaskId, Return
<1>7. CASE StopTask(h)
  BY <1>1, <1>7, Records DEF StopTask, Return
<1>8. CASE WaitTaskFinish(h)
  BY <1>1, <1>8, Records DEF WaitTaskFinish, Return
<1> QED
  BY <1>2, <1>3, <1>4, <1>5, <1>6, <1>7, <1>8 DEF ProcStep

\* CreateTaskProc from one critical section to the next: its own engine task
\* and its own MATask are all it touches.
LEMMA CreateProcMoves ==
  ASSUME TMInv, ThreadsOK, ServiceInv, NEW h \in HttpThreads,
         http[h].pc = "create_func",
         MATaskInit(h) \/ RunInCreate(h) \/ StartInCreate(h) \/ InsertTask(h)
  PROVE  /\ \A j \in Tasks \ {http[h].task} : engine'[j] = engine[j]
         /\ \/ taskListMap' = taskListMap
            \/ taskListMap' = [taskListMap EXCEPT ![http[h].id] = http[h].task]
         /\ proc'[h].pc \in {"init", "run", "start", "insert", "return", "throw"}
         /\ proc'[h].task = proc[h].task /\ proc'[h].id = proc[h].id
         /\ engine'[http[h].task] \in Busy => Occupied(h)'
         /\ Occupied(h)' => EarlyEnd \/ engine'[http[h].task] \in Busy
         /\ Occupied(h) => Occupied(h)' /\ UNCHANGED engine
         /\ proc'[h].pc = "return" /\ proc'[h].ok =>
               taskListMap'[http[h].id] = http[h].task
<1> USE Records DEF Proc
<1>1. /\ proc[h].task = http[h].task /\ proc[h].id = http[h].id
      /\ http[h].task \in Tasks /\ http[h].id \in TaskIds
      /\ engine[http[h].task] \in Busy => Occupied(h)
      /\ Occupied(h) => EarlyEnd \/ engine[http[h].task] \in Busy
      /\ engine \in [Tasks -> EngineStates]
  BY IdOfAssumption
     DEF ServiceInv, MMTypeOK, ProcInv, InCreate, TMInv, CreateInv, CreateOK
<1>2. CASE MATaskInit(h)
  BY <1>1, <1>2 DEF MATaskInit, Return, Occupied
<1>3. CASE RunInCreate(h)
  BY <1>1, <1>3 DEF RunInCreate, RunFails, NewEngineTask, Return, Occupied, Busy
<1>4. CASE StartInCreate(h)
  BY <1>1, <1>4 DEF StartInCreate, Return, Occupied, Busy
<1>5. CASE InsertTask(h)
  BY <1>1, <1>5 DEF InsertTask, Return, Occupied
<1> QED
  BY <1>2, <1>3, <1>4, <1>5

\* A step of CreateTaskProc.
LEMMA CreateProcStep ==
  ASSUME TMInv, ThreadsOK, ServiceInv, ~ Crashed, NEW h \in HttpThreads,
         http[h].pc = "create_func", UNCHANGED tmVars, UNCHANGED <<finish, cb>>,
         \A g \in HttpThreads \ {h} : proc'[g] = proc[g],
         MATaskInit(h) \/ RunInCreate(h) \/ StartInCreate(h) \/ InsertTask(h)
  PROVE  Held'
<1> DEFINE k == http[h].task
           i == http[h].id
<1>1. /\ \A j \in Tasks \ {k} : engine'[j] = engine[j]
      /\ taskListMap' = taskListMap \/ taskListMap' = [taskListMap EXCEPT ![i] = k]
      /\ proc'[h].pc \in {"init", "run", "start", "insert", "return", "throw"}
      /\ proc'[h].task = proc[h].task /\ proc'[h].id = proc[h].id
      /\ engine'[k] \in Busy => Occupied(h)'
      /\ Occupied(h)' => EarlyEnd \/ engine'[k] \in Busy
      /\ Occupied(h) => Occupied(h)' /\ UNCHANGED engine
      /\ proc'[h].pc = "return" /\ proc'[h].ok => taskListMap'[i] = k
  BY CreateProcMoves
<1>2. UNCHANGED <<http, upd, taskStatus, taskGroupMap>>
  BY DEF tmVars
<1>3. /\ k \in Tasks /\ i = IdOf[k] /\ i \in TaskIds /\ taskStatus[k] = "PENDING"
      /\ http[h].op = "create" /\ taskGroupMap[i] = Null
      /\ proc[h].task = k /\ proc[h].id = i /\ http[h].code = 0
  BY IdOfAssumption
     DEF TMInv, CreateInv, CreateOK, ServiceInv, ProcInv, InCreate, AnswerOK
<1>4. ProcInv'
  <2>1. ASSUME NEW g \in HttpThreads \ {h}
        PROVE InCreate(g)' /\ InDelete(g)' /\ AnswerOK(g)'
    BY <1>2, OneHandler, OutsideKept DEF Locked
  <2>2. InCreate(h)'
    BY <1>1, <1>2, <1>3 DEF InCreate
  <2>3. InDelete(h)' /\ AnswerOK(h)'
    BY <1>2, <1>3 DEF InDelete, AnswerOK, Confirming
  <2> QED
    BY <2>1, <2>2, <2>3 DEF ProcInv
<1>5. CbInv'
  <2>1. ASSUME NEW t \in CbThreads, cb[t].pc # "idle"
        PROVE /\ cb[t].task \in Tasks
              /\ cb[t].task = k => Occupied(h)
    <3>1. cb[t].task = k => Arriving(k)
      BY <1>3, <2>1, CbTaskStarted DEF Crashed, Started, Terminal
    <3> QED
      BY <2>1, <3>1, CbTaskStarted, ArrivingHere DEF Crashed, Locked
  <2>2. ASSUME NEW j, Arriving(j) PROVE Alive(j)'
    <3>1. PICK g \in HttpThreads :
             http[g].pc = "create_func" /\ http[g].task = j /\ Occupied(g)
      BY <2>2 DEF Arriving
    <3>2. Occupied(g)'
      BY <1>1, <3>1 DEF Occupied
    <3> QED
      BY <1>2, <2>2, <3>1, <3>2 DEF Alive, Arriving
  <2>3. ASSUME NEW t \in CbThreads
        PROVE Arriving(cb[t].task) => Alive(cb[t].task)'
    <3>1. PICK j : j = cb[t].task
      OBVIOUS
    <3> QED
      BY <2>2, <3>1 DEF Alive, Arriving
  <2> QED
    BY <1>1, <1>2, <2>1, <2>3, CbKept
<1>6. MapsAgree'
  BY <1>1, <1>2, <1>3, Records DEF ServiceInv, MapsAgree
<1>7. EngineInv'
  BY <1>1, <1>2 DEF ServiceInv, EngineInv, RunningIsKnown, Busy
<1> QED
  BY <1>4, <1>5, <1>6, <1>7 DEF Held

\* A step of DeleteTaskProc.
LEMMA DeleteProcStep ==
  ASSUME TMInv, ThreadsOK, ServiceInv, NEW h \in HttpThreads,
         http[h].pc = "delete_func", UNCHANGED tmVars, UNCHANGED <<finish, cb>>,
         \A g \in HttpThreads \ {h} : proc'[g] = proc[g],
         FindTaskByMaTaskId(h) \/ StopTask(h) \/ WaitTaskFinish(h)
  PROVE  Held'
<1> DEFINE k == http[h].task
<1>1. UNCHANGED <<http, upd, taskStatus, taskGroupMap>>
  BY DEF tmVars
<1>2. /\ InDelete(h) /\ AnswerOK(h) /\ k \in Tasks /\ taskStatus[k] \in Started
      /\ \A j \in Tasks : finish[j] => EarlyEnd \/ taskStatus[j] \in Terminal
      /\ engine \in [Tasks -> EngineStates]
  BY DEF ServiceInv, ProcInv, EngineInv, MMTypeOK, TMInv, HandlerInv, HandlerOK
<1>3. /\ UNCHANGED taskListMap
      /\ \A j \in Tasks : engine'[j] \in Busy <=> engine[j] \in Busy
      /\ InDelete(h)'
  <2>1. CASE FindTaskByMaTaskId(h)
    <3>1. \/ proc'[h].pc = "return" /\ proc'[h].ok = FALSE
          \/ proc'[h].pc = "stop" /\ proc'[h].task = k
      BY <1>2, <2>1, Records DEF FindTaskByMaTaskId, Return, InDelete, Proc
    <3>2. proc'[h].id = proc[h].id
      BY <2>1, Records DEF FindTaskByMaTaskId, Return, Proc
    <3> QED
      BY <1>1, <1>2, <2>1, <3>1, <3>2 DEF FindTaskByMaTaskId, InDelete
  <2>2. CASE StopTask(h)
    <3>1. /\ proc[h].pc = "stop" /\ proc[h].task = k
          /\ proc'[h].id = proc[h].id /\ proc'[h].task = proc[h].task
          /\ \/ proc'[h].pc \in {"crash", "wait"}
             \/ proc'[h].pc = "return" /\ proc'[h].ok = FALSE
      BY <1>2, <2>2, Records DEF StopTask, Return, InDelete, Proc
    <3>2. engine' = engine \/ (engine[k] = "running" /\ engine' = [engine EXCEPT ![k] = "stopping"])
      BY <2>2, <3>1 DEF StopTask
    <3>3. \A j \in Tasks : engine'[j] \in Busy <=> engine[j] \in Busy
      BY <1>2, <3>2 DEF Busy
    <3> QED
      BY <1>1, <1>2, <2>2, <3>1, <3>3 DEF StopTask, InDelete
  <2>3. CASE WaitTaskFinish(h)
    <3>1. /\ proc[h].pc = "wait" /\ proc[h].task = k /\ finish[k]
          /\ proc'[h].id = proc[h].id /\ proc'[h].pc = "return"
      BY <1>2, <2>3, Records DEF WaitTaskFinish, Return, InDelete, Proc
    <3> QED
      BY <1>1, <1>2, <2>3, <3>1 DEF WaitTaskFinish, InDelete
  <2> QED
    BY <2>1, <2>2, <2>3
<1>4. ProcInv'
  <2>1. ASSUME NEW g \in HttpThreads \ {h}
        PROVE InCreate(g)' /\ InDelete(g)' /\ AnswerOK(g)'
    BY <1>1, OneHandler, OutsideKept DEF Locked
  <2>2. InCreate(h)' /\ AnswerOK(h)'
    BY <1>1, <1>2 DEF InCreate, AnswerOK, Confirming
  <2> QED
    BY <1>3, <2>1, <2>2 DEF ProcInv
<1>5. CbInv'
  <2>1. \A t \in CbThreads : cb[t].pc # "idle" => cb[t].task \in Tasks
    BY DEF ThreadsOK
  <2>2. \A j : ~ Arriving(j)
    BY ArrivingHere DEF Locked
  <2> QED
    BY <1>1, <1>3, <2>1, <2>2, CbKept
<1>6. MapsAgree'
  BY <1>1, <1>3 DEF ServiceInv, MapsAgree
<1>7. EngineInv'
  BY <1>1, <1>3 DEF ServiceInv, EngineInv, RunningIsKnown, Busy
<1> QED
  BY <1>4, <1>5, <1>6, <1>7 DEF Held

\* A callback outside UpdateTaskStatus, and the engine task it works for.
LEMMA CbFrame ==
  ASSUME ThreadsOK, ServiceInv, NEW t \in CbThreads, CbStep(t)
  PROVE  /\ cb[t].pc \notin {"idle", "crash", "updating"}
         /\ UNCHANGED proc
         /\ \A u \in CbThreads \ {t} : cb'[u] = cb[u]
         /\ \A j \in Tasks \ {cb[t].task} :
               engine'[j] = engine[j] /\ finish'[j] = finish[j]
         /\ \A i \in TaskIds : taskListMap'[i] \in {taskListMap[i], Null}
<1>0. /\ engine \in [Tasks -> EngineStates] /\ finish \in [Tasks -> BOOLEAN]
      /\ cb \in [CbThreads -> Cb] /\ taskListMap \in [TaskIds -> TaskOrNone]
  BY DEF ServiceInv, MMTypeOK
<1> USE <1>0 DEF Cb
<1>1. CASE FindTaskByModelboxTaskId(t) \/ HandleEnd(t)
  BY <1>1 DEF FindTaskByModelboxTaskId, HandleEnd
<1>2. CASE DeleteForRerun(t)
  BY <1>2 DEF DeleteForRerun
<1>3. CASE RunInCallback(t)
  BY <1>3 DEF RunInCallback, RunFails, NewEngineTask
<1>4. CASE StartInCallback(t)
  BY <1>4 DEF StartInCallback
<1>5. CASE RemoveEngineTask(t)
  BY <1>5 DEF RemoveEngineTask
<1>6. CASE SetTaskFinishStatus(t)
  BY <1>6 DEF SetTaskFinishStatus
<1>7. CASE EraseTask(t)
  BY <1>7 DEF EraseTask
<1> QED
  BY <1>1, <1>2, <1>3, <1>4, <1>5, <1>6, <1>7 DEF CbStep

\* How far it comes: the engine task runs again only when the callback is
\* left, and "finished" is said only after UpdateTaskStatus.
LEMMA CbMoves ==
  ASSUME ThreadsOK, ServiceInv, NEW t \in CbThreads, CbStep(t)
  PROVE  /\ \/ cb'[t].pc = "idle"
            \/ /\ cb'[t].task = cb[t].task /\ engine'[cb[t].task] \notin Busy
               /\ \/ cb'[t].pc = "crash"
                  \/ /\ cb[t].pc \in {"find", "handle", "delete", "run"}
                     /\ cb'[t].pc \in {"handle", "delete", "run", "start", "update"}
                  \/ /\ cb[t].pc \in {"remove", "setfin"}
                     /\ cb'[t].pc \in {"setfin", "erase"}
         /\ engine'[cb[t].task] \in Busy => cb[t].pc = "start"
         /\ finish'[cb[t].task] => finish[cb[t].task] \/ cb[t].pc = "setfin"
<1>0. /\ engine \in [Tasks -> EngineStates] /\ finish \in [Tasks -> BOOLEAN]
      /\ cb \in [CbThreads -> Cb]
      /\ cb[t].pc # "idle" => cb[t].task \in Tasks /\ engine[cb[t].task] \notin Busy
  BY DEF ServiceInv, MMTypeOK, CbInv, CbOK
<1> USE <1>0 DEF Cb, CbIdle, Busy
<1>1. CASE FindTaskByModelboxTaskId(t) \/ HandleEnd(t)
  BY <1>1 DEF FindTaskByModelboxTaskId, HandleEnd
<1>2. CASE DeleteForRerun(t)
  BY <1>2 DEF DeleteForRerun
<1>3. CASE RunInCallback(t)
  BY <1>3 DEF RunInCallback, RunFails, NewEngineTask
<1>4. CASE StartInCallback(t)
  BY <1>4 DEF StartInCallback
<1>5. CASE RemoveEngineTask(t)
  BY <1>5 DEF RemoveEngineTask
<1>6. CASE SetTaskFinishStatus(t)
  BY <1>6 DEF SetTaskFinishStatus
<1>7. CASE EraseTask(t)
  BY <1>7 DEF EraseTask
<1> QED
  BY <1>1, <1>2, <1>3, <1>4, <1>5, <1>6, <1>7 DEF CbStep

\* A step of a callback outside UpdateTaskStatus.
LEMMA CbStepHeld ==
  ASSUME TMInv, ThreadsOK, ServiceInv, NEW t \in CbThreads,
         CbStep(t), UNCHANGED tmVars
  PROVE  Held'
<1> DEFINE k == cb[t].task
<1>1. /\ cb[t].pc \notin {"idle", "crash", "updating"}
      /\ UNCHANGED proc
      /\ \A u \in CbThreads \ {t} : cb'[u] = cb[u]
      /\ \A j \in Tasks \ {k} : engine'[j] = engine[j] /\ finish'[j] = finish[j]
      /\ \A i \in TaskIds : taskListMap'[i] \in {taskListMap[i], Null}
  BY CbFrame
<1>2. /\ \/ cb'[t].pc = "idle"
         \/ /\ cb'[t].task = k /\ engine'[k] \notin Busy
            /\ \/ cb'[t].pc = "crash"
               \/ /\ cb[t].pc \in {"find", "handle", "delete", "run"}
                  /\ cb'[t].pc \in {"handle", "delete", "run", "start", "update"}
               \/ /\ cb[t].pc \in {"remove", "setfin"}
                  /\ cb'[t].pc \in {"setfin", "erase"}
      /\ engine'[k] \in Busy => cb[t].pc = "start"
      /\ finish'[k] => finish[k] \/ cb[t].pc = "setfin"
  BY CbMoves
<1>3. UNCHANGED <<http, upd, taskStatus, taskGroupMap>>
  BY DEF tmVars
<1>4. /\ OwnEngineTask /\ (\A u \in CbThreads : CbOK(u))
      /\ k \in Tasks /\ (taskStatus[k] \in Started \/ Arriving(k))
  BY <1>1, CbTaskStarted DEF ServiceInv, CbInv
<1> HIDE DEF k
<1>5. ProcInv'
  <2>1. ASSUME NEW g \in HttpThreads
        PROVE InCreate(g)' /\ InDelete(g)' /\ AnswerOK(g)'
    <3>1. http[g].pc = "create_func" =>
             http[g].task \in Tasks /\ taskStatus[http[g].task] = "PENDING"
      BY DEF TMInv, CreateInv, CreateOK
    <3>2. http[g].pc = "create_func" /\ http[g].task = k => EarlyEnd /\ Occupied(g)
      BY <1>4, <3>1, ArrivingHere DEF Started, Terminal, Locked, Arriving
    <3> QED
      BY <1>1, <1>3, <3>1, <3>2, InsideKept
  <2> QED
    BY <2>1 DEF ProcInv
<1>6. CbInv'
  <2>0. \A j : (Alive(j)' <=> Alive(j)) /\ (Over(j)' <=> Over(j))
    BY <1>1, <1>3 DEF Alive, Over, Arriving, Occupied
  <2>1. OwnEngineTask'
    BY <1>1, <1>2, <1>4 DEF OwnEngineTask, k
  <2>2. ASSUME NEW u \in CbThreads \ {t} PROVE CbOK(u)'
    <3>1. cb[u].pc # "idle" => cb[u].task \in Tasks \ {k}
      BY <1>1, <1>4 DEF OwnEngineTask, CbOK, k
    <3> QED
      BY <1>1, <1>3, <1>4, <2>0, <3>1 DEF CbOK, Updating
  <2>3. CbOK(t)'
    <3>1. /\ cb[t].pc \in {"find", "handle", "delete", "run"} => Alive(k)
          /\ cb[t].pc \in {"remove", "setfin"} => Over(k)
          /\ upd[t].pc = "idle"
      BY <1>1, <1>4 DEF CbOK, k
    <3> QED
      BY <1>1, <1>2, <1>3, <1>4, <3>1
         DEF CbOK, Updating, Alive, Over, Arriving, Occupied, k
  <2> QED
    BY <2>1, <2>2, <2>3 DEF CbInv
<1>7. MapsAgree'
  BY <1>1, <1>3 DEF ServiceInv, MapsAgree
<1>8. EngineInv'
  <2>1. cb[t].pc = "start" =>
           \/ taskStatus[k] = "RUNNING"
           \/ \E h \in HttpThreads : http[h].pc = "create_func" /\ http[h].task = k
    BY <1>4 DEF CbOK, k, Alive, Arriving
  <2>2. cb[t].pc = "setfin" => EarlyEnd \/ taskStatus[k] \in Terminal
    BY <1>4 DEF CbOK, k, Over
  <2>3. EngineInv
    BY DEF ServiceInv
  <2> QED
    BY <1>1, <1>2, <1>3, <2>1, <2>2, <2>3 DEF EngineInv, RunningIsKnown, Busy
<1> QED
  BY <1>5, <1>6, <1>7, <1>8 DEF Held

\* An engine task ends, after its group was listed or while it is created.
LEMMA EndHeld ==
  ASSUME TMInv, ThreadsOK, ServiceInv,
         NEW t \in CbThreads, NEW k \in Tasks, EngineTaskEnds(t, k)
  PROVE  Held'
<1>1. /\ UNCHANGED <<http, upd, taskStatus, taskGroupMap, taskListMap, finish, proc>>
      /\ EarlyEnd \/ taskStatus[k] = "RUNNING"
      /\ cb[t].pc = "idle"
      /\ engine[k] \in Busy /\ engine' = [engine EXCEPT ![k] = "ended"]
  BY DEF EngineTaskEnds, EngineEnd, tmVars, Busy
<1>2. /\ cb'[t].pc = "find" /\ cb'[t].task = k
      /\ \A u \in CbThreads \ {t} : cb'[u] = cb[u]
  BY Records DEF EngineTaskEnds, EngineEnd
<1>3. /\ OwnEngineTask /\ (\A u \in CbThreads : CbOK(u))
      /\ engine \in [Tasks -> EngineStates]
  BY DEF ServiceInv, CbInv, MMTypeOK
<1>0. Alive(k)
  <2>1. \/ taskStatus[k] = "RUNNING"
        \/ \E h \in HttpThreads : http[h].pc = "create_func" /\ http[h].task = k
    BY <1>1 DEF ServiceInv, EngineInv, RunningIsKnown, Busy
  <2>2. \A h \in HttpThreads :
           http[h].pc = "create_func" /\ http[h].task = k => Occupied(h)
    BY <1>1 DEF ServiceInv, ProcInv, InCreate
  <2> QED
    BY <1>1, <2>1, <2>2 DEF Alive, Arriving
<1>4. ProcInv'
  <2>1. ASSUME NEW g \in HttpThreads
        PROVE InCreate(g)' /\ InDelete(g)' /\ AnswerOK(g)'
    <3>1. http[g].pc = "create_func" =>
             http[g].task \in Tasks /\ (EarlyEnd \/ http[g].task # k)
      BY <1>1 DEF TMInv, CreateInv, CreateOK
    <3> QED
      BY <1>1, <1>3, <3>1, InsideKept DEF Busy
  <2> QED
    BY <2>1 DEF ProcInv
<1>5. CbInv'
  <2>0. \A j : (Alive(j)' <=> Alive(j)) /\ (Over(j)' <=> Over(j))
    BY <1>1 DEF Alive, Over, Arriving, Occupied
  <2>1. \A u \in CbThreads \ {t} : cb[u].pc # "idle" => cb[u].task \in Tasks \ {k}
    BY <1>1, <1>3 DEF CbOK
  <2>2. OwnEngineTask'
    BY <1>2, <1>3, <2>1 DEF OwnEngineTask
  <2>3. ASSUME NEW u \in CbThreads \ {t} PROVE CbOK(u)'
    BY <1>1, <1>2, <1>3, <2>0, <2>1 DEF CbOK, Updating
  <2>4. CbOK(t)'
    BY <1>0, <1>1, <1>2, <1>3, <2>0 DEF CbOK, Updating, Busy
  <2> QED
    BY <2>2, <2>3, <2>4 DEF CbInv
<1>6. MapsAgree'
  BY <1>1 DEF ServiceInv, MapsAgree
<1>7. EngineInv'
  BY <1>1, <1>3 DEF ServiceInv, EngineInv, RunningIsKnown, Busy
<1> QED
  BY <1>4, <1>5, <1>6, <1>7 DEF Held

\* The callback calls UpdateTaskStatus.
LEMMA EnterUpdateHeld ==
  ASSUME TMInv, ThreadsOK, ServiceInv, NEW t \in CbThreads, EnterUpdate(t)
  PROVE  Held'
<1>1. /\ UNCHANGED <<http, taskStatus, taskGroupMap, taskListMap, engine, finish, proc>>
      /\ cb[t].pc = "update"
  BY DEF EnterUpdate, CallUpdate, UpdateCall
<1>2. /\ cb'[t].pc = "updating" /\ cb'[t].task = cb[t].task
      /\ upd'[t].pc = "find" /\ upd'[t].id = IdOf[cb[t].task]
      /\ \A u \in CbThreads \ {t} : cb'[u] = cb[u] /\ upd'[u] = upd[u]
  BY Records DEF EnterUpdate, CallUpdate, UpdateCall, UpdIdle, Cb
<1>3. OwnEngineTask /\ (\A u \in CbThreads : CbOK(u))
  BY DEF ServiceInv, CbInv
<1>4. ProcInv'
  BY <1>1, InsideKept DEF ProcInv
<1>5. CbInv'
  <2>0. \A j : (Alive(j)' <=> Alive(j)) /\ (Over(j)' <=> Over(j))
    BY <1>1 DEF Alive, Over, Arriving, Occupied
  <2>1. OwnEngineTask'
    BY <1>1, <1>2, <1>3 DEF OwnEngineTask
  <2>2. ASSUME NEW u \in CbThreads \ {t} PROVE CbOK(u)'
    BY <1>1, <1>2, <1>3, <2>0 DEF CbOK, Updating
  <2>3. CbOK(t)'
    BY <1>1, <1>2, <1>3, <2>0 DEF CbOK, Updating
  <2> QED
    BY <2>1, <2>2, <2>3 DEF CbInv
<1>6. MapsAgree' /\ EngineInv'
  BY <1>1 DEF ServiceInv, MapsAgree, EngineInv, RunningIsKnown
<1> QED
  BY <1>4, <1>5, <1>6 DEF Held

\* Where a thread is in UpdateTaskStatus: it finds the group of the task that
\* ended, and does not return before it has set the end of that group, unless
\* the task ended before its group is listed.
LEMMA UpdateMoves ==
  ASSUME TMInv, ThreadsOK, ServiceInv, NEW t \in CbThreads, UpdStep(t)
  PROVE  LET k == cb[t].task IN
         /\ cb[t].pc = "updating" /\ k \in Tasks
         /\ \/ /\ upd[t].pc = "find" /\ upd'[t].pc = "set" /\ upd'[t].id = upd[t].id
               /\ taskStatus[k] = "RUNNING"
               /\ UNCHANGED <<taskStatus, taskGroupMap>>
            \/ /\ upd[t].pc = "find" /\ upd'[t].pc = "idle"
               /\ Arriving(k) /\ UNCHANGED <<taskStatus, taskGroupMap>>
            \/ /\ upd[t].pc = "set" /\ upd'[t].pc = "report" /\ upd'[t].id = upd[t].id
               /\ taskStatus[k] = "RUNNING" /\ taskGroupMap[IdOf[k]] = k
               /\ UNCHANGED taskGroupMap
               /\ \E s \in Terminal : taskStatus' = [taskStatus EXCEPT ![k] = s]
            \/ /\ upd[t].pc \in {"report", "send"} /\ upd'[t].pc \in {"send", "erase"}
               /\ upd'[t].id = upd[t].id /\ UNCHANGED <<taskStatus, taskGroupMap>>
            \/ /\ upd[t].pc = "erase" /\ upd'[t].pc = "notify"
               /\ taskGroupMap' = [taskGroupMap EXCEPT ![upd[t].id] = Null]
               /\ upd[t].id \in TaskIds /\ taskGroupMap[upd[t].id] \in Tasks
               /\ taskStatus[taskGroupMap[upd[t].id]] \in Terminal
               /\ UNCHANGED taskStatus
            \/ /\ upd[t].pc = "notify" /\ upd'[t].pc = "idle"
               /\ UNCHANGED <<taskStatus, taskGroupMap>>
<1> DEFINE k == cb[t].task
<1>1. /\ CbOK(t) /\ UpdateOK(t)
      /\ cb[t].pc = "updating" /\ k \in Tasks
      /\ upd[t].pc \in {"find", "set"} => Alive(k) /\ upd[t].id = IdOf[k]
      /\ upd[t].pc = "set" => taskStatus[k] = "RUNNING"
  BY DEF Alive, ServiceInv, CbInv, CbOK, TMInv, UpdateInv, Updating, UpdStep,
         UpdateFind, UpdateSet, UpdateReport, UpdateSent, UpdateErase, UpdateNotify
<1>2. /\ taskStatus[k] = "RUNNING" => taskGroupMap[IdOf[k]] = k
      /\ Arriving(k) => taskGroupMap[IdOf[k]] = Null
  BY <1>1 DEF TMInv, RunningListed, CreateInv, CreateOK, Arriving
<1> USE Records DEF Upd
<1>3. CASE UpdateFind(t)
  <2>1. IF taskGroupMap[upd[t].id] = Null THEN Arriving(k)
                                          ELSE taskStatus[k] = "RUNNING"
    BY <1>1, <1>2, <1>3, NullAssumption DEF UpdateFind, Alive
  <2> QED
    BY <1>1, <1>3, <2>1 DEF UpdateFind, FindTask, UpdIdle
<1>4. CASE UpdateSet(t)
  <2>1. upd[t].pc = "set" /\ upd[t].task = k /\ upd[t].to \in Terminal
    BY <1>1, <1>2, <1>4 DEF UpdateSet, UpdateOK, Updating
  <2> QED
    BY <1>1, <1>2, <1>4, <2>1 DEF UpdateSet, Terminal
<1>5. CASE UpdateReport(t) \/ UpdateSent(t)
  BY <1>1, <1>5 DEF UpdateReport, UpdateSent
<1>6. CASE UpdateErase(t)
  BY <1>1, <1>6 DEF UpdateErase, UpdateOK, Updating
<1>7. CASE UpdateNotify(t)
  BY <1>1, <1>7 DEF UpdateNotify, UpdIdle
<1> QED
  BY <1>3, <1>4, <1>5, <1>6, <1>7 DEF UpdStep

\* A step of UpdateTaskStatus in a callback, with its return.
LEMMA InUpdateHeld ==
  ASSUME TMInv, ThreadsOK, ServiceInv, NEW t \in CbThreads, InUpdate(t)
  PROVE  Held'
<1> DEFINE k == cb[t].task
<1>0. UpdStep(t)
  BY DEF InUpdate
<1>1. /\ cb[t].pc = "updating" /\ k \in Tasks /\ CbOK(t)
      /\ OwnEngineTask /\ (\A u \in CbThreads : CbOK(u))
      /\ taskStatus \in [Tasks -> Status] /\ taskGroupMap \in [TaskIds -> TaskOrNull]
  BY <1>0, UpdateMoves, Records DEF ServiceInv, CbInv
<1>2. /\ UNCHANGED http
      /\ \A u \in CbThreads \ {t} : upd'[u] = upd[u]
  BY <1>0, UpdFrame DEF TMInv
<1>3. /\ UNCHANGED <<taskListMap, files, engine, finish, proc>>
      /\ \A u \in CbThreads \ {t} : cb'[u] = cb[u]
      /\ cb'[t].task = k
      /\ cb'[t].pc = IF upd'[t].pc = "idle" THEN "remove" ELSE "updating"
  BY <1>1, Records DEF InUpdate, UpdateReturned, mmVars, Cb
<1>4. /\ \A j \in Tasks \ {k} : taskStatus'[j] = taskStatus[j]
      /\ \/ taskStatus' = taskStatus
         \/ taskStatus[k] = "RUNNING" /\ taskStatus'[k] \in Terminal
  BY <1>0, <1>1, UpdateMoves
<1>5. \A j \in Tasks : taskStatus[j] \in Terminal => taskStatus'[j] \in Terminal
  BY <1>4 DEF Terminal
<1>6. ProcInv'
  BY <1>2, <1>3, <1>5, InsideKept DEF ProcInv
<1>7. CbInv'
  <2>0. /\ \A j : Arriving(j)' <=> Arriving(j)
        /\ \A j \in Tasks \ {k} :
              (Alive(j)' <=> Alive(j)) /\ (Over(j)' <=> Over(j))
    BY <1>2, <1>3, <1>4 DEF Alive, Over, Arriving, Occupied
  <2>1. OwnEngineTask'
    BY <1>1, <1>3 DEF OwnEngineTask
  <2>2. ASSUME NEW u \in CbThreads \ {t} PROVE CbOK(u)'
    <3>1. cb[u].pc # "idle" => cb[u].task \in Tasks \ {k}
      BY <1>1 DEF OwnEngineTask, CbOK
    <3> QED
      BY <1>1, <1>2, <1>3, <1>4, <2>0, <3>1 DEF CbOK, Updating
  <2>3. CbOK(t)'
    <3>1. /\ Updating(t) => upd[t].id = IdOf[k]
          /\ upd[t].pc \notin {"find", "set"} => taskStatus[k] \in Terminal
          /\ engine[k] \notin Busy
      BY <1>1 DEF CbOK
    <3>0. PICK x \in Tasks : x = k
      BY <1>1
    <3>2. /\ Updating(t)' => upd'[t].id = IdOf[k]
          /\ upd'[t].pc # "find"
          /\ \/ upd'[t].pc = "idle" /\ Over(x)'
             \/ /\ upd'[t].pc # "idle"
                /\ taskStatus'[k] \in IF upd'[t].pc = "set" THEN {"RUNNING"}
                                                            ELSE Terminal
      <4>1. Arriving(x) => Over(x)'
        BY <2>0 DEF Over, Alive, Arriving
      <4>2. taskStatus'[x] \in Terminal => Over(x)'
        BY DEF Over
      <4> QED
        BY <1>0, <1>1, <3>0, <3>1, <4>1, <4>2, UpdateMoves DEF Updating
    <3> QED
      BY <1>1, <1>3, <3>0, <3>1, <3>2
         DEF CbOK, Updating, Alive, Over, Arriving, Occupied
  <2> QED
    BY <2>1, <2>2, <2>3 DEF CbInv
<1>8. MapsAgree'
  <2>1. \/ taskGroupMap' = taskGroupMap
        \/ /\ upd[t].id \in TaskIds
           /\ taskGroupMap' = [taskGroupMap EXCEPT ![upd[t].id] = Null]
    BY <1>0, UpdateMoves
  <2> QED
    BY <1>1, <1>3, <2>1 DEF ServiceInv, MapsAgree
<1>9. EngineInv'
  <2>1. engine[k] \notin Busy
    BY <1>1 DEF CbOK
  <2> QED
    BY <1>2, <1>3, <1>4, <1>5, <2>1 DEF ServiceInv, EngineInv, RunningIsKnown, Busy
<1> QED
  BY <1>6, <1>7, <1>8, <1>9 DEF Held

------------------------------------------------------------------------------
(* The invariant                                                            *)

\* The numbers of files, the states of the engine tasks and the flags.
DataOK ==
    /\ files \in [Tasks -> 0 .. MaxFiles]
    /\ engine \in [Tasks -> EngineStates]
    /\ finish \in [Tasks -> BOOLEAN]

\* MATask::Run and its failures keep them.
LEMMA RunData ==
  ASSUME DataOK, NEW k \in Tasks, RunFails(k) \/ NewEngineTask(k)
  PROVE  /\ files' \in [Tasks -> 0 .. MaxFiles]
         /\ engine' \in [Tasks -> EngineStates]
<1>1. MaxFiles \in Nat
  BY FilesAssumption
<1>2. CASE NewEngineTask(k)
  BY <1>1, <1>2 DEF NewEngineTask, PopFile, DataOK, EngineStates
<1>3. CASE RunFails(k)
  BY <1>1, <1>3 DEF RunFails, NewEngineTask, PopFile, DataOK, EngineStates
<1> QED
  BY <1>2, <1>3

\* Every step keeps them.
LEMMA DataStep ==
  ASSUME TMInv, ThreadsOK, ServiceInv, [Next]_vars
  PROVE  DataOK'
<1>0. DataOK /\ MaxFiles \in Nat
  BY FilesAssumption DEF ServiceInv, MMTypeOK, DataOK
<1>1. CASE UNCHANGED <<files, engine, finish>>
  BY <1>0, <1>1 DEF DataOK
<1>2. ASSUME NEW h \in HttpThreads, ProcStep(h) PROVE DataOK'
  <2>1. /\ UNCHANGED finish
        /\ http[h].pc \in {"create_func", "delete_func"}
    BY <1>2, ProcFrame
  <2>2. proc[h].pc \in {"init", "run", "start", "insert", "stop", "wait"} =>
           proc[h].task \in Tasks
    BY <2>1 DEF ServiceInv, ProcInv, InCreate, InDelete, TMInv, CreateInv, CreateOK,
                HandlerInv, HandlerOK
  <2>3. CASE MATaskInit(h)
    <3>1. /\ proc[h].task \in Tasks /\ UNCHANGED <<engine, finish>>
          /\ \/ files' = files
             \/ \E n \in 1 .. MaxFiles : files' = [files EXCEPT ![proc[h].task] = n]
      BY <2>2, <2>3 DEF MATaskInit
    <3> QED
      BY <1>0, <3>1 DEF DataOK
  <2>4. CASE RunInCreate(h)
    <3>1. /\ proc[h].task \in Tasks
          /\ RunFails(proc[h].task) \/ NewEngineTask(proc[h].task)
      BY <2>2, <2>4 DEF RunInCreate
    <3>2. finish' = finish
      BY <2>1
    <3> QED
      BY <1>0, <3>1, <3>2, RunData DEF DataOK
  <2>5. CASE StartInCreate(h)
    BY <1>0, <2>1, <2>2, <2>5 DEF StartInCreate, DataOK, EngineStates
  <2>6. CASE InsertTask(h) \/ FindTaskByMaTaskId(h) \/ WaitTaskFinish(h)
    BY <1>0, <2>6 DEF InsertTask, FindTaskByMaTaskId, WaitTaskFinish, DataOK
  <2>7. CASE StopTask(h)
    BY <1>0, <2>1, <2>2, <2>7 DEF StopTask, DataOK, EngineStates
  <2> QED
    BY <1>2, <2>3, <2>4, <2>5, <2>6, <2>7 DEF ProcStep
<1>3. ASSUME NEW t \in CbThreads, CbStep(t) PROVE DataOK'
  <2>1. cb[t].task \in Tasks
    BY <1>3, CbFrame, CbTaskStarted
  <2>2. CASE FindTaskByModelboxTaskId(t) \/ HandleEnd(t) \/ EraseTask(t)
    BY <1>0, <2>2 DEF FindTaskByModelboxTaskId, HandleEnd, EraseTask, DataOK
  <2>3. CASE DeleteForRerun(t) \/ RemoveEngineTask(t) \/ StartInCallback(t)
    BY <1>0, <2>1, <2>3
       DEF DeleteForRerun, RemoveEngineTask, StartInCallback, DataOK, EngineStates
  <2>4. CASE RunInCallback(t)
    BY <1>0, <2>1, <2>4, RunData DEF RunInCallback, DataOK
  <2>5. CASE SetTaskFinishStatus(t)
    BY <1>0, <2>1, <2>5 DEF SetTaskFinishStatus, DataOK
  <2> QED
    BY <1>3, <2>2, <2>3, <2>4, <2>5 DEF CbStep
<1>4. ASSUME NEW t \in CbThreads, NEW k \in Tasks, EngineTaskEnds(t, k) PROVE DataOK'
  BY <1>0, <1>4 DEF EngineTaskEnds, EngineEnd, DataOK, EngineStates
<1>5. ASSUME NEW h \in HttpThreads,
             \/ HttpOnly(h) \/ EnterCreate(h) \/ LeaveCreate(h) \/ EnterDelete(h)
             \/ LeaveDelete(h) \/ LeaveByException(h) \/ UNCHANGED mmVars
      PROVE UNCHANGED <<files, engine, finish>>
  BY <1>5, EnterLeaveFrame DEF HttpOnly, mmVars
<1>6. ASSUME NEW t \in CbThreads, EnterUpdate(t) \/ InUpdate(t)
      PROVE UNCHANGED <<files, engine, finish>>
  BY <1>6 DEF EnterUpdate, CallUpdate, InUpdate, UpdateReturned, mmVars
<1> QED
  BY <1>1, <1>2, <1>3, <1>4, <1>5, <1>6 DEF Next, vars, HttpThread, CbThread, mmVars

\* Every step keeps what the components hold of each other.
LEMMA HeldStep ==
  ASSUME TMInv, ThreadsOK, ServiceInv, [Next]_vars
  PROVE  Held'
<1>1. CASE UNCHANGED vars
  <2>1. UNCHANGED <<taskGroupMap, taskStatus, http, upd>>
    BY <1>1 DEF vars, tmVars
  <2>2. UNCHANGED <<taskListMap, files, engine, finish, proc, cb>>
    BY <1>1 DEF vars, mmVars
  <2>3. ProcInv'
    BY <2>1, <2>2, InsideKept DEF ProcInv
  <2>4. CbInv'
    <3>1. \A j : Arriving(j) => Alive(j)'
      BY <2>1, <2>2 DEF Arriving, Alive, Occupied
    <3> QED
      BY <2>1, <2>2, <3>1, CbKept
  <2> QED
    BY <2>1, <2>2, <2>3, <2>4
       DEF ServiceInv, Held, MapsAgree, EngineInv, RunningIsKnown
<1>2. ASSUME ~ Crashed, NEW h \in HttpThreads, HttpThread(h) PROVE Held'
  <2>1. CASE ProcStep(h) /\ UNCHANGED tmVars
    BY <1>2, <2>1, ProcFrame, CreateProcStep, DeleteProcStep
  <2>2. CASE LeaveCreate(h) \/ LeaveByException(h)
    <3>1. http[h].pc = "create_func" \/
             (http[h].pc = "delete_func" /\ LeaveByException(h))
      BY <2>2 DEF LeaveCreate, CreateTaskProcess, LeaveByException, Throw
    <3> QED
      BY <1>2, <2>2, <3>1, LeaveCreateStep, DeleteSteps
  <2>3. CASE EnterDelete(h) \/ LeaveDelete(h)
    <3>1. http[h].pc \in {"status", "delete_func"}
      BY <2>3 DEF EnterDelete, DeleteStatus, LeaveDelete, DeleteTaskProcess
    <3> QED
      BY <2>3, <3>1, DeleteSteps
  <2> QED
    BY <1>2, <2>1, <2>2, <2>3, HttpOnlyStep, EnterCreateStep DEF HttpThread
<1>3. ASSUME NEW h \in HttpThreads, Request(h) /\ UNCHANGED mmVars PROVE Held'
  BY <1>3, HttpOnlyStep
<1>4. ASSUME NEW t \in CbThreads, CbThread(t) PROVE Held'
  BY <1>4, EnterUpdateHeld, InUpdateHeld, CbStepHeld DEF CbThread
<1>5. ASSUME NEW t \in CbThreads, NEW k \in Tasks, EngineTaskEnds(t, k) PROVE Held'
  BY <1>5, EndHeld
<1> QED
  BY <1>1, <1>2, <1>3, <1>4, <1>5 DEF Next

\* ServiceInv, with the invariants of the task manager, is inductive.
LEMMA ServiceInvStep ==
  TMInv /\ ThreadsOK /\ ServiceInv /\ [Next]_vars => ServiceInv'
<1> SUFFICES ASSUME TMInv, ThreadsOK, ServiceInv, [Next]_vars PROVE ServiceInv'
  OBVIOUS
<1>1. Held' /\ DataOK'
  BY HeldStep, DataStep
<1>2. ThreadsOK'
  BY ThreadsStep
<1> QED
  BY <1>1, <1>2 DEF ServiceInv, Held, DataOK, ThreadsOK, MMTypeOK

\* It holds at the start.
LEMMA ServiceInvInit == Init => ServiceInv
<1> SUFFICES ASSUME Init PROVE ServiceInv
  OBVIOUS
<1> USE DEF Init, TMInit, MMInit
<1>1. MMTypeOK
  <2>1. ThreadsOK
    BY ThreadsInit
  <2> QED
    BY <2>1, FilesAssumption DEF MMTypeOK, ThreadsOK, EngineStates
<1>2. ProcInv
  BY DEF ProcInv, InCreate, InDelete, AnswerOK, Confirming, HttpIdle, ProcIdle
<1>3. CbInv
  BY DEF CbInv, OwnEngineTask, CbOK, UpdIdle, CbIdle
<1>4. MapsAgree /\ EngineInv
  BY DEF MapsAgree, EngineInv, RunningIsKnown
<1> QED
  BY <1>1, <1>2, <1>3, <1>4 DEF ServiceInv

\* What the task manager, the plugin and the callbacks hold of each other is an
\* invariant, for any tasks, ids, directories, threads and failures, whenever
\* engine tasks end.
THEOREM ServiceInvariance == Spec => []ServiceInv
<1>1. Init => ServiceInv
  BY ServiceInvInit
<1>2. TMInv /\ ThreadsOK /\ ServiceInv /\ [Next]_vars => ServiceInv'
  BY ServiceInvStep
<1> QED
  BY <1>1, <1>2, InvarianceInPlugin, PTL DEF Spec

\* The two components agree on where each thread is.
THEOREM CallsMatchHolds == Spec => []CallsMatch
<1>1. TMInv /\ ServiceInv => CallsMatch
  BY DEF ServiceInv, CallsMatch, ProcInv, InCreate, InDelete, AnswerOK, CbInv, CbOK
<1> QED
  BY <1>1, ServiceInvariance, InvarianceInPlugin, PTL

\* A delete answered 202 means the task has ended.
THEOREM DeletedMeansEndedHolds ==
  ASSUME EarlyEnd = FALSE
  PROVE  Spec => []DeletedMeansEnded
<1>1. ServiceInv => DeletedMeansEnded
  BY DEF ServiceInv, DeletedMeansEnded, ProcInv, AnswerOK, Confirming
<1> QED
  BY <1>1, ServiceInvariance, PTL

\* The engine works only for a task the service was told of, or whose create is
\* not answered yet.
THEOREM RunningIsKnownHolds == Spec => []RunningIsKnown
<1>1. ServiceInv => RunningIsKnown
  BY DEF ServiceInv, EngineInv
<1> QED
  BY <1>1, ServiceInvariance, PTL

\* What the id of a task lists while a callback may work for it.
LEMMA ListedAlive ==
  ASSUME TMInv, NEW k \in Tasks, Alive(k)
  PROVE  \/ taskStatus[k] = "RUNNING" /\ taskGroupMap[IdOf[k]] = k
         \/ Arriving(k) /\ taskGroupMap[IdOf[k]] = Null
BY DEF TMInv, RunningListed, CreateInv, CreateOK, Alive, Arriving

\* There is one such task under an id.
LEMMA OneAlive ==
  ASSUME TMInv, NEW j \in Tasks, NEW k \in Tasks, Alive(j), Alive(k),
         IdOf[j] = IdOf[k]
  PROVE  j = k
<1>1. Arriving(j) /\ Arriving(k) => j = k
  BY OneHandler DEF Arriving, Locked
<1> QED
  BY <1>1, ListedAlive, NullAssumption

\* Two callbacks never report for one id at the same time, though ids are used
\* again: UpdateTaskStatus, which has no lock of its own, relies on it.
THEOREM OneReporterHolds == Spec => []OneReporter
<1>1. ASSUME TMInv, ServiceInv PROVE OneReporter
  <2> SUFFICES ASSUME NEW t \in CbThreads, NEW u \in CbThreads,
                      cb[t].pc = "update", Updating(u), upd[u].id = IdOf[cb[t].task]
               PROVE FALSE
    BY DEF OneReporter
  <2>1. /\ cb[t].task \in Tasks /\ Alive(cb[t].task)
        /\ cb[u].pc = "updating" /\ cb[u].task \in Tasks
        /\ upd[u].id = IdOf[cb[u].task]
        /\ upd[u].pc \in {"find", "set"} => Alive(cb[u].task)
    BY <1>1 DEF ServiceInv, CbInv, CbOK, Updating, Alive
  <2>2. cb[u].task # cb[t].task
    BY <1>1, <2>1 DEF ServiceInv, CbInv, OwnEngineTask
  <2>3. CASE upd[u].pc \in {"find", "set"}
    BY <1>1, <2>1, <2>2, <2>3, OneAlive
  <2>4. CASE upd[u].pc \in {"report", "send", "erase"}
    <3>1. /\ taskGroupMap[upd[u].id] = upd[u].task /\ upd[u].task \in Tasks
          /\ taskStatus[upd[u].task] \in Terminal
      BY <1>1, <2>4 DEF TMInv, UpdateInv, UpdateOK, Updating
    <3> QED
      BY <1>1, <2>1, <3>1, ListedAlive, NullAssumption DEF Terminal
  <2> QED
    BY <2>3, <2>4 DEF Updating
<1> QED
  BY <1>1, ServiceInvariance, InvarianceInPlugin, PTL

\* UpdateTaskStatus is on its way with the status its callback gave it.
EndsAsSaid ==
    \A t \in CbThreads : Updating(t) => upd[t].to = StatusCode(cb[t].end)

\* The status is given when UpdateTaskStatus is called and kept until it is set.
LEMMA EndsAsSaidStep ==
  ASSUME TMInv, ThreadsOK, ServiceInv, EndsAsSaid, [Next]_vars
  PROVE  EndsAsSaid'
<1> USE Records DEF Upd, Cb
<1>1. CASE UNCHANGED <<cb, upd>>
  BY <1>1 DEF EndsAsSaid, Updating
<1>2. ASSUME NEW h \in HttpThreads,
             HttpThread(h) \/ (Request(h) /\ UNCHANGED mmVars)
      PROVE  UNCHANGED <<cb, upd>>
  BY <1>2, OthersSame, EnterLeaveFrame, ProcFrame DEF HttpThread, mmVars, tmVars
<1>3. ASSUME NEW t \in CbThreads,
             \A u \in CbThreads \ {t} : cb'[u] = cb[u] /\ upd'[u] = upd[u],
             Updating(t)' => upd'[t].to = StatusCode(cb'[t].end)
      PROVE  EndsAsSaid'
  BY <1>3 DEF EndsAsSaid, Updating
<1>4. ASSUME NEW t \in CbThreads, EnterUpdate(t) PROVE EndsAsSaid'
  <2>1. /\ \A u \in CbThreads \ {t} : cb'[u] = cb[u] /\ upd'[u] = upd[u]
        /\ upd'[t].to = StatusCode(cb[t].end) /\ cb'[t].end = cb[t].end
    BY <1>4 DEF EnterUpdate, CallUpdate, UpdateCall, UpdIdle
  <2> QED
    BY <1>3, <2>1 DEF StatusCode
<1>5. ASSUME NEW t \in CbThreads, InUpdate(t) PROVE EndsAsSaid'
  <2>1. /\ \A u \in CbThreads \ {t} : cb'[u] = cb[u] /\ upd'[u] = upd[u]
        /\ cb'[t].end = cb[t].end
    BY <1>5, UpdFrame DEF InUpdate, UpdateReturned, mmVars, TMInv
  <2>2. Updating(t)' => Updating(t) /\ upd'[t].to = upd[t].to
    BY <1>5 DEF InUpdate, UpdStep, UpdateFind, UpdateSet, UpdateReport, UpdateSent,
       UpdateErase, UpdateNotify, Updating, UpdIdle
  <2> QED
    BY <1>3, <2>1, <2>2 DEF StatusCode, EndsAsSaid
<1>6. ASSUME NEW t \in CbThreads, CbStep(t) /\ UNCHANGED tmVars PROVE EndsAsSaid'
  <2>1. /\ \A u \in CbThreads \ {t} : cb'[u] = cb[u] /\ upd'[u] = upd[u]
        /\ cb[t].pc # "updating" /\ upd'[t] = upd[t]
    BY <1>6, CbFrame DEF tmVars
  <2>2. ~ Updating(t)'
    BY <2>1 DEF ServiceInv, CbInv, CbOK, Updating
  <2> QED
    BY <1>3, <2>1, <2>2
<1>7. ASSUME NEW t \in CbThreads, NEW k \in Tasks, EngineTaskEnds(t, k)
      PROVE  EndsAsSaid'
  <2>1. /\ \A u \in CbThreads \ {t} : cb'[u] = cb[u] /\ upd'[u] = upd[u]
        /\ cb[t].pc = "idle" /\ upd'[t] = upd[t]
    BY <1>7 DEF EngineTaskEnds, EngineEnd, tmVars
  <2>2. ~ Updating(t)'
    BY <2>1 DEF ServiceInv, CbInv, CbOK, Updating
  <2> QED
    BY <1>3, <2>1, <2>2
<1> QED
  BY <1>1, <1>2, <1>4, <1>5, <1>6, <1>7 DEF Next, CbThread, vars, tmVars, mmVars

\* A task is ended by the callback of its own engine task, with the status that
\* end stands for, although UpdateTaskStatus is given an id only and ids are
\* used again: whatever else goes on, what the id lists is the callback's task.
THEOREM EndIsOwnHolds == Spec => EndIsOwn
<1> DEFINE A == \A k \in Tasks :
                   taskStatus'[k] # taskStatus[k] /\ taskStatus'[k] \in Terminal =>
                      \E t \in CbThreads :
                         /\ cb[t].pc = "updating" /\ cb[t].task = k
                         /\ taskStatus'[k] = StatusCode(cb[t].end)
<1>1. Init => EndsAsSaid
  BY DEF Init, TMInit, EndsAsSaid, Updating, UpdIdle
<1>2. TMInv /\ ThreadsOK /\ ServiceInv /\ EndsAsSaid /\ [Next]_vars => EndsAsSaid'
  BY EndsAsSaidStep
<1>3. TMInv /\ ThreadsOK /\ ServiceInv /\ EndsAsSaid /\ [Next]_vars => A
  <2> SUFFICES ASSUME TMInv, ThreadsOK, ServiceInv, EndsAsSaid, [Next]_vars,
                      NEW k \in Tasks, taskStatus'[k] # taskStatus[k],
                      taskStatus'[k] \in Terminal
               PROVE  \E t \in CbThreads :
                         /\ cb[t].pc = "updating" /\ cb[t].task = k
                         /\ taskStatus'[k] = StatusCode(cb[t].end)
    OBVIOUS
  <2> USE Records
  <2>1. ASSUME NEW h \in HttpThreads, CreateTaskGroup(h) \/ CreateTaskProcess(h, TRUE)
        PROVE  FALSE
    <3>1. \E s \in {"PENDING", "RUNNING"} :
             \/ UNCHANGED taskStatus
             \/ taskStatus' = [taskStatus EXCEPT ![http[h].task] = s]
      BY <2>1 DEF CreateTaskGroup, CreateTaskProcess
    <3> QED
      BY <3>1 DEF Terminal
  <2>2. PICK t \in CbThreads : UpdateSet(t) /\ taskStatus' # taskStatus
    BY <2>1, StepImplements, GroupMoves DEF UpdateErase, TMInv
  <2>3. /\ UpdStep(t) /\ upd[t].pc = "set" /\ Updating(t)
        /\ taskStatus' = [taskStatus EXCEPT ![upd[t].task] = upd[t].to]
    BY <2>2 DEF UpdStep, UpdateSet, Updating
  <2>4. /\ cb[t].pc = "updating" /\ cb[t].task \in Tasks
        /\ taskGroupMap[IdOf[cb[t].task]] = cb[t].task
        /\ upd[t].id = IdOf[cb[t].task]
    BY <2>3, UpdateMoves DEF ServiceInv, CbInv, CbOK
  <2>5. upd[t].task = cb[t].task
    BY <2>3, <2>4 DEF TMInv, UpdateInv, UpdateOK
  <2> QED
    BY <2>3, <2>4, <2>5 DEF EndsAsSaid
<1> QED
  BY <1>1, <1>2, <1>3, ServiceInvariance, InvarianceInPlugin, PTL DEF Spec, EndIsOwn

------------------------------------------------------------------------------
(* The refinement                                                           *)

\* How the abstract state changes: no task does.
LEMMA LifeSame ==
  ASSUME \A j \in Tasks : LifeOf(j)' = LifeOf(j)
  PROVE  lifeOf' = lifeOf
BY DEF lifeOf

\* One task changes.
LEMMA LifeChanges ==
  ASSUME NEW k \in Tasks, NEW s, LifeOf(k)' = s,
         \A j \in Tasks \ {k} : LifeOf(j)' = LifeOf(j)
  PROVE  lifeOf' = [lifeOf EXCEPT ![k] = s]
BY DEF lifeOf

\* The engine starts and ends nothing.
LEMMA BusySame ==
  ASSUME \A j \in Tasks : engine'[j] \in Busy <=> engine[j] \in Busy
  PROVE  busyOf' = busyOf
BY DEF busyOf

\* It starts or ends one engine task.
LEMMA BusyChanges ==
  ASSUME NEW k \in Tasks,
         \A j \in Tasks \ {k} : engine'[j] \in Busy <=> engine[j] \in Busy
  PROVE  /\ engine'[k] \in Busy => busyOf' = busyOf \cup {k}
         /\ engine'[k] \notin Busy => busyOf' = busyOf \ {k}
BY DEF busyOf

\* No delete is confirmed and no confirmation leaves.
LEMMA ConfirmedSame ==
  ASSUME \A h \in HttpThreads : /\ Confirming(h)' <=> Confirming(h)
                                /\ Confirming(h) => http'[h].task = http[h].task
  PROVE  confirmedOf' = confirmedOf
BY DEF confirmedOf

\* The life of a task whose group and requests stay as they are depends on the
\* maps only after it ended.
LEMMA LifeKept ==
  ASSUME NEW j \in Tasks, taskStatus'[j] = taskStatus[j],
         taskStatus[j] = "PENDING" => (Creating(j)' <=> Creating(j)),
         taskStatus[j] \in Terminal => (Remembered(j)' <=> Remembered(j))
  PROVE  LifeOf(j)' = LifeOf(j)
BY DEF LifeOf, Terminal

\* A step that leaves the groups and the maps alone, and all threads in and out
\* of create_func, leaves every life alone.
LEMMA AllLivesKept ==
  ASSUME UNCHANGED <<taskStatus, taskGroupMap, taskListMap>>,
         \A g \in HttpThreads :
            \/ http'[g] = http[g]
            \/ http[g].pc # "create_func" /\ http'[g].pc # "create_func"
  PROVE  lifeOf' = lifeOf
<1>1. ASSUME NEW j \in Tasks PROVE LifeOf(j)' = LifeOf(j)
  <2>1. Creating(j)' <=> Creating(j)
    BY DEF Creating
  <2>2. Remembered(j)' <=> Remembered(j)
    BY DEF Remembered
  <2> QED
    BY <2>1, <2>2, LifeKept
<1> QED
  BY <1>1, LifeSame

\* When the entry of an id changes, at most the task it listed is forgotten.
LEMMA EntryChanges ==
  ASSUME TMInv, ThreadsOK, ServiceInv, UNCHANGED <<taskStatus, http>>,
         NEW i \in TaskIds, NEW x,
         x = Null \/ (x \in Tasks /\ taskStatus[x] \notin Terminal),
         \/ /\ taskListMap' = [taskListMap EXCEPT ![i] = x]
            /\ UNCHANGED taskGroupMap
         \/ /\ taskGroupMap' = [taskGroupMap EXCEPT ![i] = x]
            /\ UNCHANGED taskListMap
  PROVE  \/ lifeOf' = lifeOf
         \/ \E k \in Tasks : /\ lifeOf[k] = "ended"
                             /\ lifeOf' = [lifeOf EXCEPT ![k] = "forgotten"]
<1>0. /\ taskListMap \in [TaskIds -> Tasks \cup {Null}]
      /\ taskGroupMap \in [TaskIds -> Tasks \cup {Null}]
      /\ IdOf \in [Tasks -> TaskIds] /\ Null \notin Tasks
  BY Records, IdOfAssumption, NullAssumption DEF TaskOrNone, TaskOrNull
<1>1. PICK k : \/ k = taskListMap[i] /\ taskListMap' = [taskListMap EXCEPT ![i] = x]
                  /\ UNCHANGED taskGroupMap
               \/ k = taskGroupMap[i] /\ taskGroupMap' = [taskGroupMap EXCEPT ![i] = x]
                  /\ UNCHANGED taskListMap
  OBVIOUS
<1>2. k = Null \/ (k \in Tasks /\ IdOf[k] = i)
  BY <1>0, <1>1 DEF TMInv, MapInv, ServiceInv, MapsAgree
<1>3. ASSUME NEW j \in Tasks, taskStatus[j] \notin Terminal \/ j # k
      PROVE LifeOf(j)' = LifeOf(j)
  <2>1. Creating(j)' <=> Creating(j)
    BY DEF Creating
  <2>2. taskStatus[j] \in Terminal => (Remembered(j)' <=> Remembered(j))
    BY <1>0, <1>1, <1>3 DEF Remembered
  <2> QED
    BY <2>1, <2>2, LifeKept
<1>4. CASE k \in Tasks /\ taskStatus[k] \in Terminal /\ ~ Remembered(k)'
  <2>1. Remembered(k)
    BY <1>0, <1>1, <1>2, <1>4 DEF Remembered
  <2>2. LifeOf(k) = "ended" /\ LifeOf(k)' = "forgotten"
    BY <1>4, <2>1 DEF LifeOf, Terminal
  <2>3. lifeOf[k] = "ended"
    BY <1>4, <2>2 DEF lifeOf
  <2> QED
    BY <1>3, <1>4, <2>2, <2>3, LifeChanges
<1>5. CASE ~ (k \in Tasks /\ taskStatus[k] \in Terminal /\ ~ Remembered(k)')
  <2>1. ASSUME k \in Tasks, taskStatus[k] \in Terminal PROVE LifeOf(k)' = LifeOf(k)
    <3>1. Remembered(k) /\ Remembered(k)'
      BY <1>0, <1>1, <1>2, <1>5, <2>1 DEF Remembered
    <3> QED
      BY <2>1, <3>1, LifeKept DEF Terminal
  <2> QED
    BY <1>3, <2>1, LifeSame
<1> QED
  BY <1>4, <1>5

\* One thread confirms a delete, or its answer leaves.
LEMMA ConfirmedChanges ==
  ASSUME NEW h \in HttpThreads, NEW x,
         \A g \in HttpThreads \ {h} : http'[g] = http[g],
         Confirming(h)' => x = http'[h].task, ~ Confirming(h)' => x = Null
  PROVE  confirmedOf' = [confirmedOf EXCEPT ![h] = x]
<1>1. \A g \in HttpThreads \ {h} :
         (Confirming(g)' <=> Confirming(g)) /\ http'[g].task = http[g].task
  BY DEF Confirming
<1> QED
  BY <1>1 DEF confirmedOf

\* The abstract step or stutter that every concrete step is.
ServiceStep == [Service!Next]_Service!sVars

\* A step that changes nothing of the abstract state.
LEMMA Stutters ==
  ASSUME lifeOf' = lifeOf, busyOf' = busyOf, confirmedOf' = confirmedOf
  PROVE  ServiceStep
BY DEF ServiceStep, Service!sVars

\* Handler steps without the plugin: the answer of a confirmed delete leaves,
\* or nothing happens.
LEMMA HttpOnlyMaps ==
  ASSUME TMInv, ThreadsOK, ServiceInv, NEW h \in HttpThreads,
         HttpOnly(h) \/ (Request(h) /\ UNCHANGED mmVars)
  PROVE  ServiceStep
<1>1. /\ UNCHANGED <<taskGroupMap, taskStatus, taskListMap, engine>>
      /\ \A g \in HttpThreads \ {h} : http'[g] = http[g]
  BY OthersSame DEF mmVars
<1>2. /\ http[h].pc \notin {"create_func", "delete_func"}
      /\ http'[h].pc \notin {"create_func", "delete_func"}
  BY HttpOnlyKeepsProc
<1>3. lifeOf' = lifeOf
  BY <1>1, <1>2, AllLivesKept
<1>4. busyOf' = busyOf
  BY <1>1, BusySame
<1>5. ~ Confirming(h)' => confirmedOf' = [confirmedOf EXCEPT ![h] = Null]
  BY <1>1, ConfirmedChanges
<1>6. /\ Confirming(h) => http[h].task \in Tasks
      /\ AnswerOK(h)
  BY DEF ServiceInv, ProcInv, AnswerOK
<1>7. CASE Confirming(h)' /\ Confirming(h) /\ http'[h].task = http[h].task
  <2>1. confirmedOf' = confirmedOf
    BY <1>1, <1>7, ConfirmedSame DEF Confirming
  <2> QED
    BY <1>3, <1>4, <2>1, Stutters
<1>8. CASE ~ Confirming(h)' /\ ~ Confirming(h)
  <2>1. confirmedOf' = confirmedOf
    BY <1>1, <1>8, ConfirmedSame DEF Confirming
  <2> QED
    BY <1>3, <1>4, <2>1, Stutters
<1>9. CASE ~ Confirming(h)' /\ Confirming(h)
  <2>1. confirmedOf[h] = http[h].task /\ confirmedOf[h] # Null
    BY <1>6, <1>9, NullAssumption DEF confirmedOf
  <2>2. Service!Answered(h)
    BY <1>3, <1>4, <1>5, <1>9, <2>1 DEF Service!Answered
  <2> QED
    BY <2>2 DEF ServiceStep, Service!Next
<1>10. Confirming(h)' => Confirming(h) /\ http'[h].task = http[h].task
  <2> USE Records, <1>6 DEF Http, Confirming, AnswerOK
  <2>1. ASSUME NEW k \in Tasks, ReceiveCreate(h, k) PROVE ~ Confirming(h)'
    BY <2>1 DEF ReceiveCreate, HttpIdle
  <2>2. ASSUME NEW op, NEW id, Receive(h, op, id) PROVE ~ Confirming(h)'
    BY <2>2 DEF Receive, HttpIdle
  <2>3. CASE LockMsg(h) \/ ReturnMsg(h)
    BY <2>3 DEF LockMsg, ReturnMsg, HttpIdle
  <2>4. CASE DeleteFind(h) \/ QueryFind(h) \/ QueryDetail(h)
    BY <2>4 DEF DeleteFind, QueryFind, QueryDetail, Answer
  <2>5. CASE PostReport(h) \/ PostSent(h) \/ PostNotify(h)
    BY <2>5 DEF PostReport, PostSent, PostNotify
  <2> QED
    BY <2>1, <2>2, <2>3, <2>4, <2>5 DEF HttpOnly, Request
<1> QED
  BY <1>7, <1>8, <1>9, <1>10

\* CreateTaskGroup makes a group nobody has: the task is as new as before.
LEMMA EnterCreateMaps ==
  ASSUME TMInv, ThreadsOK, ServiceInv, NEW h \in HttpThreads, EnterCreate(h)
  PROVE  ServiceStep
<1>0. PICK k \in Tasks : k = http[h].task
  BY CreateCarriesTask DEF EnterCreate, CreateTaskGroup
<1>1. /\ UNCHANGED <<taskListMap, engine>>
      /\ \A g \in HttpThreads \ {h} : http'[g] = http[g]
  BY EnterLeaveFrame
<1>2. /\ http[h].pc = "find" /\ http[h].op = "create"
      /\ taskStatus[k] = "NONE" /\ UNCHANGED taskGroupMap
      /\ http'[h].op = "create"
  BY <1>0, Records
     DEF EnterCreate, CreateTaskGroup, Answer, TMInv, CreateInv, CreateOK, Http
<1>3. lifeOf' = lifeOf
  <2>1. CASE taskStatus' = taskStatus /\ http'[h].pc # "create_func"
    BY <1>1, <1>2, <2>1, AllLivesKept
  <2>2. CASE /\ taskStatus' = [taskStatus EXCEPT ![k] = "PENDING"]
             /\ http'[h].pc = "create_func" /\ http'[h].task = k
    <3>1. LifeOf(k)' = LifeOf(k)
      <4>1. taskStatus'[k] = "PENDING" /\ Creating(k)'
        BY <1>2, <2>2, Records DEF Creating
      <4> QED
        BY <1>2, <4>1 DEF LifeOf, Terminal
    <3>2. ASSUME NEW j \in Tasks \ {k} PROVE LifeOf(j)' = LifeOf(j)
      <4>1. taskStatus'[j] = taskStatus[j]
        BY <2>2, Records
      <4>2. Creating(j)' <=> Creating(j)
        BY <1>0, <1>1, <1>2, <2>2 DEF Creating
      <4>3. Remembered(j)' <=> Remembered(j)
        BY <1>1, <1>2 DEF Remembered
      <4> QED
        BY <4>1, <4>2, <4>3, LifeKept
    <3> QED
      BY <3>1, <3>2, LifeSame
  <2> QED
    BY <1>0, <2>1, <2>2, Records DEF EnterCreate, CreateTaskGroup, Answer, Http
<1>4. busyOf' = busyOf
  BY <1>1, BusySame
<1>5. confirmedOf' = confirmedOf
  BY <1>1, <1>2, ConfirmedSame DEF Confirming
<1> QED
  BY <1>3, <1>4, <1>5, Stutters

\* The end of a create is the acceptance of its task, or its refusal.
LEMMA LeaveCreateMaps ==
  ASSUME TMInv, ThreadsOK, ServiceInv, EarlyEnd = FALSE, NEW h \in HttpThreads,
         http[h].pc = "create_func", LeaveCreate(h) \/ LeaveByException(h)
  PROVE  ServiceStep
<1>0. PICK k \in Tasks, i \in TaskIds : k = http[h].task /\ i = http[h].id
  BY IdOfAssumption DEF TMInv, CreateInv, CreateOK
<1>1. /\ UNCHANGED <<taskListMap, engine>>
      /\ \A g \in HttpThreads \ {h} : http'[g] = http[g]
  BY EnterLeaveFrame
<1>2. /\ i = IdOf[k] /\ taskStatus[k] = "PENDING"
      /\ http[h].op = "create" /\ taskGroupMap[i] = Null /\ InCreate(h)
      /\ \A g \in HttpThreads \ {h} : ~ (http[g].pc = "create_func" /\ http[g].task = k)
  BY <1>0 DEF TMInv, CreateInv, CreateOK, OwnTask, ServiceInv, ProcInv
<1>3. http'[h].op = "create" /\ http'[h].pc # "create_func"
  BY <1>2, Records
     DEF LeaveCreate, CreateTaskProcess, Answer, LeaveByException, Throw, Http
<1>4. busyOf' = busyOf
  BY <1>1, BusySame
<1>5. confirmedOf' = confirmedOf
  BY <1>1, <1>2, <1>3, ConfirmedSame DEF Confirming
<1>6. lifeOf[k] = "new" /\ (k \in busyOf <=> engine[k] \in Busy)
  BY <1>0, <1>2 DEF lifeOf, LifeOf, Creating, Terminal, busyOf
<1>7. \A j \in Tasks \ {k} : Creating(j)' <=> Creating(j)
  BY <1>0, <1>1, <1>3 DEF Creating
<1>8. CASE LeaveCreate(h) /\ proc[h].ok
  <2>1. /\ engine[k] \in Busy
        /\ taskStatus' = [taskStatus EXCEPT ![k] = "RUNNING"]
        /\ taskGroupMap' = [taskGroupMap EXCEPT ![i] = k]
    BY <1>0, <1>2, <1>8 DEF LeaveCreate, CreateTaskProcess, InCreate, Occupied
  <2>0. taskListMap[i] \in {k, Null}
    BY <1>0, <1>2, <1>8 DEF LeaveCreate, InCreate
  <2>2. LifeOf(k)' = "running"
    <3>1. taskStatus'[k] = "RUNNING"
      BY <2>1, Records
    <3> QED
      BY <3>1 DEF LifeOf, Terminal
  <2>3. ASSUME NEW j \in Tasks \ {k} PROVE LifeOf(j)' = LifeOf(j)
    <3>1. taskStatus'[j] = taskStatus[j]
      BY <2>1, Records
    <3>2. Remembered(j)' <=> Remembered(j)
      BY <1>0, <1>1, <1>2, <2>1, <2>0, Records, IdOfAssumption, NullAssumption DEF Remembered
    <3> QED
      BY <1>7, <3>1, <3>2, LifeKept
  <2>4. lifeOf' = [lifeOf EXCEPT ![k] = "running"]
    BY <1>2, <2>2, <2>3, LifeChanges
  <2>5. \A j \in Tasks : IdOf[j] = IdOf[k] => lifeOf[j] # "running"
    <3>1. \A j \in Tasks : IdOf[j] = i => taskStatus[j] # "RUNNING"
      BY <1>2, NullAssumption DEF TMInv, RunningListed
    <3> QED
      BY <1>2, <3>1 DEF lifeOf, LifeOf, Terminal
  <2>6. Service!Accept(k)
    BY <1>4, <1>5, <1>6, <2>1, <2>4, <2>5 DEF Service!Accept, Service!Become
  <2> QED
    BY <1>2, <2>6 DEF ServiceStep, Service!Next
<1>9. CASE LeaveByException(h) \/ (LeaveCreate(h) /\ ~ proc[h].ok)
  <2>1. engine[k] \notin Busy /\ UNCHANGED <<taskStatus, taskGroupMap>>
    BY <1>0, <1>2, <1>9
       DEF LeaveCreate, CreateTaskProcess, LeaveByException, Throw, InCreate, Occupied
  <2>2. LifeOf(k)' = "refused"
    <3>1. ~ Creating(k)'
      BY <1>1, <1>2, <1>3 DEF Creating
    <3> QED
      BY <1>2, <2>1, <3>1 DEF LifeOf, Terminal
  <2>3. ASSUME NEW j \in Tasks \ {k} PROVE LifeOf(j)' = LifeOf(j)
    <3>1. Remembered(j)' <=> Remembered(j)
      BY <1>1, <2>1 DEF Remembered
    <3> QED
      BY <1>7, <2>1, <3>1, LifeKept
  <2>4. lifeOf' = [lifeOf EXCEPT ![k] = "refused"]
    BY <1>2, <2>2, <2>3, LifeChanges
  <2>5. Service!Refuse(k)
    BY <1>4, <1>5, <1>6, <2>1, <2>4 DEF Service!Refuse, Service!Become
  <2> QED
    BY <1>2, <2>5 DEF ServiceStep, Service!Next
<1> QED
  BY <1>8, <1>9

\* A delete is answered: 202 is a confirmation.
LEMMA DeleteMaps ==
  ASSUME TMInv, ThreadsOK, ServiceInv, EarlyEnd = FALSE, NEW h \in HttpThreads,
         http[h].pc \in {"status", "delete_func"},
         EnterDelete(h) \/ LeaveDelete(h) \/ LeaveByException(h)
  PROVE  ServiceStep
<1>0. PICK k \in Tasks : k = http[h].task
  BY DEF TMInv, HandlerInv, HandlerOK
<1>1. /\ UNCHANGED <<taskListMap, engine, taskStatus, taskGroupMap>>
      /\ \A g \in HttpThreads \ {h} : http'[g] = http[g]
  BY EnterLeaveFrame DEF EnterDelete, DeleteStatus, LeaveDelete, DeleteTaskProcess,
     LeaveByException, Throw
<1>2. ~ Confirming(h)
  BY DEF ServiceInv, ProcInv, AnswerOK, Confirming
<1>3. http'[h].pc # "create_func" /\ http'[h].task = k
  BY <1>0, Records
     DEF EnterDelete, DeleteStatus, LeaveDelete, DeleteTaskProcess, Answer,
     LeaveByException, Throw, Http
<1>4. busyOf' = busyOf
  BY <1>1, BusySame
<1>5. lifeOf' = lifeOf
  <2>1. http[h].pc # "create_func"
    OBVIOUS
  <2> QED
    BY <1>1, <1>3, <2>1, AllLivesKept
<1>6. CASE ~ Confirming(h)'
  BY <1>1, <1>2, <1>4, <1>5, <1>6, ConfirmedSame, Stutters DEF Confirming
<1>7. CASE Confirming(h)'
  <2>1. Held'
    BY DeleteSteps
  <2>2. taskStatus[k] \in Terminal
    BY <1>1, <1>3, <1>7, <2>1 DEF Held, ProcInv, AnswerOK
  <2>3. lifeOf[k] \in Service!Gone
    BY <1>2, <2>2 DEF lifeOf, LifeOf, Service!Gone, Terminal
  <2>4. confirmedOf' = [confirmedOf EXCEPT ![h] = k]
    BY <1>1, <1>3, <1>7, ConfirmedChanges
  <2>5. confirmedOf[h] = Null
    BY <1>2 DEF confirmedOf
  <2>6. Service!Confirm(h, k)
    BY <1>4, <1>5, <2>3, <2>4, <2>5 DEF Service!Confirm
  <2> QED
    BY <1>2, <2>6 DEF ServiceStep, Service!Next
<1> QED
  BY <1>6, <1>7

\* A step that at most takes an ended task out of a map.
LEMMA ForgetsOrStutters ==
  ASSUME busyOf' = busyOf, confirmedOf' = confirmedOf,
         \/ lifeOf' = lifeOf
         \/ \E k \in Tasks : /\ lifeOf[k] = "ended"
                             /\ lifeOf' = [lifeOf EXCEPT ![k] = "forgotten"]
  PROVE  ServiceStep
<1>1. ASSUME NEW k \in Tasks, lifeOf[k] = "ended",
             lifeOf' = [lifeOf EXCEPT ![k] = "forgotten"]
      PROVE ServiceStep
  <2>1. Service!Forget(k)
    BY <1>1 DEF Service!Forget, Service!Become
  <2> QED
    BY <2>1 DEF ServiceStep, Service!Next
<1> QED
  BY <1>1, Stutters

\* Where no request and no group changes, the lives depend on the maps only,
\* and no confirmation changes.
LEMMA RequestsSame ==
  ASSUME UNCHANGED http
  PROVE  /\ confirmedOf' = confirmedOf
         /\ UNCHANGED <<taskStatus, taskGroupMap, taskListMap>> => lifeOf' = lifeOf
<1>1. confirmedOf' = confirmedOf
  BY ConfirmedSame DEF Confirming
<1> QED
  BY <1>1, AllLivesKept

\* The engine starts the engine task of a new or of a running task.
LEMMA WorkMaps ==
  ASSUME ServiceInv, UNCHANGED <<http, taskStatus, taskGroupMap, taskListMap>>,
         NEW k \in Tasks, engine[k] \notin Busy,
         engine' = [engine EXCEPT ![k] = "running"],
         taskStatus[k] = "RUNNING" \/ (taskStatus[k] = "PENDING" /\ Creating(k))
  PROVE  ServiceStep
<1>1. lifeOf' = lifeOf /\ confirmedOf' = confirmedOf
  BY RequestsSame
<1>2. engine \in [Tasks -> EngineStates]
  BY DEF ServiceInv, MMTypeOK
<1>3. busyOf' = busyOf \cup {k}
  BY <1>2, BusyChanges DEF Busy
<1>4. k \notin busyOf /\ lifeOf[k] \in {"new", "running"}
  BY DEF busyOf, lifeOf, LifeOf, Terminal
<1>5. Service!Work(k)
  BY <1>1, <1>3, <1>4 DEF Service!Work
<1> QED
  BY <1>5 DEF ServiceStep, Service!Next

\* CreateTaskProc starts an engine task and lists an MATask.
LEMMA CreateProcMaps ==
  ASSUME TMInv, ThreadsOK, ServiceInv, EarlyEnd = FALSE, NEW h \in HttpThreads,
         http[h].pc = "create_func", UNCHANGED tmVars,
         MATaskInit(h) \/ RunInCreate(h) \/ StartInCreate(h) \/ InsertTask(h)
  PROVE  ServiceStep
<1>0. PICK k \in Tasks, i \in TaskIds : k = http[h].task /\ i = http[h].id
  BY IdOfAssumption DEF TMInv, CreateInv, CreateOK
<1>1. UNCHANGED <<http, taskStatus, taskGroupMap>>
  BY DEF tmVars
<1>2. /\ taskStatus[k] = "PENDING" /\ Creating(k)
      /\ proc[h].task = k /\ proc[h].id = i
      /\ engine[k] \in Busy <=> Occupied(h)
      /\ engine \in [Tasks -> EngineStates]
  BY <1>0 DEF TMInv, CreateInv, CreateOK, Creating, ServiceInv, MMTypeOK, ProcInv,
              InCreate
<1>3. confirmedOf' = confirmedOf
  BY <1>1, RequestsSame
<1>4. CASE UNCHANGED <<engine, taskListMap>>
  BY <1>1, <1>3, <1>4, RequestsSame, BusySame, Stutters
<1>5. CASE RunInCreate(h)
  <2>1. UNCHANGED taskListMap /\ engine[k] \notin Busy
    BY <1>2, <1>5 DEF RunInCreate, Occupied
  <2>2. \A j \in Tasks : engine'[j] \in Busy <=> engine[j] \in Busy
    BY <1>2, <1>5, <2>1 DEF RunInCreate, RunFails, NewEngineTask, Busy
  <2> QED
    BY <1>1, <1>3, <2>1, <2>2, RequestsSame, BusySame, Stutters
<1>6. CASE StartInCreate(h) /\ engine' # engine
  <2>1. /\ UNCHANGED taskListMap /\ engine[k] \notin Busy
        /\ engine' = [engine EXCEPT ![k] = "running"]
    BY <1>2, <1>6 DEF StartInCreate, Occupied
  <2> QED
    BY <1>1, <1>2, <2>1, WorkMaps
<1>7. CASE InsertTask(h)
  <2>1. taskListMap' = [taskListMap EXCEPT ![i] = k] /\ UNCHANGED engine
    BY <1>2, <1>7 DEF InsertTask
  <2>2. taskStatus[k] \notin Terminal
    BY <1>2 DEF Terminal
  <2>3. \/ lifeOf' = lifeOf
        \/ \E j \in Tasks : /\ lifeOf[j] = "ended"
                            /\ lifeOf' = [lifeOf EXCEPT ![j] = "forgotten"]
    BY <1>1, <2>1, <2>2, EntryChanges
  <2>4. busyOf' = busyOf
    BY <2>1, BusySame
  <2> QED
    BY <1>3, <2>3, <2>4, ForgetsOrStutters
<1> QED
  BY <1>4, <1>5, <1>6, <1>7 DEF MATaskInit, StartInCreate

\* DeleteTaskProc changes nothing a client sees.
LEMMA DeleteProcMaps ==
  ASSUME ServiceInv, NEW h \in HttpThreads, UNCHANGED tmVars,
         FindTaskByMaTaskId(h) \/ StopTask(h) \/ WaitTaskFinish(h)
  PROVE  ServiceStep
<1>1. UNCHANGED <<http, taskStatus, taskGroupMap, taskListMap>>
  BY DEF tmVars, FindTaskByMaTaskId, StopTask, WaitTaskFinish
<1>2. engine \in [Tasks -> EngineStates]
  BY DEF ServiceInv, MMTypeOK
<1>3. \A j \in Tasks : engine'[j] \in Busy <=> engine[j] \in Busy
  BY <1>2 DEF FindTaskByMaTaskId, StopTask, WaitTaskFinish, Busy
<1> QED
  BY <1>1, <1>3, RequestsSame, BusySame, Stutters

\* The callback outside UpdateTaskStatus: the next file, or the clean-up.
LEMMA CbMaps ==
  ASSUME TMInv, ThreadsOK, ServiceInv, EarlyEnd = FALSE, NEW t \in CbThreads,
         CbStep(t), UNCHANGED tmVars
  PROVE  ServiceStep
<1>0. PICK k \in Tasks : k = cb[t].task
  BY CbFrame, CbTaskStarted
<1>1. UNCHANGED <<http, taskStatus, taskGroupMap>>
  BY DEF tmVars
<1>2. /\ cb[t].pc = "start" => taskStatus[k] = "RUNNING"
      /\ engine[k] \notin Busy
      /\ engine \in [Tasks -> EngineStates]
  BY <1>0, CbFrame DEF ServiceInv, MMTypeOK, CbInv, CbOK, Alive, Arriving
<1>3. /\ engine'[k] \in Busy => cb[t].pc = "start"
      /\ \A j \in Tasks \ {k} : engine'[j] = engine[j]
  BY <1>0, CbFrame, CbMoves
<1>4. confirmedOf' = confirmedOf
  BY <1>1, RequestsSame
<1>5. CASE UNCHANGED taskListMap /\ engine'[k] \notin Busy
  <2>1. busyOf' = busyOf
    BY <1>2, <1>3, <1>5, BusySame
  <2> QED
    BY <1>1, <1>4, <1>5, <2>1, RequestsSame, Stutters
<1>6. CASE StartInCallback(t) /\ engine'[k] \in Busy
  <2>1. engine' = [engine EXCEPT ![k] = "running"] /\ UNCHANGED taskListMap
    BY <1>0, <1>2, <1>6 DEF StartInCallback
  <2>2. taskStatus[k] = "RUNNING"
    BY <1>2, <1>6 DEF StartInCallback
  <2> QED
    BY <1>1, <1>2, <2>1, <2>2, WorkMaps
<1>7. CASE EraseTask(t)
  <2>1. PICK i \in TaskIds : i = IdOf[k]
    BY IdOfAssumption
  <2>2. taskListMap' = [taskListMap EXCEPT ![i] = Null] /\ UNCHANGED engine
    BY <1>0, <1>7, <2>1 DEF EraseTask
  <2>3. \/ lifeOf' = lifeOf
        \/ \E j \in Tasks : /\ lifeOf[j] = "ended"
                            /\ lifeOf' = [lifeOf EXCEPT ![j] = "forgotten"]
    BY <1>1, <2>2, EntryChanges
  <2>4. busyOf' = busyOf
    BY <2>2, BusySame
  <2> QED
    BY <1>4, <2>3, <2>4, ForgetsOrStutters
<1>8. EraseTask(t) \/ StartInCallback(t) \/ (UNCHANGED taskListMap /\ cb[t].pc # "start")
  BY DEF CbStep, FindTaskByModelboxTaskId, HandleEnd, DeleteForRerun, RunInCallback,
         RemoveEngineTask, SetTaskFinishStatus
<1>9. StartInCallback(t) => UNCHANGED taskListMap
  BY DEF StartInCallback
<1> QED
  BY <1>3, <1>5, <1>6, <1>7, <1>8, <1>9

\* UpdateTaskStatus in the callback: the task ends, then the group is erased.
LEMMA UpdateMaps ==
  ASSUME TMInv, ThreadsOK, ServiceInv, NEW t \in CbThreads,
         EnterUpdate(t) \/ InUpdate(t)
  PROVE  ServiceStep
<1>1. UNCHANGED <<http, taskListMap, engine>>
  BY UpdFrame DEF EnterUpdate, CallUpdate, UpdateCall, InUpdate, UpdateReturned,
     mmVars, TMInv
<1>2. confirmedOf' = confirmedOf /\ busyOf' = busyOf
  BY <1>1, RequestsSame, BusySame
<1>3. CASE UNCHANGED <<taskStatus, taskGroupMap>>
  BY <1>1, <1>2, <1>3, RequestsSame, Stutters
<1>4. CASE InUpdate(t)
  <2>0. UpdStep(t)
    BY <1>4 DEF InUpdate
  <2>1. PICK k \in Tasks : k = cb[t].task
    BY <2>0, UpdateMoves
  <2>2. CASE /\ taskStatus[k] = "RUNNING" /\ taskGroupMap[IdOf[k]] = k
             /\ UNCHANGED taskGroupMap
             /\ \E s \in Terminal : taskStatus' = [taskStatus EXCEPT ![k] = s]
    <3>1. /\ taskStatus'[k] \in Terminal
          /\ \A j \in Tasks \ {k} : taskStatus'[j] = taskStatus[j]
      BY <2>2, Records
    <3>2. LifeOf(k)' = "ended"
      <4>1. Remembered(k)'
        BY <2>2 DEF Remembered
      <4> QED
        BY <3>1, <4>1 DEF LifeOf, Terminal
    <3>3. ASSUME NEW j \in Tasks \ {k} PROVE LifeOf(j)' = LifeOf(j)
      <4>1. (Creating(j)' <=> Creating(j)) /\ (Remembered(j)' <=> Remembered(j))
        BY <1>1, <2>2 DEF Creating, Remembered
      <4> QED
        BY <3>1, <4>1, LifeKept
    <3>4. lifeOf' = [lifeOf EXCEPT ![k] = "ended"]
      BY <3>2, <3>3, LifeChanges
    <3>5. lifeOf[k] = "running"
      BY <2>2 DEF lifeOf, LifeOf, Terminal
    <3>6. k \notin busyOf
      BY <2>0, <2>1, UpdateMoves DEF ServiceInv, CbInv, CbOK, busyOf
    <3>7. Service!End(k)
      BY <1>2, <3>4, <3>5, <3>6 DEF Service!End, Service!Become
    <3> QED
      BY <3>7 DEF ServiceStep, Service!Next
  <2>3. ASSUME NEW i \in TaskIds, taskGroupMap' = [taskGroupMap EXCEPT ![i] = Null],
               UNCHANGED taskStatus
        PROVE ServiceStep
    <3>1. \/ lifeOf' = lifeOf
          \/ \E j \in Tasks : /\ lifeOf[j] = "ended"
                              /\ lifeOf' = [lifeOf EXCEPT ![j] = "forgotten"]
      BY <1>1, <2>3, EntryChanges
    <3> QED
      BY <1>2, <3>1, ForgetsOrStutters
  <2> QED
    BY <1>3, <2>0, <2>1, <2>2, <2>3, UpdateMoves
<1> QED
  BY <1>3, <1>4 DEF EnterUpdate, UpdateCall

\* An engine task ends.
LEMMA EndMaps ==
  ASSUME ServiceInv, EarlyEnd = FALSE,
         NEW t \in CbThreads, NEW k \in Tasks, EngineTaskEnds(t, k)
  PROVE  ServiceStep
<1>1. /\ UNCHANGED <<http, taskStatus, taskGroupMap, taskListMap>>
      /\ taskStatus[k] = "RUNNING"
      /\ engine[k] \in Busy /\ engine' = [engine EXCEPT ![k] = "ended"]
  BY DEF EngineTaskEnds, EngineEnd, tmVars, Busy
<1>2. engine \in [Tasks -> EngineStates]
  BY DEF ServiceInv, MMTypeOK
<1>3. lifeOf' = lifeOf /\ confirmedOf' = confirmedOf
  BY <1>1, RequestsSame
<1>4. busyOf' = busyOf \ {k}
  BY <1>1, <1>2, BusyChanges DEF Busy
<1>5. k \in busyOf /\ lifeOf[k] = "running"
  BY <1>1 DEF busyOf, lifeOf, LifeOf, Terminal
<1>6. Service!Rest(k)
  BY <1>3, <1>4, <1>5 DEF Service!Rest
<1> QED
  BY <1>6 DEF ServiceStep, Service!Next

\* Every step of the whole is a step of the abstract service or stutters.
LEMMA ServiceStepMaps ==
  ASSUME TMInv, ThreadsOK, ServiceInv, EarlyEnd = FALSE, [Next]_vars
  PROVE  ServiceStep
<1>1. CASE UNCHANGED vars
  <2>1. UNCHANGED <<http, taskStatus, taskGroupMap, taskListMap, engine>>
    BY <1>1 DEF vars, tmVars, mmVars
  <2> QED
    BY <2>1, RequestsSame, BusySame, Stutters
<1>2. ASSUME NEW h \in HttpThreads, HttpThread(h) PROVE ServiceStep
  <2>1. CASE ProcStep(h) /\ UNCHANGED tmVars
    BY <2>1, ProcFrame, CreateProcMaps, DeleteProcMaps
  <2>2. CASE LeaveCreate(h) \/ LeaveByException(h)
    <3>1. http[h].pc = "create_func" \/
             (http[h].pc = "delete_func" /\ LeaveByException(h))
      BY <2>2 DEF LeaveCreate, CreateTaskProcess, LeaveByException, Throw
    <3> QED
      BY <2>2, <3>1, LeaveCreateMaps, DeleteMaps
  <2>3. CASE EnterDelete(h) \/ LeaveDelete(h)
    <3>1. http[h].pc \in {"status", "delete_func"}
      BY <2>3 DEF EnterDelete, DeleteStatus, LeaveDelete, DeleteTaskProcess
    <3> QED
      BY <2>3, <3>1, DeleteMaps
  <2> QED
    BY <1>2, <2>1, <2>2, <2>3, HttpOnlyMaps, EnterCreateMaps DEF HttpThread
<1>3. ASSUME NEW h \in HttpThreads, Request(h) /\ UNCHANGED mmVars PROVE ServiceStep
  BY <1>3, HttpOnlyMaps
<1>4. ASSUME NEW t \in CbThreads, CbThread(t) PROVE ServiceStep
  BY <1>4, UpdateMaps, CbMaps DEF CbThread
<1>5. ASSUME NEW t \in CbThreads, NEW k \in Tasks, EngineTaskEnds(t, k)
      PROVE ServiceStep
  BY <1>5, EndMaps
<1> QED
  BY <1>1, <1>2, <1>3, <1>4, <1>5 DEF Next

\* At the start no task is accepted, none is worked for, none confirmed.
LEMMA ServiceStarts == Init => Service!Init
<1> SUFFICES ASSUME Init PROVE Service!Init
  OBVIOUS
<1> USE DEF Init, TMInit, MMInit
<1>1. lifeOf = [k \in Tasks |-> "new"]
  BY DEF lifeOf, LifeOf, Terminal
<1>2. busyOf = {}
  BY DEF busyOf, Busy
<1>3. confirmedOf = [h \in HttpThreads |-> Null]
  BY DEF confirmedOf, Confirming, HttpIdle
<1> QED
  BY <1>1, <1>2, <1>3 DEF Service!Init

\* The program does what TaskService promises: task manager, plugin and
\* callbacks together implement it.
THEOREM ServiceImplemented ==
  ASSUME EarlyEnd = FALSE
  PROVE  Spec => ImplementsService
<1>1. Init => Service!Init
  BY ServiceStarts
<1>2. TMInv /\ ThreadsOK /\ ServiceInv /\ [Next]_vars
         => [Service!Next]_Service!sVars
  BY ServiceStepMaps DEF ServiceStep
<1> QED
  BY <1>1, <1>2, ServiceInvariance, InvarianceInPlugin, PTL
     DEF Spec, ImplementsService, Service!Spec

=============================================================================
