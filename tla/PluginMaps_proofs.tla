-------------------------- MODULE PluginMaps_proofs --------------------------
(***************************************************************************)
(* What the entries of task_list_map_ are good for: every entry has its     *)
(* group, and, while no id is used again, no null pointer is dereferenced.  *)
(* Then, what a waiting thread needs: what was started has somebody to end  *)
(* it, and no handler, callback or directory goes on for ever.              *)
(***************************************************************************)
EXTENDS PluginService_proofs

\* MATaskHasGroup, with the exact create an entry may be waiting for.
EntryOwned(k) ==
    \/ taskStatus[k] = "RUNNING"
    \/ \E h \in HttpThreads : /\ http[h].pc = "create_func" /\ http[h].task = k
                              /\ proc[h].pc = "return" /\ proc[h].ok
    \/ \E t \in CbThreads : /\ cb[t].task = k
                            /\ cb[t].pc \in {"updating", "remove", "setfin", "erase"}

EntriesOwned ==
    \A i \in TaskIds : taskListMap[i] # Null => EntryOwned(taskListMap[i])

\* An MATask whose group was started has an engine task, and is in the map from
\* the end of its create to the end of the task.
CreatedListed ==
    \A h \in HttpThreads :
        http[h].pc = "create_func" /\ proc[h].pc = "return" /\ proc[h].ok =>
            taskListMap[http[h].id] = http[h].task

StartedHasEngine ==
    \A k \in Tasks : taskStatus[k] \in Started => engine[k] # "null"

PointerInv == RunningHasMATask /\ CreatedListed /\ StartedHasEngine /\ NoNullTask

------------------------------------------------------------------------------
\* An entry keeps its owner unless a create is left, a callback moves on, or
\* its group ends.
LEMMA OwnedKept ==
  ASSUME NEW k, EntryOwned(k),
         taskStatus[k] = "RUNNING" => taskStatus'[k] = "RUNNING",
         \A h \in HttpThreads :
            http[h].pc = "create_func" /\ proc[h].pc = "return" =>
               http'[h] = http[h] /\ proc'[h] = proc[h],
         \A t \in CbThreads :
            cb[t].task = k /\ cb[t].pc \in {"updating", "remove", "setfin", "erase"} =>
               /\ cb'[t].task = k
               /\ cb'[t].pc \in {"updating", "remove", "setfin", "erase"}
  PROVE  EntryOwned(k)'
BY DEF EntryOwned

\* Where neither the entries nor the groups nor the callbacks change.
LEMMA QuietStep ==
  ASSUME ServiceInv, EntriesOwned, UNCHANGED <<taskListMap, cb>>,
         \A k \in Tasks : taskStatus[k] = "RUNNING" => taskStatus'[k] = "RUNNING",
         \A h \in HttpThreads :
            http[h].pc = "create_func" /\ proc[h].pc = "return" =>
               http'[h] = http[h] /\ proc'[h] = proc[h]
  PROVE  EntriesOwned'
<1>1. ASSUME NEW i \in TaskIds, taskListMap'[i] # Null
      PROVE EntryOwned(taskListMap[i])'
  <2>1. PICK k \in Tasks : k = taskListMap[i]
    BY <1>1 DEF ServiceInv, MMTypeOK, TaskOrNone
  <2>2. EntryOwned(k)
    BY <1>1, <2>1 DEF EntriesOwned
  <2>3. EntryOwned(k)'
    BY <2>2, OwnedKept
  <2>4. k = taskListMap'[i]
    BY <2>1
  <2> QED
    BY <2>3, <2>4
<1> QED
  BY <1>1 DEF EntriesOwned

\* The owner of each entry that stays keeps the entries in order.
LEMMA EntriesKept ==
  ASSUME ServiceInv, EntriesOwned,
         \A i \in TaskIds : taskListMap'[i] \in {taskListMap[i], Null},
         \A k \in Tasks : EntryOwned(k) /\ taskListMap'[IdOf[k]] = k => EntryOwned(k)'
  PROVE  EntriesOwned'
<1>1. ASSUME NEW i \in TaskIds, taskListMap'[i] # Null
      PROVE EntryOwned(taskListMap[i])'
  <2>1. PICK k \in Tasks : k = taskListMap[i]
    BY <1>1 DEF ServiceInv, MMTypeOK, TaskOrNone
  <2>2. EntryOwned(k) /\ IdOf[k] = i /\ taskListMap'[i] = k
    BY <1>1, <2>1 DEF EntriesOwned, ServiceInv, MapsAgree
  <2> QED
    BY <2>2
<1> QED
  BY <1>1 DEF EntriesOwned

\* Handler steps without the plugin, and those into and out of its procedures.
LEMMA HandlerMaps ==
  ASSUME TMInv, ThreadsOK, ServiceInv, EntriesOwned, NEW h \in HttpThreads,
         \/ HttpOnly(h) \/ (Request(h) /\ UNCHANGED mmVars)
         \/ EnterCreate(h) \/ LeaveCreate(h) \/ EnterDelete(h)
         \/ LeaveDelete(h) \/ LeaveByException(h)
  PROVE  EntriesOwned'
<1>1. CASE HttpOnly(h) \/ (Request(h) /\ UNCHANGED mmVars)
  <2>1. /\ UNCHANGED <<taskStatus, taskListMap, proc, cb>>
        /\ \A g \in HttpThreads \ {h} : http'[g] = http[g]
        /\ http[h].pc # "create_func"
    BY <1>1, OthersSame, HttpOnlyKeepsProc DEF mmVars
  <2> QED
    BY <2>1, QuietStep
<1>2. CASE LeaveCreate(h) /\ proc[h].ok
  <2>1. /\ UNCHANGED <<taskListMap, cb>>
        /\ \A g \in HttpThreads \ {h} : http'[g] = http[g] /\ proc'[g] = proc[g]
    BY <1>2, EnterLeaveFrame
  <2>2. /\ taskStatus' = [taskStatus EXCEPT ![http[h].task] = "RUNNING"]
        /\ http[h].task \in Tasks
    BY <1>2 DEF LeaveCreate, CreateTaskProcess, TMInv, CreateInv, CreateOK
  <2>3. ASSUME NEW k \in Tasks, EntryOwned(k) PROVE EntryOwned(k)'
    BY <2>1, <2>2, <2>3, Records DEF EntryOwned
  <2> QED
    BY <2>1, <2>3, EntriesKept
<1>3. CASE EnterCreate(h) \/ EnterDelete(h) \/ LeaveDelete(h)
  <2>1. /\ UNCHANGED <<taskListMap, cb>>
        /\ \A g \in HttpThreads \ {h} : http'[g] = http[g] /\ proc'[g] = proc[g]
    BY <1>3, EnterLeaveFrame
  <2>2. /\ http[h].pc # "create_func"
        /\ taskStatus' = taskStatus \/
              (/\ taskStatus' = [taskStatus EXCEPT ![http[h].task] = "PENDING"]
               /\ taskStatus[http[h].task] = "NONE")
    BY <1>3 DEF EnterCreate, CreateTaskGroup, EnterDelete, DeleteStatus,
                LeaveDelete, DeleteTaskProcess, TMInv, CreateInv, CreateOK
  <2>3. \A k \in Tasks : taskStatus[k] = "RUNNING" => taskStatus'[k] = "RUNNING"
    BY <2>2, Records
  <2> QED
    BY <2>1, <2>2, <2>3, QuietStep
<1>4. CASE LeaveByException(h) \/ (LeaveCreate(h) /\ ~ proc[h].ok)
  <2>1. /\ UNCHANGED <<taskListMap, cb>>
        /\ \A g \in HttpThreads \ {h} : http'[g] = http[g] /\ proc'[g] = proc[g]
    BY <1>4, EnterLeaveFrame
  <2>2. UNCHANGED taskStatus /\ ~ (proc[h].pc = "return" /\ proc[h].ok)
    BY <1>4 DEF LeaveByException, Throw, LeaveCreate, CreateTaskProcess
  <2>3. ASSUME NEW k \in Tasks, EntryOwned(k) PROVE EntryOwned(k)'
    BY <2>1, <2>2, <2>3 DEF EntryOwned
  <2> QED
    BY <2>1, <2>3, EntriesKept
<1> QED
  BY <1>1, <1>2, <1>3, <1>4

\* The procedures: CreateTaskProc lists the MATask whose create it is about to
\* confirm.
LEMMA ProcMaps ==
  ASSUME TMInv, ThreadsOK, ServiceInv, EntriesOwned, ~ Crashed, NEW h \in HttpThreads,
         ProcStep(h), UNCHANGED tmVars
  PROVE  EntriesOwned'
<1>1. /\ UNCHANGED <<http, taskStatus, taskGroupMap, cb>>
      /\ \A g \in HttpThreads \ {h} : proc'[g] = proc[g]
      /\ http[h].pc \in {"create_func", "delete_func"}
      /\ proc[h].pc # "return"
  BY ProcFrame DEF tmVars, ProcStep, MATaskInit, RunInCreate, StartInCreate,
     InsertTask, FindTaskByMaTaskId, StopTask, WaitTaskFinish
<1>0. proc[h].pc \in {"init", "run", "insert"} =>
         /\ http[h].pc = "create_func" /\ http[h].task \in Tasks
         /\ proc[h].task = http[h].task /\ proc[h].id = http[h].id
         /\ http[h].id \in TaskIds /\ taskStatus[proc[h].task] = "PENDING"
  <2>1. proc[h].pc \in {"init", "run", "insert"} => http[h].pc = "create_func"
    BY DEF ServiceInv, ProcInv, AnswerOK, InDelete
  <2> QED
    BY <2>1, IdOfAssumption
       DEF ServiceInv, ProcInv, InCreate, TMInv, CreateInv, CreateOK
<1>2. ASSUME NEW k \in Tasks, EntryOwned(k) PROVE EntryOwned(k)'
  BY <1>1, <1>2, OwnedKept
<1>4. CASE InsertTask(h)
  <2>1. PICK k \in Tasks, i \in TaskIds : k = http[h].task /\ i = http[h].id
    BY <1>0, <1>4 DEF InsertTask
  <2>2. /\ taskListMap' = [taskListMap EXCEPT ![i] = k]
        /\ http[h].pc = "create_func"
        /\ proc'[h].pc = "return" /\ proc'[h].ok
    BY <1>0, <1>4, <2>1, Records DEF InsertTask, Return, Proc
  <2>3. EntryOwned(k)'
    BY <1>1, <2>1, <2>2 DEF EntryOwned
  <2>4. ASSUME NEW j \in TaskIds, taskListMap'[j] # Null
        PROVE EntryOwned(taskListMap[j])'
    <3>1. PICK x \in Tasks : x = taskListMap'[j]
      BY <2>2, <2>4, Records DEF TaskOrNone
    <3>2. EntryOwned(x)'
      <4>1. CASE j = i
        BY <2>2, <2>3, <3>1, <4>1, Records
      <4>2. CASE j # i
        <5>1. x = taskListMap[j] /\ x # Null
          BY <2>2, <3>1, <4>2, NullAssumption
        <5>2. EntryOwned(x)
          BY <5>1 DEF EntriesOwned
        <5> QED
          BY <1>2, <5>2
      <4> QED
        BY <4>1, <4>2
    <3> QED
      BY <3>1, <3>2
  <2> QED
    BY <2>4 DEF EntriesOwned
<1>5. CASE UNCHANGED taskListMap
  BY <1>2, <1>5, EntriesKept
<1> QED
  BY <1>4, <1>5 DEF ProcStep, MATaskInit, RunInCreate, StartInCreate,
     FindTaskByMaTaskId, StopTask, WaitTaskFinish

\* The callback outside UpdateTaskStatus.
LEMMA CallbackMaps ==
  ASSUME TMInv, ThreadsOK, ServiceInv, EntriesOwned, NEW t \in CbThreads,
         CbStep(t), UNCHANGED tmVars
  PROVE  EntriesOwned'
<1>1. /\ UNCHANGED <<http, taskStatus, proc>>
      /\ \A u \in CbThreads \ {t} : cb'[u] = cb[u]
      /\ \A i \in TaskIds : taskListMap'[i] \in {taskListMap[i], Null}
      /\ cb[t].pc \notin {"idle", "crash", "updating"} /\ cb[t].task \in Tasks
  BY CbFrame, CbTaskStarted DEF tmVars
<1> QED
  <2>1. CASE EraseTask(t)
    <3>1. taskListMap'[IdOf[cb[t].task]] = Null
      BY <1>1, <2>1, IdOfAssumption, Records DEF EraseTask
    <3>2. ASSUME NEW k \in Tasks, EntryOwned(k), taskListMap'[IdOf[k]] = k
          PROVE EntryOwned(k)'
      <4>1. cb[t].task # k
        BY <3>1, <3>2, NullAssumption
      <4> QED
        BY <1>1, <3>2, <4>1, OwnedKept
    <3> QED
      BY <1>1, <3>2, EntriesKept
  <2>2. CASE ~ EraseTask(t)
    <3>1. cb[t].pc \in {"remove", "setfin"} =>
             cb'[t].task = cb[t].task /\ cb'[t].pc \in {"setfin", "erase"}
      BY <2>2, Records DEF CbStep, FindTaskByModelboxTaskId, HandleEnd, DeleteForRerun,
         RunInCallback, StartInCallback, RemoveEngineTask, SetTaskFinishStatus, Cb
    <3>2. cb[t].pc # "erase"
      BY <2>2 DEF CbStep, FindTaskByModelboxTaskId, HandleEnd, DeleteForRerun,
         RunInCallback, StartInCallback, RemoveEngineTask, SetTaskFinishStatus
    <3>3. ASSUME NEW k \in Tasks, EntryOwned(k) PROVE EntryOwned(k)'
      BY <1>1, <3>1, <3>2, <3>3, OwnedKept
    <3> QED
      BY <1>1, <3>3, EntriesKept
  <2> QED
    BY <2>1, <2>2

\* UpdateTaskStatus ends the task whose callback called it.
LEMMA UpdatingMaps ==
  ASSUME TMInv, ThreadsOK, ServiceInv, EntriesOwned, NEW t \in CbThreads,
         EnterUpdate(t) \/ InUpdate(t)
  PROVE  EntriesOwned'
<1>1. /\ UNCHANGED <<http, taskListMap, proc>>
      /\ \A u \in CbThreads \ {t} : cb'[u] = cb[u]
  BY UpdFrame DEF EnterUpdate, CallUpdate, UpdateCall, InUpdate, UpdateReturned,
     mmVars, TMInv, ThreadsOK
<1>2. /\ cb[t].pc \in {"update", "updating"} /\ cb'[t].task = cb[t].task
      /\ cb'[t].pc \in {"updating", "remove"}
  BY UpdateMoves, Records
     DEF EnterUpdate, CallUpdate, InUpdate, UpdateReturned, mmVars, Cb
<1>3. \A j \in Tasks :
         \/ taskStatus'[j] = taskStatus[j]
         \/ j = cb[t].task /\ cb[t].pc = "updating"
  BY UpdateMoves, Records DEF EnterUpdate, CallUpdate, UpdateCall, InUpdate
<1>4. ASSUME NEW k \in Tasks, EntryOwned(k) PROVE EntryOwned(k)'
  <2>1. CASE taskStatus'[k] = taskStatus[k]
    BY <1>1, <1>2, <1>4, <2>1, OwnedKept
  <2>2. CASE taskStatus'[k] # taskStatus[k]
    BY <1>2, <1>3, <2>2 DEF EntryOwned
  <2> QED
    BY <2>1, <2>2
<1> QED
  BY <1>1, <1>4, EntriesKept

\* An engine task ends.
LEMMA EndingMaps ==
  ASSUME ThreadsOK, ServiceInv, EntriesOwned, NEW t \in CbThreads, NEW k \in Tasks,
         EngineTaskEnds(t, k)
  PROVE  EntriesOwned'
<1>1. /\ UNCHANGED <<http, taskStatus, taskListMap, proc>>
      /\ \A u \in CbThreads \ {t} : cb'[u] = cb[u]
      /\ cb[t].pc = "idle" /\ cb'[t].pc = "find"
  BY DEF EngineTaskEnds, EngineEnd, tmVars, ThreadsOK
<1>2. ASSUME NEW j \in Tasks, EntryOwned(j) PROVE EntryOwned(j)'
  BY <1>1, <1>2, OwnedKept
<1> QED
  BY <1>1, <1>2, EntriesKept

\* Every step.
LEMMA EntriesStep ==
  ASSUME TMInv, ThreadsOK, ServiceInv, EntriesOwned, [Next]_vars
  PROVE  EntriesOwned'
<1>1. CASE UNCHANGED vars
  <2>1. UNCHANGED <<http, taskStatus, taskListMap, proc, cb>>
    BY <1>1 DEF vars, tmVars, mmVars
  <2> QED
    BY <2>1, QuietStep
<1>2. ASSUME ~ Crashed, NEW h \in HttpThreads, HttpThread(h) PROVE EntriesOwned'
  BY <1>2, HandlerMaps, ProcMaps DEF HttpThread
<1>3. ASSUME NEW h \in HttpThreads, Request(h) /\ UNCHANGED mmVars PROVE EntriesOwned'
  BY <1>3, HandlerMaps
<1>4. ASSUME NEW t \in CbThreads, CbThread(t) PROVE EntriesOwned'
  BY <1>4, UpdatingMaps, CallbackMaps DEF CbThread
<1>5. ASSUME NEW t \in CbThreads, NEW k \in Tasks, EngineTaskEnds(t, k) PROVE EntriesOwned'
  BY <1>5, EndingMaps
<1> QED
  BY <1>1, <1>2, <1>3, <1>4, <1>5 DEF Next

\* Every entry of task_list_map_ has its group.
THEOREM EntriesInvariance == Spec => []EntriesOwned
<1>1. Init => EntriesOwned
  BY DEF Init, MMInit, EntriesOwned
<1>2. TMInv /\ ThreadsOK /\ ServiceInv /\ EntriesOwned /\ [Next]_vars => EntriesOwned'
  BY EntriesStep
<1> QED
  BY <1>1, <1>2, ServiceInvariance, InvarianceInPlugin, PTL DEF Spec

\* An MATask is in task_list_map_ only for a group that is about to be inserted,
\* is RUNNING, or is being cleaned up.
THEOREM MATaskHasGroupHolds == Spec => []MATaskHasGroup
<1>1. ServiceInv /\ EntriesOwned => MATaskHasGroup
  BY DEF ServiceInv, ProcInv, InCreate, EntriesOwned, EntryOwned,
         MATaskHasGroup
<1> QED
  BY <1>1, EntriesInvariance, ServiceInvariance, PTL

------------------------------------------------------------------------------
\* Nothing is dereferenced that is not there, as long as every task has an id
\* of its own and the next file of a directory can be started: with a second
\* task under an id, or a Run that failed in the callback, it can be.
NoReuse == \A j, k \in Tasks : IdOf[j] = IdOf[k] => j = k

\* Steps that start nothing, list nothing and dereference nothing.
LEMMA PointersKept ==
  ASSUME PointerInv, UNCHANGED taskListMap,
         \A k \in Tasks : /\ taskStatus'[k] = "RUNNING" => taskStatus[k] = "RUNNING"
                          /\ taskStatus'[k] \in Started => taskStatus[k] \in Started
                          /\ engine'[k] = "null" => engine[k] = "null",
         \A h \in HttpThreads :
            /\ (proc'[h] = proc[h] /\ http'[h] = http[h])
                  \/ http'[h].pc # "create_func" \/ proc'[h].pc # "return"
            /\ proc'[h].pc # "crash",
         \A t \in CbThreads : cb'[t].pc # "crash"
  PROVE  PointerInv'
<1>1. RunningHasMATask'
  BY DEF PointerInv, RunningHasMATask
<1>2. CreatedListed'
  BY DEF PointerInv, CreatedListed
<1>3. StartedHasEngine'
  BY DEF PointerInv, StartedHasEngine
<1>4. NoNullTask'
  BY DEF NoNullTask, Crashed
<1> QED
  BY <1>1, <1>2, <1>3, <1>4 DEF PointerInv

\* Handler steps without the plugin, and those into and out of its procedures.
LEMMA HandlerPointers ==
  ASSUME TMInv, ThreadsOK, ServiceInv, PointerInv, EarlyEnd = FALSE,
         NEW h \in HttpThreads,
         \/ HttpOnly(h) \/ (Request(h) /\ UNCHANGED mmVars)
         \/ EnterCreate(h) \/ LeaveCreate(h) \/ EnterDelete(h)
         \/ LeaveDelete(h) \/ LeaveByException(h)
  PROVE  PointerInv'
<1>0. /\ \A g \in HttpThreads : proc[g].pc # "crash"
      /\ \A t \in CbThreads : cb[t].pc # "crash"
  BY DEF PointerInv, NoNullTask, Crashed
<1>1. CASE HttpOnly(h) \/ (Request(h) /\ UNCHANGED mmVars)
  <2>1. /\ UNCHANGED <<taskStatus, taskListMap, engine, proc, cb>>
        /\ \A g \in HttpThreads \ {h} : http'[g] = http[g]
        /\ http'[h].pc # "create_func"
    BY <1>1, OthersSame, HttpOnlyKeepsProc DEF mmVars
  <2> QED
    BY <1>0, <2>1, PointersKept
<1>2. CASE ~ (HttpOnly(h) \/ (Request(h) /\ UNCHANGED mmVars))
  <2>1. /\ UNCHANGED <<taskListMap, engine, cb>>
        /\ \A g \in HttpThreads \ {h} : http'[g] = http[g] /\ proc'[g] = proc[g]
    BY <1>2, EnterLeaveFrame
  <2>2. http'[h].pc # "create_func" \/ proc'[h].pc = "init"
    <3> USE Records DEF Http
    <3>1. CASE EnterCreate(h)
      BY <3>1 DEF EnterCreate, CallCreate, ProcIdle, Proc
    <3>2. CASE LeaveCreate(h) \/ LeaveDelete(h) \/ LeaveByException(h)
      BY <3>2 DEF LeaveCreate, CreateTaskProcess, LeaveDelete, DeleteTaskProcess,
         Answer, LeaveByException, Throw
    <3>3. CASE EnterDelete(h)
      BY <3>3 DEF EnterDelete, DeleteStatus, Answer
    <3> QED
      BY <1>2, <3>1, <3>2, <3>3
  <2>3. proc'[h].pc \in {"idle", "init", "find"}
    <3>1. CASE LeaveCreate(h) \/ LeaveDelete(h) \/ LeaveByException(h)
      BY <3>1, Records DEF LeaveCreate, LeaveDelete, LeaveByException, ReturnProc, ProcIdle
    <3>2. CASE EnterCreate(h)
      <4>1. proc[h].pc = "idle"
        BY <3>2 DEF EnterCreate, CreateTaskGroup, ServiceInv, ProcInv, AnswerOK
      <4> QED
        BY <3>2, <4>1, Records DEF EnterCreate, CallCreate, ProcIdle, mmVars
    <3>3. CASE EnterDelete(h)
      <4>1. proc[h].pc = "idle"
        BY <3>3 DEF EnterDelete, DeleteStatus, ServiceInv, ProcInv, AnswerOK
      <4> QED
        BY <3>3, <4>1, Records DEF EnterDelete, CallDelete, ProcIdle, mmVars
    <3> QED
      BY <1>2, <3>1, <3>2, <3>3
  <2>4. CASE LeaveCreate(h) /\ proc[h].ok
    <3>1. PICK k \in Tasks : k = http[h].task
      BY <2>4 DEF LeaveCreate, CreateTaskProcess, TMInv, CreateInv, CreateOK
    <3>2. /\ taskStatus' = [taskStatus EXCEPT ![k] = "RUNNING"]
          /\ taskListMap[IdOf[k]] = k /\ engine[k] \in Busy
      BY <2>4, <3>1 DEF LeaveCreate, CreateTaskProcess, PointerInv, CreatedListed,
         TMInv, CreateInv, CreateOK, ServiceInv, ProcInv, InCreate, Occupied
    <3>3. \A j \in Tasks \ {k} : taskStatus'[j] = taskStatus[j]
      BY <3>2, Records
    <3>4. RunningHasMATask'
      BY <2>1, <3>2, <3>3 DEF PointerInv, RunningHasMATask
    <3>5. CreatedListed'
      BY <2>1, <2>2, <2>3 DEF PointerInv, CreatedListed
    <3>6. StartedHasEngine'
      BY <2>1, <3>2, <3>3 DEF PointerInv, StartedHasEngine, Busy
    <3>7. NoNullTask'
      BY <1>0, <2>1, <2>3 DEF NoNullTask, Crashed
    <3> QED
      BY <3>4, <3>5, <3>6, <3>7 DEF PointerInv
  <2>5. CASE ~ (LeaveCreate(h) /\ proc[h].ok)
    <3>1. \/ taskStatus' = taskStatus
          \/ \E k \in Tasks : taskStatus' = [taskStatus EXCEPT ![k] = "PENDING"]
      BY <1>2, <2>5, CreateCarriesTask
         DEF EnterCreate, CreateTaskGroup, LeaveCreate, CreateTaskProcess, EnterDelete,
         DeleteStatus, LeaveDelete, DeleteTaskProcess, LeaveByException, Throw
    <3>2. \A k \in Tasks :
             /\ taskStatus'[k] = "RUNNING" => taskStatus[k] = "RUNNING"
             /\ taskStatus'[k] \in Started => taskStatus[k] \in Started
      BY <3>1, Records DEF Started, Terminal
    <3> QED
      BY <1>0, <2>1, <2>2, <2>3, <3>2, PointersKept
  <2> QED
    BY <2>4, <2>5
<1> QED
  BY <1>1, <1>2

\* The procedures.
LEMMA ProcPointers ==
  ASSUME TMInv, ThreadsOK, ServiceInv, PointerInv, NoReuse, NEW h \in HttpThreads,
         ProcStep(h), UNCHANGED tmVars
  PROVE  PointerInv'
<1>0. /\ \A g \in HttpThreads : proc[g].pc # "crash"
      /\ \A t \in CbThreads : cb[t].pc # "crash"
      /\ engine \in [Tasks -> EngineStates]
  BY DEF PointerInv, NoNullTask, Crashed, ServiceInv, MMTypeOK
<1>1. /\ UNCHANGED <<http, taskStatus, cb>>
      /\ \A g \in HttpThreads \ {h} : proc'[g] = proc[g]
  BY ProcFrame DEF tmVars
<1>2. CASE /\ http[h].pc = "create_func"
           /\ MATaskInit(h) \/ RunInCreate(h) \/ StartInCreate(h) \/ InsertTask(h)
  <2>1. PICK k \in Tasks, i \in TaskIds : k = http[h].task /\ i = http[h].id
    BY <1>2, IdOfAssumption DEF TMInv, CreateInv, CreateOK
  <2>2. /\ IdOf[k] = i /\ taskStatus[k] = "PENDING"
        /\ \A j \in Tasks \ {k} : engine'[j] = engine[j]
        /\ \/ taskListMap' = taskListMap
           \/ taskListMap' = [taskListMap EXCEPT ![i] = k]
        /\ proc'[h].pc # "crash"
        /\ proc'[h].pc = "return" /\ proc'[h].ok => taskListMap'[i] = k
    BY <1>2, <2>1, CreateProcMoves DEF TMInv, CreateInv, CreateOK
  <2>3. RunningHasMATask'
    <3>1. \A j \in Tasks : taskStatus[j] = "RUNNING" => IdOf[j] # i /\ IdOf[j] \in TaskIds
      BY <2>2, IdOfAssumption DEF NoReuse
    <3> QED
      BY <1>1, <2>2, <3>1, Records DEF PointerInv, RunningHasMATask
  <2>4. CreatedListed'
    <3>1. \A g \in HttpThreads \ {h} : http[g].pc # "create_func"
      BY <1>2, OneHandler DEF Locked
    <3> QED
      BY <1>1, <2>1, <2>2, <3>1 DEF CreatedListed
  <2>5. StartedHasEngine'
    BY <1>1, <2>2 DEF PointerInv, StartedHasEngine, Started, Terminal
  <2>6. NoNullTask'
    BY <1>0, <1>1, <2>2 DEF NoNullTask, Crashed
  <2> QED
    BY <2>3, <2>4, <2>5, <2>6 DEF PointerInv
<1>3. CASE /\ http[h].pc = "delete_func"
           /\ FindTaskByMaTaskId(h) \/ StopTask(h) \/ WaitTaskFinish(h)
  <2>1. UNCHANGED taskListMap
    BY <1>3 DEF FindTaskByMaTaskId, StopTask, WaitTaskFinish
  <2>2. \A k \in Tasks : engine'[k] = "null" => engine[k] = "null"
    BY <1>0, <1>3 DEF FindTaskByMaTaskId, StopTask, WaitTaskFinish
  <2>3. proc'[h].pc # "crash"
    <3>1. CASE FindTaskByMaTaskId(h) \/ WaitTaskFinish(h)
      BY <3>1, Records DEF FindTaskByMaTaskId, WaitTaskFinish, Return, Proc
    <3>2. CASE StopTask(h)
      <4>1. engine[proc[h].task] # "null"
        BY <1>3, <3>2 DEF StopTask, ServiceInv, ProcInv, InDelete, TMInv, HandlerInv,
           HandlerOK, PointerInv, StartedHasEngine
      <4> QED
        BY <3>2, <4>1, Records DEF StopTask, Return, Proc
    <3> QED
      BY <1>3, <3>1, <3>2
  <2> QED
    BY <1>0, <1>1, <1>3, <2>1, <2>2, <2>3, PointersKept
<1> QED
  BY <1>2, <1>3, ProcFrame

\* No entry hides another from the callback's search.
LEMMA NotBlocked ==
  ASSUME ServiceInv, EntriesOwned, PointerInv, EarlyEnd = FALSE
  PROVE  ~ SearchBlocked
<1> SUFFICES ASSUME NEW i \in TaskIds, taskListMap[i] # Null,
                    engine[taskListMap[i]] = "null"
             PROVE FALSE
  BY DEF SearchBlocked
<1>1. PICK k \in Tasks : k = taskListMap[i]
  BY DEF ServiceInv, MMTypeOK, TaskOrNone
<1>2. EntryOwned(k)
  BY <1>1 DEF EntriesOwned
<1>3. CASE taskStatus[k] \in Started
  BY <1>1, <1>3 DEF PointerInv, StartedHasEngine
<1>4. ASSUME NEW h \in HttpThreads, http[h].pc = "create_func", http[h].task = k,
             proc[h].pc = "return", proc[h].ok
      PROVE FALSE
  BY <1>1, <1>4 DEF ServiceInv, ProcInv, InCreate, Occupied, Busy
<1>5. ASSUME NEW t \in CbThreads, cb[t].task = k,
             cb[t].pc \in {"updating", "remove", "setfin", "erase"}
      PROVE taskStatus[k] \in Started
  BY <1>5, CbTaskStarted DEF Arriving
<1> QED
  BY <1>2, <1>3, <1>4, <1>5 DEF EntryOwned, Started

\* The callback finds the MATask of its engine task, and takes no other task's
\* entry out of the map.
LEMMA CbPointers ==
  ASSUME TMInv, ThreadsOK, ServiceInv, EntriesOwned, PointerInv,
         EarlyEnd = FALSE, RerunMayFail = FALSE, NoReuse,
         NEW t \in CbThreads, CbStep(t), UNCHANGED tmVars
  PROVE  PointerInv'
<1>0. PICK k \in Tasks : k = cb[t].task
  BY CbFrame, CbTaskStarted
<1>1. /\ UNCHANGED <<http, taskStatus, proc>>
      /\ \A u \in CbThreads \ {t} : cb'[u] = cb[u]
      /\ \A j \in Tasks \ {k} : engine'[j] = engine[j]
      /\ cb[t].pc \notin {"idle", "crash"}
  BY <1>0, CbFrame DEF tmVars
<1>2. /\ \A g \in HttpThreads : proc[g].pc # "crash"
      /\ \A u \in CbThreads : cb[u].pc # "crash"
      /\ engine \in [Tasks -> EngineStates]
      /\ taskStatus[k] \in Started /\ engine[k] # "null"
      /\ cb[t].pc = "erase" => taskStatus[k] \in Terminal
      /\ cb[t].pc = "find" => taskListMap[IdOf[k]] = k
  BY <1>0, <1>1, CbTaskStarted
     DEF PointerInv, NoNullTask, Crashed, ServiceInv, MMTypeOK, CbInv, CbOK,
     StartedHasEngine, RunningHasMATask, Alive, Over, Arriving
<1>3. engine'[k] # "null"
  BY <1>0, <1>2 DEF CbStep, FindTaskByModelboxTaskId, HandleEnd, DeleteForRerun,
     RunInCallback, NewEngineTask, StartInCallback, RemoveEngineTask,
     SetTaskFinishStatus, EraseTask
<1>4. cb'[t].pc # "crash"
  <2>1. CASE FindTaskByModelboxTaskId(t)
    <3>1. ~ SearchBlocked
      BY NotBlocked
    <3> QED
      BY <1>0, <1>2, <2>1, <3>1, Records DEF FindTaskByModelboxTaskId, Cb
  <2>2. CASE ~ FindTaskByModelboxTaskId(t)
    BY <2>2, Records DEF Cb, CbStep, HandleEnd, DeleteForRerun, RunInCallback,
       StartInCallback, RemoveEngineTask, SetTaskFinishStatus, EraseTask, CbIdle
  <2> QED
    BY <2>1, <2>2
<1>5. CASE EraseTask(t)
  <2>1. /\ taskListMap' = [taskListMap EXCEPT ![IdOf[k]] = Null]
        /\ taskStatus[k] \in Terminal
    BY <1>0, <1>2, <1>5 DEF EraseTask
  <2>2. RunningHasMATask'
    <3>1. \A j \in Tasks : taskStatus[j] = "RUNNING" => IdOf[j] # IdOf[k]
      BY <2>1 DEF NoReuse, Terminal
    <3> QED
      BY <1>1, <2>1, <3>1, IdOfAssumption, Records DEF PointerInv, RunningHasMATask
  <2>3. CreatedListed'
    <3>1. \A g \in HttpThreads : http[g].pc = "create_func" =>
             http[g].id # IdOf[k] /\ http[g].id \in TaskIds
      BY <2>1, IdOfAssumption DEF NoReuse, TMInv, CreateInv, CreateOK, Terminal
    <3> QED
      BY <1>1, <2>1, <3>1, Records DEF PointerInv, CreatedListed
  <2>4. StartedHasEngine'
    BY <1>1, <1>3 DEF PointerInv, StartedHasEngine
  <2>5. NoNullTask'
    BY <1>1, <1>2, <1>4 DEF NoNullTask, Crashed
  <2> QED
    BY <2>2, <2>3, <2>4, <2>5 DEF PointerInv
<1>6. CASE ~ EraseTask(t)
  <2>1. UNCHANGED taskListMap
    BY <1>6 DEF CbStep, FindTaskByModelboxTaskId, HandleEnd, DeleteForRerun,
       RunInCallback, StartInCallback, RemoveEngineTask, SetTaskFinishStatus
  <2> QED
    BY <1>1, <1>2, <1>3, <1>4, <2>1, PointersKept
<1> QED
  BY <1>5, <1>6

\* Every step.
LEMMA PointerInvStep ==
  ASSUME TMInv, ThreadsOK, ServiceInv, EntriesOwned, PointerInv, [Next]_vars,
         EarlyEnd = FALSE, RerunMayFail = FALSE, NoReuse
  PROVE  PointerInv'
<1>0. /\ \A g \in HttpThreads : proc[g].pc # "crash"
      /\ \A t \in CbThreads : cb[t].pc # "crash"
      /\ engine \in [Tasks -> EngineStates]
  BY DEF PointerInv, NoNullTask, Crashed, ServiceInv, MMTypeOK
<1>1. CASE UNCHANGED vars
  <2>1. UNCHANGED <<http, taskStatus, taskListMap, engine, proc, cb>>
    BY <1>1 DEF vars, tmVars, mmVars
  <2> QED
    BY <1>0, <2>1, PointersKept
<1>2. ASSUME NEW h \in HttpThreads, HttpThread(h) PROVE PointerInv'
  BY <1>2, HandlerPointers, ProcPointers DEF HttpThread
<1>3. ASSUME NEW h \in HttpThreads, Request(h) /\ UNCHANGED mmVars PROVE PointerInv'
  BY <1>3, HandlerPointers
<1>4. ASSUME NEW t \in CbThreads, EnterUpdate(t) \/ InUpdate(t) PROVE PointerInv'
  <2>1. /\ UNCHANGED <<http, taskListMap, engine, proc>>
        /\ \A u \in CbThreads \ {t} : cb'[u] = cb[u]
    BY <1>4, UpdFrame DEF EnterUpdate, CallUpdate, UpdateCall, InUpdate,
       UpdateReturned, mmVars, TMInv, ThreadsOK
  <2>2. cb'[t].pc # "crash"
    BY <1>0, <1>4, Records
       DEF EnterUpdate, CallUpdate, InUpdate, UpdateReturned, mmVars, Cb
  <2>3. \A k \in Tasks :
           /\ taskStatus'[k] = "RUNNING" => taskStatus[k] = "RUNNING"
           /\ taskStatus'[k] \in Started => taskStatus[k] \in Started
    BY <1>4, UpdateMoves, Records
       DEF EnterUpdate, UpdateCall, InUpdate, Started, Terminal
  <2> QED
    BY <1>0, <2>1, <2>2, <2>3, PointersKept
<1>5. ASSUME NEW t \in CbThreads, CbStep(t) /\ UNCHANGED tmVars PROVE PointerInv'
  BY <1>5, CbPointers
<1>6. ASSUME NEW t \in CbThreads, NEW k \in Tasks, EngineTaskEnds(t, k)
      PROVE PointerInv'
  <2>1. /\ UNCHANGED <<http, taskStatus, taskListMap, proc>>
        /\ engine' = [engine EXCEPT ![k] = "ended"]
        /\ \A u \in CbThreads : cb'[u] = cb[u] \/ cb'[u].pc = "find"
    BY <1>6, Records DEF EngineTaskEnds, EngineEnd, tmVars
  <2> QED
    BY <1>0, <2>1, PointersKept
<1> QED
  BY <1>1, <1>2, <1>3, <1>4, <1>5, <1>6 DEF Next, CbThread

\* Maps, groups and engine tasks fit together.
THEOREM PointerInvariance ==
  ASSUME EarlyEnd = FALSE, RerunMayFail = FALSE, NoReuse
  PROVE  Spec => []PointerInv
<1>1. Init => PointerInv
  BY DEF Init, TMInit, MMInit, PointerInv, RunningHasMATask, CreatedListed,
         StartedHasEngine, NoNullTask, Crashed, ProcIdle, CbIdle, HttpIdle,
         Started, Terminal
<1>2. TMInv /\ ThreadsOK /\ ServiceInv /\ EntriesOwned /\ PointerInv /\ [Next]_vars
         => PointerInv'
  BY PointerInvStep
<1> QED
  BY <1>1, <1>2, EntriesInvariance, ServiceInvariance, InvarianceInPlugin, PTL DEF Spec

\* The callback always finds its MATask, and nobody stops an MATask without an
\* engine task: the process does not crash.
THEOREM NoNullTaskHolds ==
  ASSUME EarlyEnd = FALSE, RerunMayFail = FALSE, NoReuse
  PROVE  Spec => []NoNullTask
<1>1. PointerInv => NoNullTask
  BY DEF PointerInv
<1> QED
  BY <1>1, PointerInvariance, PTL

\* A RUNNING group has its MATask, so a delete of it reaches the engine task.
THEOREM RunningHasMATaskHolds ==
  ASSUME EarlyEnd = FALSE, RerunMayFail = FALSE, NoReuse
  PROVE  Spec => []RunningHasMATask
<1>1. PointerInv => RunningHasMATask
  BY DEF PointerInv
<1> QED
  BY <1>1, PointerInvariance, PTL

------------------------------------------------------------------------------
(* What was started is ended, and a delete that waits is woken               *)

\* The parts of EndIsComing.
Served(k) ==
    taskStatus[k] = "RUNNING" =>
        \/ engine[k] \in Busy
        \/ \E t \in CbThreads :
              /\ cb[t].task = k
              /\ cb[t].pc \in {"find", "handle", "delete", "run", "start",
                               "update", "updating"}

Woken(k) ==
    taskStatus[k] \in Terminal =>
        \/ finish[k]
        \/ \E t \in CbThreads : /\ cb[t].task = k
                                /\ cb[t].pc \in {"updating", "remove", "setfin"}

WaitsForStarted(h) ==
    proc[h].pc = "wait" => taskStatus[proc[h].task] \in Started

LEMMA EndIsComingParts ==
  EndIsComing <=>
     \/ Crashed
     \/ /\ \A k \in Tasks : Served(k) /\ Woken(k)
        /\ \A h \in HttpThreads : WaitsForStarted(h)
BY DEF EndIsComing, Served, Woken, WaitsForStarted, Busy

\* A task none of whose callbacks moves, and whose engine task goes on.
LEMMA CareKept ==
  ASSUME NEW k, Served(k), Woken(k),
         taskStatus'[k] \in Started => taskStatus'[k] = taskStatus[k],
         engine[k] \in Busy => engine'[k] \in Busy,
         finish[k] => finish'[k],
         \A t \in CbThreads : cb[t].task = k => cb'[t] = cb[t]
  PROVE  Served(k)' /\ Woken(k)'
<1>1. Served(k)'
  BY DEF Served, Started
<1>2. Woken(k)'
  BY DEF Woken, Started
<1> QED
  BY <1>1, <1>2

\* Started tasks stay started, so who waits keeps waiting for one.
LEMMA WaitKept ==
  ASSUME NEW h, WaitsForStarted(h), proc'[h] = proc[h] \/ proc'[h].pc # "wait",
         taskStatus[proc[h].task] \in Started => taskStatus'[proc[h].task] \in Started
  PROVE  WaitsForStarted(h)'
BY DEF WaitsForStarted

\* Only a delete waits, for the group it has found.
LEMMA WaitTask ==
  ASSUME TMInv, ServiceInv, NEW h \in HttpThreads, proc[h].pc \in {"stop", "wait"}
  PROVE  /\ http[h].pc = "delete_func" /\ proc[h].task = http[h].task
         /\ proc[h].task \in Tasks /\ taskStatus[proc[h].task] \in Started
<1>1. http[h].pc = "delete_func"
  BY DEF ServiceInv, ProcInv, AnswerOK, InCreate
<1>2. proc[h].task = http[h].task
  BY <1>1 DEF ServiceInv, ProcInv, InDelete
<1> QED
  BY <1>1, <1>2 DEF TMInv, HandlerInv, HandlerOK

\* Handler steps without the plugin, and those into and out of its procedures.
LEMMA HandlerCare ==
  ASSUME TMInv, ThreadsOK, ServiceInv, EndIsComing, ~ Crashed, EarlyEnd = FALSE,
         NEW h \in HttpThreads,
         \/ HttpOnly(h) \/ (Request(h) /\ UNCHANGED mmVars)
         \/ EnterCreate(h) \/ LeaveCreate(h) \/ EnterDelete(h)
         \/ LeaveDelete(h) \/ LeaveByException(h)
  PROVE  EndIsComing'
<1>0. /\ \A k \in Tasks : Served(k) /\ Woken(k)
      /\ \A g \in HttpThreads : WaitsForStarted(g)
  BY EndIsComingParts
<1>1. /\ UNCHANGED <<engine, finish, cb>>
      /\ \A g \in HttpThreads : proc'[g] = proc[g] \/ proc'[g].pc # "wait"
  <2>1. CASE HttpOnly(h) \/ (Request(h) /\ UNCHANGED mmVars)
    BY <2>1, OthersSame DEF mmVars
  <2>2. CASE \/ EnterCreate(h) \/ LeaveCreate(h) \/ EnterDelete(h)
             \/ LeaveDelete(h) \/ LeaveByException(h)
    <3>1. proc'[h] = proc[h] \/ proc'[h].pc # "wait"
      <4> USE Records
      <4>1. CASE EnterCreate(h)
        BY <4>1 DEF EnterCreate, CallCreate, ProcIdle, mmVars
      <4>2. CASE EnterDelete(h)
        BY <4>2 DEF EnterDelete, CallDelete, ProcIdle, mmVars
      <4>3. CASE LeaveCreate(h) \/ LeaveDelete(h) \/ LeaveByException(h)
        BY <4>3 DEF LeaveCreate, LeaveDelete, LeaveByException, ReturnProc, ProcIdle
      <4> QED
        BY <2>2, <4>1, <4>2, <4>3
    <3> QED
      BY <2>2, <3>1, EnterLeaveFrame
  <2> QED
    BY <2>1, <2>2
<1>2. \/ UNCHANGED taskStatus
      \/ /\ taskStatus' = [taskStatus EXCEPT ![http[h].task] = "PENDING"]
         /\ taskStatus[http[h].task] = "NONE"
      \/ /\ taskStatus' = [taskStatus EXCEPT ![http[h].task] = "RUNNING"]
         /\ taskStatus[http[h].task] = "PENDING" /\ engine[http[h].task] \in Busy
  <2>1. CASE HttpOnly(h) \/ (Request(h) /\ UNCHANGED mmVars)
    BY <2>1, OthersSame
  <2>2. CASE EnterCreate(h)
    BY <2>2 DEF EnterCreate, CreateTaskGroup, TMInv, CreateInv, CreateOK
  <2>3. CASE LeaveCreate(h)
    <3>1. http[h].pc = "create_func" /\ proc[h].pc = "return"
      BY <2>3 DEF LeaveCreate, CreateTaskProcess
    <3>2. taskStatus[http[h].task] = "PENDING"
      BY <3>1 DEF TMInv, CreateInv, CreateOK
    <3>3. proc[h].ok => engine[http[h].task] \in Busy
      BY <3>1 DEF ServiceInv, ProcInv, InCreate, Occupied
    <3> QED
      BY <2>3, <3>2, <3>3 DEF LeaveCreate, CreateTaskProcess
  <2>4. CASE EnterDelete(h) \/ LeaveDelete(h) \/ LeaveByException(h)
    BY <2>4 DEF EnterDelete, DeleteStatus, LeaveDelete, DeleteTaskProcess,
       LeaveByException, Throw
  <2> QED
    BY <2>1, <2>2, <2>3, <2>4
<1>3. ASSUME NEW k \in Tasks PROVE Served(k)' /\ Woken(k)'
  <2>1. CASE taskStatus'[k] \in Started => taskStatus'[k] = taskStatus[k]
    BY <1>0, <1>1, <2>1, CareKept
  <2>2. CASE taskStatus'[k] = "RUNNING" /\ engine[k] \in Busy
    BY <1>1, <2>2 DEF Served, Woken, Terminal
  <2>3. CASE taskStatus'[k] # taskStatus[k]
    <3>1. k = http[h].task /\ taskStatus'[k] \in {"PENDING", "RUNNING"}
      BY <1>2, <2>3, Records
    <3> QED
      BY <1>2, <2>1, <2>2, <2>3, <3>1, Records DEF Started, Terminal
  <2> QED
    BY <2>1, <2>3
<1>4. ASSUME NEW g \in HttpThreads PROVE WaitsForStarted(g)'
  <2>1. CASE proc[g].pc = "wait"
    <3>1. PICK k \in Tasks : k = proc[g].task /\ taskStatus[k] \in Started
      BY <2>1, WaitTask
    <3>2. taskStatus'[k] \in Started
      BY <1>2, <3>1, Records DEF Started, Terminal
    <3> QED
      BY <1>0, <1>1, <3>1, <3>2, WaitKept
  <2>2. CASE proc[g].pc # "wait"
    BY <1>1, <2>2 DEF WaitsForStarted
  <2> QED
    BY <2>1, <2>2
<1> QED
  BY <1>3, <1>4 DEF EndIsComing, Served, Woken, WaitsForStarted, Busy


\* The procedures: a stopped engine task is about to end, and only a started
\* one is stopped and waited for.
LEMMA ProcCare ==
  ASSUME TMInv, ThreadsOK, ServiceInv, EndIsComing, ~ Crashed, NEW h \in HttpThreads,
         ProcStep(h), UNCHANGED tmVars
  PROVE  EndIsComing'
<1>0. /\ \A k \in Tasks : Served(k) /\ Woken(k)
      /\ \A g \in HttpThreads : WaitsForStarted(g)
  BY EndIsComingParts
<1>1. /\ UNCHANGED <<http, taskStatus, finish, cb>>
      /\ \A g \in HttpThreads \ {h} : proc'[g] = proc[g]
  BY ProcFrame DEF tmVars
<1>2. ASSUME NEW k \in Tasks PROVE Served(k)' /\ Woken(k)'
  <2>1. CASE /\ http[h].pc = "create_func"
             /\ MATaskInit(h) \/ RunInCreate(h) \/ StartInCreate(h) \/ InsertTask(h)
    <3>1. CASE k = http[h].task
      <4>1. taskStatus'[k] = "PENDING"
        BY <1>1, <2>1, <3>1 DEF TMInv, CreateInv, CreateOK
      <4> QED
        BY <4>1 DEF Served, Woken, Terminal
    <3>2. CASE k # http[h].task
      BY <1>0, <1>1, <2>1, <3>2, CreateProcMoves, CareKept
    <3> QED
      BY <3>1, <3>2
  <2>2. CASE FindTaskByMaTaskId(h) \/ StopTask(h) \/ WaitTaskFinish(h)
    <3>1. engine \in [Tasks -> EngineStates]
      BY DEF ServiceInv, MMTypeOK
    <3>2. engine[k] \in Busy => engine'[k] \in Busy
      BY <2>2, <3>1 DEF FindTaskByMaTaskId, StopTask, WaitTaskFinish, Busy
    <3> QED
      BY <1>0, <1>1, <3>2, CareKept
  <2> QED
    BY <2>1, <2>2, ProcFrame
<1>3. proc'[h].pc = "wait" =>
         proc'[h].task = proc[h].task /\ proc[h].pc \in {"stop", "wait"}
  BY Records DEF Proc, Return, ProcStep, MATaskInit, RunInCreate, StartInCreate,
     InsertTask, FindTaskByMaTaskId, StopTask, WaitTaskFinish
<1>4. ASSUME NEW g \in HttpThreads PROVE WaitsForStarted(g)'
  BY <1>0, <1>1, <1>3, WaitTask DEF WaitsForStarted
<1> QED
  BY <1>2, <1>4 DEF EndIsComing, Served, Woken, WaitsForStarted, Busy

\* The callback outside UpdateTaskStatus.
LEMMA CallbackCare ==
  ASSUME TMInv, ThreadsOK, ServiceInv, EndIsComing, ~ Crashed,
         EarlyEnd = FALSE, RerunMayFail = FALSE, NEW t \in CbThreads,
         CbStep(t), UNCHANGED tmVars, cb'[t].pc # "crash"
  PROVE  EndIsComing'
<1>0. /\ \A j \in Tasks : Served(j) /\ Woken(j)
      /\ \A g \in HttpThreads : WaitsForStarted(g)
  BY EndIsComingParts
<1>1. /\ UNCHANGED <<taskStatus, proc>>
      /\ \A u \in CbThreads \ {t} : cb'[u] = cb[u]
      /\ \A j \in Tasks \ {cb[t].task} :
            engine'[j] = engine[j] /\ finish'[j] = finish[j]
      /\ cb[t].pc \notin {"idle", "crash"}
      /\ engine \in [Tasks -> EngineStates] /\ finish \in [Tasks -> BOOLEAN]
  BY CbFrame DEF tmVars, ServiceInv, MMTypeOK
<1>2. PICK k \in Tasks : k = cb[t].task
  BY <1>1, CbTaskStarted
<1>3. /\ cb[t].pc \in {"find", "handle", "delete", "run", "start", "update"} =>
            taskStatus[k] = "RUNNING"
      /\ cb[t].pc \in {"remove", "setfin", "erase"} => taskStatus[k] \in Terminal
  BY <1>2 DEF ServiceInv, CbInv, CbOK, Alive, Over, Arriving
<1>4. Served(k)'
  <2> USE Records DEF Cb, CbIdle
  <2>1. CASE FindTaskByModelboxTaskId(t) \/ HandleEnd(t)
    BY <1>2, <2>1 DEF FindTaskByModelboxTaskId, HandleEnd, Served
  <2>2. CASE DeleteForRerun(t) \/ RunInCallback(t)
    BY <1>2, <2>2 DEF DeleteForRerun, RunInCallback, Served
  <2>3. CASE StartInCallback(t)
    BY <1>1, <1>2, <2>3 DEF StartInCallback, Served, Busy
  <2>4. CASE RemoveEngineTask(t) \/ SetTaskFinishStatus(t) \/ EraseTask(t)
    BY <1>1, <1>3, <2>4
       DEF RemoveEngineTask, SetTaskFinishStatus, EraseTask, Served, Terminal
  <2> QED
    BY <2>1, <2>2, <2>3, <2>4 DEF CbStep
<1>5. Woken(k)'
  <2> USE Records DEF Cb, CbIdle
  <2>1. CASE RemoveEngineTask(t)
    BY <1>2, <2>1 DEF RemoveEngineTask, Woken
  <2>2. CASE SetTaskFinishStatus(t)
    BY <1>1, <1>2, <2>2 DEF SetTaskFinishStatus, Woken
  <2>3. CASE EraseTask(t)
    <3>1. \A u \in CbThreads : cb[u].task = k /\ cb[u].pc # "idle" => u = t
      BY <1>1, <1>2 DEF ServiceInv, CbInv, OwnEngineTask
    <3>2. finish[k] /\ cb[t].pc = "erase"
      BY <1>0, <1>3, <2>3, <3>1 DEF Woken, EraseTask
    <3> QED
      BY <2>3, <3>2 DEF EraseTask, Woken
  <2>4. CASE ~ (RemoveEngineTask(t) \/ SetTaskFinishStatus(t) \/ EraseTask(t))
    BY <1>1, <1>3, <2>4
       DEF CbStep, FindTaskByModelboxTaskId, HandleEnd, DeleteForRerun,
           RunInCallback, StartInCallback, Woken, Terminal
  <2> QED
    BY <2>1, <2>2, <2>3, <2>4
<1>6. ASSUME NEW j \in Tasks PROVE Served(j)' /\ Woken(j)'
  <2>1. CASE j # k
    BY <1>0, <1>1, <1>2, <2>1, CareKept
  <2> QED
    BY <1>4, <1>5, <2>1
<1>7. ASSUME NEW g \in HttpThreads PROVE WaitsForStarted(g)'
  BY <1>0, <1>1 DEF WaitsForStarted
<1> QED
  BY <1>6, <1>7 DEF EndIsComing, Served, Woken, WaitsForStarted, Busy

\* UpdateTaskStatus returns only when the end is set.
LEMMA UpdatingCare ==
  ASSUME TMInv, ThreadsOK, ServiceInv, EndIsComing, ~ Crashed, EarlyEnd = FALSE,
         NEW t \in CbThreads, EnterUpdate(t) \/ InUpdate(t)
  PROVE  EndIsComing'
<1>0. /\ \A j \in Tasks : Served(j) /\ Woken(j)
      /\ \A g \in HttpThreads : WaitsForStarted(g)
  BY EndIsComingParts
<1>1. /\ UNCHANGED <<engine, finish, proc>>
      /\ \A u \in CbThreads \ {t} : cb'[u] = cb[u]
  BY UpdFrame DEF EnterUpdate, CallUpdate, UpdateCall, InUpdate, UpdateReturned,
     mmVars, TMInv, ThreadsOK
<1>2. PICK k \in Tasks : k = cb[t].task
  BY UpdateMoves, CbTaskStarted DEF EnterUpdate, CallUpdate, InUpdate
<1>3. \/ UNCHANGED taskStatus
      \/ /\ taskStatus[k] = "RUNNING"
         /\ \E s \in Terminal : taskStatus' = [taskStatus EXCEPT ![k] = s]
  BY <1>2, UpdateMoves DEF EnterUpdate, UpdateCall, InUpdate
<1>4. /\ cb'[t].task = k /\ cb'[t].pc \in {"updating", "remove"}
      /\ cb'[t].pc = "remove" => taskStatus'[k] \in Terminal
  <2>1. CASE EnterUpdate(t)
    BY <1>2, <2>1, Records DEF EnterUpdate, CallUpdate, Cb
  <2>2. CASE InUpdate(t) /\ upd'[t].pc # "idle"
    BY <1>2, <2>2, UpdateMoves DEF InUpdate, mmVars
  <2>3. CASE InUpdate(t) /\ upd'[t].pc = "idle"
    <3>1. upd[t].pc = "notify" /\ UNCHANGED taskStatus /\ cb[t].pc = "updating"
      BY <1>2, <2>3, UpdateMoves DEF InUpdate, Arriving
    <3>2. taskStatus[k] \in Terminal
      BY <1>2, <3>1 DEF ServiceInv, CbInv, CbOK
    <3> QED
      BY <1>2, <2>3, <3>1, <3>2, Records DEF InUpdate, UpdateReturned, Cb
  <2> QED
    BY <2>1, <2>2, <2>3
<1>5. Served(k)' /\ Woken(k)'
  BY <1>4 DEF Served, Woken, Terminal
<1>6. ASSUME NEW j \in Tasks PROVE Served(j)' /\ Woken(j)'
  <2>1. CASE j # k
    <3>1. taskStatus'[j] = taskStatus[j]
      BY <1>3, <2>1, Records
    <3> QED
      BY <1>0, <1>1, <1>2, <2>1, <3>1, CareKept
  <2> QED
    BY <1>5, <2>1
<1>7. ASSUME NEW g \in HttpThreads PROVE WaitsForStarted(g)'
  <2>1. CASE proc[g].pc = "wait"
    <3>1. PICK j \in Tasks : j = proc[g].task /\ taskStatus[j] \in Started
      BY <2>1, WaitTask
    <3>2. taskStatus'[j] \in Started
      BY <1>3, <3>1, Records DEF Started, Terminal
    <3> QED
      BY <1>0, <1>1, <3>1, <3>2, WaitKept
  <2>2. CASE proc[g].pc # "wait"
    BY <1>1, <2>2 DEF WaitsForStarted
  <2> QED
    BY <2>1, <2>2
<1> QED
  BY <1>6, <1>7 DEF EndIsComing, Served, Woken, WaitsForStarted, Busy

\* An engine task ends: its callback is due.
LEMMA EndCare ==
  ASSUME TMInv, ThreadsOK, ServiceInv, EndIsComing, ~ Crashed,
         NEW t \in CbThreads, NEW k \in Tasks, EngineTaskEnds(t, k), EarlyEnd = FALSE
  PROVE  EndIsComing'
<1>0. /\ \A j \in Tasks : Served(j) /\ Woken(j)
      /\ \A g \in HttpThreads : WaitsForStarted(g)
  BY EndIsComingParts
<1>1. /\ UNCHANGED <<taskStatus, finish, proc>>
      /\ engine' = [engine EXCEPT ![k] = "ended"]
      /\ \A u \in CbThreads \ {t} : cb'[u] = cb[u]
      /\ cb[t].pc = "idle" /\ cb'[t].pc = "find" /\ cb'[t].task = k
      /\ taskStatus[k] = "RUNNING"
  BY Records DEF EngineTaskEnds, EngineEnd, tmVars
<1>2. engine \in [Tasks -> EngineStates]
  BY DEF ServiceInv, MMTypeOK
<1>3. ASSUME NEW j \in Tasks PROVE Served(j)' /\ Woken(j)'
  <2>1. CASE j = k
    BY <1>1, <2>1 DEF Served, Woken, Terminal
  <2>2. CASE j # k
    <3>1. Served(j) /\ Woken(j)
      BY <1>0
    <3>2. Served(j)'
      BY <1>1, <1>2, <2>2, <3>1 DEF Served
    <3>3. Woken(j)'
      BY <1>1, <3>1 DEF Woken
    <3> QED
      BY <3>2, <3>3
  <2> QED
    BY <2>1, <2>2
<1>4. ASSUME NEW g \in HttpThreads PROVE WaitsForStarted(g)'
  BY <1>0, <1>1 DEF WaitsForStarted
<1> QED
  BY <1>3, <1>4 DEF EndIsComing, Served, Woken, WaitsForStarted, Busy

\* Every step.
LEMMA EndIsComingStep ==
  ASSUME TMInv, ThreadsOK, ServiceInv, EndIsComing, [Next]_vars,
         EarlyEnd = FALSE, RerunMayFail = FALSE
  PROVE  EndIsComing'
<1>1. CASE UNCHANGED vars
  BY <1>1 DEF vars, tmVars, mmVars, EndIsComing, Crashed
<1>2. CASE Next
  <2>0. ~ Crashed
    BY <1>2 DEF Next
  <2>1. ASSUME NEW h \in HttpThreads, HttpThread(h) PROVE EndIsComing'
    BY <2>0, <2>1, HandlerCare, ProcCare DEF HttpThread
  <2>2. ASSUME NEW h \in HttpThreads, Request(h) /\ UNCHANGED mmVars
        PROVE EndIsComing'
    BY <2>0, <2>2, HandlerCare
  <2>3. ASSUME NEW t \in CbThreads, CbStep(t) /\ UNCHANGED tmVars
        PROVE EndIsComing'
    <3>1. CASE cb'[t].pc = "crash"
      BY <3>1 DEF EndIsComing, Crashed
    <3>2. CASE cb'[t].pc # "crash"
      BY <2>0, <2>3, <3>2, CallbackCare
    <3> QED
      BY <3>1, <3>2
  <2>4. ASSUME NEW t \in CbThreads, CbThread(t) PROVE EndIsComing'
    BY <2>0, <2>3, <2>4, UpdatingCare DEF CbThread
  <2>5. ASSUME NEW t \in CbThreads, NEW k \in Tasks, EngineTaskEnds(t, k)
        PROVE EndIsComing'
    BY <2>0, <2>5, EndCare
  <2> QED
    BY <1>2, <2>1, <2>2, <2>4, <2>5 DEF Next
<1> QED
  BY <1>1, <1>2

\* While the process has not crashed, whatever was started has an engine task
\* or a callback that will end it, and a delete that waits for an end will be
\* woken; also when ids are used again.
THEOREM EndIsComingHolds ==
  ASSUME EarlyEnd = FALSE, RerunMayFail = FALSE
  PROVE  Spec => []EndIsComing
<1>1. Init => EndIsComing
  BY DEF Init, TMInit, MMInit, EndIsComing, ProcIdle, Terminal
<1>2. TMInv /\ ThreadsOK /\ ServiceInv /\ EndIsComing /\ [Next]_vars => EndIsComing'
  BY EndIsComingStep
<1> QED
  BY <1>1, <1>2, ServiceInvariance, InvarianceInPlugin, PTL DEF Spec

------------------------------------------------------------------------------
(* Nothing goes on for ever                                                  *)

\* How many steps a callback has left at most: 6 for each file it may still
\* start, and those of the last end.
CbLeft(t) ==
    LET more == 6 * files[cb[t].task] IN
    CASE cb[t].pc = "find"     -> more + 12
      [] cb[t].pc = "handle"   -> more + 11
      [] cb[t].pc = "delete"   -> more + 10
      [] cb[t].pc = "run"      -> more + 9
      [] cb[t].pc = "start"    -> more + 14
      [] cb[t].pc = "update"   -> 10
      [] cb[t].pc = "updating" ->
            CASE upd[t].pc = "find"   -> 9
              [] upd[t].pc = "set"    -> 8
              [] upd[t].pc = "report" -> 7
              [] upd[t].pc = "send"   -> 6
              [] upd[t].pc = "erase"  -> 5
              [] OTHER                -> 4
      [] cb[t].pc = "remove"   -> 3
      [] cb[t].pc = "setfin"   -> 2
      [] cb[t].pc = "erase"    -> 1
      [] OTHER                 -> 0

CallbacksOf(k) == {t \in CbThreads : cb[t].task = k /\ cb[t].pc # "idle"}

\* How many steps the engine task and the callbacks of k have left at most.
TaskLeft(k) ==
    IF engine[k] \in Busy THEN 6 * files[k] + 13
    ELSE IF CallbacksOf(k) # {} THEN CbLeft(CHOOSE t \in CallbacksOf(k) : TRUE)
    ELSE 0

\* How many steps a handler has left at most.
HttpLeft(h) ==
    CASE http[h].pc = "lock"   -> 12
      [] http[h].pc = "find"   -> 11
      [] http[h].pc = "status" -> 10
      [] http[h].pc \in {"create_func", "delete_func"} ->
            CASE proc[h].pc = "init"              -> 9
              [] proc[h].pc \in {"run", "find"}   -> 8
              [] proc[h].pc \in {"start", "stop"} -> 7
              [] proc[h].pc \in {"insert", "wait"} -> 6
              [] OTHER                            -> 5
      [] http[h].pc = "report" -> 4
      [] http[h].pc = "send"   -> 3
      [] http[h].pc \in {"notify", "detail"} -> 2
      [] http[h].pc = "unlock" -> 1
      [] OTHER                 -> 0

\* A step for task k: its engine task ends, or its callback goes on.
StepFor(k) ==
    \E t \in CbThreads :
        \/ EngineTaskEnds(t, k)
        \/ cb[t].task = k /\ CbThread(t)

\* A step uses up what is left of the handler, or of the task, it is a step of,
\* and adds nothing to the others; only a request that arrives, and a create
\* that is not answered yet, start anew.
LeftStep ==
    /\ \A h \in HttpThreads :
          /\ http[h].pc # "idle" => HttpLeft(h)' <= HttpLeft(h)
          /\ HttpThread(h) => HttpLeft(h)' < HttpLeft(h)
    /\ \A k \in Tasks : taskStatus[k] \in Started =>
          /\ TaskLeft(k)' <= TaskLeft(k)
          /\ StepFor(k) => TaskLeft(k)' < TaskLeft(k)

\* A callback prepares another engine task only while a file is left for it.
RerunHasFile ==
    \A t \in CbThreads : cb[t].pc \in {"delete", "run"} => files[cb[t].task] > 0

\* Only its callback takes a file of a task that was started.
LEMMA FilesMove ==
  ASSUME TMInv, ThreadsOK, ServiceInv, Next, NEW k \in Tasks,
         taskStatus[k] \in Started \/ Arriving(k)
  PROVE  \/ files'[k] = files[k]
         \/ \E t \in CbThreads : RunInCallback(t) /\ cb[t].task = k
<1>0. files \in [Tasks -> 0 .. MaxFiles]
  BY DEF ServiceInv, MMTypeOK
<1>1. ASSUME NEW h \in HttpThreads, ProcStep(h) PROVE files'[k] = files[k]
  <2>1. CASE MATaskInit(h) \/ RunInCreate(h)
    <3>1. /\ http[h].pc = "create_func" /\ ~ Occupied(h)
          /\ proc[h].task = http[h].task
      BY <2>1 DEF MATaskInit, RunInCreate, Occupied, ServiceInv, ProcInv, AnswerOK,
         InCreate, InDelete
    <3>2. taskStatus[proc[h].task] = "PENDING"
      BY <3>1 DEF TMInv, CreateInv, CreateOK
    <3>3. ~ Arriving(k) \/ k # proc[h].task
      BY <3>1, ArrivingHere DEF Locked
    <3>4. k # proc[h].task
      BY <3>2, <3>3 DEF Started, Terminal
    <3> QED
      BY <1>0, <2>1, <3>4 DEF MATaskInit, RunInCreate, RunFails, NewEngineTask, PopFile
  <2>2. CASE ~ (MATaskInit(h) \/ RunInCreate(h))
    BY <1>1, <2>2 DEF ProcStep, StartInCreate, InsertTask, FindTaskByMaTaskId,
       StopTask, WaitTaskFinish
  <2> QED
    BY <2>1, <2>2
<1>2. ASSUME NEW h \in HttpThreads, HttpThread(h) \/ (Request(h) /\ UNCHANGED mmVars)
      PROVE files'[k] = files[k]
  BY <1>1, <1>2, OthersSame, EnterLeaveFrame DEF HttpThread, mmVars
<1>3. ASSUME NEW t \in CbThreads, CbThread(t)
      PROVE files'[k] = files[k] \/ (RunInCallback(t) /\ cb[t].task = k)
  <2>1. CASE RunInCallback(t)
    BY <1>0, <2>1 DEF RunInCallback, RunFails, NewEngineTask, PopFile
  <2>2. CASE ~ RunInCallback(t)
    BY <1>3, <2>2
       DEF CbThread, EnterUpdate, CallUpdate, InUpdate, UpdateReturned, mmVars, CbStep,
           FindTaskByModelboxTaskId, HandleEnd, DeleteForRerun, StartInCallback,
           RemoveEngineTask, SetTaskFinishStatus, EraseTask
  <2> QED
    BY <2>1, <2>2
<1>4. ASSUME NEW t \in CbThreads, NEW j \in Tasks, EngineTaskEnds(t, j)
      PROVE files'[k] = files[k]
  BY <1>4 DEF EngineTaskEnds, EngineEnd
<1> QED
  BY <1>2, <1>3, <1>4 DEF Next

\* The step of a callback, and what it leaves to the others.
LEMMA CbThreadFrame ==
  ASSUME TMInv, ThreadsOK, ServiceInv, NEW t \in CbThreads, CbThread(t)
  PROVE  /\ cb[t].pc \notin {"idle", "crash"} /\ cb[t].task \in Tasks
         /\ UNCHANGED <<http, proc>>
         /\ \A u \in CbThreads \ {t} : cb'[u] = cb[u] /\ upd'[u] = upd[u]
         /\ \A j \in Tasks \ {cb[t].task} :
               engine'[j] = engine[j] /\ files'[j] = files[j]
         /\ cb'[t].pc # "idle" => cb'[t].task = cb[t].task
<1>0. engine \in [Tasks -> EngineStates] /\ files \in [Tasks -> 0 .. MaxFiles]
  BY DEF ServiceInv, MMTypeOK
<1>1. CASE EnterUpdate(t) \/ InUpdate(t)
  <2>1. cb[t].pc \in {"update", "updating"}
    BY <1>1, UpdateMoves DEF EnterUpdate, CallUpdate, InUpdate
  <2>2. /\ UNCHANGED <<engine, files, proc>>
        /\ \A u \in CbThreads \ {t} : cb'[u] = cb[u]
        /\ cb'[t].task = cb[t].task
    BY <1>1, Records DEF EnterUpdate, CallUpdate, InUpdate, UpdateReturned, mmVars, Cb
  <2>3. /\ UNCHANGED http
        /\ \A u \in CbThreads \ {t} : upd'[u] = upd[u]
    BY <1>1, UpdFrame DEF EnterUpdate, CallUpdate, UpdateCall, InUpdate, TMInv, ThreadsOK,
       TypeOK
  <2> QED
    BY <2>1, <2>2, <2>3, CbTaskStarted
<1>2. CASE CbStep(t) /\ UNCHANGED tmVars
  <2>1. UNCHANGED <<http, upd>>
    BY <1>2 DEF tmVars
  <2>2. \A j \in Tasks \ {cb[t].task} : files'[j] = files[j]
    BY <1>0, <1>2
       DEF CbStep, FindTaskByModelboxTaskId, HandleEnd, DeleteForRerun, RunInCallback,
           RunFails, NewEngineTask, PopFile, StartInCallback, RemoveEngineTask,
           SetTaskFinishStatus, EraseTask
  <2> QED
    BY <1>2, <2>1, <2>2, CbFrame, CbMoves, CbTaskStarted
<1> QED
  BY <1>1, <1>2 DEF CbThread

\* Every step keeps a file for who is about to use it.
LEMMA RerunFileStep ==
  ASSUME TMInv, ThreadsOK, ServiceInv, RerunHasFile, [Next]_vars
  PROVE  RerunHasFile'
<1>1. CASE UNCHANGED vars
  BY <1>1 DEF vars, mmVars, RerunHasFile
<1>2. ASSUME Next, NEW u \in CbThreads, cb'[u] = cb[u],
             cb[u].pc \in {"delete", "run"}, ~ RunInCallback(u)
      PROVE  files'[cb'[u].task] > 0
  <2>1. PICK k \in Tasks : k = cb[u].task
    BY <1>2, CbTaskStarted
  <2>2. taskStatus[k] \in Started \/ Arriving(k)
    BY <1>2, <2>1, CbTaskStarted
  <2>3. \A t \in CbThreads : RunInCallback(t) => cb[t].task # k
    BY <1>2, <2>1 DEF RunInCallback, ServiceInv, CbInv, OwnEngineTask
  <2>4. files'[k] = files[k]
    BY <1>2, <2>2, <2>3, FilesMove
  <2> QED
    BY <1>2, <2>1, <2>4 DEF RerunHasFile
<1>3. ASSUME Next, UNCHANGED cb PROVE RerunHasFile'
  <2>1. \A u \in CbThreads : ~ RunInCallback(u)
    BY <1>3, Records DEF RunInCallback, Cb, CbIdle
  <2> QED
    BY <1>2, <1>3, <2>1 DEF RerunHasFile
<1>4. ASSUME Next, NEW t \in CbThreads, CbThread(t) PROVE RerunHasFile'
  <2>1. ASSUME NEW u \in CbThreads \ {t}, cb'[u].pc \in {"delete", "run"}
        PROVE files'[cb'[u].task] > 0
    <3>1. cb'[u] = cb[u]
      BY <1>4, CbThreadFrame
    <3>2. ~ RunInCallback(u)
      BY <2>1, <3>1, Records DEF RunInCallback, Cb, CbIdle
    <3> QED
      BY <1>2, <1>4, <2>1, <3>1, <3>2
  <2>2. cb'[t].pc \in {"delete", "run"} => files'[cb'[t].task] > 0
    <3> USE Records DEF Cb, CbIdle
    <3>0. files \in [Tasks -> 0 .. MaxFiles] /\ cb[t].task \in Tasks
      BY <1>4, CbThreadFrame DEF ServiceInv, MMTypeOK
    <3>1. CASE EnterUpdate(t) \/ InUpdate(t)
      BY <3>1, UpdateMoves DEF EnterUpdate, CallUpdate, InUpdate, UpdateReturned, mmVars
    <3>2. CASE HandleEnd(t) \/ DeleteForRerun(t)
      BY <3>0, <3>2 DEF HandleEnd, DeleteForRerun, RerunHasFile
    <3>3. CASE RunInCallback(t) \/ StartInCallback(t) \/ FindTaskByModelboxTaskId(t)
      BY <3>3 DEF RunInCallback, StartInCallback, FindTaskByModelboxTaskId
    <3>4. CASE RemoveEngineTask(t) \/ SetTaskFinishStatus(t) \/ EraseTask(t)
      BY <3>4 DEF RemoveEngineTask, SetTaskFinishStatus, EraseTask
    <3> QED
      BY <1>4, <3>1, <3>2, <3>3, <3>4 DEF CbThread, CbStep
  <2> QED
    BY <2>1, <2>2 DEF RerunHasFile
<1>5. ASSUME NEW t \in CbThreads, NEW k \in Tasks, EngineTaskEnds(t, k)
      PROVE RerunHasFile'
  <2>1. /\ UNCHANGED files /\ cb'[t].pc = "find"
        /\ \A u \in CbThreads \ {t} : cb'[u] = cb[u]
    BY <1>5, Records DEF EngineTaskEnds, EngineEnd
  <2> QED
    BY <2>1 DEF RerunHasFile
<1>6. ASSUME NEW h \in HttpThreads,
             HttpThread(h) \/ (Request(h) /\ UNCHANGED mmVars)
      PROVE UNCHANGED cb
  BY <1>6, OthersSame, EnterLeaveFrame, ProcFrame DEF HttpThread, mmVars
<1> QED
  BY <1>1, <1>3, <1>4, <1>5, <1>6 DEF Next

\* One callback works for a task, and not beside its engine task.
OneWorks ==
    \A t \in CbThreads : cb[t].pc # "idle" =>
        /\ engine[cb[t].task] \notin Busy
        /\ TaskLeft(cb[t].task) = CbLeft(t)

LEMMA LeftOfOne == ServiceInv => OneWorks
<1> SUFFICES ASSUME ServiceInv, NEW t \in CbThreads, cb[t].pc # "idle"
             PROVE  /\ engine[cb[t].task] \notin Busy
                    /\ TaskLeft(cb[t].task) = CbLeft(t)
  BY DEF OneWorks
<1> DEFINE k == cb[t].task
<1>1. engine[k] \notin Busy
  BY DEF ServiceInv, CbInv, CbOK
<1>2. CallbacksOf(k) = {t}
  BY DEF ServiceInv, CbInv, OwnEngineTask, CallbacksOf
<1>3. (CHOOSE u \in CallbacksOf(k) : TRUE) = t
  BY <1>2
<1>4. TaskLeft(k) = CbLeft(t)
  BY <1>1, <1>2, <1>3 DEF TaskLeft
<1> QED
  BY <1>1, <1>4

\* Where the engine task, the files and the callbacks of k stay as they are.
LEMMA LeftSame ==
  ASSUME ServiceInv, ServiceInv', NEW k,
         files'[k] = files[k], engine'[k] \in Busy <=> engine[k] \in Busy,
         \A t \in CbThreads :
            \/ cb'[t] = cb[t] /\ upd'[t] = upd[t]
            \/ (cb[t].task # k \/ cb[t].pc = "idle")
                  /\ (cb'[t].task # k \/ cb'[t].pc = "idle")
  PROVE  TaskLeft(k)' = TaskLeft(k)
<1>1. CallbacksOf(k)' = CallbacksOf(k)
  BY DEF CallbacksOf
<1>2. CASE CallbacksOf(k) = {}
  BY <1>1, <1>2 DEF TaskLeft
<1>3. ASSUME NEW t \in CallbacksOf(k) PROVE TaskLeft(k)' = TaskLeft(k)
  <2>1. /\ t \in CbThreads /\ cb[t].task = k /\ cb[t].pc # "idle"
        /\ cb'[t] = cb[t] /\ upd'[t] = upd[t]
    BY <1>3 DEF CallbacksOf
  <2>2. TaskLeft(k) = CbLeft(t)
    BY <2>1, LeftOfOne DEF OneWorks
  <2>3. ServiceInv' => OneWorks'
    BY LeftOfOne, PTL
  <2>4. TaskLeft(cb[t].task)' = CbLeft(t)'
    BY <2>1, <2>3 DEF OneWorks
  <2>5. CbLeft(t)' = CbLeft(t)
    BY <2>1 DEF CbLeft
  <2> QED
    BY <2>1, <2>2, <2>4, <2>5
<1> QED
  BY <1>2, <1>3

\* A step for a task brings its end closer.
LEMMA StepForLess ==
  ASSUME TMInv, ThreadsOK, ServiceInv, ServiceInv', RerunHasFile,
         NEW k \in Tasks, StepFor(k)
  PROVE  TaskLeft(k)' < TaskLeft(k)
<1>0. /\ engine \in [Tasks -> EngineStates] /\ files \in [Tasks -> 0 .. MaxFiles]
      /\ files[k] \in Nat /\ MaxFiles \in Nat
  BY FilesAssumption DEF ServiceInv, MMTypeOK
<1>1. OneWorks /\ OneWorks'
  <2>1. ServiceInv' => OneWorks'
    BY LeftOfOne, PTL
  <2> QED
    BY <2>1, LeftOfOne
<1>2. ASSUME NEW t \in CbThreads, EngineTaskEnds(t, k)
      PROVE TaskLeft(k)' < TaskLeft(k)
  <2>1. /\ engine[k] \in Busy /\ UNCHANGED files
        /\ cb'[t].pc = "find" /\ cb'[t].task = k
    BY <1>2, Records DEF EngineTaskEnds, EngineEnd, Busy
  <2>2. TaskLeft(k) = 6 * files[k] + 13
    BY <2>1 DEF TaskLeft
  <2>3. TaskLeft(cb[t].task)' = CbLeft(t)'
    BY <1>1, <2>1 DEF OneWorks
  <2>4. CbLeft(t)' = 6 * files[k] + 12
    BY <2>1 DEF CbLeft
  <2> QED
    BY <1>0, <2>1, <2>2, <2>3, <2>4
<1>3. ASSUME NEW t \in CbThreads, cb[t].task = k, CbThread(t)
      PROVE TaskLeft(k)' < TaskLeft(k)
  <2> USE Records DEF Cb, CbIdle
  <2>0. /\ cb[t].pc # "idle" /\ engine[k] \notin Busy /\ TaskLeft(k) = CbLeft(t)
        /\ \A u \in CbThreads \ {t} : cb'[u] = cb[u]
        /\ \A u \in CbThreads \ {t} : cb[u].task # k \/ cb[u].pc = "idle"
    BY <1>1, <1>3, CbThreadFrame DEF OneWorks, ServiceInv, CbInv, OwnEngineTask
  <2>1. ASSUME cb'[t].pc # "idle", cb'[t].task = k
        PROVE TaskLeft(k)' = CbLeft(t)'
    BY <1>1, <2>1 DEF OneWorks
  <2>2. ASSUME cb'[t].pc = "idle"
        PROVE TaskLeft(k)' = IF engine'[k] \in Busy THEN 6 * files'[k] + 13 ELSE 0
    <3>1. CallbacksOf(k)' = {}
      BY <2>0, <2>2 DEF CallbacksOf
    <3> QED
      BY <3>1 DEF TaskLeft
  <2>3. CASE EnterUpdate(t)
    <3>1. /\ cb[t].pc = "update" /\ cb'[t].pc = "updating" /\ cb'[t].task = k
          /\ upd'[t].pc = "find"
      BY <1>3, <2>3 DEF EnterUpdate, CallUpdate, UpdateCall, UpdIdle
    <3>2. CbLeft(t) = 10 /\ CbLeft(t)' = 9
      BY <3>1 DEF CbLeft
    <3> QED
      BY <2>0, <2>1, <3>1, <3>2
  <2>4. CASE InUpdate(t)
    <3>1. /\ cb[t].pc = "updating" /\ cb'[t].task = k
          /\ IF upd'[t].pc = "idle" THEN cb'[t].pc = "remove" ELSE cb'[t].pc = "updating"
          /\ \/ upd[t].pc = "find" /\ upd'[t].pc \in {"set", "idle"}
             \/ upd[t].pc = "set" /\ upd'[t].pc = "report"
             \/ upd[t].pc = "report" /\ upd'[t].pc = "send"
             \/ upd[t].pc = "send" /\ upd'[t].pc = "erase"
             \/ upd[t].pc = "erase" /\ upd'[t].pc = "notify"
             \/ upd[t].pc = "notify" /\ upd'[t].pc = "idle"
      <4>1. cb[t].pc = "updating"
        BY <2>4, UpdateMoves DEF InUpdate
      <4>2. /\ cb'[t].task = k
            /\ IF upd'[t].pc = "idle" THEN cb'[t].pc = "remove" ELSE cb'[t].pc = "updating"
        BY <1>3, <2>4, <4>1 DEF InUpdate, UpdateReturned, mmVars
      <4>3. upd[t].pc \in {"report", "send"} =>
               \/ upd[t].pc = "report" /\ upd'[t].pc = "send"
               \/ upd[t].pc = "send" /\ upd'[t].pc = "erase"
        BY <2>4 DEF InUpdate, UpdStep, UpdateFind, UpdateSet, UpdateReport, UpdateSent,
           UpdateErase, UpdateNotify, Upd
      <4> QED
        BY <2>4, <4>1, <4>2, <4>3, UpdateMoves DEF InUpdate
    <3>2. CbLeft(t)' < CbLeft(t)
      BY <3>1 DEF CbLeft
    <3> QED
      BY <2>0, <2>1, <3>1, <3>2
  <2>5. CASE CbStep(t) /\ UNCHANGED tmVars
    <3>1. CASE FindTaskByModelboxTaskId(t) \/ HandleEnd(t) \/ DeleteForRerun(t)
      <4>1. /\ UNCHANGED files /\ cb'[t].task = k
            /\ \/ cb[t].pc = "find" /\ cb'[t].pc \in {"handle", "crash"}
               \/ cb[t].pc = "handle" /\ cb'[t].pc \in {"delete", "update"}
               \/ cb[t].pc = "delete" /\ cb'[t].pc = "run"
        BY <1>3, <3>1 DEF FindTaskByModelboxTaskId, HandleEnd, DeleteForRerun
      <4>2. CbLeft(t)' < CbLeft(t)
        BY <1>0, <1>3, <4>1 DEF CbLeft
      <4> QED
        BY <2>0, <2>1, <4>1, <4>2
    <3>2. CASE RunInCallback(t) /\ cb'[t].pc = "start"
      <4>1. /\ cb[t].pc = "run" /\ cb'[t].task = k
            /\ files[k] > 0 /\ files'[k] = files[k] - 1
        BY <1>0, <1>3, <3>2 DEF RunInCallback, NewEngineTask, PopFile, RerunHasFile
      <4>2. CbLeft(t) = 6 * files[k] + 9 /\ CbLeft(t)' = 6 * (files[k] - 1) + 14
        BY <1>3, <3>2, <4>1 DEF CbLeft
      <4> QED
        BY <1>0, <2>0, <2>1, <3>2, <4>1, <4>2
    <3>3. CASE RunInCallback(t) /\ cb'[t].pc = "idle"
      <4>1. CbLeft(t) = 6 * files[k] + 9
        BY <1>3, <3>3 DEF RunInCallback, CbLeft
      <4>2. engine'[k] \notin Busy
        BY <1>0, <1>3, <3>3 DEF RunInCallback, RunFails, NewEngineTask, Busy
      <4> QED
        BY <1>0, <2>0, <2>2, <3>3, <4>1, <4>2
    <3>4. CASE StartInCallback(t)
      <4>1. CbLeft(t) = 6 * files[k] + 14
        BY <1>3, <3>4 DEF StartInCallback, CbLeft
      <4>2. UNCHANGED files /\ cb'[t].pc = "idle"
        BY <3>4 DEF StartInCallback
      <4>3. TaskLeft(k)' = 6 * files[k] + 13 \/ TaskLeft(k)' = 0
        BY <2>2, <4>2
      <4> QED
        BY <1>0, <2>0, <4>1, <4>3
    <3>5. CASE RemoveEngineTask(t) \/ SetTaskFinishStatus(t)
      <4>1. /\ cb'[t].task = k
            /\ \/ cb[t].pc = "remove" /\ cb'[t].pc = "setfin"
               \/ cb[t].pc = "setfin" /\ cb'[t].pc = "erase"
        BY <1>3, <3>5 DEF RemoveEngineTask, SetTaskFinishStatus
      <4>2. CbLeft(t)' < CbLeft(t)
        BY <4>1 DEF CbLeft
      <4> QED
        BY <2>0, <2>1, <4>1, <4>2
    <3>6. CASE EraseTask(t)
      <4>1. CbLeft(t) = 1
        BY <3>6 DEF EraseTask, CbLeft
      <4>2. cb'[t].pc = "idle" /\ UNCHANGED engine
        BY <3>6 DEF EraseTask
      <4> QED
        BY <2>0, <2>2, <4>1, <4>2
    <3>7. RunInCallback(t) => cb'[t].pc \in {"start", "idle"}
      BY DEF RunInCallback
    <3> QED
      BY <2>5, <3>1, <3>2, <3>3, <3>4, <3>5, <3>6, <3>7 DEF CbStep
  <2> QED
    BY <1>3, <2>3, <2>4, <2>5 DEF CbThread
<1> QED
  BY <1>2, <1>3 DEF StepFor

\* Any other step leaves what is left of a started task as it is.
LEMMA OtherStepSame ==
  ASSUME TMInv, ThreadsOK, ServiceInv, ServiceInv', [Next]_vars,
         NEW k \in Tasks, taskStatus[k] \in Started, ~ StepFor(k)
  PROVE  TaskLeft(k)' = TaskLeft(k)
<1>0. engine \in [Tasks -> EngineStates]
  BY DEF ServiceInv, MMTypeOK
<1>1. CASE UNCHANGED vars
  BY <1>1, LeftSame DEF vars, tmVars, mmVars
<1>2. ASSUME Next PROVE files'[k] = files[k]
  <2>1. ASSUME NEW t \in CbThreads, RunInCallback(t), cb[t].task = k
        PROVE files'[k] = files[k]
    <3>1. UNCHANGED tmVars => FALSE
      BY <2>1 DEF StepFor, CbThread, CbStep
    <3>2. cb'[t] # cb[t] /\ cb'[t].pc # "find"
      BY <2>1, Records DEF RunInCallback, Cb, CbIdle
    <3>3. ASSUME NEW h \in HttpThreads, HttpThread(h) \/ (Request(h) /\ UNCHANGED mmVars)
          PROVE UNCHANGED cb
      BY <3>3, OthersSame, EnterLeaveFrame, ProcFrame DEF HttpThread, mmVars
    <3>4. ASSUME NEW u \in CbThreads, CbThread(u) PROVE u = t
      BY <3>2, <3>4, CbThreadFrame
    <3>5. ASSUME NEW u \in CbThreads, NEW j \in Tasks, EngineTaskEnds(u, j)
          PROVE FALSE
      BY <3>2, <3>5, <3>1 DEF EngineTaskEnds
    <3> QED
      BY <1>2, <2>1, <3>2, <3>3, <3>4, <3>5 DEF Next, StepFor
  <2> QED
    BY <1>2, <2>1, FilesMove
<1>3. ASSUME NEW h \in HttpThreads,
             HttpThread(h) \/ (Request(h) /\ UNCHANGED mmVars)
      PROVE  UNCHANGED <<cb, upd>> /\ (engine'[k] \in Busy <=> engine[k] \in Busy)
  <2>1. CASE ProcStep(h) /\ UNCHANGED tmVars
    <3>1. UNCHANGED <<cb, upd>>
      BY <2>1, ProcFrame DEF tmVars
    <3>2. CASE /\ http[h].pc = "create_func"
               /\ MATaskInit(h) \/ RunInCreate(h) \/ StartInCreate(h) \/ InsertTask(h)
      <4>1. k # http[h].task
        BY <3>2 DEF TMInv, CreateInv, CreateOK, Started, Terminal
      <4> QED
        BY <3>1, <3>2, <4>1, CreateProcMoves
    <3>3. CASE FindTaskByMaTaskId(h) \/ StopTask(h) \/ WaitTaskFinish(h)
      BY <1>0, <3>1, <3>3 DEF FindTaskByMaTaskId, StopTask, WaitTaskFinish, Busy
    <3> QED
      BY <2>1, <3>2, <3>3, ProcFrame
  <2>2. CASE ~ (ProcStep(h) /\ UNCHANGED tmVars)
    BY <1>3, <2>2, OthersSame, EnterLeaveFrame DEF HttpThread, mmVars
  <2> QED
    BY <2>1, <2>2
<1>4. ASSUME Next, NEW h \in HttpThreads,
             HttpThread(h) \/ (Request(h) /\ UNCHANGED mmVars)
      PROVE  TaskLeft(k)' = TaskLeft(k)
  BY <1>2, <1>3, <1>4, LeftSame
<1>5. ASSUME Next, NEW t \in CbThreads, CbThread(t)
      PROVE  TaskLeft(k)' = TaskLeft(k)
  <2>1. cb[t].task # k
    BY <1>5 DEF StepFor
  <2>2. /\ \A u \in CbThreads \ {t} : cb'[u] = cb[u] /\ upd'[u] = upd[u]
        /\ engine'[k] = engine[k]
        /\ cb'[t].pc # "idle" => cb'[t].task = cb[t].task
    BY <1>5, <2>1, CbThreadFrame
  <2> QED
    BY <1>2, <1>5, <2>1, <2>2, LeftSame
<1>6. ASSUME Next, NEW t \in CbThreads, NEW j \in Tasks, EngineTaskEnds(t, j)
      PROVE  TaskLeft(k)' = TaskLeft(k)
  <2>1. j # k
    BY <1>6 DEF StepFor
  <2>2. /\ \A u \in CbThreads \ {t} : cb'[u] = cb[u]
        /\ UNCHANGED upd /\ engine'[k] = engine[k]
        /\ cb[t].pc = "idle" /\ cb'[t].task = j
    BY <1>0, <1>6, <2>1, Records DEF EngineTaskEnds, EngineEnd, tmVars
  <2> QED
    BY <1>2, <1>6, <2>1, <2>2, LeftSame
<1> QED
  BY <1>1, <1>4, <1>5, <1>6 DEF Next

\* Each step of a handler brings its answer closer, wherever it is ...
LEMMA HandlerLess ==
  ASSUME TMInv, ThreadsOK, ServiceInv, NEW h \in HttpThreads, HttpThread(h)
  PROVE  HttpLeft(h)' < HttpLeft(h)
<1> USE Records DEF Http, Proc
<1>1. CASE HttpOnly(h)
  <2>1. \/ http[h].pc = "lock" /\ http'[h].pc = "find"
        \/ http[h].pc = "unlock" /\ http'[h].pc = "idle"
        \/ http[h].pc = "find" /\ http'[h].pc \in {"status", "notify", "detail", "unlock"}
        \/ http[h].pc = "detail" /\ http'[h].pc = "unlock"
        \/ http[h].pc = "report" /\ http'[h].pc = "send"
        \/ http[h].pc = "send" /\ http'[h].pc = "notify"
        \/ http[h].pc = "notify" /\ http'[h].pc = "unlock"
    BY <1>1 DEF HttpOnly, LockMsg, ReturnMsg, HttpIdle, DeleteFind, Answer, QueryFind,
       QueryDetail, PostReport, PostSent, PostNotify
  <2> QED
    BY <2>1 DEF HttpLeft
<1>2. CASE EnterCreate(h)
  <2>1. http[h].pc = "find" /\ http'[h].pc \in {"notify", "create_func"}
    BY <1>2 DEF EnterCreate, CreateTaskGroup, Answer
  <2>2. http'[h].pc = "create_func" => proc'[h].pc = "init"
    BY <1>2 DEF EnterCreate, CallCreate, ProcIdle
  <2> QED
    BY <2>1, <2>2 DEF HttpLeft
<1>3. CASE EnterDelete(h)
  <2>1. http[h].pc = "status" /\ http'[h].pc \in {"notify", "delete_func"}
    BY <1>3 DEF EnterDelete, DeleteStatus, Answer
  <2>2. http'[h].pc = "delete_func" => proc'[h].pc = "find"
    BY <1>3 DEF EnterDelete, CallDelete, ProcIdle
  <2> QED
    BY <2>1, <2>2 DEF HttpLeft
<1>4. CASE LeaveCreate(h) \/ LeaveDelete(h) \/ LeaveByException(h)
  <2>1. /\ http[h].pc \in {"create_func", "delete_func"}
        /\ proc[h].pc \in {"return", "throw"}
        /\ http'[h].pc \in {"report", "notify", "unlock"}
    BY <1>4 DEF LeaveCreate, CreateTaskProcess, LeaveDelete, DeleteTaskProcess, Answer,
       LeaveByException, Throw
  <2> QED
    BY <2>1 DEF HttpLeft
<1>5. CASE ProcStep(h) /\ UNCHANGED tmVars
  <2>1. http[h].pc \in {"create_func", "delete_func"} /\ http' = http
    BY <1>5, ProcFrame DEF tmVars
  <2>2. \/ proc[h].pc = "init" /\ proc'[h].pc \in {"run", "return"}
        \/ proc[h].pc = "run" /\ proc'[h].pc \in {"start", "return", "throw"}
        \/ proc[h].pc = "start" /\ proc'[h].pc \in {"insert", "return"}
        \/ proc[h].pc = "insert" /\ proc'[h].pc = "return"
        \/ proc[h].pc = "find" /\ proc'[h].pc \in {"stop", "return"}
        \/ proc[h].pc = "stop" /\ proc'[h].pc \in {"wait", "return", "crash"}
        \/ proc[h].pc = "wait" /\ proc'[h].pc = "return"
    BY <1>5 DEF ProcStep, MATaskInit, RunInCreate, StartInCreate, InsertTask, Return,
       FindTaskByMaTaskId, StopTask, WaitTaskFinish
  <2> QED
    BY <2>1, <2>2 DEF HttpLeft
<1> QED
  BY <1>1, <1>2, <1>3, <1>4, <1>5 DEF HttpThread

\* ... and the steps of the others leave it where it is.
LEMMA HandlerSame ==
  ASSUME TMInv, ThreadsOK, ServiceInv, [Next]_vars,
         NEW h \in HttpThreads, http[h].pc # "idle", ~ HttpThread(h)
  PROVE  HttpLeft(h)' = HttpLeft(h)
<1>1. CASE UNCHANGED vars
  BY <1>1 DEF vars, tmVars, mmVars, HttpLeft
<1>2. ASSUME NEW g \in HttpThreads, HttpThread(g)
      PROVE http'[h] = http[h] /\ proc'[h] = proc[h]
  <2>1. g # h
    BY <1>2
  <2> QED
    BY <1>2, <2>1, OthersSame, EnterLeaveFrame, ProcFrame DEF HttpThread, mmVars, tmVars
<1>3. ASSUME NEW g \in HttpThreads, Request(g) /\ UNCHANGED mmVars
      PROVE http'[h] = http[h] /\ proc'[h] = proc[h]
  <2>1. http[g].pc = "idle"
    BY <1>3 DEF Request, ReceiveCreate, Receive
  <2> QED
    BY <1>3, <2>1, OthersSame DEF mmVars
<1>4. ASSUME NEW t \in CbThreads, CbThread(t)
      PROVE http'[h] = http[h] /\ proc'[h] = proc[h]
  BY <1>4, CbThreadFrame
<1>5. ASSUME NEW t \in CbThreads, NEW k \in Tasks, EngineTaskEnds(t, k)
      PROVE http'[h] = http[h] /\ proc'[h] = proc[h]
  BY <1>5 DEF EngineTaskEnds, EngineEnd, tmVars
<1> QED
  BY <1>1, <1>2, <1>3, <1>4, <1>5 DEF Next, HttpLeft

\* What is left is a number, and not a large one.
LeftBounded ==
    /\ \A h \in HttpThreads : HttpLeft(h) \in 0 .. 12
    /\ \A k \in Tasks : TaskLeft(k) \in 0 .. 6 * MaxFiles + 14

LEMMA LeftIsBounded == ServiceInv => LeftBounded
<1> SUFFICES ASSUME ServiceInv PROVE LeftBounded
  OBVIOUS
<1>1. \A h \in HttpThreads : HttpLeft(h) \in 0 .. 12
  BY DEF HttpLeft
<1>2. ASSUME NEW k \in Tasks PROVE TaskLeft(k) \in 0 .. 6 * MaxFiles + 14
  <2>1. files[k] \in Nat /\ MaxFiles \in Nat /\ files[k] <= MaxFiles
    BY FilesAssumption DEF ServiceInv, MMTypeOK
  <2>2. CASE engine[k] \in Busy
    BY <2>1, <2>2 DEF TaskLeft
  <2>3. ASSUME NEW t \in CallbacksOf(k)
        PROVE TaskLeft(k) \in 0 .. 6 * MaxFiles + 14
    <3>1. t \in CbThreads /\ cb[t].task = k /\ cb[t].pc # "idle"
      BY <2>3 DEF CallbacksOf
    <3>2. TaskLeft(k) = CbLeft(t)
      BY <3>1, LeftOfOne DEF OneWorks
    <3>3. CbLeft(t) \in 0 .. 6 * MaxFiles + 14
      BY <2>1, <3>1 DEF CbLeft
    <3> QED
      BY <3>2, <3>3
  <2>4. CASE engine[k] \notin Busy /\ CallbacksOf(k) = {}
    BY <2>1, <2>4 DEF TaskLeft
  <2> QED
    BY <2>2, <2>3, <2>4
<1> QED
  BY <1>1, <1>2 DEF LeftBounded

\* No handler, no callback and no directory goes on for ever: each has a bounded
\* number of steps left, which its steps use up and nobody else's step renews,
\* whatever fails, ends early or overlaps.  With EndIsComing it is the safety
\* half of LockReleased and FileTaskEnds: whoever is waited for exists, and runs
\* out of steps.
THEOREM WorkRunsOut == Spec => []LeftBounded /\ [][LeftStep]_vars
<1>1. Init => RerunHasFile
  BY DEF Init, MMInit, RerunHasFile, CbIdle
<1>2. TMInv /\ ThreadsOK /\ ServiceInv /\ RerunHasFile /\ [Next]_vars => RerunHasFile'
  BY RerunFileStep
<1>3. ServiceInv => LeftBounded
  BY LeftIsBounded
<1>4. TMInv /\ ThreadsOK /\ ServiceInv /\ ServiceInv' /\ RerunHasFile
      /\ LeftBounded /\ LeftBounded' /\ [Next]_vars => [LeftStep]_vars
  <2> SUFFICES ASSUME TMInv, ThreadsOK, ServiceInv, ServiceInv', RerunHasFile,
                      LeftBounded, LeftBounded', [Next]_vars
               PROVE  LeftStep
    OBVIOUS
  <2>1. ASSUME NEW h \in HttpThreads
        PROVE  /\ http[h].pc # "idle" => HttpLeft(h)' <= HttpLeft(h)
               /\ HttpThread(h) => HttpLeft(h)' < HttpLeft(h)
    <3>1. PICK m \in 0 .. 12, n \in 0 .. 12 : m = HttpLeft(h) /\ n = HttpLeft(h)'
      BY DEF LeftBounded
    <3>2. HttpThread(h) => n < m
      BY <3>1, HandlerLess
    <3>3. http[h].pc # "idle" /\ ~ HttpThread(h) => n = m
      BY <3>1, HandlerSame
    <3> QED
      BY <3>1, <3>2, <3>3
  <2>2. ASSUME NEW k \in Tasks, taskStatus[k] \in Started
        PROVE  /\ TaskLeft(k)' <= TaskLeft(k)
               /\ StepFor(k) => TaskLeft(k)' < TaskLeft(k)
    <3>1. PICK m \in Nat, n \in Nat : m = TaskLeft(k) /\ n = TaskLeft(k)'
      BY FilesAssumption DEF LeftBounded
    <3>2. StepFor(k) => n < m
      BY <3>1, StepForLess
    <3>3. ~ StepFor(k) => n = m
      BY <2>2, <3>1, OtherStepSame
    <3> QED
      BY <3>1, <3>2, <3>3
  <2> QED
    BY <2>1, <2>2 DEF LeftStep
<1> QED
  BY <1>1, <1>2, <1>3, <1>4, ServiceInvariance, InvarianceInPlugin, PTL DEF Spec

\* A delete that waits may go on, or its task has steps left that bring its
\* end closer: it waits for a bounded number of steps of one task.
WaitIsBounded ==
    \A h \in HttpThreads : proc[h].pc = "wait" =>
        \/ finish[proc[h].task]
        \/ TaskLeft(proc[h].task) \in 1 .. 6 * MaxFiles + 14

\* Nobody waits in WaitTaskFinish for nothing, also when ids are used again:
\* the number of steps it still has to wait for is positive and, by
\* WorkRunsOut, falls with each of them.
THEOREM WaitIsBoundedHolds ==
  ASSUME EarlyEnd = FALSE, RerunMayFail = FALSE
  PROVE  Spec => [](Crashed \/ WaitIsBounded)
<1>1. TMInv /\ ServiceInv /\ EndIsComing => Crashed \/ WaitIsBounded
  <2> SUFFICES ASSUME TMInv, ServiceInv, EndIsComing, ~ Crashed,
                      NEW h \in HttpThreads, proc[h].pc = "wait",
                      ~ finish[proc[h].task]
               PROVE  TaskLeft(proc[h].task) \in 1 .. 6 * MaxFiles + 14
    BY DEF WaitIsBounded
  <2>1. PICK k \in Tasks : k = proc[h].task /\ taskStatus[k] \in Started
    BY WaitTask
  <2>2. Served(k) /\ Woken(k)
    BY EndIsComingParts
  <2>3. PICK n \in 0 .. 6 * MaxFiles + 14 : n = TaskLeft(k)
    BY LeftIsBounded DEF LeftBounded
  <2>4. files[k] \in Nat /\ MaxFiles \in Nat
    BY FilesAssumption DEF ServiceInv, MMTypeOK
  <2>5. CASE engine[k] \in Busy
    BY <2>1, <2>3, <2>4, <2>5 DEF TaskLeft
  <2>6. ASSUME NEW t \in CbThreads, cb[t].task = k,
               cb[t].pc \in {"find", "handle", "delete", "run", "start", "update",
                             "updating", "remove", "setfin"}
        PROVE  n > 0
    <3>1. n = CbLeft(t)
      BY <2>3, <2>6, LeftOfOne DEF OneWorks
    <3> QED
      BY <2>4, <2>6, <3>1 DEF CbLeft
  <2> QED
    BY <2>1, <2>2, <2>3, <2>5, <2>6, FilesAssumption DEF Served, Woken, Started
<1> QED
  BY <1>1, EndIsComingHolds, ServiceInvariance, InvarianceInPlugin, PTL

=============================================================================
