-------------------------- MODULE ModelArtsManager --------------------------
(***************************************************************************)
(* ModelArtsManager and MATask of the plugin: create_func and delete_func   *)
(* of the task manager, and the status callback of the modelbox engine.     *)
(*                                                                         *)
(* Three parties meet here: an HTTP thread inside CreateTaskProc or         *)
(* DeleteTaskProc, engine threads inside ModelBoxTaskStatusCallBack, and    *)
(* the engine task itself, which ends by its own or because it is stopped.  *)
(* The engine is external: what it may do is taken from how MATask calls    *)
(* it.  task_list_map_mutex_ covers each single access to task_list_map_;   *)
(* an action is one such critical section, or one call of the engine.       *)
(***************************************************************************)
EXTENDS ModelArtsTypes, Naturals

CONSTANTS
    FileTasks,     \* tasks whose input ends by itself (a file, not a stream)
    DirTasks,      \* file tasks whose obs path is a directory of files
    MaxFiles,      \* bound on the files in a directory
    RerunMayFail   \* may the Run for the next file of a directory fail?

ASSUME FilesAssumption ==
    /\ DirTasks \subseteq FileTasks
    /\ FileTasks \subseteq Tasks
    /\ MaxFiles \in Nat
    /\ RerunMayFail \in BOOLEAN

VARIABLES
    taskListMap,  \* task_list_map_: id -> MATask, or Null
    files,        \* length of the MATask's input_path_list_
    engine,       \* state of the engine task in the MATask's modelbox_task_
    finish,       \* the MATask's is_finish_
    proc,         \* where each HTTP thread is in CreateTaskProc, DeleteTaskProc
    cb            \* where each engine thread is in the status callback

mmVars == <<taskListMap, files, engine, finish, proc, cb>>

------------------------------------------------------------------------------
\* "null" is modelbox_task_ == nullptr; "ended" is an engine task whose
\* callback is due or running; "deleted" is one removed by DeleteTaskById.
EngineStates == {"null", "created", "running", "stopping", "ended", "deleted"}

\* modelbox::TaskStatus values that end an engine task.
EngineEnds == {"FINISHED", "STOPPED", "ABNORMAL"}

ProcPC == {"idle", "init", "run", "start", "insert",
           "find", "stop", "wait", "return", "throw", "crash"}

TaskOrNone == Tasks \cup {Null}

Proc == [pc : ProcPC, task : TaskOrNone, id : TaskIds \cup {Null},
         ok : BOOLEAN]

ProcIdle == [pc |-> "idle", task |-> Null, id |-> Null, ok |-> FALSE]

CbPC == {"idle", "find", "handle", "delete", "run", "start", "update",
         "updating", "remove", "setfin", "erase", "crash"}

Cb == [pc : CbPC, task : TaskOrNone, end : EngineEnds \cup {Null}]

CbIdle == [pc |-> "idle", task |-> Null, end |-> Null]

MMTypeOK ==
    /\ taskListMap \in [TaskIds -> TaskOrNone]
    /\ files \in [Tasks -> 0 .. MaxFiles]
    /\ engine \in [Tasks -> EngineStates]
    /\ finish \in [Tasks -> BOOLEAN]
    /\ proc \in [HttpThreads -> Proc]
    /\ cb \in [CbThreads -> Cb]

MMInit ==
    /\ taskListMap = [i \in TaskIds |-> Null]
    /\ files = [k \in Tasks |-> 0]
    /\ engine = [k \in Tasks |-> "null"]
    /\ finish = [k \in Tasks |-> FALSE]
    /\ proc = [h \in HttpThreads |-> ProcIdle]
    /\ cb = [t \in CbThreads |-> CbIdle]

------------------------------------------------------------------------------
(* CreateTaskProc                                                           *)

CallCreate(h, k) ==
    /\ proc[h].pc = "idle"
    /\ proc' = [proc EXCEPT ![h] = [ProcIdle EXCEPT
                    !.pc = "init", !.task = k, !.id = IdOf[k]]]
    /\ UNCHANGED <<taskListMap, files, engine, finish, cb>>

\* The procedure of h is left with result ok.
Return(h, ok) == proc' = [proc EXCEPT ![h].pc = "return", ![h].ok = ok]

\* MATask::Init: a directory is listed once, here; listing it may fail, and
\* an empty list is a failure too.
MATaskInit(h) ==
    /\ proc[h].pc = "init"
    /\ LET k == proc[h].task IN
       \/ /\ k \in DirTasks
          /\ Return(h, FALSE)
          /\ UNCHANGED files
       \/ /\ k \in DirTasks
          /\ \E n \in 1 .. MaxFiles : files' = [files EXCEPT ![k] = n]
          /\ proc' = [proc EXCEPT ![h].pc = "run"]
       \/ /\ k \notin DirTasks
          /\ proc' = [proc EXCEPT ![h].pc = "run"]
          /\ UNCHANGED files
    /\ UNCHANGED <<taskListMap, engine, finish, cb>>

\* FillObsInputInfo takes one path off the list when there is one.
PopFile(k) == files' = [files EXCEPT ![k] = IF @ = 0 THEN 0 ELSE @ - 1]

\* MATask::Run up to PreProcess succeeds: a new engine task with its input.
NewEngineTask(k) ==
    /\ engine' = [engine EXCEPT ![k] = "created"]
    /\ PopFile(k)

\* MATask::Run gives up: CreateTask returned null, or PreProcess failed after
\* the file was taken; the engine task it made is left behind.
RunFails(k) ==
    \/ /\ engine' = [engine EXCEPT ![k] = "null"]
       /\ UNCHANGED files
    \/ NewEngineTask(k)

\* MATask::Run in CreateTaskProc, up to Start.
RunInCreate(h) ==
    /\ proc[h].pc = "run"
    /\ \/ /\ NewEngineTask(proc[h].task)
          /\ proc' = [proc EXCEPT ![h].pc = "start"]
       \/ RunFails(proc[h].task) /\ Return(h, FALSE)
       \/ \* dump of the input description throws
          /\ NewEngineTask(proc[h].task)
          /\ proc' = [proc EXCEPT ![h].pc = "throw"]
    /\ UNCHANGED <<taskListMap, finish, cb>>

\* Mutant: CreateTaskProc reports a failed Start as a failure of the request
\* although the engine task runs.
StartInCreate_LeakRunning(h) ==
    /\ proc[h].pc = "start"
    /\ engine' = [engine EXCEPT ![proc[h].task] = "running"]
    /\ \/ proc' = [proc EXCEPT ![h].pc = "insert"]
       \/ Return(h, FALSE)
    /\ UNCHANGED <<taskListMap, files, finish, cb>>

\* modelbox_task_->Start() in CreateTaskProc: from here on the engine task can
\* end, and its callback come, before the MATask is in task_list_map_.
StartInCreate(h) ==
    /\ proc[h].pc = "start"
    /\ \/ /\ engine' = [engine EXCEPT ![proc[h].task] = "running"]
          /\ proc' = [proc EXCEPT ![h].pc = "insert"]
       \/ Return(h, FALSE) /\ UNCHANGED engine
    /\ UNCHANGED <<taskListMap, files, finish, cb>>

\* Mutant: the MATask is not kept.
InsertTask_NotKept(h) ==
    /\ proc[h].pc = "insert"
    /\ Return(h, TRUE)
    /\ UNCHANGED <<taskListMap, files, engine, finish, cb>>

InsertTask(h) ==
    /\ proc[h].pc = "insert"
    /\ taskListMap' = [taskListMap EXCEPT ![proc[h].id] = proc[h].task]
    /\ Return(h, TRUE)
    /\ UNCHANGED <<files, engine, finish, cb>>

\* The result, or the exception, reaches the caller.
ReturnProc(h) ==
    /\ proc[h].pc \in {"return", "throw"}
    /\ proc' = [proc EXCEPT ![h] = ProcIdle]
    /\ UNCHANGED <<taskListMap, files, engine, finish, cb>>

------------------------------------------------------------------------------
(* DeleteTaskProc                                                           *)

CallDelete(h, id) ==
    /\ proc[h].pc = "idle"
    /\ proc' = [proc EXCEPT ![h] = [ProcIdle EXCEPT !.pc = "find", !.id = id]]
    /\ UNCHANGED <<taskListMap, files, engine, finish, cb>>

FindTaskByMaTaskId(h) ==
    /\ proc[h].pc = "find"
    /\ IF taskListMap[proc[h].id] = Null
         THEN Return(h, FALSE)
         ELSE proc' = [proc EXCEPT ![h].pc = "stop",
                                   ![h].task = taskListMap[proc[h].id]]
    /\ UNCHANGED <<taskListMap, files, engine, finish, cb>>

\* MATask::Stop dereferences modelbox_task_.  Stopping a running engine task
\* makes it end; on any other the engine may answer either way, and nothing
\* happens, even when the callback is about to start the next file.
StopTask(h) ==
    /\ proc[h].pc = "stop"
    /\ LET k == proc[h].task IN
       \/ /\ engine[k] = "null"
          /\ proc' = [proc EXCEPT ![h].pc = "crash"]
          /\ UNCHANGED engine
       \/ /\ engine[k] = "running"
          /\ engine' = [engine EXCEPT ![k] = "stopping"]
          /\ proc' = [proc EXCEPT ![h].pc = "wait"]
       \/ /\ engine[k] # "null"
          /\ Return(h, FALSE)
          /\ UNCHANGED engine
       \/ /\ engine[k] \notin {"null", "running"}
          /\ proc' = [proc EXCEPT ![h].pc = "wait"]
          /\ UNCHANGED engine
    /\ UNCHANGED <<taskListMap, files, finish, cb>>

\* Mutant: delete_func does not wait for the end of the task.
WaitTaskFinish_NoWait(h) ==
    /\ proc[h].pc = "wait"
    /\ Return(h, TRUE)
    /\ UNCHANGED <<taskListMap, files, engine, finish, cb>>

\* WaitTaskFinish: no timeout.
WaitTaskFinish(h) ==
    /\ proc[h].pc = "wait"
    /\ finish[proc[h].task]
    /\ Return(h, TRUE)
    /\ UNCHANGED <<taskListMap, files, engine, finish, cb>>

------------------------------------------------------------------------------
(* The engine, and ModelBoxTaskStatusCallBack on one of its threads         *)

\* An engine task ends; thread t will run the callback.
EngineEnd(t, k) ==
    /\ cb[t].pc = "idle"
    /\ \/ engine[k] = "running"  /\ \E e \in {"FINISHED", "ABNORMAL"} :
             cb' = [cb EXCEPT ![t] = [pc |-> "find", task |-> k, end |-> e]]
       \/ engine[k] = "stopping" /\ \E e \in {"STOPPED", "ABNORMAL"} :
             cb' = [cb EXCEPT ![t] = [pc |-> "find", task |-> k, end |-> e]]
    /\ engine' = [engine EXCEPT ![k] = "ended"]
    /\ UNCHANGED <<taskListMap, files, finish, proc>>

\* An entry without an engine task ends the search, so it can hide another.
SearchBlocked ==
    \E i \in TaskIds : /\ taskListMap[i] # Null
                       /\ engine[taskListMap[i]] = "null"

\* FindTaskByModelboxTaskId; a null result is dereferenced.
FindTaskByModelboxTaskId(t) ==
    /\ cb[t].pc = "find"
    /\ LET listed == taskListMap[IdOf[cb[t].task]] = cb[t].task IN
       \/ /\ listed
          /\ cb' = [cb EXCEPT ![t].pc = "handle"]
       \/ /\ ~ listed \/ SearchBlocked
          /\ cb' = [cb EXCEPT ![t].pc = "crash"]
    /\ UNCHANGED <<taskListMap, files, engine, finish, proc>>

\* Mutant: the callback cleans up without UpdateTaskStatus.
HandleEnd_NoUpdate(t) ==
    /\ cb[t].pc = "handle"
    /\ IF cb[t].end = "FINISHED" /\ files[cb[t].task] > 0
         THEN cb' = [cb EXCEPT ![t].pc = "delete"]
         ELSE cb' = [cb EXCEPT ![t].pc = "remove"]
    /\ UNCHANGED <<taskListMap, files, engine, finish, proc>>

\* The switch on the status; TaskCanFinish is "no file is left".
HandleEnd(t) ==
    /\ cb[t].pc = "handle"
    /\ IF cb[t].end = "FINISHED" /\ files[cb[t].task] > 0
         THEN cb' = [cb EXCEPT ![t].pc = "delete"]
         ELSE cb' = [cb EXCEPT ![t].pc = "update"]
    /\ UNCHANGED <<taskListMap, files, engine, finish, proc>>

\* More files: MATask::Delete ...
DeleteForRerun(t) ==
    /\ cb[t].pc = "delete"
    /\ engine' = [engine EXCEPT ![cb[t].task] = "deleted"]
    /\ cb' = [cb EXCEPT ![t].pc = "run"]
    /\ UNCHANGED <<taskListMap, files, finish, proc>>

\* ... and MATask::Run again.  Its result is ignored: after a failure the
\* callback just returns.
RunInCallback(t) ==
    /\ cb[t].pc = "run"
    /\ \/ /\ NewEngineTask(cb[t].task)
          /\ cb' = [cb EXCEPT ![t].pc = "start"]
       \/ /\ RerunMayFail
          /\ RunFails(cb[t].task)
          /\ cb' = [cb EXCEPT ![t] = CbIdle]
    /\ UNCHANGED <<taskListMap, finish, proc>>

\* Mutant: the next file is prepared but its engine task is not started.
StartInCallback_Forgotten(t) ==
    /\ cb[t].pc = "start"
    /\ cb' = [cb EXCEPT ![t] = CbIdle]
    /\ UNCHANGED <<taskListMap, files, engine, finish, proc>>

StartInCallback(t) ==
    /\ cb[t].pc = "start"
    /\ \/ engine' = [engine EXCEPT ![cb[t].task] = "running"]
       \/ RerunMayFail /\ UNCHANGED engine
    /\ cb' = [cb EXCEPT ![t] = CbIdle]
    /\ UNCHANGED <<taskListMap, files, finish, proc>>

\* The final status the callback reports.
StatusCode(end) == IF end = "ABNORMAL" THEN "FAILED" ELSE "SUCCEEDED"

\* Mutant: the callback does not wait for UpdateTaskStatus.
CallUpdate_NoWait(t) ==
    /\ cb[t].pc = "update"
    /\ cb' = [cb EXCEPT ![t].pc = "remove"]
    /\ UNCHANGED <<taskListMap, files, engine, finish, proc>>

\* No file is left, or the task was stopped or failed: UpdateTaskStatus ...
CallUpdate(t) ==
    /\ cb[t].pc = "update"
    /\ cb' = [cb EXCEPT ![t].pc = "updating"]
    /\ UNCHANGED <<taskListMap, files, engine, finish, proc>>

\* ... which returned, with a result nobody looks at ...
UpdateReturned(t) ==
    /\ cb[t].pc = "updating"
    /\ cb' = [cb EXCEPT ![t].pc = "remove"]
    /\ UNCHANGED <<taskListMap, files, engine, finish, proc>>

\* ... MATask::Delete ...
RemoveEngineTask(t) ==
    /\ cb[t].pc = "remove"
    /\ engine' = [engine EXCEPT ![cb[t].task] = "deleted"]
    /\ cb' = [cb EXCEPT ![t].pc = "setfin"]
    /\ UNCHANGED <<taskListMap, files, finish, proc>>

\* Mutant: the waiting delete is not woken.
SetTaskFinishStatus_Missing(t) ==
    /\ cb[t].pc = "setfin"
    /\ cb' = [cb EXCEPT ![t].pc = "erase"]
    /\ UNCHANGED <<taskListMap, files, engine, finish, proc>>

\* ... SetTaskFinishStatus, which lets DeleteTaskProc return ...
SetTaskFinishStatus(t) ==
    /\ cb[t].pc = "setfin"
    /\ finish' = [finish EXCEPT ![cb[t].task] = TRUE]
    /\ cb' = [cb EXCEPT ![t].pc = "erase"]
    /\ UNCHANGED <<taskListMap, files, engine, proc>>

\* Mutant: the MATask stays in the map.
EraseTask_Missing(t) ==
    /\ cb[t].pc = "erase"
    /\ cb' = [cb EXCEPT ![t] = CbIdle]
    /\ UNCHANGED <<taskListMap, files, engine, finish, proc>>

\* ... and the entry of the id is erased, whatever MATask it holds by now.
EraseTask(t) ==
    /\ cb[t].pc = "erase"
    /\ taskListMap' = [taskListMap EXCEPT ![IdOf[cb[t].task]] = Null]
    /\ cb' = [cb EXCEPT ![t] = CbIdle]
    /\ UNCHANGED <<files, engine, finish, proc>>

------------------------------------------------------------------------------
\* The steps of this component between its calls to and from the task manager.
ProcStep(h) ==
    \/ MATaskInit(h) \/ RunInCreate(h) \/ StartInCreate(h) \/ InsertTask(h)
    \/ FindTaskByMaTaskId(h) \/ StopTask(h) \/ WaitTaskFinish(h)

CbStep(t) ==
    \/ FindTaskByModelboxTaskId(t) \/ HandleEnd(t)
    \/ DeleteForRerun(t) \/ RunInCallback(t) \/ StartInCallback(t)
    \/ RemoveEngineTask(t) \/ SetTaskFinishStatus(t) \/ EraseTask(t)

\* A null pointer was dereferenced: the process is gone.
Crashed ==
    \/ \E h \in HttpThreads : proc[h].pc = "crash"
    \/ \E t \in CbThreads : cb[t].pc = "crash"

=============================================================================
