----------------------------- MODULE TaskManager -----------------------------
(***************************************************************************)
(* TaskManager of the modelarts client, driven by two kinds of threads:     *)
(*                                                                         *)
(*  - HTTP threads run RestfulCommunication::MsgProcess, which holds        *)
(*    msg_concurrency_mutex_ from before the handler (create, delete or     *)
(*    query of a task) until after its post-handler;                        *)
(*  - engine threads call UpdateTaskStatus, which takes                     *)
(*    task_group_map_mutex_ only for each single access to the map.         *)
(*                                                                         *)
(* create_func and delete_func (the plugin) and SendMsg (the HTTP client)   *)
(* are open calls: here they return at any time with any result, and a      *)
(* composition conjoins their bodies.  One action is one critical section   *)
(* of task_group_map_mutex_, or one access to a status, so every            *)
(* interleaving the locks of the code allow is a behaviour.                 *)
(***************************************************************************)
EXTENDS ModelArtsTypes

VARIABLES
    taskGroupMap,  \* task_group_map_: id -> group, or Null
    taskStatus,    \* status of the TaskGroup of each create request
    msgLock,       \* holder of msg_concurrency_mutex_, or Null
    http,          \* where each HTTP thread is in MsgProcess
    upd            \* where each engine thread is in UpdateTaskStatus

tmVars == <<taskGroupMap, taskStatus, msgLock, http, upd>>

------------------------------------------------------------------------------
Ops == {"create", "delete", "query"}

\* Program points of MsgProcess with the lock held.
Locked == {"find", "create_func", "status", "delete_func", "detail",
           "report", "send", "notify", "unlock"}

HttpPC == {"idle", "lock"} \cup Locked
Codes  == {0, 200, 201, 202, 400, 404, 500}

\* What a thread holds: an operation, an id, a group, a message, or nothing.
OpOrNone     == Ops \cup {"none"}
IdOrNull     == TaskIds \cup {Null}
TaskOrNull   == Tasks \cup {Null}
StatusOrNull == Status \cup {Null}

Http == [pc : HttpPC, op : OpOrNone, id : IdOrNull, task : TaskOrNull,
         code : Codes, msg : StatusOrNull]

HttpIdle == [pc |-> "idle", op |-> "none", id |-> Null, task |-> Null,
             code |-> 0, msg |-> Null]

UpdPC == {"idle", "find", "set", "report", "send", "erase", "notify"}

Upd == [pc : UpdPC, id : IdOrNull, task : TaskOrNull, to : StatusOrNull,
        msg : StatusOrNull]

UpdIdle == [pc |-> "idle", id |-> Null, task |-> Null, to |-> Null,
            msg |-> Null]

TypeOK ==
    /\ taskGroupMap \in [TaskIds -> TaskOrNull]
    /\ taskStatus \in [Tasks -> Status]
    /\ msgLock \in HttpThreads \cup {Null}
    /\ http \in [HttpThreads -> Http]
    /\ upd \in [CbThreads -> Upd]

TMInit ==
    /\ taskGroupMap = [i \in TaskIds |-> Null]
    /\ taskStatus = [k \in Tasks |-> "NONE"]
    /\ msgLock = Null
    /\ http = [h \in HttpThreads |-> HttpIdle]
    /\ upd = [t \in CbThreads |-> UpdIdle]

------------------------------------------------------------------------------
(* MsgProcess: the request, the lock, the answer                            *)

\* A request arrives whose method has a handler: a create carries a task
\* nothing was made from yet, a delete or a query carries an id.
ReceiveCreate(h, k) ==
    /\ http[h].pc = "idle"
    /\ taskStatus[k] = "NONE"
    /\ \A g \in HttpThreads : http[g].task # k
    /\ http' = [http EXCEPT ![h] = [HttpIdle EXCEPT
                    !.pc = "lock", !.op = "create", !.id = IdOf[k], !.task = k]]
    /\ UNCHANGED <<taskGroupMap, taskStatus, msgLock, upd>>

Receive(h, op, id) ==
    /\ http[h].pc = "idle"
    /\ http' = [http EXCEPT ![h] = [HttpIdle EXCEPT
                    !.pc = "lock", !.op = op, !.id = id]]
    /\ UNCHANGED <<taskGroupMap, taskStatus, msgLock, upd>>

\* Mutant: the handlers run without the lock.
LockMsg_NoMutex(h) ==
    /\ http[h].pc = "lock"
    /\ msgLock' = h
    /\ http' = [http EXCEPT ![h].pc = "find"]
    /\ UNCHANGED <<taskGroupMap, taskStatus, upd>>

\* The lock_guard on msg_concurrency_mutex_ just before the handler call.
LockMsg(h) ==
    /\ http[h].pc = "lock"
    /\ msgLock = Null
    /\ msgLock' = h
    /\ http' = [http EXCEPT ![h].pc = "find"]
    /\ UNCHANGED <<taskGroupMap, taskStatus, upd>>

\* MsgProcess returns: the lock_guard is released, then the answer is sent.
ReturnMsg(h) ==
    /\ http[h].pc = "unlock"
    /\ msgLock' = Null
    /\ http' = [http EXCEPT ![h] = HttpIdle]
    /\ UNCHANGED <<taskGroupMap, taskStatus, upd>>

\* The handler of h has its answer; its post-handler only wakes the heartbeat.
Answer(h, code) ==
    http' = [http EXCEPT ![h].pc = "notify", ![h].code = code]

\* An exception leaves the handler: 500, and the post-handler is skipped.
Throw(h) ==
    /\ http[h].pc \in {"create_func", "delete_func"}
    /\ http' = [http EXCEPT ![h].pc = "unlock", ![h].code = 500]
    /\ UNCHANGED <<taskGroupMap, taskStatus, msgLock, upd>>

------------------------------------------------------------------------------
(* The handlers                                                             *)

FindTask(id) == taskGroupMap[id]

\* Mutant: a listed id is not refused.
CreateTaskGroup_NoCheck(h) ==
    /\ http[h].pc = "find" /\ http[h].op = "create"
    /\ \/ Answer(h, 400) /\ UNCHANGED taskStatus
       \/ /\ taskStatus' = [taskStatus EXCEPT ![http[h].task] = "PENDING"]
          /\ http' = [http EXCEPT ![h].pc = "create_func"]
    /\ UNCHANGED <<taskGroupMap, msgLock, upd>>

\* CreateTaskGroup: parse the body, refuse a listed id, make a PENDING group;
\* CreateTaskProcess then calls create_func.  (Over max_task_num_ it only
\* logs a warning before, so no action depends on the number of tasks.)
CreateTaskGroup(h) ==
    /\ http[h].pc = "find" /\ http[h].op = "create"
    /\ \/ \* Parse failed, or the id is listed.
          /\ Answer(h, 400)
          /\ UNCHANGED taskStatus
       \/ /\ FindTask(http[h].id) = Null
          /\ taskStatus' = [taskStatus EXCEPT ![http[h].task] = "PENDING"]
          /\ http' = [http EXCEPT ![h].pc = "create_func"]
    /\ UNCHANGED <<taskGroupMap, msgLock, upd>>

\* Mutant: the post-handler also runs when create_func has failed.
CreateTaskProcess_ReportsFailure(h, ok) ==
    /\ http[h].pc = "create_func"
    /\ IF ok
         THEN /\ taskStatus' = [taskStatus EXCEPT ![http[h].task] = "RUNNING"]
              /\ taskGroupMap' = [taskGroupMap EXCEPT
                                     ![http[h].id] = http[h].task]
              /\ http' = [http EXCEPT ![h].pc = "report", ![h].code = 201]
         ELSE /\ http' = [http EXCEPT ![h].pc = "report", ![h].code = 500]
              /\ UNCHANGED <<taskGroupMap, taskStatus>>
    /\ UNCHANGED <<msgLock, upd>>

\* create_func returned: on success the group becomes RUNNING and is listed.
\* (The status is stored just before the map is locked; no other thread has
\* the group yet, so nobody can tell the two stores apart.)
CreateTaskProcess(h, ok) ==
    /\ http[h].pc = "create_func"
    /\ IF ok
         THEN /\ taskStatus' = [taskStatus EXCEPT ![http[h].task] = "RUNNING"]
              /\ taskGroupMap' = [taskGroupMap EXCEPT
                                     ![http[h].id] = http[h].task]
              /\ http' = [http EXCEPT ![h].pc = "report", ![h].code = 201]
         ELSE /\ Answer(h, 500)
              /\ UNCHANGED <<taskGroupMap, taskStatus>>
    /\ UNCHANGED <<msgLock, upd>>

\* DeleteTaskProcess looks the group up ...
DeleteFind(h) ==
    /\ http[h].pc = "find" /\ http[h].op = "delete"
    /\ IF FindTask(http[h].id) = Null
         THEN Answer(h, 404)
         ELSE http' = [http EXCEPT ![h].pc = "status",
                                   ![h].task = FindTask(http[h].id)]
    /\ UNCHANGED <<taskGroupMap, taskStatus, msgLock, upd>>

\* ... reads its status, without the map's lock, to choose whether to call
\* delete_func ...
DeleteStatus(h) ==
    /\ http[h].pc = "status"
    /\ IF taskStatus[http[h].task] = "RUNNING"
         THEN http' = [http EXCEPT ![h].pc = "delete_func"]
         ELSE Answer(h, 202)
    /\ UNCHANGED <<taskGroupMap, taskStatus, msgLock, upd>>

\* ... and answers by what delete_func returned.  The map is left alone.
DeleteTaskProcess(h, ok) ==
    /\ http[h].pc = "delete_func"
    /\ Answer(h, IF ok THEN 202 ELSE 500)
    /\ UNCHANGED <<taskGroupMap, taskStatus, msgLock, upd>>

\* QueryTaskProcess: look the group up, then format its status.  Its
\* post-handler does nothing.
QueryFind(h) ==
    /\ http[h].pc = "find" /\ http[h].op = "query"
    /\ IF FindTask(http[h].id) = Null
         THEN http' = [http EXCEPT ![h].pc = "unlock", ![h].code = 404]
         ELSE http' = [http EXCEPT ![h].pc = "detail",
                                   ![h].task = FindTask(http[h].id)]
    /\ UNCHANGED <<taskGroupMap, taskStatus, msgLock, upd>>

QueryDetail(h) ==
    /\ http[h].pc = "detail"
    /\ http' = [http EXCEPT ![h].pc = "unlock", ![h].code = 200,
                            ![h].msg = taskStatus[http[h].task]]
    /\ UNCHANGED <<taskGroupMap, taskStatus, msgLock, upd>>

------------------------------------------------------------------------------
(* The post-handlers                                                        *)

\* CreateTaskPostProcess, SendTaskInfoToMA: the status is read when the
\* message is built; SendMsg may then retry for a long time.
PostReport(h) ==
    /\ http[h].pc = "report"
    /\ http' = [http EXCEPT ![h].pc = "send",
                            ![h].msg = taskStatus[http[h].task]]
    /\ UNCHANGED <<taskGroupMap, taskStatus, msgLock, upd>>

\* SendMsg returned; its result is only logged.
PostSent(h) ==
    /\ http[h].pc = "send"
    /\ http' = [http EXCEPT ![h].pc = "notify"]
    /\ UNCHANGED <<taskGroupMap, taskStatus, msgLock, upd>>

\* SendInstanceInfoToMA at the end of the create and delete post-handlers.
PostNotify(h) ==
    /\ http[h].pc = "notify"
    /\ http' = [http EXCEPT ![h].pc = "unlock"]
    /\ UNCHANGED <<taskGroupMap, taskStatus, msgLock, upd>>

------------------------------------------------------------------------------
(* UpdateTaskStatus, on an engine thread                                    *)

\* Threads between the call and the end of their access to the map.
Updating(t) == upd[t].pc \in {"find", "set", "report", "send", "erase"}

\* The call.  The only caller passes a terminal status, once per task, so two
\* threads are never updating the same id (ModelArtsPlugin checks this).
UpdateCall(t, id, s) ==
    /\ upd[t].pc = "idle"
    /\ \A u \in CbThreads : Updating(u) => upd[u].id # id
    /\ upd' = [upd EXCEPT ![t] = [UpdIdle EXCEPT
                    !.pc = "find", !.id = id, !.to = s]]
    /\ UNCHANGED <<taskGroupMap, taskStatus, msgLock, http>>

\* Mutant: the group is erased as soon as it is found, before its end is set.
UpdateFind_EraseFirst(t) ==
    /\ upd[t].pc = "find"
    /\ IF FindTask(upd[t].id) = Null
         THEN upd' = [upd EXCEPT ![t] = UpdIdle]
         ELSE upd' = [upd EXCEPT ![t].pc = "set",
                                 ![t].task = FindTask(upd[t].id)]
    /\ taskGroupMap' = [taskGroupMap EXCEPT ![upd[t].id] = Null]
    /\ UNCHANGED <<taskStatus, msgLock, http>>

\* FindTask; an unknown id returns STATUS_FAULT at once.
UpdateFind(t) ==
    /\ upd[t].pc = "find"
    /\ IF FindTask(upd[t].id) = Null
         THEN upd' = [upd EXCEPT ![t] = UpdIdle]
         ELSE upd' = [upd EXCEPT ![t].pc = "set",
                                 ![t].task = FindTask(upd[t].id)]
    /\ UNCHANGED <<taskGroupMap, taskStatus, msgLock, http>>

\* Return early when the status is already there, else store it.
UpdateSet(t) ==
    /\ upd[t].pc = "set"
    /\ IF taskStatus[upd[t].task] = upd[t].to
         THEN /\ upd' = [upd EXCEPT ![t] = UpdIdle]
              /\ UNCHANGED taskStatus
         ELSE /\ taskStatus' = [taskStatus EXCEPT ![upd[t].task] = upd[t].to]
              /\ upd' = [upd EXCEPT ![t].pc = "report"]
    /\ UNCHANGED <<taskGroupMap, msgLock, http>>

\* SendTaskInfoToMA: build the message ...
UpdateReport(t) ==
    /\ upd[t].pc = "report"
    /\ upd' = [upd EXCEPT ![t].pc = "send",
                          ![t].msg = taskStatus[upd[t].task]]
    /\ UNCHANGED <<taskGroupMap, taskStatus, msgLock, http>>

\* Mutant: the terminal status does not remove the group.
UpdateSent_NoErase(t) ==
    /\ upd[t].pc = "send"
    /\ upd' = [upd EXCEPT ![t].pc = "notify"]
    /\ UNCHANGED <<taskGroupMap, taskStatus, msgLock, http>>

\* ... and SendMsg returned, whatever its result.
UpdateSent(t) ==
    /\ upd[t].pc = "send"
    /\ upd' = [upd EXCEPT ![t].pc = "erase"]
    /\ UNCHANGED <<taskGroupMap, taskStatus, msgLock, http>>

\* A terminal status removes whatever group the id lists now.
UpdateErase(t) ==
    /\ upd[t].pc = "erase"
    /\ taskGroupMap' = [taskGroupMap EXCEPT ![upd[t].id] = Null]
    /\ upd' = [upd EXCEPT ![t].pc = "notify"]
    /\ UNCHANGED <<taskStatus, msgLock, http>>

\* SendInstanceInfoToMA, and the return.
UpdateNotify(t) ==
    /\ upd[t].pc = "notify"
    /\ upd' = [upd EXCEPT ![t] = UpdIdle]
    /\ UNCHANGED <<taskGroupMap, taskStatus, msgLock, http>>

------------------------------------------------------------------------------
HttpStep(h) ==
    \/ LockMsg(h) \/ ReturnMsg(h) \/ Throw(h)
    \/ CreateTaskGroup(h) \/ (\E ok \in BOOLEAN : CreateTaskProcess(h, ok))
    \/ DeleteFind(h) \/ DeleteStatus(h)
    \/ (\E ok \in BOOLEAN : DeleteTaskProcess(h, ok))
    \/ QueryFind(h) \/ QueryDetail(h)
    \/ PostReport(h) \/ PostSent(h) \/ PostNotify(h)

UpdStep(t) ==
    \/ UpdateFind(t) \/ UpdateSet(t) \/ UpdateReport(t) \/ UpdateSent(t)
    \/ UpdateErase(t) \/ UpdateNotify(t)

Request(h) ==
    \/ \E k \in Tasks : ReceiveCreate(h, k)
    \/ \E op \in {"delete", "query"}, id \in TaskIds : Receive(h, op, id)

TMNext ==
    \/ \E h \in HttpThreads : Request(h) \/ HttpStep(h)
    \/ \E t \in CbThreads :
          \/ \E id \in TaskIds, s \in Terminal : UpdateCall(t, id, s)
          \/ UpdStep(t)

TMSpec == TMInit /\ [][TMNext]_tmVars

------------------------------------------------------------------------------
(* Properties                                                               *)

Started == {"RUNNING"} \cup Terminal

\* msg_concurrency_mutex_ has one holder, and it is inside MsgProcess.
LockInv == \A h \in HttpThreads : http[h].pc \in Locked <=> msgLock = h

\* A listed group was started, and is listed under its own id.
MapInv ==
    \A i \in TaskIds :
        taskGroupMap[i] # Null =>
            /\ IdOf[taskGroupMap[i]] = i
            /\ taskStatus[taskGroupMap[i]] \in Started

\* No running task is lost: while a group is RUNNING its id lists it, so a
\* query or a delete of the id finds it, whatever creates, deletes and
\* updates of the same id overlap.  (UpdateTaskStatus erases by id, and
\* CreateTaskProcess inserts by id, each long after its own FindTask.)
RunningListed ==
    \A k \in Tasks : taskStatus[k] = "RUNNING" => taskGroupMap[IdOf[k]] = k

\* An ended group is on its way out: a thread that has set its status, and is
\* still sending the report, will erase it.  Otherwise the id would answer
\* "already exist" to every later create.
TerminalLeaving ==
    \A i \in TaskIds :
        taskGroupMap[i] # Null /\ taskStatus[taskGroupMap[i]] \in Terminal =>
            \E t \in CbThreads : /\ upd[t].pc \in {"report", "send", "erase"}
                                 /\ upd[t].id = i

\* Creates in progress: each has a task of its own, whose group is not
\* listed, and between CreateTaskGroup and the insertion nothing else gets
\* under its id.
CreateOK(h) ==
    /\ http[h].op = "create" =>
          /\ http[h].task \in Tasks
          /\ http[h].id = IdOf[http[h].task]
    /\ http[h].op = "create" /\ http[h].pc \in {"lock", "find"} =>
          taskStatus[http[h].task] = "NONE"
    /\ http[h].pc = "create_func" =>
          /\ http[h].op = "create"
          /\ taskStatus[http[h].task] = "PENDING"
          /\ taskGroupMap[http[h].id] = Null

OwnTask ==
    \A g, h \in HttpThreads :
        g # h /\ http[g].op = "create" /\ http[h].op = "create" =>
            http[g].task # http[h].task

CreateInv == OwnTask /\ \A h \in HttpThreads : CreateOK(h)

\* The other handlers: what each thread holds at each program point.
HandlerOK(h) ==
    /\ http[h].pc \in {"status", "delete_func", "detail", "report", "send"} =>
          http[h].task \in Tasks /\ taskStatus[http[h].task] \in Started
    /\ http[h].pc \in {"lock", "find"} => http[h].id \in TaskIds
    /\ http[h].pc \in {"status", "delete_func"} => http[h].op = "delete"

HandlerInv == \A h \in HttpThreads : HandlerOK(h)

\* Updates in progress: the group found by FindTask is the one listed until
\* this very thread erases it, and no other thread updates it meanwhile.
UpdateOK(t) ==
    /\ Updating(t) => upd[t].id \in TaskIds /\ upd[t].to \in Terminal
    /\ upd[t].pc \in {"set", "report", "send", "erase"} =>
          /\ upd[t].task \in Tasks
          /\ taskGroupMap[upd[t].id] = upd[t].task
          /\ taskStatus[upd[t].task] =
                IF upd[t].pc = "set" THEN "RUNNING" ELSE upd[t].to

OwnId ==
    \A t, u \in CbThreads :
        t # u /\ Updating(t) /\ Updating(u) => upd[t].id # upd[u].id

UpdateInv == OwnId /\ \A t \in CbThreads : UpdateOK(t)

\* The inductive invariant.
TMInv ==
    /\ TypeOK
    /\ LockInv
    /\ MapInv
    /\ RunningListed
    /\ TerminalLeaving
    /\ CreateInv
    /\ HandlerInv
    /\ UpdateInv

\* A create never replaces a listed group: FindTask in CreateTaskGroup and the
\* insertion in CreateTaskProcess are two critical sections of the map's lock
\* with a call of the plugin between them, and only msg_concurrency_mutex_
\* keeps a second create of the id out.
NoOverwrite ==
    [][\A i \in TaskIds :
          taskGroupMap[i] # Null => taskGroupMap'[i] \in {taskGroupMap[i], Null}
      ]_tmVars

\* A task ends once: a terminal status is never changed, and a RUNNING group
\* never goes back to PENDING.
EndsOnce ==
    [][\A k \in Tasks :
          /\ taskStatus[k] \in Terminal => taskStatus'[k] = taskStatus[k]
          /\ taskStatus[k] = "RUNNING" => taskStatus'[k] \in Started
      ]_tmVars

\* The abstract registry: a group is NEW until it is published.
phaseOf == [k \in Tasks |-> IF taskStatus[k] \in {"NONE", "PENDING"}
                              THEN "NEW" ELSE taskStatus[k]]

Registry == INSTANCE TaskRegistry WITH listed <- taskGroupMap, phase <- phaseOf

\* The task manager implements the registry: seen through the map and the
\* statuses, every step of every thread is an acceptance of a task under a
\* free id, the end of a listed task, the removal of an ended one, or nothing.
ImplementsRegistry == Registry!Spec

=============================================================================
