--------------------------- MODULE ModelArtsPlugin ---------------------------
(***************************************************************************)
(* The task manager and the plugin together.  They call each other:         *)
(* create_func and delete_func run inside CreateTaskProcess and             *)
(* DeleteTaskProcess, with msg_concurrency_mutex_ held; UpdateTaskStatus    *)
(* runs inside the engine's status callback.  A call, and a return, is a    *)
(* step of both components.                                                 *)
(***************************************************************************)
EXTENDS TaskManager, ModelArtsManager

CONSTANT EarlyEnd   \* may an engine task end before its group is listed?

ASSUME EarlyEndAssumption == EarlyEnd \in BOOLEAN

vars == <<tmVars, mmVars>>

Init == TMInit /\ MMInit

------------------------------------------------------------------------------
\* Handler steps in which the plugin takes no part.
HttpOnly(h) ==
    /\ \/ LockMsg(h) \/ ReturnMsg(h) \/ DeleteFind(h)
       \/ QueryFind(h) \/ QueryDetail(h)
       \/ PostReport(h) \/ PostSent(h) \/ PostNotify(h)
    /\ UNCHANGED mmVars

\* CreateTaskProcess enters and leaves create_func.
EnterCreate(h) ==
    /\ CreateTaskGroup(h)
    /\ IF http'[h].pc = "create_func"
         THEN CallCreate(h, http[h].task)
         ELSE UNCHANGED mmVars

LeaveCreate(h) ==
    /\ proc[h].pc = "return"
    /\ CreateTaskProcess(h, proc[h].ok)
    /\ ReturnProc(h)

\* DeleteTaskProcess enters and leaves delete_func.
EnterDelete(h) ==
    /\ DeleteStatus(h)
    /\ IF http'[h].pc = "delete_func"
         THEN CallDelete(h, http[h].id)
         ELSE UNCHANGED mmVars

LeaveDelete(h) ==
    /\ proc[h].pc = "return"
    /\ DeleteTaskProcess(h, proc[h].ok)
    /\ ReturnProc(h)

LeaveByException(h) ==
    /\ proc[h].pc = "throw"
    /\ Throw(h)
    /\ ReturnProc(h)

HttpThread(h) ==
    \/ HttpOnly(h)
    \/ EnterCreate(h) \/ LeaveCreate(h)
    \/ EnterDelete(h) \/ LeaveDelete(h)
    \/ LeaveByException(h)
    \/ ProcStep(h) /\ UNCHANGED tmVars

\* The callback enters UpdateTaskStatus ...
EnterUpdate(t) ==
    /\ CallUpdate(t)
    /\ UpdateCall(t, IdOf[cb[t].task], StatusCode(cb[t].end))

\* ... and leaves it at whichever of its returns comes first.
InUpdate(t) ==
    /\ UpdStep(t)
    /\ IF upd'[t].pc = "idle" THEN UpdateReturned(t) ELSE UNCHANGED mmVars

CbThread(t) ==
    \/ EnterUpdate(t) \/ InUpdate(t)
    \/ CbStep(t) /\ UNCHANGED tmVars

\* An engine task ends.  Unless EarlyEnd, a task outlives the few statements
\* between its Start and the insertion of its group.
EngineTaskEnds(t, k) ==
    /\ EngineEnd(t, k)
    /\ EarlyEnd \/ taskStatus[k] = "RUNNING"
    /\ UNCHANGED tmVars

Next ==
    /\ ~ Crashed
    /\ \/ \E h \in HttpThreads : HttpThread(h)
       \/ \E h \in HttpThreads : Request(h) /\ UNCHANGED mmVars
       \/ \E t \in CbThreads : CbThread(t)
       \/ \E t \in CbThreads, k \in Tasks : EngineTaskEnds(t, k)

\* Threads inside a handler or a callback run on (every SendMsg ends: it has a
\* bounded number of attempts, each with a timeout); a stopped engine task
\* and one whose input is a file end.  Requests need not come, and streams
\* need not end.
EndsByItself(k) == engine[k] = "stopping" \/ k \in FileTasks

Fairness ==
    /\ \A h \in HttpThreads : WF_vars(~ Crashed /\ HttpThread(h))
    /\ \A t \in CbThreads : WF_vars(~ Crashed /\ CbThread(t))
    /\ \A k \in Tasks :
          WF_vars(/\ ~ Crashed /\ EndsByItself(k)
                  /\ \E t \in CbThreads : EngineTaskEnds(t, k))

Spec == Init /\ [][Next]_vars

FairSpec == Spec /\ Fairness

------------------------------------------------------------------------------
(* Properties                                                               *)

\* The two components agree on where each thread is, and each open call of the
\* task manager has a body here: an HTTP thread is in a procedure of the
\* plugin exactly while it is in create_func or delete_func, an engine thread
\* is in UpdateTaskStatus exactly while its callback waits for it.
CallsMatch ==
    /\ MMTypeOK
    /\ \A h \in HttpThreads :
          /\ proc[h].pc # "idle" <=> http[h].pc \in {"create_func", "delete_func"}
          /\ http[h].pc = "create_func" => proc[h].task = http[h].task
    /\ \A t \in CbThreads : upd[t].pc # "idle" <=> cb[t].pc = "updating"

\* What UpdateTaskStatus relies on: two callbacks never report for the same
\* id at the same time, also when an id is used again.
OneReporter ==
    \A t \in CbThreads : cb[t].pc = "update" =>
        \A u \in CbThreads : Updating(u) => upd[u].id # IdOf[cb[t].task]

\* The engine's callback always finds the MATask of the engine task that
\* ended, and nobody stops an MATask without an engine task: each of the two
\* pointers is dereferenced without a check.
NoNullTask == ~ Crashed

\* The two maps agree: a RUNNING group, which the service can see and delete,
\* has its MATask in task_list_map_.
RunningHasMATask ==
    \A k \in Tasks : taskStatus[k] = "RUNNING" => taskListMap[IdOf[k]] = k

\* The other direction: an MATask is in task_list_map_ only while its group is
\* about to be inserted, or is RUNNING, or while the callback that ended
\* the task is still cleaning up.
MATaskHasGroup ==
    \A i \in TaskIds : LET k == taskListMap[i] IN
        k # Null =>
            \/ taskStatus[k] = "RUNNING"
            \/ \E h \in HttpThreads : proc[h].pc = "return" /\ proc[h].task = k
            \/ \E t \in CbThreads : /\ cb[t].task = k
                                    /\ cb[t].pc \in {"updating", "remove",
                                                     "setfin", "erase"}

\* A delete answered 202 means the task has ended: its final status was set
\* before the answer, although the status is read without the map's lock and
\* delete_func may find the end already on its way.  (The group may still be
\* listed: the callback erases it only when its SendMsg has returned.)
DeletedMeansEnded ==
    \A h \in HttpThreads :
        http[h].op = "delete" /\ http[h].code = 202 =>
            taskStatus[http[h].task] \in Terminal

\* Nothing that was started is left to itself: a RUNNING task has an engine
\* task, or a callback that will start its next file or report its end; once it
\* has ended, the delete that may wait in WaitTaskFinish is woken, or a callback
\* is on the way to do so; and such a delete waits only for a task that was
\* started.
EndIsComing ==
    Crashed \/
    /\ \A k \in Tasks :
          /\ taskStatus[k] = "RUNNING" =>
                \/ engine[k] \in {"running", "stopping"}
                \/ \E t \in CbThreads :
                      /\ cb[t].task = k
                      /\ cb[t].pc \in {"find", "handle", "delete", "run", "start",
                                      "update", "updating"}
          /\ taskStatus[k] \in Terminal =>
                \/ finish[k]
                \/ \E t \in CbThreads :
                      /\ cb[t].task = k
                      /\ cb[t].pc \in {"updating", "remove", "setfin"}
    /\ \A h \in HttpThreads :
          proc[h].pc = "wait" => taskStatus[proc[h].task] \in Started

\* An engine task runs only for a task the service was told of, or whose
\* create is not answered yet: a create answered 400 or 500 leaves nothing
\* running, and a task reported ended has stopped running.
RunningIsKnown ==
    \A k \in Tasks : engine[k] \in {"running", "stopping"} =>
        \/ taskStatus[k] = "RUNNING"
        \/ \E h \in HttpThreads : /\ http[h].pc = "create_func"
                                  /\ http[h].task = k

\* A task is ended by the callback of its own engine task, and by nobody else,
\* with the status that this end stands for: UpdateTaskStatus is given only an
\* id, which may be in use again by the time it looks the group up.
EndIsOwn ==
    [][\A k \in Tasks :
          taskStatus'[k] # taskStatus[k] /\ taskStatus'[k] \in Terminal =>
              \E t \in CbThreads :
                  /\ cb[t].pc = "updating" /\ cb[t].task = k
                  /\ taskStatus'[k] = StatusCode(cb[t].end)]_vars

\* delete_func never misses a task that is still RUNNING.
DeleteFindsTask ==
    \A h \in HttpThreads :
        proc[h].pc = "find" /\ taskStatus[http[h].task] = "RUNNING" =>
            taskListMap[proc[h].id] # Null

\* No handler keeps msg_concurrency_mutex_ for ever: every other request
\* waits for it.  delete_func waits, with the lock held, for a callback that
\* itself never needs the lock.
LockReleased ==
    \A h \in HttpThreads : msgLock = h ~> msgLock # h \/ Crashed

\* A task that ended leaves both maps, so its id can be used again.
EndedForgotten ==
    \A k \in Tasks : taskStatus[k] \in Terminal ~>
        \/ \A i \in TaskIds : taskGroupMap[i] # k /\ taskListMap[i] # k
        \/ Crashed

\* A file task that was accepted is in the end reported ended, whatever the
\* number of files in its directory.
FileTaskEnds ==
    \A k \in FileTasks :
        taskStatus[k] = "RUNNING" ~> taskStatus[k] \in Terminal \/ Crashed

------------------------------------------------------------------------------
(* The abstract service                                                     *)

Busy == {"running", "stopping"}

Creating(k) == \E h \in HttpThreads : /\ http[h].pc = "create_func"
                                      /\ http[h].task = k

\* A task that ended is forgotten when it is in neither map.
Remembered(k) == taskGroupMap[IdOf[k]] = k \/ taskListMap[IdOf[k]] = k

LifeOf(k) ==
    CASE taskStatus[k] = "RUNNING"  -> "running"
      [] taskStatus[k] \in Terminal ->
            IF Remembered(k) THEN "ended" ELSE "forgotten"
      [] taskStatus[k] = "PENDING"  -> IF Creating(k) THEN "new" ELSE "refused"
      [] OTHER                      -> "new"

Confirming(h) == http[h].op = "delete" /\ http[h].code = 202

lifeOf == [k \in Tasks |-> LifeOf(k)]
busyOf == {k \in Tasks : engine[k] \in Busy}
confirmedOf == [h \in HttpThreads |-> IF Confirming(h) THEN http[h].task ELSE Null]

Service == INSTANCE TaskService WITH
    Threads <- HttpThreads, None <- Null,
    life <- lifeOf, busy <- busyOf, confirmed <- confirmedOf

\* Task manager, plugin and engine together implement the abstract service:
\* the registry, the engine tasks and the answers of deletes, three pieces of
\* state that three kinds of threads change, fit together at every step.
ImplementsService == Service!Spec

------------------------------------------------------------------------------
(* Why it does: an inductive invariant.  Much of it is true also when engine *)
(* tasks end before their group is listed; the rest says so (EarlyEnd).      *)

\* The engine task of a create has been started.
Occupied(h) == proc[h].pc = "insert" \/ (proc[h].pc = "return" /\ proc[h].ok)

\* The engine task of k, whose group is not listed yet, may have ended.
Arriving(k) ==
    EarlyEnd /\ \E h \in HttpThreads :
        http[h].pc = "create_func" /\ http[h].task = k /\ Occupied(h)

\* A task a callback may work for, and one whose callback is done with it; the
\* latter has ended, unless UpdateTaskStatus did not find its group.
Alive(k) == taskStatus[k] = "RUNNING" \/ Arriving(k)
Over(k)  == taskStatus[k] \in Terminal \/ (EarlyEnd /\ Alive(k))

\* create_func works for the task of the request, and its engine task runs
\* from Start to the end of the create, unless the create fails.
InCreate(h) ==
    http[h].pc = "create_func" =>
        /\ proc[h].pc \in {"init", "run", "start", "insert", "return", "throw"}
        /\ proc[h].task = http[h].task /\ proc[h].id = http[h].id
        /\ engine[http[h].task] \in Busy => Occupied(h)
        /\ Occupied(h) => EarlyEnd \/ engine[http[h].task] \in Busy
        /\ proc[h].pc = "return" /\ proc[h].ok =>
              taskListMap[http[h].id] \in {http[h].task, Null}

\* delete_func finds the MATask of the group DeleteTaskProcess has found, or
\* none, and says yes only when that group has ended.
InDelete(h) ==
    /\ http[h].pc \in {"status", "delete_func"} =>
          /\ http[h].id \in TaskIds
          /\ taskListMap[http[h].id] \in {http[h].task, Null}
    /\ http[h].pc = "delete_func" =>
          /\ proc[h].pc \in {"find", "stop", "wait", "return", "crash"}
          /\ proc[h].id = http[h].id
          /\ proc[h].pc \in {"stop", "wait"} => proc[h].task = http[h].task
          /\ proc[h].pc = "return" /\ proc[h].ok =>
                EarlyEnd \/ taskStatus[http[h].task] \in Terminal

\* Elsewhere a thread is in no procedure of the plugin, and a delete that was
\* answered 202 has found its group ended.
AnswerOK(h) ==
    /\ http[h].pc \notin {"create_func", "delete_func"} => proc[h].pc = "idle"
    /\ http[h].pc \in {"lock", "find", "create_func", "status", "delete_func"} =>
          http[h].code = 0
    /\ Confirming(h) => /\ http[h].pc \in {"notify", "unlock"}
                        /\ http[h].task \in Tasks
                        /\ EarlyEnd \/ taskStatus[http[h].task] \in Terminal

ProcInv == \A h \in HttpThreads : InCreate(h) /\ InDelete(h) /\ AnswerOK(h)

\* A callback works for a task of its own, whose engine task is at rest, and
\* which is alive until UpdateTaskStatus has set its end.
CbOK(t) ==
    /\ upd[t].pc # "idle" <=> cb[t].pc = "updating"
    /\ cb[t].pc # "idle" =>
          cb[t].task \in Tasks /\ engine[cb[t].task] \notin Busy
    /\ cb[t].pc \in {"find", "handle", "delete", "run", "start", "update"} =>
          Alive(cb[t].task)
    /\ cb[t].pc = "updating" =>
          /\ Updating(t) => upd[t].id = IdOf[cb[t].task]
          /\ IF upd[t].pc = "find" THEN Alive(cb[t].task)
             ELSE taskStatus[cb[t].task] \in
                     IF upd[t].pc = "set" THEN {"RUNNING"} ELSE Terminal
    /\ cb[t].pc \in {"remove", "setfin", "erase"} => Over(cb[t].task)

OwnEngineTask ==
    \A t, u \in CbThreads :
        t # u /\ cb[t].pc # "idle" /\ cb[u].pc # "idle" => cb[t].task # cb[u].task

CbInv == OwnEngineTask /\ \A t \in CbThreads : CbOK(t)

\* The two maps never list different tasks under an id.
MapsAgree ==
    \A i \in TaskIds :
        /\ taskListMap[i] # Null => IdOf[taskListMap[i]] = i
        /\ taskGroupMap[i] # Null => taskListMap[i] \in {taskGroupMap[i], Null}

\* RunningIsKnown, and a task whose end a delete may wait for has ended.
EngineInv ==
    /\ RunningIsKnown
    /\ \A k \in Tasks : finish[k] => EarlyEnd \/ taskStatus[k] \in Terminal

\* Two components, three kinds of threads: what each holds of the others.
\* With TMInv it is inductive.
ServiceInv == MMTypeOK /\ ProcInv /\ CbInv /\ MapsAgree /\ EngineInv

=============================================================================
