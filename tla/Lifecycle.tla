------------------------------ MODULE Lifecycle ------------------------------
(***************************************************************************)
(* Init, Start and Stop of the plugin, which the host calls one after the   *)
(* other on one thread.  Each of them walks through the parts of the system *)
(* in a fixed order and gives up at the first part that fails.  Around it,  *)
(* from the moment the HTTP server listens until it is closed, requests are *)
(* handled, engine tasks run, and the heartbeat thread sends its messages.  *)
(*                                                                         *)
(* What the handlers and callbacks do in detail is in TaskManager and       *)
(* ModelArtsManager; here a create may start an engine task, the callback   *)
(* of a directory's file starts the next one, and a delete waits for the    *)
(* end.  A create is one step, so its task is listed when the engine task   *)
(* runs.  The engine, the HTTP server and the host are external.            *)
(***************************************************************************)
EXTENDS HeartBeat, Naturals, Sequences

CONSTANTS
    FileTasks,   \* tasks whose input ends by itself (a file, not a stream)
    DirTasks,    \* file tasks whose obs path is a directory of files
    MaxNext      \* bound on the files in a directory behind its first

ASSUME LifecycleAssumption ==
    DirTasks \subseteq FileTasks /\ FileTasks \subseteq Tasks /\ MaxNext \in Nat

VARIABLES
    main,        \* where the host's thread is
    made,        \* the steps of Init, Start and Stop that are done
    handler,     \* what each HTTP thread handles
    engineTask,  \* the engine task of each create request, and its callback
    files        \* the files each create request has left

taskVars == <<engineTask, files>>
lcVars == <<main, made, handler, taskVars>>
vars == <<hbVars, lcVars>>

------------------------------------------------------------------------------
(* The order of the steps                                                   *)

\* The HTTP server object; then the message handlers and the checks of
\* instance_id_ and max_task_num_.
RestfulInit == <<"server">>
TaskManagerInit == <<"handlers", "limits">>

ClientInit == <<"config", "cipher", "communication">>
                  \o RestfulInit \o TaskManagerInit

\* Mutant: create_func and delete_func are not registered.
ManagerInit_NoCallbacks == ClientInit \o <<"graph", "job", "engine", "iam">>

ManagerInit == ClientInit \o <<"graph", "job", "engine", "callbacks", "iam">>

\* The server listens before the heartbeat thread is started.
ClientStart == <<"listen", "beat">>

\* Mutant: the client is started before the job and the engine.
ManagerStart_ClientFirst == ClientStart \o <<"build", "run", "engine_start">>

ManagerStart == <<"build", "run", "engine_start">> \o ClientStart

\* The heartbeat is stopped before the server, both before the engine.
ClientStop == <<"beat_stop", "close">>

\* Mutant: the engine is stopped before the client.
ManagerStop_EngineFirst == <<"engine_stop">> \o ClientStop

ManagerStop == ClientStop \o <<"engine_stop">>

\* Each call of the host, and the phase it leads to.
Script == [init |-> ManagerInit, start |-> ManagerStart, stop |-> ManagerStop]
After == [init |-> "inited", start |-> "started", stop |-> "stopped"]

\* Steps that return nothing, whose result is ignored, or that always succeed.
CannotFail == {"handlers", "callbacks", "run", "listen", "beat"}

\* The steps that do more than to make a part, each an action of its own.
Special == {"beat", "beat_stop", "close", "engine_stop"}

Running == main.phase \in DOMAIN Script
Current == IF Running THEN Script[main.phase][main.at] ELSE "none"

------------------------------------------------------------------------------
HandlerIdle == [pc |-> "idle", task |-> Null]

\* Behind "stopping" is what the callback is about to do: start the "next"
\* file, report the end ("ended"), or set is_finish_ ("reported"), after which
\* the task is "gone".  It is "left" when the next file could not be started.
EngineTaskStates == {"none", "running", "stopping",
                     "next", "ended", "reported", "gone", "left"}

\* The engine works for the task.
Busy(k) == engineTask[k] \in {"running", "stopping"}

LCTypeOK ==
    /\ HBTypeOK
    /\ main \in [phase : {"init", "inited", "start", "started",
                          "stop", "stopped", "failed"}, at : 1 .. 20]
    /\ handler \in [HttpThreads -> [pc : {"idle", "create", "delete", "wait",
                                          "notify"}, task : Tasks \cup {Null}]]
    /\ engineTask \in [Tasks -> EngineTaskStates]
    /\ files \in [Tasks -> 0 .. MaxNext]

\* No heartbeat thread exists: it is as if it had ended.
Init ==
    /\ stop = FALSE /\ update = FALSE /\ stopper = "idle"
    /\ hb = [pc |-> "done", info |-> NoInfo]
    /\ main = [phase |-> "init", at |-> 1]
    /\ made = {}
    /\ handler = [h \in HttpThreads |-> HandlerIdle]
    /\ engineTask = [k \in Tasks |-> "none"]
    /\ files = [k \in Tasks |-> 0]

\* The current step succeeded: go on to the next, or return from the call.
Advance ==
    /\ made' = made \cup {Current}
    /\ main' = IF main.at < Len(Script[main.phase])
                 THEN [main EXCEPT !.at = @ + 1]
                 ELSE [phase |-> After[main.phase], at |-> 1]

MakePart ==
    /\ Running /\ Current \notin Special
    /\ Advance
    /\ UNCHANGED <<hbVars, handler, taskVars>>

\* A part fails: the call returns false and nothing is undone.
PartFails ==
    /\ Running /\ Current \notin Special \cup CannotFail
    /\ main' = [main EXCEPT !.phase = "failed"]
    /\ UNCHANGED <<hbVars, made, handler, taskVars>>

\* StartInstanceHeartBeatThread; a request may have set update_ by now.
StartInstanceHeartBeatThread ==
    /\ Current = "beat"
    /\ stop' = FALSE
    /\ hb' = [hb EXCEPT !.pc = "loop"]
    /\ Advance
    /\ UNCHANGED <<update, stopper, handler, taskVars>>

StopBeat ==
    /\ Current = "beat_stop"
    /\ \/ StopCall /\ UNCHANGED <<main, made>>
       \/ Joined /\ Advance
    /\ UNCHANGED <<handler, taskVars>>

\* server_->Stop() returns when no handler runs.
CloseServer ==
    /\ Current = "close"
    /\ \A h \in HttpThreads : handler[h].pc = "idle"
    /\ Advance
    /\ UNCHANGED <<hbVars, handler, taskVars>>

\* modelbox_task_manager_->Stop() returns when no engine task is running.  It
\* is not known to refuse the tasks that a callback creates afterwards.
StopEngine ==
    /\ Current = "engine_stop"
    /\ \A k \in Tasks : ~ Busy(k)
    /\ Advance
    /\ UNCHANGED <<hbVars, handler, taskVars>>

MainStep ==
    \/ MakePart \/ StartInstanceHeartBeatThread
    \/ StopBeat \/ CloseServer \/ StopEngine

\* The host calls Start after Init, and Stop when it likes after Start.
HostCalls ==
    /\ \/ main.phase = "inited"  /\ main' = [main EXCEPT !.phase = "start"]
       \/ main.phase = "started" /\ main' = [main EXCEPT !.phase = "stop"]
    /\ UNCHANGED <<hbVars, made, handler, taskVars>>

------------------------------------------------------------------------------
(* Requests, engine tasks and the heartbeat meanwhile                       *)

Listening == "listen" \in made /\ "close" \notin made /\ Current # "close"

Accept(h) ==
    /\ Listening /\ handler[h].pc = "idle"
    /\ \E op \in {"create", "delete"}, k \in Tasks :
          /\ op = "create" <=> engineTask[k] = "none"
          /\ \A g \in HttpThreads : handler[g].task # k
          /\ handler' = [handler EXCEPT ![h] = [pc |-> op, task |-> k]]
    /\ UNCHANGED <<hbVars, main, made, taskVars>>

\* create_func: an engine task is started, with the first of a directory's
\* files, or it is not.
Create(h) ==
    /\ handler[h].pc = "create"
    /\ LET k == handler[h].task IN
       \/ /\ engineTask' = [engineTask EXCEPT ![k] = "running"]
          /\ \E n \in IF k \in DirTasks THEN 0 .. MaxNext ELSE {0} :
                files' = [files EXCEPT ![k] = n]
       \/ UNCHANGED taskVars
    /\ handler' = [handler EXCEPT ![h].pc = "notify"]
    /\ UNCHANGED <<hbVars, main, made>>

\* delete_func: a running engine task is stopped, on any other the engine does
\* nothing; either may succeed, and then the end is waited for, or fail, and the
\* handler ends.  It also does when the task is not found or has ended.
Delete(h) ==
    /\ handler[h].pc = "delete"
    /\ LET k == handler[h].task IN
       \/ /\ engineTask[k] = "running"
          /\ engineTask' = [engineTask EXCEPT ![k] = "stopping"]
          /\ handler' = [handler EXCEPT ![h].pc = "wait"]
       \/ /\ engineTask[k] # "running"
          /\ handler' = [handler EXCEPT ![h].pc = "wait"]
          /\ UNCHANGED engineTask
       \/ /\ handler' = [handler EXCEPT ![h].pc = "notify"]
          /\ UNCHANGED engineTask
    /\ UNCHANGED <<hbVars, main, made, files>>

\* WaitTaskFinish: no timeout.
Waited(h) ==
    /\ handler[h].pc = "wait"
    /\ engineTask[handler[h].task] = "gone"
    /\ handler' = [handler EXCEPT ![h].pc = "notify"]
    /\ UNCHANGED <<hbVars, main, made, taskVars>>

\* The post-handler wakes the heartbeat, if there is one, and the handler ends.
Finish(h) ==
    /\ handler[h].pc = "notify"
    /\ SendInstanceInfoToMA
    /\ handler' = [handler EXCEPT ![h] = HandlerIdle]
    /\ UNCHANGED <<main, made, taskVars>>

Handle(h) == Create(h) \/ Delete(h) \/ Waited(h) \/ Finish(h)

\* An engine task ends.  If it was not stopped and did not fail, and files are
\* left, its callback is to start the next one.
EngineTaskEnds(k) ==
    /\ \/ /\ Busy(k)
          /\ engineTask' = [engineTask EXCEPT ![k] = "ended"]
       \/ /\ engineTask[k] = "running" /\ files[k] > 0
          /\ engineTask' = [engineTask EXCEPT ![k] = "next"]
    /\ UNCHANGED <<hbVars, main, made, handler, files>>

\* The callback starts the engine task of the next file, whatever the host and
\* a delete are doing, or fails to: then it returns all the same.
RunNext(k) ==
    /\ engineTask[k] = "next"
    /\ \/ /\ engineTask' = [engineTask EXCEPT ![k] = "running"]
          /\ files' = [files EXCEPT ![k] = @ - 1]
       \/ /\ engineTask' = [engineTask EXCEPT ![k] = "left"]
          /\ UNCHANGED files
    /\ UNCHANGED <<hbVars, main, made, handler>>

\* UpdateTaskStatus with the final status.
ReportEnd(k) ==
    /\ engineTask[k] = "ended"
    /\ engineTask' = [engineTask EXCEPT ![k] = "reported"]
    /\ SendInstanceInfoToMA
    /\ UNCHANGED <<main, made, handler, files>>

\* SetTaskFinishStatus, and the entry of the task is erased.
SetFinish(k) ==
    /\ engineTask[k] = "reported"
    /\ engineTask' = [engineTask EXCEPT ![k] = "gone"]
    /\ UNCHANGED <<hbVars, main, made, handler, files>>

Callback(k) == RunNext(k) \/ ReportEnd(k) \/ SetFinish(k)

\* The steps of the heartbeat thread, all but the one the clock takes.
BeatAwake == (HBStep \/ HBBuild(NoInfo) \/ HBSent) /\ UNCHANGED lcVars

Beat == BeatAwake \/ (HBTimeout /\ UNCHANGED lcVars)

Next ==
    \/ MainStep \/ PartFails \/ HostCalls
    \/ \E h \in HttpThreads : Accept(h) \/ Handle(h)
    \/ \E k \in Tasks : EngineTaskEnds(k) \/ Callback(k)
    \/ Beat

\* The host's thread runs on inside a call, handlers and callbacks run on, the
\* heartbeat is scheduled and SendMsg returns.  An engine task ends when it was
\* told to stop, alone or with all others, or when its input is a file; a
\* stream need not end.  Nothing is assumed of the clock, since Stop must not
\* take as long as the heartbeat sleeps.
Fairness ==
    /\ WF_vars(MainStep)
    /\ WF_vars(BeatAwake)
    /\ \A h \in HttpThreads : WF_vars(Handle(h))
    /\ \A k \in Tasks :
          /\ WF_vars(Callback(k))
          /\ WF_vars(/\ \/ engineTask[k] = "stopping"
                        \/ k \in FileTasks
                        \/ Current = "engine_stop"
                     /\ EngineTaskEnds(k))

Spec == Init /\ [][Next]_vars

FairSpec == Spec /\ Fairness

------------------------------------------------------------------------------
(* Properties                                                               *)

\* A request is handled only while everything its handler uses exists: the
\* handlers and the functions of the plugin are registered before the server
\* listens, and the engine is started before and stopped after.  (With the
\* types of the state.)
ServedWhenReady ==
    /\ LCTypeOK
    /\ \A h \in HttpThreads : handler[h].pc # "idle" =>
          /\ {"handlers", "callbacks", "iam", "run", "engine_start"} \subseteq made
          /\ "engine_stop" \notin made

\* After Stop no heartbeat thread and no handler is left, and no engine task
\* that a request started while the parts were stopped one by one.  What the
\* engine may still work on is a file of a directory: the callback of the file
\* before starts it when it likes, also behind the engine's own Stop, because
\* nothing tells the callback that the plugin stops.
NothingLeft ==
    main.phase = "stopped" =>
        /\ hb.pc = "done"
        /\ \A h \in HttpThreads : handler[h].pc = "idle"
        /\ \A k \in Tasks : Busy(k) => k \in DirTasks

\* A plugin whose Init or Start returned false serves nothing, although it
\* undoes none of the steps it took.
FailedIsQuiet ==
    main.phase = "failed" => ~ Listening /\ hb.pc = "done"

\* Stop returns, although it waits for a heartbeat that may be about to
\* sleep, and then for handlers that wait for the last file of a task; and it
\* returns without the heartbeat's interval having to pass.  Only when the next
\* file of a directory could not be started may a delete, and with it Stop,
\* wait for ever.
ShutdownEnds ==
    main.phase = "stop" ~>
        \/ main.phase = "stopped"
        \/ \E h \in HttpThreads : /\ handler[h].pc = "wait"
                                  /\ engineTask[handler[h].task] = "left"

------------------------------------------------------------------------------
(* Why they hold: what is made says where the host's thread is, and what is  *)
(* made bounds what the other threads may be doing.                          *)

Steps(s, n) == {s[i] : i \in 1 .. n}
AllSteps(s) == Steps(s, Len(s))

\* The steps of the calls that have returned.
Before(phase) ==
    CASE phase = "init" -> {}
      [] phase \in {"inited", "start"} -> AllSteps(ManagerInit)
      [] phase \in {"started", "stop"} ->
            AllSteps(ManagerInit) \cup AllSteps(ManagerStart)
      [] OTHER -> AllSteps(ManagerInit) \cup AllSteps(ManagerStart)
                     \cup AllSteps(ManagerStop)

\* Made are the steps behind the current one, and nothing that serves
\* requests when one of them failed.
MadeInv ==
    IF main.phase = "failed"
      THEN made \subseteq AllSteps(ManagerInit) \cup {"build", "run"}
      ELSE /\ made = Before(main.phase) \cup
                       IF Running THEN Steps(Script[main.phase], main.at - 1)
                                  ELSE {}
           /\ main.at \in 1 .. IF Running THEN Len(Script[main.phase]) ELSE 1

\* The heartbeat thread runs between its start and its stop, handlers between
\* the start and the close of the server; files are left of directories only,
\* one at least when the next is due, and when the engine has been stopped it
\* works for nothing else.
ThreadsInv ==
    /\ hb.pc # "done" => "beat" \in made /\ "beat_stop" \notin made
    /\ \A h \in HttpThreads :
          handler[h].pc # "idle" => "listen" \in made /\ "close" \notin made
    /\ \A k \in Tasks : /\ engineTask[k] = "next" => files[k] > 0
                        /\ files[k] > 0 => k \in DirTasks
    /\ "engine_stop" \in made => \A k \in Tasks : Busy(k) => k \in DirTasks

LCInv == LCTypeOK /\ MadeInv /\ ThreadsInv

=============================================================================
