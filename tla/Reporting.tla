------------------------------ MODULE Reporting ------------------------------
(***************************************************************************)
(* What the ModelArts service sees.  Three kinds of threads send it         *)
(* messages, each when it likes: an HTTP thread reports the task it         *)
(* created, an engine thread the task it ended, the heartbeat thread the    *)
(* whole instance.  A SendMsg takes effect at the service at any moment     *)
(* between its start and its return, possibly more than once (a retry after *)
(* a lost answer), or not at all when it fails; so the messages of          *)
(* different threads overtake each other.                                   *)
(*                                                                         *)
(* The service is the mock one of the tests: an instance message replaces   *)
(* all it knows of the tasks, a task message sets one of them.              *)
(***************************************************************************)
EXTENDS TaskManager, HeartBeat

CONSTANTS
    Lossy,     \* may every attempt of a SendMsg be lost?
    Periodic   \* does the heartbeat also wake up without being notified?

\* The heartbeat thread, as a sender of messages.
Beat == "heartbeat"

ASSUME ReportingAssumption ==
    /\ Lossy \in BOOLEAN /\ Periodic \in BOOLEAN
    /\ Beat \notin HttpThreads \cup CbThreads

VARIABLES
    view,       \* task_info_ of the service: the state of each task id
    delivered   \* senders whose current message took effect at least once

vars == <<tmVars, hbVars, view, delivered>>

------------------------------------------------------------------------------
Senders == HttpThreads \cup CbThreads \cup {Beat}

\* The instance info of this moment: the listed tasks with their statuses.
InstanceInfo ==
    [i \in TaskIds |-> IF taskGroupMap[i] = Null
                         THEN Null ELSE taskStatus[taskGroupMap[i]]]

Init ==
    /\ TMInit
    /\ HBInit
    /\ view = NoInfo
    /\ delivered = {}

\* HandleTaskMsg and HandleInstanceMsg of the service.
HandleTaskMsg(id, state) == view' = [view EXCEPT ![id] = state]
HandleInstanceMsg(info)  == view' = info

\* The service handles the message that sender s is sending.
Deliver(s, handled) ==
    /\ handled
    /\ delivered' = delivered \cup {s}
    /\ UNCHANGED <<tmVars, hbVars>>

\* SendMsg of sender s returns.
SendReturns(s) ==
    /\ Lossy \/ s \in delivered
    /\ delivered' = delivered \ {s}
    /\ UNCHANGED view

------------------------------------------------------------------------------
\* Steps in which only the task manager takes part.
HttpAlone(h) ==
    /\ HttpStep(h) /\ ~ PostSent(h) /\ ~ PostNotify(h)
    /\ UNCHANGED <<hbVars, view, delivered>>

CbAlone(t) ==
    /\ UpdStep(t) /\ ~ UpdateSent(t) /\ ~ UpdateNotify(t)
    /\ UNCHANGED <<hbVars, view, delivered>>

HttpSend(h) ==
    \/ /\ http[h].pc = "send"
       /\ Deliver(h, HandleTaskMsg(http[h].id, http[h].msg))
    \/ PostSent(h) /\ SendReturns(h) /\ UNCHANGED hbVars

CbSend(t) ==
    \/ /\ upd[t].pc = "send"
       /\ Deliver(t, HandleTaskMsg(upd[t].id, upd[t].msg))
    \/ UpdateSent(t) /\ SendReturns(t) /\ UNCHANGED hbVars

BeatSend ==
    \/ /\ hb.pc = "send"
       /\ Deliver(Beat, HandleInstanceMsg(hb.info))
    \/ HBSent /\ SendReturns(Beat) /\ UNCHANGED tmVars

\* Both kinds of threads end with SendInstanceInfoToMA.
Notify ==
    /\ \/ \E h \in HttpThreads : PostNotify(h)
       \/ \E t \in CbThreads : UpdateNotify(t)
    /\ SendInstanceInfoToMA
    /\ UNCHANGED <<view, delivered>>

BeatAlone ==
    /\ HBStep \/ HBBuild(InstanceInfo) \/ (Periodic /\ HBTimeout)
    /\ UNCHANGED <<tmVars, view, delivered>>

Calls ==
    /\ \/ \E h \in HttpThreads : Request(h)
       \/ \E t \in CbThreads, id \in TaskIds, s \in Terminal :
             UpdateCall(t, id, s)
    /\ UNCHANGED <<hbVars, view, delivered>>

ClientStop ==
    /\ StopCall \/ Joined
    /\ UNCHANGED <<tmVars, view, delivered>>

Next ==
    \/ \E h \in HttpThreads : HttpAlone(h) \/ HttpSend(h)
    \/ \E t \in CbThreads : CbAlone(t) \/ CbSend(t)
    \/ Notify \/ BeatAlone \/ BeatSend
    \/ Calls \/ ClientStop

\* Every thread inside a call runs on, SendMsg returns, and the heartbeat's
\* messages do not fail for ever.
Fairness ==
    /\ \A h \in HttpThreads : WF_vars(HttpAlone(h))
    /\ \A h \in HttpThreads : WF_vars(PostSent(h) /\ SendReturns(h) /\ UNCHANGED hbVars)
    /\ \A h \in HttpThreads : WF_vars(HttpSend(h))
    /\ \A t \in CbThreads : WF_vars(CbAlone(t))
    /\ \A t \in CbThreads : WF_vars(UpdateSent(t) /\ SendReturns(t) /\ UNCHANGED hbVars)
    /\ \A t \in CbThreads : WF_vars(CbSend(t))
    /\ WF_vars(Notify)
    /\ WF_vars(BeatAlone)
    /\ SF_vars(hb.pc = "send" /\ Deliver(Beat, HandleInstanceMsg(hb.info)))
    /\ WF_vars(HBSent /\ SendReturns(Beat) /\ UNCHANGED tmVars)
    /\ WF_vars(Joined /\ UNCHANGED <<tmVars, view, delivered>>)

Spec == Init /\ [][Next]_vars

FairSpec == Spec /\ Fairness

------------------------------------------------------------------------------
(* Properties                                                               *)

\* No wake-up is lost: the heartbeat thread never sleeps on a pending update
\* or stop, so a change is reported at once and not a minute later, and the
\* types of the heartbeat's state.
NoLostWakeUp ==
    /\ HBTypeOK
    /\ hb.pc = "sleep" => ~ update /\ ~ stop

\* Each change of the listed tasks still leads to an instance message: the
\* service knows the tasks, or a message with them is on its way, or a thread
\* that will ask for one is. (Without losses, and until Stop.)
Pending ==
    \/ update
    \/ hb.pc \in {"loop", "build"}
    \/ \E h \in HttpThreads : http[h].pc \in {"report", "send", "notify"}
    \/ \E t \in CbThreads : upd[t].pc \in {"report", "send", "erase", "notify"}

ChangeIsReported ==
    \/ stop
    \/ Pending
    \/ view = InstanceInfo
    \/ hb.pc = "send" /\ hb.info = InstanceInfo

\* A task with this id was accepted, and is, or was, in this state.
WasSo(id, state) ==
    \E k \in Tasks : /\ IdOf[k] = id
                     /\ taskStatus[k] \in Started
                     /\ state \in {"RUNNING", taskStatus[k]}

\* What the service shows may be old, and messages may overtake each other, but
\* none of it was made up: no task it was told of was refused or is still
\* waiting to be accepted, and none is shown with an end it did not have.
ShownWasSo == \A i \in TaskIds : view[i] # Null => WasSo(i, view[i])

\* Why: so was each message on its way; and a handler that reports a task has
\* just created it.
MessagesWereSo ==
    /\ \A h \in HttpThreads :
          /\ http[h].pc \in {"report", "send"} => http[h].op = "create"
          /\ http[h].pc = "send" => WasSo(http[h].id, http[h].msg)
    /\ \A t \in CbThreads : upd[t].pc = "send" => WasSo(upd[t].id, upd[t].msg)
    /\ hb.pc = "send" =>
          \A i \in TaskIds : hb.info[i] # Null => WasSo(i, hb.info[i])

\* The inductive invariant.
ShownInv ==
    view \in [TaskIds -> Status \cup {Null}] /\ ShownWasSo /\ MessagesWereSo

\* Why the change is reported: while nobody is going to ask for a message, the
\* one that is being sent holds the tasks of now, and so does the service when
\* it has taken effect; afterwards, too, unless it may have been lost.
MessageFresh ==
    /\ hb.pc = "send" => stop \/ Pending \/ hb.info = InstanceInfo
    /\ Beat \in delivered =>
          hb.pc = "send" /\ (stop \/ Pending \/ view = hb.info)
    /\ ~ Lossy /\ hb.pc \in {"wait", "sleep", "done"} =>
          stop \/ Pending \/ view = InstanceInfo

\* The inductive invariant.
ReportInv == NoLostWakeUp /\ MessageFresh

\* The service ends up with the tasks that are listed, whatever order, losses
\* and duplicates the messages went through, unless the client is stopped.
ViewConverges == <>[](view = InstanceInfo) \/ <>stop

\* Stop returns: the heartbeat thread is woken and leaves, even when it was
\* about to sleep or is in the middle of a send.
StopReturns == stopper = "join" ~> stopper = "done"

=============================================================================
