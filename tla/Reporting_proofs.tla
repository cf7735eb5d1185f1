--------------------------- MODULE Reporting_proofs ---------------------------
(***************************************************************************)
(* No wake-up of the heartbeat is lost, and every change of the tasks is    *)
(* reported, for any number of tasks, ids and threads.                      *)
(***************************************************************************)
EXTENDS Reporting, TaskManager_proofs

\* Every step is one of the task manager, or leaves it alone.
LEMMA ReportingStep == [Next]_vars => [TMNext]_tmVars
BY DEF Next, vars, HttpAlone, HttpSend, CbAlone, CbSend, Notify, BeatAlone, BeatSend,
       Calls, ClientStop, Deliver, TMNext, HttpStep, UpdStep

\* What is proved of the task manager holds here.
THEOREM ReportingImplementsTM == Spec => TMSpec
<1>1. Init => TMInit
  BY DEF Init
<1> QED
  BY <1>1, ReportingStep, PTL DEF Spec, TMSpec

\* A handler changes the listed tasks only on its way to a report, and once
\* there it goes on until it notifies the heartbeat.
LEMMA HandlerReports ==
  ASSUME TMInv, NEW h \in HttpThreads, HttpStep(h), ~ PostNotify(h)
  PROVE  /\ InstanceInfo' = InstanceInfo \/ http'[h].pc = "report"
         /\ http[h].pc \in {"report", "send", "notify"} =>
               http'[h].pc \in {"report", "send", "notify"}
         /\ \A g \in HttpThreads \ {h} : http'[g] = http[g]
         /\ UNCHANGED upd
<1> USE DEF TMInv, TypeOK, Http
<1>0. /\ \A g \in HttpThreads \ {h} : http'[g] = http[g]
      /\ UNCHANGED upd
  BY HttpFrame
<1>1. CASE CreateTaskGroup(h)
  <2>1. InstanceInfo' = InstanceInfo
    <3>1. /\ taskStatus[http[h].task] = "NONE" /\ taskGroupMap' = taskGroupMap
          /\ \A k \in Tasks : k # http[h].task => taskStatus'[k] = taskStatus[k]
      BY <1>1 DEF CreateTaskGroup, CreateInv, CreateOK
    <3>2. \A i \in TaskIds : taskGroupMap[i] # Null =>
             taskGroupMap[i] \in Tasks /\ taskGroupMap[i] # http[h].task
      BY <3>1 DEF MapInv, Started, Terminal, TaskOrNull
    <3> QED
      BY <3>1, <3>2 DEF InstanceInfo
  <2> QED
    BY <1>0, <1>1, <2>1 DEF CreateTaskGroup
<1>2. ASSUME NEW ok \in BOOLEAN, CreateTaskProcess(h, ok)
      PROVE /\ InstanceInfo' = InstanceInfo \/ http'[h].pc = "report"
            /\ http[h].pc = "create_func"
  BY <1>2 DEF CreateTaskProcess, Answer, InstanceInfo
<1>3. CASE LockMsg(h) \/ ReturnMsg(h) \/ Throw(h)
  BY <1>0, <1>3 DEF LockMsg, ReturnMsg, Throw, InstanceInfo
<1>4. CASE DeleteFind(h) \/ DeleteStatus(h) \/ QueryFind(h) \/ QueryDetail(h)
  BY <1>0, <1>4 DEF DeleteFind, DeleteStatus, QueryFind, QueryDetail, Answer, InstanceInfo
<1>5. ASSUME NEW ok \in BOOLEAN, DeleteTaskProcess(h, ok)
      PROVE InstanceInfo' = InstanceInfo /\ http[h].pc = "delete_func"
  BY <1>5 DEF DeleteTaskProcess, InstanceInfo
<1>6. CASE PostReport(h) \/ PostSent(h)
  BY <1>0, <1>6 DEF PostReport, PostSent, InstanceInfo
<1> QED
  BY <1>0, <1>1, <1>2, <1>3, <1>4, <1>5, <1>6 DEF HttpStep

\* So does UpdateTaskStatus.
LEMMA UpdateReports ==
  ASSUME TMInv, NEW t \in CbThreads, UpdStep(t), ~ UpdateNotify(t)
  PROVE  /\ InstanceInfo' = InstanceInfo \/ upd'[t].pc \in {"report", "notify"}
         /\ upd[t].pc \in {"report", "send", "erase", "notify"} =>
               upd'[t].pc \in {"report", "send", "erase", "notify"}
         /\ \A u \in CbThreads \ {t} : upd'[u] = upd[u]
         /\ UNCHANGED http
<1> USE DEF TMInv, TypeOK, Upd
<1>0. UNCHANGED http /\ \A u \in CbThreads \ {t} : upd'[u] = upd[u]
  BY UpdFrame
<1>1. CASE UpdateFind(t) \/ UpdateReport(t) \/ UpdateSent(t)
  BY <1>0, <1>1 DEF UpdateFind, UpdateReport, UpdateSent, InstanceInfo
<1>2. CASE UpdateSet(t)
  BY <1>0, <1>2 DEF UpdateSet, InstanceInfo
<1>3. CASE UpdateErase(t)
  BY <1>0, <1>3 DEF UpdateErase
<1> QED
  BY <1>1, <1>2, <1>3 DEF UpdStep

\* What the other threads may do to the heartbeat: while it is left alone, a
\* change of the tasks or of the service's view leaves somebody who will ask.
LEMMA OthersKeep ==
  ASSUME ReportInv, UNCHANGED hbVars,
         delivered' \subseteq delivered \cup (HttpThreads \cup CbThreads),
         Pending' \/ (~ Pending /\ InstanceInfo' = InstanceInfo /\ view' = view)
  PROVE  ReportInv'
<1>1. NoLostWakeUp'
  BY DEF ReportInv, NoLostWakeUp, HBTypeOK, hbVars
<1>2. Beat \in delivered' => Beat \in delivered
  BY ReportingAssumption
<1>3. MessageFresh'
  BY <1>2 DEF ReportInv, MessageFresh, hbVars
<1> QED
  BY <1>1, <1>3 DEF ReportInv

\* A handler, with or without a message that takes effect or returns.
LEMMA HandlerKeeps ==
  ASSUME TMInv, ReportInv, NEW h \in HttpThreads, HttpAlone(h) \/ HttpSend(h)
  PROVE  ReportInv'
<1>1. CASE http[h].pc = "send" /\ Deliver(h, HandleTaskMsg(http[h].id, http[h].msg))
  <2>1. UNCHANGED <<http, hbVars>> /\ delivered' \subseteq delivered \cup {h}
    BY <1>1 DEF Deliver, tmVars
  <2>2. Pending'
    BY <1>1, <2>1 DEF Pending
  <2> QED
    BY <2>1, <2>2, OthersKeep
<1>2. CASE HttpStep(h) /\ ~ PostNotify(h) /\ UNCHANGED <<hbVars, view>>
            /\ delivered' \subseteq delivered
  <2>1. /\ InstanceInfo' = InstanceInfo \/ http'[h].pc = "report"
        /\ http[h].pc \in {"report", "send", "notify"} =>
              http'[h].pc \in {"report", "send", "notify"}
        /\ \A g \in HttpThreads \ {h} : http'[g] = http[g]
        /\ UNCHANGED upd
    BY <1>2, HandlerReports
  <2>2. Pending => Pending'
    BY <1>2, <2>1 DEF Pending, hbVars
  <2>3. InstanceInfo' # InstanceInfo => Pending'
    BY <2>1 DEF Pending
  <2> QED
    BY <1>2, <2>2, <2>3, OthersKeep
<1>3. PostSent(h) => HttpStep(h) /\ ~ PostNotify(h)
  BY DEF PostSent, PostNotify, HttpStep
<1> QED
  BY <1>1, <1>2, <1>3 DEF HttpAlone, HttpSend, SendReturns

\* UpdateTaskStatus, likewise.
LEMMA UpdateKeeps ==
  ASSUME TMInv, ReportInv, NEW t \in CbThreads, CbAlone(t) \/ CbSend(t)
  PROVE  ReportInv'
<1>1. CASE upd[t].pc = "send" /\ Deliver(t, HandleTaskMsg(upd[t].id, upd[t].msg))
  <2>1. UNCHANGED <<upd, hbVars>> /\ delivered' \subseteq delivered \cup {t}
    BY <1>1 DEF Deliver, tmVars
  <2>2. Pending'
    BY <1>1, <2>1 DEF Pending
  <2> QED
    BY <2>1, <2>2, OthersKeep
<1>2. CASE UpdStep(t) /\ ~ UpdateNotify(t) /\ UNCHANGED <<hbVars, view>>
            /\ delivered' \subseteq delivered
  <2>1. /\ InstanceInfo' = InstanceInfo \/ upd'[t].pc \in {"report", "notify"}
        /\ upd[t].pc \in {"report", "send", "erase", "notify"} =>
              upd'[t].pc \in {"report", "send", "erase", "notify"}
        /\ \A u \in CbThreads \ {t} : upd'[u] = upd[u]
        /\ UNCHANGED http
    BY <1>2, UpdateReports
  <2>2. Pending => Pending'
    BY <1>2, <2>1 DEF Pending, hbVars
  <2>3. InstanceInfo' # InstanceInfo => Pending'
    BY <2>1 DEF Pending
  <2> QED
    BY <1>2, <2>2, <2>3, OthersKeep
<1>3. UpdateSent(t) => UpdStep(t) /\ ~ UpdateNotify(t)
  BY DEF UpdateSent, UpdateNotify, UpdStep
<1> QED
  BY <1>1, <1>2, <1>3 DEF CbAlone, CbSend, SendReturns

\* A call arrives: nothing that matters here.
LEMMA CallsKeep ==
  ASSUME TMInv, ReportInv, Calls
  PROVE  ReportInv'
<1>1. UNCHANGED <<taskGroupMap, taskStatus, hbVars, view, delivered>>
  BY DEF Calls, Request, ReceiveCreate, Receive, UpdateCall
<1>2. Pending => Pending'
  <2> USE DEF TMInv, TypeOK
  <2>1. ASSUME NEW h \in HttpThreads, NEW k \in Tasks, ReceiveCreate(h, k)
        PROVE Pending => Pending'
    BY <1>1, <2>1 DEF ReceiveCreate, Pending, hbVars
  <2>2. ASSUME NEW h \in HttpThreads, NEW op, NEW id, Receive(h, op, id)
        PROVE Pending => Pending'
    BY <1>1, <2>2 DEF Receive, Pending, hbVars
  <2>3. ASSUME NEW t \in CbThreads, NEW id, NEW s, UpdateCall(t, id, s)
        PROVE Pending => Pending'
    BY <1>1, <2>3 DEF UpdateCall, Pending, hbVars
  <2> QED
    BY <2>1, <2>2, <2>3 DEF Calls, Request
<1>3. InstanceInfo' = InstanceInfo
  BY <1>1 DEF InstanceInfo
<1> QED
  BY <1>1, <1>2, <1>3, OthersKeep

\* Whoever leaves the list of those who will ask has asked.
LEMMA NotifyKeeps ==
  ASSUME ReportInv, Notify
  PROVE  ReportInv'
<1>1. /\ update' = TRUE /\ UNCHANGED <<stop, stopper, delivered>>
      /\ hb' = IF hb.pc = "sleep" THEN [hb EXCEPT !.pc = "wait"] ELSE hb
  BY DEF Notify, SendInstanceInfoToMA, Notified
<1>2. HBTypeOK' /\ hb'.pc # "sleep" /\ (hb.pc = "send" => hb'.pc = "send")
  BY <1>1 DEF ReportInv, NoLostWakeUp, HBTypeOK, HBPC
<1>3. Pending'
  BY <1>1 DEF Pending
<1> QED
  BY <1>1, <1>2, <1>3 DEF ReportInv, NoLostWakeUp, MessageFresh

\* The heartbeat thread between its messages.
LEMMA BeatKeeps ==
  ASSUME TMInv, ReportInv, BeatAlone
  PROVE  ReportInv'
<1>1. /\ UNCHANGED <<taskGroupMap, taskStatus, http, upd, view, delivered>>
      /\ UNCHANGED <<stop, stopper>> /\ InstanceInfo' = InstanceInfo
      /\ InstanceInfo \in [TaskIds -> Status \cup {Null}]
  BY DEF BeatAlone, tmVars, HBStep, HBLoop, HBWait, HBBuild, HBTimeout, InstanceInfo,
         TMInv, TypeOK, TaskOrNull
<1>2. HBTypeOK /\ NoLostWakeUp /\ MessageFresh
  BY DEF ReportInv, NoLostWakeUp
<1> USE DEF HBTypeOK, HBPC
<1>3. CASE HBLoop
  <2>1. /\ hb.pc = "loop" /\ UNCHANGED update
        /\ \/ hb'.pc = "build"
           \/ stop /\ hb'.pc = "done"
    BY <1>2, <1>3 DEF HBLoop
  <2> QED
    BY <1>1, <1>2, <1>3, <2>1 DEF HBLoop, ReportInv, NoLostWakeUp, MessageFresh, Pending
<1>4. CASE HBBuild(InstanceInfo)
  BY <1>1, <1>2, <1>4 DEF HBBuild, ReportInv, NoLostWakeUp, MessageFresh, Pending
<1>5. CASE HBWait /\ ~ (stop \/ update)
  BY <1>1, <1>2, <1>5 DEF HBWait, ReportInv, NoLostWakeUp, MessageFresh, Pending
<1>6. CASE Woken /\ hb.pc \in {"wait", "sleep"}
  BY <1>1, <1>2, <1>6 DEF Woken, ReportInv, NoLostWakeUp, MessageFresh, Pending
<1> QED
  BY <1>3, <1>4, <1>5, <1>6 DEF BeatAlone, HBStep, HBWait, HBTimeout

\* The heartbeat's message takes effect, or its SendMsg returns.
LEMMA BeatSendKeeps ==
  ASSUME ReportInv, BeatSend
  PROVE  ReportInv'
<1>1. UNCHANGED <<taskGroupMap, taskStatus, http, upd, stop, update, stopper>>
  BY DEF BeatSend, Deliver, HBSent, tmVars, hbVars
<1>2. InstanceInfo' = InstanceInfo /\ HBTypeOK /\ hb.pc = "send"
  BY <1>1 DEF InstanceInfo, ReportInv, NoLostWakeUp, BeatSend, HBSent
<1>3. CASE Deliver(Beat, HandleInstanceMsg(hb.info))
  <2>1. hb' = hb /\ view' = hb.info
    BY <1>3 DEF Deliver, HandleInstanceMsg, hbVars
  <2> QED
    BY <1>1, <1>2, <2>1
       DEF ReportInv, NoLostWakeUp, HBTypeOK, MessageFresh, Pending
<1>4. CASE HBSent /\ SendReturns(Beat)
  <2>1. /\ hb' = [pc |-> "wait", info |-> NoInfo] /\ view' = view
        /\ Lossy \/ Beat \in delivered
        /\ Beat \notin delivered'
    BY <1>4 DEF HBSent, SendReturns
  <2>2. HBTypeOK'
    BY <1>1, <1>2, <2>1 DEF HBTypeOK, HBPC, NoInfo
  <2>3. Lossy \/ stop \/ Pending \/ view = InstanceInfo
    BY <1>2, <2>1 DEF ReportInv, MessageFresh
  <2>4. Pending => Pending'
    BY <1>1, <1>2 DEF Pending
  <2> QED
    BY <1>1, <1>2, <2>1, <2>2, <2>3, <2>4 DEF ReportInv, NoLostWakeUp, MessageFresh
<1> QED
  BY <1>3, <1>4 DEF BeatSend

\* Stop wakes the heartbeat too.
LEMMA StopKeeps ==
  ASSUME ReportInv, ClientStop
  PROVE  ReportInv'
<1>1. UNCHANGED <<taskGroupMap, taskStatus, http, upd, view, delivered, update>>
  BY DEF ClientStop, tmVars, StopCall, Joined
<1>2. CASE StopCall
  <2>1. /\ stop' = TRUE /\ stopper' = "join"
        /\ hb' = IF hb.pc = "sleep" THEN [hb EXCEPT !.pc = "wait"] ELSE hb
    BY <1>2 DEF StopCall, Notified
  <2>2. HBTypeOK' /\ hb'.pc # "sleep" /\ (hb.pc = "send" => hb'.pc = "send")
    BY <1>1, <2>1 DEF ReportInv, NoLostWakeUp, HBTypeOK, HBPC
  <2> QED
    BY <1>1, <2>1, <2>2 DEF ReportInv, NoLostWakeUp, MessageFresh
<1>3. CASE Joined
  <2>1. UNCHANGED <<hb, stop>> /\ stopper' = "done"
    BY <1>3 DEF Joined
  <2>2. InstanceInfo' = InstanceInfo /\ (Pending => Pending')
    BY <1>1, <2>1 DEF InstanceInfo, Pending
  <2> QED
    BY <1>1, <2>1, <2>2 DEF ReportInv, NoLostWakeUp, HBTypeOK, MessageFresh
<1> QED
  BY <1>2, <1>3 DEF ClientStop

\* ReportInv is inductive.
LEMMA ReportInvStep == TMInv /\ ReportInv /\ [Next]_vars => ReportInv'
<1> SUFFICES ASSUME TMInv, ReportInv, [Next]_vars PROVE ReportInv'
  OBVIOUS
<1>1. CASE UNCHANGED vars
  <2>1. UNCHANGED <<taskGroupMap, taskStatus, http, upd, hbVars, view, delivered>>
    BY <1>1 DEF vars, tmVars
  <2>2. InstanceInfo' = InstanceInfo /\ (Pending => Pending')
    BY <2>1 DEF InstanceInfo, Pending, hbVars
  <2> QED
    BY <2>1, <2>2, OthersKeep
<1> QED
  BY <1>1, HandlerKeeps, UpdateKeeps, CallsKeep, NotifyKeeps, BeatKeeps, BeatSendKeeps,
     StopKeeps DEF Next

\* Lossy or not: the heartbeat never sleeps on a pending update, and every
\* message it sends holds the tasks of now or will be followed by another.
THEOREM ReportInvariance == Spec => []ReportInv
<1>1. Init => ReportInv
  <2> SUFFICES ASSUME Init PROVE ReportInv
    OBVIOUS
  <2>1. hb = [pc |-> "loop", info |-> NoInfo] /\ hb.pc = "loop" /\ delivered = {}
    BY DEF Init, HBInit
  <2>2. HBTypeOK
    <3>1. NoInfo \in [TaskIds -> Status \cup {Null}]
      BY DEF NoInfo
    <3>2. hb \in [pc : HBPC, info : [TaskIds -> Status \cup {Null}]]
      BY <2>1, <3>1 DEF HBPC
    <3> QED
      BY <3>2 DEF Init, HBInit, HBTypeOK
  <2>3. NoLostWakeUp
    BY <2>1, <2>2 DEF NoLostWakeUp
  <2>4. MessageFresh
    BY <2>1 DEF MessageFresh
  <2> QED
    BY <2>2, <2>3, <2>4 DEF ReportInv
<1>2. TMInv /\ ReportInv /\ [Next]_vars => ReportInv'
  BY ReportInvStep
<1> QED
  BY <1>1, <1>2, ReportingImplementsTM, Invariance, PTL DEF Spec

\* No wake-up is lost: the thread of StartInstanceHeartBeatThread does not
\* sleep on an update, or on Stop.
THEOREM NoLostWakeUpHolds == Spec => []NoLostWakeUp
<1>1. ReportInv => NoLostWakeUp
  BY DEF ReportInv
<1> QED
  BY <1>1, ReportInvariance, PTL

\* Every change of the listed tasks still leads to an instance message.
THEOREM ChangeIsReportedHolds ==
  ASSUME Lossy = FALSE
  PROVE  Spec => []ChangeIsReported
<1>1. ReportInv => ChangeIsReported
  BY DEF ReportInv, NoLostWakeUp, HBTypeOK, HBPC, MessageFresh, ChangeIsReported,
         Pending
<1> QED
  BY <1>1, ReportInvariance, PTL

------------------------------------------------------------------------------
(* What the service is shown                                                *)

\* What was so stays what was so: no status goes back.
LEMMA SoKept ==
  ASSUME TMInv, [TMNext]_tmVars, NEW i, NEW s, WasSo(i, s)
  PROVE  WasSo(i, s)'
<1>1. PICK k \in Tasks : /\ IdOf[k] = i /\ taskStatus[k] \in Started
                         /\ s \in {"RUNNING", taskStatus[k]}
  BY DEF WasSo
<1>2. taskStatus'[k] \in Started /\ s \in {"RUNNING", taskStatus'[k]}
  BY <1>1, StatusMoves DEF Started
<1> QED
  BY <1>1, <1>2 DEF WasSo

\* A handler builds a message only about the task it has created.
LEMMA PostMoves ==
  ASSUME TMInv, NEW h \in HttpThreads, HttpStep(h) \/ Request(h)
  PROVE  /\ http'[h].pc \in {"report", "send"} =>
               \/ /\ http[h].pc \in {"report", "send"}
                  /\ http'[h].op = http[h].op
               \/ http'[h].op = "create"
         /\ http'[h].pc = "send" =>
               /\ http[h].pc = "report" /\ http'[h].id = http[h].id
               /\ http'[h].msg = taskStatus[http[h].task]
<1> USE DEF TMInv, TypeOK, Http
<1>1. CASE Request(h)
  <2>1. ASSUME NEW k \in Tasks, ReceiveCreate(h, k) PROVE http'[h].pc = "lock"
    BY <2>1 DEF ReceiveCreate, HttpIdle
  <2>2. ASSUME NEW op, NEW id, Receive(h, op, id) PROVE http'[h].pc = "lock"
    BY <2>2 DEF Receive, HttpIdle
  <2>3. http'[h].pc = "lock"
    BY <1>1, <2>1, <2>2 DEF Request
  <2> QED
    BY <2>3
<1>2. CASE LockMsg(h) \/ ReturnMsg(h) \/ Throw(h)
  BY <1>2 DEF LockMsg, ReturnMsg, Throw, HttpIdle
<1>3. CASE CreateTaskGroup(h)
  BY <1>3 DEF CreateTaskGroup, Answer
<1>4. ASSUME NEW ok \in BOOLEAN, CreateTaskProcess(h, ok)
      PROVE http'[h].op = "create" /\ http'[h].pc # "send"
  BY <1>4 DEF CreateTaskProcess, Answer, CreateInv, CreateOK
<1>5. CASE DeleteFind(h) \/ DeleteStatus(h)
  BY <1>5 DEF DeleteFind, DeleteStatus, Answer
<1>6. ASSUME NEW ok \in BOOLEAN, DeleteTaskProcess(h, ok)
      PROVE http'[h].pc \notin {"report", "send"}
  BY <1>6 DEF DeleteTaskProcess, Answer
<1>7. CASE QueryFind(h) \/ QueryDetail(h)
  BY <1>7 DEF QueryFind, QueryDetail
<1>8. CASE PostReport(h) \/ PostSent(h) \/ PostNotify(h)
  BY <1>8 DEF PostReport, PostSent, PostNotify
<1> QED
  BY <1>1, <1>2, <1>3, <1>4, <1>5, <1>6, <1>7, <1>8 DEF HttpStep

\* UpdateTaskStatus builds it about the group it has set.
LEMMA UpdReportMoves ==
  ASSUME TMInv, NEW t \in CbThreads,
         \/ UpdStep(t)
         \/ \E id \in TaskIds, s \in Terminal : UpdateCall(t, id, s)
  PROVE  upd'[t].pc = "send" =>
            /\ upd[t].pc = "report" /\ upd'[t].id = upd[t].id
            /\ upd'[t].msg = taskStatus[upd[t].task]
<1> USE DEF TMInv, TypeOK, Upd
<1>1. CASE UpdateReport(t)
  BY <1>1 DEF UpdateReport
<1>2. CASE UpdateFind(t) \/ UpdateSet(t)
  BY <1>2 DEF UpdateFind, UpdateSet, UpdIdle
<1>3. CASE UpdateSent(t) \/ UpdateErase(t) \/ UpdateNotify(t)
  BY <1>3 DEF UpdateSent, UpdateErase, UpdateNotify, UpdIdle
<1>4. ASSUME NEW id, NEW s, UpdateCall(t, id, s) PROVE upd'[t].pc = "find"
  BY <1>4 DEF UpdateCall, UpdIdle
<1> QED
  BY <1>1, <1>2, <1>3, <1>4 DEF UpdStep

\* Each message of a handler was so when it was built.
LEMMA HandlersWereSo ==
  ASSUME TMInv, ShownInv, [TMNext]_tmVars, NEW h \in HttpThreads
  PROVE  /\ http'[h].pc \in {"report", "send"} => http'[h].op = "create"
         /\ http'[h].pc = "send" => WasSo(http[h].id, http[h].msg)'
<1>1. CASE http'[h] = http[h]
  <2>1. /\ http[h].pc \in {"report", "send"} => http[h].op = "create"
        /\ http[h].pc = "send" => WasSo(http[h].id, http[h].msg)
    BY DEF ShownInv, MessagesWereSo
  <2>2. PICK i, s : i = http[h].id /\ s = http[h].msg
    OBVIOUS
  <2>3. http[h].pc = "send" => WasSo(i, s)'
    BY <2>1, <2>2, SoKept
  <2> QED
    BY <1>1, <2>1, <2>2, <2>3
<1>2. CASE HttpStep(h) \/ Request(h)
  <2>1. http[h].pc \in {"report", "send"} => http[h].op = "create"
    BY DEF ShownInv, MessagesWereSo
  <2>2. http'[h].pc \in {"report", "send"} => http'[h].op = "create"
    BY <1>2, <2>1, PostMoves
  <2>3. ASSUME http'[h].pc = "send" PROVE WasSo(http[h].id, http[h].msg)'
    <3>1. PICK k \in Tasks : k = http[h].task
      BY <1>2, <2>3, PostMoves DEF TMInv, HandlerInv, HandlerOK
    <3>2. /\ http'[h].id = IdOf[k] /\ http'[h].msg = taskStatus[k]
          /\ taskStatus[k] \in Started
      BY <1>2, <2>1, <2>3, <3>1, PostMoves
         DEF TMInv, HandlerInv, HandlerOK, CreateInv, CreateOK
    <3>3. PICK i, s : i = http'[h].id /\ s = http'[h].msg
      OBVIOUS
    <3>4. WasSo(i, s)
      BY <3>2, <3>3 DEF WasSo
    <3>5. WasSo(i, s)'
      BY <3>4, SoKept
    <3> QED
      BY <3>3, <3>5
  <2> QED
    BY <2>2, <2>3
<1>3. http'[h] = http[h] \/ HttpStep(h) \/ Request(h)
  BY HttpFrame, UpdFrame DEF TMNext, tmVars, TMInv
<1> QED
  BY <1>1, <1>2, <1>3

\* So was each message of UpdateTaskStatus.
LEMMA UpdatesWereSo ==
  ASSUME TMInv, ShownInv, [TMNext]_tmVars, NEW t \in CbThreads
  PROVE  upd'[t].pc = "send" => WasSo(upd[t].id, upd[t].msg)'
<1>1. CASE upd'[t] = upd[t]
  <2>1. upd[t].pc = "send" => WasSo(upd[t].id, upd[t].msg)
    BY DEF ShownInv, MessagesWereSo
  <2>2. PICK i, s : i = upd[t].id /\ s = upd[t].msg
    OBVIOUS
  <2>3. upd[t].pc = "send" => WasSo(i, s)'
    BY <2>1, <2>2, SoKept
  <2> QED
    BY <1>1, <2>2, <2>3
<1>2. ASSUME upd'[t].pc = "send",
             \/ UpdStep(t)
             \/ \E id \in TaskIds, s \in Terminal : UpdateCall(t, id, s)
      PROVE WasSo(upd[t].id, upd[t].msg)'
  <2>1. /\ upd[t].pc = "report" /\ upd'[t].id = upd[t].id
        /\ upd'[t].msg = taskStatus[upd[t].task]
    BY <1>2, UpdReportMoves
  <2>2. PICK k \in Tasks : k = upd[t].task
    BY <2>1 DEF TMInv, UpdateInv, UpdateOK
  <2>3. /\ upd[t].id \in TaskIds /\ upd[t].to \in Terminal
        /\ taskGroupMap[upd[t].id] = k /\ taskStatus[k] = upd[t].to
    BY <2>1, <2>2 DEF TMInv, UpdateInv, UpdateOK, Updating
  <2>4. IdOf[k] = upd[t].id /\ taskStatus[k] \in Started
    BY <2>2, <2>3, NullAssumption DEF TMInv, MapInv, Started
  <2>5. PICK i, s : i = upd'[t].id /\ s = upd'[t].msg
    OBVIOUS
  <2>6. WasSo(i, s)
    BY <2>1, <2>2, <2>4, <2>5 DEF WasSo
  <2>7. WasSo(i, s)'
    BY <2>6, SoKept
  <2> QED
    BY <2>5, <2>7
<1>3. \/ upd'[t] = upd[t]
      \/ UpdStep(t)
      \/ \E id \in TaskIds, s \in Terminal : UpdateCall(t, id, s)
  BY HttpFrame, UpdFrame DEF TMNext, tmVars, TMInv
<1> QED
  BY <1>1, <1>2, <1>3

\* The instance info of this moment is so.
LEMMA InfoIsSo ==
  ASSUME TMInv, NEW i \in TaskIds, InstanceInfo[i] # Null
  PROVE  WasSo(i, InstanceInfo[i])
<1>1. PICK k \in Tasks : k = taskGroupMap[i]
  BY DEF InstanceInfo, TMInv, TypeOK, TaskOrNull
<1>2. InstanceInfo[i] = taskStatus[k] /\ IdOf[k] = i /\ taskStatus[k] \in Started
  BY <1>1, NullAssumption DEF InstanceInfo, TMInv, MapInv
<1> QED
  BY <1>2 DEF WasSo

\* ShownInv is inductive: the view changes by messages only, and each of them
\* was so when it was built.
LEMMA ShownInvStep == TMInv /\ ReportInv /\ ShownInv /\ [Next]_vars => ShownInv'
<1> SUFFICES ASSUME TMInv, ReportInv, ShownInv, [Next]_vars PROVE ShownInv'
  OBVIOUS
<1>0. [TMNext]_tmVars /\ HBTypeOK /\ TypeOK
  BY ReportingStep DEF ReportInv, NoLostWakeUp, TMInv
<1>1. /\ hb'.pc = "send" => \/ hb.pc = "send" /\ hb'.info = hb.info
                            \/ hb'.info = InstanceInfo
      /\ \/ view' = view
         \/ \E h \in HttpThreads :
               /\ http[h].pc = "send"
               /\ view' = [view EXCEPT ![http[h].id] = http[h].msg]
         \/ \E t \in CbThreads :
               /\ upd[t].pc = "send"
               /\ view' = [view EXCEPT ![upd[t].id] = upd[t].msg]
         \/ hb.pc = "send" /\ view' = hb.info
  <2> USE <1>0 DEF HBTypeOK
  <2>1. CASE UNCHANGED vars
    BY <2>1 DEF vars, hbVars
  <2>2. ASSUME NEW h \in HttpThreads, HttpAlone(h) \/ HttpSend(h)
        PROVE /\ hb' = hb
              /\ \/ view' = view
                 \/ /\ http[h].pc = "send"
                    /\ view' = [view EXCEPT ![http[h].id] = http[h].msg]
    BY <2>2 DEF HttpAlone, HttpSend, Deliver, HandleTaskMsg, SendReturns, hbVars
  <2>3. ASSUME NEW t \in CbThreads, CbAlone(t) \/ CbSend(t)
        PROVE /\ hb' = hb
              /\ \/ view' = view
                 \/ /\ upd[t].pc = "send"
                    /\ view' = [view EXCEPT ![upd[t].id] = upd[t].msg]
    BY <2>3 DEF CbAlone, CbSend, Deliver, HandleTaskMsg, SendReturns, hbVars
  <2>4. CASE Notify \/ ClientStop
    BY <2>4 DEF Notify, SendInstanceInfoToMA, Notified, ClientStop, StopCall, Joined
  <2>5. CASE Calls
    BY <2>5 DEF Calls, hbVars
  <2>6. CASE BeatAlone
    BY <2>6 DEF BeatAlone, HBStep, HBLoop, HBWait, HBBuild, HBTimeout, Woken
  <2>7. CASE BeatSend
    BY <2>7 DEF BeatSend, Deliver, HandleInstanceMsg, HBSent, SendReturns, hbVars
  <2> QED
    BY <2>1, <2>2, <2>3, <2>4, <2>5, <2>6, <2>7 DEF Next
<1>2. view' \in [TaskIds -> Status \cup {Null}]
  BY <1>0, <1>1 DEF ShownInv, TypeOK, Http, Upd, StatusOrNull, HBTypeOK
<1>3. ASSUME NEW i \in TaskIds, view'[i] # Null PROVE WasSo(i, view[i])'
  <2>1. PICK s : s = view'[i]
    OBVIOUS
  <2>2. WasSo(i, s)
    BY <1>1, <1>3, <2>1 DEF ShownInv, ShownWasSo, MessagesWereSo
  <2>3. WasSo(i, s)'
    BY <1>0, <2>2, SoKept
  <2> QED
    BY <2>1, <2>3
<1>4. ASSUME NEW i \in TaskIds, hb'.pc = "send", hb'.info[i] # Null
      PROVE WasSo(i, hb.info[i])'
  <2>1. PICK s : s = hb'.info[i]
    OBVIOUS
  <2>2. WasSo(i, s)
    BY <1>1, <1>4, <2>1, InfoIsSo DEF ShownInv, MessagesWereSo
  <2>3. WasSo(i, s)'
    BY <1>0, <2>2, SoKept
  <2> QED
    BY <2>1, <2>3
<1>5. MessagesWereSo'
  BY <1>0, <1>4, HandlersWereSo, UpdatesWereSo DEF MessagesWereSo
<1> QED
  BY <1>2, <1>3, <1>5 DEF ShownInv, ShownWasSo

\* Whatever overlaps, is lost or comes twice: what the service is shown of an
\* id was once so of a task with that id.
THEOREM ShownWasSoHolds == Spec => []ShownWasSo
<1>1. Init => ShownInv
  BY DEF Init, TMInit, HBInit, NoInfo, ShownInv, ShownWasSo, MessagesWereSo,
         HttpIdle, UpdIdle
<1>2. TMInv /\ ReportInv /\ ShownInv /\ [Next]_vars => ShownInv'
  BY ShownInvStep
<1>3. ShownInv => ShownWasSo
  BY DEF ShownInv
<1> QED
  BY <1>1, <1>2, <1>3, ReportInvariance, ReportingImplementsTM, Invariance, PTL
     DEF Spec

=============================================================================
