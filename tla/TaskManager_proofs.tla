------------------------- MODULE TaskManager_proofs -------------------------
(***************************************************************************)
(* Proofs about TaskManager, for any tasks, ids and threads.                *)
(*                                                                         *)
(* TMInv is inductive: InitInv and StepInv below.  StepInv is put together  *)
(* from one lemma per conjunct of TMInv; they rest on a few frame lemmas    *)
(* that say which actions touch what.  The theorems, at the end, follow     *)
(* from the invariant.                                                      *)
(***************************************************************************)
EXTENDS TaskManager, TLAPS

\* The program points and answers the actions assign.  With these facts the
\* sets themselves can stay closed, which keeps record typing within reach.
LEMMA HttpConstants ==
  /\ "idle" \in HttpPC /\ "lock" \in HttpPC /\ "find" \in HttpPC
  /\ "create_func" \in HttpPC /\ "status" \in HttpPC /\ "delete_func" \in HttpPC
  /\ "detail" \in HttpPC /\ "report" \in HttpPC /\ "send" \in HttpPC
  /\ "notify" \in HttpPC /\ "unlock" \in HttpPC
  /\ 200 \in Codes /\ 201 \in Codes /\ 202 \in Codes /\ 400 \in Codes
  /\ 404 \in Codes /\ 500 \in Codes
BY DEF HttpPC, Locked, Codes

\* The same for the engine threads.
LEMMA UpdConstants ==
  /\ "idle" \in UpdPC /\ "find" \in UpdPC /\ "set" \in UpdPC
  /\ "report" \in UpdPC /\ "send" \in UpdPC /\ "erase" \in UpdPC
  /\ "notify" \in UpdPC
BY DEF UpdPC

\* Assigning fields of a thread's record keeps its type.
LEMMA HttpAnswer ==
  ASSUME TypeOK, NEW h \in HttpThreads, NEW p \in HttpPC, NEW c \in Codes
  PROVE  [http EXCEPT ![h].pc = p, ![h].code = c] \in [HttpThreads -> Http]
BY DEF TypeOK, Http

\* The same, for the point and the message.
LEMMA HttpMessage ==
  ASSUME TypeOK, NEW h \in HttpThreads, NEW p \in HttpPC, NEW m \in StatusOrNull
  PROVE  [http EXCEPT ![h].pc = p, ![h].msg = m] \in [HttpThreads -> Http]
BY DEF TypeOK, Http

\* The same, for the point, the answer and the message.
LEMMA HttpContent ==
  ASSUME TypeOK, NEW h \in HttpThreads, NEW p \in HttpPC, NEW c \in Codes,
         NEW m \in StatusOrNull
  PROVE  [http EXCEPT ![h].pc = p, ![h].code = c, ![h].msg = m]
            \in [HttpThreads -> Http]
BY DEF TypeOK, Http

\* Every step keeps the types of the map, the statuses and the threads.
LEMMA TypeStep == TMInv /\ [TMNext]_tmVars => TypeOK'
<1> SUFFICES ASSUME TypeOK, HandlerInv, CreateInv, UpdateInv, [TMNext]_tmVars
             PROVE TypeOK'
  BY DEF TMInv
<1> USE IdOfAssumption, NullAssumption DEF TypeOK
<1>0. /\ HttpIdle \in Http
      /\ UpdIdle \in Upd
  BY DEF HttpIdle, UpdIdle, Http, Upd, HttpPC, UpdPC, Codes, OpOrNone,
         IdOrNull, TaskOrNull, StatusOrNull
<1>1. ASSUME NEW h \in HttpThreads, NEW k \in Tasks, ReceiveCreate(h, k)
      PROVE TypeOK'
  <2>1. [HttpIdle EXCEPT !.pc = "lock", !.op = "create", !.id = IdOf[k],
                         !.task = k] \in Http
    BY <1>0 DEF Http, HttpPC, OpOrNone, Ops, IdOrNull, TaskOrNull
  <2> QED
    BY <1>1, <2>1 DEF ReceiveCreate
<1>2. ASSUME NEW h \in HttpThreads, NEW op \in {"delete", "query"},
             NEW id \in TaskIds, Receive(h, op, id)
      PROVE TypeOK'
  <2>1. [HttpIdle EXCEPT !.pc = "lock", !.op = op, !.id = id] \in Http
    BY <1>0, <1>2 DEF Http, HttpPC, OpOrNone, Ops, IdOrNull
  <2> QED
    BY <1>2, <2>1 DEF Receive
<1>3. ASSUME NEW h \in HttpThreads, HttpStep(h) PROVE TypeOK'
  <2>1. CASE LockMsg(h) \/ ReturnMsg(h) \/ Throw(h)
    BY <1>0, <2>1, HttpConstants DEF Http, LockMsg, ReturnMsg, Throw
  <2>2. CASE CreateTaskGroup(h)
    BY <2>2, HttpConstants DEF Http, CreateTaskGroup, Answer, FindTask, Status
  <2>3. ASSUME NEW ok \in BOOLEAN, CreateTaskProcess(h, ok) PROVE TypeOK'
    BY <2>3, HttpConstants DEF Http, CreateTaskProcess, Answer, Status, TaskOrNull
  <2>4. CASE DeleteFind(h)
    <3>1. taskGroupMap[http[h].id] \in TaskOrNull
      BY <2>4 DEF DeleteFind, HandlerInv, HandlerOK
    <3> QED
      BY <2>4, <3>1, HttpConstants DEF Http, DeleteFind, Answer, FindTask
  <2>5. CASE DeleteStatus(h)
    BY <2>5, HttpConstants DEF Http, DeleteStatus, Answer
  <2>6. ASSUME NEW ok \in BOOLEAN, DeleteTaskProcess(h, ok) PROVE TypeOK'
    <3>1. UNCHANGED <<taskGroupMap, taskStatus, msgLock, upd>>
      BY <2>6 DEF DeleteTaskProcess
    <3>2. CASE ok
      <4>1. http' = [http EXCEPT ![h].pc = "notify", ![h].code = 202]
        BY <2>6, <3>2 DEF DeleteTaskProcess, Answer
      <4>2. "notify" \in HttpPC /\ 202 \in Codes
        BY HttpConstants
      <4>3. http' \in [HttpThreads -> Http]
        BY <4>1, <4>2, HttpAnswer, ZenonT(30)
      <4> QED
        BY <3>1, <4>3
    <3>3. CASE ~ ok
      <4>1. http' = [http EXCEPT ![h].pc = "notify", ![h].code = 500]
        BY <2>6, <3>3 DEF DeleteTaskProcess, Answer
      <4>2. "notify" \in HttpPC /\ 500 \in Codes
        BY HttpConstants
      <4>3. http' \in [HttpThreads -> Http]
        BY <4>1, <4>2, HttpAnswer, ZenonT(30)
      <4> QED
        BY <3>1, <4>3
    <3> QED
      BY <3>2, <3>3
  <2>7. CASE QueryFind(h)
    <3>1. taskGroupMap[http[h].id] \in TaskOrNull
      BY <2>7 DEF QueryFind, HandlerInv, HandlerOK
    <3> QED
      BY <2>7, <3>1, HttpConstants DEF Http, QueryFind, FindTask
  <2>8. CASE QueryDetail(h)
    <3> DEFINE m == taskStatus[http[h].task]
    <3>1. m \in StatusOrNull
      BY <2>8 DEF QueryDetail, HandlerInv, HandlerOK, StatusOrNull
    <3>2. http' = [http EXCEPT ![h].pc = "unlock", ![h].code = 200, ![h].msg = m]
      BY <2>8 DEF QueryDetail
    <3>3. UNCHANGED <<taskGroupMap, taskStatus, msgLock, upd>>
      BY <2>8 DEF QueryDetail
    <3>4. "unlock" \in HttpPC /\ 200 \in Codes
      BY HttpConstants
    <3> HIDE DEF m
    <3>5. http' \in [HttpThreads -> Http]
      BY <3>1, <3>2, <3>4, HttpContent, ZenonT(30)
    <3> QED
      BY <3>3, <3>5
  <2>9. CASE PostReport(h)
    <3> DEFINE m == taskStatus[http[h].task]
    <3>1. m \in StatusOrNull
      BY <2>9 DEF PostReport, HandlerInv, HandlerOK, StatusOrNull
    <3>2. http' = [http EXCEPT ![h].pc = "send", ![h].msg = m]
      BY <2>9 DEF PostReport
    <3>3. UNCHANGED <<taskGroupMap, taskStatus, msgLock, upd>>
      BY <2>9 DEF PostReport
    <3>4. "send" \in HttpPC
      BY HttpConstants
    <3> HIDE DEF m
    <3>5. http' \in [HttpThreads -> Http]
      BY <3>1, <3>2, <3>4, HttpMessage, ZenonT(30)
    <3> QED
      BY <3>3, <3>5
  <2>10. CASE PostSent(h) \/ PostNotify(h)
    BY <2>10, HttpConstants DEF Http, PostSent, PostNotify
  <2> QED
    BY <1>3, <2>1, <2>2, <2>3, <2>4, <2>5, <2>6, <2>7, <2>8, <2>9, <2>10
       DEF HttpStep
<1>4. ASSUME NEW t \in CbThreads, NEW id \in TaskIds, NEW s \in Terminal,
             UpdateCall(t, id, s)
      PROVE TypeOK'
  <2>1. [UpdIdle EXCEPT !.pc = "find", !.id = id, !.to = s] \in Upd
    BY <1>0 DEF Upd, UpdPC, IdOrNull, StatusOrNull, Status
  <2> QED
    BY <1>4, <2>1 DEF UpdateCall
<1>5. ASSUME NEW t \in CbThreads, UpdStep(t) PROVE TypeOK'
  <2> USE UpdConstants DEF Upd
  <2>1. CASE UpdateFind(t)
    <3>1. taskGroupMap[upd[t].id] \in TaskOrNull
      BY <2>1 DEF UpdateFind, UpdateInv, UpdateOK, Updating
    <3> QED
      BY <1>0, <2>1, <3>1 DEF UpdateFind, FindTask
  <2>2. CASE UpdateSet(t)
    <3>1. upd[t].to \in Status
      BY <2>2 DEF UpdateSet, UpdateInv, UpdateOK, Updating, Status
    <3> QED
      BY <1>0, <2>2, <3>1 DEF UpdateSet
  <2>3. CASE UpdateReport(t)
    <3>1. taskStatus[upd[t].task] \in StatusOrNull
      BY <2>3 DEF UpdateReport, UpdateInv, UpdateOK, StatusOrNull
    <3> QED
      BY <2>3, <3>1 DEF UpdateReport
  <2>4. CASE UpdateSent(t) \/ UpdateErase(t) \/ UpdateNotify(t)
    BY <1>0, <2>4 DEF UpdateSent, UpdateErase, UpdateNotify, TaskOrNull
  <2> QED
    BY <1>5, <2>1, <2>2, <2>3, <2>4 DEF UpdStep
<1>6. CASE UNCHANGED tmVars
  BY <1>6 DEF tmVars
<1> QED
  BY <1>1, <1>2, <1>3, <1>4, <1>5, <1>6 DEF TMNext, Request

------------------------------------------------------------------------------
(* What the steps leave alone                                               *)

\* A handler step changes its own thread only, and only CreateTaskGroup and
\* CreateTaskProcess touch the groups.
LEMMA HttpFrame ==
  ASSUME TypeOK, NEW h \in HttpThreads, HttpStep(h) \/ Request(h)
  PROVE  /\ upd' = upd
         /\ \A g \in HttpThreads \ {h} : http'[g] = http[g]
         /\ \/ UNCHANGED <<taskGroupMap, taskStatus>>
            \/ CreateTaskGroup(h)
            \/ CreateTaskProcess(h, TRUE)
<1> USE DEF TypeOK
<1>1. CASE Request(h)
  BY <1>1 DEF Request, ReceiveCreate, Receive
<1>2. CASE LockMsg(h) \/ ReturnMsg(h) \/ Throw(h)
  BY <1>2 DEF LockMsg, ReturnMsg, Throw
<1>3. CASE CreateTaskGroup(h)
  BY <1>3 DEF CreateTaskGroup, Answer
<1>4. CASE CreateTaskProcess(h, TRUE)
  BY <1>4 DEF CreateTaskProcess
<1>5. CASE CreateTaskProcess(h, FALSE)
  BY <1>5 DEF CreateTaskProcess, Answer
<1>6. CASE DeleteFind(h) \/ DeleteStatus(h)
  BY <1>6 DEF DeleteFind, DeleteStatus, Answer
<1>7. ASSUME NEW ok \in BOOLEAN, DeleteTaskProcess(h, ok)
      PROVE /\ upd' = upd
            /\ \A g \in HttpThreads \ {h} : http'[g] = http[g]
            /\ UNCHANGED <<taskGroupMap, taskStatus>>
  BY <1>7 DEF DeleteTaskProcess, Answer
<1>8. CASE QueryFind(h) \/ QueryDetail(h)
  BY <1>8 DEF QueryFind, QueryDetail
<1>9. CASE PostReport(h) \/ PostSent(h) \/ PostNotify(h)
  BY <1>9 DEF PostReport, PostSent, PostNotify
<1> QED
  BY <1>1, <1>2, <1>3, <1>4, <1>5, <1>6, <1>7, <1>8, <1>9 DEF HttpStep

\* An update step changes its own thread only; it never touches the handlers.
LEMMA UpdFrame ==
  ASSUME TypeOK, NEW t \in CbThreads,
         \/ UpdStep(t)
         \/ \E id \in TaskIds, s \in Terminal : UpdateCall(t, id, s)
  PROVE  /\ http' = http /\ msgLock' = msgLock
         /\ \A u \in CbThreads \ {t} : upd'[u] = upd[u]
         /\ \/ UNCHANGED <<taskGroupMap, taskStatus>>
            \/ UpdateSet(t)
            \/ UpdateErase(t)
BY DEF TypeOK, UpdStep, UpdateCall, UpdateFind, UpdateSet, UpdateReport,
       UpdateSent, UpdateErase, UpdateNotify

\* Where a handler step starts and where it ends.
LEMMA HttpMoves ==
  ASSUME TypeOK, NEW h \in HttpThreads, HttpStep(h)
  PROVE  \/ LockMsg(h) /\ http'[h].pc = "find"
         \/ ReturnMsg(h) /\ http'[h].pc = "idle"
         \/ /\ http[h].pc \in Locked /\ http'[h].pc \in Locked
            /\ msgLock' = msgLock
<1> USE DEF TypeOK, Locked, Http
<1>1. CASE LockMsg(h) \/ ReturnMsg(h)
  BY <1>1 DEF LockMsg, ReturnMsg, HttpIdle
<1>2. CASE Throw(h)
  BY <1>2 DEF Throw
<1>3. CASE CreateTaskGroup(h)
  BY <1>3 DEF CreateTaskGroup, Answer
<1>4. ASSUME NEW ok \in BOOLEAN, CreateTaskProcess(h, ok)
      PROVE /\ http[h].pc \in Locked /\ http'[h].pc \in Locked
            /\ msgLock' = msgLock
  BY <1>4 DEF CreateTaskProcess, Answer
<1>6. CASE DeleteFind(h) \/ DeleteStatus(h)
  BY <1>6 DEF DeleteFind, DeleteStatus, Answer
<1>7. ASSUME NEW ok \in BOOLEAN, DeleteTaskProcess(h, ok)
      PROVE /\ http[h].pc \in Locked /\ http'[h].pc \in Locked
            /\ msgLock' = msgLock
  BY <1>7 DEF DeleteTaskProcess, Answer
<1>8. CASE QueryFind(h) \/ QueryDetail(h)
  BY <1>8 DEF QueryFind, QueryDetail
<1>9. CASE PostReport(h) \/ PostSent(h) \/ PostNotify(h)
  BY <1>9 DEF PostReport, PostSent, PostNotify
<1> QED
  BY <1>1, <1>2, <1>3, <1>4, <1>6, <1>7, <1>8, <1>9 DEF HttpStep

\* Every step keeps msg_concurrency_mutex_ with the one thread that is
\* inside MsgProcess: only LockMsg takes it and only ReturnMsg gives it back.
LEMMA LockStep == TMInv /\ [TMNext]_tmVars => LockInv'
<1> SUFFICES ASSUME TypeOK, TypeOK', LockInv, [TMNext]_tmVars PROVE LockInv'
  BY TypeStep DEF TMInv
<1>1. ASSUME NEW h \in HttpThreads, Request(h) PROVE LockInv'
  <2>1. /\ msgLock' = msgLock
        /\ http[h].pc = "idle" /\ http'[h].pc = "lock"
    <3>1. ASSUME NEW k \in Tasks, ReceiveCreate(h, k)
          PROVE /\ msgLock' = msgLock
                /\ http[h].pc = "idle" /\ http'[h].pc = "lock"
      BY <3>1 DEF ReceiveCreate, HttpIdle, TypeOK
    <3>2. ASSUME NEW op, NEW id, Receive(h, op, id)
          PROVE /\ msgLock' = msgLock
                /\ http[h].pc = "idle" /\ http'[h].pc = "lock"
      BY <3>2 DEF Receive, HttpIdle, TypeOK
    <3> QED
      BY <1>1, <3>1, <3>2 DEF Request
  <2>2. \A g \in HttpThreads \ {h} : http'[g] = http[g]
    BY <1>1, HttpFrame
  <2> QED
    BY <2>1, <2>2 DEF LockInv, Locked
<1>2. ASSUME NEW h \in HttpThreads, HttpStep(h) PROVE LockInv'
  <2>1. \A g \in HttpThreads \ {h} : http'[g] = http[g]
    BY <1>2, HttpFrame
  <2>2. CASE LockMsg(h) /\ http'[h].pc = "find"
    BY <2>1, <2>2, NullAssumption DEF LockMsg, LockInv, Locked
  <2>3. CASE ReturnMsg(h) /\ http'[h].pc = "idle"
    <3>1. msgLock = h /\ msgLock' = Null
      BY <2>3 DEF ReturnMsg, LockInv, Locked
    <3> QED
      BY <2>1, <2>3, <3>1, NullAssumption DEF LockInv, Locked
  <2>4. CASE /\ http[h].pc \in Locked /\ http'[h].pc \in Locked
             /\ msgLock' = msgLock
    BY <2>1, <2>4 DEF LockInv
  <2> QED
    BY <1>2, <2>2, <2>3, <2>4, HttpMoves
<1>3. ASSUME NEW t \in CbThreads,
             \/ UpdStep(t)
             \/ \E id \in TaskIds, s \in Terminal : UpdateCall(t, id, s)
      PROVE LockInv'
  BY <1>3, UpdFrame DEF LockInv
<1>4. CASE UNCHANGED tmVars
  BY <1>4 DEF tmVars, LockInv
<1> QED
  BY <1>1, <1>2, <1>3, <1>4 DEF TMNext

------------------------------------------------------------------------------
(* The map and the statuses                                                 *)

\* Every step does to the groups one of four things.
LEMMA GroupMoves ==
  ASSUME TypeOK, [TMNext]_tmVars
  PROVE  \/ UNCHANGED <<taskGroupMap, taskStatus>>
         \/ \E h \in HttpThreads : \/ CreateTaskGroup(h)
                                   \/ CreateTaskProcess(h, TRUE)
         \/ \E t \in CbThreads : UpdateSet(t) \/ UpdateErase(t)
BY HttpFrame, UpdFrame DEF TMNext, tmVars

\* Only CreateTaskProcess inserts, a started group under its own id.
LEMMA MapStep == TMInv /\ [TMNext]_tmVars => MapInv'
<1> SUFFICES ASSUME TMInv, TypeOK', [TMNext]_tmVars PROVE MapInv'
  BY TypeStep
<1> USE DEF TMInv, TypeOK, TaskOrNull
<1>1. CASE UNCHANGED <<taskGroupMap, taskStatus>>
  BY <1>1 DEF MapInv
<1>2. ASSUME NEW h \in HttpThreads, CreateTaskGroup(h) PROVE MapInv'
  <2>1. /\ http[h].task \in Tasks
        /\ taskStatus[http[h].task] = "NONE"
    BY <1>2 DEF CreateTaskGroup, CreateInv, CreateOK
  <2>2. /\ taskGroupMap' = taskGroupMap
        /\ \A k \in Tasks : k # http[h].task => taskStatus'[k] = taskStatus[k]
    BY <1>2 DEF CreateTaskGroup
  <2> QED
    BY <2>1, <2>2 DEF MapInv, Started, Terminal
<1>3. ASSUME NEW h \in HttpThreads, CreateTaskProcess(h, TRUE) PROVE MapInv'
  BY <1>3 DEF CreateTaskProcess, CreateInv, CreateOK, MapInv, Started
<1>4. ASSUME NEW t \in CbThreads, UpdateSet(t) PROVE MapInv'
  BY <1>4 DEF UpdateSet, UpdateInv, UpdateOK, Updating, MapInv, Started
<1>5. ASSUME NEW t \in CbThreads, UpdateErase(t) PROVE MapInv'
  BY <1>5 DEF UpdateErase, MapInv
<1> QED
  BY <1>1, <1>2, <1>3, <1>4, <1>5, GroupMoves

\* A RUNNING group stays listed: CreateTaskProcess inserts it under an id that
\* lists nothing, and UpdateErase erases an id whose group has ended.
LEMMA RunningStep == TMInv /\ [TMNext]_tmVars => RunningListed'
<1> SUFFICES ASSUME TMInv, TypeOK', [TMNext]_tmVars PROVE RunningListed'
  BY TypeStep
<1> USE IdOfAssumption DEF TMInv, TypeOK, TaskOrNull
<1>1. CASE UNCHANGED <<taskGroupMap, taskStatus>>
  BY <1>1 DEF RunningListed
<1>2. ASSUME NEW h \in HttpThreads, CreateTaskGroup(h) PROVE RunningListed'
  BY <1>2 DEF CreateTaskGroup, RunningListed
<1>3. ASSUME NEW h \in HttpThreads, CreateTaskProcess(h, TRUE)
      PROVE RunningListed'
  <2>1. /\ http[h].task \in Tasks
        /\ http[h].id = IdOf[http[h].task]
        /\ taskGroupMap[http[h].id] = Null
    BY <1>3 DEF CreateTaskProcess, CreateInv, CreateOK
  <2> QED
    BY <1>3, <2>1, NullAssumption DEF CreateTaskProcess, RunningListed
<1>4. ASSUME NEW t \in CbThreads, UpdateSet(t) PROVE RunningListed'
  BY <1>4 DEF UpdateSet, UpdateInv, UpdateOK, Updating, Terminal, RunningListed
<1>5. ASSUME NEW t \in CbThreads, UpdateErase(t) PROVE RunningListed'
  <2>1. /\ upd[t].task \in Tasks
        /\ taskGroupMap[upd[t].id] = upd[t].task
        /\ taskStatus[upd[t].task] \in Terminal
    BY <1>5 DEF UpdateErase, UpdateInv, UpdateOK, Updating
  <2> QED
    BY <1>5, <2>1 DEF UpdateErase, RunningListed, Terminal
<1> QED
  BY <1>1, <1>2, <1>3, <1>4, <1>5, GroupMoves

\* A group that ends is ended by a thread that goes on to erase it.
LEMMA LeavingStep == TMInv /\ [TMNext]_tmVars => TerminalLeaving'
<1> SUFFICES ASSUME TypeOK, MapInv, TerminalLeaving, CreateInv, UpdateInv,
                    [TMNext]_tmVars
             PROVE TerminalLeaving'
  BY DEF TMInv
<1> USE DEF TypeOK, TaskOrNull
<1> DEFINE Leaves(t, i) == /\ upd[t].pc \in {"report", "send", "erase"}
                           /\ upd[t].id = i
<1>1. ASSUME NEW h \in HttpThreads, HttpStep(h) \/ Request(h)
      PROVE TerminalLeaving'
  <2>1. upd' = upd
    BY <1>1, HttpFrame
  <2>2. CASE UNCHANGED <<taskGroupMap, taskStatus>>
    BY <2>1, <2>2 DEF TerminalLeaving
  <2>3. CASE CreateTaskGroup(h)
    BY <2>1, <2>3 DEF CreateTaskGroup, CreateInv, CreateOK, TerminalLeaving, Terminal
  <2>4. CASE CreateTaskProcess(h, TRUE)
    BY <2>1, <2>4 DEF CreateTaskProcess, CreateInv, CreateOK, TerminalLeaving, Terminal
  <2> QED
    BY <1>1, <2>2, <2>3, <2>4, HttpFrame
<1>2. ASSUME NEW t \in CbThreads,
             \/ UpdStep(t)
             \/ \E id \in TaskIds, s \in Terminal : UpdateCall(t, id, s)
      PROVE TerminalLeaving'
  <2>1. \A u \in CbThreads \ {t} : upd'[u] = upd[u]
    BY <1>2, UpdFrame
  <2>2. CASE UpdateSet(t)
    <3>1. /\ upd[t].id \in TaskIds
          /\ upd[t].task \in Tasks
          /\ taskGroupMap[upd[t].id] = upd[t].task
          /\ taskStatus[upd[t].task] # upd[t].to
      BY <2>2 DEF UpdateSet, UpdateInv, UpdateOK, Updating, Terminal
    <3>2. /\ taskGroupMap' = taskGroupMap
          /\ \A k \in Tasks \ {upd[t].task} : taskStatus'[k] = taskStatus[k]
          /\ upd' = [upd EXCEPT ![t].pc = "report"]
      BY <2>2, <3>1 DEF UpdateSet
    <3>3. Leaves(t, upd[t].id)'
      <4>1. upd'[t] = [upd[t] EXCEPT !.pc = "report"]
        BY <3>2
      <4>2. upd[t] \in Upd
        OBVIOUS
      <4> QED
        BY <4>1, <4>2 DEF Upd
    <3>4. \A i \in TaskIds \ {upd[t].id} : taskGroupMap[i] # upd[t].task
      BY <3>1, NullAssumption DEF MapInv
    <3>5. ASSUME NEW u \in CbThreads, NEW i \in TaskIds, Leaves(u, i)
          PROVE Leaves(u, i)'
      <4>1. u # t
        BY <2>2, <3>5 DEF UpdateSet
      <4>2. upd'[u] = upd[u]
        BY <2>1, <4>1
      <4> QED
        BY <3>5, <4>2
    <3> QED
      BY <3>1, <3>2, <3>3, <3>4, <3>5 DEF TerminalLeaving
  <2>3. CASE UpdateErase(t)
    <3>1. /\ taskGroupMap'[upd[t].id] = Null
          /\ taskStatus' = taskStatus
          /\ \A i \in TaskIds \ {upd[t].id} : taskGroupMap'[i] = taskGroupMap[i]
      BY <2>3 DEF UpdateErase, UpdateInv, UpdateOK, Updating
    <3>2. ASSUME NEW i \in TaskIds \ {upd[t].id}, NEW u \in CbThreads, Leaves(u, i)
          PROVE Leaves(u, i)'
      BY <2>1, <3>2
    <3> QED
      BY <3>1, <3>2 DEF TerminalLeaving
  <2>4. CASE /\ UNCHANGED <<taskGroupMap, taskStatus>>
             /\ ~ UpdateSet(t) /\ ~ UpdateErase(t)
    <3>1. ASSUME NEW i \in TaskIds, Leaves(t, i) PROVE Leaves(t, i)'
      <4>1. UpdateReport(t) \/ UpdateSent(t)
        BY <1>2, <2>4, <3>1 DEF UpdStep, UpdateCall, UpdateFind, UpdateNotify
      <4> QED
        BY <3>1, <4>1 DEF UpdateReport, UpdateSent, Upd
    <3>2. \A u \in CbThreads, i \in TaskIds : Leaves(u, i) => Leaves(u, i)'
      BY <2>1, <3>1
    <3> QED
      BY <2>4, <3>2 DEF TerminalLeaving
  <2> QED
    BY <1>2, <2>2, <2>3, <2>4, UpdFrame
<1>3. CASE UNCHANGED tmVars
  BY <1>3 DEF tmVars, TerminalLeaving
<1> QED
  BY <1>1, <1>2, <1>3 DEF TMNext

------------------------------------------------------------------------------
(* The threads                                                              *)

\* What the moves of the groups do to each status and each entry.
LEMMA StatusMoves ==
  ASSUME TMInv, [TMNext]_tmVars, NEW k \in Tasks
  PROVE  /\ taskStatus[k] \in Terminal => taskStatus'[k] = taskStatus[k]
         /\ taskStatus[k] = "RUNNING" => taskStatus'[k] \in Started
<1> USE DEF TMInv, TypeOK
<1>1. CASE UNCHANGED <<taskGroupMap, taskStatus>>
  BY <1>1 DEF Started
<1>2. ASSUME NEW h \in HttpThreads, CreateTaskGroup(h), taskStatus[k] \in Started
      PROVE taskStatus'[k] = taskStatus[k]
  BY <1>2 DEF CreateTaskGroup, CreateInv, CreateOK, Started, Terminal
<1>3. ASSUME NEW h \in HttpThreads, CreateTaskProcess(h, TRUE),
             taskStatus[k] \in Started
      PROVE taskStatus'[k] = taskStatus[k]
  BY <1>3 DEF CreateTaskProcess, CreateInv, CreateOK, Started, Terminal
<1>4. ASSUME NEW t \in CbThreads, UpdateSet(t)
      PROVE  /\ taskStatus[k] \in Terminal => taskStatus'[k] = taskStatus[k]
             /\ taskStatus[k] = "RUNNING" => taskStatus'[k] \in Started
  BY <1>4 DEF UpdateSet, UpdateInv, UpdateOK, Updating, Started, Terminal
<1>5. ASSUME NEW t \in CbThreads, UpdateErase(t)
      PROVE taskStatus' = taskStatus
  BY <1>5 DEF UpdateErase
<1> QED
  BY <1>1, <1>2, <1>3, <1>4, <1>5, GroupMoves DEF Started

\* A handler keeps the started group it found: statuses only move forward.
LEMMA HandlerStep == TMInv /\ [TMNext]_tmVars => HandlerInv'
<1> SUFFICES ASSUME TMInv, [TMNext]_tmVars, NEW g \in HttpThreads
             PROVE  HandlerOK(g)'
  BY DEF HandlerInv
<1>1. \A k \in Tasks : taskStatus[k] \in Started => taskStatus'[k] \in Started
  BY StatusMoves DEF Started
<1>2. CASE http'[g] = http[g]
  BY <1>1, <1>2 DEF TMInv, HandlerInv, HandlerOK
<1>3. CASE Request(g)
  <2> USE IdOfAssumption DEF TMInv, TypeOK, HandlerOK, HttpIdle
  <2>1. ASSUME NEW k \in Tasks, ReceiveCreate(g, k) PROVE HandlerOK(g)'
    BY <2>1 DEF ReceiveCreate
  <2>2. ASSUME NEW op, NEW id \in TaskIds, Receive(g, op, id)
        PROVE HandlerOK(g)'
    BY <2>2 DEF Receive
  <2> QED
    BY <1>3, <2>1, <2>2 DEF Request
<1>4. CASE HttpStep(g)
  <2> USE DEF TMInv, TypeOK, Http, HandlerOK, HandlerInv, TaskOrNull
  <2>1. CASE LockMsg(g)
    BY <2>1 DEF LockMsg
  <2>2. CASE ReturnMsg(g) \/ Throw(g) \/ CreateTaskGroup(g)
    BY <2>2 DEF ReturnMsg, HttpIdle, Throw, CreateTaskGroup, Answer
  <2>3. CASE CreateTaskProcess(g, TRUE)
    BY <2>3 DEF CreateTaskProcess, CreateInv, CreateOK, Started
  <2>4. CASE CreateTaskProcess(g, FALSE)
    BY <2>4 DEF CreateTaskProcess, Answer
  <2>5. CASE DeleteFind(g)
    BY <2>5 DEF DeleteFind, FindTask, Answer, MapInv
  <2>6. CASE DeleteStatus(g)
    BY <2>6 DEF DeleteStatus, Answer
  <2>7. ASSUME NEW ok \in BOOLEAN, DeleteTaskProcess(g, ok) PROVE HandlerOK(g)'
    BY <2>7 DEF DeleteTaskProcess, Answer
  <2>8. CASE QueryFind(g)
    BY <2>8 DEF QueryFind, FindTask, MapInv
  <2>9. CASE QueryDetail(g) \/ PostSent(g) \/ PostNotify(g)
    BY <2>9 DEF QueryDetail, PostSent, PostNotify
  <2>10. CASE PostReport(g)
    BY <2>10 DEF PostReport
  <2> QED
    BY <1>4, <2>1, <2>2, <2>3, <2>4, <2>5, <2>6, <2>7, <2>8, <2>9, <2>10
       DEF HttpStep
<1> QED
  BY <1>2, <1>3, <1>4, HttpFrame, UpdFrame DEF TMNext, tmVars, TMInv

\* Two creates never hold the same task: ReceiveCreate takes a fresh one.
LEMMA OwnTaskStep == TMInv /\ [TMNext]_tmVars => OwnTask'
<1> SUFFICES ASSUME TMInv, [TMNext]_tmVars PROVE OwnTask'
  OBVIOUS
<1> USE DEF TMInv, TypeOK, CreateInv
<1>1. ASSUME NEW h \in HttpThreads, Request(h) PROVE OwnTask'
  <2>1. \A g \in HttpThreads \ {h} : http'[g] = http[g]
    BY <1>1, HttpFrame
  <2>2. ASSUME NEW k \in Tasks, ReceiveCreate(h, k) PROVE OwnTask'
    <3>1. http'[h].task = k
      BY <2>2 DEF ReceiveCreate, HttpIdle
    <3>2. \A g \in HttpThreads : http[g].task # k
      BY <2>2 DEF ReceiveCreate
    <3> QED
      BY <2>1, <3>1, <3>2 DEF OwnTask
  <2>3. ASSUME NEW op \in {"delete", "query"}, NEW id, Receive(h, op, id)
        PROVE OwnTask'
    <3>1. http'[h].op # "create"
      BY <2>3 DEF Receive, HttpIdle
    <3> QED
      BY <2>1, <3>1 DEF OwnTask
  <2> QED
    BY <1>1, <2>2, <2>3 DEF Request
<1>2. ASSUME NEW h \in HttpThreads, HttpStep(h) PROVE OwnTask'
  <2>1. \A g \in HttpThreads \ {h} : http'[g] = http[g]
    BY <1>2, HttpFrame
  <2>2. http'[h].op = "create" =>
           http[h].op = "create" /\ http'[h].task = http[h].task
    <3> USE NullAssumption DEF Http
    <3>1. CASE LockMsg(h) \/ Throw(h) \/ CreateTaskGroup(h)
      BY <3>1 DEF LockMsg, Throw, CreateTaskGroup, Answer
    <3>2. CASE ReturnMsg(h)
      BY <3>2 DEF ReturnMsg, HttpIdle
    <3>3. ASSUME NEW ok \in BOOLEAN, CreateTaskProcess(h, ok)
          PROVE http'[h].op = "create" =>
                   http[h].op = "create" /\ http'[h].task = http[h].task
      BY <3>3 DEF CreateTaskProcess, Answer
    <3>4. CASE DeleteFind(h) \/ QueryFind(h)
      BY <3>4 DEF DeleteFind, QueryFind, Answer
    <3>5. CASE DeleteStatus(h) \/ QueryDetail(h)
      BY <3>5 DEF DeleteStatus, QueryDetail, Answer
    <3>6. ASSUME NEW ok \in BOOLEAN, DeleteTaskProcess(h, ok)
          PROVE http'[h].op = "create" =>
                   http[h].op = "create" /\ http'[h].task = http[h].task
      BY <3>6 DEF DeleteTaskProcess, Answer
    <3>7. CASE PostReport(h) \/ PostSent(h) \/ PostNotify(h)
      BY <3>7 DEF PostReport, PostSent, PostNotify
    <3> QED
      BY <1>2, <3>1, <3>2, <3>3, <3>4, <3>5, <3>6, <3>7 DEF HttpStep
  <2> QED
    BY <2>1, <2>2 DEF OwnTask
<1>3. CASE http' = http
  BY <1>3 DEF OwnTask
<1> QED
  BY <1>1, <1>2, <1>3, UpdFrame DEF TMNext, tmVars

\* Between CreateTaskGroup and the insertion nobody inserts under the id,
\* since only the holder of msg_concurrency_mutex_ inserts.
LEMMA CreateStep == TMInv /\ [TMNext]_tmVars => CreateInv'
<1> SUFFICES ASSUME TMInv, [TMNext]_tmVars, NEW g \in HttpThreads
             PROVE  CreateOK(g)'
  BY OwnTaskStep DEF CreateInv
<1> USE DEF TMInv, TypeOK
<1>1. CASE UNCHANGED <<taskGroupMap, taskStatus>> /\ http'[g] = http[g]
  BY <1>1 DEF CreateInv, CreateOK
<1>2. ASSUME NEW h \in HttpThreads \ {g}, http'[g] = http[g],
             CreateTaskGroup(h)
      PROVE CreateOK(g)'
  <2>1. /\ http[h].task \in Tasks /\ http[h].op = "create"
        /\ http[g].pc # "create_func"
    BY <1>2 DEF CreateTaskGroup, CreateInv, CreateOK, LockInv, Locked
  <2>2. /\ taskGroupMap' = taskGroupMap
        /\ \A k \in Tasks \ {http[h].task} : taskStatus'[k] = taskStatus[k]
    BY <1>2 DEF CreateTaskGroup
  <2>3. http[g].op = "create" => http[g].task # http[h].task
    BY <2>1 DEF CreateInv, OwnTask
  <2> QED
    BY <1>2, <2>1, <2>2, <2>3 DEF CreateInv, CreateOK
<1>3. ASSUME NEW h \in HttpThreads \ {g}, http'[g] = http[g],
             CreateTaskProcess(h, TRUE)
      PROVE CreateOK(g)'
  <2>1. /\ http[h].task \in Tasks /\ http[h].op = "create"
        /\ http[g].pc # "create_func"
    BY <1>3 DEF CreateTaskProcess, CreateInv, CreateOK, LockInv, Locked
  <2>2. \A k \in Tasks \ {http[h].task} : taskStatus'[k] = taskStatus[k]
    BY <1>3 DEF CreateTaskProcess
  <2>3. http[g].op = "create" => http[g].task # http[h].task
    BY <2>1 DEF CreateInv, OwnTask
  <2> QED
    BY <1>3, <2>1, <2>2, <2>3 DEF CreateInv, CreateOK
<1>4. ASSUME NEW t \in CbThreads, UpdateSet(t), http' = http
      PROVE CreateOK(g)'
  <2>1. /\ taskGroupMap' = taskGroupMap
        /\ upd[t].task \in Tasks /\ taskStatus[upd[t].task] = "RUNNING"
        /\ \A k \in Tasks \ {upd[t].task} : taskStatus'[k] = taskStatus[k]
    BY <1>4 DEF UpdateSet, UpdateInv, UpdateOK
  <2> QED
    BY <1>4, <2>1 DEF CreateInv, CreateOK
<1>5. ASSUME NEW t \in CbThreads, UpdateErase(t), http' = http
      PROVE CreateOK(g)'
  <2>1. /\ taskStatus' = taskStatus
        /\ \A i \in TaskIds : taskGroupMap[i] = Null => taskGroupMap'[i] = Null
    BY <1>5 DEF UpdateErase
  <2> QED
    BY <1>5, <2>1, IdOfAssumption DEF CreateInv, CreateOK
<1>6. CASE Request(g)
  <2> USE DEF HttpIdle, CreateOK
  <2>1. ASSUME NEW k \in Tasks, ReceiveCreate(g, k) PROVE CreateOK(g)'
    BY <2>1 DEF ReceiveCreate
  <2>2. ASSUME NEW op \in {"delete", "query"}, NEW id, Receive(g, op, id)
        PROVE CreateOK(g)'
    BY <2>2 DEF Receive
  <2> QED
    BY <1>6, <2>1, <2>2 DEF Request
<1>7. CASE HttpStep(g)
  <2> USE DEF Http, CreateInv, CreateOK, HandlerInv, HandlerOK
  <2>1. CASE LockMsg(g) \/ ReturnMsg(g) \/ Throw(g)
    BY <2>1 DEF LockMsg, ReturnMsg, Throw, HttpIdle
  <2>2. CASE CreateTaskGroup(g)
    BY <2>2 DEF CreateTaskGroup, Answer, FindTask
  <2>3. CASE CreateTaskProcess(g, TRUE)
    BY <2>3 DEF CreateTaskProcess
  <2>4. CASE CreateTaskProcess(g, FALSE)
    BY <2>4 DEF CreateTaskProcess, Answer
  <2>5. CASE DeleteFind(g) \/ QueryFind(g)
    BY <2>5 DEF DeleteFind, QueryFind, Answer
  <2>6. CASE DeleteStatus(g)
    BY <2>6 DEF DeleteStatus, Answer
  <2>7. ASSUME NEW ok \in BOOLEAN, DeleteTaskProcess(g, ok) PROVE CreateOK(g)'
    BY <2>7 DEF DeleteTaskProcess, Answer
  <2>8. CASE QueryDetail(g)
    BY <2>8 DEF QueryDetail
  <2>9. CASE PostReport(g) \/ PostSent(g) \/ PostNotify(g)
    BY <2>9 DEF PostReport, PostSent, PostNotify
  <2> QED
    BY <1>7, <2>1, <2>2, <2>3, <2>4, <2>5, <2>6, <2>7, <2>8, <2>9 DEF HttpStep
<1>8. ASSUME NEW h \in HttpThreads, HttpStep(h) \/ Request(h) PROVE CreateOK(g)'
  BY <1>1, <1>2, <1>3, <1>6, <1>7, <1>8, HttpFrame
<1>9. ASSUME NEW t \in CbThreads,
             \/ UpdStep(t)
             \/ \E id \in TaskIds, s \in Terminal : UpdateCall(t, id, s)
      PROVE CreateOK(g)'
  BY <1>1, <1>4, <1>5, <1>9, UpdFrame
<1>10. CASE UNCHANGED tmVars
  BY <1>1, <1>10 DEF tmVars
<1> QED
  BY <1>8, <1>9, <1>10 DEF TMNext

\* Two threads never update the same id (the condition of UpdateCall).
LEMMA OwnIdStep == TMInv /\ [TMNext]_tmVars => OwnId'
<1> SUFFICES ASSUME TMInv, [TMNext]_tmVars PROVE OwnId'
  OBVIOUS
<1> USE DEF TMInv, TypeOK, UpdateInv
<1>1. ASSUME NEW t \in CbThreads, UpdStep(t) PROVE OwnId'
  <2>1. \A u \in CbThreads \ {t} : upd'[u] = upd[u]
    BY <1>1, UpdFrame
  <2>2. Updating(t)' => Updating(t) /\ upd'[t].id = upd[t].id
    BY <1>1 DEF UpdStep, Updating, Upd, UpdIdle, UpdateFind, UpdateSet,
                UpdateReport, UpdateSent, UpdateErase, UpdateNotify
  <2> QED
    BY <2>1, <2>2 DEF OwnId, Updating
<1>2. ASSUME NEW t \in CbThreads, NEW id \in TaskIds, NEW s \in Terminal,
             UpdateCall(t, id, s)
      PROVE OwnId'
  <2>1. /\ \A u \in CbThreads \ {t} : upd'[u] = upd[u]
        /\ upd'[t].id = id
        /\ \A u \in CbThreads : Updating(u) => upd[u].id # id
    BY <1>2 DEF UpdateCall, UpdIdle
  <2> QED
    BY <2>1 DEF OwnId, Updating
<1>3. CASE upd' = upd
  BY <1>3 DEF OwnId, Updating
<1> QED
  BY <1>1, <1>2, <1>3, HttpFrame DEF TMNext, tmVars

\* The group found by FindTask stays listed until this thread erases it:
\* creates find the id taken, and no other thread updates it.
LEMMA UpdateStep == TMInv /\ [TMNext]_tmVars => UpdateInv'
<1> SUFFICES ASSUME TMInv, [TMNext]_tmVars, NEW t \in CbThreads
             PROVE  UpdateOK(t)'
  BY OwnIdStep DEF UpdateInv
<1> USE DEF TMInv, TypeOK
<1>1. CASE UNCHANGED <<taskGroupMap, taskStatus>> /\ upd'[t] = upd[t]
  BY <1>1 DEF UpdateInv, UpdateOK, Updating
<1>2. ASSUME NEW h \in HttpThreads, upd' = upd, CreateTaskGroup(h)
      PROVE UpdateOK(t)'
  <2>1. /\ taskGroupMap' = taskGroupMap
        /\ taskStatus[http[h].task] = "NONE"
        /\ \A k \in Tasks \ {http[h].task} : taskStatus'[k] = taskStatus[k]
    BY <1>2 DEF CreateTaskGroup, CreateInv, CreateOK
  <2> QED
    BY <1>2, <2>1 DEF UpdateInv, UpdateOK, Updating, Terminal
<1>3. ASSUME NEW h \in HttpThreads, upd' = upd, CreateTaskProcess(h, TRUE)
      PROVE UpdateOK(t)'
  <2>1. /\ taskStatus[http[h].task] = "PENDING"
        /\ taskGroupMap[http[h].id] = Null
        /\ \A k \in Tasks \ {http[h].task} : taskStatus'[k] = taskStatus[k]
        /\ \A i \in TaskIds \ {http[h].id} : taskGroupMap'[i] = taskGroupMap[i]
    BY <1>3 DEF CreateTaskProcess, CreateInv, CreateOK
  <2> QED
    BY <1>3, <2>1, NullAssumption DEF UpdateInv, UpdateOK, Updating, Terminal
<1>4. ASSUME NEW u \in CbThreads \ {t}, upd'[t] = upd[t],
             UpdateSet(u) \/ UpdateErase(u)
      PROVE UpdateOK(t)'
  <2>1. /\ upd[u].id \in TaskIds /\ upd[u].task \in Tasks
        /\ taskGroupMap[upd[u].id] = upd[u].task
        /\ Updating(u)
        /\ Updating(t) => upd[t].id # upd[u].id /\ upd[t].id \in TaskIds
    BY <1>4 DEF UpdateSet, UpdateErase, UpdateInv, UpdateOK, Updating, OwnId
  <2>2. IdOf[upd[u].task] = upd[u].id
    BY <2>1, NullAssumption DEF MapInv
  <2>3. upd[t].pc \in {"set", "report", "send", "erase"} =>
           upd[t].task # upd[u].task
    BY <2>1, <2>2, NullAssumption DEF MapInv, UpdateInv, UpdateOK, Updating
  <2>4. /\ \A k \in Tasks \ {upd[u].task} : taskStatus'[k] = taskStatus[k]
        /\ \A i \in TaskIds \ {upd[u].id} : taskGroupMap'[i] = taskGroupMap[i]
    BY <1>4 DEF UpdateSet, UpdateErase
  <2> QED
    BY <1>4, <2>1, <2>3, <2>4 DEF UpdateInv, UpdateOK, Updating
<1>5. ASSUME NEW id \in TaskIds, NEW s \in Terminal, UpdateCall(t, id, s)
      PROVE UpdateOK(t)'
  BY <1>5 DEF UpdateCall, UpdIdle, UpdateOK, Updating
<1>6. CASE UpdStep(t)
  <2> USE DEF Upd, UpdateInv, UpdateOK, Updating
  <2>1. CASE UpdateFind(t)
    <3>1. CASE taskGroupMap[upd[t].id] = Null
      BY <2>1, <3>1 DEF UpdateFind, FindTask, UpdIdle
    <3>2. CASE taskGroupMap[upd[t].id] # Null
      <4> DEFINE k == taskGroupMap[upd[t].id]
      <4>1. /\ upd[t].id \in TaskIds /\ upd[t].to \in Terminal
            /\ k \in Tasks
            /\ taskStatus[k] = "RUNNING"
        <5>1. upd[t].id \in TaskIds /\ upd[t].to \in Terminal
          BY <2>1 DEF UpdateFind
        <5>2. k \in Tasks /\ taskStatus[k] \in Started
          BY <3>2, <5>1 DEF MapInv, TaskOrNull
        <5>3. taskStatus[k] \notin Terminal
          BY <2>1, <3>2, <5>1 DEF UpdateFind, TerminalLeaving, OwnId
        <5> QED
          BY <5>1, <5>2, <5>3 DEF Started
      <4>2. /\ upd' = [upd EXCEPT ![t].pc = "set", ![t].task = k]
            /\ UNCHANGED <<taskGroupMap, taskStatus>>
        BY <2>1, <3>2 DEF UpdateFind, FindTask
      <4> QED
        BY <4>1, <4>2
    <3> QED
      BY <3>1, <3>2
  <2>2. CASE UpdateSet(t)
    BY <2>2 DEF UpdateSet, UpdIdle, Terminal
  <2>3. CASE UpdateReport(t)
    BY <2>3 DEF UpdateReport
  <2>4. CASE UpdateSent(t)
    BY <2>4 DEF UpdateSent
  <2>5. CASE UpdateErase(t) \/ UpdateNotify(t)
    BY <2>5 DEF UpdateErase, UpdateNotify, UpdIdle
  <2> QED
    BY <1>6, <2>1, <2>2, <2>3, <2>4, <2>5 DEF UpdStep
<1>7. ASSUME NEW h \in HttpThreads, HttpStep(h) \/ Request(h) PROVE UpdateOK(t)'
  BY <1>1, <1>2, <1>3, <1>7, HttpFrame
<1>8. ASSUME NEW u \in CbThreads,
             \/ UpdStep(u)
             \/ \E id \in TaskIds, s \in Terminal : UpdateCall(u, id, s)
      PROVE UpdateOK(t)'
  BY <1>1, <1>4, <1>5, <1>6, <1>8, UpdFrame
<1>9. CASE UNCHANGED tmVars
  BY <1>1, <1>9 DEF tmVars
<1> QED
  BY <1>7, <1>8, <1>9 DEF TMNext

------------------------------------------------------------------------------
(* The theorems                                                             *)

\* The initial state satisfies the inductive invariant.
LEMMA InitInv == TMInit => TMInv
<1> SUFFICES ASSUME TMInit PROVE TMInv
  OBVIOUS
<1> USE NullAssumption DEF TMInit, HttpIdle, UpdIdle
<1>1. TypeOK
  BY DEF TypeOK, Http, Upd, HttpPC, UpdPC, Codes, OpOrNone, IdOrNull,
         TaskOrNull, StatusOrNull, Status
<1>2. LockInv
  BY DEF LockInv, Locked
<1>3. MapInv /\ RunningListed /\ TerminalLeaving
  BY DEF MapInv, RunningListed, TerminalLeaving
<1>4. CreateInv /\ HandlerInv
  BY DEF CreateInv, OwnTask, CreateOK, HandlerInv, HandlerOK
<1>5. UpdateInv
  BY DEF UpdateInv, OwnId, UpdateOK, Updating
<1> QED
  BY <1>1, <1>2, <1>3, <1>4, <1>5 DEF TMInv

\* Every step of TMNext, and a stutter, preserves the inductive invariant.
LEMMA StepInv == TMInv /\ [TMNext]_tmVars => TMInv'
BY TypeStep, LockStep, MapStep, RunningStep, LeavingStep, CreateStep,
   HandlerStep, UpdateStep DEF TMInv

\* The inductive invariant of the task manager holds in every reachable state:
\* for any number of tasks, ids, HTTP threads and engine threads.
THEOREM Invariance == TMSpec => []TMInv
BY InitInv, StepInv, PTL DEF TMSpec

\* No running task is lost from task_group_map_, whatever creates, deletes,
\* queries and status updates overlap.
THEOREM NoTaskLost == TMSpec => []RunningListed
<1>1. TMInv => RunningListed
  BY DEF TMInv
<1> QED
  BY <1>1, Invariance, PTL

\* An ended task that is still listed has a thread that is about to erase it.
THEOREM EndedLeaves == TMSpec => []TerminalLeaving
<1>1. TMInv => TerminalLeaving
  BY DEF TMInv
<1> QED
  BY <1>1, Invariance, PTL

\* No create replaces a listed group: msg_concurrency_mutex_ makes the lookup in
\* CreateTaskGroup and the insertion in CreateTaskProcess one step for every
\* other handler, and UpdateTaskStatus only removes.
THEOREM CreateNeverOverwrites == TMSpec => NoOverwrite
<1> DEFINE A == \A i \in TaskIds :
                   taskGroupMap[i] # Null =>
                      taskGroupMap'[i] \in {taskGroupMap[i], Null}
<1>1. TMInv /\ [TMNext]_tmVars => A \/ UNCHANGED tmVars
  <2> SUFFICES ASSUME TMInv, [TMNext]_tmVars PROVE A
    OBVIOUS
  <2> USE DEF TMInv, TypeOK
  <2>1. ASSUME NEW h \in HttpThreads, CreateTaskGroup(h) PROVE A
    BY <2>1 DEF CreateTaskGroup
  <2>2. ASSUME NEW h \in HttpThreads, CreateTaskProcess(h, TRUE) PROVE A
    BY <2>2 DEF CreateTaskProcess, CreateInv, CreateOK
  <2>3. ASSUME NEW t \in CbThreads, UpdateSet(t) \/ UpdateErase(t) PROVE A
    BY <2>3 DEF UpdateSet, UpdateErase
  <2> QED
    BY <2>1, <2>2, <2>3, GroupMoves
<1> QED
  BY <1>1, Invariance, PTL DEF TMSpec, NoOverwrite

\* A task ends once: its terminal status is never overwritten.
THEOREM TasksEndOnce == TMSpec => EndsOnce
<1> DEFINE A == \A k \in Tasks :
                   /\ taskStatus[k] \in Terminal => taskStatus'[k] = taskStatus[k]
                   /\ taskStatus[k] = "RUNNING" => taskStatus'[k] \in Started
<1>1. TMInv /\ [TMNext]_tmVars => A \/ UNCHANGED tmVars
  BY StatusMoves
<1> QED
  BY <1>1, Invariance, PTL DEF TMSpec, EndsOnce

\* The task manager, with its threads and its two mutexes, implements the
\* abstract registry of tasks.
THEOREM Refinement == TMSpec => ImplementsRegistry
<1> USE DEF Registry!Init, Registry!vars, Registry!Next, Registry!Accept,
            Registry!End, Registry!Forget, Registry!Ended, phaseOf
<1>1. TMInit => Registry!Init
  BY DEF TMInit
<1>2. TMInv /\ [TMNext]_tmVars => [Registry!Next]_Registry!vars
  <2> SUFFICES ASSUME TMInv, [TMNext]_tmVars
               PROVE  [Registry!Next]_Registry!vars
    OBVIOUS
  <2> USE DEF TMInv, TypeOK
  <2>1. CASE UNCHANGED <<taskGroupMap, taskStatus>>
    BY <2>1
  <2>2. ASSUME NEW h \in HttpThreads, CreateTaskGroup(h)
        PROVE  UNCHANGED Registry!vars
    BY <2>2 DEF CreateTaskGroup, CreateInv, CreateOK
  <2>3. ASSUME NEW h \in HttpThreads, CreateTaskProcess(h, TRUE)
        PROVE  Registry!Accept(http[h].task)
    BY <2>3 DEF CreateTaskProcess, CreateInv, CreateOK
  <2>4. ASSUME NEW t \in CbThreads, UpdateSet(t)
        PROVE  Registry!End(upd[t].task)
    <3> DEFINE k == upd[t].task
               s == upd[t].to
    <3>1. /\ k \in Tasks /\ s \in Terminal
          /\ taskStatus[k] = "RUNNING"
          /\ upd[t].id \in TaskIds /\ taskGroupMap[upd[t].id] = k
      BY <2>4 DEF UpdateSet, UpdateInv, UpdateOK, Updating
    <3>2. IdOf[k] = upd[t].id
      BY <3>1, NullAssumption DEF MapInv
    <3>3. /\ taskStatus' = [taskStatus EXCEPT ![k] = s]
          /\ taskGroupMap' = taskGroupMap
      BY <2>4, <3>1 DEF UpdateSet, Terminal
    <3> HIDE DEF k, s
    <3>4. phaseOf' = [phaseOf EXCEPT ![k] = s]
      <4>1. ASSUME NEW j \in Tasks
            PROVE  phaseOf'[j] = [phaseOf EXCEPT ![k] = s][j]
        <5>1. CASE j = k
          BY <3>1, <3>3, <5>1 DEF Terminal
        <5>2. CASE j # k
          BY <3>3, <5>2
        <5> QED
          BY <5>1, <5>2
      <4> QED
        BY <4>1
    <3>5. phaseOf[k] = "RUNNING" /\ s \in Registry!Ended
      BY <3>1 DEF Terminal
    <3> HIDE DEF phaseOf
    <3>6. Registry!End(k)
      BY <3>1, <3>2, <3>3, <3>4, <3>5
    <3> QED
      BY <3>6 DEF k
  <2>5. ASSUME NEW t \in CbThreads, UpdateErase(t)
        PROVE  Registry!Forget(upd[t].task)
    <3> DEFINE k == upd[t].task
    <3>1. /\ k \in Tasks /\ taskStatus[k] \in Terminal
          /\ upd[t].id \in TaskIds /\ taskGroupMap[upd[t].id] = k
      BY <2>5 DEF UpdateErase, UpdateInv, UpdateOK, Updating
    <3>2. IdOf[k] = upd[t].id
      BY <3>1, NullAssumption DEF MapInv
    <3>3. /\ taskGroupMap' = [taskGroupMap EXCEPT ![upd[t].id] = Null]
          /\ taskStatus' = taskStatus
      BY <2>5 DEF UpdateErase
    <3>4. phaseOf[k] \in Registry!Ended
      BY <3>1 DEF Terminal
    <3> QED
      BY <3>1, <3>2, <3>3, <3>4
  <2>6. ASSUME NEW h \in HttpThreads, CreateTaskProcess(h, TRUE)
        PROVE  http[h].task \in Tasks
    BY <2>6 DEF CreateTaskProcess, CreateInv, CreateOK
  <2>7. ASSUME NEW t \in CbThreads, UpdateSet(t) \/ UpdateErase(t)
        PROVE  upd[t].task \in Tasks
    BY <2>7 DEF UpdateSet, UpdateErase, UpdateInv, UpdateOK
  <2> QED
    BY <2>1, <2>2, <2>3, <2>4, <2>5, <2>6, <2>7, GroupMoves
<1> QED
  BY <1>1, <1>2, Invariance, PTL DEF TMSpec, ImplementsRegistry, Registry!Spec
=============================================================================
