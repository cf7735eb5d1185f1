------------------------------ MODULE HeartBeat ------------------------------
(***************************************************************************)
(* The heartbeat thread of TaskManager, the callers that wake it with       *)
(* SendInstanceInfoToMA, and TaskManager::Stop, which joins it.             *)
(*                                                                         *)
(* stop_ and update_ are written under upload_mutex_, and the thread tests  *)
(* them under it before it sleeps, so each action below that mentions them  *)
(* is one critical section; only the test of the while loop is outside it.  *)
(***************************************************************************)
EXTENDS ModelArtsTypes

VARIABLES
    stop,     \* stop_
    update,   \* update_
    hb,       \* the thread: where it is, and the message it sends
    stopper   \* the thread that calls TaskManager::Stop

hbVars == <<stop, update, hb, stopper>>

------------------------------------------------------------------------------
\* "wait" is the entry of wait_for, "sleep" is blocked inside it.
HBPC == {"loop", "build", "send", "wait", "sleep", "done"}

HBTypeOK ==
    /\ stop \in BOOLEAN
    /\ update \in BOOLEAN
    /\ hb \in [pc : HBPC, info : [TaskIds -> Status \cup {Null}]]
    /\ stopper \in {"idle", "join", "done"}

NoInfo == [i \in TaskIds |-> Null]

\* StartInstanceHeartBeatThread has run.
HBInit ==
    /\ stop = FALSE
    /\ update = FALSE
    /\ hb = [pc |-> "loop", info |-> NoInfo]
    /\ stopper = "idle"

\* while (!stop_): stop_ is no atomic and is read here without the mutex, so
\* the thread may still see the value from before a concurrent Stop.
HBLoop ==
    /\ hb.pc = "loop"
    /\ \/ hb' = [hb EXCEPT !.pc = "build"]
       \/ stop /\ hb' = [hb EXCEPT !.pc = "done"]
    /\ UNCHANGED <<stop, update, stopper>>

\* GetInstanceInfo, under the mutex of the task map.
HBBuild(info) ==
    /\ hb.pc = "build"
    /\ hb' = [pc |-> "send", info |-> info]
    /\ UNCHANGED <<stop, update, stopper>>

\* Mutant: the flag is cleared when the message is sent, not when the thread
\* wakes up.
HBSent_ClearsUpdate ==
    /\ hb.pc = "send"
    /\ hb' = [pc |-> "wait", info |-> NoInfo]
    /\ update' = FALSE
    /\ UNCHANGED <<stop, stopper>>

\* Mutant: a failed send ends the thread.
HBSent_GivesUp ==
    /\ hb.pc = "send"
    /\ \E p \in {"wait", "done"} : hb' = [pc |-> p, info |-> NoInfo]
    /\ UNCHANGED <<stop, update, stopper>>

\* SendMsg returned: success or failure, the thread goes on to wait.
HBSent ==
    /\ hb.pc = "send"
    /\ hb' = [pc |-> "wait", info |-> NoInfo]
    /\ UNCHANGED <<stop, update, stopper>>

\* After wait_for: leave on stop_, else clear update_ and loop.
Woken ==
    IF stop
      THEN hb' = [hb EXCEPT !.pc = "done"] /\ UNCHANGED update
      ELSE hb' = [hb EXCEPT !.pc = "loop"] /\ update' = FALSE

\* Mutant: the predicate is not tested before sleeping.
HBWait_NoPredicate ==
    /\ hb.pc = "wait"
    /\ hb' = [hb EXCEPT !.pc = "sleep"]
    /\ UNCHANGED <<stop, update, stopper>>

\* wait_for tests its predicate first, and sleeps only when it is false.
HBWait ==
    /\ hb.pc = "wait"
    /\ IF stop \/ update
         THEN Woken
         ELSE hb' = [hb EXCEPT !.pc = "sleep"] /\ UNCHANGED update
    /\ UNCHANGED <<stop, stopper>>

\* wait_time_ seconds have passed.
HBTimeout ==
    /\ hb.pc = "sleep"
    /\ Woken
    /\ UNCHANGED <<stop, stopper>>

\* notify_one: a sleeping thread tests the predicate again.
Notified == hb' = IF hb.pc = "sleep" THEN [hb EXCEPT !.pc = "wait"] ELSE hb

\* Mutant: the flag is set, the thread is not notified.
SendInstanceInfoToMA_NoNotify ==
    /\ update' = TRUE
    /\ UNCHANGED <<stop, hb, stopper>>

\* SendInstanceInfoToMA.
SendInstanceInfoToMA ==
    /\ update' = TRUE
    /\ Notified
    /\ UNCHANGED <<stop, stopper>>

\* Mutant: Stop does not notify the thread.
StopCall_NoNotify ==
    /\ stopper = "idle"
    /\ stop' = TRUE
    /\ stopper' = "join"
    /\ UNCHANGED <<update, hb>>

\* TaskManager::Stop up to the join.
StopCall ==
    /\ stopper = "idle"
    /\ stop' = TRUE
    /\ Notified
    /\ stopper' = "join"
    /\ UNCHANGED update

\* The join returns when the thread has.
Joined ==
    /\ stopper = "join"
    /\ hb.pc = "done"
    /\ stopper' = "done"
    /\ UNCHANGED <<stop, update, hb>>

\* A step of the thread that needs nobody else.
HBStep == HBLoop \/ HBWait

=============================================================================
