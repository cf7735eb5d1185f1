----------------------------- MODULE TaskService -----------------------------
(***************************************************************************)
(* What the plugin promises the service and the host it runs on: the engine *)
(* works only for a task that is accepted, or is about to be; of the tasks  *)
(* with one id at most one is accepted at a time; a task ends when the      *)
(* engine no longer works for it, and for good; and a delete is confirmed   *)
(* only for a task that has ended.                                          *)
(***************************************************************************)
CONSTANTS Tasks, IdOf, Threads, None

VARIABLES
    life,       \* how far each task has come
    busy,       \* the tasks the engine works for
    confirmed   \* the task whose delete a thread is confirming, or None

sVars == <<life, busy, confirmed>>

Gone == {"ended", "forgotten"}

Init ==
    /\ life = [k \in Tasks |-> "new"]
    /\ busy = {}
    /\ confirmed = [h \in Threads |-> None]

Become(k, stage) == life' = [life EXCEPT ![k] = stage]

\* The engine begins with an input of the task, the first before it is
\* accepted.
Work(k) ==
    /\ life[k] \in {"new", "running"} /\ k \notin busy
    /\ busy' = busy \cup {k}
    /\ UNCHANGED <<life, confirmed>>

\* The engine is through with an input, was stopped, or has failed.
Rest(k) ==
    /\ life[k] = "running" /\ k \in busy
    /\ busy' = busy \ {k}
    /\ UNCHANGED <<life, confirmed>>

Accept(k) ==
    /\ life[k] = "new" /\ k \in busy
    /\ \A j \in Tasks : IdOf[j] = IdOf[k] => life[j] # "running"
    /\ Become(k, "running") /\ UNCHANGED <<busy, confirmed>>

\* A create is refused: nothing is left that works for it.
Refuse(k) ==
    /\ life[k] = "new" /\ k \notin busy
    /\ Become(k, "refused") /\ UNCHANGED <<busy, confirmed>>

End(k) ==
    /\ life[k] = "running" /\ k \notin busy
    /\ Become(k, "ended") /\ UNCHANGED <<busy, confirmed>>

\* Neither a query nor a delete finds the task any more.
Forget(k) ==
    /\ life[k] = "ended"
    /\ Become(k, "forgotten") /\ UNCHANGED <<busy, confirmed>>

\* A delete is answered 202, and the answer has left.
Confirm(h, k) ==
    /\ confirmed[h] = None /\ life[k] \in Gone
    /\ confirmed' = [confirmed EXCEPT ![h] = k]
    /\ UNCHANGED <<life, busy>>

Answered(h) ==
    /\ confirmed[h] # None
    /\ confirmed' = [confirmed EXCEPT ![h] = None]
    /\ UNCHANGED <<life, busy>>

Next ==
    \/ \E k \in Tasks :
          \/ Work(k) \/ Rest(k) \/ Accept(k) \/ Refuse(k) \/ End(k) \/ Forget(k)
          \/ \E h \in Threads : Confirm(h, k)
    \/ \E h \in Threads : Answered(h)

Spec == Init /\ [][Next]_sVars

=============================================================================
