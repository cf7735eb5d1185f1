---------------------------- MODULE TaskRegistry ----------------------------
(***************************************************************************)
(* What the task manager promises its clients, with no threads and no       *)
(* intermediate steps: a task id lists at most one task; a task is listed   *)
(* when it starts to run, ends exactly once while it is listed, and is      *)
(* forgotten only after it ended.                                           *)
(***************************************************************************)
CONSTANTS Tasks, TaskIds, IdOf, Null

VARIABLES
    listed,   \* the task listed under each id, or Null
    phase     \* the phase of each task

vars == <<listed, phase>>

Ended == {"SUCCEEDED", "FAILED"}

Init ==
    /\ listed = [i \in TaskIds |-> Null]
    /\ phase = [k \in Tasks |-> "NEW"]

\* A create request is answered 201.
Accept(k) ==
    /\ phase[k] = "NEW"
    /\ listed[IdOf[k]] = Null
    /\ listed' = [listed EXCEPT ![IdOf[k]] = k]
    /\ phase' = [phase EXCEPT ![k] = "RUNNING"]

\* The task reaches its final status.
End(k) ==
    /\ phase[k] = "RUNNING"
    /\ listed[IdOf[k]] = k
    /\ \E s \in Ended : phase' = [phase EXCEPT ![k] = s]
    /\ UNCHANGED listed

\* The ended task disappears: a query for its id now answers 404.
Forget(k) ==
    /\ phase[k] \in Ended
    /\ listed[IdOf[k]] = k
    /\ listed' = [listed EXCEPT ![IdOf[k]] = Null]
    /\ UNCHANGED phase

Next == \E k \in Tasks : Accept(k) \/ End(k) \/ Forget(k)

Spec == Init /\ [][Next]_vars

=============================================================================
