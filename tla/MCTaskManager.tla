--------------------------- MODULE MCTaskManager ---------------------------
(* Three create requests, two of them with the same id.                     *)
EXTENDS TaskManager, TLC

CONSTANTS k1, k2, k3, i1, i2

MCTasks == {k1, k2, k3}
MCTaskIds == {i1, i2}
MCIdOf == (k1 :> i1) @@ (k2 :> i1) @@ (k3 :> i2)

\* Threads are interchangeable.
ThreadSymmetry == Permutations(HttpThreads) \cup Permutations(CbThreads)
=============================================================================
