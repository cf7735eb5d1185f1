---------------------------- MODULE MCLifecycle ----------------------------
(* A directory of up to two files, a stream, and two HTTP threads.          *)
EXTENDS Lifecycle, TLC

CONSTANTS k1, k2, i1

MCTasks == {k1, k2}
MCTaskIds == {i1}
MCIdOf == (k1 :> i1) @@ (k2 :> i1)
=============================================================================
