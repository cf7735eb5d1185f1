----------------------------- MODULE MCReporting -----------------------------
(* Two tasks that use one id after each other, one thread of each kind.      *)
EXTENDS Reporting, TLC

CONSTANTS k1, k2, i1

MCTasks == {k1, k2}
MCTaskIds == {i1}
MCIdOf == (k1 :> i1) @@ (k2 :> i1)
=============================================================================
