------------------------- MODULE MCModelArtsPlugin -------------------------
(* A directory of files and a stream, with ids of their own or sharing one.  *)
EXTENDS ModelArtsPlugin, TLC

CONSTANTS dir, stream, i1, i2

MCTasks == {dir, stream}
MCTaskIds == {i1, i2}
OwnIds == (dir :> i1) @@ (stream :> i2)

\* Ids used again after their first task has gone.
OneId == {i1}
SharedId == (dir :> i1) @@ (stream :> i1)

ThreadSymmetry == Permutations(HttpThreads) \cup Permutations(CbThreads)
=============================================================================
