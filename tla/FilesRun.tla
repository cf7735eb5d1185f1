------------------------------ MODULE FilesRun ------------------------------
(***************************************************************************)
(* What a task promises about its input: what was accepted is given to the  *)
(* engine piece by piece, each piece once and one at a time, and the task   *)
(* is done only when the engine has finished every piece.  A task may be    *)
(* refused before the engine gets anything, and cut short afterwards.       *)
(***************************************************************************)
CONSTANTS Pieces, None

VARIABLES
    todo,    \* pieces the engine was not given yet
    piece,   \* the piece the engine works on, or None
    phase    \* "new", "open", or how the task ended

fVars == <<todo, piece, phase>>

Init == todo = {} /\ piece = None /\ phase = "new"

Accept ==
    /\ phase = "new"
    /\ todo' \subseteq Pieces /\ todo' # {}
    /\ phase' = "open" /\ UNCHANGED piece

Refuse ==
    /\ phase = "new"
    /\ phase' = "refused" /\ UNCHANGED <<todo, piece>>

Give(p) ==
    /\ phase = "open" /\ piece = None /\ p \in todo
    /\ todo' = todo \ {p} /\ piece' = p /\ UNCHANGED phase

\* A piece is finished; with the last one the task is done.
Finish ==
    /\ phase = "open" /\ piece # None
    /\ piece' = None
    /\ \/ UNCHANGED phase
       \/ todo = {} /\ phase' = "done"
    /\ UNCHANGED todo

CutShort ==
    /\ phase = "open"
    /\ phase' \in {"refused", "stopped", "failed", "lost"}
    /\ todo' \in SUBSET todo /\ piece' = None

Next ==
    \/ Accept \/ Refuse \/ Finish \/ CutShort
    \/ \E p \in Pieces : Give(p)

Spec == Init /\ [][Next]_fVars

=============================================================================
