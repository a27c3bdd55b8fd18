----------------------------- MODULE MCSubmission -----------------------------
(* Two submissions of one text.  The second may come while the first is    *)
(* under way, after it failed, or when its window is over.                 *)
EXTENDS Submission

CONSTANTS text, torn

MCContentOf == [r \in Request |-> text]
MCTorn == {torn}
=============================================================================
