--------------------------- MODULE MCRecipeLedger ---------------------------
(* Instances of RecipeLedger for TLC.                                      *)
EXTENDS RecipeLedger, TLC

CONSTANTS a, b, p1, p2, p3, q1

Symmetry == Permutations({p1, p2, p3}) \cup Permutations(Field)

\* Ids of its own for each recipe, as clients that name patches well use.
MCIds == a :> {p1, p2, p3} @@ b :> {q1}
=============================================================================
