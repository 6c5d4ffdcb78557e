---------------------------- MODULE MCReactLoop ----------------------------
(* Instances of ReactLoop for TLC.                                         *)
EXTENDS ReactLoop, TLC

Symmetry == Permutations(Session) \cup Permutations(CallId) \cup Permutations(Worker)
=============================================================================
