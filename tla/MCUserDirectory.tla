-------------------------- MODULE MCUserDirectory --------------------------
(* Instances of UserDirectory for TLC.                                     *)
EXTENDS UserDirectory, TLC

Symmetry == Permutations(Handle) \cup Permutations(Name) \cup Permutations(Context)
=============================================================================
