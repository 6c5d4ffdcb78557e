------------------------ MODULE MCContextCompaction ------------------------
(* Instances of ContextCompaction for TLC.                                 *)
EXTENDS ContextCompaction, TLC

Symmetry == Permutations(Session)
=============================================================================
