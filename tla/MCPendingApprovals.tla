------------------------ MODULE MCPendingApprovals --------------------------
(* Instances of PendingApprovals for TLC.                                  *)
EXTENDS PendingApprovals
=============================================================================
