------------------------- MODULE MCNetworkApproval -------------------------
(* Instances of NetworkApproval for TLC. *)
EXTENDS NetworkApproval
=============================================================================
