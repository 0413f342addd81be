--------------------------- MODULE MCUnifiedExec ---------------------------
(* Model-checking instance of UnifiedExec. *)
EXTENDS UnifiedExec
=============================================================================
