---------------------------- MODULE MCMemoryJobs ----------------------------
(* Model-checking instance of MemoryJobs. *)
EXTENDS MemoryJobs
=============================================================================
