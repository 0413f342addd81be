-------------------------- MODULE MCRemoteOutbound --------------------------
(* Instance of RemoteOutbound for TLC. *)
EXTENDS RemoteOutbound
=============================================================================
