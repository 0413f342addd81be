-------------------------- MODULE MCRemoteInbound --------------------------
(* Instance of RemoteInbound for TLC. *)
EXTENDS RemoteInbound
=============================================================================
