---------------------------- MODULE MCPushDaemon ----------------------------
(* One daemon at a time, stopped and started again. *)
EXTENDS PushDaemon
=============================================================================
