-------------------------- MODULE BackendProcessMC --------------------------
(* Small instances of BackendProcess: two processes, one of which may be   *)
(* updating itself while two shells copy and start the other.              *)
EXTENDS BackendProcess
=============================================================================
