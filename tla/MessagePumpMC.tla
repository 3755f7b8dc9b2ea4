--------------------------- MODULE MessagePumpMC ----------------------------
(* Small instances of MessagePump: more connections than one reconnect     *)
(* needs, a queue that fills up, and more messages than fit into it.       *)
EXTENDS MessagePump
=============================================================================
