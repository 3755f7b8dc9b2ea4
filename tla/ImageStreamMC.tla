---------------------------- MODULE ImageStreamMC ----------------------------
(* Small instances of ImageStream: two handlers that share the image       *)
(* queue, and enough workers for a restart of each.                        *)
EXTENDS ImageStream
=============================================================================
