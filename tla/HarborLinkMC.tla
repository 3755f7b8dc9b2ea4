---------------------------- MODULE HarborLinkMC ----------------------------
(* HarborLink with two channels, the one in use and one that is dying or   *)
(* about to be created, and one short retry before the long sleep.         *)
EXTENDS HarborLink
=============================================================================
