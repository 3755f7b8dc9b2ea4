----------------------------- MODULE WipcLinkMC ------------------------------
(* Instance of WipcLink for TLC: the values are in WipcLink.cfg.           *)
EXTENDS WipcLink

=============================================================================
