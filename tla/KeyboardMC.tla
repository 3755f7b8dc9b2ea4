----------------------------- MODULE KeyboardMC ------------------------------
(* Instance of Keyboard, with Visitors, for TLC.                           *)
EXTENDS Keyboard

=============================================================================
