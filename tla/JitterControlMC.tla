--------------------------- MODULE JitterControlMC ---------------------------
(* Small instances of JitterControl: few sequence numbers, a short queue   *)
(* and one fast and one slow measurement.                                  *)
EXTENDS JitterControl
=============================================================================
