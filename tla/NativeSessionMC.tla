--------------------------- MODULE NativeSessionMC ---------------------------
(* Small instances of NativeSession: a portrait device, a resolution that  *)
(* has to be turned and one that is too wide.                              *)
EXTENDS NativeSession

MCResolutions == {<<3, 1>>, <<3, 3>>}
=============================================================================
