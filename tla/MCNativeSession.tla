--------------------------- MODULE MCNativeSession ---------------------------
(* Instances of NativeSession for TLC: see the .cfg files for the bounds. *)
EXTENDS NativeSession
===============================================================================
