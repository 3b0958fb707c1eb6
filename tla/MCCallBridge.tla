---------------------------- MODULE MCCallBridge ----------------------------
(* Model-checking instance of CallBridge; the bounds are in the .cfg files. *)
EXTENDS CallBridge
=============================================================================
