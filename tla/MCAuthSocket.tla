---------------------------- MODULE MCAuthSocket ----------------------------
(* Model-checking instance of AuthSocket; the bounds are in the .cfg files. *)
EXTENDS AuthSocket
=============================================================================
