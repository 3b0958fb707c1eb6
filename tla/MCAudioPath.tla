---------------------------- MODULE MCAudioPath -----------------------------
(* Model-checking instance of AudioPath; the bounds are in the .cfg file.   *)
EXTENDS AudioPath
=============================================================================
