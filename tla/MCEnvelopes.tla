---------------------------- MODULE MCEnvelopes -----------------------------
(* Envelopes with a name for the peer's session and for those of replies.  *)
EXTENDS Envelopes
MCSessions == 1..3
=============================================================================
