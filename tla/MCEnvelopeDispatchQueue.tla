----------------------- MODULE MCEnvelopeDispatchQueue -----------------------
(* Model-checking instance of EnvelopeDispatchQueue. An offer, an ICE       *)
(* message and a key sync are told apart so that reordering is visible.     *)
EXTENDS EnvelopeDispatchQueue

CONSTANTS offer, ice, sync
=============================================================================
