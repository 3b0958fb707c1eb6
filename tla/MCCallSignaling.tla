-------------------------- MODULE MCCallSignaling ---------------------------
(* CallSignaling for an account of up to three devices: the least number   *)
(* with which a list can have an extra device and lack another one, and    *)
(* still share a third with the account.                                   *)
EXTENDS CallSignaling
CONSTANTS phone, tablet, laptop
MCDevices == {phone, tablet, laptop}
=============================================================================
