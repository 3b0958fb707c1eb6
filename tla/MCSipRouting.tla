---------------------------- MODULE MCSipRouting ----------------------------
(* SipRouting for two UDP accounts, which are interchangeable, and a TLS   *)
(* account (office).                                                       *)
EXTENDS SipRouting, TLC
CONSTANTS home, shop, office
UdpSymmetry == Permutations({home, shop})
=============================================================================
