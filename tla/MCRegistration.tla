--------------------------- MODULE MCRegistration ---------------------------
(* Registration for two names that want one number and two processes: the  *)
(* least with which two commands can race for a number, and with which a   *)
(* retry can meet what a killed process left.                              *)
EXTENDS Registration, TLC
CONSTANTS p1, p2, a1, a2, n1
MCProcs == {p1, p2}
MCNames == {a1, a2}
MCNumbers == {n1}
\* Processes and names are interchangeable.
MCSymmetry == Permutations(MCProcs) \cup Permutations(MCNames)
=============================================================================
