----------------------------- MODULE MCContacts -----------------------------
(* Contacts for a phone that knows two people: by number and ACI, with the *)
(* ACIs exchanged, and one of them by ACI alone; the old table has one with*)
(* both identifiers and one with a number only.                            *)
EXTENDS Contacts
CONSTANTS n1, n2, u1, u2, daemon, gendb
C(n, u) == [num |-> n, aci |-> u]
MCNumbers == {n1, n2}
MCAcis == {u1, u2}
MCOpeners == {daemon, gendb}
MCOldRows == <<C(n1, u1), C(n2, Unset)>>
MCPhoneLists == {{C(n1, u1), C(n2, u2)}, {C(n1, u2), C(Unset, u1)}}
=============================================================================
