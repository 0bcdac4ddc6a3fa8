--------------------------- MODULE MCSlotRegistry ---------------------------
(* Two processes with two registrations each, three names, two structures. *)
EXTENDS SlotRegistry

CONSTANTS p1, p2, n1, n2, n3, k1, k2

MCProc == {p1, p2}
MCName == {n1, n2, n3}
MCKey == {k1, k2}

(* Every name means one structure; n1 and n2 are aliases. *)
Consistent == {<<n1, k1>>, <<n2, k1>>, <<n3, k2>>}
(* The function named n1 was edited. *)
Edited == {<<n1, k1>>, <<n1, k2>>, <<n2, k1>>}
=============================================================================
