--------------------------- MODULE MCDistributedID ---------------------------
(* Two addresses with the same low 16 bits in different networks, one with *)
(* other bits, and one whose low 16 bits are 0.                            *)
EXTENDS DistributedID

CONSTANTS p1, p2, c1, c2, unset, here, there, zero

TwoPods == {p1, p2}
TwoCallers == {c1, c2}
FewAddresses == {here, there, zero}
BadAddresses == {unset}
Hosts == [a \in Addresses |-> IF a = zero THEN 0 ELSE 1]
==============================================================================
