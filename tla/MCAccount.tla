------------------------------ MODULE MCAccount ------------------------------
(* Two processes, three calls: two goroutines of one process and one of    *)
(* another, for two spellings of one name.                                 *)
EXTENDS InternalAccount

CONSTANTS k1, k2, k3, p1, p2, lower, upper

ThreeCalls == {k1, k2, k3}
TwoProcs == {p1, p2}
TwoNames == {lower, upper}
Placement == [c \in ThreeCalls |-> IF c = k3 THEN p2 ELSE p1]
Spelling == [c \in ThreeCalls |-> IF c = k2 THEN upper ELSE lower]
CaseInsensitive == [n \in TwoNames |-> lower]
==============================================================================
