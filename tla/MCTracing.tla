----------------------------- MODULE MCTracing -----------------------------
(* Two services: a goroutine of one that others call, and two of the other *)
(* that it calls, the second when it has given up on the first.            *)
EXTENDS Tracing, TLC

CONSTANTS sa, sb, ga, gb, gc

TwoServices == {sa, sb}
ThreeGoroutines == {ga, gb, gc}
Places == [g \in Goroutines |-> IF g = ga THEN sa ELSE sb]
Depths == [g \in Goroutines |-> IF g = ga THEN 2 ELSE 1]
InitsOf == [s \in Services |-> IF s = sa THEN 2 ELSE 1]
OneEdge == {ga}

(* The two goroutines that are called are alike.                           *)
Symmetry == Permutations({gb, gc})
=============================================================================
