----------------------------- MODULE MCHttpClient -----------------------------
(* Two goroutines, one map that they may share, and two parameters, one of *)
(* which the caller has set.                                               *)
EXTENDS HttpClient

CONSTANTS c1, c2, m1, page, size, v1, v2, ok

TwoCalls == {c1, c2}
OneTimeout == [c \in Calls |-> IF c = c1 THEN 600 ELSE 0]
OneMap == {m1}
TwoKeys == {page, size}
TwoValues == {v1, v2}
OneCode == {ok}
FewQueries ==
  {[NoQuery EXCEPT ![page] = v2], [NoQuery EXCEPT ![page] = v1, ![size] = v2]}
PageGiven == [m \in Maps |-> [k \in Keys |-> IF k = page THEN v1 ELSE None]]
==============================================================================
