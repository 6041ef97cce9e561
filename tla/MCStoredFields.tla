--------------------------- MODULE MCStoredFields ---------------------------
(* Tags of up to three characters, alone or with a short one; texts of up  *)
(* to three bytes in blocks of two; keys up to twice the cipher's.         *)
EXTENDS StoredFields

Alphabet == {Space, Quote, Comma, 97}
SomeTags == BoundedSeq(Alphabet, 3)
SomeTagLists ==
  {<<>>} \cup {<<t>> : t \in SomeTags} \cup {<<t, u>> : t \in SomeTags, u \in BoundedSeq(Alphabet, 2)}
SomeTexts == BoundedSeq({0, 1, 2, MaxByte}, 3) \cup [1 .. 4 -> {0, MaxByte}]
SomeKeys == {<<>>, <<1>>, <<0, 1>>, <<1, 0, 1>>, <<0, 1, 1, 0>>, <<0, 1, 1, 1>>}
=============================================================================
