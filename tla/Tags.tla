-------------------------------- MODULE Tags --------------------------------
(***************************************************************************)
(* common/tags.go: tags as a list and as the string of a database column.  *)
(* A string is a sequence of characters, a character its code.             *)
(***************************************************************************)
EXTENDS Integers, Sequences, FiniteSets, SequencesExt

Space == 32
Quote == 34
Comma == 44

(* strings.Trim and strings.Split of the standard library.                 *)
Trim(s, ch) ==
  LET kept == {i \in 1 .. Len(s) : s[i] # ch}
  IN  IF kept = {} THEN <<>> ELSE SubSeq(s, Min(kept), Max(kept))

(* The pieces found so far, after the next character c.                    *)
Scanned(pieces, c, ch) ==
  IF c = ch THEN Append(pieces, <<>>)
  ELSE [pieces EXCEPT ![Len(pieces)] = Append(@, c)]

Split(s, ch) ==
  LET pieces[i \in 0 .. Len(s)] ==
        IF i = 0 THEN << <<>> >> ELSE Scanned(pieces[i - 1], s[i], ch)
  IN  pieces[Len(s)]

(* Strings in the order of their bytes: the first place that differs       *)
(* decides, and the end of a string comes before every byte.               *)
Less(s, t) ==
  \E i \in 1 .. Len(t) :
    /\ i <= Len(s) + 1
    /\ \A j \in 1 .. i - 1 : s[j] = t[j]
    /\ i = Len(s) + 1 \/ s[i] < t[i]

Quoted(tag) == <<Quote>> \o tag \o <<Quote>>

TagSlice2TagString(tags) ==
  LET joined[i \in 0 .. Len(tags)] ==
        IF i = 0 THEN <<>>
        ELSE joined[i - 1] \o (IF i = 1 THEN <<>> ELSE <<Comma>>) \o Quoted(tags[i])
  IN  joined[Len(tags)]

(* A bug: every quote is taken out, not only those around a tag.           *)
TagString2TagSliceAll(str) ==
  IF str = <<>> THEN <<>>
  ELSE [i \in 1 .. Len(Split(str, Comma)) |-> FlattenSeq(Split(Split(str, Comma)[i], Quote))]

TagString2TagSlice(str) ==
  IF str = <<>> THEN <<>>
  ELSE [i \in 1 .. Len(Split(str, Comma)) |-> Trim(Split(str, Comma)[i], Quote)]

(* Without spaces around them, empty ones and repetitions, in order.       *)
TagSliceTransform(tags) ==
  LET kept == {Trim(tags[i], Space) : i \in 1 .. Len(tags)} \ {<<>>}
  IN  CHOOSE s \in [1 .. Cardinality(kept) -> kept] :
        \A i, j \in DOMAIN s : i < j => Less(s[i], s[j])
=============================================================================
