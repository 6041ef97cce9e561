----------------------------- MODULE MCRegistry -----------------------------
(* Two modules with one code each, a public code, three languages of which *)
(* one is not built in, and right and wrong locale files.                  *)
EXTENDS ErrorRegistry

CONSTANTS zh, en, tw, m1, m2, c1, c2, internal, greeting, h1

ThreeLangs == {zh, en, tw}
BuiltinLangs == {zh, en}
TwoModules == {m1, m2}
AllCodes == {c1, c2, internal}
PublicCodes == {internal}
Others == {greeting}
OneHandler == {h1}

(* m1 registers c1 and m2 registers c2.                                    *)
ModuleCodes == [m \in TwoModules |-> IF m = m1 THEN {c1} ELSE {c2}]

TextsOf(c) == {c} \X Parts
TheFile(l, ids, bad) == [lang |-> l, ids |-> ids, broken |-> bad]

(* The files of m1: as they should be, with a third language, with a       *)
(* message too few or too many, with a text that does not parse.           *)
FirstModule ==
  LET good == TextsOf(c1)
  IN  { <<TheFile(zh, good, {}), TheFile(en, good, {})>>,
        <<TheFile(zh, good, {}), TheFile(en, good, {}), TheFile(tw, good \cup TextsOf(c2), {})>>,
        <<TheFile(zh, good, {}), TheFile(en, good \ {<<c1, "Solution">>}, {})>>,
        <<TheFile(zh, good \ {<<c1, "Solution">>}, {}), TheFile(en, good \ {<<c1, "Solution">>}, {})>>,
        <<TheFile(zh, good, {}), TheFile(en, good \cup {greeting}, {})>>,
        <<TheFile(zh, good, {}), TheFile(en, good, {<<c1, "Description">>})>> }

(* The files of m2: as they should be, or with a message of m1.            *)
SecondModule ==
  LET good == TextsOf(c2)
  IN  { <<TheFile(zh, good, {}), TheFile(en, good, {})>>,
        <<TheFile(zh, good \cup TextsOf(c1), {})>> }

Directories == {f \in [TwoModules -> FirstModule \cup SecondModule] :
                  f[m1] \in FirstModule /\ f[m2] \in SecondModule}
==============================================================================
