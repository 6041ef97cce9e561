------------------------------- MODULE MCAudit -------------------------------
(* Values for the model checking of AuditPipeline.                         *)
EXTENDS AuditPipeline, TLC

CONSTANTS c1, c2, c3, c4, h1, h2

ThreeCallers == {c1, c2, c3}
FourCallers == {c1, c2, c3, c4}
OneHandler == {h1}
TwoHandlers == {h1, h2}

(* The callers are interchangeable, and so are the handlers; only in runs  *)
(* that check no liveness property.                                        *)
Symmetry == Permutations(FourCallers) \cup Permutations(TwoHandlers)
==============================================================================
