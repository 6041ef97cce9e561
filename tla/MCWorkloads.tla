----------------------------- MODULE MCWorkloads -----------------------------
(* Two workers, two clients, a slice of options of either kind.            *)
EXTENDS Workloads, TLC

CONSTANTS w1, w2, ca, cb, nsA, nsB, deploy, daemon, n1, p1, p2

TwoWorkers == {w1, w2}
TwoClients == {ca, cb}
TwoNamespaces == {nsA, nsB}
NamespaceOf == [c \in Clients |-> IF c = ca THEN nsA ELSE nsB]
TwoSlices == {deploy, daemon}
OneName == {n1}
TwoParts == {p1, p2}

Opt(f, v) == [field |-> f, value |-> v]

(* Both ask for two parts.  The Deployment's set a namespace of their own, *)
(* by a DeployOption that the application wrote.                           *)
OptionLists ==
  [s \in Slices |->
     IF s = daemon
     THEN <<Opt("name", n1), Opt("part", p1), Opt("part", p2)>>
     ELSE <<Opt("part", p1), Opt("ns", nsB), Opt("name", n1), Opt("part", p2)>>]

(* One kind that is created with the namespace of its client, and one that *)
(* is not.                                                                 *)
BothShapes == {"deployment", "daemonset"}
SliceKinds == [s \in Slices |-> IF s = deploy THEN "deployment" ELSE "daemonset"]

(* The workers are interchangeable.                                        *)
Symmetry == Permutations(TwoWorkers)
==============================================================================
