-------------------------------- MODULE MCCalls --------------------------------
(* Small instances of Calls for TLC. *)
EXTENDS Calls, TLC

CONSTANTS n1, n2, w1, w2, d1

TwoNodes == {n1, n2}
TwoWorkflows == {w1, w2}
OneDatabase == {d1}
OneHomed == {w2}
ThreeObjects == {w1, w2, d1}
Nothing == {}

\* Nodes are interchangeable, and so are the workflows where neither or both are homed.
Symmetric == Permutations(Nodes) \cup Permutations(Workflows)
====
