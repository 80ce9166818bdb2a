---------------------------- MODULE MCObjectHosting ----------------------------
(* Small instances of ObjectHosting for TLC. *)
EXTENDS ObjectHosting, TLC

CONSTANTS w1, w2, r1, r2

OneWorker == {w1}
TwoWorkers == {w1, w2}
OneRequest == {r1}
TwoRequests == {r1, r2}

\* Workers and requests are interchangeable.
Symmetry == Permutations(Workers) \cup Permutations(Requests)
====
