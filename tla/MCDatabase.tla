------------------------------- MODULE MCDatabase ------------------------------
(* Small instances of Database for TLC. *)
EXTENDS Database, TLC

CONSTANTS t1, t2, t3

TwoTasks == {t1, t2}
ThreeTasks == {t1, t2, t3}

\* The first revision has no migrations; the last adds one that sorts first.
AddsEarlier == <<{}, {2}, {1, 2}>>

\* Task lives are interchangeable.
Symmetric == Permutations(Tasks)
====
