----------------------------- MODULE MCObjectTask ------------------------------
(* Small instances of ObjectTask for TLC; the bounds are in the .cfg files. *)
EXTENDS ObjectTask
====
