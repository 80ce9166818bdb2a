-------------------------------- MODULE MCQueue --------------------------------
(* Small instances of Queue for TLC; the bounds are in the .cfg files. *)
EXTENDS Queue
====
