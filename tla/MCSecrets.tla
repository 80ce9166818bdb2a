------------------------------- MODULE MCSecrets -------------------------------
(* Two rpcs at one name: one may lose to rotations of the other three times.   *)
EXTENDS Secrets, TLC

Symmetry == Permutations(Handlers)
================================================================================
