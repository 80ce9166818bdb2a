------------------------------ MODULE MCKeyValue -------------------------------
(* Two namespaces, one of them reserved, and two keys listed one to a page.    *)
EXTENDS KeyValue, TLC

Symmetry == Permutations(Handlers)
================================================================================
