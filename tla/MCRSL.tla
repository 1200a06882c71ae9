------------------------------- MODULE MCRSL -------------------------------
(* Instances of RSL for TLC. *)
EXTENDS RSL, TLC

\* Nodes are only compared, never ordered.
Interchangeable == Permutations(Node)
=============================================================================
