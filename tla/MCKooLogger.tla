----------------------------- MODULE MCKooLogger -----------------------------
(* Instances of KooLogger for TLC. *)
EXTENDS KooLogger, TLC

CallerSymmetry == Permutations(Callers)
===============================================================================
