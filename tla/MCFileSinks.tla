----------------------------- MODULE MCFileSinks -----------------------------
(* Instances of FileSinks for TLC. *)
EXTENDS FileSinks
===============================================================================
