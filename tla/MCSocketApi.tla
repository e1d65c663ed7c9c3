------------------------------ MODULE MCSocketApi ------------------------------
(* Instances of SocketApi for TLC. *)
EXTENDS SocketApi, TLC

\* Nothing tells two objects of a class apart but what was done to them.
ApiSymmetry == Permutations(Sockets) \cup Permutations(Conns)
===============================================================================
