------------------------------ MODULE MCTcpServer ------------------------------
(* Instances of TcpServer for TLC. *)
EXTENDS TcpServer, TLC

\* The clients, the connections and the Sockets made by accept() are alike.
ServerSymmetry ==
  Permutations(Peers) \cup Permutations(Conns) \cup Permutations(Sockets \ {Server})
===============================================================================
