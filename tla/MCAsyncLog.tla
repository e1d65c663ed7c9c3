------------------------------ MODULE MCAsyncLog ------------------------------
(***************************************************************************)
(* Instances of AsyncLog for TLC, with numbers for messages. Two messages  *)
(* of one policy, and two threads that log, differ in nothing but their    *)
(* names. So TLC looks only at the behaviours in which those of each       *)
(* policy are logged by increasing numbers, and message 1 by one and the   *)
(* same thread: any other is one of these with names exchanged. (SYMMETRY  *)
(* would not be sound for the liveness properties.)                        *)
(***************************************************************************)
EXTENDS AsyncLog

Seen == accepted \cup rejected \cup ({item[t] : t \in Threads} \cap Msgs)

OneOfEachKind ==
  /\ \A m \in Seen, n \in Msgs :
       n < m /\ (n \in Blocking <=> m \in Blocking) => n \in Seen
  /\ \A t \in Producers : item[t] = 1 => t = CHOOSE p \in Producers : TRUE

ReducedSpec == Init /\ [][Next /\ OneOfEachKind']_vars /\ Fairness
===============================================================================
