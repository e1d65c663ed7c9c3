------------------------------ MODULE LogChannel ------------------------------
(***************************************************************************)
(* What spdlog's asynchronous logging promises, without threads, a ring    *)
(* buffer or condition variables: messages are taken from a bounded queue  *)
(* in the order they entered it, each is handled once, the oldest ones are *)
(* lost when a message enters a full queue, and nothing that was accepted  *)
(* is left when the channel is gone.                                       *)
(***************************************************************************)
EXTENDS Integers, Sequences

CONSTANTS
  Msgs,       \* the messages ever posted
  Capacity    \* how many the queue holds

VARIABLES
  queue,      \* accepted messages, oldest first
  taken,      \* messages being written
  written,    \* messages the sinks have been given
  lost,       \* messages dropped from a full queue
  phase       \* "open" or "gone"

vars == <<queue, taken, written, lost, phase>>

Queued == {queue[i] : i \in 1 .. Len(queue)}

Init ==
  /\ queue = <<>>
  /\ taken = {} /\ written = {} /\ lost = {}
  /\ phase = "open"

\* A message enters; from a full queue the oldest is dropped.
Post(m) ==
  /\ phase = "open"
  /\ m \notin Queued \cup taken \cup written \cup lost
  /\ \/ /\ Len(queue) < Capacity
        /\ queue' = Append(queue, m)
        /\ lost' = lost
     \/ /\ Len(queue) = Capacity
        /\ queue' = Append(Tail(queue), m)
        /\ lost' = lost \cup {Head(queue)}
  /\ UNCHANGED <<taken, written, phase>>

Take ==
  /\ queue # <<>>
  /\ queue' = Tail(queue)
  /\ taken' = taken \cup {Head(queue)}
  /\ UNCHANGED <<written, lost, phase>>

Write(m) ==
  /\ m \in taken
  /\ taken' = taken \ {m}
  /\ written' = written \cup {m}
  /\ UNCHANGED <<queue, lost, phase>>

Close ==
  /\ phase = "open"
  /\ queue = <<>> /\ taken = {}
  /\ phase' = "gone"
  /\ UNCHANGED <<queue, taken, written, lost>>

Next ==
  \/ \E m \in Msgs : Post(m) \/ Write(m)
  \/ Take
  \/ Close

Spec == Init /\ [][Next]_vars
===============================================================================
