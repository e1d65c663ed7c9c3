------------------------------- MODULE TaskPool -------------------------------
(***************************************************************************)
(* What common/thread_pool.hpp promises its callers, without threads,      *)
(* locks or condition variables: a task that is accepted is started once,  *)
(* in the order of acceptance, and has finished before the pool is gone;   *)
(* a closed pool accepts nothing more.                                     *)
(***************************************************************************)
EXTENDS Integers, Sequences, FiniteSets

CONSTANT Tasks   \* the work items ever offered to the pool

VARIABLES
  queue,      \* accepted tasks that no worker has started, oldest first
  running,    \* tasks a worker is executing
  finished,   \* tasks whose future is ready
  phase       \* "open", "closing" or "gone"

vars == <<queue, running, finished, phase>>

Queued == {queue[i] : i \in 1 .. Len(queue)}

Init ==
  /\ queue = <<>>
  /\ running = {}
  /\ finished = {}
  /\ phase = "open"

Accept(t) ==
  /\ phase = "open"
  /\ t \notin Queued \cup running \cup finished
  /\ queue' = Append(queue, t)
  /\ UNCHANGED <<running, finished, phase>>

Start ==
  /\ queue # <<>>
  /\ queue' = Tail(queue)
  /\ running' = running \cup {Head(queue)}
  /\ UNCHANGED <<finished, phase>>

Finish(t) ==
  /\ t \in running
  /\ running' = running \ {t}
  /\ finished' = finished \cup {t}
  /\ UNCHANGED <<queue, phase>>

Shut ==
  /\ phase = "open"
  /\ phase' = "closing"
  /\ UNCHANGED <<queue, running, finished>>

Release ==
  /\ phase = "closing"
  /\ queue = <<>>
  /\ running = {}
  /\ phase' = "gone"
  /\ UNCHANGED <<queue, running, finished>>

Next ==
  \/ \E t \in Tasks : Accept(t) \/ Finish(t)
  \/ Start
  \/ Shut
  \/ Release

Spec == Init /\ [][Next]_vars
===============================================================================
