------------------------------- MODULE AsyncLog -------------------------------
(***************************************************************************)
(* spdlog's asynchronous logging: async_logger posts each message to a     *)
(* details::thread_pool, whose workers take it from an mpmc_blocking_queue *)
(* and hand it to the sinks. The pool belongs to shared_ptrs: the          *)
(* registry's and one for each thread that is posting (a logger has a      *)
(* weak_ptr). Who releases the last one runs the destructor, which posts a *)
(* terminate message for each worker and joins them.                       *)
(*                                                                         *)
(* What a thread does under queue_mutex_ is one step: nothing of it is     *)
(* visible outside the mutex, and a wait releases the mutex and blocks in  *)
(* one. The notification follows the unlock and is a step of its own.      *)
(* Msgs are log and flush requests; what the sinks do with one, failing    *)
(* included (it is caught and reported), is not told apart.                *)
(***************************************************************************)
EXTENDS CircularQ, FiniteSets

CONSTANTS
  Workers,     \* the threads of the pool
  Producers,   \* the threads that log
  Owner,       \* the thread that makes the pool and the registry drop it
  Msgs,        \* the requests ever posted, each once
  Blocking,    \* those of loggers with async_overflow_policy::block
  QSize,       \* q_max_items
  Terminate    \* the message that ends a worker

Threads == Producers \cup {Owner}

\* A pool has 1 to 1000 workers, or its constructor throws. With a queue of
\* size 0 a post with policy block, the destructor's too, never returns.
ASSUME AsyncAssumption ==
  /\ Workers # {} /\ IsFiniteSet(Workers) /\ IsFiniteSet(Producers)
  /\ Owner \notin Producers
  /\ Blocking \subseteq Msgs
  /\ QSize \in Nat \ {0}
  /\ Terminate \notin Msgs
  /\ Blank \notin Msgs \cup {Terminate}

VARIABLES
  pc,        \* where each thread that posts is
  item,      \* what it is posting, or Blank
  refs,      \* the threads that hold a shared_ptr to the pool
  left,      \* terminate messages the destructor has still to post
  wpc,       \* where each worker is
  msg,       \* the message a worker has taken, or Blank
  q,         \* q_, the circular_q
  accepted,  \* requests that were put into the queue
  rejected,  \* requests of loggers that found no pool
  written    \* requests the sinks were given

vars == <<pc, item, refs, left, wpc, msg, q, accepted, rejected, written>>

PostPc == {"post", "room", "notify"}
OwnerPc == {"ctor", "open", "threw", "terminated"}
WorkerPc == {"unborn", "top", "wait", "woken", "room", "process", "exited"}

Waiting == {m \in Msgs : \E i \in DOMAIN Contents(q) : Contents(q)[i] = m}
Taken == {msg[w] : w \in Workers} \cap Msgs
Lost == accepted \ (Waiting \cup Taken \cup written)
Dying == \E t \in Threads : item[t] = Terminate \/ pc[t] = "join"
Gone == refs = {} /\ ~Dying

TypeOK ==
  /\ pc \in [Threads -> PostPc \cup OwnerPc \cup {"idle", "release", "join"}]
  /\ item \in [Threads -> Msgs \cup {Terminate, Blank}]
  /\ refs \subseteq Threads
  /\ left \in 0 .. Cardinality(Workers)
  /\ wpc \in [Workers -> WorkerPc]
  /\ msg \in [Workers -> Msgs \cup {Terminate, Blank}]
  /\ q.max = QSize + 1 /\ {q.head, q.tail} \subseteq 0 .. QSize
  /\ q.v \in [0 .. QSize -> Msgs \cup {Terminate, Blank}]
  /\ accepted \cup rejected \cup written \subseteq Msgs

Init ==
  /\ pc = [t \in Threads |-> IF t = Owner THEN "ctor" ELSE "idle"]
  /\ item = [t \in Threads |-> Blank]
  /\ refs = {Owner}
  /\ left = 0
  /\ wpc = [w \in Workers |-> "unborn"]
  /\ msg = [w \in Workers |-> Blank]
  /\ q = NewQ(QSize)
  /\ accepted = {} /\ rejected = {} /\ written = {}

sets == <<accepted, rejected, written>>
posting == <<item, refs, left>>
working == <<wpc, msg>>

Goto(t, l) == pc' = [pc EXCEPT ![t] = l]

-------------------------------------------------------------------------------
(* The constructor. Until it is done nobody else has the pool. *)

Spawn(w) ==
  /\ pc[Owner] = "ctor"
  /\ wpc[w] = "unborn"
  /\ wpc' = [wpc EXCEPT ![w] = "top"]
  /\ UNCHANGED <<pc, posting, msg, q, sets>>

\* std::thread throws. The members are destroyed, and a thread that runs must
\* not be: std::terminate, unless it was the first.
SpawnThrows ==
  /\ pc[Owner] = "ctor"
  /\ \E w \in Workers : wpc[w] = "unborn"
  /\ Goto(Owner, IF \A w \in Workers : wpc[w] = "unborn" THEN "threw" ELSE "terminated")
  /\ wpc' = [w \in Workers |-> "exited"]
  /\ refs' = {}
  /\ UNCHANGED <<item, left, msg, q, sets>>

\* registry::set_tp.
Constructed ==
  /\ pc[Owner] = "ctor"
  /\ \A w \in Workers : wpc[w] # "unborn"
  /\ Goto(Owner, "open")
  /\ UNCHANGED <<posting, working, q, sets>>

-------------------------------------------------------------------------------
(* A thread that logs, and the destructor, which posts as they do. *)

\* Loggers are made over a pool that was constructed.
Usable == pc[Owner] \notin {"ctor", "threw", "terminated"}

\* Posts through a plain pointer.
BadLog(t, m) ==
  /\ Usable /\ pc[t] = "idle" /\ t # Owner
  /\ m \notin accepted \cup rejected \cup {item[u] : u \in Threads}
  /\ refs # {}
  /\ item' = [item EXCEPT ![t] = m]
  /\ Goto(t, "post")
  /\ UNCHANGED <<refs, left, working, q, sets>>

\* thread_pool_.lock(), which gives nothing once the last reference is gone:
\* the logger throws, catches that itself and reports it.
Log(t, m) ==
  /\ Usable /\ pc[t] = "idle" /\ t # Owner
  /\ m \notin accepted \cup rejected \cup {item[u] : u \in Threads}
  /\ \/ /\ refs # {}
        /\ refs' = refs \cup {t}
        /\ item' = [item EXCEPT ![t] = m]
        /\ Goto(t, "post")
        /\ rejected' = rejected
     \/ /\ refs = {}
        /\ rejected' = rejected \cup {m}
        /\ UNCHANGED <<pc, refs, item>>
  /\ UNCHANGED <<left, working, q, accepted, written>>

\* Whether a post of the item waits for room.
BadBlocks(x) == x \in Blocking
Blocks(x) == x \in Blocking \cup {Terminate}

\* enqueue() with no room: pop_cv_.wait.
AwaitRoom(t) ==
  /\ pc[t] = "post" /\ Blocks(item[t]) /\ Full(q)
  /\ Goto(t, "room")
  /\ UNCHANGED <<posting, working, q, sets>>

\* enqueue() or enqueue_nowait() puts the item into the queue.
Enqueue(t) ==
  /\ pc[t] = "post"
  /\ Blocks(item[t]) => ~Full(q)
  /\ q' = PushBack(q, item[t])
  /\ accepted' = accepted \cup ({item[t]} \cap Msgs)
  /\ Goto(t, "notify")
  /\ UNCHANGED <<posting, working, rejected, written>>

\* Nobody is told.
BadNotify(t) ==
  /\ pc[t] = "notify"
  /\ Goto(t, IF item[t] # Terminate THEN "release"
             ELSE IF left > 1 THEN "post" ELSE "join")
  /\ left' = IF item[t] = Terminate THEN left - 1 ELSE left
  /\ item' = [item EXCEPT ![t] = IF item[t] = Terminate /\ left > 1 THEN @ ELSE Blank]
  /\ UNCHANGED <<refs, working, q, sets>>

\* push_cv_.notify_one(); the destructor goes on with the next terminate.
Notify(t) ==
  /\ pc[t] = "notify"
  /\ Goto(t, IF item[t] # Terminate THEN "release"
             ELSE IF left > 1 THEN "post" ELSE "join")
  /\ left' = IF item[t] = Terminate THEN left - 1 ELSE left
  /\ item' = [item EXCEPT ![t] = IF item[t] = Terminate /\ left > 1 THEN @ ELSE Blank]
  /\ LET asleep == {w \in Workers : wpc[w] = "wait"}
     IN  \/ asleep = {} /\ wpc' = wpc
         \/ \E w \in asleep : wpc' = [wpc EXCEPT ![w] = "woken"]
  /\ UNCHANGED <<refs, msg, q, sets>>

\* One terminate for all the workers.
BadRelease(t) ==
  /\ refs' = refs \ {t}
  /\ \/ /\ refs' # {}
        /\ Goto(t, "idle")
        /\ UNCHANGED <<item, left>>
     \/ /\ refs' = {}
        /\ Goto(t, "post")
        /\ item' = [item EXCEPT ![t] = Terminate]
        /\ left' = 1

\* A shared_ptr to the pool is given up, with the last one the pool: the
\* thread enters ~thread_pool.
Release(t) ==
  /\ refs' = refs \ {t}
  /\ \/ /\ refs' # {}
        /\ Goto(t, "idle")
        /\ UNCHANGED <<item, left>>
     \/ /\ refs' = {}
        /\ Goto(t, "post")
        /\ item' = [item EXCEPT ![t] = Terminate]
        /\ left' = Cardinality(Workers)

\* pool_ptr goes out of scope.
Logged(t) ==
  /\ pc[t] = "release"
  /\ Release(t)
  /\ UNCHANGED <<working, q, sets>>

\* registry::shutdown(), or set_tp() with another pool.
Drop ==
  /\ pc[Owner] = "open"
  /\ Release(Owner)
  /\ UNCHANGED <<working, q, sets>>

\* Goes without the workers.
BadJoin(t) ==
  /\ pc[t] = "join"
  /\ Goto(t, "idle")
  /\ UNCHANGED <<posting, working, q, sets>>

Join(t) ==
  /\ pc[t] = "join"
  /\ \A w \in Workers : wpc[w] = "exited"
  /\ Goto(t, "idle")
  /\ UNCHANGED <<posting, working, q, sets>>

\* A waiter on pop_cv_ may wake though nobody notified it.
SpuriousRoom(t) ==
  /\ pc[t] = "room"
  /\ Goto(t, "post")
  /\ UNCHANGED <<posting, working, q, sets>>

PostStep(t) ==
  AwaitRoom(t) \/ Enqueue(t) \/ Notify(t) \/ Logged(t) \/ Join(t)

-------------------------------------------------------------------------------
(* A worker: process_next_msg_ until a terminate message comes. *)

\* dequeue_for() with nothing there: push_cv_.wait_for.
Sleep(w) ==
  /\ wpc[w] \in {"top", "woken"} /\ IsEmpty(q)
  /\ wpc' = [wpc EXCEPT ![w] = "wait"]
  /\ UNCHANGED <<pc, posting, msg, q, sets>>

\* Takes the newest element, from the other end of the queue.
BadDequeue(w) ==
  /\ wpc[w] \in {"top", "woken"} /\ ~IsEmpty(q)
  /\ LET last == (q.tail + q.max - 1) % q.max
     IN  /\ msg' = [msg EXCEPT ![w] = q.v[last]]
         /\ q' = [q EXCEPT !.v = [@ EXCEPT ![last] = Blank], !.tail = last]
  /\ wpc' = [wpc EXCEPT ![w] = "room"]
  /\ UNCHANGED <<pc, posting, sets>>

Dequeue(w) ==
  /\ wpc[w] \in {"top", "woken"} /\ ~IsEmpty(q)
  /\ msg' = [msg EXCEPT ![w] = Front(q)]
  /\ q' = MoveFront(q)
  /\ wpc' = [wpc EXCEPT ![w] = "room"]
  /\ UNCHANGED <<pc, posting, sets>>

\* Does not notify.
BadRoom(w) ==
  /\ wpc[w] = "room"
  /\ wpc' = [wpc EXCEPT ![w] = "process"]
  /\ UNCHANGED <<pc, posting, msg, q, sets>>

\* pop_cv_.notify_one().
Room(w) ==
  /\ wpc[w] = "room"
  /\ wpc' = [wpc EXCEPT ![w] = "process"]
  /\ LET blocked == {t \in Threads : pc[t] = "room"}
     IN  \/ blocked = {} /\ pc' = pc
         \/ \E t \in blocked : Goto(t, "post")
  /\ UNCHANGED <<posting, msg, q, sets>>

\* backend_sink_it_, backend_flush_, or the end of the thread.
Process(w) ==
  /\ wpc[w] = "process"
  /\ wpc' = [wpc EXCEPT ![w] = IF msg[w] = Terminate THEN "exited" ELSE "top"]
  /\ msg' = [msg EXCEPT ![w] = Blank]
  /\ written' = written \cup ({msg[w]} \cap Msgs)
  /\ UNCHANGED <<pc, posting, q, accepted, rejected>>

\* The ten seconds are over, or nothing happened at all; either way the
\* predicate is evaluated again.
WakeUp(w) ==
  /\ wpc[w] = "wait"
  /\ wpc' = [wpc EXCEPT ![w] = "woken"]
  /\ UNCHANGED <<pc, posting, msg, q, sets>>

WorkerStep(w) == Sleep(w) \/ Dequeue(w) \/ Room(w) \/ Process(w)

-------------------------------------------------------------------------------

Next ==
  \/ \E w \in Workers : Spawn(w) \/ WorkerStep(w) \/ WakeUp(w)
  \/ SpawnThrows \/ Constructed \/ Drop
  \/ \E t \in Producers, m \in Msgs : Log(t, m)
  \/ \E t \in Threads : PostStep(t) \/ SpuriousRoom(t)

Spec == Init /\ [][Next]_vars

\* Every thread that can go on does, and a mutex is not withheld for ever.
\* Nothing is asked of a wait that nobody ends: neither its timeout nor a
\* spurious wake-up is fair. Nobody has to log or to drop the pool.
Fairness ==
  /\ \A w \in Workers : WF_vars(Spawn(w)) /\ WF_vars(WorkerStep(w))
  /\ WF_vars(Constructed)
  /\ \A t \in Threads : WF_vars(PostStep(t))

FairSpec == Spec /\ Fairness

-------------------------------------------------------------------------------
(* Properties. *)

Awake == {w \in Workers : wpc[w] \in {"top", "woken"}}

\* Terminate messages that the destructor has put into the queue.
Posted ==
  IF Dying THEN Cardinality(Workers) - left
                  + Cardinality({t \in Threads : pc[t] = "notify"})
  ELSE IF Gone /\ Usable THEN Cardinality(Workers)
  ELSE 0

TerminatesQueued == Cardinality({i \in DOMAIN Contents(q) : Contents(q)[i] = Terminate})

\* overrun_counter() is the number of requests that were dropped, no request is
\* in two places, and of the messages that end the workers none is dropped and
\* none taken twice.
Accounting ==
  /\ q.overrun = Cardinality(Lost)
  /\ Waiting \cap (Taken \cup written) = {} /\ Taken \cap written = {}
  /\ Usable =>
       Posted = TerminatesQueued
                + Cardinality({w \in Workers : msg[w] = Terminate \/ wpc[w] = "exited"})

\* No push is missed: a worker sleeps only if every message in the queue has a
\* notification on its way or a worker that will look.
PushNoticed ==
  (\E w \in Workers : wpc[w] = "wait") =>
    Size(q) <= Cardinality({t \in Threads : pc[t] = "notify"}) + Cardinality(Awake)

\* No pop is missed: a thread waits for room only if every free slot has a
\* notification on its way or a thread that will try to fill it.
PopNoticed ==
  (\E t \in Threads : pc[t] = "room") =>
    QSize - Size(q) <= Cardinality({w \in Workers : wpc[w] = "room"})
                       + Cardinality({t \in Threads : pc[t] = "post"})

\* Both condition variables together: no wakeup is lost though every
\* notification comes after the unlock and wakes one thread only, and though
\* posts that do not wait take the room away from those that do.
NoLostWakeup == PushNoticed /\ PopNoticed

\* Nobody is inside the queue of a pool that is gone, and the destructor runs
\* once and alone.
NoUseAfterFree ==
  /\ Gone => /\ \A t \in Threads : pc[t] \notin PostPc \cup {"release"}
             /\ \A w \in Workers : wpc[w] = "exited"
  /\ Dying => \A t \in Threads : pc[t] \in PostPc \cup {"join"} => item[t] \notin Msgs

\* "Upon destruction, logs all remaining messages in the queue before
\* destructing.." (async_logger.h:14): when the pool is gone every request that
\* was accepted was written, or dropped by a later one that does not block, so
\* that none is missing if all that were accepted waited for room.
Drained ==
  Gone => accepted = written \cup Lost /\ (accepted \subseteq Blocking => Lost = {})

\* The requests in the queue: what ends the workers is behind them.
Requests == SubSeq(Contents(q), 1, Len(Contents(q)) - TerminatesQueued)

Channel == INSTANCE LogChannel WITH
  Capacity <- QSize,
  queue <- Requests,
  taken <- Taken,
  lost <- Lost,
  phase <- IF Gone THEN "gone" ELSE "open"

\* The pool is the channel: first in, first out, oldest lost, nothing left.
ImplementsLogChannel == Channel!Spec

\* A call of a logger returns, also when it has to wait for room and when it
\* has to destroy the pool, and so does the registry's dropping of it: every
\* worker gets a terminate message.
CallsReturn ==
  \A t \in Threads : pc[t] \in PostPc \cup {"release", "join"} ~> pc[t] = "idle"

\* What was accepted is written or overrun.
AcceptedWritten == \A m \in Msgs : m \in accepted ~> m \in written \cup Lost
===============================================================================
