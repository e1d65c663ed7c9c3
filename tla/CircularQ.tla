------------------------------ MODULE CircularQ ------------------------------
(***************************************************************************)
(* spdlog/details/circular_q.h: a bounded queue over a vector, with one    *)
(* slot more than it may hold, that drops its oldest element when it is    *)
(* full. A queue is a record of the members; Contents is the sequence it   *)
(* stands for. An index out of the range and front() of an empty queue are *)
(* undefined in the code: the operators are applied where they are not.    *)
(***************************************************************************)
EXTENDS Integers, Sequences

CONSTANT Blank   \* a slot that holds no element: new, or moved from

\* The slot that marks a full queue is missing.
BadNewQ(n) == [max |-> n, head |-> 0, tail |-> 0, overrun |-> 0,
               v |-> [i \in 0 .. n - 1 |-> Blank]]

NewQ(n) == [max |-> n + 1, head |-> 0, tail |-> 0, overrun |-> 0,
            v |-> [i \in 0 .. n |-> Blank]]

\* What is left of a queue that was moved from, and what the default
\* constructor makes: it takes nothing in.
DisabledQ == [max |-> 0, head |-> 0, tail |-> 0, overrun |-> 0, v |-> <<>>]

IsEmpty(q) == q.tail = q.head

Full(q) == q.max > 0 /\ (q.tail + 1) % q.max = q.head

\* Keeps the head when the tail reaches it.
BadPushBack(q, x) ==
  [q EXCEPT !.v = [@ EXCEPT ![q.tail] = x],
            !.tail = (q.tail + 1) % q.max,
            !.overrun = IF Full(q) THEN @ + 1 ELSE @]

PushBack(q, x) ==
  IF q.max = 0 THEN q
  ELSE [q EXCEPT !.v = [@ EXCEPT ![q.tail] = x],
                 !.tail = (q.tail + 1) % q.max,
                 !.head = IF Full(q) THEN (@ + 1) % q.max ELSE @,
                 !.overrun = IF Full(q) THEN @ + 1 ELSE @]

Front(q) == q.v[q.head]

PopFront(q) == [q EXCEPT !.head = (@ + 1) % q.max]

\* std::move(q.front()), then pop_front(), as every user takes an element.
MoveFront(q) == PopFront([q EXCEPT !.v = [@ EXCEPT ![q.head] = Blank]])

Size(q) == IF q.tail >= q.head THEN q.tail - q.head
           ELSE q.max - (q.head - q.tail)

At(q, i) == q.v[(q.head + i) % q.max]

\* The elements, oldest first.
Contents(q) == [i \in 1 .. Size(q) |-> At(q, i - 1)]
===============================================================================
