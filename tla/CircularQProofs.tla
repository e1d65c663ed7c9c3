---------------------------- MODULE CircularQProofs ----------------------------
(***************************************************************************)
(* What the operations of a circular_q do to the sequence it stands for,   *)
(* for any number of slots and any elements. The arithmetic of the slots   *)
(* comes first; after it no lemma computes with a modulus.                 *)
(***************************************************************************)
EXTENDS CircularQ, TLAPS

\* A queue that may hold n elements of S.
Queues(n, S) ==
  [max : {n + 1}, head : 0 .. n, tail : 0 .. n, overrun : Nat, v : [0 .. n -> S]]

\* The slot k places behind slot h, of n + 1 slots.
Wrap(n, h, k) == IF h + k > n THEN h + k - n - 1 ELSE h + k

LEMMA WrapMod ==
  ASSUME NEW n \in Nat \ {0}, NEW h \in 0 .. n, NEW k \in 0 .. n
  PROVE  (h + k) % (n + 1) = Wrap(n, h, k)
  BY DEF Wrap

LEMMA WrapIn ==
  ASSUME NEW n \in Nat \ {0}, NEW h \in 0 .. n, NEW k \in 0 .. n
  PROVE  Wrap(n, h, k) \in 0 .. n
  BY DEF Wrap

\* One slot on.
LEMMA WrapOne ==
  ASSUME NEW n \in Nat \ {0}, NEW h \in 0 .. n
  PROVE  (h + 1) % (n + 1) = Wrap(n, h, 1) /\ Wrap(n, h, 1) \in 0 .. n
<1>1. 1 \in 0 .. n
  OBVIOUS
<1> QED BY <1>1, WrapMod, WrapIn

LEMMA WrapNext ==
  ASSUME NEW n \in Nat \ {0}, NEW h \in 0 .. n, NEW k \in 0 .. n - 1
  PROVE  /\ Wrap(n, Wrap(n, h, k), 1) = Wrap(n, h, k + 1)
         /\ Wrap(n, Wrap(n, h, 1), k) = Wrap(n, h, k + 1)
  BY DEF Wrap

LEMMA WrapRound ==
  ASSUME NEW n \in Nat \ {0}, NEW h \in 0 .. n
  PROVE  Wrap(n, h, 0) = h /\ Wrap(n, Wrap(n, h, n), 1) = h
  BY DEF Wrap

LEMMA WrapApart ==
  ASSUME NEW n \in Nat \ {0}, NEW h \in 0 .. n, NEW i \in 0 .. n, NEW k \in 0 .. n, i # k
  PROVE  Wrap(n, h, i) # Wrap(n, h, k)
  BY DEF Wrap

-------------------------------------------------------------------------------
(* Size and contents. *)

LEMMA Members ==
  ASSUME NEW n, NEW S, NEW q \in Queues(n, S)
  PROVE  /\ q.max = n + 1 /\ q.head \in 0 .. n /\ q.tail \in 0 .. n
         /\ q.overrun \in Nat /\ q.v \in [0 .. n -> S]
         /\ q = [max |-> q.max, head |-> q.head, tail |-> q.tail,
                 overrun |-> q.overrun, v |-> q.v]
  BY DEF Queues

\* The size is how far the tail is behind the head.
LEMMA SizeIs ==
  ASSUME NEW n \in Nat \ {0}, NEW S, NEW q \in Queues(n, S)
  PROVE  /\ Size(q) \in 0 .. n
         /\ q.tail = Wrap(n, q.head, Size(q))
         /\ \A k \in 0 .. n : q.tail = Wrap(n, q.head, k) => Size(q) = k
<1>1. q.max = n + 1 /\ q.head \in 0 .. n /\ q.tail \in 0 .. n
  BY Members
<1>2. Size(q) \in 0 .. n /\ q.tail = Wrap(n, q.head, Size(q))
  BY <1>1 DEF Size, Wrap
<1> QED BY <1>1, <1>2, WrapApart

LEMMA FullIs ==
  ASSUME NEW n \in Nat \ {0}, NEW S, NEW q \in Queues(n, S)
  PROVE  /\ Full(q) <=> Wrap(n, q.tail, 1) = q.head
         /\ Full(q) <=> Size(q) = n
         /\ IsEmpty(q) <=> Size(q) = 0
<1>1. q.max = n + 1 /\ q.head \in 0 .. n /\ q.tail \in 0 .. n
  BY Members
<1>2. Size(q) \in 0 .. n /\ q.tail = Wrap(n, q.head, Size(q))
  BY SizeIs
<1>3. (q.tail + 1) % q.max = Wrap(n, q.tail, 1)
  BY <1>1, WrapOne
<1>4. q.max > 0
  BY <1>1
<1>5. Full(q) <=> Wrap(n, q.tail, 1) = q.head
  BY <1>3, <1>4 DEF Full
<1>6. Size(q) = n => Wrap(n, q.tail, 1) = q.head
  BY <1>1, <1>2, WrapRound
<1>7. ASSUME Size(q) # n PROVE Wrap(n, q.tail, 1) # q.head
  <2>1. Wrap(n, q.tail, 1) = Wrap(n, q.head, Size(q) + 1)
    <3>1. Size(q) \in 0 .. n - 1
      BY <1>2, <1>7
    <3> QED BY <1>1, <1>2, <3>1, WrapNext
  <2>2. Wrap(n, q.head, Size(q) + 1) # Wrap(n, q.head, 0)
    <3>1. Size(q) + 1 \in 0 .. n /\ 0 \in 0 .. n /\ Size(q) + 1 # 0
      BY <1>2, <1>7
    <3> QED BY <1>1, <3>1, WrapApart
  <2> QED BY <1>1, <2>1, <2>2, WrapRound
<1>8. IsEmpty(q) <=> Size(q) = 0
  <2>1. IsEmpty(q) <=> q.tail = Wrap(n, q.head, 0)
    BY <1>1, WrapRound DEF IsEmpty
  <2> QED BY <2>1, <1>2, SizeIs
<1> QED BY <1>5, <1>6, <1>7, <1>8

\* The element i places behind the head.
LEMMA AtSlot ==
  ASSUME NEW n \in Nat \ {0}, NEW S, NEW q \in Queues(n, S), NEW i \in 0 .. n
  PROVE  At(q, i) = q.v[Wrap(n, q.head, i)] /\ At(q, i) \in S
<1>1. q.max = n + 1 /\ q.head \in 0 .. n /\ q.v \in [0 .. n -> S]
  BY Members
<1>2. (q.head + i) % q.max = Wrap(n, q.head, i)
  BY <1>1, WrapMod
<1>3. Wrap(n, q.head, i) \in 0 .. n
  BY <1>1, WrapIn
<1> QED BY <1>1, <1>2, <1>3 DEF At

LEMMA ContentsIs ==
  ASSUME NEW n \in Nat \ {0}, NEW S, NEW q \in Queues(n, S)
  PROVE  /\ Contents(q) \in Seq(S)
         /\ Len(Contents(q)) = Size(q)
         /\ \A i \in 1 .. Size(q) : Contents(q)[i] = At(q, i - 1)
<1>1. Size(q) \in 0 .. n
  BY SizeIs
<1>2. \A i \in 1 .. Size(q) : At(q, i - 1) \in S
  <2> TAKE i \in 1 .. Size(q)
  <2>1. i - 1 \in 0 .. n
    BY <1>1
  <2> QED BY <2>1, AtSlot
<1> QED BY <1>1, <1>2 DEF Contents

\* A sequence with the right elements is the contents.
LEMMA ContentsAre ==
  ASSUME NEW n \in Nat \ {0}, NEW S, NEW q \in Queues(n, S), NEW c \in Seq(S),
         Len(c) = Size(q), \A i \in 1 .. Size(q) : c[i] = At(q, i - 1)
  PROVE  Contents(q) = c
  BY ContentsIs

\* A new queue is empty.
LEMMA NewQIs ==
  ASSUME NEW n \in Nat \ {0}, NEW S, Blank \in S
  PROVE  NewQ(n) \in Queues(n, S) /\ Size(NewQ(n)) = 0 /\ Contents(NewQ(n)) = <<>>
<1>1. NewQ(n) \in Queues(n, S)
  BY DEF NewQ, Queues
<1>2. Size(NewQ(n)) = 0
  BY DEF NewQ, Size
<1>3. Len(Contents(NewQ(n))) = 0 /\ Contents(NewQ(n)) \in Seq(S)
  BY <1>1, <1>2, ContentsIs
<1> QED BY <1>1, <1>2, <1>3

-------------------------------------------------------------------------------
(* push_back(). *)

LEMMA PushBackMembers ==
  ASSUME NEW n \in Nat \ {0}, NEW S, NEW q \in Queues(n, S), NEW x \in S
  PROVE  PushBack(q, x) =
           [max |-> n + 1,
            head |-> IF Full(q) THEN Wrap(n, q.head, 1) ELSE q.head,
            tail |-> Wrap(n, q.tail, 1),
            overrun |-> IF Full(q) THEN q.overrun + 1 ELSE q.overrun,
            v |-> [q.v EXCEPT ![q.tail] = x]]
<1>1. /\ q.max = n + 1 /\ q.head \in 0 .. n /\ q.tail \in 0 .. n
      /\ q = [max |-> q.max, head |-> q.head, tail |-> q.tail,
              overrun |-> q.overrun, v |-> q.v]
  BY Members
<1>2. (q.tail + 1) % q.max = Wrap(n, q.tail, 1)
  BY <1>1, WrapOne
<1>3. (q.head + 1) % q.max = Wrap(n, q.head, 1)
  BY <1>1, WrapOne
<1>4. q.max # 0
  BY <1>1
<1> QED BY <1>1, <1>2, <1>3, <1>4 DEF PushBack

\* push_back() keeps the queue well formed and counts what it drops.
THEOREM PushBackIs ==
  ASSUME NEW n \in Nat \ {0}, NEW S, NEW q \in Queues(n, S), NEW x \in S
  PROVE  /\ PushBack(q, x) \in Queues(n, S)
         /\ Size(PushBack(q, x)) = IF Full(q) THEN Size(q) ELSE Size(q) + 1
         /\ PushBack(q, x).overrun = IF Full(q) THEN q.overrun + 1 ELSE q.overrun
<1> DEFINE p == PushBack(q, x)
<1>1. /\ q.head \in 0 .. n /\ q.tail \in 0 .. n
      /\ q.overrun \in Nat /\ q.v \in [0 .. n -> S]
  BY Members
<1>2. /\ p.head = (IF Full(q) THEN Wrap(n, q.head, 1) ELSE q.head)
      /\ p.tail = Wrap(n, q.tail, 1)
      /\ p.overrun = (IF Full(q) THEN q.overrun + 1 ELSE q.overrun)
  BY PushBackMembers
<1>3. p \in Queues(n, S)
  <2>1. Wrap(n, q.head, 1) \in 0 .. n /\ Wrap(n, q.tail, 1) \in 0 .. n
    BY <1>1, WrapOne
  <2>2. /\ p = [max |-> n + 1, head |-> p.head, tail |-> p.tail,
                overrun |-> p.overrun, v |-> p.v]
        /\ p.v = [q.v EXCEPT ![q.tail] = x]
    BY PushBackMembers
  <2> HIDE DEF p
  <2>3. p.v \in [0 .. n -> S]
    BY <1>1, <2>2
  <2>4. p.head \in 0 .. n /\ p.tail \in 0 .. n /\ p.overrun \in Nat
    BY <1>1, <1>2, <2>1
  <2> QED BY <2>2, <2>3, <2>4 DEF Queues
<1>4. Size(q) \in 0 .. n /\ q.tail = Wrap(n, q.head, Size(q))
  BY SizeIs
<1>5. ASSUME Full(q) PROVE Size(p) = Size(q)
  <2>1. Size(q) = n
    BY <1>5, FullIs
  <2>2. p.tail = q.head /\ p.head = Wrap(n, q.head, 1)
    BY <1>2, <1>5, FullIs
  <2>3. Wrap(n, Wrap(n, q.head, 1), n) = q.head
    BY <1>1 DEF Wrap
  <2> QED BY <1>3, <2>1, <2>2, <2>3, SizeIs
<1>6. ASSUME ~Full(q) PROVE Size(p) = Size(q) + 1
  <2>1. Size(q) + 1 \in 0 .. n
    BY <1>4, <1>6, FullIs
  <2>2. p.tail = Wrap(n, q.head, Size(q) + 1) /\ p.head = q.head
    <3>1. Size(q) \in 0 .. n - 1
      BY <1>4, <2>1
    <3>2. Wrap(n, Wrap(n, q.head, Size(q)), 1) = Wrap(n, q.head, Size(q) + 1)
      BY <1>1, <3>1, WrapNext
    <3> QED BY <1>2, <1>4, <1>6, <3>2
  <2> QED BY <1>3, <2>1, <2>2, SizeIs
<1> QED BY <1>2, <1>3, <1>5, <1>6

\* It appends, after dropping the oldest element if there is no room.
THEOREM PushBackContents ==
  ASSUME NEW n \in Nat \ {0}, NEW S, NEW q \in Queues(n, S), NEW x \in S
  PROVE  Contents(PushBack(q, x))
           = Append(IF Full(q) THEN Tail(Contents(q)) ELSE Contents(q), x)
<1> DEFINE p == PushBack(q, x)
<1>1. q.head \in 0 .. n /\ q.tail \in 0 .. n /\ q.v \in [0 .. n -> S]
  BY Members
<1>2. /\ p.head = (IF Full(q) THEN Wrap(n, q.head, 1) ELSE q.head)
      /\ p.v = [q.v EXCEPT ![q.tail] = x]
  BY PushBackMembers
<1>3. p \in Queues(n, S) /\ Size(p) = IF Full(q) THEN Size(q) ELSE Size(q) + 1
  BY PushBackIs
<1>4. /\ Contents(q) \in Seq(S) /\ Len(Contents(q)) = Size(q)
      /\ \A i \in 1 .. Size(q) : Contents(q)[i] = At(q, i - 1)
  BY ContentsIs
<1>5. Size(q) \in 0 .. n /\ q.tail = Wrap(n, q.head, Size(q))
  BY SizeIs
<1> HIDE DEF p
\* What is not the new element is where it was.
<1>6. \A i \in 0 .. n : i # Size(q) =>
         q.v[Wrap(n, q.head, i)] = p.v[Wrap(n, q.head, i)]
  <2> SUFFICES ASSUME NEW i \in 0 .. n, i # Size(q)
               PROVE  q.v[Wrap(n, q.head, i)] = p.v[Wrap(n, q.head, i)]
    OBVIOUS
  <2>1. Wrap(n, q.head, i) \in 0 .. n /\ Wrap(n, q.head, i) # q.tail
    BY <1>1, <1>5, WrapIn, WrapApart
  <2> QED BY <1>1, <1>2, <2>1
<1>7. p.v[q.tail] = x
  BY <1>1, <1>2
<1>8. ASSUME Full(q) PROVE Contents(p) = Append(Tail(Contents(q)), x)
  <2> DEFINE c == Append(Tail(Contents(q)), x)
  <2>1. Size(q) = n /\ Size(p) = n /\ p.head = Wrap(n, q.head, 1)
    BY <1>2, <1>3, <1>8, FullIs
  <2>2. /\ c \in Seq(S) /\ Len(c) = n /\ c[n] = x
        /\ \A i \in 1 .. n - 1 : c[i] = Contents(q)[i + 1]
    BY <1>4, <2>1
  <2> HIDE DEF c
  <2>3. ASSUME NEW i \in 1 .. n PROVE c[i] = At(p, i - 1)
    <3>1. At(p, i - 1) = p.v[Wrap(n, q.head, i)]
      <4>1. i - 1 \in 0 .. n - 1 /\ i - 1 \in 0 .. n
        OBVIOUS
      <4>2. Wrap(n, Wrap(n, q.head, 1), i - 1) = Wrap(n, q.head, i)
        <5>1. (i - 1) + 1 = i
          OBVIOUS
        <5> QED BY <1>1, <4>1, <5>1, WrapNext
      <4> QED BY <1>3, <2>1, <4>1, <4>2, AtSlot
    <3>2. CASE i = n
      BY <1>5, <1>7, <2>1, <2>2, <3>1, <3>2
    <3>3. CASE i # n
      <4>1. i \in 0 .. n /\ i \in 1 .. n - 1 /\ i + 1 \in 1 .. n /\ (i + 1) - 1 = i
        BY <3>3
      <4>2. c[i] = At(q, (i + 1) - 1)
        BY <1>4, <2>1, <2>2, <4>1
      <4>3. At(q, i) = q.v[Wrap(n, q.head, i)]
        BY <4>1, AtSlot
      <4> QED BY <1>6, <2>1, <3>1, <3>3, <4>1, <4>2, <4>3
    <3> QED BY <3>2, <3>3
  <2>4. Contents(p) = c
    BY <1>3, <2>1, <2>2, <2>3, ContentsAre
  <2> QED BY <2>4 DEF c
<1>9. ASSUME ~Full(q) PROVE Contents(p) = Append(Contents(q), x)
  <2> DEFINE c == Append(Contents(q), x)
  <2>1. Size(q) \in 0 .. n - 1 /\ Size(p) = Size(q) + 1 /\ p.head = q.head
    BY <1>2, <1>3, <1>5, <1>9, FullIs
  <2>2. /\ c \in Seq(S) /\ Len(c) = Size(q) + 1 /\ c[Size(q) + 1] = x
        /\ \A i \in 1 .. Size(q) : c[i] = Contents(q)[i]
    BY <1>4, <2>1
  <2> HIDE DEF c
  <2>3. ASSUME NEW i \in 1 .. Size(q) + 1 PROVE c[i] = At(p, i - 1)
    <3>1. i - 1 \in 0 .. n
      BY <2>1
    <3>2. At(p, i - 1) = p.v[Wrap(n, q.head, i - 1)]
      BY <1>3, <2>1, <3>1, AtSlot
    <3>3. CASE i = Size(q) + 1
      <4>1. i - 1 = Size(q)
        BY <2>1, <3>3
      <4> QED BY <1>5, <1>7, <2>2, <3>2, <3>3, <4>1
    <3>4. CASE i # Size(q) + 1
      <4>1. i - 1 # Size(q) /\ i \in 1 .. Size(q)
        BY <2>1, <3>4
      <4>2. At(q, i - 1) = q.v[Wrap(n, q.head, i - 1)]
        BY <3>1, AtSlot
      <4> QED BY <1>4, <1>6, <2>2, <3>1, <3>2, <4>1, <4>2
    <3> QED BY <3>3, <3>4
  <2>4. Contents(p) = c
    BY <1>3, <2>1, <2>2, <2>3, ContentsAre
  <2> QED BY <2>4 DEF c
<1> QED BY <1>8, <1>9 DEF p

-------------------------------------------------------------------------------
(* front() and pop_front(). *)

\* Taking an element leaves the queue well formed and returns the oldest.
THEOREM MoveFrontIs ==
  ASSUME NEW n \in Nat \ {0}, NEW S, NEW q \in Queues(n, S), Blank \in S, ~IsEmpty(q)
  PROVE  /\ MoveFront(q) \in Queues(n, S)
         /\ Size(MoveFront(q)) = Size(q) - 1
         /\ MoveFront(q).overrun = q.overrun
         /\ Front(q) = Head(Contents(q)) /\ Front(q) \in S
         /\ Contents(MoveFront(q)) = Tail(Contents(q))
<1> DEFINE p == MoveFront(q)
<1>1. /\ q.max = n + 1 /\ q.head \in 0 .. n /\ q.tail \in 0 .. n
      /\ q.overrun \in Nat /\ q.v \in [0 .. n -> S]
      /\ q = [max |-> q.max, head |-> q.head, tail |-> q.tail,
              overrun |-> q.overrun, v |-> q.v]
  BY Members
<1>2. (q.head + 1) % q.max = Wrap(n, q.head, 1)
  BY <1>1, WrapOne
<1>3. p = [max |-> n + 1, head |-> Wrap(n, q.head, 1), tail |-> q.tail,
           overrun |-> q.overrun, v |-> [q.v EXCEPT ![q.head] = Blank]]
  <2> DEFINE r == [q EXCEPT !.v = [q.v EXCEPT ![q.head] = Blank]]
  <2>1. r = [max |-> q.max, head |-> q.head, tail |-> q.tail,
             overrun |-> q.overrun, v |-> [q.v EXCEPT ![q.head] = Blank]]
    BY <1>1
  <2>2. p = PopFront(r)
    BY DEF MoveFront
  <2> HIDE DEF r, p
  <2>3. p = [r EXCEPT !.head = (r.head + 1) % r.max]
    BY <2>2 DEF PopFront
  <2> QED BY <1>1, <1>2, <2>1, <2>3
<1> HIDE DEF p
<1>4. p \in Queues(n, S)
  <2>1. Wrap(n, q.head, 1) \in 0 .. n
    BY <1>1, WrapOne
  <2> QED BY <1>1, <1>3, <2>1 DEF Queues
<1>5. Size(q) \in 1 .. n /\ q.tail = Wrap(n, q.head, Size(q))
  BY SizeIs, FullIs
<1>6. Size(p) = Size(q) - 1
  <2>1. /\ (Size(q) - 1) + 1 = Size(q)
        /\ Size(q) - 1 \in 0 .. n /\ Size(q) - 1 \in 0 .. n - 1
    BY <1>5
  <2>2. Wrap(n, Wrap(n, q.head, 1), Size(q) - 1) = Wrap(n, q.head, Size(q))
    BY <1>1, <2>1, WrapNext
  <2>3. p.tail = Wrap(n, p.head, Size(q) - 1)
    BY <1>3, <1>5, <2>1, <2>2
  <2> QED BY <1>4, <2>1, <2>3, SizeIs
<1>7. /\ Contents(q) \in Seq(S) /\ Len(Contents(q)) = Size(q)
      /\ \A i \in 1 .. Size(q) : Contents(q)[i] = At(q, i - 1)
  BY ContentsIs
<1>8. Front(q) = Head(Contents(q)) /\ Front(q) \in S
  <2>1. At(q, 0) = q.v[q.head]
    BY <1>1, AtSlot, WrapRound
  <2>2. Head(Contents(q)) = Contents(q)[1] /\ Contents(q)[1] = At(q, 1 - 1)
    BY <1>5, <1>7
  <2>3. 1 - 1 = 0
    OBVIOUS
  <2> QED BY <1>1, <2>1, <2>2, <2>3 DEF Front
<1>9. Contents(p) = Tail(Contents(q))
  <2> DEFINE c == Tail(Contents(q))
  <2>1. /\ c \in Seq(S) /\ Len(c) = Size(q) - 1
        /\ \A i \in 1 .. Size(q) - 1 : c[i] = Contents(q)[i + 1]
    BY <1>5, <1>7
  <2> HIDE DEF c
  <2>2. ASSUME NEW i \in 1 .. Size(q) - 1 PROVE c[i] = At(p, i - 1)
    <3>1. /\ i \in 1 .. n /\ i \in 0 .. n /\ i - 1 \in 0 .. n /\ i - 1 \in 0 .. n - 1
          /\ i + 1 \in 1 .. Size(q) /\ (i + 1) - 1 = i /\ (i - 1) + 1 = i
      BY <1>5
    <3>2. At(p, i - 1) = p.v[Wrap(n, q.head, i)]
      <4>1. Wrap(n, Wrap(n, q.head, 1), i - 1) = Wrap(n, q.head, i)
        BY <1>1, <3>1, WrapNext
      <4>2. p.head = Wrap(n, q.head, 1)
        BY <1>3
      <4> QED BY <1>4, <3>1, <4>1, <4>2, AtSlot
    <3>3. At(q, i) = q.v[Wrap(n, q.head, i)]
      BY <3>1, AtSlot
    <3>4. Wrap(n, q.head, i) \in 0 .. n /\ Wrap(n, q.head, i) # q.head
      <4>1. 0 \in 0 .. n /\ i # 0
        BY <3>1
      <4>2. Wrap(n, q.head, i) # Wrap(n, q.head, 0)
        BY <1>1, <3>1, <4>1, WrapApart
      <4> QED BY <1>1, <3>1, <4>2, WrapIn, WrapRound
    <3>5. p.v[Wrap(n, q.head, i)] = q.v[Wrap(n, q.head, i)]
      BY <1>1, <1>3, <3>4
    <3> QED BY <1>7, <2>1, <3>1, <3>2, <3>3, <3>5
  <2>3. Contents(p) = c
    BY <1>4, <1>6, <2>1, <2>2, ContentsAre
  <2> QED BY <2>3 DEF c
<1>10. p.overrun = q.overrun
  BY <1>3
<1> QED BY <1>4, <1>6, <1>8, <1>9, <1>10 DEF p
===============================================================================
