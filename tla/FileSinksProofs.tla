----------------------------- MODULE FileSinksProofs -----------------------------
(***************************************************************************)
(* Proofs about FileSinks for any number of files, any sizes and any       *)
(* bounds on the clock and on the age of a message.                        *)
(*                                                                         *)
(* What the file operations do is stated once, as lemmas about FileHelper, *)
(* and the two sinks are then treated apart; a step of the one leaves the  *)
(* other alone. The proofs about the rotating sink speak of View, the      *)
(* files with what is still in the stdio buffer: most steps leave it as it *)
(* is or cut the ends of some files. The queue of names of the daily sink  *)
(* is the sequence of its contents, by the lemmas of CircularQProofs.      *)
(*                                                                         *)
(* Total, History and InitQueue are recursive functions. What one computes *)
(* follows from two facts about functions on 0 .. n: that the one which is *)
(* built step by step exists, and that what holds at 0 and goes on holding *)
(* holds up to n.                                                          *)
(***************************************************************************)
EXTENDS FileSinks, SequenceTheorems, FiniteSetTheorems, WellFoundedInduction, TLAPS

-------------------------------------------------------------------------------
(* Induction up to a number, and functions defined step by step, as Total is. *)

\* The order of the naturals is well-founded.
LEMMA LeastNat ==
  ASSUME NEW S, S \subseteq Nat, S # {}
  PROVE  \E n \in S : \A k \in S : n <= k
<1>1. PICK n \in S : \A k \in S : <<k, n>> \notin OpToRel(<, Nat)
  BY WFMin, NatLessThanWellFounded
<1>2. \A k \in S : ~ (k < n)
  BY <1>1, Zenon DEF OpToRel
<1> QED BY <1>2

\* What holds at zero and goes on holding holds up to n.
LEMMA UpTo ==
  ASSUME NEW n \in Nat, NEW S, 0 \in S, \A i \in 1 .. n : i - 1 \in S => i \in S
  PROVE  0 .. n \subseteq S
<1> DEFINE R == (0 .. n) \ S
<1>1. SUFFICES ASSUME R # {} PROVE FALSE
  OBVIOUS
<1>2. PICK i \in R : \A k \in R : i <= k
  <2>1. R \subseteq Nat
    OBVIOUS
  <2> HIDE DEF R
  <2> QED BY <1>1, <2>1, LeastNat
<1>3. i \in 1 .. n /\ i - 1 \in 0 .. n
  BY <1>2
<1>4. i - 1 \in S
  BY <1>2, <1>3
<1> QED BY <1>2, <1>3, <1>4

\* The functions that start with base and go on with n steps, of which there
\* is one.
Steps(n, D) == [1 .. n -> [D -> D]]

Chains(n, D, base, step) ==
  {f \in [0 .. n -> D] : f[0] = base /\ \A i \in 1 .. n : f[i] = step[i][f[i - 1]]}

LEMMA Iterated ==
  ASSUME NEW n \in Nat, NEW D, NEW base \in D, NEW step \in Steps(n, D)
  PROVE  Chains(n, D, base, step) # {}
<1> USE DEF Steps
<1> DEFINE Built(k, f) == f[0] = base /\ \A i \in 1 .. k : f[i] = step[i][f[i - 1]]
           S == {k \in 0 .. n : \E f \in [0 .. k -> D] : Built(k, f)}
<1>1. 0 \in S
  <2> DEFINE f == [i \in 0 .. 0 |-> base]
  <2>1. f \in [0 .. 0 -> D] /\ f[0] = base /\ 0 \in 0 .. n
    OBVIOUS
  <2>2. Built(0, f)
    BY <2>1
  <2> HIDE DEF f, Built
  <2> QED BY <2>1, <2>2
<1>2. ASSUME NEW k \in 1 .. n, k - 1 \in S PROVE k \in S
  <2>1. PICK f \in [0 .. k - 1 -> D] : Built(k - 1, f)
    BY <1>2
  <2> DEFINE g == [i \in 0 .. k |-> IF i = k THEN step[k][f[k - 1]] ELSE f[i]]
  <2>2. step[k] \in [D -> D] /\ f[k - 1] \in D
    OBVIOUS
  <2>3. g \in [0 .. k -> D]
    BY <2>2
  <2>4. g[0] = base
    BY <2>1
  <2>5. \A i \in 1 .. k : g[i] = step[i][g[i - 1]]
    <3> TAKE i \in 1 .. k
    <3>1. CASE i = k
      BY <3>1
    <3>2. CASE i # k
      <4>1. i \in 1 .. k - 1 /\ i \in 0 .. k /\ i - 1 \in 0 .. k /\ i - 1 # k
        BY <3>2
      <4>2. g[i] = f[i] /\ g[i - 1] = f[i - 1]
        BY <3>2, <4>1
      <4> HIDE DEF g
      <4> QED BY <2>1, <4>1, <4>2
    <3> QED BY <3>1, <3>2
  <2>6. k \in 0 .. n
    OBVIOUS
  <2> QED BY <2>3, <2>4, <2>5, <2>6
<1>3. n \in S
  <2>1. 0 .. n \subseteq S
    <3> HIDE DEF S
    <3> QED BY <1>1, <1>2, UpTo
  <2>2. n \in 0 .. n
    OBVIOUS
  <2> HIDE DEF S
  <2> QED BY <2>1, <2>2
<1> QED BY <1>3 DEF Chains

\* Total is the function its recursive definition says.
LEMMA TotalIs ==
  ASSUME NEW s \in Seq(Nat)
  PROVE  \E f \in [0 .. Len(s) -> Nat] :
           /\ f[0] = 0 /\ Total(s) = f[Len(s)]
           /\ \A i \in 1 .. Len(s) : f[i] = f[i - 1] + s[i]
<1> DEFINE n == Len(s)
           Sum(f) == f = [i \in 0 .. Len(s) |-> IF i = 0 THEN 0 ELSE f[i - 1] + s[i]]
           step == [i \in 1 .. n |-> [x \in Nat |-> x + s[i]]]
<1>1. n \in Nat /\ 0 \in Nat /\ step \in Steps(n, Nat)
  BY DEF Steps
<1>2. PICK f \in [0 .. n -> Nat] : f[0] = 0 /\ \A i \in 1 .. n : f[i] = step[i][f[i - 1]]
  <2>1. Chains(n, Nat, 0, step) # {}
    <3> HIDE DEF n, step
    <3> QED BY <1>1, Iterated
  <2> HIDE DEF n, step
  <2> QED BY <2>1 DEF Chains
<1>3. \A i \in 1 .. n : f[i] = f[i - 1] + s[i]
  <2> TAKE i \in 1 .. n
  <2>1. f[i - 1] \in Nat
    <3>1. i - 1 \in 0 .. n
      BY <1>1
    <3> HIDE DEF step, n
    <3> QED BY <1>2, <3>1
  <2>2. f[i] = step[i][f[i - 1]]
    <3> HIDE DEF step
    <3> QED BY <1>2
  <2> QED BY <2>1, <2>2
<1>4. Sum(f)
  BY <1>2, <1>3
<1>5. Sum(CHOOSE g : Sum(g))
  <2> HIDE DEF Sum
  <2> QED BY <1>4
<1> DEFINE g == CHOOSE h : Sum(h)
<1>6. Total(s) = g[n]
  BY DEF Total
<1>7. g = [i \in 0 .. n |-> IF i = 0 THEN 0 ELSE g[i - 1] + s[i]]
  <2>1. Sum(g)
    BY <1>5
  <2> HIDE DEF g
  <2> QED BY <2>1
<1> HIDE DEF g
<1>8. \A i \in 0 .. n : g[i] = f[i]
  <2> DEFINE S == {i \in 0 .. n : g[i] = f[i]}
  <2>1. 0 \in S
    BY <1>2, <1>7
  <2>2. \A i \in 1 .. n : i - 1 \in S => i \in S
    <3> TAKE i \in 1 .. n
    <3>1. i \in 0 .. n /\ i - 1 \in 0 .. n /\ i # 0
      OBVIOUS
    <3>2. g[i] = g[i - 1] + s[i]
      BY <1>7, <3>1
    <3> QED BY <1>3, <3>1, <3>2
  <2> HIDE DEF S
  <2>3. 0 .. n \subseteq S
    BY <1>1, <2>1, <2>2, UpTo
  <2> USE DEF S
  <2> QED BY <2>3
<1>9. Total(s) = f[n]
  BY <1>6, <1>8
<1> QED BY <1>2, <1>3, <1>9

LEMMA TotalNat == ASSUME NEW s \in Seq(Nat) PROVE Total(s) \in Nat
<1>1. PICK f \in [0 .. Len(s) -> Nat] : Total(s) = f[Len(s)]
  BY TotalIs
<1>2. Len(s) \in 0 .. Len(s)
  OBVIOUS
<1> QED BY <1>1, <1>2

LEMMA TotalEmpty == Total(<<>>) = 0
<1>1. <<>> \in Seq(Nat) /\ Len(<<>>) = 0
  OBVIOUS
<1> QED BY <1>1, TotalIs

LEMMA TotalOne == ASSUME NEW x \in Nat PROVE Total(<<x>>) = x
<1>1. <<x>> \in Seq(Nat) /\ Len(<<x>>) = 1 /\ <<x>>[1] = x
  OBVIOUS
<1>2. PICK f \in [0 .. 1 -> Nat] :
        f[0] = 0 /\ Total(<<x>>) = f[1] /\ \A i \in 1 .. 1 : f[i] = f[i - 1] + <<x>>[i]
  BY <1>1, TotalIs
<1>3. f[1] = f[0] + <<x>>[1]
  BY <1>2
<1> QED BY <1>1, <1>2, <1>3

LEMMA TotalConcat ==
  ASSUME NEW s \in Seq(Nat), NEW t \in Seq(Nat)
  PROVE  Total(s \o t) = Total(s) + Total(t)
<1> DEFINE u == s \o t
           m == Len(s)
           n == Len(t)
<1>1. /\ u \in Seq(Nat) /\ m \in Nat /\ n \in Nat /\ Len(u) = m + n
      /\ \A i \in 1 .. m : u[i] = s[i]
      /\ \A i \in 1 .. n : u[m + i] = t[i]
  OBVIOUS
<1>2. PICK f \in [0 .. m -> Nat] :
        f[0] = 0 /\ Total(s) = f[m] /\ \A i \in 1 .. m : f[i] = f[i - 1] + s[i]
  BY TotalIs
<1>3. PICK g \in [0 .. n -> Nat] :
        g[0] = 0 /\ Total(t) = g[n] /\ \A i \in 1 .. n : g[i] = g[i - 1] + t[i]
  BY TotalIs
<1> HIDE DEF u, m, n
<1>4. PICK h \in [0 .. m + n -> Nat] :
        h[0] = 0 /\ Total(u) = h[m + n] /\ \A i \in 1 .. m + n : h[i] = h[i - 1] + u[i]
  <2>1. PICK h \in [0 .. Len(u) -> Nat] :
          h[0] = 0 /\ Total(u) = h[Len(u)] /\ \A i \in 1 .. Len(u) : h[i] = h[i - 1] + u[i]
    BY <1>1, TotalIs
  <2> QED BY <1>1, <2>1
<1>5. h[m] = f[m]
  <2> DEFINE S == {i \in 0 .. m : h[i] = f[i]}
  <2>1. 0 \in S
    BY <1>1, <1>2, <1>4
  <2>2. \A i \in 1 .. m : i - 1 \in S => i \in S
    <3> TAKE i \in 1 .. m
    <3>1. i \in 1 .. m + n /\ i \in 0 .. m /\ i - 1 \in 0 .. m
      BY <1>1
    <3>2. h[i] = h[i - 1] + u[i] /\ f[i] = f[i - 1] + s[i] /\ u[i] = s[i]
      BY <1>1, <1>2, <1>4, <3>1
    <3> QED BY <3>1, <3>2
  <2>3. 0 .. m \subseteq S
    <3> HIDE DEF S
    <3> QED BY <1>1, <2>1, <2>2, UpTo
  <2>4. m \in 0 .. m
    BY <1>1
  <2> QED BY <2>3, <2>4
<1>6. h[m + n] = h[m] + g[n]
  <2> DEFINE S == {i \in 0 .. n : h[m + i] = h[m] + g[i]}
  <2>1. 0 \in S
    BY <1>1, <1>3, <1>4
  <2>2. \A i \in 1 .. n : i - 1 \in S => i \in S
    <3> TAKE i \in 1 .. n
    <3>1. i \in 0 .. n /\ i - 1 \in 0 .. n /\ m + i \in 1 .. m + n /\ m + (i - 1) = (m + i) - 1
      BY <1>1
    <3>2. h[m + i] = h[(m + i) - 1] + u[m + i] /\ g[i] = g[i - 1] + t[i] /\ u[m + i] = t[i]
      BY <1>1, <1>3, <1>4, <3>1
    <3>3. h[m] \in Nat /\ g[i - 1] \in Nat
      <4>1. m \in 0 .. m + n
        BY <1>1
      <4> QED BY <1>3, <1>4, <3>1, <4>1
    <3>4. t[i] \in Nat
      BY DEF n
    <3> HIDE DEF S
    <3>5. ASSUME h[(m + i) - 1] = h[m] + g[i - 1] PROVE h[m + i] = h[m] + g[i]
      BY <3>2, <3>3, <3>4, <3>5
    <3>6. i - 1 \in S => h[(m + i) - 1] = h[m] + g[i - 1]
      BY <3>1 DEF S
    <3> QED BY <3>1, <3>5, <3>6 DEF S
  <2>3. 0 .. n \subseteq S
    <3> HIDE DEF S
    <3> QED BY <1>1, <2>1, <2>2, UpTo
  <2>4. n \in 0 .. n
    BY <1>1
  <2> QED BY <2>3, <2>4
<1> QED BY <1>2, <1>3, <1>4, <1>5, <1>6 DEF u

\* The sizes of the messages of c.
SizesOf(l, c) == [i \in 1 .. Len(c) |-> l[c[i]]]

LEMMA SizesAre ==
  ASSUME NEW l \in Seq(Nat), NEW c \in Seq(1 .. Len(l))
  PROVE  /\ SizesOf(l, c) \in Seq(Nat) /\ Len(SizesOf(l, c)) = Len(c)
         /\ \A i \in 1 .. Len(c) : SizesOf(l, c)[i] = l[c[i]]
<1>1. \A i \in 1 .. Len(c) : l[c[i]] \in Nat
  OBVIOUS
<1> QED BY <1>1 DEF SizesOf

LEMMA SizesConcat ==
  ASSUME NEW l \in Seq(Nat), NEW c \in Seq(1 .. Len(l)), NEW d \in Seq(1 .. Len(l))
  PROVE  SizesOf(l, c \o d) = SizesOf(l, c) \o SizesOf(l, d)
<1> DEFINE e == c \o d
           s == SizesOf(l, c)
           t == SizesOf(l, d)
           u == SizesOf(l, e)
<1>1. /\ e \in Seq(1 .. Len(l)) /\ Len(e) = Len(c) + Len(d)
      /\ \A i \in 1 .. Len(c) + Len(d) : e[i] = IF i <= Len(c) THEN c[i] ELSE d[i - Len(c)]
  BY ConcatProperties
<1>2. /\ s \in Seq(Nat) /\ Len(s) = Len(c) /\ \A i \in 1 .. Len(c) : s[i] = l[c[i]]
      /\ t \in Seq(Nat) /\ Len(t) = Len(d) /\ \A i \in 1 .. Len(d) : t[i] = l[d[i]]
      /\ u \in Seq(Nat) /\ Len(u) = Len(e) /\ \A i \in 1 .. Len(e) : u[i] = l[e[i]]
  <2> HIDE DEF e
  <2> QED BY <1>1, SizesAre
<1> HIDE DEF e, s, t, u
<1>3. /\ s \o t \in Seq(Nat) /\ Len(s \o t) = Len(c) + Len(d)
      /\ \A i \in 1 .. Len(c) + Len(d) : (s \o t)[i] = IF i <= Len(c) THEN s[i] ELSE t[i - Len(c)]
  <2>1. s \in Seq(Nat) /\ t \in Seq(Nat) /\ Len(s) = Len(c) /\ Len(t) = Len(d)
    BY <1>2
  <2>2. /\ s \o t \in Seq(Nat) /\ Len(s \o t) = Len(s) + Len(t)
        /\ \A i \in 1 .. Len(s) + Len(t) :
             (s \o t)[i] = IF i <= Len(s) THEN s[i] ELSE t[i - Len(s)]
    BY <2>1, ConcatProperties
  <2> QED BY <2>1, <2>2
<1>4. \A i \in 1 .. Len(u) : u[i] = (s \o t)[i]
  <2> TAKE i \in 1 .. Len(u)
  <2>1. i \in 1 .. Len(e) /\ i \in 1 .. Len(c) + Len(d) /\ u[i] = l[e[i]]
    BY <1>1, <1>2
  <2>2. CASE i <= Len(c)
    BY <1>1, <1>2, <1>3, <2>1, <2>2
  <2>3. CASE ~ (i <= Len(c))
    <3>1. i - Len(c) \in 1 .. Len(d)
      BY <2>1, <2>3
    <3> QED BY <1>1, <1>2, <1>3, <2>1, <2>3, <3>1
  <2> QED BY <2>2, <2>3
<1>5. u = s \o t
  <2>1. u \in Seq(Nat) /\ s \o t \in Seq(Nat) /\ Len(u) = Len(s \o t)
    BY <1>1, <1>2, <1>3
  <2> DEFINE w == s \o t
  <2>2. w \in Seq(Nat) /\ Len(u) = Len(w) /\ \A i \in 1 .. Len(u) : u[i] = w[i]
    BY <2>1, <1>4
  <2> HIDE DEF w
  <2>3. u = w
    BY <2>1, <2>2, SeqEqual
  <2> QED BY <2>3 DEF w
<1> QED BY <1>5 DEF e, s, t, u

\* The bytes of the messages of c, as logged in l.
BytesIn(l, c) == Total(SizesOf(l, c))

LEMMA BytesConcat ==
  ASSUME NEW l \in Seq(Nat), NEW c \in Seq(1 .. Len(l)), NEW d \in Seq(1 .. Len(l))
  PROVE  /\ BytesIn(l, c \o d) = BytesIn(l, c) + BytesIn(l, d)
         /\ BytesIn(l, c) \in Nat /\ BytesIn(l, d) \in Nat
<1>1. SizesOf(l, c) \in Seq(Nat) /\ SizesOf(l, d) \in Seq(Nat)
  BY SizesAre
<1> QED BY <1>1, SizesConcat, TotalConcat, TotalNat DEF BytesIn

LEMMA BytesEmpty == \A l : BytesIn(l, <<>>) = 0
  BY TotalEmpty DEF BytesIn, SizesOf

LEMMA BytesOne ==
  ASSUME NEW l \in Seq(Nat), NEW m \in 1 .. Len(l)
  PROVE  BytesIn(l, <<m>>) = l[m]
<1>1. SizesOf(l, <<m>>) = <<l[m]>> /\ l[m] \in Nat
  BY DEF SizesOf
<1> QED BY <1>1, TotalOne DEF BytesIn

LEMMA BytesOlder ==
  ASSUME NEW l \in Seq(Nat), NEW x \in Nat, NEW c \in Seq(1 .. Len(l))
  PROVE  BytesIn(Append(l, x), c) = BytesIn(l, c)
<1>1. \A i \in 1 .. Len(c) : Append(l, x)[c[i]] = l[c[i]]
  OBVIOUS
<1> QED BY <1>1 DEF BytesIn, SizesOf

LEMMA BytesAre == \A c : Bytes(c) = BytesIn(logged, c)
  BY DEF Bytes, BytesIn, SizesOf

-------------------------------------------------------------------------------
(* The file operations: types. *)

Msgs == 1 .. Len(logged)

LEMMA WithIs ==
  ASSUME NEW d, NEW n, NEW c
  PROVE  /\ DOMAIN With(d, n, c) = DOMAIN d \cup {n}
         /\ With(d, n, c)[n] = c
         /\ \A x \in DOMAIN d : x # n => With(d, n, c)[x] = d[x]
  BY DEF With

LEMMA WithIn ==
  ASSUME NEW d, NEW n, NEW c, NEW T, d \in [DOMAIN d -> T], c \in T
  PROVE  With(d, n, c) \in [DOMAIN d \cup {n} -> T]
  BY DEF With

\* A disk that the file operations may leave.
DiskOK(d) == DOMAIN d \subseteq Names /\ d \in [DOMAIN d -> Seq(Msgs)]

LEMMA EmptySeqIn == \A S : <<>> \in Seq(S)
  OBVIOUS

LEMMA WithOK ==
  ASSUME NEW d, NEW n \in Names, NEW c \in Seq(Msgs), DiskOK(d)
  PROVE  DiskOK(With(d, n, c))
<1> DEFINE T == Seq(Msgs)
<1>1. d \in [DOMAIN d -> T] /\ c \in T /\ DOMAIN d \cup {n} \subseteq Names
  BY DEF DiskOK
<1>2. DOMAIN With(d, n, c) = DOMAIN d \cup {n} /\ With(d, n, c) \in [DOMAIN d \cup {n} -> T]
  <2> HIDE DEF T
  <2> QED BY <1>1, WithIs, WithIn
<1> QED BY <1>1, <1>2 DEF DiskOK

LEMMA SyncedIs ==
  ASSUME FileOK, NEW b \in Seq(Msgs)
  PROVE  /\ DiskOK(disk) /\ DiskOK(Synced(b))
         /\ DOMAIN Synced(b) = DOMAIN disk
         /\ \A n \in DOMAIN disk :
              Synced(b)[n] = IF n = fd_ THEN disk[n] \o b ELSE disk[n]
<1>1. DiskOK(disk)
  BY DEF FileOK, DiskOK, Msgs
<1>2. CASE fd_ \in DOMAIN disk
  <2>1. disk[fd_] \in Seq(Msgs) /\ disk[fd_] \o b \in Seq(Msgs) /\ fd_ \in Names
    BY <1>1, <1>2, ConcatProperties DEF DiskOK
  <2>2. Synced(b) = With(disk, fd_, disk[fd_] \o b)
    BY <1>2 DEF Synced
  <2>3. DiskOK(Synced(b))
    BY <1>1, <2>1, <2>2, WithOK
  <2>5. DOMAIN disk \cup {fd_} = DOMAIN disk
    BY <1>2
  <2>6. /\ DOMAIN Synced(b) = DOMAIN disk
        /\ Synced(b)[fd_] = disk[fd_] \o b
        /\ \A x \in DOMAIN disk : x # fd_ => Synced(b)[x] = disk[x]
    BY <1>2, <2>2 DEF With
  <2>7. \A n \in DOMAIN disk : Synced(b)[n] = IF n = fd_ THEN disk[n] \o b ELSE disk[n]
    BY <2>6
  <2> QED BY <1>1, <2>3, <2>6, <2>7
<1>3. CASE fd_ \notin DOMAIN disk
  <2>1. Synced(b) = disk
    BY <1>3 DEF Synced
  <2> QED BY <1>1, <1>3, <2>1
<1> QED BY <1>2, <1>3

LEMMA ClosedOK ==
  ASSUME FileOK, NEW d \in Closed
  PROVE  DiskOK(d) /\ DOMAIN d = DOMAIN disk
<1>1. buf \in Seq(Msgs)
  BY DEF FileOK, Msgs
<1> QED BY <1>1, SyncedIs DEF Closed

\* FileOK after a step, from what it has to say.
LEMMA FileOKNext ==
  ASSUME logged' = logged, DiskOK(disk'), buf' \in Seq(Msgs), fd_' \in Names \cup {NoFile},
         fd_' = NoFile => buf' = <<>>, fault' \in BOOLEAN
  PROVE  FileOK'
  BY DEF FileOK, DiskOK, Msgs

LEMMA CloseOK ==
  ASSUME FileOK, CloseFile, logged' = logged
  PROVE  FileOK'
<1>1. DiskOK(disk')
  BY ClosedOK DEF CloseFile
<1>2. fault' \in BOOLEAN
  BY DEF CloseFile, FileOK
<1> QED BY <1>1, <1>2, FileOKNext, EmptySeqIn DEF CloseFile

LEMMA OpenOK ==
  ASSUME FileOK, NEW n \in Names, NEW t \in BOOLEAN, OpenFile(n, t), logged' = logged
  PROVE  FileOK'
<1>1. PICK d \in Closed :
        /\ disk' = With(d, n, IF t \/ n \notin DOMAIN d THEN <<>> ELSE d[n])
        /\ fd_' = n /\ buf' = <<>>
        /\ fault' = (fault \/ d # Synced(buf))
  BY DEF OpenFile
<1>2. DiskOK(d)
  BY ClosedOK
<1>3. (IF t \/ n \notin DOMAIN d THEN <<>> ELSE d[n]) \in Seq(Msgs)
  BY <1>2, EmptySeqIn DEF DiskOK
<1>4. DiskOK(disk')
  BY <1>1, <1>2, <1>3, WithOK
<1>5. fault' \in BOOLEAN
  BY <1>1 DEF FileOK
<1> QED BY <1>1, <1>4, <1>5, FileOKNext, EmptySeqIn

LEMMA OpenFailsOK ==
  ASSUME FileOK, NEW n \in Names, NEW t \in BOOLEAN, OpenFails(n, t), logged' = logged
  PROVE  FileOK'
<1>1. PICK d \in Closed :
        /\ disk' = d \/ disk' = With(d, n, <<>>)
        /\ fd_' = NoFile /\ buf' = <<>> /\ fault' = TRUE
  BY DEF OpenFails
<1>2. DiskOK(d)
  BY ClosedOK
<1>3. DiskOK(disk')
  BY <1>1, <1>2, WithOK, EmptySeqIn
<1>5. fault' \in BOOLEAN
  BY <1>1
<1> QED BY <1>1, <1>3, <1>5, FileOKNext, EmptySeqIn

LEMMA WriteOK ==
  ASSUME FileOK, NEW m \in Msgs, WriteFile(m), logged' = logged
  PROVE  FileOK'
<1>1. Append(buf, m) \in Seq(Msgs)
  BY DEF FileOK, Msgs
<1>2. DiskOK(disk') /\ buf' \in Seq(Msgs)
  <2>1. DiskOK(disk) /\ DiskOK(Synced(Append(buf, m)))
    BY <1>1, SyncedIs
  <2> QED BY <1>1, <2>1, EmptySeqIn DEF WriteFile
<1>3. fd_' \in Names \cup {NoFile} /\ fd_' # NoFile
  BY DEF WriteFile, FileOK
<1>4. fault' \in BOOLEAN
  BY DEF WriteFile, FileOK
<1> QED BY <1>2, <1>3, <1>4, FileOKNext

LEMMA WriteFailsOK ==
  ASSUME FileOK, WriteFails, logged' = logged
  PROVE  FileOK'
<1>1. buf \in Seq(Msgs)
  BY DEF FileOK, Msgs
<1>2. DiskOK(disk') /\ buf' \in Seq(Msgs)
  BY <1>1, ClosedOK, SyncedIs, EmptySeqIn DEF WriteFails
<1>3. fd_' \in Names \cup {NoFile} /\ fd_' # NoFile
  BY DEF WriteFails, FileOK
<1>4. fault' \in BOOLEAN
  BY DEF WriteFails
<1> QED BY <1>2, <1>3, <1>4, FileOKNext

LEMMA FlushOK ==
  ASSUME FileOK, FlushFile, logged' = logged
  PROVE  FileOK'
<1>1. buf \in Seq(Msgs) /\ fd_ \in Names \cup {NoFile} /\ (fd_ = NoFile => buf = <<>>)
  BY DEF FileOK, Msgs
<1>2. DiskOK(disk')
  BY ClosedOK DEF FlushFile
<1>3. buf' = buf \/ buf' = <<>>
  BY DEF FlushFile
<1>4. fault' \in BOOLEAN
  BY DEF FlushFile, FileOK
<1>5. fd_' = fd_
  BY DEF FlushFile
<1> QED BY <1>1, <1>2, <1>3, <1>4, <1>5, FileOKNext, EmptySeqIn

LEMMA CrashOK ==
  ASSUME FileOK, NEW f, CrashFile(f), f \in BOOLEAN, logged' = logged
  PROVE  FileOK'
<1>1. DiskOK(disk')
  BY DEF CrashFile, FileOK, DiskOK, Msgs
<1>2. fault' \in BOOLEAN
  BY DEF CrashFile, FileOK
<1> QED BY <1>1, <1>2, FileOKNext, EmptySeqIn DEF CrashFile

-------------------------------------------------------------------------------
(* The file operations: which files there are. *)

LEMMA CloseEnds ==
  FileOK /\ CloseFile => DOMAIN disk' = DOMAIN disk /\ fd_' = NoFile /\ buf' = <<>>
  BY ClosedOK DEF CloseFile

LEMMA OpenEnds ==
  ASSUME FileOK, NEW n, NEW t, OpenFile(n, t)
  PROVE  DOMAIN disk' = DOMAIN disk \cup {n} /\ fd_' = n /\ buf' = <<>>
<1>1. PICK d \in Closed : disk' = With(d, n, IF t \/ n \notin DOMAIN d THEN <<>> ELSE d[n])
  BY DEF OpenFile
<1> DEFINE c == IF t \/ n \notin DOMAIN d THEN <<>> ELSE d[n]
<1>2. DOMAIN disk' = DOMAIN d \cup {n}
  <2> disk' = With(d, n, c)
    BY <1>1
  <2> HIDE DEF c
  <2> QED BY WithIs
<1> QED BY <1>2, ClosedOK DEF OpenFile

LEMMA OpenFailsEnds ==
  ASSUME FileOK, NEW n, NEW t, OpenFails(n, t)
  PROVE  /\ DOMAIN disk' \in {DOMAIN disk, DOMAIN disk \cup {n}}
         /\ fd_' = NoFile /\ buf' = <<>> /\ fault'
         /\ ~t => DOMAIN disk' = DOMAIN disk
<1>1. PICK d \in Closed : disk' = d \/ (t /\ disk' = With(d, n, <<>>))
  BY DEF OpenFails
<1>2. DOMAIN d = DOMAIN disk
  BY ClosedOK
<1>3. DOMAIN With(d, n, <<>>) = DOMAIN d \cup {n}
  BY WithIs
<1> QED BY <1>1, <1>2, <1>3 DEF OpenFails

LEMMA WriteEnds ==
  FileOK /\ WriteFile(Len(logged)) /\ logged # <<>> /\ logged \in Seq(Sizes) =>
    DOMAIN disk' = DOMAIN disk /\ fd_' = fd_ /\ Len(logged) \in Msgs
<1> SUFFICES ASSUME FileOK, WriteFile(Len(logged)), logged # <<>>, logged \in Seq(Sizes)
             PROVE  DOMAIN disk' = DOMAIN disk /\ fd_' = fd_ /\ Len(logged) \in Msgs
  OBVIOUS
<1>1. Len(logged) \in Msgs
  BY DEF Msgs
<1>2. Append(buf, Len(logged)) \in Seq(Msgs)
  BY <1>1 DEF FileOK, Msgs
<1> QED BY <1>1, <1>2, SyncedIs DEF WriteFile

LEMMA WriteFailsEnds ==
  FileOK /\ WriteFails => DOMAIN disk' = DOMAIN disk /\ fd_' = fd_ /\ fault'
  BY ClosedOK DEF WriteFails

LEMMA FlushEnds ==
  FileOK /\ FlushFile => DOMAIN disk' = DOMAIN disk /\ fd_' = fd_
  BY ClosedOK DEF FlushFile

-------------------------------------------------------------------------------
(* The rotating sink. *)

\* Where rotate_() has closed the file.
Inside == {"scan", "remove", "rename", "giveup", "reopen"}

\* Which file is open where.
Places ==
  /\ fd_ \in {0, NoFile} /\ DOMAIN disk \subseteq 0 .. MaxFiles
  /\ fd_ = 0 => 0 \in DOMAIN disk
  /\ rpc[1] \in Inside => fd_ = NoFile
  /\ rpc[1] = "down" => fd_ = NoFile /\ rpc[2] = "ctor"
  /\ rpc[1] = "ctor" => fd_ = 0 /\ rpc[2] = "ctor"
  /\ rpc[1] = "write" => fd_ = 0 /\ rpc[2] = "log"
  /\ rpc[2] = "log" => logged # <<>>
  /\ rpc[1] \in {"remove", "rename"} => index > 0 /\ index - 1 \in DOMAIN disk
  /\ rpc[1] = "reopen" => index = 0
  /\ rpc[1] = "idle" /\ fd_ = NoFile => current_size_ > MaxSize
  /\ rpc[2] = "log" /\ rpc[1] \in Inside \cup {"rotate"} => current_size_ > MaxSize

Rot == FileOK /\ RotOK /\ Places

LEMMA NoFileName == NoFile \notin Names /\ 0 .. MaxFiles \subseteq Names /\ 0 \in Names /\ MaxFiles \in Nat
                    /\ 0 # NoFile
  BY FileAssumption, RotatingAssumption

LEMMA RotFileStep == Rot /\ RotNext => FileOK'
<1> SUFFICES ASSUME Rot, RotNext PROVE FileOK'
  OBVIOUS
<1> USE DEF Rot
<1>0. FALSE \in BOOLEAN /\ TRUE \in BOOLEAN /\ 0 \in Names
  BY NoFileName
<1>1. CASE RotOpen
  BY <1>0, <1>1, OpenOK DEF RotOpen
<1>2. CASE RotOpenFails
  <2>1. logged' = logged
    BY <1>2 DEF RotOpenFails
  <2>2. CASE OpenFails(0, FALSE)
    BY <1>0, <2>1, <2>2, OpenFailsOK
  <2>3. CASE /\ disk' = With(disk, 0, IF 0 \in DOMAIN disk THEN disk[0] ELSE <<>>)
             /\ fault' = TRUE /\ UNCHANGED <<fd_, buf>>
    <3> DEFINE c == IF 0 \in DOMAIN disk THEN disk[0] ELSE <<>>
    <3>1. DiskOK(disk) /\ c \in Seq(Msgs)
      BY EmptySeqIn DEF FileOK, DiskOK, Msgs
    <3>2. DiskOK(disk')
      <4> disk' = With(disk, 0, c)
        BY <2>3
      <4> HIDE DEF c
      <4> QED BY <1>0, <3>1, WithOK
    <3> QED BY <2>1, <2>3, <3>2, FileOKNext DEF FileOK, Msgs
  <2> QED BY <1>2, <2>2, <2>3 DEF RotOpenFails
<1>3. CASE RotOpened \/ Skip \/ Found \/ LoopEnds
  BY <1>3 DEF RotOpened, Skip, Found, LoopEnds, fileVars, FileOK
<1>4. ASSUME NEW size \in Sizes, RotLog(size) PROVE FileOK'
  <2>1. logged' = Append(logged, size) /\ UNCHANGED <<disk, fd_, buf, fault>>
    BY <1>4 DEF RotLog
  <2>2. logged \in Seq(Sizes) /\ Len(logged') = Len(logged) + 1
    BY <2>1 DEF RotOK
  <2>3. \A c \in Seq(1 .. Len(logged)) : c \in Seq(1 .. Len(logged'))
    <3> TAKE c \in Seq(1 .. Len(logged))
    <3>1. \A i \in 1 .. Len(c) : c[i] \in 1 .. Len(logged')
      BY <2>2
    <3>2. c \in [1 .. Len(c) -> 1 .. Len(logged')] /\ Len(c) \in Nat
      BY <3>1
    <3> QED BY <3>2
  <2>4. disk' \in [DOMAIN disk' -> Seq(1 .. Len(logged'))] /\ buf' \in Seq(1 .. Len(logged'))
    BY <2>1, <2>3 DEF FileOK
  <2> QED BY <2>1, <2>4 DEF FileOK
<1>5. CASE Rotate
  BY <1>5, CloseOK DEF Rotate
<1>6. CASE RemoveTarget
  <2>1. DiskOK(disk')
    BY <1>6 DEF RemoveTarget, FileOK, DiskOK, Msgs
  <2> QED BY <1>6, <2>1, FileOKNext DEF RemoveTarget, FileOK, Msgs
<1>7. CASE Rename
  <2>1. index - 1 \in DOMAIN disk /\ index \in Names
    BY <1>7, NoFileName DEF Places, RotOK, Rename, RotAt
  <2>2. DiskOK(disk')
    BY <1>7, <2>1 DEF Rename, FileOK, DiskOK, Msgs
  <2> QED BY <1>7, <2>2, FileOKNext DEF Rename, FileOK, Msgs
<1>8. CASE RenameFails
  <2>1. DiskOK(disk')
    BY <1>8 DEF RenameFails, FileOK, DiskOK, Msgs
  <2> QED BY <1>8, <2>1, FileOKNext DEF RenameFails, FileOK, Msgs
<1>9. CASE GiveUp
  BY <1>0, <1>9, OpenOK, OpenFailsOK DEF GiveUp
<1>10. CASE Reopen
  BY <1>0, <1>10, OpenOK DEF Reopen
<1>11. CASE ReopenFails
  BY <1>0, <1>11, OpenFailsOK DEF ReopenFails
<1>12. CASE RotWrite
  <2>1. Len(logged) \in Msgs
    BY <1>12 DEF RotWrite, Places, RotAt, RotOK, Msgs
  <2> QED BY <1>12, <2>1, WriteOK, WriteFailsOK DEF RotWrite
<1>13. CASE RotFlush
  BY <1>13, FlushOK DEF RotFlush
<1>14. CASE RotClose
  BY <1>14, CloseOK DEF RotClose
<1>15. CASE RotCrash
  BY <1>15, CrashOK DEF RotCrash
<1> QED BY <1>1, <1>2, <1>3, <1>4, <1>5, <1>6, <1>7, <1>8, <1>9, <1>10, <1>11, <1>12, <1>13,
           <1>14, <1>15 DEF RotNext

LEMMA LoggedNat == RotOK => logged \in Seq(Nat) /\ \A i \in 1 .. Len(logged) : logged[i] \in Nat
<1> SUFFICES ASSUME RotOK PROVE logged \in Seq(Nat) /\ \A i \in 1 .. Len(logged) : logged[i] \in Nat
  OBVIOUS
<1>1. logged \in Seq(Sizes) /\ Sizes \subseteq Nat
  BY RotatingAssumption DEF RotOK
<1>2. \A i \in 1 .. Len(logged) : logged[i] \in Nat
  <2> TAKE i \in 1 .. Len(logged)
  <2>1. logged[i] \in Sizes
    BY <1>1
  <2> QED BY <1>1, <2>1
<1>3. logged \in [1 .. Len(logged) -> Nat] /\ Len(logged) \in Nat
  BY <1>1, <1>2
<1> QED BY <1>2, <1>3

LEMMA BytesNat == RotOK => \A c \in Seq(Msgs) : Bytes(c) \in Nat
<1> SUFFICES ASSUME RotOK, NEW c \in Seq(Msgs) PROVE Bytes(c) \in Nat
  OBVIOUS
<1> QED BY LoggedNat, BytesConcat, BytesAre DEF Msgs

LEMMA RotOKStep == Rot /\ RotNext => RotOK'
<1> SUFFICES ASSUME Rot, RotNext PROVE RotOK'
  OBVIOUS
<1> USE DEF Rot
<1>0. MaxFiles \in Nat /\ Sizes \subseteq Nat
  BY RotatingAssumption
<1>a. /\ rpc \in RotPc \X {"ctor", "log"} /\ logged \in Seq(Sizes) /\ current_size_ \in Nat
      /\ index \in 0 .. MaxFiles /\ tries \in 0 .. 1
  BY DEF RotOK
<1>b. /\ rpc = <<rpc[1], rpc[2]>> /\ rpc[2] \in {"ctor", "log"} /\ rpc[1] \in RotPc
      /\ "down" \in RotPc /\ "idle" \in RotPc /\ "write" \in RotPc /\ "rotate" \in RotPc
      /\ "scan" \in RotPc /\ "remove" \in RotPc /\ "rename" \in RotPc /\ "giveup" \in RotPc
      /\ "reopen" \in RotPc /\ "ctor" \in RotPc
  BY <1>a DEF RotPc
<1>c. \A l \in RotPc : RotGoto(l) => rpc' \in RotPc \X {"ctor", "log"}
  BY <1>b DEF RotGoto
<1>d. Throw => rpc' \in RotPc \X {"ctor", "log"}
  BY <1>b DEF RotGoto, Throw
<1>1. CASE RotOpen
  <2>1. ASSUME 0 \in DOMAIN disk PROVE Bytes(disk[0]) \in Nat
    BY <2>1, BytesNat DEF FileOK, Msgs
  <2>2. current_size_' \in Nat
    BY <1>1, <2>1 DEF RotOpen
  <2>3. rpc' \in RotPc \X {"ctor", "log"}
    BY <1>1, <1>b DEF RotOpen
  <2> QED BY <1>1, <1>a, <2>2, <2>3 DEF RotOpen, RotOK
<1>2. CASE RotOpenFails
  BY <1>2, <1>a DEF RotOpenFails, rotVars, RotOK
<1>3. CASE RotOpened
  <2>1. rpc' \in RotPc \X {"ctor", "log"} /\ UNCHANGED <<current_size_, index, tries, logged>>
    BY <1>3, <1>b, <1>c DEF RotOpened, fileVars
  <2> QED BY <1>a, <2>1 DEF RotOK
<1>4. ASSUME NEW size \in Sizes, RotLog(size) PROVE RotOK'
  <2>1. /\ logged' \in Seq(Sizes) /\ current_size_' \in Nat /\ UNCHANGED <<index, tries>>
    BY <1>4, <1>a, <1>0 DEF RotLog
  <2>2. rpc' \in RotPc \X {"ctor", "log"}
    BY <1>4, <1>b DEF RotLog
  <2> QED BY <1>a, <2>1, <2>2 DEF RotOK
<1>5. CASE Rotate
  <2>1. rpc' \in RotPc \X {"ctor", "log"} /\ UNCHANGED <<current_size_, logged>>
    BY <1>5, <1>b, <1>c DEF Rotate
  <2>2. index' \in 0 .. MaxFiles /\ tries' \in 0 .. 1
    BY <1>5, <1>0 DEF Rotate
  <2> QED BY <1>a, <2>1, <2>2 DEF RotOK
<1>6. CASE Skip
  <2>1. UNCHANGED <<rpc, current_size_, tries, logged>>
    BY <1>6 DEF Skip, fileVars
  <2>2. index' \in 0 .. MaxFiles
    BY <1>6, <1>0, <1>a DEF Skip
  <2> QED BY <1>a, <2>1, <2>2 DEF RotOK
<1>7. CASE Found \/ LoopEnds \/ RemoveTarget
  <2>1. rpc' \in RotPc \X {"ctor", "log"} /\ UNCHANGED <<current_size_, index, tries, logged>>
    BY <1>7, <1>b, <1>c DEF Found, LoopEnds, RemoveTarget, fileVars
  <2> QED BY <1>a, <2>1 DEF RotOK
<1>8. CASE Rename
  <2>1. rpc' \in RotPc \X {"ctor", "log"} /\ UNCHANGED <<current_size_, logged>>
    BY <1>8, <1>b, <1>c DEF Rename
  <2>2. index' \in 0 .. MaxFiles /\ tries' \in 0 .. 1
    BY <1>8, <1>0, <1>a DEF Rename, Places, RotAt
  <2> QED BY <1>a, <2>1, <2>2 DEF RotOK
<1>9. CASE RenameFails
  <2>1. rpc' \in RotPc \X {"ctor", "log"} /\ UNCHANGED <<current_size_, index, logged>>
    BY <1>9, <1>b, <1>c DEF RenameFails
  <2>2. tries' \in 0 .. 1
    BY <1>9, <1>a DEF RenameFails
  <2> QED BY <1>a, <2>1, <2>2 DEF RotOK
<1>10. CASE GiveUp
  <2>1. rpc' \in RotPc \X {"ctor", "log"} /\ UNCHANGED <<index, tries, logged>>
    BY <1>10, <1>d DEF GiveUp
  <2>2. current_size_' \in Nat
    <3>1. current_size_' = 0 \/ current_size_' = current_size_
      BY <1>10 DEF GiveUp
    <3> QED BY <1>a, <3>1
  <2> QED BY <1>a, <2>1, <2>2 DEF RotOK
<1>11. CASE Reopen
  <2>1. rpc' \in RotPc \X {"ctor", "log"} /\ UNCHANGED <<index, tries, logged>>
    BY <1>11, <1>b, <1>c DEF Reopen
  <2>2. current_size_' \in Nat
    <3>1. ASSUME rpc[2] = "log" PROVE logged[Len(logged)] \in Nat
      <4>1. Len(logged) \in 1 .. Len(logged)
        BY <1>a, <3>1 DEF Places
      <4> QED BY <4>1, LoggedNat
    <3> QED BY <1>11, <1>a, <3>1 DEF Reopen
  <2> QED BY <1>a, <2>1, <2>2 DEF RotOK
<1>12. CASE ReopenFails
  <2>1. rpc' \in RotPc \X {"ctor", "log"} /\ UNCHANGED <<current_size_, index, tries, logged>>
    BY <1>12, <1>d DEF ReopenFails
  <2> QED BY <1>a, <2>1 DEF RotOK
<1>13. CASE RotWrite
  <2>1. rpc' \in RotPc \X {"ctor", "log"} /\ UNCHANGED <<current_size_, index, tries, logged>>
    BY <1>13, <1>b, <1>c DEF RotWrite
  <2> QED BY <1>a, <2>1 DEF RotOK
<1>14. CASE RotFlush
  BY <1>14, <1>a DEF RotFlush, rotVars, RotOK
<1>15. CASE RotClose \/ RotCrash
  <2>1. rpc' \in RotPc \X {"ctor", "log"} /\ UNCHANGED <<current_size_, index, tries, logged>>
    BY <1>15, <1>b DEF RotClose, RotCrash
  <2> QED BY <1>a, <2>1 DEF RotOK
<1> QED BY <1>1, <1>2, <1>3, <1>4, <1>5, <1>6, <1>7, <1>8, <1>9, <1>10, <1>11, <1>12, <1>13,
           <1>14, <1>15 DEF RotNext

LEMMA PlacesStep == Rot /\ RotNext => Places'
<1> SUFFICES ASSUME Rot, RotNext PROVE Places'
  OBVIOUS
<1> USE DEF Rot
<1>0. MaxFiles \in Nat /\ Sizes \subseteq Nat /\ 0 # NoFile /\ MaxSize \in Nat
  BY RotatingAssumption, NoFileName
<1>a. /\ logged \in Seq(Sizes) /\ current_size_ \in Nat
      /\ index \in 0 .. MaxFiles /\ rpc = <<rpc[1], rpc[2]>> /\ rpc[2] \in {"ctor", "log"}
  BY DEF RotOK
<1>b. Throw => rpc' = <<IF rpc[2] = "ctor" THEN "down" ELSE "idle", rpc[2]>>
  BY DEF Throw, RotGoto
<1>c. \A l : RotGoto(l) <=> rpc' = <<l, rpc[2]>>
  BY DEF RotGoto
<1> USE DEF Places, RotAt, Inside
<1>1. CASE RotOpen
  <2>1. DOMAIN disk' = DOMAIN disk \cup {0} /\ fd_' = 0
    BY <1>1, OpenEnds DEF RotOpen
  <2>2. rpc' = <<"ctor", "ctor">> /\ UNCHANGED <<logged, index>>
    BY <1>1 DEF RotOpen
  <2> QED BY <1>0, <2>1, <2>2
<1>2. CASE RotOpenFails
  <2>1. UNCHANGED <<rpc, current_size_, index, logged>> /\ rpc[1] = "down"
    BY <1>2 DEF RotOpenFails, rotVars
  <2>2. DOMAIN disk' \subseteq 0 .. MaxFiles /\ fd_' = NoFile
    <3>1. CASE OpenFails(0, FALSE)
      BY <3>1, OpenFailsEnds
    <3>2. CASE disk' = With(disk, 0, IF 0 \in DOMAIN disk THEN disk[0] ELSE <<>>) /\ fd_' = fd_
      <4> DEFINE c == IF 0 \in DOMAIN disk THEN disk[0] ELSE <<>>
      <4>1. disk' = With(disk, 0, c)
        BY <3>2
      <4> HIDE DEF c
      <4>2. DOMAIN disk' = DOMAIN disk \cup {0}
        BY <4>1 DEF With
      <4> QED BY <1>0, <2>1, <3>2, <4>2
    <3> QED BY <1>2, <3>1, <3>2 DEF RotOpenFails
  <2> QED BY <1>0, <2>1, <2>2
<1>3. CASE RotOpened
  <2>1. /\ rpc[1] = "ctor" /\ (rpc' = <<"idle", rpc[2]>> \/ rpc' = <<"rotate", rpc[2]>>)
        /\ UNCHANGED <<current_size_, index, logged, disk, fd_>>
    BY <1>3, <1>c DEF RotOpened, fileVars
  <2> QED BY <1>0, <1>a, <2>1
<1>4. ASSUME NEW size \in Sizes, RotLog(size) PROVE Places'
  <2>1. /\ rpc[1] = "idle" /\ logged' # <<>> /\ UNCHANGED <<index, disk, fd_>>
        /\ current_size_' = current_size_ + size
        /\ rpc' = <<IF current_size_' > MaxSize THEN "rotate" ELSE "write", "log">>
    BY <1>4, <1>a DEF RotLog
  <2> QED BY <1>0, <1>a, <2>1
<1>5. CASE Rotate
  <2>1. /\ rpc[1] = "rotate" /\ rpc' = <<"scan", rpc[2]>> /\ UNCHANGED <<current_size_, logged>>
    BY <1>5, <1>c DEF Rotate
  <2>2. DOMAIN disk' = DOMAIN disk /\ fd_' = NoFile
    BY <1>5, CloseEnds DEF Rotate
  <2> QED BY <1>0, <1>a, <2>1, <2>2
<1>6. CASE Skip
  <2>1. rpc[1] = "scan" /\ UNCHANGED <<rpc, current_size_, logged, disk, fd_>>
    BY <1>6 DEF Skip, fileVars
  <2> QED BY <2>1, <1>0
<1>7. CASE Found
  <2>1. /\ rpc[1] = "scan" /\ rpc' = <<"remove", rpc[2]>> /\ index > 0 /\ index - 1 \in DOMAIN disk
        /\ UNCHANGED <<current_size_, index, logged, disk, fd_>>
    BY <1>7, <1>c DEF Found, fileVars
  <2> QED BY <2>1, <1>0
<1>8. CASE LoopEnds
  <2>1. /\ rpc[1] = "scan" /\ rpc' = <<"reopen", rpc[2]>> /\ index = 0
        /\ UNCHANGED <<current_size_, index, logged, disk, fd_>>
    BY <1>8, <1>c DEF LoopEnds, fileVars
  <2> QED BY <2>1, <1>0
<1>9. CASE RemoveTarget
  <2>1. /\ rpc[1] = "remove" /\ rpc' = <<"rename", rpc[2]>>
        /\ UNCHANGED <<current_size_, index, logged, fd_>>
        /\ DOMAIN disk' \in {DOMAIN disk, DOMAIN disk \ {index}}
    BY <1>9, <1>c DEF RemoveTarget
  <2>2. index - 1 # index
    BY <1>a
  <2> QED BY <2>1, <2>2, <1>0
<1>10. CASE Rename
  <2>1. /\ rpc[1] = "rename" /\ rpc' = <<"scan", rpc[2]>>
        /\ UNCHANGED <<current_size_, logged, fd_>>
        /\ DOMAIN disk' = (DOMAIN disk \ {index - 1}) \cup {index}
    BY <1>10, <1>c DEF Rename
  <2> QED BY <2>1, <1>0, <1>a
<1>11. CASE RenameFails
  <2>1. /\ rpc[1] = "rename" /\ rpc' = <<IF tries = 0 THEN "remove" ELSE "giveup", rpc[2]>>
        /\ UNCHANGED <<current_size_, index, logged, fd_, disk>>
    BY <1>11, <1>c DEF RenameFails
  <2> QED BY <2>1, <1>0, <1>a
<1>12. CASE GiveUp
  <2>1. /\ rpc[1] = "giveup" /\ rpc' = <<IF rpc[2] = "ctor" THEN "down" ELSE "idle", rpc[2]>>
        /\ UNCHANGED <<logged, index>>
    BY <1>12, <1>b DEF GiveUp
  <2>2. CASE rpc[2] = "log" /\ OpenFile(0, TRUE)
    <3>1. DOMAIN disk' = DOMAIN disk \cup {0} /\ fd_' = 0
      BY <2>2, OpenEnds
    <3> QED BY <2>1, <2>2, <3>1, <1>0
  <2>3. CASE OpenFails(0, TRUE) /\ UNCHANGED current_size_
    <3>1. DOMAIN disk' \in {DOMAIN disk, DOMAIN disk \cup {0}} /\ fd_' = NoFile
      BY <2>3, OpenFailsEnds
    <3> QED BY <2>1, <2>3, <3>1, <1>0, <1>a
  <2> QED BY <1>12, <2>2, <2>3 DEF GiveUp
<1>13. CASE Reopen
  <2>1. DOMAIN disk' = DOMAIN disk \cup {0} /\ fd_' = 0
    BY <1>13, OpenEnds DEF Reopen
  <2>2. /\ rpc[1] = "reopen" /\ UNCHANGED <<logged, index>>
        /\ (rpc[2] = "log" /\ rpc' = <<"write", "log">>) \/ (rpc[2] = "ctor" /\ rpc' = <<"idle", "ctor">>)
    BY <1>13, <1>c DEF Reopen
  <2> QED BY <2>1, <2>2, <1>0
<1>14. CASE ReopenFails
  <2>1. /\ rpc[1] = "reopen" /\ rpc' = <<IF rpc[2] = "ctor" THEN "down" ELSE "idle", rpc[2]>>
        /\ UNCHANGED <<logged, index, current_size_>>
    BY <1>14, <1>b DEF ReopenFails
  <2>2. DOMAIN disk' \in {DOMAIN disk, DOMAIN disk \cup {0}} /\ fd_' = NoFile
    BY <1>14, OpenFailsEnds DEF ReopenFails
  <2> QED BY <2>1, <2>2, <1>0, <1>a
<1>15. CASE RotWrite
  <2>1. /\ rpc[1] = "write" /\ rpc' = <<"idle", rpc[2]>>
        /\ UNCHANGED <<logged, index, current_size_>>
    BY <1>15, <1>c DEF RotWrite
  <2>2. DOMAIN disk' = DOMAIN disk /\ fd_' = fd_
    BY <1>15, <1>a, <2>1, WriteEnds, WriteFailsEnds DEF RotWrite
  <2> QED BY <2>1, <2>2, <1>0
<1>16. CASE RotFlush
  <2>1. UNCHANGED <<rpc, logged, index, current_size_>> /\ rpc[1] = "idle"
    BY <1>16 DEF RotFlush, rotVars
  <2>2. DOMAIN disk' = DOMAIN disk /\ fd_' = fd_
    BY <1>16, FlushEnds DEF RotFlush
  <2> QED BY <2>1, <2>2, <1>0
<1>17. CASE RotClose \/ RotCrash
  <2>1. rpc' = <<"down", "ctor">> /\ UNCHANGED <<current_size_, index, logged>>
    BY <1>17 DEF RotClose, RotCrash
  <2>2. DOMAIN disk' = DOMAIN disk /\ fd_' = NoFile
    BY <1>17, CloseEnds DEF RotClose, RotCrash, CrashFile
  <2> QED BY <2>1, <2>2, <1>0
<1> QED BY <1>1, <1>2, <1>3, <1>4, <1>5, <1>6, <1>7, <1>8, <1>9, <1>10, <1>11, <1>12, <1>13,
           <1>14, <1>15, <1>16, <1>17 DEF RotNext

LEMMA RotStep == Rot /\ RotNext => Rot'
  BY RotFileStep, RotOKStep, PlacesStep DEF Rot

-------------------------------------------------------------------------------
(* The daily sink. *)

\* The sink writes nothing that is told apart. When it has no file open outside
\* its constructor, an open has failed since the message stamped latest.
Opened ==
  /\ logged = <<>>
  /\ dpc \in {"c_rotation", "c_queue", "write_new", "delete"} => fd_ # NoFile
  /\ dpc = "down" => fd_ = NoFile
  /\ dpc \in {"idle", "open", "write"} /\ fd_ = NoFile => rotation_tp_ <= latest
  /\ dpc = "open" => rotation_tp_ <= time
  /\ dpc = "write" => time < rotation_tp_
  /\ time <= latest /\ time <= now

Daily == FileOK /\ DailyOK /\ Opened

LEMMA FileOfIs ==
  \A t \in 0 .. MaxTime : FileOf(t) \in 0 .. MaxTime \div 2 /\ FileOf(t) \in Names /\ FileOf(t) # NoFile
                          /\ 2 * FileOf(t) <= t /\ t < 2 * FileOf(t) + 2 /\ FileOf(t) \in Nat
<1> TAKE t \in 0 .. MaxTime
<1>1. MaxTime \in Nat /\ 0 .. MaxTime \div 2 \subseteq Names /\ NoFile \notin Names
  BY FileAssumption, DailyAssumption
<1>2. t \div 2 \in 0 .. MaxTime \div 2 /\ 2 * (t \div 2) <= t /\ t < 2 * (t \div 2) + 2
  BY <1>1
<1> QED BY <1>1, <1>2 DEF FileOf

LEMMA NextRotationIs ==
  ASSUME now \in 0 .. MaxTime
  PROVE  /\ NextRotation \in 0 .. MaxTime + 2
         /\ RotationAt = 0 => NextRotation = 2 * FileOf(now) + 2
<1>1. FileOf(now) \in Nat /\ 2 * FileOf(now) <= now /\ now < 2 * FileOf(now) + 2
  BY FileOfIs
<1>2. RotationAt \in {0, 1} /\ MaxTime \in Nat
  BY DailyAssumption
<1> DEFINE f == FileOf(now)
           today == 2 * f + RotationAt
<1>3. NextRotation = IF today > now THEN today ELSE today + 2
  BY DEF NextRotation
<1>4. f \in Nat /\ 2 * f <= now /\ now < 2 * f + 2
  BY <1>1
<1> HIDE DEF f
<1> QED BY <1>2, <1>3, <1>4 DEF f

LEMMA DailyFileStep == Daily /\ DailyNext => FileOK'
<1> SUFFICES ASSUME Daily, DailyNext PROVE FileOK'
  OBVIOUS
<1> USE DEF Daily
<1>0. FALSE \in BOOLEAN /\ TRUE \in BOOLEAN /\ FileOf(now) \in Names /\ FileOf(time) \in Names
  BY FileOfIs DEF DailyOK
<1>1. CASE Tick
  <2>1. fault' \in BOOLEAN
    BY <1>1 DEF Tick, FileOK
  <2> QED BY <1>1, <2>1 DEF Tick, FileOK
<1>2. CASE DailyOpen
  BY <1>0, <1>2, OpenOK DEF DailyOpen
<1>3. CASE DailyOpenFails
  BY <1>0, <1>3, OpenFailsOK DEF DailyOpenFails
<1>4. CASE DailyRotation \/ DailyQueue
  BY <1>4 DEF DailyRotation, DailyQueue, fileVars, FileOK
<1>5. ASSUME NEW t \in 0 .. now, DailyLog(t) PROVE FileOK'
  BY <1>5 DEF DailyLog, fileVars, FileOK
<1>6. CASE DailyRotate
  BY <1>0, <1>6, OpenOK, OpenFailsOK DEF DailyRotate
<1>7. CASE DailyWrite
  <2>1. fault' \in BOOLEAN
    BY <1>7 DEF DailyWrite, FileOK
  <2> QED BY <1>7, <2>1 DEF DailyWrite, FileOK
<1>8. CASE DeleteOld
  <2> DEFINE old == Q!Front(filenames_q_)
  <2>1. \/ disk' = disk \/ disk' = [n \in DOMAIN disk \ {old} |-> disk[n]]
    BY <1>8 DEF DeleteOld
  <2>2. UNCHANGED <<fd_, buf, logged>>
    BY <1>8 DEF DeleteOld
  <2>3. fault' \in BOOLEAN
    BY <1>8 DEF DeleteOld, FileOK
  <2> HIDE DEF old
  <2>4. DiskOK(disk')
    BY <2>1 DEF FileOK, DiskOK, Msgs
  <2> QED BY <2>2, <2>3, <2>4, FileOKNext DEF FileOK, Msgs
<1>9. CASE DailyCrash
  BY <1>0, <1>9, CrashOK DEF DailyCrash
<1> QED BY <1>1, <1>2, <1>3, <1>4, <1>5, <1>6, <1>7, <1>8, <1>9 DEF DailyNext

LEMMA DailyOKStep == Daily /\ DailyNext => DailyOK' /\ Opened'
<1> SUFFICES ASSUME Daily, DailyNext PROVE DailyOK' /\ Opened'
  OBVIOUS
<1> USE DEF Daily
<1>0. FileOf(now) \in Names /\ FileOf(time) \in Names /\ NoFile \notin Names /\ MaxTime \in Nat
  BY FileOfIs, FileAssumption, DailyAssumption DEF DailyOK
<1>a. NextRotation \in 0 .. MaxTime + 2
  BY NextRotationIs DEF DailyOK
<1> USE DEF DailyOK, DailyPc, Opened
<1>1. CASE Tick
  BY <1>0, <1>1 DEF Tick
<1>2. CASE DailyOpen
  <2>1. fd_' \in Names
    BY <1>0, <1>2 DEF DailyOpen, OpenFile
  <2> QED BY <1>0, <1>2, <2>1 DEF DailyOpen
<1>3. CASE DailyOpenFails
  <2>1. fd_' = NoFile
    BY <1>3, OpenFailsEnds DEF DailyOpenFails
  <2> QED BY <1>3, <2>1 DEF DailyOpenFails, dailyVars
<1>4. CASE DailyRotation
  <2>1. rotation_tp_' \in 0 .. MaxTime + 2
    BY <1>a, <1>4 DEF DailyRotation
  <2>2. /\ dpc = "c_rotation" /\ dpc' \in {"c_queue", "idle"}
        /\ UNCHANGED <<now, time, latest, made, fd_, logged>>
    BY <1>4 DEF DailyRotation, fileVars
  <2> QED BY <2>1, <2>2
<1>5. CASE DailyQueue
  BY <1>5 DEF DailyQueue, fileVars
<1>6. ASSUME NEW t \in 0 .. now, DailyLog(t) PROVE DailyOK' /\ Opened'
  <2>1. /\ dpc = "idle" /\ time' = t /\ t \in 0 .. MaxTime
        /\ latest' = IF t > latest THEN t ELSE latest
        /\ dpc' = IF t >= rotation_tp_ THEN "open" ELSE "write"
        /\ UNCHANGED <<now, rotation_tp_, made, fd_, logged>>
    BY <1>0, <1>6 DEF DailyLog, fileVars
  <2> QED BY <1>0, <2>1
<1>7. CASE DailyRotate
  <2>1. CASE OpenFile(FileOf(time), FALSE) /\ dpc' = "write_new" /\ made' = made \cup {FileOf(time)}
             /\ rotation_tp_' = NextRotation
    <3>1. fd_' \in Names
      BY <1>0, <2>1 DEF OpenFile
    <3> QED BY <1>0, <1>a, <1>7, <2>1, <3>1 DEF DailyRotate
  <2>2. CASE OpenFails(FileOf(time), FALSE) /\ dpc' = "idle" /\ UNCHANGED <<made, rotation_tp_>>
    <3>1. dpc = "open" /\ UNCHANGED <<now, time, latest, logged>>
      BY <1>7 DEF DailyRotate
    <3> QED BY <1>0, <2>2, <3>1
  <2> QED BY <1>7, <2>1, <2>2 DEF DailyRotate
<1>8. CASE DailyWrite
  BY <1>8 DEF DailyWrite
<1>9. CASE DeleteOld
  <2>1. /\ dpc = "delete" /\ dpc' = "idle"
        /\ UNCHANGED <<now, time, latest, rotation_tp_, made, fd_, logged>>
    BY <1>9 DEF DeleteOld
  <2> QED BY <2>1
<1>10. CASE DailyCrash
  <2>1. fd_' = NoFile
    BY <1>10 DEF DailyCrash, CrashFile
  <2> QED BY <1>10, <2>1 DEF DailyCrash
<1> QED BY <1>1, <1>2, <1>3, <1>4, <1>5, <1>6, <1>7, <1>8, <1>9, <1>10 DEF DailyNext

LEMMA DailyStep == Daily /\ DailyNext => Daily'
  BY DailyFileStep, DailyOKStep DEF Daily

-------------------------------------------------------------------------------
(* TypeOK and NullWriteOnlyLate. *)

\* What the sink that is not there leaves alone.
Unused ==
  /\ sink = "rotating" => dpc = "down"
  /\ sink = "daily" => rpc = <<"down", "ctor">>

\* The inductive invariant of TypeOK.
Types ==
  /\ TypeOK /\ Unused
  /\ sink = "rotating" => Places
  /\ sink = "daily" => Opened

LEMMA StepCases ==
  [Next]_vars =>
    \/ sink = "rotating" /\ sink' = sink /\ RotNext /\ UNCHANGED dailyVars
    \/ sink = "daily" /\ sink' = sink /\ DailyNext /\ UNCHANGED rotVars
    \/ UNCHANGED vars
  BY DEF Next

LEMMA TypesInit == Init => Types
<1> SUFFICES ASSUME Init PROVE Types
  OBVIOUS
<1> USE DEF Init, FileInit, RotInit, DailyInit
<1>0. MaxFiles \in Nat /\ MaxTime \in Nat
  BY RotatingAssumption, DailyAssumption
<1>1. FileOK
  <2>1. DOMAIN disk = {} /\ disk \in [DOMAIN disk -> Seq(1 .. Len(logged))]
    OBVIOUS
  <2>2. buf \in Seq(1 .. Len(logged)) /\ DOMAIN disk \subseteq Names
    BY <2>1, EmptySeqIn
  <2>3. fd_ \in Names \cup {NoFile} /\ (fd_ = NoFile => buf = <<>>) /\ fault \in BOOLEAN
    OBVIOUS
  <2> QED BY <2>1, <2>2, <2>3 DEF FileOK
<1>2. RotOK
  BY <1>0 DEF RotOK, RotPc
<1>3. DailyOK
  BY <1>0 DEF DailyOK, DailyPc
<1>4. Places
  <2>1. DOMAIN disk = {}
    OBVIOUS
  <2> QED BY <2>1, NoFileName DEF Places, Inside
<1>5. Opened
  BY DEF Opened
<1> QED BY <1>1, <1>2, <1>3, <1>4, <1>5 DEF Types, TypeOK, Unused

LEMMA TypesStep == Types /\ [Next]_vars => Types'
<1> SUFFICES ASSUME Types, [Next]_vars PROVE Types'
  OBVIOUS
<1>1. CASE sink = "rotating" /\ sink' = sink /\ RotNext /\ UNCHANGED dailyVars
  <2>1. Rot'
    BY <1>1, RotStep DEF Types, TypeOK, Rot
  <2>2. DailyOK' /\ dpc' = dpc
    BY <1>1 DEF Types, TypeOK, DailyOK, dailyVars
  <2> QED BY <1>1, <2>1, <2>2 DEF Types, TypeOK, Unused, Rot
<1>2. CASE sink = "daily" /\ sink' = sink /\ DailyNext /\ UNCHANGED rotVars
  <2>1. Daily'
    BY <1>2, DailyStep DEF Types, TypeOK, Daily
  <2>2. logged' = logged
    BY <2>1, <1>2 DEF Daily, Types, Opened
  <2>3. RotOK' /\ rpc' = rpc
    BY <1>2, <2>2 DEF Types, TypeOK, RotOK, rotVars
  <2> QED BY <1>2, <2>1, <2>3 DEF Types, TypeOK, Unused, Daily
<1>3. CASE UNCHANGED vars
  BY <1>3 DEF vars, fileVars, rotVars, dailyVars, Types, TypeOK, Unused, Places, Opened,
              FileOK, RotOK, DailyOK
<1> QED BY <1>1, <1>2, <1>3, StepCases

LEMMA TypesHold == Spec => []Types
  BY TypesInit, TypesStep, PTL DEF Spec

\* The variables keep their types, for either sink.
THEOREM TypeCorrect == Spec => []TypeOK
  BY TypesHold, PTL DEF Types

\* sink_it_ writes through a null FILE* in one case only: the daily sink failed
\* to open its new file and the message is older than the one it failed for.
THEOREM NullWriteOnlyLateHolds == Spec => []NullWriteOnlyLate
<1>1. Types => NullWriteOnlyLate
  <2> SUFFICES ASSUME Types, fd_ = NoFile
               PROVE  ~RotAt("write") /\ (dpc \in {"write", "write_new"} => time < latest)
    BY DEF NullWriteOnlyLate
  <2>1. CASE sink = "rotating"
    BY <2>1, NoFileName DEF Types, Unused, Places, RotAt
  <2>2. CASE sink = "daily"
    <3>1. rotation_tp_ \in 0 .. MaxTime + 2 /\ time \in 0 .. MaxTime /\ latest \in 0 .. MaxTime
      BY DEF Types, TypeOK, DailyOK
    <3> QED BY <2>2, <3>1, DailyAssumption DEF Types, Unused, Opened, RotAt
  <2> QED BY <2>1, <2>2 DEF Types, TypeOK
<1> QED BY <1>1, TypesHold, PTL

-------------------------------------------------------------------------------
(* Files with what is in the buffer. *)

\* The files as they will be once the buffer is on disk.
View == [n \in DOMAIN disk |-> IF n = fd_ THEN disk[n] \o buf ELSE disk[n]]

\* w is what is left of v when the ends of some files are lost.
Cut(v, w) ==
  /\ DOMAIN w = DOMAIN v
  /\ \A n \in DOMAIN v : w[n] \in Seq(Msgs) /\ \E t \in Seq(Msgs) : v[n] = w[n] \o t

LEMMA ViewIs ==
  ASSUME FileOK
  PROVE  /\ DOMAIN View = DOMAIN disk /\ DiskOK(View) /\ View = Synced(buf)
         /\ \A n \in DOMAIN disk : View[n] = IF n = fd_ THEN disk[n] \o buf ELSE disk[n]
         /\ buf = <<>> => View = disk
<1>1. buf \in Seq(Msgs) /\ DiskOK(disk) /\ (fd_ = NoFile => buf = <<>>)
  BY SyncedIs DEF FileOK, Msgs
<1>2. \A n \in DOMAIN disk : disk[n] \in Seq(Msgs) /\ disk[n] \o <<>> = disk[n]
  BY <1>1 DEF DiskOK
<1>3. DOMAIN Synced(buf) = DOMAIN disk /\ DiskOK(Synced(buf))
      /\ \A n \in DOMAIN disk : Synced(buf)[n] = IF n = fd_ THEN disk[n] \o buf ELSE disk[n]
  BY <1>1, SyncedIs
<1>4. View = Synced(buf)
  <2>1. Synced(buf) = [n \in DOMAIN disk |-> Synced(buf)[n]]
    BY <1>3 DEF DiskOK
  <2> QED BY <1>3, <2>1 DEF View
<1>5. buf = <<>> => View = disk
  <2> HAVE buf = <<>>
  <2>1. disk = [n \in DOMAIN disk |-> disk[n]]
    BY <1>1 DEF DiskOK
  <2>2. \A n \in DOMAIN disk : (IF n = fd_ THEN disk[n] \o buf ELSE disk[n]) = disk[n]
    BY <1>2
  <2> QED BY <2>1, <2>2 DEF View
<1> QED BY <1>3, <1>4, <1>5 DEF View

LEMMA CutSelf == FileOK => Cut(View, View) /\ Cut(View, disk)
<1> SUFFICES ASSUME FileOK PROVE Cut(View, View) /\ Cut(View, disk)
  OBVIOUS
<1>1. buf \in Seq(Msgs) /\ <<>> \in Seq(Msgs)
  BY DEF FileOK, Msgs
<1>2. \A n \in DOMAIN disk : disk[n] \in Seq(Msgs) /\ View[n] \in Seq(Msgs)
  BY ViewIs DEF FileOK, DiskOK, Msgs
<1>3. \A c \in Seq(Msgs) : c \o <<>> = c
  OBVIOUS
<1>4. Cut(View, View)
  BY <1>1, <1>2, <1>3, ViewIs DEF Cut
<1>5. Cut(View, disk)
  <2>1. \A n \in DOMAIN disk : \E t \in Seq(Msgs) : View[n] = disk[n] \o t
    <3> TAKE n \in DOMAIN disk
    <3>1. CASE n = fd_
      BY <1>1, <3>1, ViewIs
    <3>2. CASE n # fd_
      BY <1>1, <1>2, <1>3, <3>2, ViewIs
    <3> QED BY <3>1, <3>2
  <2> QED BY <1>2, <2>1, ViewIs DEF Cut
<1> QED BY <1>4, <1>5

LEMMA NothingBuffered == FileOK => (buf = <<>> => View = disk)
  BY ViewIs

\* What is on disk when the buffer is empty afterwards.
LEMMA ViewNext ==
  ASSUME FileOK', buf' = <<>>
  PROVE  View' = disk'
<1>1. (FileOK => (buf = <<>> => View = disk))'
  BY NothingBuffered, PTL
<1> QED BY <1>1

\* Something is lost, and only to a fault.
Shortened == Cut(View, View') /\ (~fault' => View' = View)

LEMMA CloseView ==
  ASSUME FileOK, FileOK', CloseFile
  PROVE  Shortened
<1>1. View' = disk' /\ disk' \in {View, disk} /\ fault' = (fault \/ disk' # View)
  BY ViewNext, ViewIs DEF CloseFile, Closed
<1> QED BY <1>1, CutSelf DEF Shortened

LEMMA FlushView ==
  ASSUME FileOK, FileOK', FlushFile
  PROVE  Shortened
<1>1. /\ disk' \in {View, disk} /\ fault' = (fault \/ disk' # View) /\ fd_' = fd_
      /\ disk' = View => buf' = <<>>
      /\ buf' \in {buf, <<>>}
  BY ViewIs DEF FlushFile, Closed
<1>2. CASE buf' = <<>>
  <2>1. View' = disk'
    BY <1>2, ViewNext
  <2> QED BY <1>1, <2>1, CutSelf DEF Shortened
<1>3. CASE buf' # <<>>
  <2>1. disk' = disk /\ buf' = buf /\ fd_' = fd_
    BY <1>1, <1>3
  <2>2. View' = View
    BY <2>1 DEF View
  <2> QED BY <2>2, CutSelf DEF Shortened
<1> QED BY <1>2, <1>3

LEMMA WriteFailsView ==
  ASSUME FileOK, FileOK', WriteFails
  PROVE  Shortened
<1>1. CASE UNCHANGED <<disk, buf>>
  <2>1. View' = View
    BY <1>1 DEF View, WriteFails
  <2> QED BY <2>1, CutSelf DEF Shortened
<1>2. CASE disk' \in Closed /\ buf' = <<>>
  <2>1. View' = disk' /\ disk' \in {View, disk}
    BY <1>2, ViewNext, ViewIs DEF Closed
  <2>2. fault'
    BY DEF WriteFails
  <2> QED BY <2>1, <2>2, CutSelf DEF Shortened
<1> QED BY <1>1, <1>2 DEF WriteFails

LEMMA CrashView ==
  ASSUME FileOK, FileOK', NEW f, CrashFile(f)
  PROVE  Shortened
<1>1. View' = disk' /\ disk' = disk /\ fault' = (fault \/ f \/ buf # <<>>)
  BY ViewNext DEF CrashFile
<1>2. buf = <<>> => View = disk
  BY ViewIs
<1>3. ~fault' => View' = View
  BY <1>1, <1>2
<1> QED BY <1>1, <1>3, CutSelf DEF Shortened

\* No file is open before.
LEMMA OpenView ==
  ASSUME FileOK, FileOK', fd_ = NoFile, NEW t \in BOOLEAN, OpenFile(0, t)
  PROVE  /\ View' = With(View, 0, IF t \/ 0 \notin DOMAIN View THEN <<>> ELSE View[0])
         /\ View = disk
<1>1. View = disk /\ View = Synced(buf)
  BY ViewIs DEF FileOK
<1>2. Closed = {View}
  BY <1>1 DEF Closed
<1> QED BY <1>1, <1>2, ViewNext DEF OpenFile

LEMMA OpenFailsView ==
  ASSUME FileOK, FileOK', fd_ = NoFile, NEW t \in BOOLEAN, OpenFails(0, t)
  PROVE  /\ View' = View \/ (t /\ View' = With(View, 0, <<>>))
         /\ View = disk /\ fault'
<1>1. View = disk /\ View = Synced(buf)
  BY ViewIs DEF FileOK
<1>2. Closed = {View}
  BY <1>1 DEF Closed
<1> QED BY <1>1, <1>2, ViewNext DEF OpenFails

LEMMA WriteView ==
  ASSUME FileOK, FileOK', NEW m \in Msgs, fd_ \in DOMAIN disk, WriteFile(m)
  PROVE  View' = With(View, fd_, View[fd_] \o <<m>>) /\ View[fd_] \in Seq(Msgs)
<1>1. /\ disk[fd_] \in Seq(Msgs) /\ buf \in Seq(Msgs) /\ DOMAIN View = DOMAIN disk
      /\ View[fd_] = disk[fd_] \o buf /\ View[fd_] \in Seq(Msgs)
      /\ \A n \in DOMAIN disk : n # fd_ => View[n] = disk[n]
  BY ViewIs DEF FileOK, Msgs, DiskOK
<1> DEFINE b == Append(buf, m)
           w == With(View, fd_, View[fd_] \o <<m>>)
<1>2. b \in Seq(Msgs) /\ disk[fd_] \o b = View[fd_] \o <<m>>
  BY <1>1
<1>3. DOMAIN w = DOMAIN disk /\ w = [n \in DOMAIN disk |-> IF n = fd_ THEN disk[n] \o b ELSE disk[n]]
  BY <1>1, <1>2 DEF With
<1> HIDE DEF w
<1>4. CASE disk' = disk /\ buf' = b
  <2>1. View' = [n \in DOMAIN disk |-> IF n = fd_ THEN disk[n] \o b ELSE disk[n]]
    BY <1>4 DEF View, WriteFile
  <2> QED BY <1>1, <1>3, <2>1 DEF w
<1>5. CASE disk' = Synced(b) /\ buf' = <<>>
  <2>1. View' = Synced(b)
    BY <1>5, ViewNext
  <2> HIDE DEF b
  <2>2. Synced(b) = [n \in DOMAIN disk |-> Synced(b)[n]]
    BY <1>2, SyncedIs DEF DiskOK
  <2>3. \A n \in DOMAIN disk : Synced(b)[n] = IF n = fd_ THEN disk[n] \o b ELSE disk[n]
    BY <1>2, SyncedIs
  <2> QED BY <1>1, <1>3, <2>1, <2>2, <2>3 DEF w
<1> QED BY <1>4, <1>5 DEF WriteFile

-------------------------------------------------------------------------------
(* What the steps of the rotating sink do to its files. *)

\* What the constructor does to the log file.
Recreated == View' = View \/ (0 \notin DOMAIN View /\ View' = With(View, 0, <<>>))

LEMMA WithSame == FileOK /\ 0 \in DOMAIN View => With(View, 0, View[0]) = View
  BY DEF With, View

LEMMA OpenKeeps ==
  ASSUME Rot, Rot', RotOpen \/ RotOpenFails
  PROVE  Recreated
<1>1. fd_ = NoFile /\ FileOK /\ FileOK' /\ buf = <<>>
  BY DEF RotOpen, RotOpenFails, RotAt, Rot, Places, FileOK
<1>2. CASE OpenFile(0, FALSE)
  <2>1. View' = With(View, 0, IF 0 \notin DOMAIN View THEN <<>> ELSE View[0])
    BY <1>1, <1>2, OpenView
  <2> QED BY <1>1, <2>1, WithSame DEF Recreated
<1>3. CASE OpenFails(0, FALSE)
  <2>1. View' = View
    BY <1>1, <1>3, OpenFailsView
  <2> QED BY <2>1 DEF Recreated
<1>4. CASE disk' = With(disk, 0, IF 0 \in DOMAIN disk THEN disk[0] ELSE <<>>) /\ UNCHANGED <<fd_, buf>>
  <2>1. View = disk /\ View' = disk'
    BY <1>1, <1>4, NothingBuffered, ViewNext
  <2>2. View' = With(View, 0, IF 0 \notin DOMAIN View THEN <<>> ELSE View[0])
    BY <1>4, <2>1
  <2> QED BY <1>1, <2>2, WithSame DEF Recreated
<1> QED BY <1>2, <1>3, <1>4 DEF RotOpen, RotOpenFails

LEMMA ReopenView ==
  ASSUME Rot, Rot', Reopen
  PROVE  View' = With(View, 0, <<>>)
<1>1. fd_ = NoFile /\ FileOK /\ FileOK' /\ OpenFile(0, TRUE) /\ TRUE \in BOOLEAN
  BY DEF Reopen, RotAt, Rot, Places, Inside
<1> QED BY <1>1, OpenView

LEMMA TruncatedView ==
  ASSUME Rot, Rot', ReopenFails \/ GiveUp
  PROVE  /\ View' = View \/ View' = With(View, 0, <<>>)
         /\ fd_' = 0 => View' = With(View, 0, <<>>) /\ current_size_' = 0
<1>1. fd_ = NoFile /\ FileOK /\ FileOK' /\ TRUE \in BOOLEAN
  BY DEF ReopenFails, GiveUp, RotAt, Rot, Places, Inside
<1>2. CASE OpenFile(0, TRUE) /\ current_size_' = 0
  <2>1. View' = With(View, 0, <<>>)
    BY <1>1, <1>2, OpenView
  <2> QED BY <1>2, <2>1
<1>3. CASE OpenFails(0, TRUE)
  BY <1>1, <1>3, OpenFailsView, OpenFailsEnds, NoFileName
<1> QED BY <1>2, <1>3 DEF ReopenFails, GiveUp

\* The steps after which the end of a file may be missing.
LEMMA ShortenedBy ==
  ASSUME Rot, Rot', Rotate \/ RotFlush \/ RotClose \/ RotCrash \/ (RotWrite /\ WriteFails)
  PROVE  Shortened
<1>1. FileOK /\ FileOK'
  BY DEF Rot
<1> QED BY <1>1, CloseView, FlushView, CrashView, WriteFailsView DEF Rotate, RotFlush, RotClose, RotCrash

LEMMA RotWriteView ==
  ASSUME Rot, Rot', RotWrite, ~WriteFails
  PROVE  /\ 0 \in DOMAIN View /\ View[0] \in Seq(Msgs) /\ Len(logged) \in Msgs
         /\ View' = With(View, 0, View[0] \o <<Len(logged)>>)
<1>1. FileOK /\ FileOK' /\ fd_ = 0 /\ 0 \in DOMAIN disk /\ logged # <<>> /\ logged \in Seq(Sizes)
  BY DEF RotWrite, RotAt, Rot, Places, RotOK
<1>2. Len(logged) \in Msgs /\ DOMAIN View = DOMAIN disk
  BY <1>1, ViewIs DEF Msgs
<1>3. WriteFile(Len(logged))
  BY DEF RotWrite
<1> QED BY <1>1, <1>2, <1>3, WriteView

\* No file is touched, or only those on disk.
LEMMA QuietView ==
  ASSUME Rot, RotOpened \/ (\E size \in Sizes : RotLog(size)) \/ Skip \/ Found \/ LoopEnds \/ RenameFails
  PROVE  View' = View
<1>1. UNCHANGED <<disk, fd_, buf>>
  BY DEF RotOpened, RotLog, Skip, Found, LoopEnds, RenameFails, fileVars
<1> QED BY <1>1 DEF View

LEMMA MovedView ==
  ASSUME Rot, Rot', RemoveTarget \/ Rename
  PROVE  View = disk /\ View' = disk'
<1>1. fd_ = NoFile /\ buf = <<>> /\ buf' = <<>> /\ FileOK /\ FileOK'
  BY DEF RemoveTarget, Rename, RotAt, Rot, Places, Inside, FileOK
<1> QED BY <1>1, NothingBuffered, ViewNext

-------------------------------------------------------------------------------
(* SizeBound. *)

\* A file has its maximum size, or one message.
Bounded(l, c) == BytesIn(l, c) <= MaxSize \/ Len(c) = 1

AllBounded(l, v) == \A n \in DOMAIN v : Bounded(l, v[n])

\* What current_size_ counts.
Counted ==
  /\ fd_ = 0 /\ rpc[1] \in {"idle", "ctor"} => BytesIn(logged, View[0]) <= current_size_
  /\ rpc[1] = "write" =>
       /\ BytesIn(logged, View[0]) + logged[Len(logged)] <= current_size_
       /\ current_size_ <= MaxSize \/ View[0] = <<>>

Measured == AllBounded(logged, View) /\ Counted

LEMMA BytesPrefix ==
  ASSUME NEW l \in Seq(Nat), NEW c \in Seq(1 .. Len(l)), NEW t \in Seq(1 .. Len(l))
  PROVE  /\ BytesIn(l, c) <= BytesIn(l, c \o t) /\ BytesIn(l, c) \in Nat /\ BytesIn(l, c \o t) \in Nat
         /\ Bounded(l, c \o t) => Bounded(l, c)
<1>1. /\ BytesIn(l, c \o t) = BytesIn(l, c) + BytesIn(l, t)
      /\ BytesIn(l, c) \in Nat /\ BytesIn(l, t) \in Nat
  BY BytesConcat
<1>2. BytesIn(l, c) <= BytesIn(l, c \o t)
  BY <1>1
<1>3. ASSUME Len(c \o t) = 1, Len(c) # 1 PROVE BytesIn(l, c) <= MaxSize
  <2>1. Len(c \o t) = Len(c) + Len(t) /\ Len(t) \in Nat /\ Len(c) \in Nat
    OBVIOUS
  <2> DEFINE m == Len(c)
             n == Len(t)
  <2>2. m = 0
    <3>1. m + n = 1 /\ m # 1 /\ m \in Nat /\ n \in Nat
      BY <1>3, <2>1
    <3> HIDE DEF m, n
    <3> QED BY <3>1
  <2>3. c = <<>>
    BY <2>2
  <2> QED BY <2>3, BytesEmpty, RotatingAssumption
<1> QED BY <1>1, <1>2, <1>3, RotatingAssumption DEF Bounded

LEMMA BoundedEmpty == \A l : Bounded(l, <<>>)
  BY BytesEmpty, RotatingAssumption DEF Bounded

LEMMA BoundedWith ==
  ASSUME NEW l, NEW v, NEW n, NEW c, AllBounded(l, v), Bounded(l, c)
  PROVE  AllBounded(l, With(v, n, c))
  BY DEF AllBounded, With

LEMMA BoundedCut ==
  ASSUME RotOK, NEW v, NEW w, Cut(v, w)
  PROVE  /\ AllBounded(logged, v) => AllBounded(logged, w)
         /\ \A n \in DOMAIN v : BytesIn(logged, w[n]) <= BytesIn(logged, v[n])
                                /\ BytesIn(logged, w[n]) \in Nat /\ BytesIn(logged, v[n]) \in Nat
<1>1. logged \in Seq(Nat)
  BY LoggedNat
<1>2. ASSUME NEW n \in DOMAIN v
      PROVE  /\ BytesIn(logged, w[n]) <= BytesIn(logged, v[n])
             /\ BytesIn(logged, w[n]) \in Nat /\ BytesIn(logged, v[n]) \in Nat
             /\ Bounded(logged, v[n]) => Bounded(logged, w[n])
  <2>1. PICK t \in Seq(Msgs) : v[n] = w[n] \o t
    BY DEF Cut
  <2>2. w[n] \in Seq(1 .. Len(logged)) /\ t \in Seq(1 .. Len(logged))
    BY DEF Cut, Msgs
  <2> QED BY <1>1, <2>1, <2>2, BytesPrefix
<1>3. DOMAIN w = DOMAIN v
  BY DEF Cut
<1> QED BY <1>2, <1>3 DEF AllBounded

LEMMA BoundedStep == Rot /\ Rot' /\ Measured /\ RotNext => AllBounded(logged, View)'
<1> SUFFICES ASSUME Rot, Rot', Measured, RotNext PROVE AllBounded(logged', View')
  OBVIOUS
<1>0. AllBounded(logged, View) /\ Counted /\ RotOK /\ FileOK
  BY DEF Measured, Rot
<1>a. logged \in Seq(Nat) /\ MaxSize \in Nat
  BY <1>0, LoggedNat, RotatingAssumption
<1>1. CASE RotOpen \/ RotOpenFails
  <2>1. logged' = logged
    BY <1>1 DEF RotOpen, RotOpenFails
  <2> QED BY <1>0, <1>1, <2>1, OpenKeeps, BoundedWith, BoundedEmpty DEF Recreated
<1>2. CASE Rotate \/ RotFlush \/ RotClose \/ RotCrash \/ (RotWrite /\ WriteFails)
  <2>1. logged' = logged
    BY <1>2 DEF Rotate, RotFlush, RotClose, RotCrash, RotWrite
  <2> QED BY <1>0, <1>2, <2>1, ShortenedBy, BoundedCut DEF Shortened
<1>3. CASE RotOpened \/ Skip \/ Found \/ LoopEnds \/ RenameFails
  <2>1. logged' = logged
    BY <1>3 DEF RotOpened, Skip, Found, LoopEnds, RenameFails, fileVars
  <2>2. View' = View
    BY <1>3, QuietView
  <2> QED BY <1>0, <2>1, <2>2
<1>4. ASSUME NEW size \in Sizes, RotLog(size) PROVE AllBounded(logged', View')
  <2>1. View' = View /\ logged' = Append(logged, size) /\ size \in Nat
    BY <1>4, QuietView, RotatingAssumption DEF RotLog
  <2>2. \A n \in DOMAIN View : View[n] \in Seq(1 .. Len(logged))
    BY <1>0, ViewIs DEF DiskOK, Msgs
  <2>3. \A n \in DOMAIN View : BytesIn(logged', View[n]) = BytesIn(logged, View[n])
    BY <1>a, <2>1, <2>2, BytesOlder
  <2> QED BY <1>0, <2>1, <2>3 DEF AllBounded, Bounded
<1>5. CASE RemoveTarget
  <2>1. View = disk /\ View' = disk' /\ logged' = logged
    BY <1>5, MovedView DEF RemoveTarget
  <2>2. \A n \in DOMAIN disk' : n \in DOMAIN disk /\ disk'[n] = disk[n]
    BY <1>5 DEF RemoveTarget
  <2> QED BY <1>0, <2>1, <2>2 DEF AllBounded
<1>6. CASE Rename
  <2>1. View = disk /\ View' = disk' /\ logged' = logged /\ index - 1 \in DOMAIN disk
    BY <1>6, MovedView DEF Rename, RotAt, Rot, Places
  <2>2. \A n \in DOMAIN disk' : \E m \in DOMAIN disk : disk'[n] = disk[m]
    BY <1>6, <2>1 DEF Rename
  <2> QED BY <1>0, <2>1, <2>2 DEF AllBounded
<1>7. CASE GiveUp \/ ReopenFails
  <2>1. logged' = logged /\ (View' = View \/ View' = With(View, 0, <<>>))
    BY <1>7, TruncatedView DEF GiveUp, ReopenFails
  <2> QED BY <1>0, <2>1, BoundedWith, BoundedEmpty
<1>8. CASE Reopen
  <2>1. logged' = logged /\ View' = With(View, 0, <<>>)
    BY <1>8, ReopenView DEF Reopen
  <2> QED BY <1>0, <2>1, BoundedWith, BoundedEmpty
<1>9. CASE RotWrite /\ ~WriteFails
  <2>1. /\ 0 \in DOMAIN View /\ View[0] \in Seq(Msgs) /\ Len(logged) \in Msgs /\ logged' = logged
        /\ View' = With(View, 0, View[0] \o <<Len(logged)>>)
    BY <1>9, RotWriteView DEF RotWrite
  <2>2. /\ BytesIn(logged, View[0]) + logged[Len(logged)] <= current_size_
        /\ current_size_ <= MaxSize \/ View[0] = <<>>
    BY <1>0, <1>9 DEF Counted, RotWrite, RotAt
  <2>3. /\ BytesIn(logged, View[0] \o <<Len(logged)>>) = BytesIn(logged, View[0]) + logged[Len(logged)]
        /\ BytesIn(logged, View[0] \o <<Len(logged)>>) \in Nat
    <3>1. <<Len(logged)>> \in Seq(1 .. Len(logged)) /\ View[0] \in Seq(1 .. Len(logged))
      BY <2>1 DEF Msgs
    <3>2. /\ BytesIn(logged, View[0] \o <<Len(logged)>>)
               = BytesIn(logged, View[0]) + BytesIn(logged, <<Len(logged)>>)
          /\ BytesIn(logged, View[0]) \in Nat /\ BytesIn(logged, <<Len(logged)>>) \in Nat
      BY <1>a, <3>1, BytesConcat
    <3>3. BytesIn(logged, <<Len(logged)>>) = logged[Len(logged)]
      BY <1>a, <2>1, BytesOne DEF Msgs
    <3> QED BY <3>2, <3>3
  <2>4. Bounded(logged, View[0] \o <<Len(logged)>>)
    <3>1. CASE current_size_ <= MaxSize
      BY <1>0, <1>a, <2>2, <2>3, <3>1 DEF Bounded, RotOK
    <3>2. CASE View[0] = <<>>
      BY <3>2 DEF Bounded
    <3> QED BY <2>2, <3>1, <3>2
  <2> QED BY <1>0, <2>1, <2>4, BoundedWith
<1> QED BY <1>1, <1>2, <1>3, <1>4, <1>5, <1>6, <1>7, <1>8, <1>9 DEF RotNext

LEMMA CountedStep == Rot /\ Rot' /\ Measured /\ RotNext => Counted'
<1> SUFFICES ASSUME Rot, Rot', Measured, RotNext PROVE Counted'
  OBVIOUS
<1>0. AllBounded(logged, View) /\ Counted /\ RotOK /\ FileOK /\ Places /\ Places' /\ 0 # NoFile
  BY NoFileName DEF Measured, Rot
<1>a. /\ logged \in Seq(Nat) /\ MaxSize \in Nat /\ current_size_ \in Nat
      /\ rpc = <<rpc[1], rpc[2]>> /\ rpc[2] \in {"ctor", "log"}
  BY <1>0, LoggedNat, RotatingAssumption DEF RotOK
<1>b. \A l : RotGoto(l) <=> rpc' = <<l, rpc[2]>>
  BY DEF RotGoto
<1>c. DOMAIN View = DOMAIN disk /\ \A n \in DOMAIN disk : View[n] \in Seq(1 .. Len(logged))
  BY <1>0, ViewIs DEF DiskOK, Msgs
<1>1. CASE RotOpen
  <2>1. fd_ = NoFile /\ logged' = logged /\ rpc' = <<"ctor", "ctor">> /\ View = disk
        /\ current_size_' = IF 0 \in DOMAIN disk THEN BytesIn(logged, disk[0]) ELSE 0
    BY <1>0, <1>1, NothingBuffered, BytesAre DEF RotOpen, RotAt, Places, FileOK
  <2>2. BytesIn(logged, View'[0]) = current_size_'
    <3>1. CASE 0 \in DOMAIN disk
      <4>1. View' = View
        BY <1>1, <2>1, <3>1, OpenKeeps DEF Recreated
      <4> QED BY <2>1, <3>1, <4>1
    <3>2. CASE 0 \notin DOMAIN disk
      <4>1. View'[0] = <<>>
        <5>1. View' = With(View, 0, <<>>)
          <6>1. 0 \in DOMAIN disk'
            BY <1>0, <1>1, OpenEnds DEF RotOpen
          <6>2. View' # View
            <7>1. DOMAIN View' = DOMAIN disk'
              BY DEF View
            <7> QED BY <1>c, <3>2, <6>1, <7>1
          <6> QED BY <1>1, <6>2, OpenKeeps DEF Recreated
        <5> QED BY <5>1 DEF With
      <4> QED BY <2>1, <3>2, <4>1, BytesEmpty
    <3> QED BY <3>1, <3>2
  <2>3. BytesIn(logged', View'[0]) <= current_size_'
    <3>1. current_size_' \in Nat
      BY DEF Rot, RotOK
    <3> QED BY <2>1, <2>2, <3>1
  <2> QED BY <2>1, <2>3 DEF Counted
<1>2. CASE RotOpenFails
  <2>1. rpc'[1] = "down"
    BY <1>2 DEF RotOpenFails, rotVars, RotAt
  <2> QED BY <2>1 DEF Counted
<1>3. CASE RotOpened
  <2>1. /\ rpc[1] = "ctor" /\ rpc'[1] \in {"idle", "rotate"} /\ UNCHANGED <<fd_, logged, current_size_>>
        /\ View' = View
    BY <1>3, <1>b, QuietView DEF RotOpened, fileVars, RotAt
  <2> QED BY <1>0, <2>1 DEF Counted
<1>4. ASSUME NEW size \in Sizes, RotLog(size) PROVE Counted'
  <2>1. /\ View' = View /\ logged' = Append(logged, size) /\ size \in Nat /\ fd_' = fd_
        /\ rpc[1] = "idle" /\ current_size_' = current_size_ + size
        /\ rpc'[1] = IF current_size_' > MaxSize THEN "rotate" ELSE "write"
    BY <1>4, QuietView, RotatingAssumption DEF RotLog, RotAt
  <2>2. ASSUME rpc'[1] = "write"
        PROVE  /\ BytesIn(logged', View'[0]) + logged'[Len(logged')] <= current_size_'
               /\ current_size_' <= MaxSize
    <3>1. fd_ = 0 /\ 0 \in DOMAIN disk
      BY <1>0, <2>1, <2>2 DEF Places
    <3>2. BytesIn(logged, View[0]) <= current_size_
      BY <1>0, <2>1, <3>1 DEF Counted
    <3>3. View[0] \in Seq(1 .. Len(logged))
      BY <1>c, <3>1
    <3>4. BytesIn(logged', View'[0]) = BytesIn(logged, View[0]) /\ BytesIn(logged, View[0]) \in Nat
      BY <1>a, <2>1, <3>3, BytesOlder, BytesConcat
    <3>5. logged'[Len(logged')] = size
      BY <1>a, <2>1
    <3>6. current_size_' \in Nat /\ ~(current_size_' > MaxSize)
      BY <1>a, <2>1, <2>2
    <3> QED BY <1>a, <2>1, <3>2, <3>4, <3>5, <3>6
  <2> QED BY <2>1, <2>2 DEF Counted
<1>5. CASE Rotate \/ Skip \/ Found \/ LoopEnds \/ RemoveTarget \/ Rename \/ RenameFails \/ RotClose \/ RotCrash
  <2>1. rpc'[1] \notin {"idle", "ctor", "write"}
    BY <1>5, <1>b DEF Rotate, Skip, Found, LoopEnds, RemoveTarget, Rename, RenameFails, RotClose,
                      RotCrash, RotAt
  <2> QED BY <2>1 DEF Counted
<1>6. CASE GiveUp \/ ReopenFails
  <2>1. rpc'[1] \in {"down", "idle"}
    <3>1. Throw
      BY <1>6 DEF GiveUp, ReopenFails
    <3>2. rpc' = <<IF rpc[2] = "ctor" THEN "down" ELSE "idle", rpc[2]>>
      BY <3>1 DEF Throw, RotGoto
    <3> QED BY <3>2
  <2>2. ASSUME fd_' = 0 PROVE BytesIn(logged', View'[0]) <= current_size_'
    <3>1. View' = With(View, 0, <<>>) /\ current_size_' = 0
      BY <1>6, <2>2, TruncatedView
    <3>2. View'[0] = <<>>
      BY <3>1 DEF With
    <3> QED BY <3>1, <3>2, BytesEmpty
  <2> QED BY <2>1, <2>2 DEF Counted
<1>7. CASE Reopen
  <2>1. View'[0] = <<>> /\ logged' = logged /\ BytesIn(logged', <<>>) = 0
    <3>1. View' = With(View, 0, <<>>)
      BY <1>7, ReopenView
    <3>2. View'[0] = <<>>
      BY <3>1 DEF With
    <3> QED BY <1>7, <3>2, BytesEmpty DEF Reopen
  <2>2. CASE rpc[2] = "log" /\ rpc'[1] = "write" /\ current_size_' = logged[Len(logged)]
    <3>1. logged[Len(logged)] \in Nat
      <4>1. Len(logged) \in 1 .. Len(logged)
        BY <1>0, <1>a, <2>2 DEF Places
      <4> QED BY <1>0, <4>1, LoggedNat
    <3> QED BY <2>1, <2>2, <3>1 DEF Counted
  <2>3. CASE rpc'[1] = "idle" /\ current_size_' = current_size_
    BY <1>a, <2>1, <2>3 DEF Counted
  <2> QED BY <1>7, <1>b, <2>2, <2>3 DEF Reopen
<1>8. CASE RotWrite
  <2>1. /\ rpc[1] = "write" /\ rpc'[1] = "idle" /\ UNCHANGED <<current_size_, logged>> /\ fd_ = 0
        /\ 0 \in DOMAIN View
    BY <1>0, <1>8, <1>b, <1>c DEF RotWrite, RotAt, Places
  <2>2. /\ BytesIn(logged, View[0]) + logged[Len(logged)] <= current_size_
        /\ BytesIn(logged, View[0]) \in Nat /\ logged[Len(logged)] \in Nat
        /\ View[0] \in Seq(1 .. Len(logged))
    <3>1. Len(logged) \in 1 .. Len(logged)
      BY <1>0, <1>a, <2>1 DEF Places
    <3> QED BY <1>0, <1>a, <1>c, <2>1, <3>1, LoggedNat, BytesConcat DEF Counted
  <2>3. BytesIn(logged, View'[0]) <= current_size_
    <3>1. CASE WriteFails
      <4>1. Cut(View, View')
        BY <1>8, <3>1, ShortenedBy DEF Shortened
      <4>2. /\ BytesIn(logged, View'[0]) <= BytesIn(logged, View[0])
            /\ BytesIn(logged, View'[0]) \in Nat
        BY <1>0, <2>1, <4>1, BoundedCut
      <4> QED BY <1>a, <2>2, <4>2
    <3>2. CASE ~WriteFails
      <4>1. View'[0] = View[0] \o <<Len(logged)>> /\ Len(logged) \in Msgs
        BY <1>8, <3>2, RotWriteView, WithIs
      <4>2. <<Len(logged)>> \in Seq(1 .. Len(logged))
        BY <4>1 DEF Msgs
      <4>3. BytesIn(logged, View'[0]) = BytesIn(logged, View[0]) + logged[Len(logged)]
        BY <1>a, <2>2, <4>1, <4>2, BytesConcat, BytesOne DEF Msgs
      <4> QED BY <2>2, <4>3
    <3> QED BY <3>1, <3>2
  <2> QED BY <2>1, <2>3 DEF Counted
<1>9. CASE RotFlush
  <2>1. rpc[1] = "idle" /\ UNCHANGED <<rpc, fd_, current_size_, logged>>
    BY <1>0, <1>9, FlushEnds DEF RotFlush, rotVars, RotAt
  <2>2. ASSUME fd_ = 0 PROVE BytesIn(logged, View'[0]) <= current_size_
    <3>1. Cut(View, View')
      BY <1>9, ShortenedBy DEF Shortened
    <3>2. 0 \in DOMAIN View
      BY <1>0, <1>c, <2>2 DEF Places
    <3>3. /\ BytesIn(logged, View'[0]) <= BytesIn(logged, View[0])
          /\ BytesIn(logged, View'[0]) \in Nat /\ BytesIn(logged, View[0]) \in Nat
      BY <1>0, <3>1, <3>2, BoundedCut
    <3> QED BY <1>0, <1>a, <2>1, <2>2, <3>3 DEF Counted
  <2> QED BY <2>1, <2>2 DEF Counted
<1> QED BY <1>1, <1>2, <1>3, <1>4, <1>5, <1>6, <1>7, <1>8, <1>9 DEF RotNext

\* The inductive invariant of SizeBound, with Types.
MeasuredOK == sink = "rotating" => Measured

LEMMA MeasuredInit == Init => MeasuredOK
<1> SUFFICES ASSUME Init PROVE Measured
  BY DEF MeasuredOK
<1>1. DOMAIN disk = {} /\ fd_ = NoFile /\ rpc[1] = "down"
  BY DEF Init, FileInit, RotInit
<1>2. DOMAIN View = {}
  BY <1>1 DEF View
<1> QED BY <1>1, <1>2, NoFileName DEF Measured, AllBounded, Counted

LEMMA MeasuredNext == Types /\ Types' /\ MeasuredOK /\ [Next]_vars => MeasuredOK'
<1> SUFFICES ASSUME Types, Types', MeasuredOK, [Next]_vars, sink' = "rotating" PROVE Measured'
  BY DEF MeasuredOK
<1>1. CASE sink = "rotating" /\ RotNext
  <2>1. Rot /\ Rot' /\ Measured
    BY <1>1 DEF Types, TypeOK, Rot, MeasuredOK
  <2> QED BY <1>1, <2>1, BoundedStep, CountedStep DEF Measured
<1>2. CASE UNCHANGED vars
  <2>1. UNCHANGED <<fd_, rpc, current_size_, logged>> /\ View' = View /\ Measured
    BY <1>2 DEF vars, fileVars, rotVars, View, MeasuredOK
  <2> QED BY <2>1 DEF Measured, AllBounded, Counted
<1> QED BY <1>1, <1>2, StepCases

LEMMA MeasuredHolds == Spec => [](Types /\ MeasuredOK)
<1>1. Init => Types /\ MeasuredOK
  BY TypesInit, MeasuredInit
<1>2. Types /\ MeasuredOK /\ [Next]_vars => (Types /\ MeasuredOK)'
  BY TypesStep, MeasuredNext
<1> QED BY <1>1, <1>2, PTL DEF Spec

\* No file of the rotating sink exceeds the maximum size, but for one that holds
\* a single message, whatever fails in rotate_().
THEOREM SizeBoundHolds == Spec => []SizeBound
<1>1. Types /\ MeasuredOK => SizeBound
  <2> SUFFICES ASSUME Types, MeasuredOK, NEW n \in DOMAIN disk PROVE Bounded(logged, View[n])
    BY ViewIs, BytesAre DEF SizeBound, Bounded, Types, TypeOK
  <2>1. CASE sink = "rotating"
    BY <2>1, ViewIs DEF MeasuredOK, Measured, AllBounded, Types, TypeOK
  <2>2. CASE sink = "daily"
    <3>1. View[n] \in Seq(Msgs) /\ Msgs = {}
      BY <2>2, ViewIs DEF DiskOK, Msgs, Types, TypeOK, Opened
    <3>2. View[n] = <<>>
      BY <3>1
    <3> QED BY <3>2, BoundedEmpty
  <2> QED BY <2>1, <2>2 DEF Types, TypeOK
<1> QED BY <1>1, MeasuredHolds, PTL

-------------------------------------------------------------------------------
(* OrderKept: sequences of messages. *)

\* A sequence in order, and one that comes before another.
Increasing(c) == \A i, j \in 1 .. Len(c) : i < j => c[i] < c[j]

Below(c, d) == \A i \in 1 .. Len(c), j \in 1 .. Len(d) : c[i] < d[j]

\* Each file is in order, and one with a higher number holds older messages.
Ordered(v) ==
  /\ \A n \in DOMAIN v : Increasing(v[n])
  /\ \A n, m \in DOMAIN v : m < n => Below(v[n], v[m])

\* Where a message is.
InOne(c, m) == \E i \in 1 .. Len(c) : c[i] = m

Has(v, m) == \E n \in DOMAIN v : InOne(v[n], m)

LEMMA IncreasingPrefix ==
  ASSUME NEW c \in Seq(Msgs), NEW t \in Seq(Msgs), NEW d, d = c \o t
  PROVE  /\ \A i \in 1 .. Len(c) : i \in 1 .. Len(d) /\ d[i] = c[i]
         /\ Increasing(d) => Increasing(c)
<1>1. \A i \in 1 .. Len(c) : i \in 1 .. Len(c \o t) /\ (c \o t)[i] = c[i]
  OBVIOUS
<1> QED BY <1>1 DEF Increasing

LEMMA OrderCut ==
  ASSUME NEW v, NEW w, Cut(v, w)
  PROVE  /\ Ordered(v) => Ordered(w)
         /\ \A m : Has(w, m) => Has(v, m)
<1>1. \A n \in DOMAIN v : /\ \A i \in 1 .. Len(w[n]) : i \in 1 .. Len(v[n]) /\ v[n][i] = w[n][i]
                          /\ Increasing(v[n]) => Increasing(w[n])
  <2> TAKE n \in DOMAIN v
  <2>1. PICK t \in Seq(Msgs) : v[n] = w[n] \o t
    BY DEF Cut
  <2>2. w[n] \in Seq(Msgs)
    BY DEF Cut
  <2> QED BY <2>1, <2>2, IncreasingPrefix
<1>2. DOMAIN w = DOMAIN v
  BY DEF Cut
<1>3. ASSUME NEW n \in DOMAIN v, NEW m \in DOMAIN v, Below(v[n], v[m]) PROVE Below(w[n], w[m])
  BY <1>1, <1>3 DEF Below
<1>4. Ordered(v) => Ordered(w)
  BY <1>1, <1>2, <1>3 DEF Ordered
<1>5. \A m : Has(w, m) => Has(v, m)
  BY <1>1, <1>2 DEF Has, InOne
<1> QED BY <1>4, <1>5

LEMMA OrderEmptied ==
  ASSUME NEW v, NEW w, w = With(v, 0, <<>>)
  PROVE  /\ Ordered(v) => Ordered(w)
         /\ \A m : Has(w, m) => Has(v, m)
         /\ 0 \notin DOMAIN v => \A m : Has(v, m) => Has(w, m)
<1>1. /\ DOMAIN w = DOMAIN v \cup {0} /\ w[0] = <<>> /\ Len(w[0]) = 0
      /\ \A n \in DOMAIN v : n # 0 => w[n] = v[n]
  BY DEF With
<1>2. Increasing(w[0]) /\ \A c : Below(w[0], c) /\ Below(c, w[0])
  BY <1>1 DEF Increasing, Below
<1>3. Ordered(v) => Ordered(w)
  BY <1>1, <1>2 DEF Ordered
<1> QED BY <1>1, <1>3 DEF Has, InOne

LEMMA OrderAppended ==
  ASSUME NEW v, DiskOK(v), NEW w, NEW k \in Nat, Ordered(v), \A m : Has(v, m) => m < k,
         0 \in DOMAIN v, DOMAIN v \subseteq 0 .. MaxFiles, w = With(v, 0, v[0] \o <<k>>)
  PROVE  Ordered(w) /\ \A m : Has(w, m) <=> Has(v, m) \/ m = k
<1> DEFINE c == v[0] \o <<k>>
           L == Len(v[0])
<1>1. /\ DOMAIN w = DOMAIN v /\ w[0] = c
      /\ \A n \in DOMAIN v : n # 0 => w[n] = v[n]
  BY DEF With
<1>2. /\ L \in Nat /\ Len(c) = L + 1 /\ c[L + 1] = k
      /\ \A i \in 1 .. L : i \in 1 .. L + 1 /\ c[i] = v[0][i]
  BY DEF DiskOK, Msgs
<1>3. \A n \in DOMAIN v : \A i \in 1 .. Len(v[n]) : v[n][i] < k /\ v[n][i] \in Nat
  BY DEF Has, InOne, DiskOK, Msgs
<1>4. Increasing(c)
  <2> SUFFICES ASSUME NEW i \in 1 .. L + 1, NEW j \in 1 .. L + 1, i < j PROVE c[i] < c[j]
    BY <1>2 DEF Increasing
  <2>1. i \in 1 .. L /\ c[i] = v[0][i]
    BY <1>2
  <2>2. CASE j = L + 1
    BY <1>2, <1>3, <2>1, <2>2
  <2>3. CASE j # L + 1
    <3>1. j \in 1 .. L /\ c[j] = v[0][j]
      BY <1>2, <2>3
    <3> QED BY <2>1, <3>1 DEF Ordered, Increasing
  <2> QED BY <2>2, <2>3
<1>5. ASSUME NEW n \in DOMAIN v, 0 < n PROVE Below(v[n], c)
  <2> SUFFICES ASSUME NEW i \in 1 .. Len(v[n]), NEW j \in 1 .. L + 1 PROVE v[n][i] < c[j]
    BY <1>2 DEF Below
  <2>1. CASE j = L + 1
    BY <1>2, <1>3, <2>1
  <2>2. CASE j # L + 1
    <3>1. j \in 1 .. L /\ c[j] = v[0][j]
      BY <1>2, <2>2
    <3> QED BY <1>5, <3>1 DEF Ordered, Below
  <2> QED BY <2>1, <2>2
<1> HIDE DEF c
<1>6. Ordered(w)
  <2>1. \A n \in DOMAIN w : Increasing(w[n])
    BY <1>1, <1>4 DEF Ordered
  <2>2. ASSUME NEW n \in DOMAIN v, NEW m \in DOMAIN v, m < n PROVE Below(w[n], w[m])
    <3>1. n # 0 /\ w[n] = v[n] /\ m \in Nat /\ n \in Nat
      BY <1>1, <2>2
    <3>2. CASE m = 0
      BY <1>1, <1>5, <2>2, <3>1, <3>2
    <3>3. CASE m # 0
      BY <1>1, <2>2, <3>1, <3>3 DEF Ordered
    <3> QED BY <3>2, <3>3
  <2> QED BY <1>1, <2>1, <2>2 DEF Ordered
<1>7. \A m : Has(w, m) => Has(v, m) \/ m = k
  <2> SUFFICES ASSUME NEW m, Has(w, m), m # k PROVE Has(v, m)
    OBVIOUS
  <2>0. PICK n \in DOMAIN w : InOne(w[n], m)
    BY DEF Has
  <2>1. PICK i \in 1 .. Len(w[n]) : w[n][i] = m
    BY <2>0 DEF InOne
  <2>2. CASE n = 0
    <3>1. i \in 1 .. L + 1 /\ i # L + 1
      BY <1>1, <1>2, <2>1, <2>2
    <3>2. i \in 1 .. L /\ v[0][i] = m
      BY <1>1, <1>2, <2>1, <2>2, <3>1
    <3> QED BY <3>2 DEF Has, InOne
  <2>3. CASE n # 0
    BY <1>1, <2>1, <2>3 DEF Has, InOne
  <2> QED BY <2>2, <2>3
<1>8. Has(w, k)
  <2>1. L + 1 \in 1 .. Len(w[0]) /\ w[0][L + 1] = k
    BY <1>1, <1>2
  <2> QED BY <1>1, <2>1 DEF Has, InOne
<1>9. \A m : Has(v, m) => Has(w, m)
  <2> SUFFICES ASSUME NEW m, Has(v, m) PROVE Has(w, m)
    OBVIOUS
  <2>0. PICK n \in DOMAIN v : InOne(v[n], m)
    BY DEF Has
  <2>1. PICK i \in 1 .. Len(v[n]) : v[n][i] = m
    BY <2>0 DEF InOne
  <2>2. CASE n = 0
    <3>1. i \in 1 .. Len(w[0]) /\ w[0][i] = m
      BY <1>1, <1>2, <2>1, <2>2
    <3> QED BY <1>1, <3>1 DEF Has, InOne
  <2>3. CASE n # 0
    BY <1>1, <2>1, <2>3 DEF Has, InOne
  <2> QED BY <2>2, <2>3
<1> QED BY <1>6, <1>7, <1>8, <1>9

\* One file goes.
LEMMA OrderRemoved ==
  ASSUME NEW v, NEW x, NEW w, w = [n \in DOMAIN v \ {x} |-> v[n]], Ordered(v)
  PROVE  /\ Ordered(w) /\ \A m : Has(w, m) => Has(v, m)
         /\ \A m : Has(v, m) => Has(w, m) \/ (x \in DOMAIN v /\ InOne(v[x], m))
  BY DEF Ordered, Has

\* What is in the file with the highest number is older than the rest.
LEMMA OldestIsBelow ==
  ASSUME NEW v, DiskOK(v), Ordered(v), DOMAIN v \subseteq 0 .. MaxFiles, MaxFiles \in DOMAIN v,
         NEW n \in DOMAIN v, n # MaxFiles,
         NEW i \in 1 .. Len(v[n]), NEW j \in 1 .. Len(v[MaxFiles])
  PROVE  v[MaxFiles][j] < v[n][i]
<1>1. n < MaxFiles
  BY RotatingAssumption
<1> QED BY <1>1 DEF Ordered, Below

\* One file takes the next number.
LEMMA OrderRenamed ==
  ASSUME NEW v, NEW x \in Nat \ {0}, NEW w, x - 1 \in DOMAIN v, DOMAIN v \subseteq Nat,
         w = [n \in (DOMAIN v \ {x - 1}) \cup {x} |-> IF n = x THEN v[x - 1] ELSE v[n]],
         Ordered(v)
  PROVE  /\ Ordered(w) /\ \A m : Has(w, m) => Has(v, m)
         /\ \A m : Has(v, m) => Has(w, m) \/ (x \in DOMAIN v /\ InOne(v[x], m))
<1> DEFINE f(n) == IF n = x THEN x - 1 ELSE n
<1>1. \A n \in DOMAIN w : f(n) \in DOMAIN v /\ w[n] = v[f(n)] /\ n \in Nat /\ n # x - 1
  OBVIOUS
<1>2. \A n, m \in DOMAIN w : m < n => f(m) < f(n)
  <2>1. \A n, m \in Nat : n # x - 1 /\ m # x - 1 /\ m < n => f(m) < f(n)
    OBVIOUS
  <2> HIDE DEF f
  <2> QED BY <1>1, <2>1
<1>3. Ordered(w)
  <2> HIDE DEF f
  <2> QED BY <1>1, <1>2 DEF Ordered
<1>4. \A m : Has(w, m) => Has(v, m)
  <2> HIDE DEF f
  <2> QED BY <1>1 DEF Has
<1>5. ASSUME NEW m, Has(v, m)
      PROVE  Has(w, m) \/ (x \in DOMAIN v /\ InOne(v[x], m))
  <2>0. PICK n \in DOMAIN v : InOne(v[n], m)
    BY <1>5 DEF Has
  <2>1. PICK i \in 1 .. Len(v[n]) : v[n][i] = m
    BY <2>0 DEF InOne
  <2>2. CASE n = x
    BY <2>0, <2>2
  <2>3. CASE n = x - 1
    <3>1. x \in DOMAIN w /\ w[x] = v[n]
      BY <2>3
    <3> QED BY <2>1, <3>1 DEF Has, InOne
  <2>4. CASE n # x /\ n # x - 1
    <3>1. n \in DOMAIN w /\ w[n] = v[n]
      BY <2>4
    <3> QED BY <2>1, <3>1 DEF Has, InOne
  <2> QED BY <2>2, <2>3, <2>4
<1> QED BY <1>3, <1>4, <1>5

-------------------------------------------------------------------------------
(* The order of the files through the steps of the sink. *)

\* The messages that have been to the disk, or never will.
Placed == IF rpc[2] = "log" /\ rpc[1] # "idle" THEN Len(logged) - 1 ELSE Len(logged)

LEMMA FaultStays == FileOK /\ RotNext /\ fault => fault'
<1> SUFFICES ASSUME FileOK, RotNext, fault = TRUE PROVE fault' = TRUE
  BY DEF FileOK
<1>1. CASE RotOpen \/ RotOpenFails \/ GiveUp \/ Reopen \/ ReopenFails
  BY <1>1 DEF RotOpen, RotOpenFails, GiveUp, Reopen, ReopenFails, OpenFile, OpenFails
<1>2. CASE Rotate \/ RotFlush \/ RotClose \/ RotCrash \/ RotWrite
  BY <1>2 DEF Rotate, RotFlush, RotClose, RotCrash, RotWrite, CloseFile, FlushFile, CrashFile,
              WriteFile, WriteFails
<1>3. CASE RotOpened \/ (\E size \in Sizes : RotLog(size)) \/ Skip \/ Found \/ LoopEnds
           \/ RemoveTarget \/ Rename \/ RenameFails
  BY <1>3 DEF RotOpened, RotLog, Skip, Found, LoopEnds, RemoveTarget, Rename, RenameFails, fileVars
<1> QED BY <1>1, <1>2, <1>3 DEF RotNext

LEMMA PlacedIs == Rot => Placed \in Nat /\ Placed <= Len(logged)
<1> SUFFICES ASSUME Rot PROVE Placed \in Nat /\ Placed <= Len(logged)
  OBVIOUS
<1>1. logged \in Seq(Sizes) /\ (rpc[2] = "log" => logged # <<>>)
  BY DEF Rot, RotOK, Places
<1>2. Len(logged) \in Nat /\ (rpc[2] = "log" => Len(logged) > 0)
  BY <1>1
<1> QED BY <1>2 DEF Placed

\* Only a message that is written, or is lost to a fault, is done with.
LEMMA PlacedStep ==
  ASSUME Rot, RotNext, fault' \/ ~(RotWrite \/ GiveUp \/ ReopenFails)
  PROVE  Placed <= Placed' /\ (~fault' => Placed' = Placed)
<1>0. Placed \in Nat /\ Placed <= Len(logged)
  BY PlacedIs
<1>a. /\ logged \in Seq(Sizes) /\ Len(logged) \in Nat
      /\ rpc = <<rpc[1], rpc[2]>> /\ rpc[2] \in {"ctor", "log"}
  BY DEF Rot, RotOK
<1>b. \A l : RotGoto(l) <=> rpc' = <<l, rpc[2]>>
  BY DEF RotGoto
<1>1. CASE RotOpen
  <2>1. rpc' = <<"ctor", "ctor">> /\ logged' = logged /\ rpc[1] = "down"
    BY <1>1 DEF RotOpen, RotAt
  <2>2. rpc[2] = "ctor"
    BY <2>1 DEF Rot, Places
  <2> QED BY <1>a, <2>1, <2>2 DEF Placed
<1>2. CASE RotOpenFails
  <2>1. rpc' = rpc /\ logged' = logged
    BY <1>2 DEF RotOpenFails, rotVars
  <2> QED BY <1>0, <2>1 DEF Placed
<1>3. CASE RotOpened
  <2>1. logged' = logged /\ rpc[1] = "ctor" /\ \E l : rpc' = <<l, rpc[2]>>
    BY <1>3, <1>b DEF RotOpened, fileVars, RotAt
  <2>2. rpc[2] = "ctor"
    BY <2>1 DEF Rot, Places
  <2> QED BY <1>a, <2>1, <2>2 DEF Placed
<1>4. ASSUME NEW size \in Sizes, RotLog(size) PROVE Placed' = Placed
  <2>1. rpc[1] = "idle" /\ logged' = Append(logged, size) /\ rpc'[2] = "log" /\ rpc'[1] # "idle"
    BY <1>4 DEF RotLog, RotAt
  <2>2. Len(logged') = Len(logged) + 1
    BY <1>a, <2>1
  <2> QED BY <1>a, <2>1, <2>2 DEF Placed
<1>5. CASE Rotate \/ Skip \/ Found \/ LoopEnds \/ RemoveTarget \/ Rename \/ RenameFails
  <2>1. rpc'[2] = rpc[2] /\ rpc[1] # "idle" /\ rpc'[1] # "idle" /\ logged' = logged
    BY <1>5, <1>b DEF Rotate, Skip, Found, LoopEnds, RemoveTarget, Rename, RenameFails, RotAt, fileVars
  <2> QED BY <1>0, <2>1 DEF Placed
<1>6. CASE Reopen
  <2>1. /\ rpc[1] = "reopen" /\ logged' = logged
        /\ (rpc[2] = "log" /\ rpc' = <<"write", "log">>) \/ (rpc[2] = "ctor" /\ rpc' = <<"idle", "ctor">>)
    BY <1>6, <1>b DEF Reopen, RotAt
  <2> QED BY <1>0, <2>1 DEF Placed
<1>7. CASE RotFlush
  <2>1. rpc' = rpc /\ logged' = logged
    BY <1>7 DEF RotFlush, rotVars
  <2> QED BY <1>0, <2>1 DEF Placed
<1>8. CASE RotClose \/ (RotCrash /\ RotAt("idle"))
  <2>1. rpc[1] = "idle" /\ rpc' = <<"down", "ctor">> /\ logged' = logged
    BY <1>8 DEF RotClose, RotCrash, RotAt
  <2> QED BY <1>a, <2>1 DEF Placed
<1>9. CASE RotCrash /\ ~RotAt("idle")
  <2>1. fault' = TRUE /\ rpc' = <<"down", "ctor">> /\ logged' = logged
    BY <1>9 DEF RotCrash, CrashFile
  <2> QED BY <1>0, <1>a, <2>1 DEF Placed
<1>10. CASE RotWrite \/ GiveUp \/ ReopenFails
  <2>1. logged' = logged /\ \E l \in {"down", "idle"} : rpc' = <<l, rpc[2]>>
    BY <1>10, <1>b DEF RotWrite, GiveUp, ReopenFails, Throw
  <2>2. Placed' = Len(logged)
    <3>1. rpc'[2] = "log" => rpc'[1] = "idle"
      <4>1. (Rot => (rpc[1] = "down" => rpc[2] = "ctor"))'
        BY DEF Rot, Places
      <4> QED BY <2>1, <4>1, RotStep
    <3> QED BY <2>1, <3>1 DEF Placed
  <2> QED BY <1>0, <1>10, <2>2
<1> QED BY <1>0, <1>1, <1>2, <1>3, <1>4, <1>5, <1>6, <1>7, <1>8, <1>9, <1>10 DEF RotNext

\* The files are in order, and hold nothing that was not handed to them.
Sorted == Ordered(View) /\ \A m : Has(View, m) => m \in 1 .. Placed

\* rotate_() has made room for the next file it moves.
Holes ==
  /\ rpc[1] \in {"scan", "remove", "rename", "giveup"} /\ index < MaxFiles => index \notin DOMAIN disk
  /\ rpc[1] = "reopen" /\ MaxFiles > 0 => 0 \notin DOMAIN disk
  /\ rpc[1] = "giveup" => fault

LEMMA HolesStep == Rot /\ Rot' /\ Holes /\ RotNext => Holes'
<1> SUFFICES ASSUME Rot, Rot', Holes, RotNext PROVE Holes'
  OBVIOUS
<1>b. \A l : RotGoto(l) <=> rpc' = <<l, rpc[2]>>
  BY DEF RotGoto
<1>c. MaxFiles \in Nat /\ index \in 0 .. MaxFiles
  BY RotatingAssumption DEF Rot, RotOK
<1>1. CASE RotOpen \/ RotOpenFails \/ RotOpened \/ RotWrite \/ RotFlush \/ RotClose \/ RotCrash
  <2>1. rpc'[1] \notin {"scan", "remove", "rename", "giveup", "reopen"}
    <3>1. CASE RotOpen \/ RotClose \/ RotCrash
      <4>1. rpc' = <<"ctor", "ctor">> \/ rpc' = <<"down", "ctor">>
        BY <3>1 DEF RotOpen, RotClose, RotCrash
      <4> QED BY <4>1
    <3>4. CASE RotWrite
      BY <1>b, <3>4 DEF RotWrite
    <3>3. CASE RotOpened
      BY <1>b, <3>3 DEF RotOpened
    <3>2. CASE RotOpenFails \/ RotFlush
      BY <3>2 DEF RotOpenFails, RotFlush, rotVars, RotAt
    <3> QED BY <1>1, <3>1, <3>2, <3>3, <3>4
  <2> QED BY <2>1 DEF Holes
<1>2. ASSUME NEW size \in Sizes, RotLog(size) PROVE Holes'
  <2>1. rpc'[1] \in {"rotate", "write"}
    BY <1>2 DEF RotLog
  <2> QED BY <2>1 DEF Holes
<1>3. CASE GiveUp \/ ReopenFails
  <2>1. rpc'[1] \in {"down", "idle"}
    <3>1. rpc' = <<IF rpc[2] = "ctor" THEN "down" ELSE "idle", rpc[2]>>
      BY <1>3 DEF GiveUp, ReopenFails, Throw, RotGoto
    <3> QED BY <3>1
  <2> QED BY <2>1 DEF Holes
<1>4. CASE Reopen
  <2>1. rpc'[1] \in {"write", "idle"}
    BY <1>4, <1>b DEF Reopen
  <2> QED BY <2>1 DEF Holes
<1>5. CASE Rotate
  <2>1. rpc'[1] = "scan" /\ index' = MaxFiles
    BY <1>5, <1>b DEF Rotate
  <2> QED BY <1>c, <2>1 DEF Holes
<1>6. CASE Skip
  <2>1. rpc'[1] = "scan" /\ index' = index - 1 /\ index - 1 \notin DOMAIN disk /\ disk' = disk
    BY <1>6 DEF Skip, RotAt, fileVars
  <2> QED BY <2>1 DEF Holes
<1>7. CASE Found
  <2>1. rpc[1] = "scan" /\ rpc'[1] = "remove" /\ UNCHANGED <<index, disk>>
    BY <1>7, <1>b DEF Found, RotAt, fileVars
  <2> QED BY <2>1 DEF Holes
<1>8. CASE LoopEnds
  <2>1. rpc[1] = "scan" /\ rpc'[1] = "reopen" /\ index = 0 /\ UNCHANGED <<index, disk>>
    BY <1>8, <1>b DEF LoopEnds, RotAt, fileVars
  <2> QED BY <2>1, <1>c DEF Holes
<1>9. CASE RemoveTarget
  <2>1. rpc[1] = "remove" /\ rpc'[1] = "rename" /\ UNCHANGED <<index>> /\ DOMAIN disk' \subseteq DOMAIN disk
    BY <1>9, <1>b DEF RemoveTarget, RotAt
  <2> QED BY <2>1 DEF Holes
<1>10. CASE Rename
  <2>1. rpc'[1] = "scan" /\ index' = index - 1 /\ DOMAIN disk' = (DOMAIN disk \ {index - 1}) \cup {index}
    BY <1>10, <1>b DEF Rename
  <2> QED BY <2>1, <1>c DEF Holes
<1>11. CASE RenameFails
  <2>1. /\ rpc[1] = "rename" /\ rpc'[1] \in {"remove", "giveup"} /\ UNCHANGED <<index, disk>>
        /\ fault' = TRUE
    BY <1>11, <1>b DEF RenameFails, RotAt
  <2> QED BY <2>1 DEF Holes
<1> QED BY <1>1, <1>2, <1>3, <1>4, <1>5, <1>6, <1>7, <1>8, <1>9, <1>10, <1>11 DEF RotNext

LEMMA SortedStep == Rot /\ Rot' /\ Holes /\ Sorted /\ RotNext => Sorted'
<1> SUFFICES ASSUME Rot, Rot', Holes, Sorted, RotNext PROVE Sorted'
  OBVIOUS
<1> DEFINE v == View
           w == View'
<1>0. /\ Ordered(v) /\ (\A m : Has(v, m) => m \in 1 .. Placed) /\ Placed \in Nat
      /\ DiskOK(v) /\ DOMAIN v = DOMAIN disk /\ DOMAIN v \subseteq 0 .. MaxFiles
      /\ Placed' \in Nat
  <2>1. (Rot => Placed \in Nat /\ Placed <= Len(logged))'
    BY PlacedIs, PTL
  <2> QED BY <2>1, ViewIs, PlacedIs DEF Sorted, Rot, Places
<1>a. Placed <= Placed'
  <2>1. CASE fault' \/ ~(RotWrite \/ GiveUp \/ ReopenFails)
    BY <2>1, PlacedStep
  <2>2. CASE GiveUp \/ ReopenFails
    <3>1. fault'
      <4>1. CASE GiveUp
        BY <4>1, FaultStays DEF GiveUp, RotAt, Holes, Rot
      <4>2. CASE ReopenFails
        BY <4>2 DEF ReopenFails, OpenFails
      <4> QED BY <2>2, <4>1, <4>2
    <3> QED BY <3>1, PlacedStep
  <2>3. CASE RotWrite
    <3>1. rpc[1] = "write" /\ rpc'[1] = "idle" /\ logged' = logged
      BY <2>3 DEF RotWrite, RotAt, RotGoto
    <3>2. Placed' = Len(logged)
      BY <3>1 DEF Placed
    <3> QED BY <3>2, PlacedIs
  <2> QED BY <2>1, <2>2, <2>3
<1>b. ASSUME Ordered(w), \A m : Has(w, m) => Has(v, m) PROVE Sorted'
  BY <1>0, <1>a, <1>b DEF Sorted
<1>1. CASE RotOpen \/ RotOpenFails
  <2>1. w = v \/ w = With(v, 0, <<>>)
    BY <1>1, OpenKeeps DEF Recreated
  <2> HIDE DEF v, w
  <2> QED BY <1>0, <1>b, <2>1, OrderEmptied
<1>2. CASE Rotate \/ RotFlush \/ RotClose \/ RotCrash \/ (RotWrite /\ WriteFails)
  <2>1. Cut(v, w)
    BY <1>2, ShortenedBy DEF Shortened
  <2> HIDE DEF v, w
  <2> QED BY <1>0, <1>b, <2>1, OrderCut
<1>3. CASE RotOpened \/ (\E size \in Sizes : RotLog(size)) \/ Skip \/ Found \/ LoopEnds \/ RenameFails
  <2>1. w = v
    BY <1>3, QuietView
  <2> QED BY <1>0, <1>b, <2>1
<1>4. CASE RemoveTarget
  <2>1. \/ w = v
        \/ w = [n \in DOMAIN v \ {index} |-> v[n]]
    BY <1>4, MovedView DEF RemoveTarget
  <2> HIDE DEF v, w
  <2> QED BY <1>0, <1>b, <2>1, OrderRemoved
<1>5. CASE Rename
  <2>1. /\ w = [n \in (DOMAIN v \ {index - 1}) \cup {index} |-> IF n = index THEN v[index - 1] ELSE v[n]]
        /\ index \in Nat \ {0} /\ index - 1 \in DOMAIN v
    <3>1. v = disk /\ w = disk'
      BY <1>5, MovedView
    <3>2. index \in Nat \ {0} /\ index - 1 \in DOMAIN disk
      BY <1>5 DEF Rename, RotAt, Rot, Places, RotOK
    <3>3. disk' = [n \in (DOMAIN disk \ {index - 1}) \cup {index} |->
                     IF n = index THEN disk[index - 1] ELSE disk[n]]
      BY <1>5 DEF Rename
    <3> HIDE DEF v, w
    <3> QED BY <3>1, <3>2, <3>3
  <2>2. DOMAIN v \subseteq Nat
    BY <1>0
  <2> HIDE DEF v, w
  <2>3. Ordered(w) /\ \A m : Has(w, m) => Has(v, m)
    BY <1>0, <2>1, <2>2, OrderRenamed
  <2> QED BY <1>b, <2>3
<1>6. CASE GiveUp \/ ReopenFails \/ Reopen
  <2>1. w = v \/ w = With(v, 0, <<>>)
    <3>1. CASE GiveUp \/ ReopenFails
      BY <3>1, TruncatedView
    <3>2. CASE Reopen
      BY <3>2, ReopenView
    <3> QED BY <1>6, <3>1, <3>2
  <2> HIDE DEF v, w
  <2> QED BY <1>0, <1>b, <2>1, OrderEmptied
<1>7. CASE RotWrite /\ ~WriteFails
  <2>1. 0 \in DOMAIN v /\ Len(logged) \in Nat /\ w = With(v, 0, v[0] \o <<Len(logged)>>)
    BY <1>7, RotWriteView DEF Msgs
  <2>2. rpc[1] = "write" /\ rpc[2] = "log" /\ rpc'[1] = "idle" /\ logged' = logged
    BY <1>7 DEF RotWrite, RotAt, Rot, Places, RotGoto
  <2>3. Placed = Len(logged) - 1 /\ Placed' = Len(logged)
    BY <2>2 DEF Placed
  <2>4. \A m : Has(v, m) => m < Len(logged)
    BY <1>0, <2>1, <2>3
  <2> HIDE DEF v, w
  <2>5. Ordered(w) /\ \A m : Has(w, m) <=> Has(v, m) \/ m = Len(logged)
    BY <1>0, <2>1, <2>4, OrderAppended
  <2>6. \A m : Has(w, m) => m \in 1 .. Placed'
    BY <1>0, <2>3, <2>5
  <2> USE DEF v, w
  <2> QED BY <2>5, <2>6 DEF Sorted
<1> QED BY <1>1, <1>2, <1>3, <1>4, <1>5, <1>6, <1>7 DEF RotNext

\* All after the first of v up to p are there; all from the first message are.
NoGap(v, p) == \A m, k : Has(v, m) /\ k \in m .. p => Has(v, k)
AllOf(v, p) == \A k \in 1 .. p : Has(v, k)

\* As long as nothing failed the files hold an end of the log, and only one
\* that was in the last place, or is about to be, is missing.
Whole ==
  ~fault =>
    /\ NoGap(View, Placed)
    /\ \/ MaxFiles \in DOMAIN View
       \/ AllOf(View, Placed)
       \/ rpc[1] = "rename" /\ index = MaxFiles

\* The file with the highest number goes.
LEMMA GoneKeepsOrder ==
  ASSUME NEW v, NEW w, NEW p \in Nat, DiskOK(v), Ordered(v), DOMAIN v \subseteq 0 .. MaxFiles,
         NoGap(v, p), \A m : Has(w, m) => \E n \in DOMAIN v : n # MaxFiles /\ InOne(v[n], m),
         \A m : Has(v, m) => \/ Has(w, m)
                             \/ MaxFiles \in DOMAIN v /\ InOne(v[MaxFiles], m)
  PROVE  NoGap(w, p)
<1> SUFFICES ASSUME NEW m, NEW k, Has(w, m), k \in m .. p, ~Has(w, k) PROVE FALSE
  BY DEF NoGap
<1>1. PICK n \in DOMAIN v : n # MaxFiles /\ InOne(v[n], m)
  OBVIOUS
<1>2. PICK i \in 1 .. Len(v[n]) : v[n][i] = m
  BY <1>1 DEF InOne
<1>3. Has(v, k)
  BY <1>1 DEF NoGap, Has
<1>4. MaxFiles \in DOMAIN v
  BY <1>3
<1>5. PICK j \in 1 .. Len(v[MaxFiles]) : v[MaxFiles][j] = k
  BY <1>3 DEF InOne
<1>6. k < m
  BY <1>1, <1>2, <1>4, <1>5, OldestIsBelow
<1>7. m \in Nat /\ k \in Nat
  <2>1. v[n] \in Seq(Nat) /\ v[MaxFiles] \in Seq(Nat)
    <3>1. \A x \in DOMAIN v : v[x] \in Seq(Msgs)
      BY DEF DiskOK
    <3>2. \A c \in Seq(Msgs) : c \in Seq(Nat)
      BY DEF Msgs
    <3> QED BY <1>4, <3>1, <3>2
  <2> QED BY <1>2, <1>5, <2>1
<1> QED BY <1>6, <1>7

LEMMA WholeStep == Rot /\ Rot' /\ Holes /\ Sorted /\ Whole /\ RotNext => Whole'
<1> SUFFICES ASSUME Rot, Rot', Holes, Sorted, Whole, RotNext, ~fault' PROVE Whole'
  BY DEF Whole
<1> DEFINE v == View
           w == View'
<1>0. /\ Ordered(v) /\ (\A m : Has(v, m) => m \in 1 .. Placed) /\ Placed \in Nat
      /\ DiskOK(v) /\ DOMAIN v = DOMAIN disk /\ DOMAIN v \subseteq 0 .. MaxFiles
      /\ MaxFiles \in Nat
  BY ViewIs, PlacedIs, RotatingAssumption DEF Sorted, Rot, Places
<1>a. /\ ~fault /\ NoGap(v, Placed)
      /\ \/ MaxFiles \in DOMAIN v \/ AllOf(v, Placed)
         \/ rpc[1] = "rename" /\ index = MaxFiles
  <2>1. ~fault
    BY FaultStays DEF Rot
  <2> QED BY <2>1 DEF Whole
<1>b. ~(RotWrite \/ GiveUp \/ ReopenFails) => Placed' = Placed
  BY PlacedStep
<1>c. ASSUME Placed' = Placed, \A m : Has(v, m) <=> Has(w, m), MaxFiles \in DOMAIN v => MaxFiles \in DOMAIN w,
             rpc[1] # "rename"
      PROVE  Whole'
  <2>1. NoGap(w, Placed') /\ (AllOf(v, Placed) => AllOf(w, Placed'))
    <3> HIDE DEF v, w
    <3> QED BY <1>a, <1>c DEF NoGap, AllOf
  <2> QED BY <1>a, <1>c, <2>1 DEF Whole
<1>d. \A l : RotGoto(l) <=> rpc' = <<l, rpc[2]>>
  BY DEF RotGoto
<1>1. CASE RotOpen \/ RotOpenFails
  <2>1. w = v \/ (0 \notin DOMAIN v /\ w = With(v, 0, <<>>))
    BY <1>1, OpenKeeps DEF Recreated
  <2>2. rpc[1] # "rename" /\ ~(RotWrite \/ GiveUp \/ ReopenFails)
    BY <1>1 DEF RotOpen, RotOpenFails, RotWrite, GiveUp, ReopenFails, RotAt
  <2> HIDE DEF v, w
  <2>3. DOMAIN v \subseteq DOMAIN w /\ \A m : Has(v, m) <=> Has(w, m)
    <3>1. CASE w = v
      BY <3>1
    <3>2. CASE 0 \notin DOMAIN v /\ w = With(v, 0, <<>>)
      <4>1. DOMAIN v \subseteq DOMAIN w
        BY <3>2 DEF With
      <4>2. \A m : Has(v, m) <=> Has(w, m)
        <5>1. (\A m : Has(w, m) => Has(v, m)) /\ \A m : Has(v, m) => Has(w, m)
          BY <1>0, <3>2, OrderEmptied
        <5> QED BY <5>1 DEF Has
      <4> QED BY <4>1, <4>2
    <3> QED BY <2>1, <3>1, <3>2
  <2> QED BY <1>b, <1>c, <2>2, <2>3
<1>2. CASE Rotate \/ RotFlush \/ RotClose \/ RotCrash
  <2>1. w = v
    BY <1>2, ShortenedBy DEF Shortened
  <2>2. rpc[1] # "rename" /\ ~(RotWrite \/ GiveUp \/ ReopenFails)
    <3>1. CASE Rotate \/ RotFlush \/ RotClose
      BY <3>1 DEF Rotate, RotFlush, RotClose, RotWrite, GiveUp, ReopenFails, RotAt
    <3>2. CASE RotCrash
      <4>1. rpc[1] = "idle"
        BY <3>2 DEF RotCrash, CrashFile, RotAt
      <4> QED BY <4>1 DEF RotWrite, GiveUp, ReopenFails, RotAt
    <3> QED BY <1>2, <3>1, <3>2
  <2> HIDE DEF v, w
  <2> QED BY <1>b, <1>c, <2>1, <2>2
<1>3. CASE RotOpened \/ (\E size \in Sizes : RotLog(size)) \/ Skip \/ Found \/ LoopEnds
  <2>1. w = v
    BY <1>3, QuietView
  <2>2. rpc[1] # "rename" /\ ~(RotWrite \/ GiveUp \/ ReopenFails)
    BY <1>3 DEF RotOpened, RotLog, Skip, Found, LoopEnds, RotWrite, GiveUp, ReopenFails, RotAt
  <2> HIDE DEF v, w
  <2> QED BY <1>b, <1>c, <2>1, <2>2
<1>4. CASE RemoveTarget
  <2>1. \/ w = v
        \/ w = [n \in DOMAIN v \ {index} |-> v[n]]
    BY <1>4, MovedView DEF RemoveTarget
  <2>2. /\ rpc[1] = "remove" /\ rpc'[1] = "rename" /\ index' = index /\ index \in 0 .. MaxFiles
        /\ ~(RotWrite \/ GiveUp \/ ReopenFails)
    BY <1>4, <1>d DEF RemoveTarget, RotAt, RotWrite, GiveUp, ReopenFails, Rot, RotOK
  <2>3. CASE w = v
    BY <1>b, <1>c, <2>2, <2>3
  <2>4. CASE index < MaxFiles /\ w = [n \in DOMAIN v \ {index} |-> v[n]]
    <3>1. index \notin DOMAIN v
      BY <1>0, <2>2, <2>4 DEF Holes
    <3>2. DOMAIN w = DOMAIN v /\ \A n \in DOMAIN v : w[n] = v[n]
      BY <2>4, <3>1
    <3> HIDE DEF v, w
    <3>3. \A m : Has(v, m) <=> Has(w, m)
      BY <3>2 DEF Has
    <3> QED BY <1>b, <1>c, <2>2, <3>2, <3>3
  <2>5. CASE index = MaxFiles /\ w = [n \in DOMAIN v \ {index} |-> v[n]]
    <3>1. NoGap(w, Placed)
      <4> HIDE DEF v, w
      <4>1. \A m : Has(w, m) =>
              \E n \in DOMAIN v : n # MaxFiles /\ InOne(v[n], m)
        BY <2>5 DEF Has
      <4>2. \A m : Has(v, m) => \/ Has(w, m)
                                \/ MaxFiles \in DOMAIN v
                                   /\ InOne(v[MaxFiles], m)
        <5>1. Ordered(v) /\ w = [n \in DOMAIN v \ {MaxFiles} |-> v[n]]
          BY <1>0, <2>5
        <5> QED BY <5>1, OrderRemoved
      <4> QED BY <1>0, <1>a, <4>1, <4>2, GoneKeepsOrder
    <3> QED BY <1>b, <2>2, <2>5, <3>1 DEF Whole
  <2> QED BY <1>0, <2>1, <2>2, <2>3, <2>4, <2>5
<1>5. CASE Rename
  <2>1. /\ rpc[1] = "rename" /\ rpc'[1] = "scan" /\ index \in 0 .. MaxFiles /\ index > 0
        /\ index - 1 \in DOMAIN disk /\ ~(RotWrite \/ GiveUp \/ ReopenFails)
    BY <1>5, <1>d DEF Rename, RotAt, Rot, Places, RotOK, RotWrite, GiveUp, ReopenFails
  <2>2. w = [n \in (DOMAIN v \ {index - 1}) \cup {index} |-> IF n = index THEN v[index - 1] ELSE v[n]]
    <3>1. v = disk /\ w = disk'
      BY <1>5, MovedView
    <3>2. disk' = [n \in (DOMAIN disk \ {index - 1}) \cup {index} |->
                     IF n = index THEN disk[index - 1] ELSE disk[n]]
      BY <1>5 DEF Rename
    <3> HIDE DEF v, w
    <3> QED BY <3>1, <3>2
  <2>3. DOMAIN v \subseteq Nat /\ index \in Nat \ {0} /\ index - 1 \in DOMAIN v
    BY <1>0, <2>1
  <2>4. Placed' = Placed
    BY <1>b, <2>1
  <2> HIDE DEF v, w
  <2>5. /\ \A m : Has(w, m) => Has(v, m)
        /\ \A m : Has(v, m) => Has(w, m) \/ (index \in DOMAIN v /\ InOne(v[index], m))
    <3>1. Ordered(v)
      BY <1>0
    <3> QED BY <2>2, <2>3, <3>1, OrderRenamed
  <2>6. CASE index < MaxFiles
    <3>1. index \notin DOMAIN v
      BY <1>0, <2>1, <2>6 DEF Holes
    <3>2. \A m : Has(v, m) <=> Has(w, m)
      BY <2>5, <3>1
    <3>3. MaxFiles \in DOMAIN v => MaxFiles \in DOMAIN w
      BY <1>0, <2>1, <2>2, <2>6
    <3>4. NoGap(w, Placed) /\ (AllOf(v, Placed) => AllOf(w, Placed))
      BY <1>a, <3>2 DEF NoGap, AllOf
    <3> USE DEF v, w
    <3> QED BY <1>a, <2>4, <2>6, <3>3, <3>4, <2>1 DEF Whole
  <2>7. CASE index = MaxFiles
    <3>1. \A m : Has(w, m) =>
            \E n \in DOMAIN v : n # MaxFiles /\ InOne(v[n], m)
      <4> SUFFICES ASSUME NEW m, Has(w, m)
                   PROVE  \E n \in DOMAIN v : n # MaxFiles /\ InOne(v[n], m)
        OBVIOUS
      <4>1. PICK n \in DOMAIN w : InOne(w[n], m)
        BY DEF Has
      <4>2. CASE n = index
        <5>1. w[n] = v[index - 1] /\ index - 1 # MaxFiles
          BY <2>1, <2>2, <2>7, <4>2
        <5> QED BY <2>3, <4>1, <5>1
      <4>3. CASE n # index
        <5>1. w[n] = v[n] /\ n \in DOMAIN v /\ n # MaxFiles
          BY <2>2, <2>7, <4>3
        <5> QED BY <4>1, <5>1
      <4> QED BY <4>2, <4>3
    <3>2. NoGap(w, Placed)
      BY <1>0, <1>a, <2>5, <2>7, <3>1, GoneKeepsOrder
    <3>3. MaxFiles \in DOMAIN w
      BY <2>2, <2>7
    <3> USE DEF v, w
    <3> QED BY <2>4, <3>2, <3>3 DEF Whole
  <2> QED BY <1>0, <2>1, <2>6, <2>7
<1>6. CASE RenameFails
  BY <1>6 DEF RenameFails
<1>7. CASE GiveUp
  BY <1>7, <1>a DEF GiveUp, Holes, RotAt
<1>8. CASE ReopenFails
  BY <1>8 DEF ReopenFails, OpenFails
<1>9. CASE Reopen
  <2>1. w = With(v, 0, <<>>)
    BY <1>9, ReopenView
  <2>2. rpc[1] = "reopen" /\ ~(RotWrite \/ GiveUp \/ ReopenFails)
    <3>1. rpc[1] = "reopen" /\ OpenFile(0, TRUE) /\ ~fault'
      BY <1>9 DEF Reopen, RotAt
    <3>2. fd_' = 0 /\ ~ReopenFails
      BY <3>1, NoFileName DEF OpenFile, ReopenFails, OpenFails
    <3> QED BY <3>1, <3>2 DEF RotAt, RotWrite, GiveUp
  <2>3. CASE MaxFiles > 0
    <3>1. 0 \notin DOMAIN v
      BY <1>0, <2>2, <2>3 DEF Holes
    <3> HIDE DEF v, w
    <3>2. DOMAIN v \subseteq DOMAIN w
      BY <2>1 DEF With
    <3>3. \A m : Has(v, m) <=> Has(w, m)
      <4>1. (\A m : Has(w, m) => Has(v, m)) /\ \A m : Has(v, m) => Has(w, m)
        BY <1>0, <2>1, <3>1, OrderEmptied
      <4> QED BY <4>1 DEF Has
    <3> QED BY <1>b, <1>c, <2>2, <3>2, <3>3
  <2>4. CASE MaxFiles = 0
    <3> HIDE DEF v, w
    <3>1. DOMAIN w = {0} /\ w[0] = <<>>
      <4>1. DOMAIN w = DOMAIN v \cup {0} /\ w[0] = <<>>
        BY <2>1 DEF With
      <4> QED BY <1>0, <2>4, <4>1
    <3>2. \A m : ~Has(w, m)
      BY <3>1 DEF Has, InOne
    <3>3. NoGap(w, Placed') /\ MaxFiles \in DOMAIN w
      BY <2>4, <3>1, <3>2 DEF NoGap
    <3> USE DEF v, w
    <3> QED BY <3>3 DEF Whole
  <2> QED BY <1>0, <2>3, <2>4
<1>10. CASE RotWrite
  <2>1. ~WriteFails
    BY DEF WriteFails
  <2>2. 0 \in DOMAIN v /\ Len(logged) \in Nat /\ w = With(v, 0, v[0] \o <<Len(logged)>>)
    BY <1>10, <2>1, RotWriteView DEF Msgs
  <2>3. rpc[1] = "write" /\ rpc[2] = "log" /\ rpc'[1] = "idle" /\ logged' = logged
    BY <1>10 DEF RotWrite, RotAt, Rot, Places, RotGoto
  <2>4. Placed = Len(logged) - 1 /\ Placed' = Len(logged)
    BY <2>3 DEF Placed
  <2> DEFINE p == Placed
             q == Placed'
  <2>5. p \in Nat /\ q = p + 1
    BY <1>0, <2>2, <2>4
  <2> HIDE DEF v, w, p, q
  <2>6. \A m : Has(w, m) <=> Has(v, m) \/ m = q
    <3>1. \A m : Has(v, m) => m < Len(logged)
      BY <1>0, <2>2, <2>4
    <3>2. Ordered(w) /\ \A m : Has(w, m) <=> Has(v, m) \/ m = Len(logged)
      BY <1>0, <2>2, <3>1, OrderAppended
    <3> QED BY <2>4, <3>2 DEF q
  <2>7. DOMAIN v = DOMAIN w
    BY <2>2, WithIs
  <2>8. \A m : Has(v, m) => m \in 1 .. p
    BY <1>0 DEF p
  <2>9. NoGap(v, p) => NoGap(w, q)
    <3> SUFFICES ASSUME NoGap(v, p), NEW m, NEW k, Has(w, m), k \in m .. q, k # q PROVE Has(w, k)
      BY <2>6 DEF NoGap
    <3>1. CASE m = q
      BY <2>5, <3>1
    <3>2. CASE m # q
      <4>1. Has(v, m) /\ m \in Nat
        BY <2>6, <2>8, <3>2
      <4>2. k \in m .. p
        BY <2>5, <4>1
      <4> QED BY <2>6, <4>1, <4>2 DEF NoGap
    <3> QED BY <3>1, <3>2
  <2>10. AllOf(v, p) => AllOf(w, q)
    BY <2>5, <2>6 DEF AllOf
  <2> USE DEF v, w, p, q
  <2> QED BY <1>a, <2>3, <2>7, <2>9, <2>10 DEF Whole
<1> QED BY <1>1, <1>2, <1>3, <1>4, <1>5, <1>6, <1>7, <1>8, <1>9, <1>10 DEF RotNext

-------------------------------------------------------------------------------
(* What is on disk, from the oldest to the newest message. *)

LEMMA HistoryIs ==
  ASSUME FileOK
  PROVE  \E f \in [0 .. MaxFiles + 1 -> Seq(Msgs)] :
           /\ f[0] = <<>> /\ History = f[MaxFiles + 1] \o buf
           /\ \A i \in 1 .. MaxFiles + 1 : f[i] = f[i - 1] \o InFile(MaxFiles + 1 - i)
<1> DEFINE n == MaxFiles + 1
           Old(f) == f = [k \in 0 .. MaxFiles + 1 |->
                            IF k = 0 THEN <<>> ELSE f[k - 1] \o InFile(MaxFiles + 1 - k)]
           step == [i \in 1 .. n |-> [c \in Seq(Msgs) |-> c \o InFile(MaxFiles + 1 - i)]]
<1>0. \A k : InFile(k) \in Seq(Msgs)
  BY EmptySeqIn DEF InFile, FileOK, Msgs
<1>1. n \in Nat /\ <<>> \in Seq(Msgs) /\ step \in Steps(n, Seq(Msgs))
  <2>1. n \in Nat /\ <<>> \in Seq(Msgs)
    BY RotatingAssumption, EmptySeqIn
  <2>2. \A i \in 1 .. n : [c \in Seq(Msgs) |-> c \o InFile(MaxFiles + 1 - i)] \in [Seq(Msgs) -> Seq(Msgs)]
    BY <1>0
  <2> HIDE DEF n
  <2> QED BY <2>1, <2>2 DEF Steps
<1>2. PICK f \in [0 .. n -> Seq(Msgs)] : f[0] = <<>> /\ \A i \in 1 .. n : f[i] = step[i][f[i - 1]]
  <2>1. Chains(n, Seq(Msgs), <<>>, step) # {}
    <3> HIDE DEF n, step
    <3> QED BY <1>1, Iterated
  <2> HIDE DEF n, step
  <2> QED BY <2>1 DEF Chains
<1>3. \A i \in 1 .. n : f[i] = f[i - 1] \o InFile(MaxFiles + 1 - i)
  <2> TAKE i \in 1 .. n
  <2>1. f[i - 1] \in Seq(Msgs)
    <3>1. i - 1 \in 0 .. n
      BY <1>1
    <3> HIDE DEF step, n
    <3> QED BY <1>2, <3>1
  <2>2. f[i] = step[i][f[i - 1]]
    <3> HIDE DEF step
    <3> QED BY <1>2
  <2> QED BY <2>1, <2>2
<1>4. Old(f)
  <2>1. \A k \in 0 .. n : k # 0 => k \in 1 .. n
    BY <1>1
  <2>2. \A k \in 0 .. n : f[k] = IF k = 0 THEN <<>> ELSE f[k - 1] \o InFile(MaxFiles + 1 - k)
    BY <1>2, <1>3, <2>1
  <2>3. f = [k \in 0 .. n |-> f[k]]
    BY <1>2
  <2> QED BY <2>2, <2>3
<1>5. Old(CHOOSE g : Old(g))
  <2> HIDE DEF Old
  <2> QED BY <1>4
<1> DEFINE g == CHOOSE h : Old(h)
<1>6. History = g[n] \o buf
  BY DEF History
<1>7. g = [k \in 0 .. n |-> IF k = 0 THEN <<>> ELSE g[k - 1] \o InFile(MaxFiles + 1 - k)]
  <2>1. Old(g)
    BY <1>5
  <2> HIDE DEF g
  <2> QED BY <2>1
<1> HIDE DEF g
<1>8. \A i \in 0 .. n : g[i] = f[i]
  <2> DEFINE S == {i \in 0 .. n : g[i] = f[i]}
  <2>1. 0 \in S
    BY <1>1, <1>2, <1>7
  <2>2. \A i \in 1 .. n : i - 1 \in S => i \in S
    <3> TAKE i \in 1 .. n
    <3>1. i \in 0 .. n /\ i - 1 \in 0 .. n /\ i # 0
      BY <1>1
    <3>2. g[i] = g[i - 1] \o InFile(MaxFiles + 1 - i)
      BY <1>7, <3>1
    <3> QED BY <1>3, <3>1, <3>2
  <2> HIDE DEF S
  <2>3. 0 .. n \subseteq S
    <3> HIDE DEF n
    <3> QED BY <1>1, <2>1, <2>2, UpTo
  <2> USE DEF S
  <2> QED BY <2>3
<1>9. History = f[n] \o buf
  <2>1. n \in 0 .. n
    BY <1>1
  <2> QED BY <1>6, <1>8, <2>1
<1> QED BY <1>2, <1>3, <1>9

LEMMA AppendedOrder ==
  ASSUME NEW c \in Seq(Msgs), NEW d \in Seq(Msgs)
  PROVE  /\ \A m : InOne(c \o d, m) <=> InOne(c, m) \/ InOne(d, m)
         /\ Increasing(c) /\ Increasing(d) /\ Below(c, d) => Increasing(c \o d)
<1> DEFINE l == Len(c)
           k == Len(d)
           e == c \o d
<1>1. /\ l \in Nat /\ k \in Nat /\ Len(e) = l + k
      /\ \A i \in 1 .. l : e[i] = c[i] /\ i \in 1 .. l + k
      /\ \A i \in 1 .. k : e[l + i] = d[i] /\ l + i \in 1 .. l + k
      /\ \A i \in 1 .. l + k : i \in 1 .. l \/ (i - l \in 1 .. k /\ i = l + (i - l))
  <2>1. l \in Nat /\ k \in Nat /\ Len(e) = l + k
    OBVIOUS
  <2>2. \A i \in 1 .. l : e[i] = c[i]
    OBVIOUS
  <2>3. \A i \in 1 .. k : e[l + i] = d[i]
    <3> TAKE i \in 1 .. k
    <3>1. l + i \in 1 .. l + k /\ ~(l + i <= l) /\ (l + i) - l = i
      BY <2>1
    <3>2. \A j \in 1 .. Len(c) + Len(d) : (c \o d)[j] = IF j <= Len(c) THEN c[j] ELSE d[j - Len(c)]
      OBVIOUS
    <3>3. e[l + i] = IF l + i <= l THEN c[l + i] ELSE d[(l + i) - l]
      BY <3>1, <3>2
    <3> HIDE DEF l, k, e
    <3> QED BY <3>1, <3>3
  <2> HIDE DEF l, k, e
  <2> QED BY <2>1, <2>2, <2>3
<1>2. ASSUME NEW m PROVE InOne(e, m) <=> InOne(c, m) \/ InOne(d, m)
  <2>1. InOne(e, m) <=> \E i \in 1 .. l + k : e[i] = m
    BY <1>1 DEF InOne
  <2>2. (InOne(c, m) <=> \E i \in 1 .. l : c[i] = m) /\ (InOne(d, m) <=> \E i \in 1 .. k : d[i] = m)
    BY DEF InOne
  <2> HIDE DEF l, k, e
  <2>3. ASSUME NEW i \in 1 .. l + k, e[i] = m
        PROVE  (\E j \in 1 .. l : c[j] = m) \/ \E j \in 1 .. k : d[j] = m
    <3>1. CASE i \in 1 .. l
      BY <1>1, <2>3, <3>1
    <3>2. CASE i - l \in 1 .. k /\ i = l + (i - l)
      BY <1>1, <2>3, <3>2
    <3> QED BY <1>1, <3>1, <3>2
  <2>4. ASSUME NEW i \in 1 .. l, c[i] = m PROVE \E j \in 1 .. l + k : e[j] = m
    BY <1>1, <2>4
  <2>5. ASSUME NEW i \in 1 .. k, d[i] = m PROVE \E j \in 1 .. l + k : e[j] = m
    BY <1>1, <2>5
  <2> QED BY <2>1, <2>2, <2>3, <2>4, <2>5
<1>3. ASSUME Increasing(c), Increasing(d), Below(c, d) PROVE Increasing(e)
  <2> SUFFICES ASSUME NEW i \in 1 .. l + k, NEW j \in 1 .. l + k, i < j PROVE e[i] < e[j]
    BY <1>1 DEF Increasing
  <2>1. /\ \A x, y \in 1 .. l : x < y => c[x] < c[y]
        /\ \A x, y \in 1 .. k : x < y => d[x] < d[y]
        /\ \A x \in 1 .. l, y \in 1 .. k : c[x] < d[y]
    BY <1>3 DEF Increasing, Below
  <2> HIDE DEF l, k, e
  <2>2. CASE i \in 1 .. l /\ j \in 1 .. l
    BY <1>1, <2>1, <2>2
  <2>3. CASE i \in 1 .. l /\ j - l \in 1 .. k /\ j = l + (j - l)
    <3>1. e[i] = c[i] /\ e[j] = d[j - l]
      BY <1>1, <2>3
    <3> QED BY <2>1, <2>3, <3>1
  <2>4. CASE i - l \in 1 .. k /\ i = l + (i - l) /\ j - l \in 1 .. k /\ j = l + (j - l)
    <3>1. e[i] = d[i - l] /\ e[j] = d[j - l] /\ i - l < j - l
      BY <1>1, <2>4
    <3> QED BY <2>1, <2>4, <3>1
  <2>5. ~(i - l \in 1 .. k /\ j \in 1 .. l)
    BY <1>1
  <2> QED BY <1>1, <2>2, <2>3, <2>4, <2>5
<1> QED BY <1>2, <1>3

LEMMA HistoryOrder ==
  ASSUME Rot, Ordered(View)
  PROVE  /\ History \in Seq(Nat) /\ Increasing(History)
         /\ \A m : InOne(History, m) => Has(View, m)
         /\ \A m : Has(View, m) => InOne(History, m)
<1> DEFINE v == View
           n == MaxFiles + 1
           File(k) == IF k \in DOMAIN v THEN v[k] ELSE <<>>
<1>0. /\ FileOK /\ DiskOK(v) /\ DOMAIN v = DOMAIN disk /\ DOMAIN v \subseteq 0 .. MaxFiles
      /\ MaxFiles \in Nat /\ n \in Nat /\ buf \in Seq(Msgs) /\ <<>> \in Seq(Msgs)
      /\ (fd_ # 0 => buf = <<>>) /\ fd_ \in {0, NoFile} /\ (fd_ = 0 => 0 \in DOMAIN disk)
  BY ViewIs, RotatingAssumption, EmptySeqIn DEF Rot, FileOK, Places, Msgs
<1>a. \A x \in DOMAIN v : x \in Nat
  BY <1>0
<1>1. PICK f \in [0 .. MaxFiles + 1 -> Seq(Msgs)] :
        /\ f[0] = <<>> /\ History = f[MaxFiles + 1] \o buf
        /\ \A i \in 1 .. MaxFiles + 1 : f[i] = f[i - 1] \o InFile(MaxFiles + 1 - i)
  <2>1. FileOK
    BY <1>0
  <2> QED BY <2>1, HistoryIs
<1>b. /\ f \in [0 .. n -> Seq(Msgs)] /\ f[0] = <<>> /\ History = f[n] \o buf
      /\ \A i \in 1 .. n : f[i] = f[i - 1] \o InFile(n - i)
  <2>1. n = MaxFiles + 1
    OBVIOUS
  <2> HIDE DEF n
  <2>2. f \in [0 .. n -> Seq(Msgs)] /\ f[0] = <<>>
    BY <1>1, <2>1
  <2>3. History = f[n] \o buf
    BY <1>1, <2>1
  <2>4. \A i \in 1 .. n : f[i] = f[i - 1] \o InFile(n - i)
    <3>1. \A i \in 1 .. n : MaxFiles + 1 - i = n - i
      BY <1>0, <2>1
    <3> QED BY <1>1, <2>1, <3>1
  <2> QED BY <2>2, <2>3, <2>4
<1>2. \A k : File(k) \in Seq(Msgs) /\ InFile(k) \in Seq(Msgs)
  <2>1. \A k \in DOMAIN v : v[k] \in Seq(Msgs) /\ disk[k] \in Seq(Msgs)
    BY <1>0 DEF DiskOK, FileOK, Msgs
  <2> QED BY <1>0, <2>1 DEF InFile
<1>3. (\A k \in 1 .. MaxFiles : File(k) = InFile(k)) /\ File(0) = InFile(0) \o buf
  <2>1. \A k \in DOMAIN disk : v[k] = IF k = fd_ THEN disk[k] \o buf ELSE disk[k]
    BY <1>0, ViewIs
  <2>2. \A k \in 1 .. MaxFiles : k # fd_
    <3>1. NoFile \notin 1 .. MaxFiles
      BY NoFileName, <1>0
    <3> QED BY <1>0, <3>1
  <2>3. \A c \in Seq(Msgs) : c \o <<>> = c
    OBVIOUS
  <2>4. \A k \in 1 .. MaxFiles : File(k) = InFile(k)
    BY <1>0, <2>1, <2>2 DEF InFile
  <2>5. File(0) = InFile(0) \o buf
    <3>1. CASE fd_ = 0
      BY <1>0, <2>1, <3>1 DEF InFile
    <3>2. CASE fd_ # 0
      <4>1. buf = <<>> /\ InFile(0) \o <<>> = InFile(0)
        BY <1>0, <1>2, <2>3, <3>2
      <4>2. File(0) = InFile(0)
        BY <1>0, <2>1, <3>2 DEF InFile
      <4> QED BY <4>1, <4>2
    <3> QED BY <3>1, <3>2
  <2> QED BY <2>4, <2>5
<1> DEFINE h == [i \in 0 .. n |-> IF i = n THEN History ELSE f[i]]
<1>4. /\ h \in [0 .. n -> Seq(Msgs)] /\ h[0] = <<>> /\ h[n] = History
      /\ \A i \in 1 .. n : h[i] = h[i - 1] \o File(n - i)
  <2>1. n \in 0 .. n /\ 0 \in 0 .. n /\ n # 0
    BY <1>0
  <2>2. History \in Seq(Msgs)
    <3>1. f[n] \in Seq(Msgs)
      BY <1>b, <2>1
    <3> HIDE DEF n
    <3> QED BY <1>0, <1>b, <3>1
  <2>3. \A i \in 1 .. n : h[i] = h[i - 1] \o File(n - i)
    <3> TAKE i \in 1 .. n
    <3>1. i \in 0 .. n /\ i - 1 \in 0 .. n /\ i - 1 # n
      BY <1>0
    <3>2. h[i - 1] = f[i - 1] /\ f[i - 1] \in Seq(Msgs)
      BY <1>b, <3>1
    <3>3. CASE i = n
      <4>1. h[i] = (f[i - 1] \o InFile(0)) \o buf
        <5>1. h[i] = History /\ History = f[i] \o buf /\ f[i] = f[i - 1] \o InFile(n - i)
          BY <1>b, <3>1, <3>3
        <5>2. n - i = 0
          BY <1>0, <3>3
        <5> HIDE DEF h, n
        <5> QED BY <5>1, <5>2
      <4>2. (f[i - 1] \o InFile(0)) \o buf = f[i - 1] \o (InFile(0) \o buf)
        <5>1. InFile(0) \in Seq(Msgs) /\ buf \in Seq(Msgs)
          BY <1>0, <1>2
        <5> HIDE DEF h, n
        <5>2. \A s, t, u \in Seq(Msgs) : (s \o t) \o u = s \o (t \o u)
          BY ConcatAssociative
        <5> QED BY <3>2, <5>1, <5>2
      <4>3. n - i = 0
        BY <1>0, <3>3
      <4> HIDE DEF File, h, n
      <4> QED BY <1>3, <3>2, <4>1, <4>2, <4>3
    <3>4. CASE i # n
      <4>1. h[i] = f[i - 1] \o InFile(n - i)
        BY <1>b, <3>1, <3>4
      <4>2. n - i \in 1 .. MaxFiles
        BY <1>0, <3>4
      <4> HIDE DEF File, h, n
      <4> QED BY <1>3, <3>2, <4>1, <4>2
    <3> QED BY <3>3, <3>4
  <2>4. h \in [0 .. n -> Seq(Msgs)]
    BY <1>b, <2>2
  <2> QED BY <1>b, <2>1, <2>3, <2>4
<1> HIDE DEF h
<1> DEFINE From(k, m) == \E x \in DOMAIN v : x >= k /\ InOne(v[x], m)
           Good(i) == /\ Increasing(h[i])
                      /\ \A m : InOne(h[i], m) => From(n - i, m)
                      /\ \A m : From(n - i, m) => InOne(h[i], m)
           S == {i \in 0 .. n : Good(i)}
<1>5. Good(0)
  <2>1. Increasing(h[0]) /\ \A m : ~InOne(h[0], m)
    BY <1>4 DEF Increasing, InOne
  <2>2. \A m : ~From(n - 0, m)
    BY <1>0
  <2> QED BY <2>1, <2>2
<1>6. ASSUME NEW i \in 1 .. n, Good(i - 1) PROVE Good(i)
  <2> DEFINE k == n - i
             c == h[i - 1]
  <2>1. /\ k \in 0 .. MaxFiles /\ n - (i - 1) = k + 1 /\ h[i] = c \o File(k) /\ c \in Seq(Msgs)
        /\ File(k) \in Seq(Msgs)
    <3>1. i - 1 \in 0 .. n
      BY <1>0
    <3>2. k \in 0 .. MaxFiles /\ n - (i - 1) = k + 1
      BY <1>0
    <3> QED BY <1>2, <1>4, <3>1, <3>2
  <2>2. /\ Increasing(c) /\ (\A m : InOne(c, m) => From(k + 1, m))
        /\ \A m : From(k + 1, m) => InOne(c, m)
    <3> HIDE DEF From, k
    <3> QED BY <1>6, <2>1
  <2> HIDE DEF k, c, File
  <2>3. \A m : InOne(h[i], m) <=> InOne(c, m) \/ InOne(File(k), m)
    BY <2>1, AppendedOrder
  <2>4. CASE k \in DOMAIN v
    <3>1. File(k) = v[k]
      BY <2>4 DEF File
    <3>2. Increasing(v[k])
      BY <2>4 DEF Ordered
    <3>3. Below(c, v[k])
      <4> SUFFICES ASSUME NEW p \in 1 .. Len(c), NEW q \in 1 .. Len(v[k]) PROVE c[p] < v[k][q]
        BY DEF Below
      <4>1. InOne(c, c[p])
        BY DEF InOne
      <4>2. PICK x \in DOMAIN v : x >= k + 1 /\ InOne(v[x], c[p])
        BY <2>2, <4>1
      <4>3. PICK j \in 1 .. Len(v[x]) : v[x][j] = c[p]
        BY <4>2 DEF InOne
      <4>4. k < x
        BY <1>0, <2>1, <4>2
      <4> QED BY <2>4, <4>3, <4>4 DEF Ordered, Below
    <3>4. Increasing(h[i])
      BY <2>1, <2>2, <3>1, <3>2, <3>3, AppendedOrder
    <3>5. \A m : From(k, m) <=> From(k + 1, m) \/ InOne(v[k], m)
      <4>1. \A x \in DOMAIN v : x >= k <=> x >= k + 1 \/ x = k
        BY <1>a, <2>1
      <4> QED BY <2>4, <4>1
    <3> HIDE DEF From
    <3> QED BY <2>2, <2>3, <3>1, <3>4, <3>5 DEF k
  <2>5. CASE k \notin DOMAIN v
    <3>1. h[i] = c
      <4>1. File(k) = <<>>
        BY <2>5 DEF File
      <4>2. \A x \in Seq(Msgs) : x \o <<>> = x
        OBVIOUS
      <4> QED BY <2>1, <4>1, <4>2
    <3>2. \A m : (From(k, m) => From(k + 1, m)) /\ (From(k + 1, m) => From(k, m))
      <4>1. \A x \in DOMAIN v : x >= k <=> x >= k + 1
        BY <1>a, <2>1, <2>5
      <4> QED BY <4>1
    <3> HIDE DEF From
    <3> QED BY <2>2, <3>1, <3>2 DEF k
  <2> QED BY <2>4, <2>5
<1>7. Good(n)
  <2>1. 0 .. n \subseteq S
    <3>1. 0 \in S
      BY <1>0, <1>5
    <3>2. \A i \in 1 .. n : i - 1 \in S => i \in S
      <4> TAKE i \in 1 .. n
      <4>1. i \in 0 .. n
        BY <1>0
      <4> HIDE DEF Good
      <4> QED BY <1>6, <4>1
    <3> HIDE DEF S, n
    <3> QED BY <1>0, <3>1, <3>2, UpTo
  <2>2. n \in 0 .. n
    BY <1>0
  <2> HIDE DEF Good
  <2> QED BY <2>1, <2>2
<1>8. \A m : (From(n - n, m) => Has(v, m)) /\ (Has(v, m) => From(n - n, m))
  <2>1. n - n = 0 /\ \A x \in DOMAIN v : x >= 0
    BY <1>0
  <2> HIDE DEF n
  <2> QED BY <2>1 DEF Has
<1>9. History \in Seq(Nat)
  <2>1. History \in Seq(Msgs)
    BY <1>0, <1>4
  <2> QED BY <2>1 DEF Msgs
<1> HIDE DEF From, v, n
<1> QED BY <1>4, <1>7, <1>8, <1>9 DEF v

-------------------------------------------------------------------------------
(* The order of the log. *)

\* The inductive invariant of OrderKept.
InOrder == Types /\ (sink = "rotating" => Holes /\ Sorted /\ Whole)

LEMMA InOrderInit == Init => InOrder
<1> SUFFICES ASSUME Init PROVE InOrder
  OBVIOUS
<1>1. Types
  BY TypesInit
<1>2. DOMAIN View = {}
  <2>1. disk = <<>>
    BY DEF Init, FileInit
  <2> QED BY <2>1 DEF View
<1>3. \A m : ~Has(View, m)
  BY <1>2 DEF Has
<1>4. Placed = 0 /\ rpc[1] = "down"
  BY DEF Init, FileInit, RotInit, Placed
<1>5. Sorted
  BY <1>2, <1>3 DEF Sorted, Ordered
<1>6. Holes
  BY <1>4 DEF Holes
<1>7. NoGap(View, Placed) /\ AllOf(View, Placed)
  BY <1>3, <1>4 DEF NoGap, AllOf
<1> QED BY <1>1, <1>5, <1>6, <1>7 DEF InOrder, Whole

LEMMA InOrderStep == InOrder /\ [Next]_vars => InOrder'
<1> SUFFICES ASSUME InOrder, [Next]_vars PROVE InOrder'
  OBVIOUS
<1>1. Types /\ Types'
  BY TypesStep DEF InOrder
<1>2. CASE sink = "rotating" /\ sink' = sink /\ RotNext
  <2>1. Rot /\ Rot' /\ Holes /\ Sorted /\ Whole
    BY <1>1, <1>2 DEF InOrder, Types, TypeOK, Rot
  <2> QED BY <1>1, <1>2, <2>1, HolesStep, SortedStep, WholeStep DEF InOrder
<1>3. CASE sink = "daily" /\ sink' = sink
  BY <1>1, <1>3 DEF InOrder
<1>4. CASE UNCHANGED vars
  <2>1. UNCHANGED <<disk, fd_, buf, logged, fault, rpc, index, sink>>
    BY <1>4 DEF vars, fileVars, rotVars
  <2>2. View' = View /\ Placed' = Placed
    BY <2>1 DEF View, Placed
  <2>3. (Sorted => Sorted') /\ (Holes => Holes') /\ (Whole => Whole')
    BY <2>1, <2>2 DEF Sorted, Holes, Whole
  <2> QED BY <1>1, <2>1, <2>3 DEF InOrder
<1> QED BY <1>2, <1>3, <1>4, StepCases

LEMMA InOrderHolds == Spec => []InOrder
  BY InOrderInit, InOrderStep, PTL DEF Spec

\* The numbered files are the log in order.
LEMMA KeptByRotating ==
  ASSUME Rot, Sorted, Whole
  PROVE  OrderKept
<1> DEFINE h == History
           n == Len(History)
<1>0. /\ Ordered(View) /\ (\A m : Has(View, m) => m \in 1 .. Placed) /\ Placed \in Nat
      /\ MaxFiles \in Nat
  BY PlacedIs, RotatingAssumption DEF Sorted
<1>1. /\ h \in Seq(Nat) /\ n \in Nat /\ Increasing(h)
      /\ (\A i \in 1 .. n : h[i] \in Nat)
      /\ \A i, j \in 1 .. n : i < j => h[i] < h[j]
  <2>1. h \in Seq(Nat) /\ Increasing(h)
    BY <1>0, HistoryOrder
  <2> QED BY <2>1 DEF Increasing
<1>2. \A i \in 1 .. n : Has(View, h[i])
  <2>1. \A i \in 1 .. n : InOne(h, h[i])
    BY DEF InOne
  <2> QED BY <1>0, <2>1, HistoryOrder
<1>3. \A m : Has(View, m) => \E j \in 1 .. n : h[j] = m
  <2>1. \A m : Has(View, m) => InOne(h, m)
    BY <1>0, HistoryOrder
  <2> QED BY <2>1 DEF InOne
<1>a. h # <<>> => 1 \in 1 .. n /\ n \in 1 .. n
  BY <1>1
<1> SUFFICES ASSUME TRUE
             PROVE  /\ \A i \in 2 .. n : h[i - 1] < h[i]
                    /\ ~fault =>
                         /\ \A i \in 2 .. n : h[i] = h[i - 1] + 1
                         /\ (RotAt("idle") \/ RotAt("down")) /\ h # <<>> => h[n] = Len(logged)
                         /\ RotAt("idle") /\ h # <<>> /\ h[1] > 1 => MaxFiles \in DOMAIN disk
  BY DEF OrderKept
<1> HIDE DEF h, n
<1>4. ASSUME NEW i \in 2 .. n PROVE h[i - 1] < h[i] /\ i \in 1 .. n /\ i - 1 \in 1 .. n
  <2>1. i \in 1 .. n /\ i - 1 \in 1 .. n /\ i - 1 < i
    BY <1>1
  <2> QED BY <1>1, <2>1
<1>5. ASSUME ~fault PROVE NoGap(View, Placed)
  BY <1>5 DEF Whole
<1>6. ASSUME ~fault, NEW i \in 2 .. n PROVE h[i] = h[i - 1] + 1
  <2>1. h[i - 1] < h[i] /\ i \in 1 .. n /\ i - 1 \in 1 .. n /\ h[i] \in Nat /\ h[i - 1] \in Nat
    BY <1>1, <1>4
  <2>2. SUFFICES ASSUME h[i - 1] + 1 < h[i] PROVE FALSE
    BY <2>1
  <2>3. h[i] \in 1 .. Placed /\ Has(View, h[i - 1])
    BY <1>0, <1>2, <2>1
  <2>4. h[i - 1] + 1 \in h[i - 1] .. Placed
    BY <1>0, <2>1, <2>2, <2>3
  <2>5. Has(View, h[i - 1] + 1)
    BY <1>5, <1>6, <2>3, <2>4 DEF NoGap
  <2>6. PICK j \in 1 .. n : h[j] = h[i - 1] + 1
    BY <1>3, <2>5
  <2>7. CASE j < i - 1
    BY <1>1, <2>1, <2>6, <2>7
  <2>8. CASE j = i - 1
    BY <2>1, <2>6, <2>8
  <2>9. CASE j = i
    BY <2>1, <2>2, <2>6, <2>9
  <2>10. CASE i < j
    <3>1. h[i] < h[j]
      BY <1>1, <2>1, <2>10
    <3> QED BY <2>1, <2>2, <2>6, <3>1
  <2> QED BY <1>1, <2>1, <2>7, <2>8, <2>9, <2>10
<1>7. ASSUME ~fault, RotAt("idle") \/ RotAt("down"), h # <<>> PROVE h[n] = Len(logged)
  <2>1. Placed = Len(logged)
    BY <1>7 DEF Rot, Places, RotAt, Placed
  <2>2. n \in 1 .. n /\ h[n] \in 1 .. Placed /\ Has(View, h[n])
    BY <1>0, <1>2, <1>7, <1>a
  <2>3. Has(View, Placed)
    <3>1. Placed \in h[n] .. Placed
      BY <1>0, <2>2
    <3> QED BY <1>5, <1>7, <2>2, <3>1 DEF NoGap
  <2>4. PICK j \in 1 .. n : h[j] = Placed
    BY <1>3, <2>3
  <2>5. j = n \/ h[j] < h[n]
    BY <1>1, <2>2
  <2> QED BY <1>0, <2>1, <2>2, <2>4, <2>5
<1>8. ASSUME ~fault, RotAt("idle"), h # <<>>, h[1] > 1 PROVE MaxFiles \in DOMAIN disk
  <2>1. 1 \in 1 .. n /\ h[1] \in 1 .. Placed
    BY <1>0, <1>2, <1>8, <1>a
  <2>2. ASSUME AllOf(View, Placed) PROVE FALSE
    <3>1. 1 \in 1 .. Placed
      BY <1>0, <2>1
    <3>2. PICK j \in 1 .. n : h[j] = 1
      BY <1>3, <2>2, <3>1 DEF AllOf
    <3>3. j = 1 \/ h[1] < h[j]
      BY <1>1, <2>1
    <3> QED BY <1>1, <1>8, <2>1, <3>2, <3>3
  <2>3. MaxFiles \in DOMAIN View
    BY <1>8, <2>2 DEF Whole, RotAt
  <2> QED BY <2>3 DEF View
<1> QED BY <1>4, <1>6, <1>7, <1>8

\* The files, read from the highest number down, are the log in order; with no
\* failure nothing is missing inside it, it ends with the last message, and it
\* starts late only when all the files are there.
THEOREM OrderKeptHolds == Spec => []OrderKept
<1>1. InOrder => OrderKept
  <2> SUFFICES ASSUME InOrder PROVE OrderKept
    OBVIOUS
  <2>1. CASE sink = "rotating"
    BY <2>1, KeptByRotating DEF InOrder, Types, TypeOK, Rot
  <2>2. CASE sink = "daily"
    <3>1. FileOK /\ logged = <<>> /\ rpc[1] = "down"
      BY <2>2 DEF InOrder, Types, TypeOK, Unused, Opened
    <3>2. Msgs = {} /\ buf \in Seq(Msgs)
      BY <3>1 DEF Msgs, FileOK
    <3>3. History \in Seq(Msgs)
      <4>1. PICK f \in [0 .. MaxFiles + 1 -> Seq(Msgs)] :
              /\ f[0] = <<>> /\ History = f[MaxFiles + 1] \o buf
              /\ \A i \in 1 .. MaxFiles + 1 : f[i] = f[i - 1] \o InFile(MaxFiles + 1 - i)
        BY <3>1, HistoryIs
      <4>2. f[MaxFiles + 1] \in Seq(Msgs)
        BY RotatingAssumption
      <4> QED BY <3>2, <4>1, <4>2
    <3>4. History = <<>> /\ Len(History) = 0
      BY <3>2, <3>3
    <3> QED BY <3>1, <3>4 DEF OrderKept, RotAt
  <2> QED BY <2>1, <2>2 DEF InOrder, Types, TypeOK
<1> QED BY <1>1, InOrderHolds, PTL

-------------------------------------------------------------------------------
(* Retention: the queue of the names, as the sequence it holds. *)

QP == INSTANCE CircularQProofs WITH Blank <- NoFile

Slots == Names \cup {NoFile}

\* The queue of the names.
Qs == QP!Queues(DailyFiles, Slots)

LEMMA QueueSame ==
  /\ \A q, x : Q!PushBack(q, x) = QP!PushBack(q, x)
  /\ \A q : Q!Full(q) <=> QP!Full(q)
  /\ \A q : Q!MoveFront(q) = QP!MoveFront(q)
  /\ \A q : Q!Front(q) = QP!Front(q)
  /\ \A q : Q!IsEmpty(q) <=> QP!IsEmpty(q)
  /\ \A n : Q!NewQ(n) = QP!NewQ(n)
  BY DEF Q!PushBack, QP!PushBack, Q!Full, QP!Full, Q!MoveFront, QP!MoveFront, Q!PopFront, QP!PopFront,
         Q!Front, QP!Front, Q!IsEmpty, QP!IsEmpty, Q!NewQ, QP!NewQ

\* The names in a queue, the oldest first.
Names_(q) == QP!Contents(q)

LEMMA NewNames ==
  ASSUME DailyFiles > 0
  PROVE  Q!NewQ(DailyFiles) \in Qs /\ Names_(Q!NewQ(DailyFiles)) = <<>>
<1>1. DailyFiles \in Nat \ {0} /\ NoFile \in Slots
  BY DailyAssumption DEF Slots
<1> QED BY <1>1, QueueSame, QP!NewQIs DEF Qs, Names_

LEMMA NamesAre ==
  ASSUME DailyFiles > 0, NEW q \in Qs
  PROVE  /\ Names_(q) \in Seq(Slots) /\ Len(Names_(q)) <= DailyFiles
         /\ Q!Full(q) <=> Len(Names_(q)) = DailyFiles
<1>1. DailyFiles \in Nat \ {0}
  BY DailyAssumption
<1>2. QP!Size(q) \in 0 .. DailyFiles
  BY <1>1, QP!SizeIs DEF Qs
<1>3. Names_(q) \in Seq(Slots) /\ Len(Names_(q)) = QP!Size(q)
  BY <1>1, QP!ContentsIs DEF Qs, Names_
<1>4. QP!Full(q) <=> QP!Size(q) = DailyFiles
  BY <1>1, QP!FullIs DEF Qs
<1> QED BY <1>1, <1>2, <1>3, <1>4, QueueSame

LEMMA NamePushed ==
  ASSUME DailyFiles > 0, NEW q \in Qs, NEW x \in Names
  PROVE  /\ Q!PushBack(q, x) \in Qs
         /\ ~Q!Full(q) => Names_(Q!PushBack(q, x)) = Append(Names_(q), x)
<1>1. DailyFiles \in Nat \ {0} /\ x \in Slots
  BY DailyAssumption DEF Slots
<1>2. QP!PushBack(q, x) \in Qs
  BY <1>1, QP!PushBackIs DEF Qs
<1>3. ~QP!Full(q) => QP!Contents(QP!PushBack(q, x)) = Append(QP!Contents(q), x)
  BY <1>1, QP!PushBackContents DEF Qs
<1> QED BY <1>2, <1>3, QueueSame DEF Names_

LEMMA NameMoved ==
  ASSUME DailyFiles > 0, NEW q \in Qs, Q!Full(q)
  PROVE  /\ Q!MoveFront(q) \in Qs /\ Names_(Q!MoveFront(q)) = Tail(Names_(q))
         /\ Q!Front(q) = Head(Names_(q))
<1>1. DailyFiles \in Nat \ {0} /\ NoFile \in Slots
  BY DailyAssumption DEF Slots
<1>2. ~QP!IsEmpty(q)
  <2>1. QP!Size(q) = DailyFiles
    BY <1>1, QueueSame, QP!FullIs DEF Qs
  <2> QED BY <1>1, <2>1, QP!FullIs DEF Qs
<1>3. /\ QP!MoveFront(q) \in Qs /\ QP!Contents(QP!MoveFront(q)) = Tail(QP!Contents(q))
      /\ QP!Front(q) = Head(QP!Contents(q))
  BY <1>1, <1>2, QP!MoveFrontIs DEF Qs
<1> QED BY <1>3, QueueSame DEF Names_

-------------------------------------------------------------------------------
(* Sets of days. *)

\* The days in a sequence.
Elems(c) == {c[i] : i \in 1 .. Len(c)}

LEMMA ElemsCount ==
  ASSUME NEW c \in Seq(Nat), Increasing(c)
  PROVE  IsFiniteSet(Elems(c)) /\ Cardinality(Elems(c)) = Len(c)
<1> DEFINE f == [i \in 1 .. Len(c) |-> c[i]]
<1>1. \A i \in 1 .. Len(c) : c[i] \in Nat /\ c[i] \in Elems(c)
  BY DEF Elems
<1>2. f \in [1 .. Len(c) -> Elems(c)]
  BY <1>1
<1>3. \A i, j \in 1 .. Len(c) : f[i] = f[j] => i = j
  <2> TAKE i, j \in 1 .. Len(c)
  <2>1. i < j => c[i] < c[j]
    BY DEF Increasing
  <2>2. j < i => c[j] < c[i]
    BY DEF Increasing
  <2> QED BY <1>1, <2>1, <2>2
<1>4. \A x \in Elems(c) : \E i \in 1 .. Len(c) : f[i] = x
  BY DEF Elems
<1>5. f \in Bijection(1 .. Len(c), Elems(c))
  <2> HIDE DEF f
  <2> QED BY <1>2, <1>3, <1>4 DEF Bijection, Injection, Surjection, IsInjective
<1>6. IsFiniteSet(1 .. Len(c)) /\ Cardinality(1 .. Len(c)) = Len(c)
  <2> DEFINE k == Len(c)
  <2>1. k \in Nat /\ 1 \in Int /\ k \in Int
    OBVIOUS
  <2> HIDE DEF k
  <2>2. IsFiniteSet(1 .. k) /\ Cardinality(1 .. k) = k
    BY <2>1, FS_Interval
  <2> QED BY <2>2 DEF k
<1> QED BY <1>5, <1>6, FS_Bijection DEF ExistsBijection

\* Appending what is greater than the rest.
LEMMA ElemsAppended ==
  ASSUME NEW c \in Seq(Nat), Increasing(c), NEW x \in Nat, \A y \in Elems(c) : y < x
  PROVE  Increasing(Append(c, x)) /\ Elems(Append(c, x)) = Elems(c) \cup {x}
<1> DEFINE d == Append(c, x)
           n == Len(c)
<1>1. /\ n \in Nat /\ Len(d) = n + 1 /\ d[n + 1] = x
      /\ \A i \in 1 .. n : d[i] = c[i] /\ c[i] \in Elems(c) /\ c[i] \in Nat
  BY DEF Elems
<1>2. \A i, j \in 1 .. n : i < j => c[i] < c[j]
  BY DEF Increasing
<1>3. Elems(c) = {c[i] : i \in 1 .. n} /\ Elems(d) = {d[i] : i \in 1 .. n + 1}
  BY <1>1 DEF Elems
<1> HIDE DEF d, n
<1>4. \A i \in 1 .. n + 1 : i = n + 1 \/ i \in 1 .. n
  BY <1>1
<1>5. \A i, j \in 1 .. n + 1 : i < j => d[i] < d[j]
  BY <1>1, <1>2, <1>4
<1>6. Elems(d) = Elems(c) \cup {x}
  <2>1. \A i \in 1 .. n + 1 : d[i] \in Elems(c) \cup {x}
    BY <1>1, <1>4
  <2>2. \A i \in 1 .. n : i \in 1 .. n + 1
    BY <1>1
  <2>3. n + 1 \in 1 .. n + 1
    BY <1>1
  <2> QED BY <1>1, <1>3, <2>1, <2>2, <2>3
<1>7. Increasing(d)
  BY <1>1, <1>5 DEF Increasing
<1> QED BY <1>6, <1>7 DEF d

\* Dropping the first.
LEMMA ElemsTail ==
  ASSUME NEW c \in Seq(Nat), Increasing(c), c # <<>>
  PROVE  /\ Tail(c) \in Seq(Nat) /\ Len(Tail(c)) = Len(c) - 1 /\ Increasing(Tail(c))
         /\ Head(c) \in Elems(c) /\ Elems(Tail(c)) = Elems(c) \ {Head(c)}
         /\ \A y \in Elems(Tail(c)) : Head(c) < y
<1> DEFINE d == Tail(c)
           n == Len(c)
<1>1. /\ n \in Nat \ {0} /\ d \in Seq(Nat) /\ Len(d) = n - 1 /\ Head(c) = c[1]
      /\ \A i \in 1 .. n - 1 : d[i] = c[i + 1]
      /\ \A i \in 1 .. n : c[i] \in Nat
  OBVIOUS
<1>2. \A i, j \in 1 .. n : i < j => c[i] < c[j]
  BY DEF Increasing
<1>3. Elems(c) = {c[i] : i \in 1 .. n} /\ Elems(d) = {d[i] : i \in 1 .. n - 1}
  BY <1>1 DEF Elems
<1> HIDE DEF d, n
<1>4. \A i \in 1 .. n - 1 : i + 1 \in 1 .. n /\ 1 < i + 1 /\ i \in Nat
  BY <1>1
<1>5. 1 \in 1 .. n /\ \A i \in 1 .. n : i = 1 \/ (i - 1 \in 1 .. n - 1 /\ i = (i - 1) + 1)
  BY <1>1
<1>6. Increasing(d)
  <2>1. ASSUME NEW i \in 1 .. n - 1, NEW j \in 1 .. n - 1, i < j PROVE d[i] < d[j]
    <3>1. i + 1 < j + 1
      BY <2>1
    <3> QED BY <1>1, <1>2, <1>4, <3>1
  <2> QED BY <1>1, <2>1 DEF Increasing
<1>7. \A y \in Elems(d) : y \in Elems(c) /\ c[1] < y /\ y \in Nat
  <2> TAKE y \in Elems(d)
  <2>1. PICK i \in 1 .. n - 1 : d[i] = y
    BY <1>3
  <2>2. y = c[i + 1]
    BY <1>1, <2>1
  <2> QED BY <1>1, <1>2, <1>3, <1>4, <1>5, <2>2
<1>8. \A y \in Elems(c) : y = c[1] \/ y \in Elems(d)
  <2> TAKE y \in Elems(c)
  <2>1. PICK i \in 1 .. n : c[i] = y
    BY <1>3
  <2>2. CASE i = 1
    BY <2>1, <2>2
  <2>3. CASE i - 1 \in 1 .. n - 1 /\ i = (i - 1) + 1
    <3>1. d[i - 1] = c[i]
      BY <1>1, <2>3
    <3> QED BY <1>3, <2>1, <2>3, <3>1
  <2> QED BY <1>5, <2>2, <2>3
<1>9. c[1] \in Elems(c) /\ c[1] \in Nat
  BY <1>1, <1>3, <1>5
<1>10. Elems(d) = Elems(c) \ {c[1]}
  BY <1>7, <1>8, <1>9
<1> QED BY <1>1, <1>6, <1>7, <1>9, <1>10 DEF d, n

\* Recent, for any set of days.
Later(M, d) == {e \in M : e > d}

LastOf(M) == {d \in M : Cardinality(Later(M, d)) < DailyFiles}

LEMMA RecentIs == Recent = LastOf(made)
  BY DEF Recent, LastOf, Later

\* A new day takes the place of an older one.
LEMMA LastOfGrown ==
  ASSUME NEW M, M \subseteq Nat, IsFiniteSet(M), NEW d
  PROVE  LastOf(M \cup {d}) \subseteq LastOf(M) \cup {d}
<1> SUFFICES ASSUME NEW e \in LastOf(M \cup {d}), e # d PROVE e \in LastOf(M)
  OBVIOUS
<1> DEFINE A == Later(M \cup {d}, e)
           B == Later(M, e)
<1>1. IsFiniteSet(A)
  <2>1. IsFiniteSet(M \cup {d})
    BY FS_AddElement
  <2>2. A \in SUBSET (M \cup {d})
    BY DEF Later
  <2> QED BY <2>1, <2>2, FS_Subset
<1>2. B \in SUBSET A
  BY DEF Later
<1>3. Cardinality(B) <= Cardinality(A) /\ Cardinality(A) \in Nat /\ IsFiniteSet(B)
  <2> HIDE DEF A, B
  <2> QED BY <1>1, <1>2, FS_Subset, FS_CardinalityType
<1>4. Cardinality(B) \in Nat
  <2> HIDE DEF A, B
  <2> QED BY <1>3, FS_CardinalityType
<1>5. Cardinality(A) < DailyFiles /\ e \in M
  BY DEF LastOf
<1>6. Cardinality(B) < DailyFiles
  <2> HIDE DEF A, B
  <2> QED BY <1>3, <1>4, <1>5, DailyAssumption
<1> QED BY <1>5, <1>6 DEF LastOf

\* A day is none of the last when so many came after it.
LEMMA NotOfTheLast ==
  ASSUME NEW M, IsFiniteSet(M), NEW d, NEW c \in Seq(Nat), Increasing(c), Len(c) >= DailyFiles,
         Elems(c) \subseteq Later(M, d)
  PROVE  d \notin LastOf(M)
<1>1. IsFiniteSet(Later(M, d))
  <2>1. Later(M, d) \in SUBSET M
    BY DEF Later
  <2> QED BY <2>1, FS_Subset
<1>2. Cardinality(Elems(c)) = Len(c) /\ Len(c) \in Nat
  BY ElemsCount
<1>3. Cardinality(Elems(c)) <= Cardinality(Later(M, d)) /\ Cardinality(Later(M, d)) \in Nat
  <2>1. Elems(c) \in SUBSET Later(M, d)
    OBVIOUS
  <2> QED BY <1>1, <2>1, FS_Subset, FS_CardinalityType
<1> QED BY <1>2, <1>3, DailyAssumption DEF LastOf

\* It is one of the last when all that came after it are among so few.
LEMMA OfTheLast ==
  ASSUME NEW M, NEW d \in M, NEW c \in Seq(Nat), Increasing(c), Len(c) <= DailyFiles,
         d \in Elems(c), Later(M, d) \subseteq Elems(c) \ {d}
  PROVE  d \in LastOf(M)
<1>1. IsFiniteSet(Elems(c)) /\ Cardinality(Elems(c)) = Len(c) /\ Len(c) \in Nat
  BY ElemsCount
<1>2. IsFiniteSet(Elems(c) \ {d}) /\ Cardinality(Elems(c) \ {d}) = Len(c) - 1
  BY <1>1, FS_RemoveElement
<1>3. Cardinality(Later(M, d)) <= Len(c) - 1 /\ Cardinality(Later(M, d)) \in Nat
  <2>1. Later(M, d) \in SUBSET (Elems(c) \ {d})
    OBVIOUS
  <2> QED BY <1>2, <2>1, FS_Subset, FS_CardinalityType
<1> QED BY <1>1, <1>3, DailyAssumption DEF LastOf

-------------------------------------------------------------------------------
(* The names found by the constructor. *)

\* Going back from today, a file of each day until one is missing.
FilesBack(n) ==
  /\ n \in 0 .. DailyFiles
  /\ \A i \in 0 .. n - 1 : FileOf(now) - i \in DOMAIN disk
  /\ n = DailyFiles \/ FileOf(now) - n \notin DOMAIN disk

LEMMA FoundSome ==
  ASSUME DailyOK
  PROVE  \E n : FilesBack(n)
<1> DEFINE S == {k \in 0 .. DailyFiles : k = DailyFiles \/ FileOf(now) - k \notin DOMAIN disk}
<1>1. DailyFiles \in Nat /\ FileOf(now) \in Nat
  BY DailyAssumption, FileOfIs DEF DailyOK
<1>2. S \subseteq Nat /\ DailyFiles \in S
  BY <1>1
<1>3. PICK n \in S : \A k \in S : n <= k
  <2> HIDE DEF S
  <2> QED BY <1>2, LeastNat
<1>4. ASSUME NEW i \in 0 .. n - 1 PROVE FileOf(now) - i \in DOMAIN disk
  <2>1. i \in 0 .. DailyFiles /\ i # DailyFiles /\ ~(n <= i)
    BY <1>1, <1>3
  <2> QED BY <1>3, <2>1
<1> QED BY <1>1, <1>3, <1>4 DEF FilesBack

LEMMA InitQueueIs ==
  ASSUME DailyOK, DailyFiles > 0, DOMAIN disk \subseteq Names
  PROVE  \E n : /\ FilesBack(n) /\ InitQueue \in Qs
                /\ Len(Names_(InitQueue)) = n
                /\ \A i \in 1 .. n : Names_(InitQueue)[i] = FileOf(now) - n + i
<1> DEFINE n == CHOOSE k \in 0 .. DailyFiles :
                  /\ \A i \in 0 .. k - 1 : FileOf(now) - i \in DOMAIN disk
                  /\ k = DailyFiles \/ FileOf(now) - k \notin DOMAIN disk
           Made(q) == q = [i \in 0 .. n |-> IF i = 0 THEN Q!NewQ(DailyFiles)
                                            ELSE Q!PushBack(q[i - 1], FileOf(now) - n + i)]
           q == CHOOSE p : Made(p)
           step == [i \in 1 .. n |-> [p \in Qs |-> Q!PushBack(p, FileOf(now) - n + i)]]
<1>1. FilesBack(n)
  BY FoundSome DEF FilesBack
<1>2. InitQueue = q[n]
  BY DEF InitQueue
<1>a. /\ n \in Nat /\ n <= DailyFiles /\ DailyFiles \in Nat /\ FileOf(now) \in Nat
      /\ \A i \in 0 .. n - 1 : FileOf(now) - i \in Names
  BY <1>1, DailyAssumption, FileOfIs DEF FilesBack, DailyOK
<1> HIDE DEF n
<1>3. \A i \in 1 .. n : FileOf(now) - n + i \in Names
  <2> TAKE i \in 1 .. n
  <2>1. n - i \in 0 .. n - 1 /\ FileOf(now) - (n - i) = FileOf(now) - n + i
    BY <1>a
  <2> QED BY <1>a, <2>1
<1>4. step \in Steps(n, Qs) /\ Q!NewQ(DailyFiles) \in Qs
  <2>1. \A i \in 1 .. n : [p \in Qs |-> Q!PushBack(p, FileOf(now) - n + i)] \in [Qs -> Qs]
    BY <1>3, NamePushed
  <2> QED BY <2>1, NewNames DEF Steps
<1>5. PICK f \in [0 .. n -> Qs] : f[0] = Q!NewQ(DailyFiles) /\ \A i \in 1 .. n : f[i] = step[i][f[i - 1]]
  <2>1. Chains(n, Qs, Q!NewQ(DailyFiles), step) # {}
    <3> HIDE DEF step
    <3> QED BY <1>4, <1>a, Iterated
  <2> HIDE DEF step
  <2> QED BY <2>1 DEF Chains
<1>6. \A i \in 1 .. n : f[i - 1] \in Qs /\ f[i] = Q!PushBack(f[i - 1], FileOf(now) - n + i)
  <2> TAKE i \in 1 .. n
  <2>1. f[i - 1] \in Qs
    <3>1. i - 1 \in 0 .. n
      BY <1>a
    <3> HIDE DEF step
    <3> QED BY <1>5, <3>1
  <2>2. f[i] = step[i][f[i - 1]]
    <3> HIDE DEF step
    <3> QED BY <1>5
  <2> QED BY <2>1, <2>2
<1>7. Made(f)
  <2>1. \A i \in 0 .. n : i # 0 => i \in 1 .. n
    BY <1>a
  <2>2. \A i \in 0 .. n : f[i] = IF i = 0 THEN Q!NewQ(DailyFiles)
                                 ELSE Q!PushBack(f[i - 1], FileOf(now) - n + i)
    <3> HIDE DEF step
    <3> QED BY <1>5, <1>6, <2>1
  <2>3. f = [i \in 0 .. n |-> f[i]]
    BY <1>5
  <2> QED BY <2>2, <2>3
<1>8. Made(q)
  <2> HIDE DEF Made
  <2> QED BY <1>7
<1>9. q = [i \in 0 .. n |-> IF i = 0 THEN Q!NewQ(DailyFiles)
                            ELSE Q!PushBack(q[i - 1], FileOf(now) - n + i)]
  <2> HIDE DEF q
  <2> QED BY <1>8
<1> HIDE DEF q, step
<1>10. \A i \in 0 .. n : q[i] = f[i]
  <2> DEFINE S == {i \in 0 .. n : q[i] = f[i]}
  <2>1. 0 \in S
    BY <1>a, <1>5, <1>9
  <2>2. \A i \in 1 .. n : i - 1 \in S => i \in S
    <3> TAKE i \in 1 .. n
    <3>1. i \in 0 .. n /\ i - 1 \in 0 .. n /\ i # 0
      BY <1>a
    <3>2. q[i] = Q!PushBack(q[i - 1], FileOf(now) - n + i)
      BY <1>9, <3>1
    <3> QED BY <1>6, <3>1, <3>2
  <2> HIDE DEF S
  <2>3. 0 .. n \subseteq S
    BY <1>a, <2>1, <2>2, UpTo
  <2> USE DEF S
  <2> QED BY <2>3
<1> DEFINE Good(i) == /\ Len(Names_(f[i])) = i
                      /\ \A j \in 1 .. i : Names_(f[i])[j] = FileOf(now) - n + j
<1>11. Good(0)
  <2>1. Names_(f[0]) = <<>>
    BY <1>5, NewNames
  <2> QED BY <2>1
<1>12. ASSUME NEW i \in 1 .. n, Good(i - 1) PROVE Good(i)
  <2> DEFINE c == Names_(f[i - 1])
             x == FileOf(now) - n + i
  <2>1. f[i - 1] \in Qs /\ f[i] = Q!PushBack(f[i - 1], x) /\ x \in Names
    BY <1>3, <1>6
  <2>2. Len(c) = i - 1 /\ \A j \in 1 .. i - 1 : c[j] = FileOf(now) - n + j
    BY <1>12
  <2>3. c \in Seq(Slots) /\ ~Q!Full(f[i - 1])
    <3>1. i - 1 # DailyFiles
      BY <1>a
    <3> QED BY <2>1, <2>2, <3>1, NamesAre
  <2>4. Names_(f[i]) = Append(c, x)
    BY <2>1, <2>3, NamePushed
  <2> DEFINE d == Append(c, x)
  <2>5. Len(d) = i /\ d[i] = x /\ \A j \in 1 .. i - 1 : d[j] = c[j]
    BY <2>2, <2>3
  <2>6. \A j \in 1 .. i : j = i \/ j \in 1 .. i - 1
    OBVIOUS
  <2> HIDE DEF c, d
  <2> QED BY <2>2, <2>4, <2>5, <2>6 DEF d
<1>13. Good(n)
  <2> DEFINE S == {i \in 0 .. n : Good(i)}
  <2>1. 0 .. n \subseteq S
    <3>1. 0 \in S
      BY <1>a, <1>11
    <3>2. \A i \in 1 .. n : i - 1 \in S => i \in S
      <4> TAKE i \in 1 .. n
      <4>1. i \in 0 .. n
        BY <1>a
      <4> HIDE DEF Good
      <4> QED BY <1>12, <4>1
    <3> HIDE DEF S
    <3> QED BY <1>a, <3>1, <3>2, UpTo
  <2>2. n \in 0 .. n
    BY <1>a
  <2> HIDE DEF Good
  <2> QED BY <2>1, <2>2
<1>14. InitQueue = f[n] /\ f[n] \in Qs
  <2>1. n \in 0 .. n
    BY <1>a
  <2> QED BY <1>2, <1>5, <1>10, <2>1
<1> QED BY <1>1, <1>13, <1>14

-------------------------------------------------------------------------------
(* The days and the queue through the steps of the sink. *)

\* A new file was opened for each day in made, today's the last, and a later
\* day begins at the next rotation.
DaysMade ==
  /\ made \subseteq 0 .. FileOf(now) /\ DOMAIN disk \subseteq made
  /\ dpc \notin {"down", "c_rotation"} => \A d \in made : 2 * d + 2 <= rotation_tp_
  /\ dpc \in {"write_new", "delete"} => fd_ \in made /\ \A d \in made : d <= fd_

LEMMA FileOfGrows == \A s, t \in 0 .. MaxTime : s <= t => FileOf(s) <= FileOf(t)
<1> SUFFICES ASSUME NEW s \in 0 .. MaxTime, NEW t \in 0 .. MaxTime, s <= t PROVE FileOf(s) <= FileOf(t)
  OBVIOUS
<1>1. /\ 2 * FileOf(s) <= s /\ FileOf(s) \in Nat
      /\ t < 2 * FileOf(t) + 2 /\ FileOf(t) \in Nat
  BY FileOfIs
<1> DEFINE a == FileOf(s)
           b == FileOf(t)
<1> HIDE DEF a, b
<1>2. 2 * a <= s /\ a \in Nat /\ t < 2 * b + 2 /\ b \in Nat /\ s \in Int /\ t \in Int
  BY <1>1, DailyAssumption DEF a, b
<1>3. a <= b
  BY <1>2
<1> QED BY <1>3 DEF a, b

\* The message that begins a file is of a later day than any file.
LEMMA RotatesLater ==
  ASSUME Daily, DaysMade, dpc = "open"
  PROVE  /\ FileOf(time) \in 0 .. FileOf(now)
         /\ \A d \in made : d < FileOf(time)
<1>1. /\ time \in 0 .. MaxTime /\ now \in 0 .. MaxTime /\ time <= now /\ rotation_tp_ <= time
      /\ rotation_tp_ \in Int /\ MaxTime \in Nat
  BY DailyAssumption DEF Daily, DailyOK, Opened
<1>2. FileOf(time) <= FileOf(now) /\ FileOf(time) \in Nat /\ FileOf(now) \in Nat /\ time < 2 * FileOf(time) + 2
  BY <1>1, FileOfIs, FileOfGrows
<1> DEFINE a == FileOf(time)
<1>3. ASSUME NEW d \in made PROVE d < a
  <2>1. d \in Nat /\ 2 * d + 2 <= rotation_tp_ /\ time < 2 * a + 2 /\ a \in Nat
    BY <1>2 DEF DaysMade
  <2> HIDE DEF a
  <2> QED BY <1>1, <2>1
<1> QED BY <1>2, <1>3

LEMMA DaysMadeStep == RotationAt = 0 /\ Daily /\ DaysMade /\ DailyNext => DaysMade'
<1> SUFFICES ASSUME RotationAt = 0, Daily, DaysMade, DailyNext PROVE DaysMade'
  OBVIOUS
<1>0. /\ now \in 0 .. MaxTime /\ MaxTime \in Nat /\ FileOf(now) \in Nat
      /\ made \subseteq 0 .. FileOf(now) /\ FileOK /\ \A d \in made : d \in Nat /\ d <= FileOf(now)
  BY DailyAssumption, FileOfIs DEF Daily, DailyOK, DaysMade
<1>1. CASE Tick
  <2>1. now' \in 0 .. MaxTime /\ now <= now' /\ UNCHANGED <<dpc, made, disk, fd_, rotation_tp_>>
    BY <1>0, <1>1 DEF Tick
  <2>2. FileOf(now) <= FileOf(now') /\ FileOf(now') \in Nat
    BY <1>0, <2>1, FileOfGrows, FileOfIs
  <2>3. FileOf(now)' = FileOf(now')
    BY DEF FileOf
  <2>4. made \subseteq 0 .. FileOf(now')
    BY <1>0, <2>2
  <2> QED BY <2>1, <2>3, <2>4 DEF DaysMade
<1>2. CASE DailyOpen
  <2>1. DOMAIN disk' = DOMAIN disk \cup {FileOf(now)}
    BY <1>0, <1>2, OpenEnds DEF DailyOpen
  <2>2. made' = made \cup {FileOf(now)} /\ dpc' = "c_rotation" /\ FileOf(now)' = FileOf(now)
    BY <1>2 DEF DailyOpen, FileOf
  <2>3. FileOf(now) \in 0 .. FileOf(now)
    BY <1>0
  <2>4. made' \subseteq 0 .. FileOf(now)
    BY <1>0, <2>2, <2>3
  <2>5. DOMAIN disk' \subseteq made'
    BY <2>1, <2>2 DEF DaysMade
  <2> QED BY <2>2, <2>4, <2>5 DEF DaysMade
<1>3. CASE DailyOpenFails
  <2>1. DOMAIN disk' = DOMAIN disk
    BY <1>0, <1>3, OpenFailsEnds DEF DailyOpenFails
  <2>2. UNCHANGED <<dpc, made, rotation_tp_>> /\ dpc = "down" /\ FileOf(now)' = FileOf(now)
    BY <1>3 DEF DailyOpenFails, dailyVars, FileOf
  <2> QED BY <2>1, <2>2 DEF DaysMade
<1>4. CASE DailyRotation
  <2>1. /\ rotation_tp_' = 2 * FileOf(now) + 2 /\ dpc' \in {"c_queue", "idle"}
        /\ UNCHANGED <<made, disk>> /\ FileOf(now)' = FileOf(now)
    BY <1>0, <1>4, NextRotationIs DEF DailyRotation, fileVars, FileOf
  <2>2. \A d \in made : 2 * d + 2 <= 2 * FileOf(now) + 2
    <3> TAKE d \in made
    <3> DEFINE a == FileOf(now)
    <3>1. d \in Nat /\ a \in Nat /\ d <= a
      BY <1>0
    <3> HIDE DEF a
    <3>2. 2 * d + 2 <= 2 * a + 2
      BY <3>1
    <3> QED BY <3>2 DEF a
  <2> QED BY <2>1, <2>2 DEF DaysMade
<1>5. CASE DailyQueue \/ \E t \in 0 .. now : DailyLog(t)
  <2>1. /\ dpc \in {"c_queue", "idle"} /\ dpc' \in {"idle", "open", "write"}
        /\ UNCHANGED <<now, made, disk, fd_, rotation_tp_>>
    BY <1>5 DEF DailyQueue, DailyLog, fileVars
  <2>2. FileOf(now)' = FileOf(now)
    BY <2>1 DEF FileOf
  <2> QED BY <2>1, <2>2 DEF DaysMade
<1>6. CASE DailyRotate
  <2>1. dpc = "open" /\ now' = now /\ FileOf(now)' = FileOf(now)
    BY <1>6 DEF DailyRotate, FileOf
  <2>2. CASE /\ OpenFile(FileOf(time), FALSE) /\ dpc' = "write_new"
             /\ made' = made \cup {FileOf(time)} /\ rotation_tp_' = NextRotation
    <3>1. DOMAIN disk' = DOMAIN disk \cup {FileOf(time)} /\ fd_' = FileOf(time)
      BY <1>0, <2>2, OpenEnds
    <3>2. FileOf(time) \in 0 .. FileOf(now) /\ \A d \in made : d < FileOf(time)
      BY <2>1, RotatesLater
    <3>3. rotation_tp_' = 2 * FileOf(now) + 2
      BY <1>0, <2>2, NextRotationIs
    <3>4. \A d \in made' : d <= FileOf(time) /\ d \in Nat /\ d \in 0 .. FileOf(now)
      BY <1>0, <2>2, <3>2
    <3>5. \A d \in made' : 2 * d + 2 <= rotation_tp_'
      <4> TAKE d \in made'
      <4> DEFINE a == FileOf(now)
      <4>1. d \in Nat /\ a \in Nat /\ d <= a /\ rotation_tp_' = 2 * a + 2
        BY <1>0, <3>3, <3>4
      <4> HIDE DEF a
      <4> QED BY <4>1
    <3> QED BY <2>1, <2>2, <3>1, <3>4, <3>5 DEF DaysMade
  <2>3. CASE OpenFails(FileOf(time), FALSE) /\ dpc' = "idle" /\ UNCHANGED <<made, rotation_tp_>>
    <3>1. DOMAIN disk' = DOMAIN disk
      BY <1>0, <2>3, OpenFailsEnds
    <3> QED BY <2>1, <2>3, <3>1 DEF DaysMade
  <2> QED BY <1>6, <2>2, <2>3 DEF DailyRotate
<1>7. CASE DailyWrite
  <2>1. /\ dpc \in {"write", "write_new"}
        /\ dpc' = "idle" \/ (dpc = "write_new" /\ dpc' = "delete")
        /\ UNCHANGED <<now, made, disk, fd_, rotation_tp_>>
    BY <1>7 DEF DailyWrite
  <2>2. FileOf(now)' = FileOf(now)
    BY <2>1 DEF FileOf
  <2> QED BY <2>1, <2>2 DEF DaysMade
<1>8. CASE DeleteOld
  <2>1. /\ dpc = "delete" /\ dpc' = "idle" /\ UNCHANGED <<now, made, fd_, rotation_tp_>>
        /\ DOMAIN disk' \subseteq DOMAIN disk
    BY <1>8 DEF DeleteOld
  <2>2. FileOf(now)' = FileOf(now)
    BY <2>1 DEF FileOf
  <2> QED BY <2>1, <2>2 DEF DaysMade
<1>9. CASE DailyCrash
  <2>1. dpc' = "down" /\ UNCHANGED <<now, made, disk>>
    BY <1>9 DEF DailyCrash, CrashFile
  <2>2. FileOf(now)' = FileOf(now)
    BY <2>1 DEF FileOf
  <2> QED BY <2>1, <2>2 DEF DaysMade
<1> QED BY <1>1, <1>2, <1>3, <1>4, <1>5, <1>6, <1>7, <1>8, <1>9 DEF DailyNext

\* Where the constructor has ended.
Running == {"idle", "open", "write", "write_new", "delete"}

\* The names in the queue are those of days, in order.
Queued ==
  dpc \in Running =>
    /\ filenames_q_ \in Qs
    /\ Names_(filenames_q_) \in Seq(Nat) /\ Increasing(Names_(filenames_q_))
    /\ Elems(Names_(filenames_q_)) \subseteq made
    /\ dpc \in {"write_new", "delete"} => fd_ \notin Elems(Names_(filenames_q_))

\* The first half of Retention.
Kept == LastOf(made) \subseteq DOMAIN disk

\* What delete_old_ drops from the queue comes before all that stays.
LEMMA DeleteOldEffects ==
  ASSUME DailyFiles > 0, Daily, DaysMade, Queued, DeleteOld
  PROVE  LET c == Names_(filenames_q_)
             d == Names_(filenames_q_')
         IN  /\ filenames_q_' \in Qs /\ d \in Seq(Nat) /\ Increasing(d) /\ fd_ \in Elems(d)
             /\ \/ Elems(d) = Elems(c) \cup {fd_} /\ DOMAIN disk' = DOMAIN disk
                \/ \E old \in made :
                     /\ Elems(d) = (Elems(c) \ {old}) \cup {fd_} /\ old # fd_
                     /\ Len(d) >= DailyFiles
                     /\ \A y \in Elems(d) : old < y
                     /\ DOMAIN disk' \in {DOMAIN disk, DOMAIN disk \ {old}}
                     /\ ~fault' => DOMAIN disk' = DOMAIN disk \ {old}
<1> DEFINE c == Names_(filenames_q_)
           d == Names_(filenames_q_')
           x == fd_
           q == filenames_q_
<1>0. /\ dpc = "delete" /\ q \in Qs /\ c \in Seq(Nat) /\ Increasing(c) /\ Elems(c) \subseteq made
      /\ fd_ \notin Elems(c) /\ fd_ \in made /\ (\A e \in made : e <= fd_)
      /\ made \subseteq Nat /\ DailyFiles \in Nat
  <2>1. dpc = "delete"
    BY DEF DeleteOld
  <2>2. FileOf(now) \in Nat
    BY FileOfIs DEF Daily, DailyOK
  <2>3. made \subseteq Nat
    BY <2>2 DEF DaysMade
  <2> QED BY <2>1, <2>3, DailyAssumption DEF Queued, Running, DaysMade
<1>1. fd_ \in Nat /\ fd_ \in Names /\ \A y \in Elems(c) : y < fd_ /\ y \in Nat
  <2>1. fd_ \in Names
    BY <1>0 DEF Daily, DailyOK
  <2>2. fd_ \in Nat
    BY <1>0
  <2>3. ASSUME NEW y \in Elems(c) PROVE y < fd_ /\ y \in Nat
    <3>1. y \in made /\ y \in Nat /\ y # fd_
      BY <1>0
    <3>2. y <= fd_
      BY <1>0, <3>1
    <3> QED BY <2>2, <3>1, <3>2
  <2> QED BY <2>1, <2>2, <2>3
<1>2. CASE ~Q!Full(q)
  <2>1. filenames_q_' = Q!PushBack(q, fd_)
    BY <1>2 DEF DeleteOld
  <2>2. disk' = disk
    BY <1>2 DEF DeleteOld
  <2>3. filenames_q_' \in Qs /\ d = Append(c, fd_)
    BY <1>0, <1>1, <1>2, <2>1, NamePushed
  <2>4. Increasing(Append(c, fd_)) /\ Elems(Append(c, fd_)) = Elems(c) \cup {fd_}
    BY <1>0, <1>1, ElemsAppended
  <2>5. d \in Seq(Nat)
    <3> HIDE DEF c, d
    <3> QED BY <1>0, <1>1, <2>3
  <2> QED BY <2>2, <2>3, <2>4, <2>5
<1>3. CASE Q!Full(q)
  <2> DEFINE r == Q!MoveFront(q)
             old == Q!Front(q)
             t == Tail(c)
  <2>1. filenames_q_' = Q!PushBack(r, fd_)
    BY <1>3 DEF DeleteOld
  <2>2. r \in Qs /\ Names_(r) = t /\ old = Head(c) /\ Len(c) = DailyFiles
    BY <1>0, <1>3, NameMoved, NamesAre
  <2>3. c # <<>>
    BY <2>2
  <2>4. /\ t \in Seq(Nat) /\ Len(t) = Len(c) - 1 /\ Increasing(t) /\ old \in Elems(c)
        /\ Elems(t) = Elems(c) \ {old} /\ \A y \in Elems(t) : old < y
    BY <1>0, <2>2, <2>3, ElemsTail
  <2>5. Len(t) # DailyFiles
    BY <1>0, <2>2, <2>4
  <2>6. ~Q!Full(r)
    BY <2>2, <2>5, NamesAre
  <2>7. filenames_q_' \in Qs /\ d = Append(t, fd_)
    BY <1>1, <2>1, <2>2, <2>6, NamePushed
  <2>8. Increasing(Append(t, fd_)) /\ Elems(Append(t, fd_)) = Elems(t) \cup {fd_}
    <3>1. \A y \in Elems(t) : y < fd_
      BY <1>1, <2>4
    <3> QED BY <1>1, <2>4, <3>1, ElemsAppended
  <2>9. d \in Seq(Nat) /\ Len(d) = DailyFiles
    <3> HIDE DEF c, d, t
    <3> QED BY <1>0, <1>1, <2>2, <2>4, <2>7
  <2>10. /\ DOMAIN disk' \in {DOMAIN disk, DOMAIN disk \ {old}}
         /\ ~fault' => DOMAIN disk' = DOMAIN disk \ {old}
    <3>1. CASE disk' = [n \in DOMAIN disk \ {old} |-> disk[n]]
      <4> HIDE DEF old
      <4> QED BY <3>1
    <3>2. CASE disk' = disk /\ fault' = TRUE
      BY <3>2
    <3> QED BY <1>3, <3>1, <3>2 DEF DeleteOld
  <2>11. old \in made /\ old # fd_ /\ old < fd_
    BY <1>0, <1>1, <2>4
  <2>12. \A y \in Elems(d) : old < y
    BY <2>4, <2>7, <2>8, <2>11
  <2>13. Elems(d) = (Elems(c) \ {old}) \cup {fd_}
    BY <2>4, <2>7, <2>8
  <2>14. Len(d) >= DailyFiles /\ Increasing(d) /\ fd_ \in Elems(d)
    BY <1>0, <2>7, <2>8, <2>9, <2>13
  <2> HIDE DEF d, c, old, t, r
  <2> QED BY <2>7, <2>9, <2>10, <2>11, <2>12, <2>13, <2>14 DEF c, d
<1> QED BY <1>2, <1>3

LEMMA QueuedStep == DailyFiles > 0 /\ Daily /\ DaysMade /\ Queued /\ DailyNext => Queued'
<1> SUFFICES ASSUME DailyFiles > 0, Daily, DaysMade, Queued, DailyNext PROVE Queued'
  OBVIOUS
<1>0. FileOK /\ DailyOK /\ made \subseteq Nat /\ DOMAIN disk \subseteq made
      /\ FileOf(now) \in Nat
  <2>1. FileOf(now) \in Nat
    BY FileOfIs DEF Daily, DailyOK
  <2> QED BY <2>1 DEF Daily, DaysMade
<1>1. CASE Tick \/ (\E t \in 0 .. now : DailyLog(t))
  <2>1. UNCHANGED <<filenames_q_, made, fd_>>
    BY <1>1 DEF Tick, DailyLog, fileVars
  <2>2. dpc' = dpc \/ (dpc = "idle" /\ dpc' \in {"open", "write"})
    BY <1>1 DEF Tick, DailyLog
  <2> QED BY <2>1, <2>2 DEF Queued, Running
<1>2. CASE DailyOpen \/ DailyOpenFails \/ DailyRotation \/ DailyCrash
  <2>1. dpc' \notin Running
    <3>1. CASE DailyOpen \/ DailyOpenFails \/ DailyCrash
      BY <3>1 DEF DailyOpen, DailyOpenFails, DailyCrash, dailyVars, Running
    <3>2. CASE DailyRotation
      BY <3>2 DEF DailyRotation, Running
    <3> QED BY <1>2, <3>1, <3>2
  <2> QED BY <2>1 DEF Queued
<1>3. CASE DailyQueue
  <2>1. filenames_q_' = InitQueue /\ made' = made /\ dpc' = "idle"
    BY <1>3 DEF DailyQueue
  <2>2. DOMAIN disk \subseteq Names
    BY <1>0 DEF FileOK
  <2>3. PICK n : /\ FilesBack(n) /\ InitQueue \in Qs
                 /\ Len(Names_(InitQueue)) = n
                 /\ \A i \in 1 .. n : Names_(InitQueue)[i] = FileOf(now) - n + i
    BY <1>0, <2>2, InitQueueIs
  <2> DEFINE c == Names_(InitQueue)
             a == FileOf(now)
  <2>4. n \in Nat /\ (\A i \in 0 .. n - 1 : a - i \in made) /\ a \in Nat
    BY <1>0, <2>3, DailyAssumption DEF FilesBack
  <2>5. c \in Seq(Slots) /\ Len(c) = n /\ \A i \in 1 .. n : c[i] = a - n + i
    BY <2>3, NamesAre
  <2> HIDE DEF c, a
  <2>6. \A i \in 1 .. n : c[i] \in made
    <3> TAKE i \in 1 .. n
    <3>1. n - i \in 0 .. n - 1 /\ a - (n - i) = a - n + i
      BY <2>4
    <3> QED BY <2>4, <2>5, <3>1
  <2>7. \A i \in 1 .. n : c[i] \in Nat
    BY <1>0, <2>6
  <2>8. c \in Seq(Nat)
    <3>1. c \in [1 .. n -> Nat]
      BY <2>5, <2>7
    <3> QED BY <2>4, <3>1
  <2>9. Increasing(c)
    <3> SUFFICES ASSUME NEW i \in 1 .. n, NEW j \in 1 .. n, i < j PROVE c[i] < c[j]
      BY <2>5 DEF Increasing
    <3> QED BY <2>4, <2>5
  <2>10. Elems(c) \subseteq made
    BY <2>5, <2>6 DEF Elems
  <2> QED BY <2>1, <2>3, <2>8, <2>9, <2>10 DEF Queued, c
<1>4. CASE DailyRotate
  <2>1. dpc = "open" /\ filenames_q_' = filenames_q_
    BY <1>4 DEF DailyRotate
  <2>2. CASE /\ OpenFile(FileOf(time), FALSE) /\ dpc' = "write_new"
             /\ made' = made \cup {FileOf(time)}
    <3>1. fd_' = FileOf(time)
      BY <1>0, <2>2, OpenEnds
    <3>2. FileOf(time) \notin made
      <4>1. \A d \in made : d < FileOf(time) /\ d \in Nat
        BY <1>0, <2>1, RotatesLater
      <4> QED BY <4>1
    <3> QED BY <2>1, <2>2, <3>1, <3>2 DEF Queued, Running
  <2>3. CASE dpc' = "idle" /\ made' = made
    BY <2>1, <2>3 DEF Queued, Running
  <2> QED BY <1>4, <2>2, <2>3 DEF DailyRotate
<1>5. CASE DailyWrite
  <2>1. /\ dpc \in {"write", "write_new"}
        /\ dpc' = "idle" \/ (dpc = "write_new" /\ dpc' = "delete")
        /\ UNCHANGED <<filenames_q_, made, fd_>>
    BY <1>5 DEF DailyWrite
  <2> QED BY <2>1 DEF Queued, Running
<1>6. CASE DeleteOld
  <2> DEFINE c == Names_(filenames_q_)
             d == Names_(filenames_q_')
  <2>1. /\ filenames_q_' \in Qs /\ d \in Seq(Nat) /\ Increasing(d)
        /\ Elems(d) \subseteq Elems(c) \cup {fd_}
    BY <1>6, DeleteOldEffects
  <2>2. dpc = "delete" /\ dpc' = "idle" /\ made' = made
    BY <1>6 DEF DeleteOld
  <2>3. Elems(c) \subseteq made /\ fd_ \in made
    BY <2>2 DEF Queued, Running, DaysMade
  <2> QED BY <2>1, <2>2, <2>3 DEF Queued
<1> QED BY <1>1, <1>2, <1>3, <1>4, <1>5, <1>6 DEF DailyNext

LEMMA MadeFinite ==
  ASSUME Daily, DaysMade
  PROVE  IsFiniteSet(made) /\ made \subseteq Nat
<1> DEFINE a == FileOf(now)
<1>1. a \in Nat /\ made \subseteq 0 .. a
  BY FileOfIs DEF Daily, DailyOK, DaysMade
<1> HIDE DEF a
<1>2. IsFiniteSet(0 .. a)
  BY <1>1, FS_Interval
<1>3. made \in SUBSET (0 .. a)
  BY <1>1
<1>4. IsFiniteSet(made)
  BY <1>2, <1>3, FS_Subset
<1> QED BY <1>1, <1>4

\* The last days keep their files.
LEMMA KeptStep ==
  DailyFiles > 0 /\ Daily /\ DaysMade /\ Queued /\ Kept /\ DailyNext => Kept'
<1> SUFFICES ASSUME DailyFiles > 0, Daily, DaysMade, Queued, Kept, DailyNext PROVE Kept'
  OBVIOUS
<1>0. FileOK /\ made \subseteq Nat /\ IsFiniteSet(made)
  BY MadeFinite DEF Daily
<1>a. ASSUME NEW d, made' = made \cup {d}, DOMAIN disk' = DOMAIN disk \cup {d} PROVE Kept'
  <2>1. LastOf(made \cup {d}) \subseteq LastOf(made) \cup {d}
    BY <1>0, LastOfGrown
  <2>2. LastOf(made') = LastOf(made \cup {d})
    BY <1>a
  <2> QED BY <1>a, <2>1, <2>2 DEF Kept
<1>b. ASSUME made' = made, DOMAIN disk' = DOMAIN disk PROVE Kept'
  BY <1>b DEF Kept
<1>1. CASE Tick \/ DailyRotation \/ DailyQueue \/ (\E t \in 0 .. now : DailyLog(t))
  <2>1. CASE Tick \/ DailyQueue
    BY <1>b, <2>1 DEF Tick, DailyQueue, fileVars
  <2>2. CASE DailyRotation \/ (\E t \in 0 .. now : DailyLog(t))
    BY <1>b, <2>2 DEF DailyRotation, DailyLog, fileVars
  <2> QED BY <1>1, <2>1, <2>2
<1>2. CASE DailyWrite \/ DailyCrash
  BY <1>b, <1>2 DEF DailyWrite, DailyCrash, CrashFile
<1>3. CASE DailyOpen
  <2>1. DOMAIN disk' = DOMAIN disk \cup {FileOf(now)}
    BY <1>0, <1>3, OpenEnds DEF DailyOpen
  <2>2. made' = made \cup {FileOf(now)}
    BY <1>3 DEF DailyOpen
  <2> QED BY <1>a, <2>1, <2>2
<1>4. CASE DailyOpenFails
  <2>1. DOMAIN disk' = DOMAIN disk
    BY <1>0, <1>4, OpenFailsEnds DEF DailyOpenFails
  <2>2. made' = made
    BY <1>4 DEF DailyOpenFails, dailyVars
  <2> QED BY <1>b, <2>1, <2>2
<1>5. CASE DailyRotate
  <2>1. CASE OpenFile(FileOf(time), FALSE) /\ made' = made \cup {FileOf(time)}
    <3>1. DOMAIN disk' = DOMAIN disk \cup {FileOf(time)}
      BY <1>0, <2>1, OpenEnds
    <3> QED BY <1>a, <2>1, <3>1
  <2>2. CASE OpenFails(FileOf(time), FALSE) /\ made' = made
    <3>1. DOMAIN disk' = DOMAIN disk
      BY <1>0, <2>2, OpenFailsEnds
    <3> QED BY <1>b, <2>2, <3>1
  <2> QED BY <1>5, <2>1, <2>2 DEF DailyRotate
<1>6. CASE DeleteOld
  <2> DEFINE c == Names_(filenames_q_)
             d == Names_(filenames_q_')
  <2>1. dpc = "delete" /\ made' = made
    BY <1>6 DEF DeleteOld
  <2>2. Elems(c) \subseteq made /\ fd_ \in made
    BY <2>1 DEF Queued, Running, DaysMade
  <2>3. /\ d \in Seq(Nat) /\ Increasing(d)
        /\ \/ DOMAIN disk' = DOMAIN disk
           \/ \E old \in made :
                /\ Elems(d) = (Elems(c) \ {old}) \cup {fd_}
                /\ Len(d) >= DailyFiles
                /\ \A y \in Elems(d) : old < y
                /\ DOMAIN disk' \in {DOMAIN disk, DOMAIN disk \ {old}}
    BY <1>6, DeleteOldEffects
  <2>4. CASE DOMAIN disk' = DOMAIN disk
    BY <1>b, <2>1, <2>4
  <2>5. ASSUME NEW old \in made, DOMAIN disk' = DOMAIN disk \ {old}, Len(d) >= DailyFiles,
               Elems(d) = (Elems(c) \ {old}) \cup {fd_}, \A y \in Elems(d) : old < y
        PROVE  Kept'
    <3>1. Elems(d) \subseteq Later(made, old)
      <4> SUFFICES ASSUME NEW y \in Elems(d) PROVE y \in Later(made, old)
        OBVIOUS
      <4>1. y \in made /\ old < y /\ y \in Nat /\ old \in Nat
        BY <1>0, <2>2, <2>5
      <4> QED BY <4>1 DEF Later
    <3>2. old \notin LastOf(made)
      <4> HIDE DEF c, d
      <4> QED BY <1>0, <2>3, <2>5, <3>1, NotOfTheLast
    <3> QED BY <2>1, <2>5, <3>2 DEF Kept
  <2> HIDE DEF c, d
  <2> QED BY <2>3, <2>4, <2>5
<1> QED BY <1>1, <1>2, <1>3, <1>4, <1>5, <1>6 DEF DailyNext

-------------------------------------------------------------------------------
(* The files there are, as long as nothing went wrong. *)

LEMMA DailyFaultStays == FileOK /\ DailyNext /\ ~fault' => ~fault
<1> SUFFICES ASSUME FileOK, DailyNext, fault PROVE fault'
  OBVIOUS
<1>1. CASE Tick \/ DailyOpen \/ DailyOpenFails
  BY <1>1 DEF Tick, DailyOpen, OpenFile, DailyOpenFails, OpenFails
<1>2. CASE DailyRotation \/ DailyQueue \/ (\E t \in 0 .. now : DailyLog(t))
  BY <1>2 DEF DailyRotation, DailyQueue, DailyLog, fileVars
<1>3. CASE DailyRotate
  BY <1>3 DEF DailyRotate, OpenFile, OpenFails
<1>4. CASE DailyWrite
  BY <1>4 DEF DailyWrite
<1>5. CASE DeleteOld
  BY <1>5 DEF DeleteOld
<1>6. CASE DailyCrash
  BY <1>6 DEF DailyCrash, CrashFile
<1> QED BY <1>1, <1>2, <1>3, <1>4, <1>5, <1>6 DEF DailyNext

\* No file is missing after the first there is.
UpClosed == \A d \in DOMAIN disk, e \in made : e > d => e \in DOMAIN disk

\* The files are those whose names are in the queue, and the one just begun.
Exact ==
  ~fault =>
    /\ dpc = "down" => made = {}
    /\ dpc \in {"c_rotation", "c_queue"} => made = {FileOf(now)} /\ DOMAIN disk = made
    /\ dpc \in {"idle", "open", "write"} => DOMAIN disk = Elems(Names_(filenames_q_))
    /\ dpc \in {"write_new", "delete"} => DOMAIN disk = Elems(Names_(filenames_q_)) \cup {fd_}
    /\ UpClosed

LEMMA QueueMade ==
  ASSUME DailyFiles > 0, Daily, DOMAIN disk = {FileOf(now)}
  PROVE  Elems(Names_(InitQueue)) = {FileOf(now)}
<1> DEFINE c == Names_(InitQueue)
           a == FileOf(now)
<1>1. FileOf(now) \in Nat /\ DOMAIN disk \subseteq Names /\ DailyOK
  BY FileOfIs DEF Daily, DailyOK, FileOK
<1>2. PICK n : FilesBack(n) /\ Len(c) = n /\ \A i \in 1 .. n : c[i] = a - n + i
  BY <1>1, InitQueueIs
<1>3. /\ n \in Nat /\ (n = DailyFiles \/ a - n \notin {a}) /\ DailyFiles > 0
      /\ \A i \in 0 .. n - 1 : a - i \in {a}
  BY <1>2, DailyAssumption DEF FilesBack
<1> HIDE DEF a
<1>4. a \in Nat
  BY <1>1 DEF a
<1>5. n # 0
  BY <1>3, <1>4
<1>6. n < 2
  <2> SUFFICES ASSUME n >= 2 PROVE FALSE
    BY <1>3
  <2>1. 1 \in 0 .. n - 1
    BY <1>3
  <2>2. a - 1 = a
    BY <1>3, <2>1
  <2> QED BY <1>4, <2>2
<1>7. n = 1
  BY <1>3, <1>5, <1>6
<1>8. Elems(c) = {c[i] : i \in 1 .. 1} /\ c[1] = a - 1 + 1 /\ a - 1 + 1 = a
  <2>1. 1 \in 1 .. 1
    OBVIOUS
  <2> HIDE DEF c
  <2> QED BY <1>2, <1>4, <1>7, <2>1 DEF Elems
<1>9. 1 .. 1 = {1}
  OBVIOUS
<1> HIDE DEF c
<1>10. {c[i] : i \in 1 .. 1} = {c[1]}
  BY <1>9
<1> QED BY <1>8, <1>10 DEF a, c

LEMMA ExactStep ==
  RotationAt = 0 /\ DailyFiles > 0 /\ Daily /\ DaysMade /\ Queued /\ Exact /\ DailyNext => Exact'
<1> SUFFICES ASSUME RotationAt = 0, DailyFiles > 0, Daily, DaysMade, Queued, Exact, DailyNext, ~fault'
             PROVE  Exact'
  BY DEF Exact
<1>0. /\ FileOK /\ ~fault /\ made \subseteq Nat /\ DOMAIN disk \subseteq made /\ UpClosed
      /\ FileOf(now) \in Nat
  BY DailyFaultStays, MadeFinite, FileOfIs DEF Daily, DailyOK, DaysMade, Exact
<1>1. CASE Tick
  <2>1. dpc' = dpc /\ UNCHANGED <<made, disk, fd_, filenames_q_>>
    BY <1>1 DEF Tick
  <2>2. dpc \in {"c_rotation", "c_queue"} => FileOf(now') = FileOf(now)
    BY <1>1 DEF Tick
  <2>3. FileOf(now)' = FileOf(now')
    BY DEF FileOf
  <2> QED BY <1>0, <2>1, <2>2, <2>3 DEF Exact, UpClosed
<1>2. CASE DailyOpen
  <2>1. DOMAIN disk' = DOMAIN disk \cup {FileOf(now)}
    BY <1>0, <1>2, OpenEnds DEF DailyOpen
  <2>2. /\ dpc = "down" /\ dpc' = "c_rotation" /\ made' = made \cup {FileOf(now)}
        /\ FileOf(now)' = FileOf(now)
    BY <1>2 DEF DailyOpen, FileOf
  <2>3. made = {}
    BY <1>0, <2>2 DEF Exact
  <2>4. made' = {FileOf(now)} /\ DOMAIN disk' = {FileOf(now)}
    BY <1>0, <2>1, <2>2, <2>3
  <2> QED BY <1>0, <2>2, <2>4 DEF Exact, UpClosed
<1>3. CASE DailyOpenFails \/ DailyCrash
  BY <1>3 DEF DailyOpenFails, OpenFails, DailyCrash, CrashFile
<1>4. CASE DailyRotation
  <2>1. /\ dpc = "c_rotation" /\ dpc' = "c_queue" /\ UNCHANGED <<made, disk>>
        /\ FileOf(now)' = FileOf(now)
    BY <1>4 DEF DailyRotation, fileVars, FileOf
  <2> QED BY <1>0, <2>1 DEF Exact, UpClosed
<1>5. CASE DailyQueue
  <2>1. /\ dpc = "c_queue" /\ dpc' = "idle" /\ UNCHANGED <<made, disk>>
        /\ filenames_q_' = InitQueue
    BY <1>5 DEF DailyQueue, fileVars
  <2>2. DOMAIN disk = {FileOf(now)}
    BY <1>0, <2>1 DEF Exact
  <2>3. Elems(Names_(filenames_q_')) = DOMAIN disk
    BY <2>1, <2>2, QueueMade
  <2> QED BY <1>0, <2>1, <2>3 DEF Exact, UpClosed
<1>6. CASE \E t \in 0 .. now : DailyLog(t)
  <2>1. /\ dpc = "idle" /\ dpc' \in {"open", "write"}
        /\ UNCHANGED <<made, disk, filenames_q_>>
    BY <1>6 DEF DailyLog, fileVars
  <2> QED BY <1>0, <2>1 DEF Exact, UpClosed
<1>7. CASE DailyRotate
  <2>1. /\ dpc = "open" /\ dpc' = "write_new" /\ filenames_q_' = filenames_q_
        /\ OpenFile(FileOf(time), FALSE) /\ made' = made \cup {FileOf(time)}
    BY <1>7 DEF DailyRotate, OpenFails
  <2>2. DOMAIN disk' = DOMAIN disk \cup {FileOf(time)} /\ fd_' = FileOf(time)
    BY <1>0, <2>1, OpenEnds
  <2>3. DOMAIN disk = Elems(Names_(filenames_q_))
    BY <1>0, <2>1 DEF Exact
  <2>4. FileOf(time) \in Nat /\ \A d \in made : d < FileOf(time)
    BY <1>0, <2>1, RotatesLater
  <2>5. UpClosed'
    <3> SUFFICES ASSUME NEW d \in DOMAIN disk', NEW e \in made', e > d PROVE e \in DOMAIN disk'
      BY DEF UpClosed
    <3>1. CASE e = FileOf(time)
      BY <2>2, <3>1
    <3>2. CASE e \in made /\ d = FileOf(time)
      <4>1. e < d /\ e \in Nat /\ d \in Nat
        BY <1>0, <2>4, <3>2
      <4> QED BY <4>1
    <3>3. CASE e \in made /\ d \in DOMAIN disk
      BY <1>0, <2>2, <3>3 DEF UpClosed
    <3> QED BY <2>1, <2>2, <3>1, <3>2, <3>3
  <2> QED BY <2>1, <2>2, <2>3, <2>5 DEF Exact
<1>8. CASE DailyWrite
  <2>1. /\ \/ dpc = "write" /\ dpc' = "idle"
           \/ dpc = "write_new" /\ dpc' = "delete"
        /\ UNCHANGED <<made, disk, fd_, filenames_q_>>
    BY <1>8 DEF DailyWrite
  <2> QED BY <1>0, <2>1 DEF Exact, UpClosed
<1>9. CASE DeleteOld
  <2> DEFINE c == Names_(filenames_q_)
             d == Names_(filenames_q_')
  <2>1. dpc = "delete" /\ dpc' = "idle" /\ made' = made
    BY <1>9 DEF DeleteOld
  <2>2. DOMAIN disk = Elems(c) \cup {fd_}
    BY <1>0, <2>1 DEF Exact
  <2>3. \/ Elems(d) = Elems(c) \cup {fd_} /\ DOMAIN disk' = DOMAIN disk
        \/ \E old \in made :
             /\ Elems(d) = (Elems(c) \ {old}) \cup {fd_} /\ old # fd_
             /\ \A y \in Elems(d) : old < y
             /\ DOMAIN disk' = DOMAIN disk \ {old}
    BY <1>9, DeleteOldEffects
  <2>4. CASE Elems(d) = Elems(c) \cup {fd_} /\ DOMAIN disk' = DOMAIN disk
    <3>1. DOMAIN disk' = Elems(d)
      BY <2>2, <2>4
    <3>2. UpClosed'
      BY <1>0, <2>1, <2>4 DEF UpClosed
    <3> QED BY <2>1, <3>1, <3>2 DEF Exact
  <2>5. ASSUME NEW old \in made, Elems(d) = (Elems(c) \ {old}) \cup {fd_}, old # fd_,
               \A y \in Elems(d) : old < y, DOMAIN disk' = DOMAIN disk \ {old}
        PROVE  Exact'
    <3>1. DOMAIN disk' = Elems(d)
      BY <2>2, <2>5
    <3>2. UpClosed'
      <4> SUFFICES ASSUME NEW x \in DOMAIN disk', NEW e \in made', e > x PROVE e \in DOMAIN disk'
        BY DEF UpClosed
      <4>1. x \in DOMAIN disk /\ e \in made /\ e \in DOMAIN disk
        BY <1>0, <2>1, <2>5 DEF UpClosed
      <4>2. old < x /\ old \in Nat /\ x \in Nat /\ e \in Nat
        BY <1>0, <2>5, <3>1, <4>1
      <4>3. e # old
        BY <4>2
      <4> QED BY <2>5, <4>1, <4>3
    <3> QED BY <2>1, <3>1, <3>2 DEF Exact
  <2> HIDE DEF c, d
  <2> QED BY <2>3, <2>4, <2>5
<1> QED BY <1>1, <1>2, <1>3, <1>4, <1>5, <1>6, <1>7, <1>8, <1>9 DEF DailyNext

-------------------------------------------------------------------------------
(* Retention. *)

\* The inductive invariant of Retention.
Retained ==
  /\ Types
  /\ sink = "rotating" => made = {}
  /\ sink = "daily" /\ DailyFiles > 0 => DaysMade /\ Queued /\ Kept /\ Exact

LEMMA RetainedInit == Init => Retained
<1> SUFFICES ASSUME Init PROVE Retained
  OBVIOUS
<1>1. Types
  BY TypesInit
<1>2. made = {} /\ dpc = "down" /\ DOMAIN disk = {}
  BY DEF Init, FileInit, DailyInit
<1>3. DaysMade
  BY <1>2 DEF DaysMade
<1>4. Queued
  BY <1>2 DEF Queued, Running
<1>5. Kept
  BY <1>2 DEF Kept, LastOf
<1>6. Exact
  BY <1>2 DEF Exact, UpClosed
<1> QED BY <1>1, <1>2, <1>3, <1>4, <1>5, <1>6 DEF Retained

LEMMA RetainedStep == RotationAt = 0 /\ Retained /\ [Next]_vars => Retained'
<1> SUFFICES ASSUME RotationAt = 0, Retained, [Next]_vars PROVE Retained'
  OBVIOUS
<1>1. Types /\ Types'
  BY TypesStep DEF Retained
<1>2. CASE sink = "rotating" /\ sink' = sink /\ UNCHANGED dailyVars
  BY <1>1, <1>2 DEF Retained, dailyVars
<1>3. CASE sink = "daily" /\ sink' = sink /\ DailyNext
  <2>1. Daily
    BY <1>1, <1>3 DEF Types, TypeOK, Daily
  <2>2. ASSUME DailyFiles > 0 PROVE DaysMade' /\ Queued' /\ Kept' /\ Exact'
    <3>1. DaysMade /\ Queued /\ Kept /\ Exact
      BY <1>3, <2>2 DEF Retained
    <3>2. DaysMade' /\ Queued'
      BY <1>3, <2>1, <2>2, <3>1, DaysMadeStep, QueuedStep
    <3>3. Kept' /\ Exact'
      BY <1>3, <2>1, <2>2, <3>1, KeptStep, ExactStep
    <3> QED BY <3>2, <3>3
  <2> QED BY <1>1, <1>3, <2>2 DEF Retained
<1>4. CASE UNCHANGED vars
  <2>1. UNCHANGED <<sink, disk, fd_, fault, dpc, now, rotation_tp_, filenames_q_, made>>
    BY <1>4 DEF vars, fileVars, dailyVars
  <2>2. FileOf(now)' = FileOf(now)
    BY <2>1 DEF FileOf
  <2>3. DaysMade => DaysMade'
    BY <2>1, <2>2 DEF DaysMade
  <2>4. Queued => Queued'
    BY <2>1 DEF Queued
  <2>5. Kept => Kept'
    BY <2>1 DEF Kept
  <2>6. Exact => Exact'
    BY <2>1, <2>2 DEF Exact, UpClosed
  <2> QED BY <1>1, <2>1, <2>3, <2>4, <2>5, <2>6 DEF Retained
<1> QED BY <1>2, <1>3, <1>4, StepCases

LEMMA KeepsTheLast == Retained => Retention
<1> SUFFICES ASSUME Retained, DailyFiles > 0
             PROVE  /\ Recent \subseteq DOMAIN disk
                    /\ dpc = "idle" /\ ~fault => DOMAIN disk \subseteq Recent
  BY DEF Retention
<1>1. CASE sink = "rotating"
  BY <1>1 DEF Retained, Types, Unused, Recent
<1>2. CASE sink = "daily"
  <2>1. Daily /\ DaysMade /\ Queued /\ Kept /\ Exact
    BY <1>2 DEF Retained, Types, TypeOK, Daily
  <2>2. Recent \subseteq DOMAIN disk
    BY <2>1, RecentIs DEF Kept
  <2>3. ASSUME dpc = "idle", ~fault PROVE DOMAIN disk \subseteq Recent
    <3> DEFINE c == Names_(filenames_q_)
    <3>1. /\ filenames_q_ \in Qs /\ c \in Seq(Nat) /\ Increasing(c)
          /\ Elems(c) \subseteq made /\ DOMAIN disk = Elems(c) /\ UpClosed
      BY <2>1, <2>3 DEF Queued, Running, Exact
    <3>2. Len(c) <= DailyFiles
      BY <3>1, NamesAre
    <3>3. ASSUME NEW d \in Elems(c) PROVE d \in LastOf(made)
      <4>1. Later(made, d) \subseteq Elems(c) \ {d}
        <5> SUFFICES ASSUME NEW e \in Later(made, d) PROVE e \in Elems(c) /\ e # d
          OBVIOUS
        <5>1. e \in made /\ e > d /\ d \in made
          BY <3>1, <3>3 DEF Later
        <5>2. e # d
          <6>1. d \in Nat /\ e \in Nat
            BY <2>1, <5>1, MadeFinite
          <6> QED BY <5>1, <6>1
        <5>3. e \in DOMAIN disk
          BY <3>1, <3>3, <5>1 DEF UpClosed
        <5> QED BY <3>1, <5>2, <5>3
      <4>2. d \in made
        BY <3>1, <3>3
      <4> HIDE DEF c
      <4> QED BY <3>1, <3>2, <3>3, <4>1, <4>2, OfTheLast
    <3> QED BY <3>1, <3>3, RecentIs
  <2> QED BY <2>2, <2>3
<1> QED BY <1>1, <1>2 DEF Retained, Types, TypeOK

\* A daily sink that rotates at midnight keeps the files of the last days, and,
\* until the first failure or restart, only those. With another rotation time this is false: the
\* file of a day is then begun twice.
THEOREM RetentionHolds ==
  ASSUME RotationAt = 0
  PROVE  Spec => []Retention
<1>1. Init => Retained
  BY RetainedInit
<1>2. Retained /\ [Next]_vars => Retained'
  BY RetainedStep
<1>3. Retained => Retention
  BY KeepsTheLast
<1> QED BY <1>1, <1>2, <1>3, PTL DEF Spec
===============================================================================
