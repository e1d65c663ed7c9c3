---------------------------- MODULE AsyncLogProofs ----------------------------
(***************************************************************************)
(* Proofs about AsyncLog for any number of workers, posting threads and    *)
(* messages, any policies and any size of the queue.                       *)
(*                                                                         *)
(* The types come first, but for the counter of terminate messages, whose  *)
(* range depends on there being one destructor. Places says which thread   *)
(* holds a reference, posts or destroys; that no wakeup is lost follows    *)
(* from the lemmas of CircularQProofs and from counting threads.           *)
(*                                                                         *)
(* The second half is about the messages. IInv says where each request is, *)
(* and that the messages that end the workers are the last in the queue,   *)
(* which is why no worker can leave a request behind. Accounting, Drained  *)
(* and the refinement of LogChannel follow from it.                        *)
(***************************************************************************)
EXTENDS AsyncLog, CircularQProofs, FiniteSetTheorems, SequenceTheorems

\* Next, with its steps named one by one.
PosterStep(t) ==
  AwaitRoom(t) \/ Enqueue(t) \/ Notify(t) \/ Logged(t) \/ Join(t) \/ SpuriousRoom(t)
OwnerStep == SpawnThrows \/ Constructed \/ Drop
AnyWorkerStep(w) ==
  Spawn(w) \/ Sleep(w) \/ Dequeue(w) \/ Room(w) \/ Process(w) \/ WakeUp(w)

LEMMA StepCases ==
  [Next]_vars =>
    \/ \E w \in Workers : AnyWorkerStep(w)
    \/ OwnerStep
    \/ \E t \in Producers, m \in Msgs : Log(t, m)
    \/ \E t \in Threads : PosterStep(t)
    \/ UNCHANGED vars
  BY DEF Next, WorkerStep, PostStep, AnyWorkerStep, OwnerStep, PosterStep

Items == Msgs \cup {Terminate, Blank}

-------------------------------------------------------------------------------
(* Types. *)

PcOK == pc \in [Threads -> PostPc \cup OwnerPc \cup {"idle", "release", "join"}]
ItemOK == item \in [Threads -> Items] /\ refs \subseteq Threads
WorkerOK == wpc \in [Workers -> WorkerPc] /\ msg \in [Workers -> Items]
QueueOK == q \in Queues(QSize, Items)
SetsOK == accepted \cup rejected \cup written \subseteq Msgs
Types == PcOK /\ ItemOK /\ WorkerOK /\ QueueOK /\ SetsOK

LEMMA TypesInit == Init => Types
<1> SUFFICES ASSUME Init PROVE Types
  OBVIOUS
<1> USE AsyncAssumption DEF Init, Threads
<1>1. PcOK
  BY DEF PcOK, PostPc, OwnerPc
<1>2. ItemOK
  BY DEF ItemOK, Items
<1>3. WorkerOK
  BY DEF WorkerOK, WorkerPc, Items
<1>4. QueueOK
  BY NewQIs DEF QueueOK, Items
<1>5. SetsOK
  BY DEF SetsOK
<1> QED BY <1>1, <1>2, <1>3, <1>4, <1>5 DEF Types

LEMMA PcStep == PcOK /\ [Next]_vars => PcOK'
<1> SUFFICES ASSUME PcOK, [Next]_vars PROVE PcOK'
  OBVIOUS
<1> USE DEF PcOK, PostPc, OwnerPc, Goto
<1>1. ASSUME NEW w \in Workers, AnyWorkerStep(w) PROVE PcOK'
  BY <1>1 DEF AnyWorkerStep, Spawn, Sleep, Dequeue, Room, Process, WakeUp
<1>2. ASSUME OwnerStep PROVE PcOK'
  BY <1>2 DEF OwnerStep, SpawnThrows, Constructed, Drop, Release
<1>3. ASSUME NEW t \in Producers, NEW m \in Msgs, Log(t, m) PROVE PcOK'
  BY <1>3 DEF Log
<1>4. ASSUME NEW t \in Threads, PosterStep(t) PROVE PcOK'
  BY <1>4 DEF PosterStep, AwaitRoom, Enqueue, Notify, Logged, Release, Join, SpuriousRoom
<1>5. CASE UNCHANGED vars
  BY <1>5 DEF vars
<1> QED BY <1>1, <1>2, <1>3, <1>4, <1>5, StepCases

LEMMA ItemStep == ItemOK /\ [Next]_vars => ItemOK'
<1> SUFFICES ASSUME ItemOK, [Next]_vars PROVE ItemOK'
  OBVIOUS
<1> USE DEF ItemOK, Items, Threads, Goto, posting
<1>1. ASSUME NEW w \in Workers, AnyWorkerStep(w) PROVE ItemOK'
  BY <1>1 DEF AnyWorkerStep, Spawn, Sleep, Dequeue, Room, Process, WakeUp
<1>2. ASSUME OwnerStep PROVE ItemOK'
  BY <1>2 DEF OwnerStep, SpawnThrows, Constructed, Drop, Release
<1>3. ASSUME NEW t \in Producers, NEW m \in Msgs, Log(t, m) PROVE ItemOK'
  BY <1>3 DEF Log
<1>4. ASSUME NEW t \in Threads, PosterStep(t) PROVE ItemOK'
  BY <1>4 DEF PosterStep, AwaitRoom, Enqueue, Notify, Logged, Release, Join, SpuriousRoom
<1>5. CASE UNCHANGED vars
  BY <1>5 DEF vars
<1> QED BY <1>1, <1>2, <1>3, <1>4, <1>5, StepCases

LEMMA WorkerStepOK == WorkerOK /\ QueueOK /\ [Next]_vars => WorkerOK'
<1> SUFFICES ASSUME WorkerOK, QueueOK, [Next]_vars PROVE WorkerOK'
  OBVIOUS
<1> USE DEF WorkerOK, WorkerPc, Goto, working
<1>1. ASSUME NEW w \in Workers, AnyWorkerStep(w) PROVE WorkerOK'
  <2>1. CASE Dequeue(w)
    <3>1. Front(q) \in Items
      BY <2>1, AsyncAssumption, MoveFrontIs DEF Dequeue, QueueOK, Items
    <3> QED BY <2>1, <3>1 DEF Dequeue
  <2>2. CASE ~Dequeue(w)
    BY <1>1, <2>2 DEF AnyWorkerStep, Spawn, Sleep, Room, Process, WakeUp, Items
  <2> QED BY <2>1, <2>2
<1>2. ASSUME OwnerStep PROVE WorkerOK'
  BY <1>2 DEF OwnerStep, SpawnThrows, Constructed, Drop, Release
<1>3. ASSUME NEW t \in Producers, NEW m \in Msgs, Log(t, m) PROVE WorkerOK'
  BY <1>3 DEF Log
<1>4. ASSUME NEW t \in Threads, PosterStep(t) PROVE WorkerOK'
  BY <1>4 DEF PosterStep, AwaitRoom, Enqueue, Notify, Logged, Join, SpuriousRoom
<1>5. CASE UNCHANGED vars
  BY <1>5 DEF vars
<1> QED BY <1>1, <1>2, <1>3, <1>4, <1>5, StepCases

LEMMA QueueStep == QueueOK /\ ItemOK /\ [Next]_vars => QueueOK'
<1> SUFFICES ASSUME QueueOK, ItemOK, [Next]_vars PROVE QueueOK'
  OBVIOUS
<1> USE AsyncAssumption DEF QueueOK
<1>1. ASSUME NEW w \in Workers, AnyWorkerStep(w) PROVE QueueOK'
  <2>1. CASE Dequeue(w)
    BY <2>1, MoveFrontIs DEF Dequeue, Items
  <2>2. CASE ~Dequeue(w)
    BY <1>1, <2>2 DEF AnyWorkerStep, Spawn, Sleep, Room, Process, WakeUp
  <2> QED BY <2>1, <2>2
<1>2. ASSUME OwnerStep PROVE QueueOK'
  BY <1>2 DEF OwnerStep, SpawnThrows, Constructed, Drop
<1>3. ASSUME NEW t \in Producers, NEW m \in Msgs, Log(t, m) PROVE QueueOK'
  BY <1>3 DEF Log
<1>4. ASSUME NEW t \in Threads, PosterStep(t) PROVE QueueOK'
  <2>1. CASE Enqueue(t)
    <3>1. item[t] \in Items
      BY DEF ItemOK
    <3> QED BY <2>1, <3>1, PushBackIs DEF Enqueue
  <2>2. CASE ~Enqueue(t)
    BY <1>4, <2>2 DEF PosterStep, AwaitRoom, Notify, Logged, Join, SpuriousRoom
  <2> QED BY <2>1, <2>2
<1>5. CASE UNCHANGED vars
  BY <1>5 DEF vars
<1> QED BY <1>1, <1>2, <1>3, <1>4, <1>5, StepCases

LEMMA SetsStep == SetsOK /\ [Next]_vars => SetsOK'
<1> SUFFICES ASSUME SetsOK, [Next]_vars PROVE SetsOK'
  OBVIOUS
<1> USE DEF SetsOK, sets
<1>1. ASSUME NEW w \in Workers, AnyWorkerStep(w) PROVE SetsOK'
  BY <1>1 DEF AnyWorkerStep, Spawn, Sleep, Dequeue, Room, Process, WakeUp
<1>2. ASSUME OwnerStep PROVE SetsOK'
  BY <1>2 DEF OwnerStep, SpawnThrows, Constructed, Drop
<1>3. ASSUME NEW t \in Producers, NEW m \in Msgs, Log(t, m) PROVE SetsOK'
  BY <1>3 DEF Log
<1>4. ASSUME NEW t \in Threads, PosterStep(t) PROVE SetsOK'
  BY <1>4 DEF PosterStep, AwaitRoom, Enqueue, Notify, Logged, Join, SpuriousRoom
<1>5. CASE UNCHANGED vars
  BY <1>5 DEF vars
<1> QED BY <1>1, <1>2, <1>3, <1>4, <1>5, StepCases

LEMMA TypesStep == Types /\ [Next]_vars => Types'
  BY PcStep, ItemStep, WorkerStepOK, QueueStep, SetsStep DEF Types

-------------------------------------------------------------------------------
(* Who holds the pool, posts to it or destroys it. *)

\* A thread inside the destructor.
Destroys(t) == item[t] = Terminate \/ pc[t] = "join"

\* A thread has an item where the code has one, and a reference from the
\* lock() to the release of the pointer.
Holding ==
  \A t \in Threads :
    /\ item[t] # Blank <=> pc[t] \in PostPc
    /\ pc[t] \in OwnerPc => t = Owner
    /\ t \in refs <=> pc[t] \in {"ctor", "open", "release"} \/ item[t] \in Msgs

\* Nobody logs before the pool is made, or when it was not.
Early == ~Usable => \A t \in Producers : pc[t] = "idle"

\* One destructor at a time, with no reference left; when it is over the
\* workers are.
Alone ==
  /\ \A t \in Threads : Destroys(t) => refs = {}
  /\ \A t, u \in Threads : Destroys(t) /\ Destroys(u) => t = u
  /\ refs = {} /\ (\A t \in Threads : ~Destroys(t)) => \A w \in Workers : wpc[w] = "exited"

Places == Holding /\ Early /\ Alone

LEMMA PlacesInit == Init => Places
  BY AsyncAssumption DEF Init, Places, Holding, Early, Alone, Destroys, Usable, Threads,
                         PostPc, OwnerPc

LEMMA HoldingStep == PcOK /\ ItemOK /\ Holding /\ Early /\ [Next]_vars => Holding'
<1> SUFFICES ASSUME PcOK, ItemOK, Holding, Early, [Next]_vars PROVE Holding'
  OBVIOUS
<1> USE AsyncAssumption
    DEF PcOK, ItemOK, Items, Holding, Threads, PostPc, OwnerPc, Goto, posting
<1>1. ASSUME NEW w \in Workers, AnyWorkerStep(w) PROVE Holding'
  BY <1>1 DEF AnyWorkerStep, Spawn, Sleep, Dequeue, Room, Process, WakeUp
<1>2. ASSUME OwnerStep PROVE Holding'
  <2>1. CASE SpawnThrows
    BY <2>1 DEF SpawnThrows, Early, Usable
  <2>2. CASE Constructed
    BY <2>2 DEF Constructed
  <2>3. CASE Drop
    BY <2>3 DEF Drop, Release
  <2> QED BY <1>2, <2>1, <2>2, <2>3 DEF OwnerStep
<1>3. ASSUME NEW t \in Producers, NEW m \in Msgs, Log(t, m) PROVE Holding'
  BY <1>3 DEF Log
<1>4. ASSUME NEW t \in Threads, PosterStep(t) PROVE Holding'
  <2>1. CASE AwaitRoom(t) \/ Enqueue(t) \/ SpuriousRoom(t)
    BY <2>1 DEF AwaitRoom, Enqueue, SpuriousRoom
  <2>2. CASE Notify(t)
    BY <2>2 DEF Notify
  <2>3. CASE Logged(t)
    BY <2>3 DEF Logged, Release
  <2>4. CASE Join(t)
    BY <2>4 DEF Join
  <2> QED BY <1>4, <2>1, <2>2, <2>3, <2>4 DEF PosterStep
<1>5. CASE UNCHANGED vars
  BY <1>5 DEF vars
<1> QED BY <1>1, <1>2, <1>3, <1>4, <1>5, StepCases

LEMMA EarlyStep == PcOK /\ Early /\ [Next]_vars => Early'
<1> SUFFICES ASSUME PcOK, Early, [Next]_vars PROVE Early'
  OBVIOUS
<1> USE AsyncAssumption DEF PcOK, Early, Usable, Threads, PostPc, OwnerPc, Goto
<1>1. ASSUME NEW w \in Workers, AnyWorkerStep(w) PROVE Early'
  BY <1>1 DEF AnyWorkerStep, Spawn, Sleep, Dequeue, Room, Process, WakeUp
<1>2. ASSUME OwnerStep PROVE Early'
  BY <1>2 DEF OwnerStep, SpawnThrows, Constructed, Drop, Release
<1>3. ASSUME NEW t \in Producers, NEW m \in Msgs, Log(t, m) PROVE Early'
  BY <1>3 DEF Log, Usable
<1>4. ASSUME NEW t \in Threads, PosterStep(t) PROVE Early'
  BY <1>4 DEF PosterStep, AwaitRoom, Enqueue, Notify, Logged, Release, Join, SpuriousRoom
<1>5. CASE UNCHANGED vars
  BY <1>5 DEF vars
<1> QED BY <1>1, <1>2, <1>3, <1>4, <1>5, StepCases

LEMMA AloneStep ==
  PcOK /\ ItemOK /\ WorkerOK /\ Places /\ [Next]_vars => Alone'
<1> SUFFICES ASSUME PcOK, ItemOK, WorkerOK, Places, [Next]_vars PROVE Alone'
  OBVIOUS
<1> USE AsyncAssumption
    DEF PcOK, ItemOK, Items, WorkerOK, Places, Holding, Alone, Destroys, Threads, PostPc, OwnerPc, WorkerPc,
        Goto, posting
<1>1. ASSUME NEW w \in Workers, AnyWorkerStep(w) PROVE Alone'
  <2>1. CASE Spawn(w)
    BY <2>1 DEF Spawn
  <2>2. CASE Sleep(w) \/ Dequeue(w) \/ Process(w) \/ WakeUp(w)
    BY <2>2 DEF Sleep, Dequeue, Process, WakeUp
  <2>3. CASE Room(w)
    BY <2>3 DEF Room
  <2> QED BY <1>1, <2>1, <2>2, <2>3 DEF AnyWorkerStep
<1>2. ASSUME OwnerStep PROVE Alone'
  <2>1. CASE SpawnThrows
    BY <2>1 DEF SpawnThrows
  <2>2. CASE Constructed
    BY <2>2 DEF Constructed
  <2>3. CASE Drop
    BY <2>3 DEF Drop, Release
  <2> QED BY <1>2, <2>1, <2>2, <2>3 DEF OwnerStep
<1>3. ASSUME NEW t \in Producers, NEW m \in Msgs, Log(t, m) PROVE Alone'
  BY <1>3 DEF Log, working
<1>4. ASSUME NEW t \in Threads, PosterStep(t) PROVE Alone'
  <2>1. CASE AwaitRoom(t) \/ Enqueue(t) \/ SpuriousRoom(t)
    BY <2>1 DEF AwaitRoom, Enqueue, SpuriousRoom, working
  <2>2. CASE Notify(t)
    BY <2>2 DEF Notify
  <2>3. CASE Logged(t)
    BY <2>3 DEF Logged, Release, working
  <2>4. CASE Join(t)
    BY <2>4 DEF Join, working
  <2> QED BY <1>4, <2>1, <2>2, <2>3, <2>4 DEF PosterStep
<1>5. CASE UNCHANGED vars
  BY <1>5 DEF vars
<1> QED BY <1>1, <1>2, <1>3, <1>4, <1>5, StepCases

LEMMA PlacesHold == Spec => [](Types /\ Places)
<1>1. Init => Types /\ Places
  BY TypesInit, PlacesInit
<1>2. Types /\ Places /\ [Next]_vars => (Types /\ Places)'
  BY TypesStep, HoldingStep, EarlyStep, AloneStep DEF Types, Places
<1> QED BY <1>1, <1>2, PTL DEF Spec

\* Nobody uses a pool that is gone, and nobody logs to one that is destroyed.
THEOREM NoUseAfterFreeHolds == Spec => []NoUseAfterFree
<1>1. Types /\ Places => NoUseAfterFree
  <2> SUFFICES ASSUME Types, Places PROVE NoUseAfterFree
    OBVIOUS
  <2> USE AsyncAssumption DEF Types, ItemOK, Items, Places, Holding, Alone, Destroys, Threads
  <2>1. ASSUME Gone
        PROVE  /\ \A t \in Threads : pc[t] \notin PostPc \cup {"release"}
               /\ \A w \in Workers : wpc[w] = "exited"
    BY <2>1 DEF Gone, Dying, PostPc
  <2>2. ASSUME Dying, NEW t \in Threads PROVE item[t] \notin Msgs
    BY <2>2 DEF Dying
  <2> QED BY <2>1, <2>2 DEF NoUseAfterFree
<1> QED BY <1>1, PlacesHold, PTL

\* There are terminate messages left as long as the destructor posts one.
LeftOK ==
  /\ left \in 0 .. Cardinality(Workers)
  /\ \A t \in Threads : item[t] = Terminate => left > 0

LEMMA SomeWorkers == Cardinality(Workers) \in Nat \ {0}
  BY AsyncAssumption, FS_EmptySet, FS_CardinalityType

LEMMA LeftStep == ItemOK /\ Places /\ LeftOK /\ [Next]_vars => LeftOK'
<1> SUFFICES ASSUME ItemOK, Places, LeftOK, [Next]_vars PROVE LeftOK'
  OBVIOUS
<1> USE AsyncAssumption, SomeWorkers DEF ItemOK, Items, Places, LeftOK, Threads, posting
<1>1. ASSUME NEW w \in Workers, AnyWorkerStep(w) PROVE LeftOK'
  BY <1>1 DEF AnyWorkerStep, Spawn, Sleep, Dequeue, Room, Process, WakeUp
<1>2. ASSUME OwnerStep PROVE LeftOK'
  BY <1>2 DEF OwnerStep, SpawnThrows, Constructed, Drop, Release
<1>3. ASSUME NEW t \in Producers, NEW m \in Msgs, Log(t, m) PROVE LeftOK'
  BY <1>3 DEF Log
<1>4. ASSUME NEW t \in Threads, PosterStep(t) PROVE LeftOK'
  <2>1. CASE AwaitRoom(t) \/ Enqueue(t) \/ SpuriousRoom(t) \/ Join(t)
    BY <2>1 DEF AwaitRoom, Enqueue, SpuriousRoom, Join
  <2>2. CASE Notify(t)
    BY <2>2 DEF Notify, Alone, Destroys
  <2>3. CASE Logged(t)
    BY <2>3 DEF Logged, Release
  <2> QED BY <1>4, <2>1, <2>2, <2>3 DEF PosterStep
<1>5. CASE UNCHANGED vars
  BY <1>5 DEF vars
<1> QED BY <1>1, <1>2, <1>3, <1>4, <1>5, StepCases

LEMMA LeftHolds == Spec => []LeftOK
<1>1. Init => LeftOK
  BY SomeWorkers, AsyncAssumption DEF Init, LeftOK, Threads
<1>2. ItemOK /\ Places /\ LeftOK /\ [Next]_vars => LeftOK'
  BY LeftStep
<1>3. Types => ItemOK
  BY DEF Types
<1> QED BY <1>1, <1>2, <1>3, PlacesHold, PTL DEF Spec

\* Type correctness, with the queue a well-formed ring buffer.
THEOREM TypeCorrect == Spec => []TypeOK
<1>1. Types /\ LeftOK => TypeOK
  <2> SUFFICES ASSUME Types, LeftOK PROVE TypeOK
    OBVIOUS
  <2>1. q.max = QSize + 1 /\ {q.head, q.tail} \subseteq 0 .. QSize
        /\ q.v \in [0 .. QSize -> Items]
    BY Members DEF Types, QueueOK
  <2> QED BY <2>1 DEF Types, LeftOK, PcOK, ItemOK, Items, WorkerOK, SetsOK, TypeOK
<1> QED BY <1>1, PlacesHold, LeftHolds, PTL

-------------------------------------------------------------------------------
(* No lost wakeup. *)

\* How many of the threads T are at one of the places L.
Count(T, f, L) == Cardinality({x \in T : f[x] \in L})

LEMMA CountNat ==
  ASSUME NEW T, IsFiniteSet(T), NEW f, NEW L
  PROVE  Count(T, f, L) \in Nat
<1>1. IsFiniteSet({x \in T : f[x] \in L})
  BY FS_Subset
<1> QED BY <1>1, FS_CardinalityType DEF Count

LEMMA CountSome ==
  ASSUME NEW T, IsFiniteSet(T), NEW f, NEW L, NEW x \in T, f[x] \in L
  PROVE  Count(T, f, L) > 0
<1>1. IsFiniteSet({y \in T : f[y] \in L})
  BY FS_Subset
<1>2. Cardinality({y \in T : f[y] \in L}) # 0
  BY <1>1, FS_EmptySet
<1> QED BY <1>1, <1>2, FS_CardinalityType DEF Count

\* One thread goes from one place to another.
LEMMA CountMoves ==
  ASSUME NEW T, IsFiniteSet(T), NEW f, NEW g, NEW L, NEW x \in T,
         \A y \in T : y # x => g[y] = f[y]
  PROVE  /\ f[x] \in L /\ g[x] \notin L => Count(T, g, L) = Count(T, f, L) - 1
         /\ f[x] \notin L /\ g[x] \in L => Count(T, g, L) = Count(T, f, L) + 1
         /\ (f[x] \in L <=> g[x] \in L) => Count(T, g, L) = Count(T, f, L)
<1> DEFINE A == {y \in T : f[y] \in L}
           B == {y \in T : g[y] \in L}
<1>1. IsFiniteSet(A) /\ IsFiniteSet(B)
  BY FS_Subset
<1>2. ASSUME f[x] \in L, g[x] \notin L PROVE Cardinality(B) = Cardinality(A) - 1
  <2>1. B = A \ {x} /\ x \in A
    BY <1>2
  <2> QED BY <1>1, <2>1, FS_RemoveElement
<1>3. ASSUME f[x] \notin L, g[x] \in L PROVE Cardinality(B) = Cardinality(A) + 1
  <2>1. B = A \cup {x} /\ x \notin A
    BY <1>3
  <2> QED BY <1>1, <2>1, FS_AddElement
<1>4. ASSUME f[x] \in L <=> g[x] \in L PROVE B = A
  BY <1>4
<1> QED BY <1>2, <1>3, <1>4 DEF Count

LEMMA Finite == IsFiniteSet(Threads) /\ IsFiniteSet(Workers)
  BY AsyncAssumption, FS_AddElement DEF Threads

LEMMA ThreadMoves ==
  ASSUME PcOK, NEW t \in Threads, NEW l, Goto(t, l), NEW L
  PROVE  /\ Count(Threads, pc, L) \in Nat /\ Count(Threads, pc', L) \in Nat
         /\ pc[t] \in L /\ l \notin L => Count(Threads, pc', L) = Count(Threads, pc, L) - 1
         /\ pc[t] \notin L /\ l \in L => Count(Threads, pc', L) = Count(Threads, pc, L) + 1
         /\ (pc[t] \in L <=> l \in L) => Count(Threads, pc', L) = Count(Threads, pc, L)
<1>1. pc'[t] = l /\ \A u \in Threads : u # t => pc'[u] = pc[u]
  BY DEF Goto, PcOK
<1> QED BY <1>1, CountMoves, CountNat, Finite

WorkerGoto(w, l) == wpc' = [wpc EXCEPT ![w] = l]

LEMMA WorkerMoves ==
  ASSUME WorkerOK, NEW w \in Workers, NEW l, WorkerGoto(w, l), NEW L
  PROVE  /\ Count(Workers, wpc, L) \in Nat /\ Count(Workers, wpc', L) \in Nat
         /\ wpc[w] \in L /\ l \notin L => Count(Workers, wpc', L) = Count(Workers, wpc, L) - 1
         /\ wpc[w] \notin L /\ l \in L => Count(Workers, wpc', L) = Count(Workers, wpc, L) + 1
         /\ (wpc[w] \in L <=> l \in L) => Count(Workers, wpc', L) = Count(Workers, wpc, L)
<1>1. wpc'[w] = l /\ \A v \in Workers : v # w => wpc'[v] = wpc[v]
  BY DEF WorkerGoto, WorkerOK
<1> QED BY <1>1, CountMoves, CountNat, Finite

\* PushNoticed and PopNoticed with these counts.
Notifying == Count(Threads, pc, {"notify"})
Looking == Count(Workers, wpc, {"top", "woken"})
Making == Count(Workers, wpc, {"room"})
Trying == Count(Threads, pc, {"post"})
PushSeen == (\E w \in Workers : wpc[w] = "wait") => Size(q) <= Notifying + Looking
PopSeen == (\E t \in Threads : pc[t] = "room") => QSize - Size(q) <= Making + Trying

LEMMA Noticed == NoLostWakeup <=> PushSeen /\ PopSeen
<1>1. /\ Notifying = Cardinality({t \in Threads : pc[t] = "notify"})
      /\ Trying = Cardinality({t \in Threads : pc[t] = "post"})
      /\ Making = Cardinality({w \in Workers : wpc[w] = "room"})
      /\ Looking = Cardinality(Awake)
  <2>1. /\ {x \in Threads : pc[x] \in {"notify"}} = {t \in Threads : pc[t] = "notify"}
        /\ {x \in Threads : pc[x] \in {"post"}} = {t \in Threads : pc[t] = "post"}
        /\ {x \in Workers : wpc[x] \in {"room"}} = {w \in Workers : wpc[w] = "room"}
    OBVIOUS
  <2> QED BY <2>1 DEF Notifying, Looking, Making, Trying, Count, Awake
<1> QED BY <1>1 DEF NoLostWakeup, PushNoticed, PopNoticed, PushSeen, PopSeen

LEMMA SizeInQueue == QueueOK => Size(q) \in 0 .. QSize /\ (Full(q) <=> Size(q) = QSize)
                                /\ (IsEmpty(q) <=> Size(q) = 0)
  BY AsyncAssumption, SizeIs, FullIs DEF QueueOK

LEMMA CountsNat ==
  /\ Notifying \in Nat /\ Looking \in Nat /\ Making \in Nat /\ Trying \in Nat
  /\ Notifying' \in Nat /\ Looking' \in Nat /\ Making' \in Nat /\ Trying' \in Nat
  BY CountNat, Finite DEF Notifying, Looking, Making, Trying

\* A worker's step: what it takes from the queue it no longer looks for.
LEMMA WorkerSeen ==
  ASSUME PcOK, WorkerOK, QueueOK, PushSeen, PopSeen,
         NEW w \in Workers, AnyWorkerStep(w)
  PROVE  PushSeen' /\ PopSeen'
<1> USE AsyncAssumption DEF PushSeen, PopSeen
<1>0. /\ Size(q) \in 0 .. QSize /\ (IsEmpty(q) <=> Size(q) = 0)
      /\ Notifying \in Nat /\ Looking \in Nat /\ Making \in Nat /\ Trying \in Nat
  BY SizeInQueue, CountsNat
<1>1. ASSUME wpc[w] \notin {"top", "woken", "room"}, pc' = pc, q' = q,
             WorkerGoto(w, "top") \/ WorkerGoto(w, "woken")
      PROVE  PushSeen' /\ PopSeen'
  <2>1. Looking' = Looking + 1 /\ Making' = Making
    BY <1>1, WorkerMoves DEF Looking, Making
  <2>2. Notifying' = Notifying /\ Trying' = Trying
    BY <1>1 DEF Notifying, Trying
  <2>3. \A v \in Workers : wpc'[v] = "wait" => wpc[v] = "wait"
    BY <1>1 DEF WorkerOK, WorkerGoto
  <2> QED BY <1>0, <1>1, <2>1, <2>2, <2>3
<1>2. CASE Spawn(w) \/ WakeUp(w)
  BY <1>1, <1>2 DEF Spawn, WakeUp, WorkerGoto
<1>3. CASE Sleep(w)
  <2>1. Making' = Making /\ Trying' = Trying /\ Looking' \in Nat /\ Notifying' \in Nat
    <3>1. WorkerGoto(w, "wait") /\ wpc[w] # "room" /\ pc' = pc
      BY <1>3 DEF Sleep, WorkerGoto
    <3>2. Trying' = Trying
      BY <3>1 DEF Trying
    <3>3. Making' = Making
      BY <3>1, WorkerMoves DEF Making
    <3> QED BY <3>2, <3>3, CountsNat
  <2>2. q' = q /\ pc' = pc /\ Size(q) = 0
    BY <1>0, <1>3 DEF Sleep
  <2>3. Size(q') = 0
    BY <2>2
  <2>4. Notifying' \in Nat /\ Looking' \in Nat
    BY CountsNat
  <2>5. Size(q') <= Notifying' + Looking'
    <3>1. \A a, b \in Nat : 0 <= a + b
      OBVIOUS
    <3> QED BY <2>3, <2>4, <3>1, Zenon
  <2> QED BY <2>1, <2>2, <2>5
<1>4. CASE Dequeue(w)
  <2>1. Size(q') = Size(q) - 1
    BY <1>4, MoveFrontIs DEF Dequeue, QueueOK, Items
  <2>2. Looking' = Looking - 1 /\ Making' = Making + 1
    <3>1. WorkerGoto(w, "room") /\ wpc[w] \in {"top", "woken"}
      BY <1>4 DEF Dequeue, WorkerGoto
    <3> QED BY <3>1, WorkerMoves DEF Looking, Making
  <2>3. Notifying' = Notifying /\ Trying' = Trying /\ pc' = pc
    BY <1>4 DEF Dequeue, Notifying, Trying
  <2>4. \A v \in Workers : wpc'[v] = "wait" => wpc[v] = "wait"
    BY <1>4 DEF Dequeue, WorkerOK
  <2> QED BY <1>0, <2>1, <2>2, <2>3, <2>4
<1>5. CASE Room(w)
  <2>1. Looking' = Looking /\ Making' = Making - 1 /\ q' = q
    <3>1. WorkerGoto(w, "process") /\ wpc[w] = "room" /\ q' = q
      BY <1>5 DEF Room, WorkerGoto
    <3> QED BY <3>1, WorkerMoves DEF Looking, Making
  <2>2. \A v \in Workers : wpc'[v] = "wait" => wpc[v] = "wait"
    BY <1>5 DEF Room, WorkerOK
  <2>3. CASE \A t \in Threads : pc[t] # "room"
    <3>1. pc' = pc
      BY <1>5, <2>3 DEF Room
    <3>2. Notifying' = Notifying
      BY <3>1 DEF Notifying
    <3> QED BY <1>0, <2>1, <2>2, <2>3, <3>1, <3>2
  <2>4. CASE \E t \in Threads : pc[t] = "room"
    <3>1. PICK t \in Threads : pc[t] = "room" /\ Goto(t, "post")
      BY <1>5, <2>4 DEF Room
    <3>2. Notifying' = Notifying /\ Trying' = Trying + 1
      BY <3>1, ThreadMoves DEF Notifying, Trying
    <3> QED BY <1>0, <2>1, <2>2, <2>4, <3>2
  <2> QED BY <2>3, <2>4
<1>6. CASE Process(w)
  <2>1. Looking' \in {Looking, Looking + 1} /\ Making' = Making
    <3>1. PICK l \in {"exited", "top"} : WorkerGoto(w, l)
      BY <1>6 DEF Process, WorkerGoto
    <3>2. wpc[w] = "process"
      BY <1>6 DEF Process
    <3> QED BY <3>1, <3>2, WorkerMoves DEF Looking, Making
  <2>2. Notifying' = Notifying /\ Trying' = Trying /\ pc' = pc /\ q' = q
    BY <1>6 DEF Process, Notifying, Trying
  <2>3. \A v \in Workers : wpc'[v] = "wait" => wpc[v] = "wait"
    BY <1>6 DEF Process, WorkerOK
  <2> QED BY <1>0, <2>1, <2>2, <2>3
<1> QED BY AnyWorkerStep(w), <1>2, <1>3, <1>4, <1>5, <1>6 DEF AnyWorkerStep

\* A posting thread's step: what it puts into the queue it will notify of.
LEMMA PosterSeen ==
  ASSUME PcOK, ItemOK, WorkerOK, QueueOK, PushSeen, PopSeen,
         NEW t \in Threads, PosterStep(t)
  PROVE  PushSeen' /\ PopSeen'
<1> USE AsyncAssumption DEF PushSeen, PopSeen
<1>0. /\ Size(q) \in 0 .. QSize /\ (Full(q) <=> Size(q) = QSize)
      /\ Notifying \in Nat /\ Looking \in Nat /\ Making \in Nat /\ Trying \in Nat
      /\ Notifying' \in Nat /\ Looking' \in Nat /\ Making' \in Nat /\ Trying' \in Nat
  BY SizeInQueue, CountsNat
<1>1. CASE AwaitRoom(t)
  <2>1. Notifying' = Notifying
    BY <1>1, ThreadMoves DEF AwaitRoom, Notifying
  <2>2. Looking' = Looking /\ wpc' = wpc /\ q' = q /\ Size(q) = QSize
    BY <1>0, <1>1 DEF AwaitRoom, working, Looking
  <2> QED BY <1>0, <2>1, <2>2
<1>2. CASE Enqueue(t)
  <2>1. Size(q') = IF Full(q) THEN Size(q) ELSE Size(q) + 1
    BY <1>2, PushBackIs DEF Enqueue, QueueOK, ItemOK
  <2>2. Notifying' = Notifying + 1 /\ Trying' = Trying - 1
    BY <1>2, ThreadMoves DEF Enqueue, Notifying, Trying
  <2>3. Looking' = Looking /\ Making' = Making /\ wpc' = wpc
    BY <1>2 DEF Enqueue, working, Looking, Making
  <2>4. \A u \in Threads : pc'[u] = "room" => pc[u] = "room"
    BY <1>2 DEF Enqueue, Goto, PcOK
  <2> QED BY <1>0, <2>1, <2>2, <2>3, <2>4
<1>3. CASE Notify(t)
  <2>1. PICK l \in {"release", "post", "join"} : Goto(t, l)
    BY <1>3 DEF Notify
  <2>2. Notifying' = Notifying - 1 /\ Trying' \in {Trying, Trying + 1} /\ q' = q
    BY <1>3, <2>1, ThreadMoves DEF Notify, Notifying, Trying
  <2>3. \A u \in Threads : pc'[u] = "room" => pc[u] = "room"
    BY <2>1 DEF Goto, PcOK
  <2>4. CASE \A w \in Workers : wpc[w] # "wait"
    <3>1. wpc' = wpc
      BY <1>3, <2>4 DEF Notify
    <3>2. Making' = Making
      BY <3>1 DEF Making
    <3> QED BY <1>0, <2>2, <2>3, <2>4, <3>1, <3>2
  <2>5. CASE \E w \in Workers : wpc[w] = "wait"
    <3>1. PICK w \in Workers : wpc[w] = "wait" /\ WorkerGoto(w, "woken")
      BY <1>3, <2>5 DEF Notify, WorkerGoto
    <3>2. Looking' = Looking + 1 /\ Making' = Making
      BY <3>1, WorkerMoves DEF Looking, Making
    <3> QED BY <1>0, <2>2, <2>3, <2>5, <3>2
  <2> QED BY <2>4, <2>5
<1>4. CASE Logged(t) \/ Join(t)
  <2>1. PICK l \in {"idle", "post"} : Goto(t, l)
    BY <1>4 DEF Logged, Release, Join
  <2>2. pc[t] \in {"release", "join"}
    BY <1>4 DEF Logged, Join
  <2>3. Notifying' = Notifying /\ Trying' \in {Trying, Trying + 1}
    BY <2>1, <2>2, ThreadMoves DEF Notifying, Trying
  <2>4. wpc' = wpc /\ q' = q
    BY <1>4 DEF Logged, Join, working
  <2>5. Looking' = Looking /\ Making' = Making
    BY <2>4 DEF Looking, Making
  <2>6. \A u \in Threads : pc'[u] = "room" => pc[u] = "room"
    BY <2>1 DEF Goto, PcOK
  <2> QED BY <1>0, <2>3, <2>4, <2>5, <2>6
<1>5. CASE SpuriousRoom(t)
  <2>1. Notifying' = Notifying /\ Trying' = Trying + 1
    BY <1>5, ThreadMoves DEF SpuriousRoom, Notifying, Trying
  <2>2. Looking' = Looking /\ Making' = Making /\ wpc' = wpc /\ q' = q
    BY <1>5 DEF SpuriousRoom, working, Looking, Making
  <2>3. \A u \in Threads : pc'[u] = "room" => pc[u] = "room"
    BY <1>5 DEF SpuriousRoom, Goto, PcOK
  <2> QED BY <1>0, <2>1, <2>2, <2>3
<1> QED BY PosterStep(t), <1>1, <1>2, <1>3, <1>4, <1>5 DEF PosterStep

LEMMA SeenStep ==
  ASSUME Types, Places, PushSeen, PopSeen, [Next]_vars
  PROVE  PushSeen' /\ PopSeen'
<1> USE DEF Types
<1>0. Looking \in Nat /\ Trying \in Nat /\ Notifying \in Nat /\ Making \in Nat
  BY CountsNat
<1>1. ASSUME NEW w \in Workers, AnyWorkerStep(w) PROVE PushSeen' /\ PopSeen'
  BY <1>1, WorkerSeen
<1>2. ASSUME NEW t \in Threads, PosterStep(t) PROVE PushSeen' /\ PopSeen'
  BY <1>2, PosterSeen
<1>3. ASSUME wpc' = wpc, q' = q, NEW t \in Threads, pc[t] # "notify",
             \E l \in {"open", "idle", "post"} : Goto(t, l), pc[t] # "post"
      PROVE  PushSeen' /\ PopSeen'
  <2>1. PICK l \in {"open", "idle", "post"} : Goto(t, l)
    BY <1>3
  <2>2. Notifying' = Notifying /\ Trying' \in {Trying, Trying + 1}
    BY <1>3, <2>1, ThreadMoves DEF Notifying, Trying
  <2>3. Looking' = Looking /\ Making' = Making
    BY <1>3 DEF Looking, Making
  <2>4. \A u \in Threads : pc'[u] = "room" => pc[u] = "room"
    BY <2>1 DEF Goto, PcOK
  <2>5. Size(q) \in 0 .. QSize
    BY SizeInQueue
  <2> QED BY <1>0, <1>3, <2>2, <2>3, <2>4, <2>5, AsyncAssumption DEF PushSeen, PopSeen
<1>4. ASSUME OwnerStep PROVE PushSeen' /\ PopSeen'
  <2>1. CASE SpawnThrows
    <3>1. \A w \in Workers : wpc'[w] # "wait"
      BY <2>1 DEF SpawnThrows
    <3>2. \A t \in Threads : pc'[t] # "room"
      BY <2>1, AsyncAssumption DEF SpawnThrows, Goto, Threads, PcOK, Places, Early, Usable
    <3> QED BY <3>1, <3>2 DEF PushSeen, PopSeen
  <2>2. CASE Constructed
    BY <1>3, <2>2 DEF Constructed, working, Threads
  <2>3. CASE Drop
    BY <1>3, <2>3 DEF Drop, Release, working, Threads
  <2> QED BY <1>4, <2>1, <2>2, <2>3 DEF OwnerStep
<1>5. ASSUME NEW t \in Producers, NEW m \in Msgs, Log(t, m) PROVE PushSeen' /\ PopSeen'
  <2>1. CASE pc' = pc
    <3>1. wpc' = wpc /\ q' = q
      BY <1>5 DEF Log, working
    <3>2. Notifying' = Notifying /\ Looking' = Looking /\ Making' = Making /\ Trying' = Trying
      BY <2>1, <3>1 DEF Notifying, Looking, Making, Trying
    <3> QED BY <2>1, <3>1, <3>2 DEF PushSeen, PopSeen
  <2>2. CASE Goto(t, "post")
    BY <1>3, <1>5, <2>2 DEF Log, working, Threads
  <2> QED BY <1>5, <2>1, <2>2 DEF Log
<1>6. CASE UNCHANGED vars
  <2>1. wpc' = wpc /\ q' = q /\ pc' = pc
    BY <1>6 DEF vars
  <2>2. Notifying' = Notifying /\ Looking' = Looking /\ Making' = Making /\ Trying' = Trying
    BY <2>1 DEF Notifying, Looking, Making, Trying
  <2> QED BY <2>1, <2>2 DEF PushSeen, PopSeen
<1> QED BY <1>1, <1>2, <1>4, <1>5, <1>6, StepCases

\* Neither condition variable loses a wakeup: a thread sleeps only as long as
\* there is nothing for it that another is not on its way to.
THEOREM NoLostWakeupHolds == Spec => []NoLostWakeup
<1>1. Init => PushSeen /\ PopSeen
  BY AsyncAssumption DEF Init, PushSeen, PopSeen, Threads
<1>2. Types /\ Places /\ PushSeen /\ PopSeen /\ [Next]_vars => (PushSeen /\ PopSeen)'
  BY SeenStep
<1>3. PushSeen /\ PopSeen => NoLostWakeup
  BY Noticed
<1> QED BY <1>1, <1>2, <1>3, PlacesHold, PTL DEF Spec

-------------------------------------------------------------------------------
(* Sequences of messages: those that end the workers come last, and each   *)
(* request is there once.                                                  *)

\* The last k messages of c, and no others, end a worker.
EndsIn(c, k) ==
  /\ k \in 0 .. Len(c)
  /\ \A i \in 1 .. Len(c) : c[i] = Terminate <=> i > Len(c) - k

\* The requests in c, each there once.
RequestsIn(c) == {m \in Msgs : \E i \in DOMAIN c : c[i] = m}
Once(c) ==
  /\ \A i \in 1 .. Len(c) : c[i] # Blank
  /\ \A i, j \in 1 .. Len(c) : i # j /\ c[i] \in Msgs => c[i] # c[j]

LEMMA EndsCounted ==
  ASSUME NEW c \in Seq(Items), NEW k, EndsIn(c, k)
  PROVE  Cardinality({i \in DOMAIN c : c[i] = Terminate}) = k
<1>1. {i \in DOMAIN c : c[i] = Terminate} = (Len(c) - k + 1) .. Len(c)
  BY DEF EndsIn
<1>2. Len(c) \in Nat /\ k \in 0 .. Len(c)
  BY DEF EndsIn
<1>3. Cardinality((Len(c) - k + 1) .. Len(c)) = k
  <2>1. Len(c) - k + 1 \in Int /\ Len(c) \in Int
    BY <1>2
  <2>2. Cardinality((Len(c) - k + 1) .. Len(c))
          = IF Len(c) - k + 1 > Len(c) THEN 0 ELSE Len(c) - (Len(c) - k + 1) + 1
    BY <2>1, FS_Interval
  <2> QED BY <1>2, <2>2
<1> QED BY <1>1, <1>3

LEMMA EndsAppend ==
  ASSUME NEW c \in Seq(Items), NEW x \in Items, NEW k, EndsIn(c, k)
  PROVE  /\ x = Terminate => EndsIn(Append(c, x), k + 1)
         /\ x # Terminate /\ k = 0 => EndsIn(Append(c, x), 0)
  BY DEF EndsIn

LEMMA EndsTail ==
  ASSUME NEW c \in Seq(Items), Len(c) > 0, NEW k, EndsIn(c, k)
  PROVE  /\ Head(c) = Terminate <=> k = Len(c)
         /\ Head(c) = Terminate => EndsIn(Tail(c), k - 1)
         /\ Head(c) # Terminate => EndsIn(Tail(c), k)
<1> DEFINE d == Tail(c)
           n == Len(c)
<1>1. /\ Head(c) = c[1] /\ Len(d) = n - 1 /\ n \in Nat
      /\ \A i \in 1 .. n - 1 : d[i] = c[i + 1]
  OBVIOUS
<1>2. k \in 0 .. n /\ \A i \in 1 .. n : c[i] = Terminate <=> i > n - k
  BY DEF EndsIn
<1>3. n > 0
  OBVIOUS
<1> HIDE DEF d, n
<1>4. Head(c) = Terminate <=> k = n
  BY <1>1, <1>2, <1>3
<1>5. \A i \in 1 .. n - 1 : d[i] = Terminate <=> i > n - 1 - k
  BY <1>1, <1>2
<1>6. ASSUME k < n PROVE EndsIn(d, k)
  <2>1. k \in 0 .. Len(d)
    BY <1>1, <1>2, <1>6
  <2>2. \A i \in 1 .. Len(d) : d[i] = Terminate <=> i > Len(d) - k
    BY <1>1, <1>5
  <2> QED BY <2>1, <2>2 DEF EndsIn
<1>7. ASSUME k = n PROVE EndsIn(d, k - 1)
  <2>1. \A i \in 1 .. n - 1 : i > n - 1 - k /\ i > n - 1 - (k - 1)
    BY <1>1, <1>7
  <2>2. k - 1 \in 0 .. n - 1
    BY <1>1, <1>3, <1>7
  <2>3. k - 1 \in 0 .. Len(d)
    BY <1>1, <2>2
  <2>4. \A i \in 1 .. Len(d) : d[i] = Terminate <=> i > Len(d) - (k - 1)
    BY <1>1, <1>5, <2>1
  <2> QED BY <2>3, <2>4 DEF EndsIn
<1>8. k < n \/ k = n
  BY <1>1, <1>2
<1> QED BY <1>4, <1>6, <1>7, <1>8 DEF d, n

LEMMA OnceAppend ==
  ASSUME NEW c \in Seq(Items), NEW x \in Items, Once(c), x # Blank, x \notin RequestsIn(c)
  PROVE  /\ Once(Append(c, x))
         /\ RequestsIn(Append(c, x)) = RequestsIn(c) \cup ({x} \cap Msgs)
<1> DEFINE d == Append(c, x)
<1>1. /\ DOMAIN c = 1 .. Len(c) /\ DOMAIN d = 1 .. Len(c) + 1 /\ Len(d) = Len(c) + 1
      /\ d[Len(c) + 1] = x /\ \A i \in 1 .. Len(c) : d[i] = c[i]
      /\ Len(c) \in Nat
  OBVIOUS
<1> HIDE DEF d
<1>2. Once(d)
  BY <1>1 DEF Once, RequestsIn
<1>3. RequestsIn(d) = RequestsIn(c) \cup ({x} \cap Msgs)
  BY <1>1 DEF RequestsIn
<1> QED BY <1>2, <1>3 DEF d

LEMMA OnceTail ==
  ASSUME NEW c \in Seq(Items), Len(c) > 0, Once(c)
  PROVE  /\ Once(Tail(c)) /\ Head(c) # Blank
         /\ RequestsIn(Tail(c)) = RequestsIn(c) \ {Head(c)}
         /\ Head(c) \in Msgs => Head(c) \in RequestsIn(c)
<1> DEFINE d == Tail(c)
<1>1. /\ DOMAIN c = 1 .. Len(c) /\ DOMAIN d = 1 .. Len(c) - 1 /\ Len(d) = Len(c) - 1
      /\ Head(c) = c[1] /\ \A i \in 1 .. Len(c) - 1 : d[i] = c[i + 1]
      /\ Len(c) \in Nat
  OBVIOUS
<1> HIDE DEF d
<1>2. Once(d) /\ Head(c) # Blank
  BY <1>1 DEF Once
<1>3. \A i \in 2 .. Len(c) : i - 1 \in 1 .. Len(c) - 1 /\ d[i - 1] = c[i]
  BY <1>1
<1>4. RequestsIn(d) \subseteq RequestsIn(c) \ {Head(c)}
  BY <1>1 DEF RequestsIn, Once
<1>5. RequestsIn(c) \ {Head(c)} \subseteq RequestsIn(d)
  <2> SUFFICES ASSUME NEW m \in RequestsIn(c), m # Head(c) PROVE m \in RequestsIn(d)
    OBVIOUS
  <2>1. PICK i \in 2 .. Len(c) : c[i] = m
    BY <1>1 DEF RequestsIn
  <2> QED BY <1>1, <1>3, <2>1 DEF RequestsIn
<1>6. Head(c) \in Msgs => Head(c) \in RequestsIn(c)
  BY <1>1 DEF RequestsIn
<1> QED BY <1>2, <1>4, <1>5, <1>6 DEF d

-------------------------------------------------------------------------------
(* What the steps do to the queue. *)

Line == Contents(q)

LEMMA LineIs ==
  ASSUME QueueOK
  PROVE  /\ Line \in Seq(Items) /\ Len(Line) = Size(q) /\ Len(Line) \in 0 .. QSize
         /\ Full(q) <=> Len(Line) = QSize
         /\ IsEmpty(q) <=> Len(Line) = 0
         /\ Waiting = RequestsIn(Line)
<1>1. Line \in Seq(Items) /\ Len(Line) = Size(q)
  BY AsyncAssumption, ContentsIs DEF QueueOK, Line
<1>2. Waiting = RequestsIn(Line)
  BY DEF Waiting, RequestsIn, Line
<1> QED BY <1>1, <1>2, SizeInQueue

LEMMA Enqueued ==
  ASSUME QueueOK, ItemOK, NEW t \in Threads, Enqueue(t)
  PROVE  /\ Line' = Append(IF Full(q) THEN Tail(Line) ELSE Line, item[t])
         /\ q'.overrun = IF Full(q) THEN q.overrun + 1 ELSE q.overrun
         /\ Full(q) => ~Blocks(item[t])
<1>1. item[t] \in Items /\ q' = PushBack(q, item[t])
  BY DEF ItemOK, Enqueue
<1> QED BY <1>1, AsyncAssumption, PushBackIs, PushBackContents DEF QueueOK, Line, Enqueue

LEMMA Dequeued ==
  ASSUME QueueOK, WorkerOK, NEW w \in Workers, Dequeue(w)
  PROVE  /\ Len(Line) > 0 /\ Line' = Tail(Line)
         /\ q'.overrun = q.overrun
         /\ msg' = [msg EXCEPT ![w] = Head(Line)]
<1>1. q' = MoveFront(q) /\ ~IsEmpty(q) /\ Blank \in Items
  BY DEF Dequeue, Items
<1>2. Front(q) = Head(Line) /\ Line' = Tail(Line) /\ q'.overrun = q.overrun
  BY <1>1, AsyncAssumption, MoveFrontIs DEF QueueOK, Line
<1>3. Len(Line) > 0
  BY <1>1, LineIs
<1> QED BY <1>2, <1>3 DEF Dequeue

\* What other steps leave alone.
Still == q' = q /\ msg' = msg /\ accepted' = accepted /\ written' = written

LEMMA StillCases ==
  [Next]_vars => \/ Still
                 \/ \E t \in Threads : Enqueue(t)
                 \/ \E w \in Workers : Dequeue(w) \/ Process(w)
<1> SUFFICES ASSUME [Next]_vars
             PROVE  \/ Still
                    \/ \E t \in Threads : Enqueue(t)
                    \/ \E w \in Workers : Dequeue(w) \/ Process(w)
  OBVIOUS
<1> USE DEF Still, working, sets
<1>1. ASSUME NEW w \in Workers, AnyWorkerStep(w) PROVE Still \/ Dequeue(w) \/ Process(w)
  BY <1>1 DEF AnyWorkerStep, Spawn, Sleep, Room, WakeUp
<1>2. ASSUME OwnerStep PROVE Still
  BY <1>2 DEF OwnerStep, SpawnThrows, Constructed, Drop
<1>3. ASSUME NEW t \in Producers, NEW m \in Msgs, Log(t, m) PROVE Still
  BY <1>3 DEF Log
<1>4. ASSUME NEW t \in Threads, PosterStep(t) PROVE Still \/ Enqueue(t)
  BY <1>4 DEF PosterStep, AwaitRoom, Notify, Logged, Join, SpuriousRoom
<1>5. CASE UNCHANGED vars
  BY <1>5 DEF vars
<1> QED BY <1>1, <1>2, <1>3, <1>4, <1>5, StepCases

LEMMA StillLine == Still => Line' = Line /\ TerminatesQueued' = TerminatesQueued
                            /\ Waiting' = Waiting /\ Taken' = Taken /\ Lost' = Lost
  BY DEF Still, Line, TerminatesQueued, Waiting, Taken, Lost

\* The last messages in the queue end the workers, each request is there once.
Order == EndsIn(Line, TerminatesQueued) /\ Once(Line)

\* A worker has a message from its taking it to the end of its handling.
Marks == \A w \in Workers : msg[w] # Blank <=> wpc[w] \in {"room", "process"}

\* Nothing happens before the pool is made.
Fresh ==
  /\ ~Usable => Size(q) = 0 /\ \A w \in Workers : msg[w] = Blank
  /\ pc[Owner] = "ctor" => \A w \in Workers : wpc[w] # "exited"

LEMMA MarksStep ==
  ASSUME Types, Order, Marks, Fresh, [Next]_vars
  PROVE  Marks'
<1> USE DEF Types, WorkerOK, Marks, Goto
<1>1. ASSUME NEW w \in Workers, AnyWorkerStep(w) PROVE Marks'
  <2>1. CASE Dequeue(w)
    <3>1. Head(Line) # Blank /\ msg' = [msg EXCEPT ![w] = Head(Line)]
      BY <2>1, Dequeued, LineIs, OnceTail DEF Order
    <3>2. wpc' = [wpc EXCEPT ![w] = "room"]
      BY <2>1 DEF Dequeue
    <3> QED BY <3>1, <3>2
  <2>2. CASE ~Dequeue(w)
    BY <1>1, <2>2 DEF AnyWorkerStep, Spawn, Sleep, Room, Process, WakeUp
  <2> QED BY <2>1, <2>2
<1>2. ASSUME OwnerStep PROVE Marks'
  BY <1>2 DEF OwnerStep, SpawnThrows, Constructed, Drop, working, Fresh, Usable
<1>3. ASSUME NEW t \in Producers, NEW m \in Msgs, Log(t, m) PROVE Marks'
  BY <1>3 DEF Log, working
<1>4. ASSUME NEW t \in Threads, PosterStep(t) PROVE Marks'
  BY <1>4 DEF PosterStep, AwaitRoom, Enqueue, Notify, Logged, Join, SpuriousRoom, working
<1>5. CASE UNCHANGED vars
  BY <1>5 DEF vars
<1> QED BY <1>1, <1>2, <1>3, <1>4, <1>5, StepCases

\* Once it is made it stays so.
LEMMA UsableStep ==
  ASSUME PcOK, ItemOK, Places, [Next]_vars
  PROVE  Usable => Usable'
<1> USE AsyncAssumption DEF PcOK, PostPc, OwnerPc, Usable, Threads, Goto
<1>1. ASSUME NEW w \in Workers, AnyWorkerStep(w) PROVE Usable => Usable'
  BY <1>1 DEF AnyWorkerStep, Spawn, Sleep, Dequeue, Room, Process, WakeUp
<1>2. ASSUME OwnerStep PROVE Usable => Usable'
  BY <1>2 DEF OwnerStep, SpawnThrows, Constructed, Drop, Release
<1>3. ASSUME NEW t \in Producers, NEW m \in Msgs, Log(t, m) PROVE Usable => Usable'
  BY <1>3 DEF Log
<1>4. ASSUME NEW t \in Threads, PosterStep(t) PROVE Usable => Usable'
  BY <1>4 DEF PosterStep, AwaitRoom, Enqueue, Notify, Logged, Release, Join, SpuriousRoom
<1>5. CASE UNCHANGED vars
  BY <1>5 DEF vars
<1> QED BY <1>1, <1>2, <1>3, <1>4, <1>5, StepCases

LEMMA FreshStep ==
  ASSUME Types, Places, Marks, Fresh, [Next]_vars
  PROVE  Fresh'
<1> USE DEF Types
<1>1. ASSUME ~Usable' PROVE Size(q') = 0 /\ \A w \in Workers : msg'[w] = Blank
  <2>1. ~Usable
    BY <1>1, UsableStep
  <2>2. Size(q) = 0 /\ \A w \in Workers : msg[w] = Blank
    BY <2>1 DEF Fresh
  <2>3. CASE Still
    BY <2>2, <2>3 DEF Still
  <2>4. ASSUME NEW t \in Threads, Enqueue(t) PROVE FALSE
    BY <2>1, <2>4 DEF Enqueue, Usable, Places, Early, Threads
  <2>5. ASSUME NEW w \in Workers, Dequeue(w) PROVE FALSE
    BY <2>2, <2>5, LineIs DEF Dequeue
  <2>6. ASSUME NEW w \in Workers, Process(w) PROVE FALSE
    BY <2>2, <2>6 DEF Process, Marks
  <2> QED BY <2>3, <2>4, <2>5, <2>6, StillCases
<1>2. ASSUME pc'[Owner] = "ctor" PROVE \A w \in Workers : wpc'[w] # "exited"
  <2> USE AsyncAssumption DEF PcOK, Threads, Goto, WorkerOK, Fresh
  <2>1. ASSUME NEW w \in Workers, AnyWorkerStep(w) PROVE \A v \in Workers : wpc'[v] # "exited"
    <3>1. pc[Owner] = "ctor" /\ msg[w] = Blank
      BY <1>2, <2>1 DEF AnyWorkerStep, Spawn, Sleep, Dequeue, Room, Process, WakeUp, Usable
    <3> QED BY <2>1, <3>1 DEF AnyWorkerStep, Spawn, Sleep, Dequeue, Room, Process, WakeUp
  <2>2. ASSUME OwnerStep PROVE \A v \in Workers : wpc'[v] # "exited"
    BY <1>2, <2>2 DEF OwnerStep, SpawnThrows, Constructed, Drop, Release
  <2>3. ASSUME NEW t \in Producers, NEW m \in Msgs, Log(t, m)
        PROVE  \A v \in Workers : wpc'[v] # "exited"
    BY <1>2, <2>3 DEF Log, working
  <2>4. ASSUME NEW t \in Threads, PosterStep(t) PROVE \A v \in Workers : wpc'[v] # "exited"
    BY <1>2, <2>4 DEF PosterStep, AwaitRoom, Enqueue, Notify, Logged, Release, Join,
                      SpuriousRoom, working
  <2>5. CASE UNCHANGED vars
    BY <1>2, <2>5 DEF vars
  <2> QED BY <2>1, <2>2, <2>3, <2>4, <2>5, StepCases
<1>3. ~Usable' => Size(q)' = 0 /\ \A w \in Workers : msg'[w] = Blank
  BY <1>1
<1> QED BY <1>2, <1>3 DEF Fresh

\* Each request is posted by one thread, and accepted when it is in the queue.
Own ==
  /\ \A t \in Threads : item[t] \in Msgs => (item[t] \in accepted <=> pc[t] = "notify")
  /\ \A t, u \in Threads : item[t] \in Msgs /\ item[t] = item[u] => t = u

LEMMA OwnStep ==
  ASSUME Types, Places, Own, [Next]_vars
  PROVE  Own'
<1> USE AsyncAssumption
    DEF Types, PcOK, ItemOK, Items, Places, Holding, Own, Threads, PostPc, Goto, posting, sets
<1>1. ASSUME NEW w \in Workers, AnyWorkerStep(w) PROVE Own'
  <2>1. CASE Room(w)
    BY <2>1 DEF Room
  <2>2. CASE ~Room(w)
    BY <1>1, <2>2 DEF AnyWorkerStep, Spawn, Sleep, Dequeue, Process, WakeUp
  <2> QED BY <2>1, <2>2
<1>2. ASSUME OwnerStep PROVE Own'
  <2>1. CASE SpawnThrows
    BY <2>1 DEF SpawnThrows
  <2>2. CASE Constructed
    BY <2>2 DEF Constructed
  <2>3. CASE Drop
    BY <2>3 DEF Drop, Release
  <2> QED BY <1>2, <2>1, <2>2, <2>3 DEF OwnerStep
<1>3. ASSUME NEW t \in Producers, NEW m \in Msgs, Log(t, m) PROVE Own'
  BY <1>3 DEF Log
<1>4. ASSUME NEW t \in Threads, PosterStep(t) PROVE Own'
  <2>1. CASE AwaitRoom(t) \/ SpuriousRoom(t) \/ Join(t)
    BY <2>1 DEF AwaitRoom, SpuriousRoom, Join
  <2>2. CASE Enqueue(t)
    BY <2>2 DEF Enqueue
  <2>3. CASE Notify(t)
    BY <2>3 DEF Notify
  <2>4. CASE Logged(t)
    BY <2>4 DEF Logged, Release
  <2> QED BY <1>4, <2>1, <2>2, <2>3, <2>4 DEF PosterStep
<1>5. CASE UNCHANGED vars
  BY <1>5 DEF vars
<1> QED BY <1>1, <1>2, <1>3, <1>4, <1>5, StepCases

\* The destructor joins when it has posted its last terminate message.
AllPosted == \A t \in Threads : pc[t] = "join" => left = 0

LEMMA AllPostedStep ==
  ASSUME Types, Places, LeftOK, AllPosted, [Next]_vars
  PROVE  AllPosted'
<1> USE AsyncAssumption, SomeWorkers
    DEF Types, PcOK, ItemOK, Items, Places, LeftOK, AllPosted, Threads, posting, Goto
<1>1. ASSUME NEW w \in Workers, AnyWorkerStep(w) PROVE AllPosted'
  BY <1>1 DEF AnyWorkerStep, Spawn, Sleep, Dequeue, Room, Process, WakeUp
<1>2. ASSUME OwnerStep PROVE AllPosted'
  <2>1. CASE SpawnThrows \/ Constructed
    BY <2>1 DEF SpawnThrows, Constructed
  <2>2. CASE Drop
    BY <2>2 DEF Drop, Release, Alone, Destroys, Holding
  <2> QED BY <1>2, <2>1, <2>2 DEF OwnerStep
<1>3. ASSUME NEW t \in Producers, NEW m \in Msgs, Log(t, m) PROVE AllPosted'
  BY <1>3 DEF Log
<1>4. ASSUME NEW t \in Threads, PosterStep(t) PROVE AllPosted'
  <2>1. CASE AwaitRoom(t) \/ Enqueue(t) \/ SpuriousRoom(t) \/ Join(t)
    BY <2>1 DEF AwaitRoom, Enqueue, SpuriousRoom, Join
  <2>2. CASE Notify(t)
    BY <2>2 DEF Notify, Alone, Destroys
  <2>3. CASE Logged(t)
    BY <2>3 DEF Logged, Release, Alone, Destroys, Holding
  <2> QED BY <1>4, <2>1, <2>2, <2>3 DEF PosterStep
<1>5. CASE UNCHANGED vars
  BY <1>5 DEF vars
<1> QED BY <1>1, <1>2, <1>3, <1>4, <1>5, StepCases

-------------------------------------------------------------------------------
(* The messages that end the workers. *)

Ending == {w \in Workers : msg[w] = Terminate \/ wpc[w] = "exited"}

\* None is lost and none is taken twice; the requests were taken before them.
Ended ==
  Usable => /\ Posted = TerminatesQueued + Cardinality(Ending)
            /\ Ending # {} => TerminatesQueued = Len(Line)

LEMMA PostedIs ==
  ASSUME Types, Places, NEW d \in Threads, Destroys(d)
  PROVE  Posted = Cardinality(Workers) - left + (IF pc[d] = "notify" THEN 1 ELSE 0)
<1> USE AsyncAssumption DEF Types, ItemOK, Items, Places, Holding, Alone, Destroys, PostPc
<1>1. {t \in Threads : pc[t] = "notify"} = IF pc[d] = "notify" THEN {d} ELSE {}
  OBVIOUS
<1>2. Cardinality({d}) = 1 /\ Cardinality({}) = 0
  BY FS_Singleton, FS_EmptySet
<1>3. Dying
  BY DEF Dying
<1>4. CASE pc[d] = "notify"
  BY <1>1, <1>2, <1>3, <1>4 DEF Posted
<1>5. CASE pc[d] # "notify"
  BY <1>1, <1>2, <1>3, <1>5 DEF Posted
<1> QED BY <1>4, <1>5

LEMMA PostedNone == Alone /\ refs # {} => Posted = 0
  BY DEF Posted, Alone, Destroys, Dying, Gone

LEMMA PostedAll == Usable /\ Gone => Posted = Cardinality(Workers)
  BY DEF Posted, Gone

LEMMA EndingNat == Cardinality(Ending) \in Nat /\ IsFiniteSet(Ending)
                   /\ (Cardinality(Ending) = 0 <=> Ending = {})
<1>1. IsFiniteSet(Ending)
  BY AsyncAssumption, FS_Subset DEF Ending
<1> QED BY <1>1, FS_CardinalityType, FS_EmptySet

\* While there is a reference, the pool is not being ended.
LEMMA NoneQueued ==
  ASSUME Types, Places, Order, Fresh, Ended, refs # {}
  PROVE  TerminatesQueued = 0 /\ (Usable => Ending = {})
<1>1. TerminatesQueued \in 0 .. Len(Line) /\ Len(Line) \in Nat
  BY LineIs DEF Types, Order, EndsIn
<1>2. CASE Usable
  <2>1. TerminatesQueued + Cardinality(Ending) = 0
    BY <1>2, PostedNone DEF Ended, Places
  <2> QED BY <1>1, <2>1, EndingNat
<1>3. CASE ~Usable
  BY <1>1, <1>3, LineIs DEF Types, Fresh
<1> QED BY <1>2, <1>3

LEMMA OrderInit == Init => Order /\ Own /\ Marks /\ Fresh /\ AllPosted /\ Ended
<1> SUFFICES ASSUME Init PROVE Order /\ Own /\ Marks /\ Fresh /\ AllPosted /\ Ended
  OBVIOUS
<1> USE AsyncAssumption DEF Init, Threads
<1>1. Line = <<>> /\ Size(q) = 0
  BY NewQIs DEF Line
<1>2. <<>> \in Seq(Items) /\ EndsIn(<<>>, 0) /\ Once(<<>>)
  BY DEF EndsIn, Once
<1>3. Order
  <2>1. TerminatesQueued = 0
    BY <1>1, <1>2, EndsCounted DEF TerminatesQueued, Line
  <2> QED BY <1>1, <1>2, <2>1 DEF Order
<1>4. Own /\ Marks /\ AllPosted
  BY DEF Own, Marks, AllPosted
<1>5. Fresh /\ Ended
  BY <1>1 DEF Fresh, Ended, Usable
<1> QED BY <1>3, <1>4, <1>5

\* A request that was accepted is in one place: queue, worker, sinks or lost.
Apart ==
  /\ IsFiniteSet(accepted)
  /\ Waiting \cup Taken \cup written \subseteq accepted
  /\ Waiting \cap (Taken \cup written) = {} /\ Taken \cap written = {}
  /\ \A w, v \in Workers : msg[w] \in Msgs /\ msg[w] = msg[v] => w = v

IInv ==
  /\ Types /\ Places /\ LeftOK
  /\ Marks /\ Fresh /\ Own /\ AllPosted
  /\ Order /\ Ended /\ Apart

\* What the three steps that move a message do to the queue.
LEMMA RequestEntered ==
  ASSUME IInv, NEW t \in Threads, Enqueue(t), item[t] \in Msgs
  PROVE  /\ Order' /\ TerminatesQueued = 0 /\ TerminatesQueued' = 0 /\ refs # {}
         /\ item[t] \notin accepted
         /\ Full(q) => Len(Line) > 0 /\ Head(Line) \in Waiting
         /\ Waiting' = (IF Full(q) THEN Waiting \ {Head(Line)} ELSE Waiting) \cup {item[t]}
<1> USE AsyncAssumption DEF IInv
<1>1. item[t] \in Items /\ item[t] # Blank /\ item[t] # Terminate /\ refs # {}
  BY DEF Items, Places, Holding
<1>2. item[t] \notin accepted /\ item[t] \notin Waiting
  BY DEF Own, Apart, Enqueue
<1>3. /\ Line \in Seq(Items) /\ Waiting = RequestsIn(Line)
      /\ Full(q) => Len(Line) > 0
  BY LineIs DEF Types
<1>4. TerminatesQueued = 0 /\ EndsIn(Line, 0) /\ Once(Line)
  BY <1>1, NoneQueued DEF Order
<1> DEFINE c == IF Full(q) THEN Tail(Line) ELSE Line
<1>5. Line' = Append(c, item[t])
  BY Enqueued DEF Types
<1>6. ASSUME Full(q)
      PROVE  /\ EndsIn(c, 0) /\ Once(c) /\ c \in Seq(Items)
             /\ RequestsIn(c) = Waiting \ {Head(Line)} /\ Head(Line) \in Waiting
  <2>1. Head(Line) # Terminate /\ EndsIn(Tail(Line), 0)
    BY <1>3, <1>4, <1>6, EndsTail
  <2>2. /\ Head(Line) # Blank /\ Once(Tail(Line))
        /\ RequestsIn(Tail(Line)) = RequestsIn(Line) \ {Head(Line)}
        /\ Head(Line) \in Msgs => Head(Line) \in RequestsIn(Line)
    BY <1>3, <1>4, <1>6, OnceTail
  <2>3. Head(Line) \in Items /\ Tail(Line) \in Seq(Items)
    BY <1>3, <1>6
  <2> QED BY <1>3, <1>6, <2>1, <2>2, <2>3 DEF Items
<1>7. ASSUME ~Full(q)
      PROVE  EndsIn(c, 0) /\ Once(c) /\ c \in Seq(Items) /\ RequestsIn(c) = Waiting
  BY <1>3, <1>4, <1>7
<1>8. /\ EndsIn(c, 0) /\ Once(c) /\ c \in Seq(Items) /\ item[t] \notin RequestsIn(c)
      /\ RequestsIn(c) = IF Full(q) THEN Waiting \ {Head(Line)} ELSE Waiting
  BY <1>2, <1>6, <1>7
<1> HIDE DEF c
<1>9. /\ EndsIn(Line', 0) /\ Once(Line') /\ Line' \in Seq(Items)
      /\ RequestsIn(Line') = RequestsIn(c) \cup {item[t]}
  BY <1>1, <1>5, <1>8, EndsAppend, OnceAppend
<1>10. Waiting' = RequestsIn(Line')
  BY DEF Waiting, RequestsIn, Line
<1>11. TerminatesQueued' = 0
  BY <1>9, EndsCounted DEF TerminatesQueued, Line
<1>12. Order'
  BY <1>9, <1>11 DEF Order, EndsIn, Once
<1> QED BY <1>1, <1>2, <1>3, <1>4, <1>6, <1>8, <1>9, <1>10, <1>11, <1>12

LEMMA TerminateEntered ==
  ASSUME IInv, NEW t \in Threads, Enqueue(t), item[t] = Terminate
  PROVE  /\ Order' /\ Waiting' = Waiting /\ ~Full(q)
         /\ TerminatesQueued' = TerminatesQueued + 1
         /\ Line' = Append(Line, Terminate) /\ q'.overrun = q.overrun
<1> USE AsyncAssumption DEF IInv
<1>1. ~Full(q) /\ Line' = Append(Line, Terminate) /\ q'.overrun = q.overrun
  BY Enqueued DEF Types, Blocks
<1>2. Terminate \in Items /\ Terminate # Blank /\ Terminate \notin RequestsIn(Line)
  BY DEF Items, RequestsIn
<1>3. Line \in Seq(Items) /\ Waiting = RequestsIn(Line)
  BY LineIs DEF Types
<1>4. EndsIn(Line', TerminatesQueued + 1)
  BY <1>1, <1>2, <1>3, EndsAppend DEF Order
<1>5. Once(Line') /\ Line' \in Seq(Items) /\ RequestsIn(Line') = RequestsIn(Line)
  <2>1. Once(Line') /\ RequestsIn(Line') = RequestsIn(Line) \cup ({Terminate} \cap Msgs)
    BY <1>1, <1>2, <1>3, OnceAppend DEF Order
  <2> QED BY <1>1, <1>2, <1>3, <2>1
<1>6. Waiting' = RequestsIn(Line')
  BY DEF Waiting, RequestsIn, Line
<1>7. TerminatesQueued' = TerminatesQueued + 1
  BY <1>4, <1>5, EndsCounted DEF TerminatesQueued, Line
<1>8. Order'
  BY <1>4, <1>5, <1>7 DEF Order, EndsIn, Once
<1> QED BY <1>1, <1>3, <1>5, <1>6, <1>7, <1>8

LEMMA Left ==
  ASSUME IInv, NEW w \in Workers, Dequeue(w)
  PROVE  /\ Order' /\ Len(Line) > 0 /\ Line' = Tail(Line) /\ Head(Line) \in Msgs \cup {Terminate}
         /\ msg' = [msg EXCEPT ![w] = Head(Line)] /\ q'.overrun = q.overrun
         /\ Head(Line) = Terminate <=> TerminatesQueued = Len(Line)
         /\ Head(Line) = Terminate => /\ TerminatesQueued' = TerminatesQueued - 1
                                      /\ Waiting' = Waiting
         /\ Head(Line) \in Msgs => /\ TerminatesQueued' = TerminatesQueued
                                   /\ Head(Line) \in Waiting
                                   /\ Waiting' = Waiting \ {Head(Line)}
<1> USE AsyncAssumption DEF IInv
<1>1. /\ Len(Line) > 0 /\ Line' = Tail(Line) /\ q'.overrun = q.overrun
      /\ msg' = [msg EXCEPT ![w] = Head(Line)]
  BY Dequeued DEF Types
<1>2. Line \in Seq(Items) /\ Waiting = RequestsIn(Line)
  BY LineIs DEF Types
<1>3. Line' \in Seq(Items) /\ Head(Line) \in Items
  BY <1>1, <1>2
<1>4. /\ Once(Line') /\ Head(Line) # Blank
      /\ RequestsIn(Line') = RequestsIn(Line) \ {Head(Line)}
      /\ Head(Line) \in Msgs => Head(Line) \in RequestsIn(Line)
  BY <1>1, <1>2, OnceTail DEF Order
<1>5. /\ Head(Line) = Terminate <=> TerminatesQueued = Len(Line)
      /\ Head(Line) = Terminate => EndsIn(Line', TerminatesQueued - 1)
      /\ Head(Line) # Terminate => EndsIn(Line', TerminatesQueued)
  BY <1>1, <1>2, EndsTail DEF Order
<1>6. Waiting' = RequestsIn(Line') /\ TerminatesQueued' = Cardinality({i \in DOMAIN Line' : Line'[i] = Terminate})
  BY DEF Waiting, RequestsIn, Line, TerminatesQueued
<1>7. /\ Head(Line) = Terminate => TerminatesQueued' = TerminatesQueued - 1
      /\ Head(Line) # Terminate => TerminatesQueued' = TerminatesQueued
  BY <1>3, <1>5, <1>6, EndsCounted
<1>8. EndsIn(Line', TerminatesQueued')
  BY <1>5, <1>7
<1>9. Order'
  BY <1>4, <1>8 DEF Order, EndsIn, Once
<1>10. Head(Line) \in Msgs \cup {Terminate}
  BY <1>3, <1>4 DEF Items
<1>11. Terminate \notin RequestsIn(Line)
  BY DEF RequestsIn
<1> QED BY <1>1, <1>2, <1>4, <1>5, <1>6, <1>7, <1>9, <1>10, <1>11

LEMMA OrderStep ==
  ASSUME IInv, [Next]_vars
  PROVE  Order'
<1>1. CASE Still
  <2>1. Line' = Line /\ TerminatesQueued' = TerminatesQueued
    BY <1>1, StillLine
  <2> QED BY <2>1 DEF IInv, Order, EndsIn, Once
<1>2. ASSUME NEW t \in Threads, Enqueue(t) PROVE Order'
  <2>1. item[t] \in Msgs \cup {Terminate}
    BY <1>2 DEF IInv, Types, ItemOK, Items, Places, Holding, Enqueue, PostPc
  <2> QED BY <1>2, <2>1, RequestEntered, TerminateEntered
<1>3. ASSUME NEW w \in Workers, Dequeue(w) PROVE Order'
  BY <1>3, Left
<1>4. ASSUME NEW w \in Workers, Process(w) PROVE Order'
  <2>1. q' = q
    BY <1>4 DEF Process
  <2>2. Line' = Line /\ TerminatesQueued' = TerminatesQueued
    BY <2>1 DEF Line, TerminatesQueued
  <2> QED BY <2>2 DEF IInv, Order, EndsIn, Once
<1> QED BY <1>1, <1>2, <1>3, <1>4, StillCases

LEMMA TakenFrom ==
  ASSUME IInv, NEW w \in Workers, Dequeue(w)
  PROVE  /\ msg[w] = Blank /\ w \notin Ending
         /\ Head(Line) = Terminate => Taken' = Taken /\ Ending' = Ending \cup {w}
         /\ Head(Line) \in Msgs => Taken' = Taken \cup {Head(Line)} /\ Ending' = Ending
<1> USE AsyncAssumption DEF IInv
<1>1. wpc[w] \in {"top", "woken"} /\ wpc' = [wpc EXCEPT ![w] = "room"]
  BY DEF Dequeue
<1>2. msg[w] = Blank /\ w \notin Ending
  BY <1>1 DEF Marks, Ending
<1> DEFINE x == Head(Line)
<1>3. msg' = [msg EXCEPT ![w] = x] /\ x \in Msgs \cup {Terminate}
  BY Left
<1> HIDE DEF x
<1>4. Taken' = Taken \cup ({x} \cap Msgs)
  BY <1>2, <1>3 DEF Taken, Types, WorkerOK
<1>5. x = Terminate => Ending' = Ending \cup {w}
  BY <1>1, <1>2, <1>3 DEF Ending, Types, WorkerOK
<1>6. x # Terminate => Ending' = Ending
  BY <1>1, <1>2, <1>3 DEF Ending, Types, WorkerOK
<1> QED BY <1>2, <1>4, <1>5, <1>6 DEF x

LEMMA Handled ==
  ASSUME IInv, NEW w \in Workers, Process(w)
  PROVE  /\ Line' = Line /\ Waiting' = Waiting /\ TerminatesQueued' = TerminatesQueued
         /\ msg[w] \in Msgs \cup {Terminate} /\ Ending' = Ending
         /\ Taken' = Taken \ {msg[w]} /\ written' = written \cup ({msg[w]} \cap Msgs)
         /\ msg[w] \in Msgs => msg[w] \in Taken
<1> USE AsyncAssumption DEF IInv
<1>1. /\ wpc[w] = "process" /\ msg' = [msg EXCEPT ![w] = Blank] /\ q' = q
      /\ wpc' = [wpc EXCEPT ![w] = IF msg[w] = Terminate THEN "exited" ELSE "top"]
      /\ written' = written \cup ({msg[w]} \cap Msgs)
  BY DEF Process
<1>2. msg[w] \in Msgs \cup {Terminate}
  BY <1>1 DEF Marks, Types, WorkerOK, Items
<1>3. Line' = Line /\ Waiting' = Waiting /\ TerminatesQueued' = TerminatesQueued
  BY <1>1 DEF Line, Waiting, TerminatesQueued
<1>4. Taken' = Taken \ {msg[w]}
  BY <1>1, <1>2 DEF Taken, Types, WorkerOK, Apart
<1>5. Ending' = Ending
  BY <1>1, <1>2 DEF Ending, Types, WorkerOK
<1> QED BY <1>1, <1>2, <1>3, <1>4, <1>5 DEF Taken

LEMMA ApartStep ==
  ASSUME IInv, [Next]_vars
  PROVE  Apart'
<1> USE AsyncAssumption
<1>0. Apart
  BY DEF IInv
<1>1. CASE Still
  BY <1>0, <1>1, StillLine DEF Apart, Still
<1>2. ASSUME NEW t \in Threads, Enqueue(t) PROVE Apart'
  <2>1. /\ accepted' = accepted \cup ({item[t]} \cap Msgs)
        /\ written' = written /\ msg' = msg
    BY <1>2 DEF Enqueue, working
  <2>2. IsFiniteSet(accepted')
    <3>1. IsFiniteSet(accepted)
      BY <1>0 DEF Apart
    <3>2. accepted' = accepted \/ accepted' = accepted \cup {item[t]}
      BY <2>1
    <3> QED BY <3>1, <3>2, FS_AddElement
  <2>3. Taken' = Taken
    BY <2>1 DEF Taken
  <2>4. CASE item[t] \in Msgs
    <3>1. item[t] \notin accepted /\ Waiting' \subseteq Waiting \cup {item[t]}
      BY <1>2, <2>4, RequestEntered
    <3> QED BY <1>0, <2>1, <2>2, <2>3, <2>4, <3>1 DEF Apart
  <2>5. CASE item[t] = Terminate
    <3>1. Waiting' = Waiting
      BY <1>2, <2>5, TerminateEntered
    <3> QED BY <1>0, <2>1, <2>2, <2>3, <2>5, <3>1 DEF Apart
  <2>6. item[t] \in Msgs \cup {Terminate}
    BY <1>2 DEF IInv, Types, ItemOK, Items, Places, Holding, Enqueue, PostPc
  <2> QED BY <2>4, <2>5, <2>6
<1>3. ASSUME NEW w \in Workers, Dequeue(w) PROVE Apart'
  <2> DEFINE x == Head(Line)
  <2>1. /\ msg' = [msg EXCEPT ![w] = x] /\ x \in Msgs \cup {Terminate}
        /\ x = Terminate => Waiting' = Waiting
        /\ x \in Msgs => x \in Waiting /\ Waiting' = Waiting \ {x}
    BY <1>3, Left
  <2>2. /\ x = Terminate => Taken' = Taken
        /\ x \in Msgs => Taken' = Taken \cup {x}
    BY <1>3, TakenFrom
  <2>3. accepted' = accepted /\ written' = written
    BY <1>3 DEF Dequeue, sets
  <2> HIDE DEF x
  <2>4. \A v, u \in Workers : msg'[v] \in Msgs /\ msg'[v] = msg'[u] => v = u
    <3>1. x \in Msgs => \A v \in Workers : msg[v] # x
      BY <1>0, <2>1 DEF Apart, Taken
    <3> QED BY <1>0, <2>1, <3>1 DEF Apart, IInv, Types, WorkerOK
  <2>5. CASE x = Terminate
    BY <1>0, <2>1, <2>2, <2>3, <2>4, <2>5 DEF Apart
  <2>6. CASE x \in Msgs
    BY <1>0, <2>1, <2>2, <2>3, <2>4, <2>6 DEF Apart
  <2> QED BY <2>1, <2>5, <2>6
<1>4. ASSUME NEW w \in Workers, Process(w) PROVE Apart'
  <2>1. /\ Waiting' = Waiting /\ Taken' = Taken \ {msg[w]}
        /\ written' = written \cup ({msg[w]} \cap Msgs)
        /\ msg[w] \in Msgs => msg[w] \in Taken
    BY <1>4, Handled
  <2>2. accepted' = accepted /\ msg' = [msg EXCEPT ![w] = Blank]
    BY <1>4 DEF Process
  <2>3. \A v, u \in Workers : msg'[v] \in Msgs /\ msg'[v] = msg'[u] => v = u
    BY <1>0, <2>2 DEF Apart, IInv, Types, WorkerOK
  <2> QED BY <1>0, <2>1, <2>2, <2>3 DEF Apart
<1> QED BY <1>1, <1>2, <1>3, <1>4, StillCases

-------------------------------------------------------------------------------

LEMMA EndingStep ==
  ASSUME IInv, [Next]_vars, refs # {}
  PROVE  TerminatesQueued' = 0 /\ (Usable' => Ending' = {})
<1> USE AsyncAssumption
<1>0. TerminatesQueued = 0 /\ Ending = {}
  <2>1. TerminatesQueued = 0 /\ (Usable => Ending = {})
    BY NoneQueued DEF IInv
  <2>2. ASSUME ~Usable PROVE Ending = {}
    <3>1. pc[Owner] = "ctor"
      BY <2>2 DEF IInv, Places, Holding, Early, Usable, Threads, Types, ItemOK, PostPc, Items
    <3> QED BY <2>2, <3>1 DEF IInv, Fresh, Ending
  <2> QED BY <2>1, <2>2
<1>1. CASE Still
  <2>1. TerminatesQueued' = 0
    BY <1>0, <1>1, StillLine
  <2>2. ASSUME NEW w \in Workers, wpc'[w] = "exited" PROVE wpc[w] = "exited" \/ ~Usable'
    <3> USE DEF IInv, Types, WorkerOK, Goto, Marks
    <3>1. ASSUME NEW v \in Workers, AnyWorkerStep(v) PROVE wpc[w] = "exited"
      <4>1. ~Process(v)
        BY <1>1 DEF Process, Still
      <4> QED BY <2>2, <3>1, <4>1 DEF AnyWorkerStep, Spawn, Sleep, Dequeue, Room, WakeUp
    <3>2. ASSUME OwnerStep PROVE wpc[w] = "exited" \/ ~Usable'
      BY <2>2, <3>2 DEF OwnerStep, SpawnThrows, Constructed, Drop, working, Usable, PcOK, Threads
    <3>3. ASSUME NEW t \in Producers, NEW m \in Msgs, Log(t, m) PROVE wpc[w] = "exited"
      BY <2>2, <3>3 DEF Log, working
    <3>4. ASSUME NEW t \in Threads, PosterStep(t) PROVE wpc[w] = "exited"
      BY <2>2, <3>4 DEF PosterStep, AwaitRoom, Enqueue, Notify, Logged, Join, SpuriousRoom, working
    <3>5. CASE UNCHANGED vars
      BY <2>2, <3>5 DEF vars
    <3> QED BY <3>1, <3>2, <3>3, <3>4, <3>5, StepCases
  <2> QED BY <1>0, <1>1, <2>1, <2>2 DEF Ending, Still
<1>2. ASSUME NEW t \in Threads, Enqueue(t) PROVE TerminatesQueued' = 0 /\ Ending' = {}
  <2>1. item[t] \in Msgs
    BY <1>2 DEF IInv, Types, ItemOK, Items, Places, Holding, Alone, Destroys, Enqueue, PostPc
  <2>2. Ending' = Ending
    BY <1>2 DEF Enqueue, working, Ending
  <2> QED BY <1>0, <1>2, <2>1, <2>2, RequestEntered
<1>3. ASSUME NEW w \in Workers, Dequeue(w) PROVE TerminatesQueued' = 0 /\ Ending' = {}
  <2>1. /\ Len(Line) > 0 /\ Head(Line) \in Msgs \cup {Terminate}
        /\ Head(Line) = Terminate <=> TerminatesQueued = Len(Line)
    BY <1>3, Left
  <2>2. Head(Line) \in Msgs
    BY <1>0, <2>1
  <2> QED BY <1>0, <1>3, <2>2, Left, TakenFrom
<1>4. ASSUME NEW w \in Workers, Process(w) PROVE TerminatesQueued' = 0 /\ Ending' = {}
  BY <1>0, <1>4, Handled
<1> QED BY <1>1, <1>2, <1>3, <1>4, StillCases

LEMMA SamePosted ==
  ASSUME item' = item, refs' = refs, left' = left, Usable' = Usable,
         \A t \in Threads : /\ pc'[t] = "notify" <=> pc[t] = "notify"
                            /\ pc'[t] = "join" <=> pc[t] = "join"
  PROVE  Posted' = Posted
<1>1. {t \in Threads : pc'[t] = "notify"} = {t \in Threads : pc[t] = "notify"}
  OBVIOUS
<1>2. Dying' <=> Dying
  BY DEF Dying
<1>3. Gone' <=> Gone
  BY <1>2 DEF Gone
<1>4. CASE Dying
  <2>1. Posted = Cardinality(Workers) - left + Cardinality({t \in Threads : pc[t] = "notify"})
    BY <1>4 DEF Posted
  <2>2. Posted' = Cardinality(Workers) - left' + Cardinality({t \in Threads : pc'[t] = "notify"})
    BY <1>2, <1>4 DEF Posted
  <2> QED BY <1>1, <2>1, <2>2
<1>5. CASE ~Dying /\ Gone /\ Usable
  BY <1>2, <1>3, <1>5 DEF Posted
<1>6. CASE ~Dying /\ ~(Gone /\ Usable)
  BY <1>2, <1>3, <1>6 DEF Posted
<1> QED BY <1>4, <1>5, <1>6

LEMMA PostedNext ==
  /\ (Alone /\ refs # {} => Posted = 0)'
  /\ (\A d \in Threads :
        Types /\ Places /\ Destroys(d)
          => Posted = Cardinality(Workers) - left + (IF pc[d] = "notify" THEN 1 ELSE 0))'
  /\ (Usable /\ Gone => Posted = Cardinality(Workers))'
<1>1. \A d \in Threads :
       Types /\ Places /\ Destroys(d)
          => Posted = Cardinality(Workers) - left + (IF pc[d] = "notify" THEN 1 ELSE 0)
  BY PostedIs
<1> QED BY <1>1, PostedNone, PostedAll, PTL

\* Who gives up the last reference starts to end the workers.
LEMMA EndedStart ==
  ASSUME IInv, [Next]_vars, refs # {}, Types', Places', LeftOK'
  PROVE  Ended'
<1> USE AsyncAssumption
<1>1. TerminatesQueued' = 0 /\ (Usable' => Ending' = {})
  BY EndingStep
<1>2. Cardinality({}) = 0
  BY FS_EmptySet
<1>3. ASSUME refs' # {} PROVE Posted' = 0
  BY <1>3, PostedNext DEF Places
<1>4. ASSUME refs' = {}, Usable' PROVE Posted' = 0
  <2>1. PICK d \in Threads : pc'[d] = "post" /\ item'[d] = Terminate /\ left' = Cardinality(Workers)
    <3> USE DEF Goto, IInv, Types, PcOK, ItemOK, Threads
    <3>1. ASSUME NEW w \in Workers PROVE ~AnyWorkerStep(w)
      BY <1>4 DEF AnyWorkerStep, Spawn, Sleep, Dequeue, Room, Process, WakeUp, posting
    <3>2. ASSUME OwnerStep
          PROVE  \E d \in Threads : pc'[d] = "post" /\ item'[d] = Terminate
                                    /\ left' = Cardinality(Workers)
      <4>1. ~SpawnThrows
        BY <1>4 DEF SpawnThrows, Usable
      <4>2. ~Constructed
        BY <1>4 DEF Constructed, posting
      <4>3. Drop
        BY <3>2, <4>1, <4>2 DEF OwnerStep
      <4> QED BY <1>4, <4>3 DEF Drop, Release
    <3>3. ASSUME NEW t \in Producers, NEW m \in Msgs PROVE ~Log(t, m)
      BY <1>4 DEF Log
    <3>4. ASSUME NEW t \in Threads, PosterStep(t)
          PROVE  pc'[t] = "post" /\ item'[t] = Terminate /\ left' = Cardinality(Workers)
      <4>1. Logged(t)
        BY <1>4, <3>4 DEF PosterStep, AwaitRoom, Enqueue, Notify, Join, SpuriousRoom, posting
      <4> QED BY <1>4, <4>1 DEF Logged, Release
    <3>5. ~UNCHANGED vars
      BY <1>4 DEF vars
    <3> QED BY <3>1, <3>2, <3>3, <3>4, <3>5, StepCases
  <2>2. Destroys(d)'
    BY <2>1 DEF Destroys
  <2>3. Posted' = Cardinality(Workers) - left' + (IF pc'[d] = "notify" THEN 1 ELSE 0)
    BY <2>2, PostedNext
  <2> QED BY <2>1, <2>3, SomeWorkers
<1>5. ASSUME Usable'
      PROVE  Posted' = TerminatesQueued' + Cardinality(Ending') /\ Ending' = {}
  <2>1. Ending' = {} /\ TerminatesQueued' = 0 /\ Posted' = 0
    BY <1>1, <1>3, <1>4, <1>5
  <2> QED BY <1>2, <2>1
<1> QED BY <1>5 DEF Ended

\* The destructor's steps: what it has posted is in the queue or was taken.
LEMMA EndedOn ==
  ASSUME IInv, [Next]_vars, refs = {}, Types', Places', LeftOK'
  PROVE  Ended'
<1> USE AsyncAssumption
<1>0. ASSUME Usable' PROVE Usable /\ pc[Owner] # "open"
  <2>1. pc[Owner] \notin {"ctor", "open"}
    BY DEF IInv, Places, Holding, Threads
  <2> USE DEF Usable, Goto, IInv, Types, PcOK, ItemOK, Threads, Places, Holding
  <2>2. ASSUME ~Usable PROVE ~Usable'
    <3>1. ASSUME NEW w \in Workers, AnyWorkerStep(w) PROVE pc'[Owner] = pc[Owner]
      BY <2>2, <3>1 DEF AnyWorkerStep, Spawn, Sleep, Dequeue, Room, Process, WakeUp
    <3>2. ~OwnerStep
      BY <2>1, <2>2 DEF OwnerStep, SpawnThrows, Constructed, Drop
    <3>3. ASSUME NEW t \in Producers, NEW m \in Msgs PROVE ~Log(t, m)
      BY <2>2 DEF Log
    <3>4. ASSUME NEW t \in Threads PROVE ~PosterStep(t)
      BY <2>2 DEF PosterStep, AwaitRoom, Enqueue, Notify, Logged, Join, SpuriousRoom, Early
    <3>5. ASSUME UNCHANGED vars PROVE pc' = pc
      BY <3>5 DEF vars
    <3> QED BY <2>2, <3>1, <3>2, <3>3, <3>4, <3>5, StepCases
  <2> QED BY <1>0, <2>1, <2>2
<1> SUFFICES ASSUME Usable'
             PROVE  /\ Posted' = TerminatesQueued' + Cardinality(Ending)'
                    /\ Ending' # {} => TerminatesQueued' = Len(Line)'
  BY DEF Ended
<1>1. /\ Usable /\ Usable' = Usable /\ Posted = TerminatesQueued + Cardinality(Ending)
      /\ Ending # {} => TerminatesQueued = Len(Line)
  BY <1>0 DEF IInv, Ended
<1>2. ASSUME Posted' = Posted, q' = q, Ending' = Ending
      PROVE  /\ Posted' = TerminatesQueued' + Cardinality(Ending)'
             /\ Ending' # {} => TerminatesQueued' = Len(Line)'
  <2>1. Line' = Line /\ TerminatesQueued' = TerminatesQueued
    BY <1>2 DEF Line, TerminatesQueued
  <2> QED BY <1>1, <1>2, <2>1
<1>3. ASSUME NEW w \in Workers, AnyWorkerStep(w)
      PROVE  /\ Posted' = TerminatesQueued' + Cardinality(Ending)'
             /\ Ending' # {} => TerminatesQueued' = Len(Line)'
  <2>1. Posted' = Posted
    <3>1. /\ item' = item /\ refs' = refs /\ left' = left
          /\ \A t \in Threads : /\ pc'[t] = "notify" <=> pc[t] = "notify"
                                /\ pc'[t] = "join" <=> pc[t] = "join"
      <4>1. CASE Room(w)
        BY <4>1 DEF Room, posting, Goto, IInv, Types, PcOK
      <4>2. CASE ~Room(w)
        BY <1>3, <4>2 DEF AnyWorkerStep, Spawn, Sleep, Dequeue, Process, WakeUp, posting
      <4> QED BY <4>1, <4>2
    <3> QED BY <1>1, <3>1, SamePosted
  <2>2. CASE Spawn(w) \/ Sleep(w) \/ Room(w) \/ WakeUp(w)
    <3>1. q' = q /\ Ending' = Ending
      BY <2>2 DEF Spawn, Sleep, Room, WakeUp, Ending, IInv, Types, WorkerOK
    <3> QED BY <1>2, <2>1, <3>1
  <2>3. CASE Dequeue(w)
    <3>1. /\ Len(Line) > 0 /\ Line' = Tail(Line) /\ Head(Line) \in Msgs \cup {Terminate}
          /\ Head(Line) = Terminate <=> TerminatesQueued = Len(Line)
          /\ Head(Line) = Terminate => TerminatesQueued' = TerminatesQueued - 1
          /\ Head(Line) \in Msgs => TerminatesQueued' = TerminatesQueued
      BY <2>3, Left
    <3>2. /\ w \notin Ending
          /\ Head(Line) = Terminate => Ending' = Ending \cup {w}
          /\ Head(Line) \in Msgs => Ending' = Ending
      BY <2>3, TakenFrom
    <3>3. Line \in Seq(Items) /\ Len(Line') = Len(Line) - 1
      BY <3>1, LineIs DEF IInv, Types
    <3>4. CASE Head(Line) = Terminate
      <4>1. Cardinality(Ending') = Cardinality(Ending) + 1
        BY <3>2, <3>4, EndingNat, FS_AddElement
      <4>2. TerminatesQueued' = TerminatesQueued - 1 /\ TerminatesQueued = Len(Line)
        BY <3>1, <3>4
      <4>3. TerminatesQueued \in Nat /\ Cardinality(Ending) \in Nat
        BY <3>3, <4>2, EndingNat
      <4> QED BY <1>1, <2>1, <3>3, <4>1, <4>2, <4>3
    <3>5. CASE Head(Line) \in Msgs
      <4>1. TerminatesQueued # Len(Line)
        BY <3>1, <3>5
      <4>2. Ending' = Ending /\ Ending = {} /\ TerminatesQueued' = TerminatesQueued
        BY <1>1, <3>1, <3>2, <3>5, <4>1
      <4> QED BY <1>1, <2>1, <4>2
    <3> QED BY <3>1, <3>4, <3>5
  <2>4. CASE Process(w)
    <3>1. q' = q /\ Ending' = Ending
      BY <2>4, Handled DEF Process
    <3> QED BY <1>2, <2>1, <3>1
  <2> QED BY <1>3, <2>2, <2>3, <2>4 DEF AnyWorkerStep
<1>4. ~OwnerStep
  BY <1>0 DEF OwnerStep, SpawnThrows, Constructed, Drop, Usable
<1>5. ASSUME NEW t \in Producers, NEW m \in Msgs, Log(t, m)
      PROVE  Posted' = Posted /\ q' = q /\ Ending' = Ending
  <2>1. pc' = pc /\ item' = item /\ refs' = refs /\ left' = left /\ q' = q /\ wpc' = wpc /\ msg' = msg
    BY <1>5 DEF Log, working
  <2> QED BY <1>1, <2>1, SamePosted DEF Ending
<1>6. ASSUME UNCHANGED vars PROVE Posted' = Posted /\ q' = q /\ Ending' = Ending
  <2>1. pc' = pc /\ item' = item /\ refs' = refs /\ left' = left /\ q' = q /\ wpc' = wpc /\ msg' = msg
    BY <1>6 DEF vars
  <2> QED BY <1>1, <2>1, SamePosted DEF Ending
<1>7. ASSUME NEW t \in Threads, PosterStep(t)
      PROVE  /\ Posted' = TerminatesQueued' + Cardinality(Ending)'
             /\ Ending' # {} => TerminatesQueued' = Len(Line)'
  <2>1. Destroys(t) /\ ~Logged(t)
    BY <1>7 DEF PosterStep, AwaitRoom, Enqueue, Notify, Logged, Join, SpuriousRoom, Destroys,
                IInv, Types, ItemOK, Items, Places, Holding, PostPc
  <2>2. Posted = Cardinality(Workers) - left + (IF pc[t] = "notify" THEN 1 ELSE 0)
    BY <2>1, PostedIs DEF IInv
  <2>3. Destroys(t)' => Posted' = Cardinality(Workers) - left' + (IF pc'[t] = "notify" THEN 1 ELSE 0)
    BY PostedNext
  <2>4. left \in Nat /\ left' \in Nat /\ Cardinality(Workers) \in Nat
    BY SomeWorkers DEF IInv, LeftOK
  <2>5. CASE AwaitRoom(t) \/ SpuriousRoom(t)
    <3>1. /\ pc'[t] # "notify" /\ pc[t] # "notify" /\ item' = item /\ left' = left
          /\ q' = q /\ wpc' = wpc /\ msg' = msg /\ pc[t] # "join"
      BY <2>5 DEF AwaitRoom, SpuriousRoom, posting, working, Goto, IInv, Types, PcOK
    <3>2. Destroys(t)' /\ Ending' = Ending
      BY <2>1, <3>1 DEF Destroys, Ending
    <3> QED BY <1>2, <2>2, <2>3, <3>1, <3>2
  <2>6. CASE Enqueue(t)
    <3>1. item[t] = Terminate /\ pc[t] = "post"
      BY <2>1, <2>6 DEF Destroys, Enqueue
    <3>2. /\ pc'[t] = "notify" /\ item' = item /\ left' = left /\ wpc' = wpc /\ msg' = msg
      BY <2>6 DEF Enqueue, posting, working, Goto, IInv, Types, PcOK
    <3>3. Destroys(t)' /\ Ending' = Ending
      BY <3>1, <3>2 DEF Destroys, Ending
    <3>4. Posted' = Posted + 1
      BY <2>2, <2>3, <2>4, <3>1, <3>2, <3>3
    <3>5. TerminatesQueued' = TerminatesQueued + 1 /\ Line' = Append(Line, Terminate)
      BY <2>6, <3>1, TerminateEntered
    <3>6. Line \in Seq(Items) /\ TerminatesQueued \in 0 .. Len(Line)
      BY LineIs DEF IInv, Types, Order, EndsIn
    <3>7. Len(Line') = Len(Line) + 1 /\ TerminatesQueued \in Nat
      BY <3>5, <3>6, AppendProperties
    <3> QED BY <1>1, <3>3, <3>4, <3>5, <3>7, EndingNat
  <2>7. CASE Notify(t)
    <3>1. item[t] = Terminate /\ pc[t] = "notify" /\ left > 0
      BY <2>1, <2>7 DEF Destroys, Notify, IInv, LeftOK
    <3>2. /\ left' = left - 1 /\ q' = q /\ msg' = msg
          /\ left > 1 => item'[t] = Terminate /\ pc'[t] = "post"
          /\ left <= 1 => pc'[t] = "join"
      BY <2>4, <2>7, <3>1 DEF Notify, sets, Goto, IInv, Types, PcOK, ItemOK
    <3>3. Ending' = Ending
      BY <2>7 DEF Notify, Ending, IInv, Types, WorkerOK
    <3>4. Destroys(t)' /\ pc'[t] # "notify"
      BY <2>4, <3>2 DEF Destroys
    <3>5. Posted' = Posted
      BY <2>2, <2>3, <2>4, <3>1, <3>2, <3>4
    <3> QED BY <1>2, <3>2, <3>3, <3>5
  <2>8. CASE Join(t)
    <3>1. pc[t] = "join" /\ left = 0 /\ q' = q
      BY <2>8 DEF Join, IInv, AllPosted
    <3>2. Ending' = Ending
      BY <2>8 DEF Join, Ending, working
    <3>3. Gone'
      <4>1. \A u \in Threads : u # t => ~Destroys(u)
        BY <2>1 DEF IInv, Places, Alone
      <4>2. item[t] # Terminate
        BY <3>1 DEF IInv, Places, Holding, PostPc
      <4>3. item' = item /\ refs' = {} /\ pc' = [pc EXCEPT ![t] = "idle"]
        BY <2>8 DEF Join, posting, Goto
      <4> QED BY <4>1, <4>2, <4>3 DEF Gone, Dying, Destroys, IInv, Types, PcOK
    <3>4. Posted' = Cardinality(Workers)
      BY <3>3, PostedNext
    <3> QED BY <1>2, <2>2, <2>4, <3>1, <3>2, <3>4
  <2> QED BY <1>7, <2>1, <2>5, <2>6, <2>7, <2>8 DEF PosterStep
<1> QED BY <1>2, <1>3, <1>4, <1>5, <1>6, <1>7, StepCases

-------------------------------------------------------------------------------
(* Lost requests. *)

LEMMA LostTerminate ==
  ASSUME IInv, NEW t \in Threads, Enqueue(t), item[t] = Terminate
  PROVE  Lost' = Lost /\ q'.overrun = q.overrun
<1>1. Waiting' = Waiting /\ q'.overrun = q.overrun
  BY TerminateEntered
<1>2. accepted' = accepted /\ written' = written /\ msg' = msg
  BY AsyncAssumption DEF Enqueue, working
<1> QED BY <1>1, <1>2 DEF Lost, Taken

LEMMA LostTaken ==
  ASSUME IInv, NEW w \in Workers, Dequeue(w) \/ Process(w)
  PROVE  Lost' = Lost /\ q'.overrun = q.overrun
<1> USE AsyncAssumption
<1>1. CASE Dequeue(w)
  <2>1. accepted' = accepted /\ written' = written
    BY <1>1 DEF Dequeue, sets
  <2>2. /\ q'.overrun = q.overrun /\ Head(Line) \in Msgs \cup {Terminate}
        /\ Head(Line) = Terminate => Waiting' = Waiting /\ Taken' = Taken
        /\ Head(Line) \in Msgs => Waiting' = Waiting \ {Head(Line)} /\ Taken' = Taken \cup {Head(Line)}
        /\ Head(Line) \in Msgs => Head(Line) \in Waiting
    BY <1>1, Left, TakenFrom
  <2>3. Waiting' \cup Taken' = Waiting \cup Taken
    BY <2>2
  <2> QED BY <2>1, <2>2, <2>3 DEF Lost
<1>2. CASE Process(w)
  <2>1. accepted' = accepted /\ q' = q
    BY <1>2 DEF Process
  <2>2. /\ Waiting' = Waiting /\ Taken' = Taken \ {msg[w]}
        /\ written' = written \cup ({msg[w]} \cap Msgs)
        /\ msg[w] \in Msgs \cup {Terminate} /\ (msg[w] \in Msgs => msg[w] \in Taken)
    BY <1>2, Handled
  <2>3. Taken' \cup written' = Taken \cup written
    BY <2>2 DEF Taken
  <2> QED BY <2>1, <2>2, <2>3 DEF Lost
<1> QED BY <1>1, <1>2

\* A request is lost only when another enters a full queue.
LEMMA LostStep ==
  ASSUME IInv, [Next]_vars
  PROVE  \/ Lost' = Lost /\ q'.overrun = q.overrun
         \/ \E t \in Threads :
              /\ Enqueue(t) /\ item[t] \in Msgs \ Blocking /\ Full(q)
              /\ Head(Line) \notin Lost /\ Lost' = Lost \cup {Head(Line)}
              /\ q'.overrun = q.overrun + 1
<1> USE AsyncAssumption
<1>1. CASE Still
  BY <1>1, StillLine DEF Still
<1>2. ASSUME NEW t \in Threads, Enqueue(t), item[t] \in Msgs
      PROVE  \/ Lost' = Lost /\ q'.overrun = q.overrun
             \/ /\ item[t] \in Msgs \ Blocking /\ Full(q)
                /\ Head(Line) \notin Lost /\ Lost' = Lost \cup {Head(Line)}
                /\ q'.overrun = q.overrun + 1
  <2> DEFINE h == Head(Line)
  <2>1. /\ item[t] \notin accepted
        /\ Full(q) => h \in Waiting
        /\ Waiting' = (IF Full(q) THEN Waiting \ {h} ELSE Waiting) \cup {item[t]}
    BY <1>2, RequestEntered
  <2>2. /\ q'.overrun = IF Full(q) THEN q.overrun + 1 ELSE q.overrun
        /\ Full(q) => item[t] \notin Blocking
    BY <1>2, Enqueued DEF IInv, Types, Blocks
  <2>3. accepted' = accepted \cup {item[t]} /\ written' = written /\ Taken' = Taken
    BY <1>2 DEF Enqueue, working, Taken
  <2>4. /\ Waiting \cup Taken \cup written \subseteq accepted
        /\ Waiting \cap (Taken \cup written) = {}
    BY DEF IInv, Apart
  <2> HIDE DEF h
  <2>5. CASE Full(q)
    <3>1. Lost' = Lost \cup {h} /\ h \notin Lost
      BY <2>1, <2>3, <2>4, <2>5 DEF Lost
    <3> QED BY <1>2, <2>2, <2>5, <3>1 DEF h
  <2>6. CASE ~Full(q)
    BY <2>1, <2>2, <2>3, <2>4, <2>6 DEF Lost
  <2> QED BY <2>5, <2>6
<1>3. \A t \in Threads : Enqueue(t) => item[t] \in Msgs \cup {Terminate}
  BY DEF IInv, Types, ItemOK, Items, Places, Holding, Enqueue, PostPc
<1> QED BY <1>1, <1>2, <1>3, LostTerminate, LostTaken, StillCases

\* overrun_counter() counts them.
Overrun ==
  /\ q.overrun = Cardinality(Lost)
  /\ accepted \subseteq Blocking => q.overrun = 0

LEMMA AcceptedStays ==
  ASSUME [Next]_vars
  PROVE  accepted \subseteq accepted'
<1>1. CASE UNCHANGED vars \/ UNCHANGED accepted
  BY <1>1 DEF vars
<1>2. ASSUME NEW t \in Threads, Enqueue(t) PROVE accepted \subseteq accepted'
  BY <1>2 DEF Enqueue
<1>3. Next => UNCHANGED accepted \/ \E t \in Threads : Enqueue(t)
  BY DEF Next, Spawn, SpawnThrows, Constructed, Drop, Log, PostStep, SpuriousRoom, AwaitRoom,
         Notify, Logged, Join, WorkerStep, WakeUp, Sleep, Dequeue, Room, Process, sets
<1> QED BY <1>1, <1>2, <1>3

LEMMA OverrunStep ==
  ASSUME IInv, Overrun, [Next]_vars
  PROVE  Overrun'
<1>1. IsFiniteSet(Lost)
  BY FS_Subset DEF IInv, Apart, Lost
<1>2. CASE Lost' = Lost /\ q'.overrun = q.overrun
  BY <1>2, AcceptedStays DEF Overrun
<1>3. ASSUME NEW t \in Threads, Enqueue(t), item[t] \in Msgs \ Blocking,
             Head(Line) \notin Lost, Lost' = Lost \cup {Head(Line)}, q'.overrun = q.overrun + 1
      PROVE  Overrun'
  <2>1. Cardinality(Lost') = Cardinality(Lost) + 1
    BY <1>1, <1>3, FS_AddElement
  <2>2. item[t] \in accepted' \ Blocking
    BY <1>3 DEF Enqueue
  <2> QED BY <1>3, <2>1, <2>2 DEF Overrun
<1> QED BY <1>2, <1>3, LostStep

LEMMA AccountsInit == Init => Apart /\ Overrun
<1> SUFFICES ASSUME Init PROVE Apart /\ Overrun
  OBVIOUS
<1> USE AsyncAssumption DEF Init
<1>1. Contents(q) = <<>> /\ q.overrun = 0
  BY NewQIs DEF NewQ
<1>2. Waiting = {} /\ Taken = {} /\ Lost = {}
  BY <1>1 DEF Waiting, Taken, Lost
<1> QED BY <1>1, <1>2, FS_EmptySet DEF Apart, Overrun

LEMMA Accounts == Spec => [](IInv /\ Overrun)
<1>1. Init /\ Types /\ Places /\ LeftOK => IInv /\ Overrun
  BY OrderInit, AccountsInit DEF IInv
<1>2. /\ IInv /\ Overrun /\ [Next]_vars
      /\ Types' /\ Places' /\ LeftOK'
      => (IInv /\ Overrun)'
  <2> SUFFICES ASSUME IInv, Overrun, [Next]_vars, Types', Places', LeftOK'
               PROVE  (IInv /\ Overrun)'
    OBVIOUS
  <2>1. Marks' /\ Fresh' /\ Own' /\ AllPosted'
    BY MarksStep, FreshStep, OwnStep, AllPostedStep DEF IInv
  <2>2. Ended'
    BY EndedStart, EndedOn
  <2> QED BY <2>1, <2>2, OrderStep, ApartStep, OverrunStep DEF IInv
<1> QED BY <1>1, <1>2, PlacesHold, LeftHolds, PTL DEF Spec

\* Nothing is lost that the overrun counter does not count, nothing is in two
\* places, and each worker gets one of the messages that end them.
THEOREM AccountingHolds == Spec => []Accounting
<1>1. IInv /\ Overrun => Accounting
  BY DEF IInv, Overrun, Apart, Ended, Ending, Accounting
<1> QED BY <1>1, Accounts, PTL

-------------------------------------------------------------------------------
(* The channel. *)

LEMMA RequestsAre ==
  ASSUME IInv
  PROVE  /\ Requests \in Seq(Items) /\ Len(Requests) = Len(Line) - TerminatesQueued
         /\ \A i \in 1 .. Len(Requests) : Requests[i] = Line[i] /\ Line[i] \in Msgs
         /\ Channel!Queued = Waiting
         /\ Line \in Seq(Items) /\ TerminatesQueued \in 0 .. Len(Line) /\ Len(Line) \in 0 .. QSize
<1> USE AsyncAssumption
<1> DEFINE n == Len(Line) - TerminatesQueued
<1>1. /\ Line \in Seq(Items) /\ Waiting = RequestsIn(Line) /\ EndsIn(Line, TerminatesQueued)
      /\ Once(Line) /\ Len(Line) \in 0 .. QSize
  BY LineIs DEF IInv, Types, Order
<1>2. TerminatesQueued \in 0 .. Len(Line) /\ n \in 0 .. Len(Line)
  BY <1>1 DEF EndsIn
<1>3. \A i \in 1 .. n : Line[i] \in Msgs
  <2> TAKE i \in 1 .. n
  <2>1. i \in 1 .. Len(Line) /\ ~(i > Len(Line) - TerminatesQueued)
    BY <1>1, <1>2
  <2> QED BY <1>1, <2>1 DEF EndsIn, Once, Items
<1>4. /\ Requests \in Seq(Items) /\ Len(Requests) = n
      /\ \A i \in 1 .. n : Requests[i] = Line[i]
  <2>1. Requests = SubSeq(Line, 1, n)
    BY DEF Requests, Line
  <2>2. \A i \in 1 .. n : Line[i] \in Items
    BY <1>3 DEF Items
  <2> HIDE DEF n
  <2>3. n \in Int /\ n \in Nat
    BY <1>2
  <2>4. /\ SubSeq(Line, 1, n) \in Seq(Items)
        /\ Len(SubSeq(Line, 1, n)) = IF 1 <= n THEN n - 1 + 1 ELSE 0
        /\ \A i \in 1 .. n - 1 + 1 : SubSeq(Line, 1, n)[i] = Line[1 + i - 1]
    BY <2>2, <2>3, SubSeqProperties
  <2> QED BY <2>1, <2>3, <2>4
<1>5. \A i \in 1 .. Len(Line) : Line[i] \in Msgs => i \in 1 .. n
  BY <1>1, <1>2 DEF EndsIn
<1> HIDE DEF n
<1>6. RequestsIn(Line) = {Requests[i] : i \in 1 .. n}
  <2>1. DOMAIN Line = 1 .. Len(Line)
    BY <1>1
  <2>2. \A i \in 1 .. n : i \in 1 .. Len(Line)
    BY <1>2
  <2> QED BY <1>3, <1>4, <1>5, <2>1, <2>2 DEF RequestsIn
<1>7. Channel!Queued = Waiting
  BY <1>1, <1>4, <1>6 DEF Channel!Queued
<1> QED BY <1>1, <1>2, <1>3, <1>4, <1>7 DEF n

\* Its length and members.
RequestsOK ==
  /\ Requests \in Seq(Items) /\ Len(Requests) = Len(Line) - TerminatesQueued
  /\ \A i \in 1 .. Len(Requests) : Requests[i] = Line[i]
  /\ Line \in Seq(Items) /\ TerminatesQueued \in 0 .. Len(Line)

LEMMA RequestsNext == IInv' => RequestsOK'
<1>1. IInv => RequestsOK
  BY RequestsAre DEF RequestsOK
<1> QED BY <1>1, PTL

\* The abstract queue follows: a request enters, one leaves, or what enters or
\* leaves ends a worker.
LEMMA RequestPosted ==
  ASSUME IInv, IInv', NEW t \in Threads, Enqueue(t), item[t] \in Msgs
  PROVE  /\ Requests' = Append(IF Full(q) THEN Tail(Requests) ELSE Requests, item[t])
         /\ Requests = Line /\ (Full(q) <=> Len(Requests) = QSize)
<1>1. TerminatesQueued = 0 /\ TerminatesQueued' = 0
  BY RequestEntered
<1>2. Line' = Append(IF Full(q) THEN Tail(Line) ELSE Line, item[t])
  BY Enqueued DEF IInv, Types
<1>3. Line \in Seq(Items) /\ Line' \in Seq(Items)
  <2>1. Line \in Seq(Items)
    BY RequestsAre
  <2>2. Line' \in Seq(Items)
    BY RequestsNext DEF RequestsOK
  <2> QED BY <2>1, <2>2
<1>4. Requests = Line /\ Requests' = Line'
  <2>1. Requests = SubSeq(Line, 1, Len(Line) - 0) /\ Requests' = SubSeq(Line', 1, Len(Line') - 0)
    BY <1>1 DEF Requests, Line
  <2>2. Len(Line) - 0 = Len(Line) /\ Len(Line') - 0 = Len(Line')
    BY <1>3
  <2> QED BY <1>3, <2>1, <2>2, SubSeqFull
<1>5. Full(q) <=> Len(Line) = QSize
  BY LineIs DEF IInv, Types
<1> QED BY <1>2, <1>4, <1>5
LEMMA TerminatePosted ==
  ASSUME IInv, IInv', NEW t \in Threads, Enqueue(t), item[t] = Terminate
  PROVE  Requests' = Requests
<1>1. TerminatesQueued' = TerminatesQueued + 1 /\ Line' = Append(Line, Terminate)
  BY TerminateEntered
<1>2. /\ Line \in Seq(Items) /\ TerminatesQueued \in 0 .. Len(Line) /\ Requests \in Seq(Items)
      /\ Len(Requests) = Len(Line) - TerminatesQueued
      /\ \A i \in 1 .. Len(Requests) : Requests[i] = Line[i]
  BY RequestsAre
<1>3. /\ Requests' \in Seq(Items) /\ Len(Requests') = Len(Line') - TerminatesQueued'
      /\ \A i \in 1 .. Len(Requests') : Requests'[i] = Line'[i]
  BY RequestsNext DEF RequestsOK
<1>4. /\ Len(Line') = Len(Line) + 1
      /\ \A i \in 1 .. Len(Line) : Line'[i] = Line[i]
  BY <1>1, <1>2, AppendProperties DEF Items
<1>5. Len(Requests') = Len(Requests)
  BY <1>1, <1>2, <1>3, <1>4
<1>6. \A i \in 1 .. Len(Requests) : i \in 1 .. Len(Line)
  BY <1>2
<1>7. \A i \in 1 .. Len(Requests) : Requests'[i] = Requests[i]
  BY <1>2, <1>3, <1>4, <1>5, <1>6
<1> QED BY <1>2, <1>3, <1>5, <1>7, SeqEqual

LEMMA RequestTaken ==
  ASSUME IInv, IInv', NEW w \in Workers, Dequeue(w)
  PROVE  /\ Head(Line) = Terminate => Requests' = Requests
         /\ Head(Line) \in Msgs => /\ Requests # <<>> /\ Requests' = Tail(Requests)
                                   /\ Head(Requests) = Head(Line)
<1> USE AsyncAssumption
<1>1. /\ Len(Line) > 0 /\ Line' = Tail(Line)
      /\ Head(Line) = Terminate <=> TerminatesQueued = Len(Line)
      /\ Head(Line) = Terminate => TerminatesQueued' = TerminatesQueued - 1
      /\ Head(Line) \in Msgs => TerminatesQueued' = TerminatesQueued
  BY Left
<1>2. /\ Line \in Seq(Items) /\ TerminatesQueued \in 0 .. Len(Line) /\ Requests \in Seq(Items)
      /\ Len(Requests) = Len(Line) - TerminatesQueued
      /\ \A i \in 1 .. Len(Requests) : Requests[i] = Line[i]
  BY RequestsAre
<1>3. /\ Requests' \in Seq(Items) /\ Len(Requests') = Len(Line') - TerminatesQueued'
      /\ \A i \in 1 .. Len(Requests') : Requests'[i] = Line'[i]
  BY RequestsNext DEF RequestsOK
<1>4. /\ Len(Line') = Len(Line) - 1 /\ Head(Line) = Line[1] /\ Len(Line) \in Nat
      /\ \A i \in 1 .. Len(Line) - 1 : Line'[i] = Line[i + 1]
  BY <1>1, <1>2
<1>5. CASE Head(Line) = Terminate
  <2>1. Len(Requests) = 0 /\ Len(Requests') = 0
    BY <1>1, <1>2, <1>3, <1>4, <1>5
  <2>2. Requests' = Requests
    BY <1>2, <1>3, <2>1
  <2> QED BY <1>5, <2>2
<1>6. CASE Head(Line) \in Msgs
  <2>1. TerminatesQueued # Len(Line) /\ TerminatesQueued' = TerminatesQueued
    BY <1>1, <1>6
  <2>2. Len(Requests) \in Nat \ {0} /\ Len(Requests') = Len(Requests) - 1
        /\ Len(Requests) <= Len(Line)
    BY <1>2, <1>3, <1>4, <2>1
  <2>3. Requests # <<>> /\ Head(Requests) = Requests[1] /\ Head(Requests) = Head(Line)
    BY <1>2, <1>4, <2>2
  <2>4. /\ Tail(Requests) \in Seq(Items) /\ Len(Tail(Requests)) = Len(Requests) - 1
        /\ \A i \in 1 .. Len(Requests) - 1 : Tail(Requests)[i] = Requests[i + 1]
    BY <1>2, <2>2, <2>3, HeadTailProperties
  <2>5. \A i \in 1 .. Len(Requests) - 1 : Requests'[i] = Tail(Requests)[i]
    <3> TAKE i \in 1 .. Len(Requests) - 1
    <3>1. /\ i \in 1 .. Len(Line) - 1 /\ i + 1 \in 1 .. Len(Requests)
          /\ i \in 1 .. Len(Requests')
      BY <1>4, <2>2
    <3> QED BY <1>2, <1>3, <1>4, <2>4, <3>1
  <2>6. Requests' = Tail(Requests)
    BY <1>3, <2>2, <2>4, <2>5, SeqEqual
  <2> QED BY <1>6, <2>3, <2>6
<1> QED BY <1>5, <1>6, Left

\* There is no request in a pool that is gone.
LEMMA GoneEmpty == IInv /\ Gone => Taken = {} /\ Waiting = {} /\ Requests = <<>>
<1> SUFFICES ASSUME IInv, Gone PROVE Taken = {} /\ Waiting = {} /\ Requests = <<>>
  OBVIOUS
<1>1. \A w \in Workers : wpc[w] = "exited" /\ msg[w] = Blank
  BY DEF IInv, Places, Alone, Gone, Dying, Destroys, Marks
<1>2. Taken = {} /\ Ending = Workers
  BY <1>1, AsyncAssumption DEF Taken, Ending
<1>3. TerminatesQueued = Len(Line)
  <2>1. TerminatesQueued \in 0 .. Len(Line) /\ Len(Line) \in Nat /\ Len(Line) = Size(q)
    BY LineIs DEF IInv, Types, Order, EndsIn
  <2>2. CASE Usable
    BY <1>2, <2>2, AsyncAssumption DEF IInv, Ended
  <2>3. CASE ~Usable
    BY <2>1, <2>3 DEF IInv, Fresh
  <2> QED BY <2>2, <2>3
<1>4. Requests \in Seq(Items) /\ Len(Requests) = 0
  BY <1>3, RequestsAre
<1>5. Waiting = {}
  BY <1>4, RequestsAre DEF Channel!Queued
<1> QED BY <1>2, <1>4, <1>5

\* When the pool is gone everything was written but for what was overrun.
THEOREM DrainedHolds == Spec => []Drained
<1>1. IInv /\ Overrun => Drained
  <2> SUFFICES ASSUME IInv, Overrun, Gone
               PROVE  accepted = written \cup Lost /\ (accepted \subseteq Blocking => Lost = {})
    BY DEF Drained
  <2>1. accepted = written \cup Lost
    BY GoneEmpty DEF Lost, IInv, Apart
  <2>2. accepted \subseteq Blocking => Lost = {}
    <3>1. IsFiniteSet(Lost)
      BY FS_Subset DEF IInv, Apart, Lost
    <3> QED BY <3>1, FS_EmptySet DEF Overrun
  <2> QED BY <2>1, <2>2
<1> QED BY <1>1, Accounts, PTL

LEMMA GoneNext == IInv' /\ Gone' => Taken' = {} /\ Requests' = <<>>
<1>1. (IInv /\ Gone => Taken = {} /\ Requests = <<>>)'
  BY GoneEmpty, PTL
<1> QED BY <1>1

\* A pool that is gone stays so, and nobody works on it.
LEMMA GoneStays ==
  ASSUME IInv, [Next]_vars, Gone
  PROVE  Gone'
<1> USE AsyncAssumption
    DEF IInv, Types, PcOK, ItemOK, Items, WorkerOK, Places, Holding, Alone, Gone, Dying, Destroys,
        Threads, PostPc, posting, Goto
<1>1. ASSUME NEW w \in Workers PROVE ~AnyWorkerStep(w)
  BY DEF AnyWorkerStep, Spawn, Sleep, Dequeue, Room, Process, WakeUp
<1>2. ~OwnerStep
  BY DEF OwnerStep, SpawnThrows, Constructed, Drop
<1>3. ASSUME NEW t \in Producers, NEW m \in Msgs, Log(t, m) PROVE Gone'
  BY <1>3 DEF Log
<1>4. ASSUME NEW t \in Threads PROVE ~PosterStep(t)
  BY DEF PosterStep, AwaitRoom, Enqueue, Notify, Logged, Join, SpuriousRoom
<1>5. ASSUME UNCHANGED vars PROVE Gone'
  BY <1>5 DEF vars
<1> QED BY <1>1, <1>2, <1>3, <1>4, <1>5, StepCases

\* The steps that move a message do not end the pool.
LEMMA NotGone ==
  ASSUME IInv, [Next]_vars,
         \/ \E t \in Threads : Enqueue(t)
         \/ \E w \in Workers : Dequeue(w) \/ Process(w)
  PROVE  ~Gone /\ ~Gone'
<1> USE AsyncAssumption
    DEF IInv, Types, PcOK, ItemOK, Items, Places, Holding, Alone, Gone, Dying, Destroys, PostPc
<1>1. ASSUME NEW t \in Threads, Enqueue(t) PROVE ~Gone /\ ~Gone'
  <2>1. pc[t] = "post" /\ item[t] \in Msgs \cup {Terminate} /\ item' = item /\ refs' = refs
    BY <1>1 DEF Enqueue, posting
  <2> QED BY <2>1
<1>2. ASSUME NEW w \in Workers, Dequeue(w) \/ Process(w) PROVE ~Gone /\ ~Gone'
  <2>1. /\ wpc[w] # "exited" /\ pc' = pc /\ item' = item /\ refs' = refs
    BY <1>2 DEF Dequeue, Process, posting
  <2> QED BY <2>1
<1> QED BY <1>1, <1>2

LEMMA ChannelInit == Init => Channel!Init
<1> SUFFICES ASSUME Init PROVE Channel!Init
  OBVIOUS
<1> USE AsyncAssumption DEF Init
<1>1. Contents(q) = <<>>
  BY NewQIs
<1>2. Taken = {} /\ Lost = {}
  BY DEF Taken, Lost
<1>3. Requests = <<>>
  BY <1>1, SubSeqEmpty, FS_EmptySet DEF Requests, TerminatesQueued
<1>4. ~Gone
  BY DEF Gone
<1> QED BY <1>2, <1>3, <1>4 DEF Channel!Init

\* Each step of the pool is one of the channel or shows nothing.
LEMMA ChannelStep ==
  ASSUME IInv, IInv', Overrun, [Next]_vars
  PROVE  [Channel!Next]_(Channel!vars)
<1> USE AsyncAssumption
<1>1. CASE Still
  <2>1. Requests' = Requests /\ Taken' = Taken /\ Lost' = Lost /\ written' = written
    <3>1. q' = q
      BY <1>1 DEF Still
    <3> QED BY <1>1, <3>1, StillLine DEF Requests, Still
  <2>2. CASE Gone' <=> Gone
    BY <2>1, <2>2 DEF Channel!vars
  <2>3. CASE ~Gone /\ Gone'
    <3>1. Taken = {} /\ Requests = <<>>
      BY <2>1, <2>3, GoneNext
    <3>2. Channel!Close
      BY <2>1, <2>3, <3>1 DEF Channel!Close
    <3> QED BY <3>2 DEF Channel!Next
  <2> QED BY <2>2, <2>3, GoneStays
<1>2. ASSUME NEW t \in Threads, Enqueue(t), item[t] \in Msgs PROVE \E m \in Msgs : Channel!Post(m)
  <2>1. /\ Requests' = Append(IF Full(q) THEN Tail(Requests) ELSE Requests, item[t])
        /\ Requests = Line /\ (Full(q) <=> Len(Requests) = QSize)
    BY <1>2, RequestPosted
  <2>2. Len(Requests) \in 0 .. QSize /\ Channel!Queued = Waiting
    BY <2>1, RequestsAre
  <2>3. item[t] \notin Channel!Queued \cup Taken \cup written \cup Lost
    <3>1. item[t] \notin accepted
      BY <1>2, RequestEntered
    <3> QED BY <2>2, <3>1 DEF IInv, Apart, Lost
  <2>4. ~Gone /\ ~Gone'
    BY <1>2, NotGone
  <2>5. Taken' = Taken /\ written' = written
    BY <1>2 DEF Enqueue, working, Taken
  <2>6. q'.overrun = IF Full(q) THEN q.overrun + 1 ELSE q.overrun
    BY <1>2, Enqueued DEF IInv, Types
  <2>7. q.overrun \in Nat
    BY Members DEF IInv, Types, QueueOK
  <2>8. CASE Full(q)
    <3>1. Lost' = Lost \cup {Head(Requests)}
      BY <2>1, <2>6, <2>7, <2>8, LostStep
    <3>2. Requests' = Append(Tail(Requests), item[t]) /\ Len(Requests) = QSize
      BY <2>1, <2>8
    <3> QED BY <1>2, <2>3, <2>4, <2>5, <3>1, <3>2 DEF Channel!Post
  <2>9. CASE ~Full(q)
    <3>1. Lost' = Lost
      BY <2>6, <2>7, <2>9, LostStep
    <3>2. Requests' = Append(Requests, item[t]) /\ Len(Requests) < QSize
      BY <2>1, <2>2, <2>9
    <3> QED BY <1>2, <2>3, <2>4, <2>5, <3>1, <3>2 DEF Channel!Post
  <2> QED BY <2>8, <2>9
<1>3. ASSUME NEW t \in Threads, Enqueue(t), item[t] = Terminate PROVE UNCHANGED Channel!vars
  <2>1. Requests' = Requests
    BY <1>3, TerminatePosted
  <2>2. ~Gone /\ ~Gone'
    BY <1>3, NotGone
  <2>3. Taken' = Taken /\ written' = written
    BY <1>3 DEF Enqueue, working, Taken
  <2>4. Lost' = Lost
    BY <1>3, LostTerminate
  <2> QED BY <2>1, <2>2, <2>3, <2>4 DEF Channel!vars
<1>4. ASSUME NEW w \in Workers, Dequeue(w) PROVE Channel!Take \/ UNCHANGED Channel!vars
  <2>1. /\ Head(Line) = Terminate => Requests' = Requests /\ Taken' = Taken
        /\ Head(Line) \in Msgs => /\ Requests # <<>> /\ Requests' = Tail(Requests)
                                  /\ Taken' = Taken \cup {Head(Requests)}
    BY <1>4, RequestTaken, TakenFrom
  <2>2. ~Gone /\ ~Gone' /\ Lost' = Lost /\ Head(Line) \in Msgs \cup {Terminate}
    BY <1>4, NotGone, LostTaken, Left
  <2>3. written' = written
    BY <1>4 DEF Dequeue, sets
  <2> QED BY <2>1, <2>2, <2>3 DEF Channel!Take, Channel!vars
<1>5. ASSUME NEW w \in Workers, Process(w)
      PROVE  (\E m \in Msgs : Channel!Write(m)) \/ UNCHANGED Channel!vars
  <2>1. /\ Line' = Line /\ TerminatesQueued' = TerminatesQueued
        /\ Taken' = Taken \ {msg[w]} /\ written' = written \cup ({msg[w]} \cap Msgs)
        /\ msg[w] \in Msgs \cup {Terminate} /\ (msg[w] \in Msgs => msg[w] \in Taken)
    BY <1>5, Handled
  <2>2. ~Gone /\ ~Gone' /\ Lost' = Lost
    BY <1>5, NotGone, LostTaken
  <2>3. Requests' = Requests
    BY <2>1 DEF Requests, Line
  <2>4. CASE msg[w] \in Msgs
    BY <2>1, <2>2, <2>3, <2>4 DEF Channel!Write
  <2>5. CASE msg[w] = Terminate
    <3>1. Taken' = Taken /\ written' = written
      BY <2>1, <2>5 DEF Taken
    <3> QED BY <2>2, <2>3, <3>1 DEF Channel!vars
  <2> QED BY <2>1, <2>4, <2>5
<1>6. \A t \in Threads : Enqueue(t) => item[t] \in Msgs \cup {Terminate}
  BY DEF IInv, Types, ItemOK, Items, Places, Holding, Enqueue, PostPc
<1> QED BY <1>1, <1>2, <1>3, <1>4, <1>5, <1>6, StillCases DEF Channel!Next

\* The pool with its ring buffer, its workers and two condition variables does
\* what the channel does.
THEOREM ImplementsLogChannelHolds == Spec => ImplementsLogChannel
<1>1. IInv /\ Overrun /\ (IInv /\ Overrun)' /\ [Next]_vars => [Channel!Next]_(Channel!vars)
  BY ChannelStep
<1> QED BY <1>1, ChannelInit, Accounts, PTL DEF Spec, ImplementsLogChannel, Channel!Spec
===============================================================================
