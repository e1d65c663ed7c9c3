--------------------------- MODULE ThreadPoolProofs ---------------------------
(***************************************************************************)
(* Proofs about ThreadPool for any number of workers, clients and tasks.   *)
(*                                                                         *)
(* The inductive invariant is built in layers: types; who holds the mutex  *)
(* and what the flags of the shutdown imply (Sync); that nobody sleeps     *)
(* through a task or through the shutdown; and where each task is.         *)
(***************************************************************************)
EXTENDS ThreadPool, TLAPS

\* One of the steps that any thread can take, named one by one.
AnyStep ==
  \/ \E w \in Workers :
       \/ Spawn(w) \/ WLock(w) \/ WSleep(w) \/ WWait(w) \/ SpuriousWake(w)
       \/ WExit(w) \/ WTake(w) \/ WFinish(w)
  \/ \E t \in Workers \cup Clients :
       \/ ELock(t) \/ ERefuse(t) \/ EPush(t) \/ ENotify(t)
       \/ \E x \in Tasks : Call(t, x)
  \/ Constructed \/ SpawnThrows \/ Destroy \/ DLock \/ DStop \/ DNotify
  \/ DJoin \/ DReturn

\* Next takes one of them or stutters.
LEMMA StepCases == [Next]_vars => AnyStep \/ UNCHANGED vars
  BY DEF Next, PoolNext, WorkerStep, EnqueueStep, OwnerStep, AnyStep

-------------------------------------------------------------------------------
(* Types. *)

\* A thread has a task in its hands where the code has one in a local variable.
Holding ==
  /\ \A t \in Threads : job[t] # NoTask <=> pc[t] \in {"e_lock", "e_body"}
  /\ \A w \in Workers : cur[w] # NoTask <=> pc[w] \in {"run"} \cup EnqueuePc

LEMMA TypeInit == Init => TypeOK /\ Holding
<1> SUFFICES ASSUME Init PROVE TypeOK /\ Holding
  OBVIOUS
<1> USE PoolAssumption DEF Threads
<1>1. PcOK
  BY DEF Init, PcOK, WorkerPc, EnqueuePc, OwnerPc
<1>2. mutex \in Threads \cup {NoThread} /\ tasks \in Seq(Tasks)
  BY DEF Init
<1>3. /\ job \in [Threads -> Tasks \cup {NoTask}]
      /\ cur \in [Workers -> Tasks \cup {NoTask}]
      /\ fut \in [Tasks -> FutureState]
  BY DEF Init, FutureState
<1>4. stop \in BOOLEAN
  BY DEF Init
<1>5. Holding
  BY DEF Init, Holding, EnqueuePc
<1> QED BY <1>1, <1>2, <1>3, <1>4, <1>5 DEF TypeOK, DataOK

LEMMA PcStep == PcOK /\ AnyStep => PcOK'
<1> SUFFICES ASSUME PcOK, AnyStep PROVE PcOK'
  OBVIOUS
<1> USE PoolAssumption DEF PcOK, Threads, WorkerPc, EnqueuePc, OwnerPc, Goto, Home
<1>1. ASSUME NEW w \in Workers,
             Spawn(w) \/ WLock(w) \/ WSleep(w) \/ WWait(w) \/ SpuriousWake(w)
               \/ WExit(w) \/ WTake(w) \/ WFinish(w)
      PROVE  PcOK'
  BY <1>1 DEF Spawn, WLock, Acquire, WSleep, WWait, SpuriousWake, WExit, WTake, WFinish
<1>2. ASSUME NEW t \in Workers \cup Clients,
             ELock(t) \/ ERefuse(t) \/ EPush(t) \/ \E x \in Tasks : Call(t, x)
      PROVE  PcOK'
  BY <1>2 DEF ELock, Acquire, ERefuse, EPush, Call
<1>3. ASSUME NEW t \in Workers \cup Clients, ENotify(t)
      PROVE  PcOK'
  BY <1>3 DEF ENotify, Waiting
<1>4. CASE DNotify
  BY <1>4 DEF DNotify, Waiting
<1>5. CASE Constructed \/ SpawnThrows \/ Destroy \/ DLock \/ DStop \/ DJoin \/ DReturn
  BY <1>5 DEF Constructed, SpawnThrows, Destroy, DLock, Acquire, DStop, DJoin, DReturn
<1> QED BY <1>1, <1>2, <1>3, <1>4, <1>5 DEF AnyStep

\* Outside of the steps that hand a task on, only pc, mutex and stop change.
Passive == UNCHANGED <<tasks, job, cur, fut>>

LEMMA DataStep == PcOK /\ DataOK /\ Holding /\ AnyStep => DataOK'
<1> SUFFICES ASSUME PcOK, DataOK, Holding, AnyStep PROVE DataOK'
  OBVIOUS
<1> USE PoolAssumption DEF PcOK, DataOK, Holding, Threads, FutureState
<1>1. ASSUME NEW w \in Workers, WTake(w) PROVE DataOK'
  BY <1>1 DEF WTake
<1>2. ASSUME NEW w \in Workers, WFinish(w) PROVE DataOK'
  BY <1>2 DEF WFinish
<1>3. ASSUME NEW t \in Workers \cup Clients, ERefuse(t) PROVE DataOK'
  BY <1>3 DEF ERefuse
<1>4. ASSUME NEW t \in Workers \cup Clients, EPush(t) PROVE DataOK'
  BY <1>4 DEF EPush
<1>5. ASSUME NEW t \in Workers \cup Clients, NEW x \in Tasks, Call(t, x) PROVE DataOK'
  BY <1>5 DEF Call
<1>6. ASSUME NEW t \in Threads, NEW from, NEW to, Acquire(t, from, to) PROVE DataOK'
  BY <1>6 DEF Acquire
<1>7. ASSUME Passive, mutex' \in {mutex, NoThread} PROVE DataOK'
  BY <1>7 DEF Passive
<1>8. ASSUME NEW w \in Workers,
             Spawn(w) \/ WSleep(w) \/ WWait(w) \/ SpuriousWake(w) \/ WExit(w)
      PROVE  Passive /\ mutex' \in {mutex, NoThread}
  BY <1>8 DEF Spawn, WSleep, WWait, SpuriousWake, WExit, Passive
<1>9. ASSUME Constructed \/ SpawnThrows \/ Destroy \/ DStop \/ DNotify \/ DJoin
               \/ DReturn \/ \E t \in Workers \cup Clients : ENotify(t)
      PROVE  Passive /\ mutex' \in {mutex, NoThread}
  BY <1>9 DEF Constructed, SpawnThrows, Destroy, DStop, DNotify, DJoin, DReturn,
              ENotify, Passive
<1> QED
  BY <1>1, <1>2, <1>3, <1>4, <1>5, <1>6, <1>7, <1>8, <1>9 DEF AnyStep, WLock, ELock, DLock

LEMMA StopStep == stop \in BOOLEAN /\ AnyStep => stop' \in BOOLEAN
<1> SUFFICES ASSUME stop \in BOOLEAN, AnyStep PROVE stop' \in BOOLEAN
  OBVIOUS
<1>1. stop' \in {stop, TRUE}
  BY DEF AnyStep, Spawn, WLock, ELock, DLock, Acquire, WSleep, WWait, SpuriousWake, WExit,
         WTake, WFinish, ERefuse, EPush, ENotify, Call, Constructed, SpawnThrows, Destroy,
         DStop, DNotify, DJoin, DReturn
<1> QED BY <1>1

LEMMA HoldingStep == PcOK /\ DataOK /\ Holding /\ AnyStep => Holding'
<1> SUFFICES ASSUME PcOK, DataOK, Holding, AnyStep PROVE Holding'
  OBVIOUS
<1> USE PoolAssumption DEF PcOK, DataOK, Holding, Threads, WorkerPc, EnqueuePc, OwnerPc,
                           Goto, Home
<1>1. ASSUME NEW w \in Workers,
             Spawn(w) \/ WLock(w) \/ WSleep(w) \/ WWait(w) \/ SpuriousWake(w) \/ WExit(w)
      PROVE  Holding'
  BY <1>1 DEF Spawn, WLock, Acquire, WSleep, WWait, SpuriousWake, WExit
<1>2. ASSUME NEW w \in Workers, WTake(w) PROVE Holding'
  BY <1>2 DEF WTake
<1>3. ASSUME NEW w \in Workers, WFinish(w) PROVE Holding'
  BY <1>3 DEF WFinish
<1>4. ASSUME NEW t \in Workers \cup Clients, ELock(t) PROVE Holding'
  BY <1>4 DEF ELock, Acquire
<1>5. ASSUME NEW t \in Workers \cup Clients, ERefuse(t) PROVE Holding'
  BY <1>5 DEF ERefuse
<1>6. ASSUME NEW t \in Workers \cup Clients, EPush(t) PROVE Holding'
  BY <1>6 DEF EPush
<1>7. ASSUME NEW t \in Workers \cup Clients, NEW x \in Tasks, Call(t, x) PROVE Holding'
  BY <1>7 DEF Call
<1>8. ASSUME NEW t \in Workers \cup Clients, ENotify(t) PROVE Holding'
  BY <1>8 DEF ENotify, Waiting
<1>9. CASE DNotify
  BY <1>9 DEF DNotify, Waiting
<1>10. CASE Constructed \/ SpawnThrows \/ Destroy \/ DLock \/ DStop \/ DJoin \/ DReturn
  BY <1>10 DEF Constructed, SpawnThrows, Destroy, DLock, Acquire, DStop, DJoin, DReturn
<1> QED BY <1>1, <1>2, <1>3, <1>4, <1>5, <1>6, <1>7, <1>8, <1>9, <1>10 DEF AnyStep

LEMMA TypeStep == TypeOK /\ Holding /\ [Next]_vars => (TypeOK /\ Holding)'
<1>1. TypeOK /\ Holding /\ AnyStep => (TypeOK /\ Holding)'
  BY PcStep, DataStep, StopStep, HoldingStep DEF TypeOK
<1>2. TypeOK /\ Holding /\ UNCHANGED vars => (TypeOK /\ Holding)'
  BY DEF TypeOK, PcOK, DataOK, Holding, vars
<1> QED BY <1>1, <1>2, StepCases

\* Every variable keeps its type, and a task is in the hands of exactly the
\* threads that are at a place where the code has one.
THEOREM TypeCorrect == Spec => [](TypeOK /\ Holding)
  BY TypeInit, TypeStep, PTL DEF Spec

-------------------------------------------------------------------------------
(* The mutex, the flag and the end of the workers. *)

StopKnown ==
  stop <=> pc[Owner] \in {"d_notify", "d_join", "joined", "gone"}

\* A worker that has returned, or that is about to block, has seen the queue
\* empty, and that is what it still is.
LeftDrained == \A w \in Workers : pc[w] = "exited" => stop /\ tasks = <<>>
SleepEmpty == \A w \in Workers : pc[w] = "sleep" => ~stop /\ tasks = <<>>

Sync == MutexHeld /\ StopKnown /\ LeftDrained /\ SleepEmpty

LEMMA SyncInit == Init => Sync
<1> SUFFICES ASSUME Init PROVE Sync
  OBVIOUS
<1> USE PoolAssumption DEF Init, Threads
<1>1. MutexHeld
  BY DEF MutexHeld, Critical
<1>2. ~stop /\ pc[Owner] = "ctor" /\ \A w \in Workers : pc[w] = "unborn"
  OBVIOUS
<1> QED BY <1>1, <1>2 DEF Sync, StopKnown, LeftDrained, SleepEmpty

LEMMA MutexStep == PcOK /\ MutexHeld /\ AnyStep => MutexHeld'
<1> SUFFICES ASSUME PcOK, MutexHeld, AnyStep PROVE MutexHeld'
  OBVIOUS
<1> USE PoolAssumption DEF PcOK, MutexHeld, Critical, Threads, WorkerPc, EnqueuePc, OwnerPc,
                           Goto, Home
<1>1. ASSUME NEW w \in Workers,
             Spawn(w) \/ WLock(w) \/ WSleep(w) \/ WWait(w) \/ SpuriousWake(w)
               \/ WExit(w) \/ WTake(w) \/ WFinish(w)
      PROVE  MutexHeld'
  BY <1>1 DEF Spawn, WLock, Acquire, WSleep, WWait, SpuriousWake, WExit, WTake, WFinish
<1>2. ASSUME NEW t \in Workers \cup Clients,
             ELock(t) \/ ERefuse(t) \/ EPush(t) \/ \E x \in Tasks : Call(t, x)
      PROVE  MutexHeld'
  BY <1>2 DEF ELock, Acquire, ERefuse, EPush, Call
<1>3. ASSUME NEW t \in Workers \cup Clients, ENotify(t)
      PROVE  MutexHeld'
  BY <1>3 DEF ENotify, Waiting
<1>4. CASE DNotify
  BY <1>4 DEF DNotify, Waiting
<1>5. CASE Constructed \/ SpawnThrows \/ Destroy \/ DLock \/ DStop \/ DJoin \/ DReturn
  BY <1>5 DEF Constructed, SpawnThrows, Destroy, DLock, Acquire, DStop, DJoin, DReturn
<1> QED BY <1>1, <1>2, <1>3, <1>4, <1>5 DEF AnyStep

\* What the steps of the other threads leave alone of the owner.
LEMMA OwnerStays ==
  ASSUME PcOK, NEW t \in Workers \cup Clients,
         \/ ELock(t) \/ ERefuse(t) \/ EPush(t) \/ ENotify(t) \/ \E x \in Tasks : Call(t, x)
         \/ /\ t \in Workers
            /\ \/ Spawn(t) \/ WLock(t) \/ WSleep(t) \/ WWait(t) \/ SpuriousWake(t)
               \/ WExit(t) \/ WTake(t) \/ WFinish(t)
  PROVE  pc'[Owner] = pc[Owner] /\ stop' = stop
BY PoolAssumption
   DEF PcOK, Threads, Goto, Home, Spawn, WLock, ELock, Acquire, WSleep, WWait, SpuriousWake,
       WExit, WTake, WFinish, ERefuse, EPush, ENotify, Waiting, Call

LEMMA StopKnownStep == PcOK /\ StopKnown /\ AnyStep => StopKnown'
<1> SUFFICES ASSUME PcOK, StopKnown, AnyStep PROVE StopKnown'
  OBVIOUS
<1>1. ASSUME pc'[Owner] = pc[Owner], stop' = stop PROVE StopKnown'
  BY <1>1 DEF StopKnown
<1> USE PoolAssumption DEF PcOK, Threads, StopKnown, Goto
<1>2. CASE Constructed \/ SpawnThrows \/ Destroy \/ DLock \/ DJoin \/ DReturn
  BY <1>2 DEF Constructed, SpawnThrows, Destroy, DLock, Acquire, DJoin, DReturn
<1>3. CASE DStop
  BY <1>3 DEF DStop
<1>4. CASE DNotify
  BY <1>4 DEF DNotify
<1> QED BY <1>1, <1>2, <1>3, <1>4, OwnerStays DEF AnyStep

\* The steps that touch the queue, the flag or a worker's end, and the rest.
LEMMA DrainedStep == PcOK /\ DataOK /\ Sync /\ AnyStep => LeftDrained' /\ SleepEmpty'
<1> SUFFICES ASSUME PcOK, DataOK, Sync, AnyStep PROVE LeftDrained' /\ SleepEmpty'
  OBVIOUS
<1> USE PoolAssumption
    DEF PcOK, DataOK, Threads, Sync, MutexHeld, StopKnown, LeftDrained, SleepEmpty, Critical,
        WorkerPc, EnqueuePc, OwnerPc, Goto, Home
<1>1. ASSUME NEW w \in Workers,
             Spawn(w) \/ WLock(w) \/ WSleep(w) \/ WWait(w) \/ SpuriousWake(w) \/ WFinish(w)
      PROVE  LeftDrained' /\ SleepEmpty'
  BY <1>1 DEF Spawn, WLock, Acquire, WSleep, WWait, SpuriousWake, WFinish
<1>2. ASSUME NEW w \in Workers, WExit(w) PROVE LeftDrained' /\ SleepEmpty'
  BY <1>2 DEF WExit
<1>3. ASSUME NEW w \in Workers, WTake(w) PROVE LeftDrained' /\ SleepEmpty'
  BY <1>3 DEF WTake
<1>4. ASSUME NEW t \in Workers \cup Clients,
             ELock(t) \/ ERefuse(t) \/ \E x \in Tasks : Call(t, x)
      PROVE  LeftDrained' /\ SleepEmpty'
  BY <1>4 DEF ELock, Acquire, ERefuse, Call
<1>5. ASSUME NEW t \in Workers \cup Clients, EPush(t) PROVE LeftDrained' /\ SleepEmpty'
  BY <1>5 DEF EPush
<1>6. ASSUME NEW t \in Workers \cup Clients, ENotify(t) PROVE LeftDrained' /\ SleepEmpty'
  BY <1>6 DEF ENotify, Waiting
<1>7. CASE DNotify
  BY <1>7 DEF DNotify, Waiting
<1>8. CASE DStop
  BY <1>8 DEF DStop
<1>9. CASE Constructed \/ SpawnThrows \/ Destroy \/ DLock \/ DJoin \/ DReturn
  BY <1>9 DEF Constructed, SpawnThrows, Destroy, DLock, Acquire, DJoin, DReturn
<1> QED BY <1>1, <1>2, <1>3, <1>4, <1>5, <1>6, <1>7, <1>8, <1>9 DEF AnyStep

LEMMA SyncStep == TypeOK /\ Sync /\ [Next]_vars => Sync'
<1>1. TypeOK /\ Sync /\ AnyStep => Sync'
  BY MutexStep, StopKnownStep, DrainedStep DEF TypeOK, Sync
<1>2. Sync /\ UNCHANGED vars => Sync'
  BY DEF Sync, MutexHeld, Critical, StopKnown, LeftDrained, SleepEmpty, vars
<1> QED BY <1>1, <1>2, StepCases

LEMMA SyncCorrect == Spec => []Sync
  BY TypeCorrect, SyncInit, SyncStep, PTL DEF Spec

\* A thread is between lock and unlock exactly when it holds queue_mutex.
THEOREM MutexCorrect == Spec => []MutexHeld
  BY SyncCorrect, PTL DEF Sync

-------------------------------------------------------------------------------
(* Nobody sleeps through a task or through the shutdown. *)

LEMMA TaskNoticedInit == Init => TaskNoticed
  BY DEF Init, TaskNoticed

LEMMA TaskNoticedStep == TypeOK /\ Sync /\ TaskNoticed /\ [Next]_vars => TaskNoticed'
<1>1. ASSUME TypeOK, Sync, TaskNoticed, AnyStep PROVE TaskNoticed'
  <2> USE <1>1, PoolAssumption
      DEF TypeOK, PcOK, DataOK, Threads, Sync, StopKnown, LeftDrained, SleepEmpty,
          TaskNoticed, WorkerPc, EnqueuePc, OwnerPc, Goto, Home
  <2>1. ASSUME NEW w \in Workers,
               Spawn(w) \/ WLock(w) \/ WSleep(w) \/ WWait(w) \/ SpuriousWake(w)
                 \/ WExit(w) \/ WFinish(w)
        PROVE  TaskNoticed'
    BY <2>1 DEF Spawn, WLock, Acquire, WSleep, WWait, SpuriousWake, WExit, WFinish
  <2>2. ASSUME NEW w \in Workers, WTake(w) PROVE TaskNoticed'
    BY <2>2 DEF WTake
  <2>3. ASSUME NEW t \in Workers \cup Clients,
               ELock(t) \/ ERefuse(t) \/ EPush(t) \/ \E x \in Tasks : Call(t, x)
        PROVE  TaskNoticed'
    BY <2>3 DEF ELock, Acquire, ERefuse, EPush, Call
  <2>4. ASSUME NEW t \in Workers \cup Clients, ENotify(t) PROVE TaskNoticed'
    BY <2>4 DEF ENotify, Waiting
  <2>5. CASE DNotify
    BY <2>5 DEF DNotify, Waiting
  <2>6. CASE Constructed \/ SpawnThrows \/ Destroy \/ DLock \/ DStop \/ DJoin \/ DReturn
    BY <2>6 DEF Constructed, SpawnThrows, Destroy, DLock, Acquire, DStop, DJoin, DReturn
  <2> QED BY <2>1, <2>2, <2>3, <2>4, <2>5, <2>6 DEF AnyStep
<1>2. TaskNoticed /\ UNCHANGED vars => TaskNoticed'
  BY DEF TaskNoticed, vars
<1> QED BY <1>1, <1>2, StepCases

\* No lost wakeup: while a task is queued, a worker is awake or the
\* notification for a task is still to come.
THEOREM TaskNoticedCorrect == Spec => []TaskNoticed
  BY TypeCorrect, SyncCorrect, TaskNoticedInit, TaskNoticedStep, PTL DEF Spec

\* The loop over the workers ends when each of them has returned, and none
\* comes back.
AllLeft ==
  pc[Owner] \in {"joined", "gone"} => \A w \in Workers : pc[w] = "exited"

Shutdown == ShutdownNoticed /\ AllLeft

LEMMA ShutdownInit == Init => Shutdown
  BY PoolAssumption DEF Init, Shutdown, ShutdownNoticed, AllLeft, Threads

LEMMA ShutdownStep == TypeOK /\ Sync /\ Shutdown /\ [Next]_vars => Shutdown'
<1>1. ASSUME TypeOK, Sync, Shutdown, AnyStep PROVE Shutdown'
  <2> USE <1>1, PoolAssumption
      DEF TypeOK, PcOK, DataOK, Threads, Sync, StopKnown, SleepEmpty,
          Shutdown, ShutdownNoticed, AllLeft, WorkerPc, EnqueuePc, OwnerPc, Goto, Home
  <2>1. ASSUME NEW w \in Workers,
               Spawn(w) \/ WLock(w) \/ WSleep(w) \/ WWait(w) \/ SpuriousWake(w)
                 \/ WExit(w) \/ WTake(w) \/ WFinish(w)
        PROVE  Shutdown'
    BY <2>1 DEF Spawn, WLock, Acquire, WSleep, WWait, SpuriousWake, WExit, WTake, WFinish
  <2>2. ASSUME NEW t \in Workers \cup Clients,
               ELock(t) \/ ERefuse(t) \/ EPush(t) \/ \E x \in Tasks : Call(t, x)
        PROVE  Shutdown'
    BY <2>2 DEF ELock, Acquire, ERefuse, EPush, Call
  <2>3. ASSUME NEW t \in Workers \cup Clients, ENotify(t) PROVE Shutdown'
    BY <2>3 DEF ENotify, Waiting
  <2>4. CASE DNotify
    BY <2>4 DEF DNotify, Waiting
  <2>5. CASE Constructed \/ SpawnThrows \/ Destroy \/ DLock \/ DStop \/ DJoin \/ DReturn
    BY <2>5 DEF Constructed, SpawnThrows, Destroy, DLock, Acquire, DStop, DJoin, DReturn
  <2> QED BY <2>1, <2>2, <2>3, <2>4, <2>5 DEF AnyStep
<1>2. Shutdown /\ UNCHANGED vars => Shutdown'
  BY DEF Shutdown, ShutdownNoticed, AllLeft, vars
<1> QED BY <1>1, <1>2, StepCases

LEMMA ShutdownCorrect == Spec => []Shutdown
  BY TypeCorrect, SyncCorrect, ShutdownInit, ShutdownStep, PTL DEF Spec

\* No worker is blocked, or about to block, once notify_all has run.
THEOREM ShutdownNoticedCorrect == Spec => []ShutdownNoticed
  BY ShutdownCorrect, PTL DEF Shutdown

-------------------------------------------------------------------------------
(* Where each task is. *)

LEMMA HandlingInit == Init => TaskHandling
<1> SUFFICES ASSUME Init PROVE TaskHandling
  OBVIOUS
<1> USE PoolAssumption DEF Init, Threads
<1>1. TaskPlaced
  BY DEF TaskPlaced
<1>2. TaskUnique
  BY DEF TaskUnique
<1> QED BY <1>1, <1>2 DEF TaskHandling

\* A step that moves no task.
LEMMA PassiveHandling == TaskHandling /\ Passive => TaskHandling'
  BY DEF TaskHandling, TaskPlaced, TaskUnique, Passive

LEMMA PassiveSteps ==
  ASSUME AnyStep
  PROVE  \/ Passive
         \/ \E w \in Workers : WTake(w) \/ WFinish(w)
         \/ \E t \in Workers \cup Clients : ERefuse(t) \/ EPush(t) \/ \E x \in Tasks : Call(t, x)
BY DEF AnyStep, Passive, Spawn, WLock, ELock, DLock, Acquire, WSleep, WWait, SpuriousWake,
       WExit, ENotify, Constructed, SpawnThrows, Destroy, DStop, DNotify, DJoin, DReturn

LEMMA HandlingStep == TypeOK /\ Holding /\ TaskHandling /\ [Next]_vars => TaskHandling'
<1>1. ASSUME TypeOK, Holding, TaskHandling, AnyStep PROVE TaskHandling'
  <2> USE <1>1, PoolAssumption
      DEF TypeOK, DataOK, Threads, Holding, TaskHandling, TaskPlaced, TaskUnique
  <2>1. ASSUME NEW t \in Workers \cup Clients, NEW x \in Tasks, Call(t, x)
        PROVE  TaskHandling'
    <3>1. job[t] = NoTask
      BY <2>1 DEF Call, Home
    <3>2. TaskPlaced'
      BY <2>1, <3>1 DEF Call
    <3>3. TaskUnique'
      BY <2>1, <3>1 DEF Call
    <3> QED BY <3>2, <3>3
  <2>2. ASSUME NEW t \in Workers \cup Clients, ERefuse(t)
        PROVE  TaskHandling'
    <3>1. job[t] \in Tasks
      BY <2>2 DEF ERefuse
    <3>2. TaskPlaced'
      BY <2>2, <3>1 DEF ERefuse
    <3>3. TaskUnique'
      BY <2>2, <3>1 DEF ERefuse
    <3> QED BY <3>2, <3>3
  <2>3. ASSUME NEW t \in Workers \cup Clients, EPush(t)
        PROVE  TaskHandling'
    <3>1. job[t] \in Tasks /\ fut[job[t]] = "offered"
      BY <2>3 DEF EPush
    <3>2. /\ Len(tasks') = Len(tasks) + 1
          /\ \A i \in 1 .. Len(tasks) : tasks'[i] = tasks[i]
          /\ tasks'[Len(tasks) + 1] = job[t]
      BY <2>3, <3>1 DEF EPush
    <3>3. Len(tasks) \in Nat
      OBVIOUS
    <3>4. TaskPlaced'
      BY <2>3, <3>1, <3>2, <3>3 DEF EPush
    <3>5. TaskUnique'
      BY <2>3, <3>1, <3>2, <3>3 DEF EPush
    <3> QED BY <3>4, <3>5
  <2>4. ASSUME NEW w \in Workers, WTake(w)
        PROVE  TaskHandling'
    <3>1. cur[w] = NoTask
      BY <2>4 DEF WTake, EnqueuePc
    <3>2. /\ Len(tasks) \in Nat \ {0} /\ Head(tasks) = tasks[1]
          /\ Len(tasks') = Len(tasks) - 1
          /\ \A i \in 1 .. Len(tasks') : tasks'[i] = tasks[i + 1]
      BY <2>4 DEF WTake
    <3>3. Head(tasks) \in Tasks /\ fut[Head(tasks)] = "queued"
      BY <2>4, <3>2 DEF WTake
    <3>4. TaskPlaced'
      <4>1. ASSUME NEW x \in Tasks
            PROVE  /\ fut'[x] = "offered" <=> \E t \in Threads : job'[t] = x
                   /\ fut'[x] = "running" <=> \E v \in Workers : cur'[v] = x
        BY <2>4, <3>1, <3>3 DEF WTake
      <4>2. \A i \in 1 .. Len(tasks') : tasks'[i] # Head(tasks)
        BY <3>2
      <4>3. ASSUME NEW x \in Tasks, x # Head(tasks),
                   NEW i \in 1 .. Len(tasks), tasks[i] = x
            PROVE  \E j \in 1 .. Len(tasks') : tasks'[j] = x
        <5>1. i - 1 \in 1 .. Len(tasks') /\ (i - 1) + 1 = i
          BY <3>2, <4>3
        <5>2. tasks'[i - 1] = x
          BY <5>1, <3>2, <4>3
        <5> QED BY <5>1, <5>2
      <4>4. ASSUME NEW x \in Tasks
            PROVE  fut'[x] = "queued" <=> \E i \in 1 .. Len(tasks') : tasks'[i] = x
        <5>1. CASE x = Head(tasks)
          <6>1. fut'[x] = "running"
            BY <2>4, <3>3, <5>1 DEF WTake
          <6>2. ~ \E i \in 1 .. Len(tasks') : tasks'[i] = x
            BY <4>2, <5>1
          <6> QED BY <6>1, <6>2
        <5>2. CASE x # Head(tasks)
          <6>1. fut'[x] = fut[x]
            BY <2>4, <3>3, <5>2 DEF WTake
          <6>2. (\E i \in 1 .. Len(tasks') : tasks'[i] = x)
                  => \E i \in 1 .. Len(tasks) : tasks[i] = x
            <7>1. \A i \in 1 .. Len(tasks') : i + 1 \in 1 .. Len(tasks)
              BY <3>2
            <7> QED BY <7>1, <3>2
          <6> QED BY <6>1, <6>2, <4>3, <5>2
        <5> QED BY <5>1, <5>2
      <4> QED BY <4>1, <4>4
    <3>5. TaskUnique'
      BY <2>4, <3>1, <3>2, <3>3 DEF WTake
    <3> QED BY <3>4, <3>5
  <2>5. ASSUME NEW w \in Workers, WFinish(w)
        PROVE  TaskHandling'
    <3>1. cur[w] \in Tasks /\ fut[cur[w]] = "running"
      BY <2>5 DEF WFinish
    <3>2. TaskPlaced'
      BY <2>5, <3>1 DEF WFinish
    <3>3. TaskUnique'
      BY <2>5, <3>1 DEF WFinish
    <3> QED BY <3>2, <3>3
  <2> QED BY <2>1, <2>2, <2>3, <2>4, <2>5, PassiveSteps, PassiveHandling
<1>2. TaskHandling /\ UNCHANGED vars => TaskHandling'
  BY PassiveHandling DEF Passive, vars
<1> QED BY <1>1, <1>2, StepCases

\* Each task is in one place at a time and there once, so no two workers run
\* the same task and none is lost between the queue and a worker.
THEOREM TaskHandlingCorrect == Spec => []TaskHandling
  BY TypeCorrect, HandlingInit, HandlingStep, PTL DEF Spec

LEMMA Drained == TypeOK /\ Holding /\ Sync /\ Shutdown /\ TaskHandling => DrainedOnJoin
<1> SUFFICES ASSUME TypeOK, Holding, Sync, Shutdown, TaskHandling,
                    pc[Owner] \in {"joined", "gone"}
             PROVE  /\ \A w \in Workers : pc[w] = "exited"
                    /\ \A x \in Tasks : fut[x] \notin {"queued", "running"}
  BY DEF DrainedOnJoin
<1>1. \A w \in Workers : pc[w] = "exited"
  BY DEF Shutdown, AllLeft
<1>2. tasks = <<>>
  BY <1>1, PoolAssumption DEF Sync, LeftDrained
<1>3. \A w \in Workers : cur[w] = NoTask
  BY <1>1 DEF Holding, EnqueuePc
<1>4. \A x \in Tasks : fut[x] \notin {"queued", "running"}
  BY <1>2, <1>3, PoolAssumption DEF TaskHandling, TaskPlaced
<1> QED BY <1>1, <1>4

\* When the destructor has joined the workers, every accepted task has been
\* run and no worker is left.
THEOREM DrainedOnJoinCorrect == Spec => []DrainedOnJoin
  BY TypeCorrect, SyncCorrect, ShutdownCorrect, TaskHandlingCorrect, Drained, PTL

-------------------------------------------------------------------------------
(* A stopped pool only shrinks. *)

LEMMA StopStepFinal ==
  TypeOK /\ [Next]_vars => (stop => stop' /\ Len(tasks') <= Len(tasks))
<1> SUFFICES ASSUME TypeOK, [Next]_vars, stop PROVE stop' /\ Len(tasks') <= Len(tasks)
  OBVIOUS
<1>0. Len(tasks) \in Nat
  BY DEF TypeOK, DataOK
<1>1. CASE UNCHANGED vars
  BY <1>0, <1>1 DEF vars
<1>2. CASE AnyStep
  <2>1. stop'
    BY <1>2 DEF AnyStep, Spawn, WLock, ELock, DLock, Acquire, WSleep, WWait, SpuriousWake,
         WExit, WTake, WFinish, ERefuse, EPush, ENotify, Call, Constructed, SpawnThrows,
         Destroy, DStop, DNotify, DJoin, DReturn
  <2>2. ASSUME NEW w \in Workers, WTake(w) PROVE Len(tasks') <= Len(tasks)
    BY <2>2 DEF WTake, TypeOK, DataOK
  <2>3. ASSUME tasks' = tasks PROVE Len(tasks') <= Len(tasks)
    BY <1>0, <2>3
  <2>4. \A t \in Workers \cup Clients : ~EPush(t)
    BY DEF EPush
  <2>5. tasks' = tasks \/ \E w \in Workers : WTake(w)
    BY <1>2, <2>4, PassiveSteps DEF Passive, WFinish, ERefuse, Call
  <2> QED BY <2>1, <2>2, <2>3, <2>5
<1> QED BY <1>1, <1>2, StepCases

\* Nothing is enqueued after the destructor has set stop.
THEOREM StopIsFinalCorrect == Spec => StopIsFinal
<1>1. TypeOK /\ [Next]_vars => [stop => stop' /\ Len(tasks') <= Len(tasks)]_vars
  BY StopStepFinal
<1> QED BY <1>1, TypeCorrect, PTL DEF Spec, StopIsFinal

-------------------------------------------------------------------------------
(* ThreadPool implements TaskPool. *)

PRunning == {x \in Tasks : fut[x] = "running"}
PFinished == {x \in Tasks : fut[x] = "ready"}
PPhase == IF pc[Owner] \in {"joined", "gone"} THEN "gone"
          ELSE IF stop THEN "closing" ELSE "open"

LEMMA PoolInit == Init => Pool!Init
<1> SUFFICES ASSUME Init PROVE Pool!Init
  OBVIOUS
<1>1. pc[Owner] = "ctor" /\ ~stop
  BY PoolAssumption DEF Init, Threads
<1>2. PPhase = "open"
  BY <1>1 DEF PPhase
<1>3. PRunning = {} /\ PFinished = {} /\ tasks = <<>>
  BY DEF Init, PRunning, PFinished
<1> QED BY <1>2, <1>3 DEF Pool!Init, PPhase, PRunning, PFinished

\* What the workers and callers leave of the phase.
LEMMA PhaseStays ==
  ASSUME pc'[Owner] = pc[Owner], stop' = stop
  PROVE  PPhase' = PPhase
BY DEF PPhase

LEMMA PhaseOpen == StopKnown /\ ~stop => PPhase = "open"
  BY DEF PPhase, StopKnown

\* The steps that TaskPool does not see.
PoolStutters == tasks' = tasks /\ PRunning' = PRunning /\ PFinished' = PFinished
                  /\ PPhase' = PPhase

LEMMA PassiveStutters == Passive => PRunning' = PRunning /\ PFinished' = PFinished
  BY DEF Passive, PRunning, PFinished

LEMMA PoolStep ==
  ASSUME TypeOK, Holding, Sync, Shutdown, TaskHandling, AnyStep
  PROVE  [Pool!Next]_(Pool!vars)
<1>0. ASSUME PoolStutters PROVE UNCHANGED Pool!vars
  BY <1>0 DEF PoolStutters, Pool!vars, PRunning, PFinished, PPhase
<1>1. ASSUME NEW w \in Workers, WTake(w) PROVE Pool!Start
  <2>1. tasks # <<>> /\ Head(tasks) \in Tasks /\ tasks' = Tail(tasks)
    BY <1>1 DEF WTake, TypeOK, DataOK
  <2>2. PRunning' = PRunning \cup {Head(tasks)}
    BY <1>1, <2>1 DEF WTake, TypeOK, DataOK, PRunning
  <2>3. fut[Head(tasks)] = "queued"
    BY <2>1 DEF TaskHandling, TaskPlaced, TypeOK, DataOK
  <2>4. PFinished' = PFinished
    BY <1>1, <2>1, <2>3 DEF WTake, TypeOK, DataOK, PFinished
  <2>5. PPhase' = PPhase
    BY <1>1, OwnerStays, PhaseStays DEF TypeOK
  <2> QED BY <2>1, <2>2, <2>4, <2>5 DEF Pool!Start, PRunning, PFinished, PPhase
<1>2. ASSUME NEW w \in Workers, WFinish(w) PROVE \E x \in Tasks : Pool!Finish(x)
  <2>1. PICK x \in Tasks : cur[w] = x /\ fut[x] = "running"
    BY <1>2, PoolAssumption DEF WFinish, TypeOK, DataOK, Holding, TaskHandling, TaskPlaced
  <2>2. x \in PRunning /\ PRunning' = PRunning \ {x} /\ PFinished' = PFinished \cup {x}
    BY <1>2, <2>1 DEF WFinish, TypeOK, DataOK, PRunning, PFinished
  <2>3. PPhase' = PPhase /\ tasks' = tasks
    BY <1>2, OwnerStays, PhaseStays DEF TypeOK, WFinish
  <2>4. Pool!Finish(x)
    BY <2>2, <2>3 DEF Pool!Finish, PRunning, PFinished, PPhase
  <2> QED BY <2>4
<1>3. ASSUME NEW t \in Workers \cup Clients, EPush(t) PROVE \E x \in Tasks : Pool!Accept(x)
  <2>1. job[t] \in Tasks /\ fut[job[t]] = "offered"
    BY <1>3, PoolAssumption
       DEF EPush, TypeOK, DataOK, Holding, TaskHandling, TaskPlaced, Threads
  <2>2. PPhase = "open" /\ PPhase' = PPhase
    BY <1>3, PhaseOpen, OwnerStays, PhaseStays DEF EPush, Sync, TypeOK
  <2>3. PRunning' = PRunning /\ PFinished' = PFinished
    BY <1>3, <2>1 DEF EPush, TypeOK, DataOK, PRunning, PFinished
  <2>4. job[t] \notin Pool!Queued
    BY <2>1 DEF Pool!Queued, TaskHandling, TaskPlaced
  <2>5. job[t] \notin PRunning \cup PFinished
    BY <2>1 DEF PRunning, PFinished
  <2>6. tasks' = Append(tasks, job[t])
    BY <1>3 DEF EPush
  <2>7. Pool!Accept(job[t])
    BY <2>2, <2>3, <2>4, <2>5, <2>6 DEF Pool!Accept, PRunning, PFinished, PPhase
  <2> QED BY <2>1, <2>7
<1>4. ASSUME NEW t \in Workers \cup Clients, ERefuse(t) PROVE PoolStutters
  <2>1. job[t] \in Tasks /\ fut[job[t]] = "offered"
    BY <1>4, PoolAssumption
       DEF ERefuse, TypeOK, DataOK, Holding, TaskHandling, TaskPlaced, Threads
  <2>2. PRunning' = PRunning /\ PFinished' = PFinished /\ tasks' = tasks
    BY <1>4, <2>1 DEF ERefuse, TypeOK, DataOK, PRunning, PFinished
  <2> QED BY <1>4, <2>2, OwnerStays, PhaseStays DEF PoolStutters, TypeOK
<1>5. ASSUME NEW t \in Workers \cup Clients, NEW x \in Tasks, Call(t, x) PROVE PoolStutters
  <2>1. PRunning' = PRunning /\ PFinished' = PFinished /\ tasks' = tasks
    BY <1>5 DEF Call, TypeOK, DataOK, PRunning, PFinished
  <2> QED BY <1>5, <2>1, OwnerStays, PhaseStays DEF PoolStutters, TypeOK
<1>6. ASSUME NEW t \in Workers \cup Clients, Passive,
             \/ ELock(t) \/ ENotify(t)
             \/ /\ t \in Workers
                /\ \/ Spawn(t) \/ WLock(t) \/ WSleep(t) \/ WWait(t)
                   \/ SpuriousWake(t) \/ WExit(t)
      PROVE  PoolStutters
  <2>1. PPhase' = PPhase
    BY <1>6, OwnerStays, PhaseStays DEF TypeOK
  <2> QED BY <1>6, <2>1, PassiveStutters DEF PoolStutters, Passive
<1>7. CASE DStop
  <2>1. Passive /\ pc[Owner] = "d_stop" /\ pc'[Owner] = "d_notify" /\ stop'
    BY <1>7, PoolAssumption DEF DStop, Passive, Goto, TypeOK, PcOK, Threads
  <2>2. PPhase = "open" /\ PPhase' = "closing"
    BY <2>1, PhaseOpen DEF PPhase, Sync, StopKnown
  <2> QED
    BY <2>1, <2>2, PassiveStutters
       DEF Pool!Next, Pool!Shut, Passive, PRunning, PFinished, PPhase
<1>8. CASE DJoin
  <2>1. /\ Passive /\ pc[Owner] = "d_join" /\ pc'[Owner] = "joined"
        /\ \A w \in Workers : pc[w] = "exited"
    BY <1>8, PoolAssumption DEF DJoin, Passive, Goto, TypeOK, PcOK, Threads
  <2>2. tasks = <<>> /\ stop
    BY <2>1, PoolAssumption DEF Sync, LeftDrained
  <2>3. \A w \in Workers : cur[w] = NoTask
    BY <2>1 DEF Holding, EnqueuePc
  <2>4. PRunning = {}
    BY <2>3, PoolAssumption DEF TaskHandling, TaskPlaced, PRunning
  <2>5. PPhase = "closing" /\ PPhase' = "gone"
    BY <2>1, <2>2 DEF PPhase
  <2> QED
    BY <2>1, <2>2, <2>4, <2>5, PassiveStutters
       DEF Pool!Next, Pool!Release, Passive, PRunning, PFinished, PPhase
<1>9. CASE Constructed \/ SpawnThrows \/ Destroy \/ DLock \/ DNotify \/ DReturn
  <2>1. Passive /\ stop' = stop
    BY <1>9 DEF Constructed, SpawnThrows, Destroy, DLock, Acquire, DNotify, DReturn, Passive
  <2>2. pc'[Owner] \in {"joined", "gone"} <=> pc[Owner] \in {"joined", "gone"}
    BY <1>9, PoolAssumption
       DEF Constructed, SpawnThrows, Destroy, DLock, Acquire, DNotify, DReturn, Goto,
           TypeOK, PcOK, Threads
  <2>3. PPhase' = PPhase
    BY <2>1, <2>2 DEF PPhase
  <2>4. PoolStutters
    BY <2>1, <2>3, PassiveStutters DEF PoolStutters, Passive
  <2> QED BY <2>4, <1>0
<1>10. ASSUME NEW w \in Workers,
              Spawn(w) \/ WLock(w) \/ WSleep(w) \/ WWait(w) \/ SpuriousWake(w) \/ WExit(w)
       PROVE  PoolStutters
  BY <1>6, <1>10 DEF Passive, Spawn, WLock, Acquire, WSleep, WWait, SpuriousWake, WExit
<1>11. ASSUME NEW t \in Workers \cup Clients, ELock(t) \/ ENotify(t)
       PROVE  PoolStutters
  BY <1>6, <1>11 DEF Passive, ELock, Acquire, ENotify
<1> QED
  BY <1>0, <1>1, <1>2, <1>3, <1>4, <1>5, <1>7, <1>8, <1>9, <1>10, <1>11 DEF AnyStep, Pool!Next

LEMMA PoolStutter == UNCHANGED vars => UNCHANGED Pool!vars
  BY DEF vars, Pool!vars

\* The workers, the lock and the condition variable keep TaskPool's promise:
\* tasks start in the order of acceptance, once each, and all of them have
\* finished when the destructor has joined the workers.
THEOREM Implements == Spec => ImplementsTaskPool
<1>1. /\ TypeOK /\ Holding /\ Sync /\ Shutdown /\ TaskHandling
      /\ [Next]_vars
      => [Pool!Next]_(Pool!vars)
  BY StepCases, PoolStep, PoolStutter
<1> QED
  BY <1>1, PoolInit, TypeCorrect, SyncCorrect, ShutdownCorrect, TaskHandlingCorrect, PTL
     DEF Spec, ImplementsTaskPool, Pool!Spec
===============================================================================
