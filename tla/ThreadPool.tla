------------------------------ MODULE ThreadPool ------------------------------
(***************************************************************************)
(* common/thread_pool.hpp: worker threads that share a task queue behind   *)
(* one mutex and one condition variable, enqueue() from any thread (a      *)
(* running task may call it too), and a destructor that stops the pool and *)
(* joins the workers.                                                      *)
(*                                                                         *)
(* Each action is what a thread does between two points where another      *)
(* thread can run: acquiring the mutex is a step of its own, so is         *)
(* blocking on the condition variable after the predicate was found false, *)
(* and so is the notification that follows the unlock.                     *)
(*                                                                         *)
(* Definitions called Bad... are mutated forms of the definition after     *)
(* them; no specification uses them.                                       *)
(***************************************************************************)
EXTENDS Integers, Sequences, FiniteSets

CONSTANTS
  Workers,    \* the threads the constructor launches
  Clients,    \* threads outside the pool that call enqueue()
  Owner,      \* the thread that constructs and destroys the pool
  Tasks,      \* the work items ever offered; each is offered at most once
  NoTask,
  NoThread

Threads == Workers \cup Clients \cup {Owner}

\* TaskScheduler sizes the pool max_connections + 1, so there is a worker.
ASSUME PoolAssumption ==
  /\ Workers # {}
  /\ Workers \cap Clients = {}
  /\ Owner \notin Workers \cup Clients
  /\ NoThread \notin Threads
  /\ NoTask \notin Tasks

VARIABLES
  pc,         \* where each thread is
  mutex,      \* holder of queue_mutex, or NoThread
  tasks,      \* the queue
  stop,       \* the flag the destructor sets
  job,        \* the task a thread is offering in enqueue(), or NoTask
  cur,        \* the task a worker has taken off the queue, or NoTask
  fut         \* what became of each task's std::future

vars == <<pc, mutex, tasks, stop, job, cur, fut>>

WorkerPc == {"unborn", "start", "check", "sleep", "wait", "run", "exited"}
EnqueuePc == {"e_lock", "e_body", "e_notify"}
OwnerPc == {"ctor", "open", "d_lock", "d_stop", "d_notify", "d_join", "joined",
            "gone", "threw", "terminated"}
FutureState == {"new", "offered", "queued", "running", "ready", "refused"}

PcOK ==
  /\ pc \in [Threads -> WorkerPc \cup EnqueuePc \cup OwnerPc \cup {"idle"}]
  /\ \A w \in Workers : pc[w] \in WorkerPc \cup EnqueuePc
  /\ \A c \in Clients : pc[c] \in EnqueuePc \cup {"idle"}
  /\ pc[Owner] \in OwnerPc

DataOK ==
  /\ mutex \in Threads \cup {NoThread}
  /\ tasks \in Seq(Tasks)
  /\ job \in [Threads -> Tasks \cup {NoTask}]
  /\ cur \in [Workers -> Tasks \cup {NoTask}]
  /\ fut \in [Tasks -> FutureState]

TypeOK == PcOK /\ DataOK /\ stop \in BOOLEAN

Init ==
  /\ pc = [t \in Threads |-> IF t \in Workers THEN "unborn"
                             ELSE IF t = Owner THEN "ctor" ELSE "idle"]
  /\ mutex = NoThread
  /\ tasks = <<>>
  /\ stop = FALSE
  /\ job = [t \in Threads |-> NoTask]
  /\ cur = [w \in Workers |-> NoTask]
  /\ fut = [t \in Tasks |-> "new"]

Goto(t, l) == pc' = [pc EXCEPT ![t] = l]

\* A std::unique_lock on queue_mutex: blocked while another thread holds it.
Acquire(t, from, to) ==
  /\ pc[t] = from
  /\ mutex = NoThread
  /\ mutex' = t
  /\ Goto(t, to)
  /\ UNCHANGED <<tasks, stop, job, cur, fut>>

-------------------------------------------------------------------------------
(* The constructor. *)

Spawn(w) ==
  /\ pc[Owner] = "ctor"
  /\ pc[w] = "unborn"
  /\ Goto(w, "start")
  /\ UNCHANGED <<mutex, tasks, stop, job, cur, fut>>

\* std::thread throws. With a worker already running its std::thread is
\* destroyed while joinable, which ends the process.
SpawnThrows ==
  /\ pc[Owner] = "ctor"
  /\ \E w \in Workers : pc[w] = "unborn"
  /\ Goto(Owner, IF \A w \in Workers : pc[w] = "unborn"
                 THEN "threw" ELSE "terminated")
  /\ UNCHANGED <<mutex, tasks, stop, job, cur, fut>>

Constructed ==
  /\ pc[Owner] = "ctor"
  /\ \A w \in Workers : pc[w] # "unborn"
  /\ Goto(Owner, "open")
  /\ UNCHANGED <<mutex, tasks, stop, job, cur, fut>>

-------------------------------------------------------------------------------
(* A worker's loop. *)

WLock(w) == Acquire(w, "start", "check")

\* condition.wait evaluates its predicate: false, so the worker will block.
WSleep(w) ==
  /\ pc[w] = "check"
  /\ ~stop /\ tasks = <<>>
  /\ Goto(w, "sleep")
  /\ UNCHANGED <<mutex, tasks, stop, job, cur, fut>>

\* Blocking and releasing the mutex are one step of the condition variable.
WWait(w) ==
  /\ pc[w] = "sleep"
  /\ mutex' = NoThread
  /\ Goto(w, "wait")
  /\ UNCHANGED <<tasks, stop, job, cur, fut>>

\* A condition variable may wake a waiter that nobody notified.
SpuriousWake(w) ==
  /\ pc[w] = "wait"
  /\ Goto(w, "start")
  /\ UNCHANGED <<mutex, tasks, stop, job, cur, fut>>

\* Leaves as soon as the pool is stopped, whatever is queued.
BadWExit(w) ==
  /\ pc[w] = "check"
  /\ stop
  /\ mutex' = NoThread
  /\ Goto(w, "exited")
  /\ UNCHANGED <<tasks, stop, job, cur, fut>>

WExit(w) ==
  /\ pc[w] = "check"
  /\ stop /\ tasks = <<>>
  /\ mutex' = NoThread
  /\ Goto(w, "exited")
  /\ UNCHANGED <<tasks, stop, job, cur, fut>>

\* Reads the front of the queue and forgets to pop it.
BadWTake(w) ==
  /\ pc[w] = "check"
  /\ tasks # <<>>
  /\ cur' = [cur EXCEPT ![w] = Head(tasks)]
  /\ fut' = [fut EXCEPT ![Head(tasks)] = "running"]
  /\ mutex' = NoThread
  /\ Goto(w, "run")
  /\ UNCHANGED <<tasks, stop, job>>

\* Takes the newest task instead of the oldest.
BadWTakeLast(w) ==
  /\ pc[w] = "check"
  /\ tasks # <<>>
  /\ cur' = [cur EXCEPT ![w] = tasks[Len(tasks)]]
  /\ fut' = [fut EXCEPT ![tasks[Len(tasks)]] = "running"]
  /\ tasks' = SubSeq(tasks, 1, Len(tasks) - 1)
  /\ mutex' = NoThread
  /\ Goto(w, "run")
  /\ UNCHANGED <<stop, job>>

WTake(w) ==
  /\ pc[w] = "check"
  /\ tasks # <<>>
  /\ cur' = [cur EXCEPT ![w] = Head(tasks)]
  /\ fut' = [fut EXCEPT ![Head(tasks)] = "running"]
  /\ tasks' = Tail(tasks)
  /\ mutex' = NoThread
  /\ Goto(w, "run")
  /\ UNCHANGED <<stop, job>>

\* task() returns; a packaged_task keeps what it threw in the future.
WFinish(w) ==
  /\ pc[w] = "run"
  /\ fut' = [fut EXCEPT ![cur[w]] = "ready"]
  /\ cur' = [cur EXCEPT ![w] = NoTask]
  /\ Goto(w, "start")
  /\ UNCHANGED <<mutex, tasks, stop, job>>

-------------------------------------------------------------------------------
(* enqueue(), called by a client or by the task a worker is running. *)

\* Where the caller is when it is not inside enqueue().
Home(t) == IF t \in Workers THEN "run" ELSE "idle"

\* The object exists: constructed, and its destructor has not returned.
Usable == pc[Owner] \in {"open", "d_lock", "d_stop", "d_notify", "d_join", "joined"}

Call(t, x) ==
  /\ Usable
  /\ pc[t] = Home(t)
  /\ fut[x] = "new"
  /\ fut' = [fut EXCEPT ![x] = "offered"]
  /\ job' = [job EXCEPT ![t] = x]
  /\ Goto(t, "e_lock")
  /\ UNCHANGED <<mutex, tasks, stop, cur>>

ELock(t) == Acquire(t, "e_lock", "e_body")

\* The exception takes a worker out of its task and of its loop.
BadERefuse(t) ==
  /\ pc[t] = "e_body"
  /\ stop
  /\ fut' = [fut EXCEPT ![job[t]] = "refused"]
  /\ job' = [job EXCEPT ![t] = NoTask]
  /\ mutex' = NoThread
  /\ Goto(t, "idle")
  /\ UNCHANGED <<tasks, stop, cur>>

\* throw std::runtime_error("enqueue on stopped ThreadPool")
ERefuse(t) ==
  /\ pc[t] = "e_body"
  /\ stop
  /\ fut' = [fut EXCEPT ![job[t]] = "refused"]
  /\ job' = [job EXCEPT ![t] = NoTask]
  /\ mutex' = NoThread
  /\ Goto(t, Home(t))
  /\ UNCHANGED <<tasks, stop, cur>>

EPush(t) ==
  /\ pc[t] = "e_body"
  /\ ~stop
  /\ tasks' = Append(tasks, job[t])
  /\ fut' = [fut EXCEPT ![job[t]] = "queued"]
  /\ job' = [job EXCEPT ![t] = NoTask]
  /\ mutex' = NoThread
  /\ Goto(t, "e_notify")
  /\ UNCHANGED <<stop, cur>>

Waiting == {w \in Workers : pc[w] = "wait"}

\* Returns without condition.notify_one().
BadENotify(t) ==
  /\ pc[t] = "e_notify"
  /\ Goto(t, Home(t))
  /\ UNCHANGED <<mutex, tasks, stop, job, cur, fut>>

\* condition.notify_one(), after the unlock: wakes one waiter if there is one.
ENotify(t) ==
  /\ pc[t] = "e_notify"
  /\ \/ /\ Waiting = {}
        /\ Goto(t, Home(t))
     \/ \E w \in Waiting :
          pc' = [pc EXCEPT ![t] = Home(t), ![w] = "start"]
  /\ UNCHANGED <<mutex, tasks, stop, job, cur, fut>>

-------------------------------------------------------------------------------
(* The destructor. *)

Destroy ==
  /\ pc[Owner] = "open"
  /\ Goto(Owner, "d_lock")
  /\ UNCHANGED <<mutex, tasks, stop, job, cur, fut>>

\* Goes on to set the flag without the lock.
BadDLock ==
  /\ pc[Owner] = "d_lock"
  /\ Goto(Owner, "d_stop")
  /\ UNCHANGED <<mutex, tasks, stop, job, cur, fut>>

DLock == Acquire(Owner, "d_lock", "d_stop")

DStop ==
  /\ pc[Owner] = "d_stop"
  /\ stop' = TRUE
  /\ mutex' = IF mutex = Owner THEN NoThread ELSE mutex
  /\ Goto(Owner, "d_notify")
  /\ UNCHANGED <<tasks, job, cur, fut>>

\* notify_one where the code has notify_all.
BadDNotify ==
  /\ pc[Owner] = "d_notify"
  /\ \/ /\ Waiting = {}
        /\ Goto(Owner, "d_join")
     \/ \E w \in Waiting :
          pc' = [pc EXCEPT ![Owner] = "d_join", ![w] = "start"]
  /\ UNCHANGED <<mutex, tasks, stop, job, cur, fut>>

\* condition.notify_all()
DNotify ==
  /\ pc[Owner] = "d_notify"
  /\ pc' = [t \in Threads |-> IF t = Owner THEN "d_join"
                              ELSE IF t \in Waiting THEN "start" ELSE pc[t]]
  /\ UNCHANGED <<mutex, tasks, stop, job, cur, fut>>

\* Joins the first workers only.
BadDJoin ==
  /\ pc[Owner] = "d_join"
  /\ \E w \in Workers : pc[w] = "exited"
  /\ Goto(Owner, "joined")
  /\ UNCHANGED <<mutex, tasks, stop, job, cur, fut>>

\* The loop over workers ends when each of them has returned.
DJoin ==
  /\ pc[Owner] = "d_join"
  /\ \A w \in Workers : pc[w] = "exited"
  /\ Goto(Owner, "joined")
  /\ UNCHANGED <<mutex, tasks, stop, job, cur, fut>>

\* The members are destroyed. That no outside caller is still inside
\* enqueue() is the caller's side of the object's lifetime.
DReturn ==
  /\ pc[Owner] = "joined"
  /\ \A c \in Clients : pc[c] = "idle"
  /\ Goto(Owner, "gone")
  /\ UNCHANGED <<mutex, tasks, stop, job, cur, fut>>

-------------------------------------------------------------------------------

WorkerStep(w) ==
  WLock(w) \/ WSleep(w) \/ WWait(w) \/ WExit(w) \/ WTake(w) \/ WFinish(w)

EnqueueStep(t) == ELock(t) \/ ERefuse(t) \/ EPush(t) \/ ENotify(t)

OwnerStep == Constructed \/ DLock \/ DStop \/ DNotify \/ DJoin \/ DReturn

PoolNext ==
  \/ \E w \in Workers : Spawn(w) \/ WorkerStep(w) \/ SpuriousWake(w)
  \/ \E t \in Workers \cup Clients : EnqueueStep(t) \/ \E x \in Tasks : Call(t, x)
  \/ OwnerStep
  \/ SpawnThrows
  \/ Destroy

Over == pc[Owner] \in {"gone", "threw", "terminated"}

\* Nothing runs after std::terminate; a pool that is gone is at rest.
Next ==
  \/ pc[Owner] # "terminated" /\ PoolNext
  \/ Over /\ UNCHANGED vars

Spec == Init /\ [][Next]_vars

\* The operating system runs every thread that can run again and again: a
\* thread that finds the mutex free again and again gets it. Nothing makes a
\* caller call, makes the owner destroy the pool, or makes a thread wake
\* without a notification.
Fairness ==
  /\ \A w \in Workers : SF_vars(Next /\ (Spawn(w) \/ WorkerStep(w) \/ EnqueueStep(w)))
  /\ \A c \in Clients : SF_vars(Next /\ EnqueueStep(c))
  /\ SF_vars(Next /\ OwnerStep)

FairSpec == Spec /\ Fairness

-------------------------------------------------------------------------------
(* Properties. *)

\* The threads inside a block that std::unique_lock guards.
Critical(t) == pc[t] \in {"check", "sleep", "e_body", "d_stop"}

\* A thread is between lock and unlock exactly when it holds queue_mutex, so
\* no two threads touch tasks and stop at once.
MutexHeld == \A t \in Threads : Critical(t) <=> mutex = t

\* No lost wakeup: when a task is queued, some worker is awake and will look
\* at the queue again, or the notification for it is still to come.
TaskNoticed ==
  tasks # <<>> =>
    \/ \E w \in Workers : pc[w] \notin {"wait", "exited"}
    \/ \E t \in Workers \cup Clients : pc[t] = "e_notify"

\* No worker sleeps through the shutdown: once notify_all has run, none is
\* blocked or about to block, so the joins can return.
ShutdownNoticed ==
  pc[Owner] \in {"d_join", "joined", "gone"} =>
    \A w \in Workers : pc[w] \notin {"sleep", "wait"}

\* A task is in one place: offered by one caller, once in the queue, or held
\* by the worker that runs it.
TaskPlaced ==
  \A x \in Tasks :
    /\ fut[x] = "offered" <=> \E t \in Threads : job[t] = x
    /\ fut[x] = "queued" <=> \E i \in 1 .. Len(tasks) : tasks[i] = x
    /\ fut[x] = "running" <=> \E w \in Workers : cur[w] = x

TaskUnique ==
  /\ \A s, t \in Threads : s # t /\ job[s] # NoTask => job[s] # job[t]
  /\ \A i, j \in 1 .. Len(tasks) : i # j => tasks[i] # tasks[j]
  /\ \A v, w \in Workers : v # w /\ cur[v] # NoTask => cur[v] # cur[w]

\* Every task runs at most once, whatever the interleaving of its callers
\* and of the workers.
TaskHandling == TaskPlaced /\ TaskUnique

\* "the destructor joins all threads" (thread_pool.hpp:86): when the joins are
\* over, every task the pool accepted has been run and no worker is left that
\* could touch the mutex, the queue or the condition variable.
DrainedOnJoin ==
  pc[Owner] \in {"joined", "gone"} =>
    /\ \A x \in Tasks : fut[x] \notin {"queued", "running"}
    /\ \A w \in Workers : pc[w] = "exited"

\* "don't allow enqueueing after stopping the pool" (thread_pool.hpp:76): once
\* stop is set the queue only shrinks, and stop stays set.
StopIsFinal == [][stop => stop' /\ Len(tasks') <= Len(tasks)]_vars

\* The threads implement the promise of TaskPool.
Pool == INSTANCE TaskPool WITH
  queue <- tasks,
  running <- {x \in Tasks : fut[x] = "running"},
  finished <- {x \in Tasks : fut[x] = "ready"},
  phase <- IF pc[Owner] \in {"joined", "gone"} THEN "gone"
           ELSE IF stop THEN "closing" ELSE "open"

ImplementsTaskPool == Pool!Spec

\* Every accepted task is eventually run to its end.
TaskServed == \A x \in Tasks : fut[x] = "queued" ~> fut[x] = "ready"

\* A destructor that was entered returns.
DestructorReturns == pc[Owner] = "d_lock" ~> pc[Owner] = "gone"
===============================================================================
