# Verification of gortsp

gortsp is the beginning of an RTSP server library: a TCP server on a libevent
loop, the socket and connection classes below it, a thread pool, and a logger.
This directory holds TLA+ models of that code, the TLC configurations that
check them, and TLAPS proofs about them. Paths below are relative to the
repository; `socket.cpp` is `src/network/socket.cpp`, and so on.

## The system

| component | state | operations | used by |
|---|---|---|---|
| `ThreadPool` (`common/thread_pool.hpp`) | `tasks`, `stop`, a mutex, a condition variable, the worker threads | constructor, `enqueue`, destructor; the loop of each worker | `TaskScheduler` owns one |
| `Socket` (`network/socket.cpp`) | `type_`, `fd_`, `status_`, `connected_` | `create`, `set_type`, `init`, `close`, `bind`, `listen`, `accept`, `send`, `disconnect`, `set_non_block`, destructor | `TcpServer`, `TcpConnection`, through `shared_ptr` |
| `TcpConnection` (`network/tcp_connection.cpp`) | `socket_` | `create`, `accept`, `send`, `disconnect`, destructor | `TcpServer::connections_`, `Socket::accept` |
| `EventHandler` (`event/event_handler.cpp`) | `events_`, `buffer_events_`, the libevent base | `regist_event`, `register_ioevent`, `start`; static callbacks | `TaskScheduler` |
| `TaskScheduler` (`event/task_scheduler.cpp`) | a `ThreadPool` and an `EventHandler` | forwards to the latter | `TcpServer` |
| `TcpServer` (`network/tcp_server.cpp`) | `server_socket_`, `connections_`, `task_scheduler_` | `init`, `start`, `on_connect`, `on_read`, `on_diconnect`, destructor | `test/tcp_server_test.cpp` |
| `KooLogger` (`common/logger.h`) | `_m_isInit`, `_mSinks`, `_mLogger`, `_mLoggerList` | `initLogger`, `getLogger`, `addLogger`, `uninitLogger` | the GLOG macros, everywhere |
| spdlog's registry and flusher (`common/spdlog/details/registry-inl.h`, `periodic_worker-inl.h`) | the loggers by name, the flusher's thread, `active_` | `get`, `register_logger`, `flush_every`, `flush_all`, `set_tp`, `shutdown` | `KooLogger`, the pool of the next line |
| spdlog's asynchronous logging (`async_logger-inl.h`, `details/thread_pool-inl.h`, `details/mpmc_blocking_q.h`, `details/circular_q.h`) | a ring buffer, its mutex and two condition variables, worker threads, the `shared_ptr`s to the pool | `post_log`, `post_flush`, the worker's loop, constructor, destructor | any logger made by `create_async` |
| spdlog's file sinks (`details/file_helper-inl.h`, `sinks/rotating_file_sink-inl.h`, `sinks/daily_file_sink.h`) | the open file and its buffer, `current_size_`, `rotation_tp_`, `filenames_q_`, the files on disk | constructor, `sink_it_`, `flush_`, rotation, deletion | `KooLogger`'s file sink uses `file_helper`; the others are part of the copy |

`TcpServer` constructs a `Socket`, sets it up in `init()` and registers it with
the `TaskScheduler`. `start()` runs the libevent loop on the calling thread. When
the listening descriptor is readable, libevent calls `Event::event_cb`, which
calls `on_connect`: a `TcpConnection` is created, `Socket::accept` puts an
accepted `Socket` into it, a greeting is sent, and the connection goes into
`connections_` and gets a `BufferEvent`. The pool of the scheduler never gets a
task. Everything but the pool and the logger runs on one thread. Every component
logs through the GLOG macros, which ask `KooLogger` for the logger "GoBot". The
copy of spdlog under `src/common/spdlog` is compiled with the program; of it,
`KooLogger` uses the registry, the flusher and the synchronous sinks, and the
parts with state and threads of their own are modelled as they stand.

What is hard in each:

* **ThreadPool**: lost wakeups between the predicate and the wait, and between
  the unlock and `notify_one`; `enqueue` racing with the destructor; draining
  the queue at shutdown; a running task that calls `enqueue` itself; a
  constructor that fails half way.
* **Socket, TcpConnection**: calls in any order on objects that are reused and
  shared, with every system call able to fail; a descriptor leaked, closed
  twice or used after its number was given away; the conversion of `-1` in
  `send`; the null `socket_`.
* **EventHandler, TcpServer**: an `init()` that fails half way and is called
  again; a client that leaves between the event and `accept(2)`; results nobody
  looks at; callbacks with the wrong context; who closes what in the destructor.
* **KooLogger**: check-then-act on the registry by threads that all find the
  logger missing; members read and written without the mutex; an
  `uninitLogger()` between two tests of the flag; one flusher replacing another
  whose thread is inside its callback.
* **Asynchronous logging**: two condition variables, each notified after the
  unlock and for one thread; posts that wait for room beside posts that overwrite
  the oldest message; terminate messages in the same queue; the last reference to
  the pool released by whatever thread happens to hold it, which then joins.
* **File sinks**: a failed or interrupted rotation leaves the files half renamed;
  results of `remove`, `fclose` and `fflush` that nobody looks at; a message that
  is older than the one before it; the queue of names against the disk.

`PROJECT.json` lists each of these hazards at its line, with the properties
that would catch it.

## Modules

| module | models | role |
|---|---|---|
| `TaskPool` | what the pool promises | abstract specification |
| `ThreadPool` | `thread_pool.hpp` | threads, mutex, condition variable; implements `TaskPool` |
| `ThreadPoolProofs` | | theorems about `ThreadPool` |
| `Kernel` | descriptors and socket calls (external) | extended by `Socket` |
| `Socket` | `socket.cpp` | operators, one per member function |
| `TcpConnection` | `tcp_connection.cpp`, `Socket::accept`, the `shared_ptr`s | operators; the invariants of the objects |
| `TcpConnectionProofs` | | every operator preserves those invariants |
| `SocketApi` | the public interface as a caller sees it | closes the operators into a specification |
| `SocketApiProofs` | | theorems about `SocketApi` |
| `EventHandler` | `event_handler.cpp`, `task_scheduler.cpp` | operators |
| `TcpServer` | `tcp_server.cpp` with clients | composes all of the above but the pool |
| `TcpServerProofs` | | theorems about `TcpServer` |
| `KooLogger` | `logger.h`, `registry-inl.h`, `periodic_worker-inl.h` | callers, the initialising thread, the flushers |
| `KooLoggerProofs` | | theorems about `KooLogger` |
| `CircularQ` | `circular_q.h` | operators on a record; used by `AsyncLog` and `DailyFileSink` |
| `CircularQProofs` | | what a push and a pop do, for every capacity |
| `LogChannel` | what asynchronous logging promises | abstract specification |
| `AsyncLog` | `async_logger`, `thread_pool`, `mpmc_blocking_queue` of spdlog | implements `LogChannel` |
| `AsyncLogProofs` | | theorems about `AsyncLog` |
| `FileHelper` | `file_helper-inl.h` over stdio and a disk | operators |
| `RotatingFileSink`, `DailyFileSink` | the two sinks | one next-state relation each, over `FileHelper` |
| `FileSinks` | a process with one of the two sinks | composes them |
| `FileSinksProofs` | | theorems about `FileSinks` |
| `MCThreadPool`, `MCSocketApi`, `MCTcpServer`, `MCKooLogger`, `MCAsyncLog`, `MCFileSinks` | | what TLC runs; symmetry sets for the runs without liveness, a reduced specification for `async` |

`Socket` and `TcpConnection` are written as operators on the variables, without
a next-state relation, so that two specifications can use them: `SocketApi`,
where the caller does anything, and `TcpServer`, where the caller is the server.
Definitions whose name begins with `Bad` are mutated forms of the definition that
follows them. No specification uses them; they record, for each property, a
plausible bug that it catches.

### ThreadPool

A thread's place in the code is `pc[t]`. Acquiring the mutex is a step
(`WLock`, `ELock`, `DLock`), and the critical section that follows is one step,
except where the worker finds its predicate false: that it will block
(`WSleep`) and that it blocks and releases the mutex (`WWait`) are two, which is
the gap a notification without the lock could fall into. The notifications
(`ENotify`, `DNotify`) come after the unlock, as in the code. `SpuriousWake` lets
a waiter go at any time. `fut[x]` is what became of the task's future. `Call` is
open to clients and to a worker that runs a task. `SpawnThrows` is `std::thread`
throwing in the constructor. `DReturn` asks that no client is inside
`enqueue()`: using an object while it is destroyed is the caller's error.

### Kernel, Socket, TcpConnection, SocketApi

`kstate[f]` is how far the socket behind descriptor `f` is set up; each system
call does its work or fails, and nothing says why. A new descriptor is any free
one. The `RtspStatus` a call returns is the parameter `r`. A Socket that no
`shared_ptr` holds is destroyed (`DropHandle`, `DestroyConn`), and its identity
is used again for the next `Socket::create`. Not modelled: addresses and ports
(`bind` ignores its address), the bytes sent, and `send` on a closed socket
other than its result. `Socket::connect`, `set_block` and
`TcpConnection::connect` have bodies that only return. `send` compares modulo
`SizeModulus`, the number of values of `size_t`.

### EventHandler, TcpServer

`events_` is the set of watched descriptors, `buffer_events_` the set of
`[fd, ctx]`. `ctx` is what `bufferevent_setcb` is given, which is null, so the
callbacks end the process with their first access (`CallbackFails`). `init()` and
`on_connect` are one action per statement, since clients act in between; a
client connects, sends, shuts down or resets at any time after it has
connected, and a reset client may be taken off the listen queue. `accept(2)` may
block: then `Blocked` holds and only a client can go on. The destructor of
`TcpServer` is empty, and its members are destroyed in reverse order:
`TeardownEvents` (the scheduler), `TeardownConnections`, `TeardownSocket`. A process
that has died keeps the state it died in.

### KooLogger

Each statement that touches shared state is an action of its own, since neither
`getLogger()` nor `addLogger()` holds a mutex around them: `Get` and `AddLogger` are
the two tests of `_m_isInit`, `Find` and `Again` the two calls of `spdlog::get`,
`Size` and `Emplace` the test of `_mSinks` and the default sink, then `Make`, `List`
and `Register`. `List` to `Register` is the part under `_m_LoggerMutex`. `Register` throws
when the name is taken; nothing around a macro catches that, so `Thrown` is the
end of the process, or, in a task of the pool, of the task. `IEvery` to `IJoin` are
`flush_every` with the destructor of the former flusher. A flusher holds its
mutex from `WAfter` to the end of `flush_all()`, and `logger_map_mutex_` during the
latter (`MapFree`). `Race` says when two threads are at conflicting accesses of an
unprotected member; then `Undefined` may end the process. What a race does to
values short of that is what the interleaving of the two steps does. `dirty` is
whether the registered logger has output that was not flushed.

### CircularQ, LogChannel, AsyncLog

A ring buffer is a record with the members of `circular_q`, indices modulo `max`.
What a thread of `AsyncLog` does under `queue_mutex_` is one step, the notification
after it another. `refs` is who holds a `shared_ptr` to the pool: the registry
(`Owner`) and each thread between `thread_pool_.lock()` and the end of the post.
`Release` of the last one enters the destructor, in whatever thread that is,
and the destructor posts as a logger does, with policy `block`. `WakeUp` is the timeout
of ten seconds as well as a spurious wake-up. `SpawnThrows` is the constructor that
cannot start a thread. `LogChannel` knows a queue, what is being written, what was
written and what was lost; the mapping removes the terminate messages.

### FileHelper, RotatingFileSink, DailyFileSink, FileSinks

A message is its number, a file the sequence of messages in it, and `logged` gives
their sizes. What is written is in `buf` until stdio passes it on, which it may do
at every write. Every operation has its failure: `OpenFails`, `WriteFails`,
`RenameFails`, a `remove` that does nothing, an `fclose` that loses the buffer.
`fault` records that one happened, and that a crash took a message along. The
mutex of a sink is held across `sink_it_`, so other threads do not appear; a crash
can come between any two steps, and the sink is then made again over the files
it finds. `rename_file_` is tried twice, as in the code. In `DailyFileSink` the
clock runs in half days, a message is stamped at most `Lateness` before it reaches
the sink, and `Tick` may come anywhere. A write through a null `FILE*` has no
successor but the end of the process (`DailyCrash`).

## Runs

| run | question | bounds | distinct states |
|---|---|---|---|
| `pool` | safety and liveness of the pool, and `ImplementsTaskPool` | 2 workers, 2 clients, 3 tasks | 37,049 |
| `api` | safety of sockets and connections in any order of calls | 3 sockets, 2 connections, 2 descriptors | 346,356 |
| `api_send` | violated: `SendFailureReported` | 1 socket, sizes 1 and 2 | |
| `server` | safety and liveness of the server | 2 clients, 3 descriptors, 2 accepted sockets, 3 calls of `init()` | 184,847 |
| `server_nonblock`, `server_one_client`, `server_quiet` | violated, see below | as `server` | |
| `logger` | `KooLogger` and the flusher, safety and liveness | 2 threads that log, 2 calls of `initLogger()` | 184,077 |
| `logger_get` | violated: `GetLoggerDelivers` | as `logger` | |
| `async` | asynchronous logging: safety, liveness and `ImplementsLogChannel` | 2 workers, 2 threads that log, 3 messages that wait for room and 1 that does not, a queue of 2 | 147,761 |
| `files` | both sinks under failures and crashes | 5 messages of sizes 1, 2 and 4 with a limit of 3 and 2 old files; 4 days, 2 files kept, rotation at midnight | 1,762,009 |
| `files_daily` | violated: `Retention` | 4 days, 1 file kept, rotation after midnight | |

Why these are enough. Two workers are needed for one to take the task another
was woken for, and two callers to race with each other and with the destructor;
three tasks let one run, one wait in the queue and one be offered. In `api`, two
descriptors suffice for one to be freed and handed to another Socket, and the
third Socket lets an accepted one exist beside two set up by hand; the proofs
cover all other sizes. The server accepts once in its life (see `OneAccept`), so a
second client already meets the refused accept, and a third `init()` differs from
the second in nothing. In `logger` two threads can both find the logger missing
while a third initialises, and the second `initLogger()` replaces a flusher, which
a third would only repeat. In `async` a queue of two is the least that has an
order, so that taking the newest message, or dropping it, would show; four messages
are the least that fill it, wait for room and have that room taken by one that does
not wait; two workers and two posting threads are needed for a notification to go to
one thread while another needs it. `ReducedSpec` of `MCAsyncLog` fixes the names: the
messages of one policy are logged by increasing numbers, the first by one and the same
thread. Any other behaviour is one of these with messages or threads renamed. In
`files` the sizes are below, at and above the limit together, five messages fill the log and both old files and push one out, and four days are twice
what is kept. `MaxInits`, `MaxMsgs`, `MaxTime` and `Lateness` are the only
bounds on counters.

Deadlock is checked in every run but `async`: a pool that is gone, a server that
has exited, a dead process, a server blocked in `accept(2)` and a process in which
nobody logs stutter explicitly, and nothing else may stop. In `async` every message
is posted at most once, and when all are the threads have nothing left to do;
`CallsReturn` is there to say that none of them is stuck.

### What the runs show

* `TaskNoticed`, `ShutdownNoticed`, `TaskHandling`, `DrainedOnJoin`,
  `ImplementsTaskPool`, `TaskServed`, `DestructorReturns`: the pool loses no wakeup and
  no task, runs each once and in order, its destructor leaves neither tasks nor
  workers, and every task that was accepted is taken.
* `DescriptorOwned`, `StatusCoherent`, `ErrorsChangeNothing`, `OneAccept`: whatever is
  called, no descriptor leaks or is shared, `status_` is what the system has done, and
  a listening descriptor gives out one connection in its life, which limits what a
  server built on `Socket` can do. That includes the case where `accept(2)` fails and a
  Socket is made of `-1`. `OneAccept` reads `given`, a history variable that counts
  connections per descriptor and that no guard looks at.
* `InitSound`, `TableConsistent`, `ExitClean`, `InitFailureFinal`: the loop watches
  a descriptor only if it listens; table, connections and buffer events agree;
  the destructor closes everything; an `init()` that failed after `socket(2)`
  cannot be repeated on the same server. The table never holds more than one entry, as
  the second `on_connect` ends the process, so nothing is said about a number filed
  twice; and `ExitClean` is about leaks, not about the second close of a number.
* `ClientAnswered`: a client that waits does not stay unnoticed while the loop runs. The
  outcome may be the end of the process. That what a client sends is read is not stated:
  the first byte ends the process, see `SurvivesOneClient`.
* `OneLogger`, `LoggerComplete`, `InitDelivers`: threads that race to create the
  logger never end with two; the one they get has a sink and is flushed by
  `uninitLogger()`; and a program that does not shut the logger down never logs
  through a null pointer. Those that lose the race get an exception, see below.
* `OutputFlushed`, `InitReturns`: the flusher keeps flushing when it is replaced and
  after `uninitLogger()`, and replacing it does not deadlock.
* `Accounting`, `NoLostWakeup`, `NoUseAfterFree`, `Drained`, `ImplementsLogChannel`,
  `CallsReturn`, `AcceptedWritten`: a message is written once and in order or counted
  in `overrun_counter()`; neither condition variable loses a wakeup, which matters
  because the one for room is shared by messages and terminate messages; the pool is
  not used after it is gone; each worker gets exactly one terminate message and none
  of these is overwritten; every post and every destruction returns. None of it
  relies on the timeout of the wait.
* `SizeBound`, `OrderKept`, `Retention`, `NullWriteOnlyLate`: a rotated file exceeds its
  limit only by a single message; the numbered files are in order at every step of a
  rotation, also when it is interrupted and done again, and without failures they
  are the end of the log without a gap; the last days' files are never deleted. A crash
  in the middle of a rotation counts as a failure there. That no older days are left holds
  only until the first failure or restart: a sink that is made again finds the files of
  the days up to the first gap, and those before it stay. One
  case of a write through a null `FILE*` remains: a daily sink failed to open its
  file, and the next message is an older one that needs no rotation.

### Violated, and why

* `SendFailureReported`: `send()` (`socket.cpp:215`) compares `-1` as a `size_t`
  and returns `SUCCESS`.
* `NonBlockingWhenReady`: the status of a failed `F_SETFL` (`socket.cpp:245`) is an
  expression statement, not a `return`; `init()` succeeds with a blocking socket.
* `SurvivesOneClient`: `bufferevent_setcb` (`event_handler.cpp:67-68`) passes a null
  context that `read_cb` and `error_cb` use at once.
* `SurvivesQuietClients`: `accept()` moves the listening Socket to `ACCEPTING`
  (`socket.cpp:140`) for good. The second client gets a connection without a
  Socket, and `on_connect` sends through the null pointer.
* `GetLoggerDelivers`: the registry is asked and filled without a lock around the
  two (`logger.h:167`); of two threads that find the logger missing the second gets
  an exception, and an `uninitLogger()` in between makes `getLogger()` return null.
* `Retention`, in `files_daily`: a sink made between midnight and its rotation time
  enters the day's file into `filenames_q_`, and rotates into the same file a little
  later. `delete_old_` (`daily_file_sink.h:177`) then removes the file that is being
  written, if only one is kept, and with more it keeps one too few. In
  `files`, which rotates at midnight, the name is always a new one.

## Fairness

`ThreadPool!FairSpec`: each thread that can take a step again and again takes one
(strong fairness of the steps of each thread together), also when that is to
lock a mutex which others keep taking; this is what the scheduler of the system and
its mutex give. Nothing makes a caller call `enqueue()`, makes the owner destroy the
pool, or wakes a waiter that was not notified; a task that is taken is assumed
to return. `TcpServer!FairSpec`: the server's thread takes its next step when it
has one. Clients, the caller, and the loop returning by itself owe nothing.
`KooLogger!FairSpec`: the thread inside `initLogger()` or `uninitLogger()` and the
flushers go on, strongly fair because they wait for mutexes, and an interval of a
flusher ends; nobody has to log or to call either function. `AsyncLog!FairSpec`: weak
fairness of the steps of each thread, which suffices since nothing that a step
waits for is a mutex held across steps. Its timeouts and spurious wake-ups
owe nothing, so that the liveness shown is not owed to them. The file sinks are
checked for safety only: after any failure they may go on failing.

## Proofs

The proofs hold for any number of workers, callers, tasks, sockets, connections,
descriptors, clients, messages, files and days and for every size of the queue, from
the assumptions named in the modules: `PoolAssumption` (the kinds of threads are
distinct, and there is a worker), `FdsAssumption` (descriptors are not negative),
`SocketAssumption`, `SizesAssumption`, `ServerAssumption`, `LoggerAssumption`,
`AsyncAssumption` (the threads are finitely many, and the queue has a slot),
`FileAssumption` (no file is called "none"), `RotatingAssumption` and
`DailyAssumption` (the bounds are natural numbers, and each number or day has a name).
Every safety property and every refinement that a passing run checks is stated by a
theorem; `Retention` under the hypothesis that the sink rotates at midnight, since the
run `files_daily` shows it false otherwise.

**ThreadPool.** The inductive invariant of `ThreadPoolProofs` is built in layers,
each proved from the ones before it:

1. `TypeOK /\ Holding`. `Holding` says at which places of the code a thread has a
   task in a local variable; without it a worker in `run` might finish `NoTask`,
   and the types are not inductive.
2. `Sync`, which is `MutexHeld` with three facts about `stop`: it is set from
   `d_notify` on (`StopKnown`), a worker that returned left a stopped pool with an
   empty queue (`LeftDrained`), and a worker that is about to block still faces
   an empty queue and a running pool, since it holds the mutex (`SleepEmpty`).
3. `TaskNoticed`, inductive over `Sync`: a worker that found the queue empty keeps
   everybody from pushing until it waits.
4. `Shutdown`, which is `ShutdownNoticed` with the fact that no worker comes back
   after the joins (`AllLeft`). `SleepEmpty` gives that none is in `sleep` once
   `stop` is set, which is what `notify_all` needs.
5. `TaskHandling`: `fut` against the callers, the queue and the workers.

`DrainedOnJoin` follows from 2, 4 and 5. `StopIsFinal` (the flag is never taken back,
and nothing is pushed once it is set) follows from 1. `MutexHeld` and `StopIsFinal` are
proved and no longer among the properties of the run.
`Implements` shows that each step is one of `TaskPool` or leaves its variables
alone, using all five.

**SocketApi.** The inductive invariant is `Sound`, that is `TypeOK` of the objects with
`DescriptorOwned` and `StatusCoherent`; neither of the two is inductive without
the other, because `init()` relies on an uninitialised status meaning that there is no
descriptor, and `bind()` on the converse. `TcpConnectionProofs` proves, operator by
operator, that `Sound` is preserved, independently of who calls it, so that the
same lemmas serve `TcpServer` too. `ErrorsChangeNothing` is shown call by call.
`OneAccept` follows from `Spent`: of a descriptor that has given out a connection, the
Socket is `ACCEPTING`. That rests on `StaySpent`, which says of every call that it leaves
such a Socket as it is or closes its descriptor, and on `DescriptorOwned`, without which
a second Socket could accept on the same number.

**TcpServer.** `IInv` has the objects on one side and the tables on the other. The
lemmas of `TcpConnectionProofs` keep `Sound` until libevent closes descriptors in the
destructor; from there on only the weaker `Owned` holds, in which a Socket may hold
the number of a closed descriptor, and it is enough for `ExitClean`. `Held` and
`Links` say who holds which Socket: each connection has its own and none has that of
the server, so that destroying one connection leaves the entries of the others and
the listening descriptor alone. `InHands` is what `on_connect` knows of its new
connection at each statement. `SetUp` ties the place in `init()` to `status_`, and with
`Watching` gives `InitSound`: nothing is watched before the Socket listens.
`InitFailureFinal` needs one more invariant, `Stuck`, that holds from the failure on.

**KooLogger.** Two kinds of steps: those of the callers, and the quiet ones of the
initialising thread and the flushers, which touch neither registry nor list.
`OneLogger` and `LoggerComplete` are inductive together with `Prepared`, what a caller
between `Make` and `Register` has done. `InitDelivers` needs `OnTheWay`: a caller
behind a test of the flag has a logger ahead of it as long as `uninitLogger()` was not
called, which is the only one to clear the flag (`UninitKnown`).

**CircularQ.** A well-formed queue stays one, a push appends to `Contents` and drops
the head of a full one, a pop takes the head. The arithmetic of slots modulo `n + 1`
is in lemmas of its own. `AsyncLogProofs` uses them through `Size` and `Contents` alone.

**AsyncLog.** `Places` says where a thread holds an item and a reference (`Holding`),
that nobody logs before the pool is made (`Early`), and that one destructor runs at
a time, with no reference left (`Alone`); `NoUseAfterFree` follows. `NoLostWakeup` is
inductive over it: the number of messages in the queue is at most that of the
notifications on their way and the workers about to look, as long as a worker
sleeps, and the same for room and the threads that wait for it. The proof counts
threads with lemmas on how one move changes the number at a set of places.

The properties of the messages rest on `IInv`: a request has one place, with a thread
that posts it, in the queue, with a worker, or in one of the sets of what was written,
lost and rejected; the terminate messages are the last ones in the queue (`Order`);
and each that was posted is there or was taken by a worker of its own (`Ended`). That
order is what the code relies on without saying so. The destructor begins when nobody has a reference,
so nothing is posted behind its messages, and a worker that takes one finds no request
after it. `Accounting` and `Drained` follow from `IInv`. For `ImplementsLogChannel` the
queue of the abstract specification is the part before the terminate messages: taking
a request from the queue is `LogChannel`'s step, an overrun loses its head, and the
messages of the destructor change nothing.

**FileSinks.** The types need what is open where (`Places` for the rotating sink,
`Opened` for the daily one); `Opened` says that a daily sink without an open file has
its rotation time at or before the latest stamp, which gives `NullWriteOnlyLate`.

Three invariants are about the rotating sink. They speak of `View`, the files with
what is in the stdio buffer, because a step on the files then does one of four things: it
leaves `View` as it is, cuts the ends of some files, appends a message, or moves a file.

1. `Measured`, for `SizeBound`: every file is within the limit or holds one message, and
   `current_size_` is at least what the open file holds (`Counted`).
2. `Holes`, for the rotation: the number the next file is to get is free, unless it is
   the last, so that a rename covers no file but the oldest.
3. `Sorted` and `Whole`, for `OrderKept`: messages within a file and across files are in
   order; and as long as nothing failed, all from the first one there is to the last one
   handed over (`Placed`) are there, and the first message is among them unless the file
   with the highest number is there or has just been removed. `History`, the concatenation the property is about, is then shown to hold
   just the messages of `View`, in order.

For `Retention` there are four. `DaysMade`: the files were begun on different days, none
after today, and the next rotation is after all of them; this is where rotation at
midnight is needed. `Queued`: the names in `filenames_q_` are days in order, without
the file being written until `delete_old_` enters it. `Kept`: the last days have their
files, because the name that leaves a full queue has as many younger ones behind it.
`Exact`: without failures the files are those in the queue and the new one, so that
there are no others. The queue is used through the lemmas of `CircularQProofs`.

The sums of sizes, `History` and `InitQueue` are recursive functions. The induction they
need is done by hand: a set of naturals with 0, closed under successor up to `n`,
contains `0 .. n`, since otherwise there is a least number missing from it; and a
function defined by a first value and a step for each number exists.

Only model-checked: liveness (`TaskServed`, `DestructorReturns`, `ClientAnswered`,
`OutputFlushed`, `InitReturns`, `CallsReturn`, `AcceptedWritten`). Fairness
and `ENABLED` are out of the prover's reach.

## Not modelled

* What is logged, and logging itself in the models of the other components.
* `KooLogger`: levels and patterns, which do not decide any step; a second thread
  that calls `initLogger()`; `addLogger()` called directly, with another name.
* spdlog's formatting (`fmt/bundled`, `pattern_formatter-inl.h`), half of the
  repository's lines: vendored pure functions from values to text, with no state
  between calls. Levels, error handlers, backtraces and the default logger of the
  registry; the sinks for consoles, systems and containers, which keep no state that a
  step depends on; the hourly sink, which is the daily one with another unit.
* A queue of size 0, on which every post with policy `block` waits for ever, the
  destructor's too (`AsyncAssumption`); a sink that logs through its own logger;
  the destruction of a pool inside `set_tp`, which holds `tp_mutex_` while it joins.
* Renaming across file systems, other processes on the same files, `truncate_`.
* The djinni support library: vendored, and nothing of the server links it.
* `event_wrapper.h`: an older copy of `event_handler.cpp` that nothing includes.
* `RtspServer`: an interface without an implementation.
* `TaskScheduler::stop`, `TcpConnection::recv`: declared, never defined.
* libevent: what it may call is in `Watches` and `Talks`; its buffers are not.
* Other threads opening descriptors between the two closes of a connection's
  descriptor in the destructor of the server: none is in this program.

## Plan

Done, in this order: the pool (`TaskPool`, `ThreadPool` and its proofs), the
sockets (`Kernel`, `Socket`, `TcpConnection`, `SocketApi` and their proofs), the
server (`EventHandler`, `TcpServer`), the logger (`KooLogger`), spdlog's asynchronous
logging (`CircularQ`, `LogChannel`, `AsyncLog`) and its file sinks,
with `TcpServerProofs`, `KooLoggerProofs`, `CircularQProofs`, `AsyncLogProofs` and
`FileSinksProofs`. No safety property of a passing run is left without a theorem.

Next:

1. What holds of the retention of the daily sink for any rotation time, stated so that
   it says what the code does where `files_daily` refutes the comment.
2. The safety facts behind the liveness properties, as theorems: that a thread which has
   not returned can take a step or waits for one that can.
