------------------------------ MODULE KooLogger ------------------------------
(***************************************************************************)
(* common/logger.h over spdlog's registry: the logging macros of any       *)
(* thread fetch the logger "GoBot", creating it when it is missing, while  *)
(* one thread calls initLogger() and uninitLogger(). The periodic flusher  *)
(* that initLogger() starts (spdlog/details/periodic_worker) is a thread   *)
(* of its own, one per call, the former one being joined.                  *)
(*                                                                         *)
(* Of the vector _mSinks, which only grows, the model keeps whether it has *)
(* an element; a logger has the sinks there were when it was made. A       *)
(* thread makes at most one logger of the name, so that thread names it.   *)
(* The mutexes are read off the control points: who is between lock and    *)
(* unlock holds it.                                                        *)
(***************************************************************************)
EXTENDS Integers, FiniteSets

CONSTANTS
  Callers,    \* the threads that use the GLOG macros
  Admin,      \* the thread that calls initLogger() and uninitLogger()
  None,       \* no logger: a null shared_ptr
  MaxInits    \* bound on the completed calls of initLogger()

ASSUME LoggerAssumption ==
  /\ Callers # {}
  /\ Admin \notin Callers
  /\ None \notin Callers
  /\ MaxInits \in Nat \ {0}

Flushers == 1 .. MaxInits

VARIABLES
  alive,        \* the process runs
  pc,           \* where each thread is
  isInit,       \* _m_isInit
  mSinks,       \* _mSinks has an element
  mLoggerList,  \* _mLoggerList, by the threads that made its loggers
  loggers,      \* what the registry holds under the name
  sinksOf,      \* the threads whose logger has a sink
  found,        \* the logger getLogger() gives a caller
  args,         \* the sinks the running initLogger() has still to make
  inits,        \* the flushers started so far, the last one being in force
  uninits,      \* whether uninitLogger() was called
  todo,         \* the loggers uninitLogger() has still to flush
  wpc,          \* where the thread of each flusher is
  active,       \* active_ of each flusher
  dirty         \* the logger of the registry has output that is not flushed

admin == <<args, inits, uninits, todo>>
flusher == <<wpc, active>>
made == <<mSinks, mLoggerList, loggers, sinksOf>>
vars == <<alive, pc, isInit, made, found, admin, flusher, dirty>>

CallerPc == {"idle", "get", "find", "init", "size", "emplace", "make", "list",
             "register", "again", "use", "threw"}
AdminPc == {"idle", "i_sinks", "i_logger", "i_every", "i_stop", "i_notify",
            "i_join", "i_done", "u_flush", "u_done"}
WorkerPc == {"off", "top", "sleep", "timeout", "woken", "call", "flush", "done"}

TypeOK ==
  /\ {alive, isInit, uninits, mSinks, dirty} \subseteq BOOLEAN
  /\ pc \in [Callers \cup {Admin} -> CallerPc \cup AdminPc]
  /\ mLoggerList \cup sinksOf \cup todo \subseteq Callers
  /\ loggers \in Callers \cup {None}
  /\ found \in [Callers -> Callers \cup {None}]
  /\ args \subseteq {"console", "file"}
  /\ inits \in 0 .. MaxInits
  /\ wpc \in [Flushers -> WorkerPc]
  /\ active \in [Flushers -> BOOLEAN]

Init ==
  /\ alive = TRUE
  /\ isInit = FALSE /\ uninits = FALSE /\ mSinks = FALSE /\ dirty = FALSE
  /\ pc = [t \in Callers \cup {Admin} |-> "idle"]
  /\ mLoggerList = {} /\ sinksOf = {} /\ todo = {} /\ args = {}
  /\ loggers = None
  /\ found = [t \in Callers |-> None]
  /\ inits = 0
  /\ wpc = [f \in Flushers |-> "off"]
  /\ active = [f \in Flushers |-> FALSE]

Goto(t, l) == pc' = [pc EXCEPT ![t] = l]
At(t, from, to) == pc[t] = from /\ Goto(t, to)

\* flush_all() holds logger_map_mutex_ while it flushes; every other holder
\* takes and releases it in one step.
MapFree == \A f \in Flushers : wpc[f] # "flush"

\* addLogger() holds _m_LoggerMutex from the list to its return.
ListFree == \A t \in Callers : pc[t] # "register"

\* A flusher's thread holds its mutex_ during the callback.
WorkerMutexFree(f) == wpc[f] \notin {"call", "flush"}

\* The end of the process: nothing of its memory is left.
Dies ==
  /\ alive' = FALSE
  /\ pc' = [t \in Callers \cup {Admin} |-> "idle"]
  /\ found' = [t \in Callers |-> None]
  /\ isInit' = FALSE /\ uninits' = FALSE /\ mSinks' = FALSE /\ dirty' = FALSE
  /\ mLoggerList' = {} /\ sinksOf' = {} /\ todo' = {} /\ args' = {}
  /\ loggers' = None
  /\ inits' = 0
  /\ wpc' = [f \in Flushers |-> "off"]
  /\ active' = [f \in Flushers |-> FALSE]

-------------------------------------------------------------------------------
(* A GLOG macro. *)

Macro(t) ==
  /\ isInit
  /\ At(t, "idle", "get")
  /\ UNCHANGED <<alive, isInit, made, found, admin, flusher, dirty>>

\* getLogger() looks at the flag again.
Get(t) ==
  /\ At(t, "get", IF isInit THEN "find" ELSE "use")
  /\ UNCHANGED <<alive, isInit, made, found, admin, flusher, dirty>>

\* spdlog::get; the warning goes to _mLogger, whose level drops it.
Find(t) ==
  /\ MapFree
  /\ At(t, "find", IF loggers = None THEN "init" ELSE "use")
  /\ found' = [found EXCEPT ![t] = loggers]
  /\ UNCHANGED <<alive, isInit, made, admin, flusher, dirty>>

AddLogger(t) ==
  /\ At(t, "init", IF isInit THEN "size" ELSE "again")
  /\ UNCHANGED <<alive, isInit, made, found, admin, flusher, dirty>>

\* Takes the sinks as they are.
BadSize(t) ==
  /\ At(t, "size", "make")
  /\ UNCHANGED <<alive, isInit, made, found, admin, flusher, dirty>>

Size(t) ==
  /\ At(t, "size", IF mSinks THEN "make" ELSE "emplace")
  /\ UNCHANGED <<alive, isInit, made, found, admin, flusher, dirty>>

Emplace(t) ==
  /\ At(t, "emplace", "make")
  /\ mSinks' = TRUE
  /\ UNCHANGED <<alive, isInit, mLoggerList, loggers, sinksOf, found, admin, flusher, dirty>>

Make(t) ==
  /\ At(t, "make", "list")
  /\ sinksOf' = IF mSinks THEN sinksOf \cup {t} ELSE sinksOf
  /\ UNCHANGED <<alive, isInit, mSinks, mLoggerList, loggers, found, admin, flusher, dirty>>

\* Enters the pointer of the caller, which is still null.
BadListNull(t) ==
  /\ ListFree
  /\ At(t, "list", "register")
  /\ mLoggerList' = mLoggerList \cup {found[t]}
  /\ UNCHANGED <<alive, isInit, mSinks, loggers, sinksOf, found, admin, flusher, dirty>>

List(t) ==
  /\ ListFree
  /\ At(t, "list", "register")
  /\ mLoggerList' = mLoggerList \cup {t}
  /\ UNCHANGED <<alive, isInit, mSinks, loggers, sinksOf, found, admin, flusher, dirty>>

\* register_logger_ without throw_if_exists_.
BadRegister(t) ==
  /\ MapFree
  /\ At(t, "register", "again")
  /\ loggers' = t
  /\ UNCHANGED <<alive, isInit, mSinks, mLoggerList, sinksOf, found, admin, flusher, dirty>>

\* spdlog::register_logger: a name that is taken throws, and the exception
\* leaves addLogger(), getLogger() and the macro.
Register(t) ==
  /\ MapFree
  /\ At(t, "register", IF loggers = None THEN "again" ELSE "threw")
  /\ loggers' = IF loggers = None THEN t ELSE loggers
  /\ UNCHANGED <<alive, isInit, mSinks, mLoggerList, sinksOf, found, admin, flusher, dirty>>

\* Forgets to ask the registry a second time.
BadAgain(t) ==
  /\ At(t, "again", "use")
  /\ UNCHANGED <<alive, isInit, made, found, admin, flusher, dirty>>

Again(t) ==
  /\ MapFree
  /\ At(t, "again", "use")
  /\ found' = [found EXCEPT ![t] = loggers]
  /\ UNCHANGED <<alive, isInit, made, admin, flusher, dirty>>

\* The message: dropped by the level, written, or written and flushed at once
\* (flush_on(err)).
Use(t) ==
  /\ found[t] # None
  /\ At(t, "use", "idle")
  /\ dirty' \in BOOLEAN
  /\ found' = [found EXCEPT ![t] = None]
  /\ UNCHANGED <<alive, isInit, made, admin, flusher>>

\* The macro calls log() through whatever pointer it got.
UseNull(t) ==
  /\ pc[t] = "use" /\ found[t] = None
  /\ Dies

\* No call site of a macro catches; the task of a pool keeps the exception in
\* its future, and any other thread ends the process.
Thrown(t) ==
  /\ pc[t] = "threw"
  /\ \/ Dies
     \/ Goto(t, "idle") /\ UNCHANGED <<alive, isInit, made, found, admin, flusher, dirty>>

CallStep(t) ==
  Get(t) \/ Find(t) \/ AddLogger(t) \/ Size(t) \/ Emplace(t) \/ Make(t)
  \/ List(t) \/ Register(t) \/ Again(t) \/ Use(t) \/ UseNull(t) \/ Thrown(t)

-------------------------------------------------------------------------------
(* initLogger() and uninitLogger(). *)

InitLogger ==
  /\ inits < MaxInits
  /\ At(Admin, "idle", "i_sinks")
  /\ args' \in SUBSET {"console", "file"}
  /\ UNCHANGED <<alive, isInit, made, found, inits, uninits, todo, flusher, dirty>>

IEmplace ==
  /\ pc[Admin] = "i_sinks" /\ args # {}
  /\ mSinks' = TRUE
  /\ args' = args \ {IF "console" \in args THEN "console" ELSE "file"}
  /\ UNCHANGED <<alive, pc, isInit, mLoggerList, loggers, sinksOf, found, inits,
                 uninits, todo, flusher, dirty>>

\* The file cannot be opened: the constructor of its sink throws.
IThrow ==
  /\ args = {"file"}
  /\ At(Admin, "i_sinks", "idle")
  /\ args' = {}
  /\ UNCHANGED <<alive, isInit, made, found, inits, uninits, todo, flusher, dirty>>

ISinks ==
  /\ args = {}
  /\ At(Admin, "i_sinks", "i_logger")
  /\ UNCHANGED <<alive, isInit, made, found, admin, flusher, dirty>>

\* _mLogger is assigned.
ILogger ==
  /\ At(Admin, "i_logger", "i_every")
  /\ UNCHANGED <<alive, isInit, made, found, admin, flusher, dirty>>

\* flush_every: the new flusher runs before the former one is destroyed.
IEvery ==
  /\ At(Admin, "i_every", IF inits = 0 THEN "i_done" ELSE "i_stop")
  /\ inits' = inits + 1
  /\ wpc' = [wpc EXCEPT ![inits + 1] = "top"]
  /\ active' = [active EXCEPT ![inits + 1] = TRUE]
  /\ UNCHANGED <<alive, isInit, made, found, args, uninits, todo, dirty>>

\* Joins a thread that nobody told to stop.
BadIStop ==
  /\ At(Admin, "i_stop", "i_notify")
  /\ UNCHANGED <<alive, isInit, made, found, admin, flusher, dirty>>

\* ~periodic_worker of the former flusher.
IStop ==
  /\ At(Admin, "i_stop", "i_notify")
  /\ WorkerMutexFree(inits - 1)
  /\ active' = [active EXCEPT ![inits - 1] = FALSE]
  /\ UNCHANGED <<alive, isInit, made, found, admin, wpc, dirty>>

INotify ==
  /\ At(Admin, "i_notify", "i_join")
  /\ wpc' = [wpc EXCEPT ![inits - 1] = IF @ = "sleep" THEN "woken" ELSE @]
  /\ UNCHANGED <<alive, isInit, made, found, admin, active, dirty>>

IJoin ==
  /\ At(Admin, "i_join", "i_done")
  /\ wpc[inits - 1] = "done"
  /\ UNCHANGED <<alive, isInit, made, found, admin, flusher, dirty>>

IDone ==
  /\ At(Admin, "i_done", "idle")
  /\ isInit' = TRUE
  /\ UNCHANGED <<alive, made, found, admin, flusher, dirty>>

UninitLogger ==
  /\ At(Admin, "idle", "u_flush")
  /\ todo' = mLoggerList
  /\ uninits' = TRUE
  /\ UNCHANGED <<alive, isInit, made, found, args, inits, flusher, dirty>>

\* A logger that lost the race is in the list too, with some of the sinks.
UFlush(t) ==
  /\ pc[Admin] = "u_flush"
  /\ t \in todo
  /\ todo' = todo \ {t}
  /\ dirty' \in IF t = loggers THEN {FALSE} ELSE {dirty, FALSE}
  /\ UNCHANGED <<alive, pc, isInit, made, found, args, inits, uninits, flusher>>

\* The second loop resets copies of the pointers: the list and the registry
\* stay as they are.
UDone ==
  /\ todo = {}
  /\ At(Admin, "u_flush", "idle")
  /\ isInit' = FALSE
  /\ UNCHANGED <<alive, made, found, admin, flusher, dirty>>

AdminStep ==
  \/ IEmplace \/ IThrow \/ ISinks \/ ILogger \/ IEvery \/ IStop \/ INotify
  \/ IJoin \/ IDone \/ UDone \/ \E t \in Callers : UFlush(t)

-------------------------------------------------------------------------------
(* The thread of a flusher. *)

WorkerGoes(f, from, to) == wpc[f] = from /\ wpc' = [wpc EXCEPT ![f] = to]

\* Takes mutex_ and finds active_ unset, or blocks, which releases it.
WTop(f) ==
  /\ \E l \in {"top", "woken"} : WorkerGoes(f, l, IF active[f] THEN "sleep" ELSE "done")
  /\ UNCHANGED <<alive, pc, isInit, made, found, admin, active, dirty>>

\* The interval of wait_for is over.
WTimeout(f) ==
  /\ WorkerGoes(f, "sleep", "timeout")
  /\ UNCHANGED <<alive, pc, isInit, made, found, admin, active, dirty>>

\* A waiter may wake though nobody notified it; with active_ set it would
\* block again, with the same deadline.
WSpurious(f) ==
  /\ ~active[f]
  /\ WorkerGoes(f, "sleep", "woken")
  /\ UNCHANGED <<alive, pc, isInit, made, found, admin, active, dirty>>

\* Has mutex_ again after a timeout; the predicate is evaluated once more.
WAfter(f) ==
  /\ WorkerGoes(f, "timeout", IF active[f] THEN "call" ELSE "done")
  /\ UNCHANGED <<alive, pc, isInit, made, found, admin, active, dirty>>

\* flush_all() takes logger_map_mutex_.
WCall(f) ==
  /\ MapFree
  /\ WorkerGoes(f, "call", "flush")
  /\ UNCHANGED <<alive, pc, isInit, made, found, admin, active, dirty>>

\* Releases the mutexes without flushing.
BadWFlush(f) ==
  /\ WorkerGoes(f, "flush", "top")
  /\ UNCHANGED <<alive, pc, isInit, made, found, admin, active, dirty>>

WFlush(f) ==
  /\ WorkerGoes(f, "flush", "top")
  /\ dirty' = FALSE
  /\ UNCHANGED <<alive, pc, isInit, made, found, admin, active>>

WorkerStep(f) == WTop(f) \/ WTimeout(f) \/ WAfter(f) \/ WCall(f) \/ WFlush(f)

-------------------------------------------------------------------------------

\* Two threads are at accesses to one unprotected object, one of them a write:
\* the vector _mSinks, the pointer _mLogger, or the vector _mLoggerList while
\* uninitLogger() iterates over it.
Writes(t) == pc[t] = "emplace" \/ (pc[t] = "i_sinks" /\ args # {})

Race ==
  \/ \E t, u \in Callers \cup {Admin} :
       /\ t # u
       /\ Writes(t)
       /\ Writes(u) \/ pc[u] \in {"size", "make", "i_logger"}
  \/ /\ pc[Admin] = "i_logger"
     /\ \E t \in Callers : pc[t] \in {"find", "init", "register"}
  \/ /\ pc[Admin] = "u_flush" /\ todo # {}
     /\ \E t \in Callers : pc[t] = "list"

\* What a race may do besides the effects of the two steps.
Undefined ==
  /\ Race
  /\ Dies

LoggerNext ==
  \/ \E t \in Callers : Macro(t) \/ CallStep(t)
  \/ InitLogger \/ UninitLogger \/ AdminStep
  \/ \E f \in Flushers : WorkerStep(f) \/ WSpurious(f)
  \/ Undefined

\* A process in which nobody has called anything is at rest.
Next ==
  \/ alive /\ LoggerNext
  \/ UNCHANGED vars

Spec == Init /\ [][Next]_vars

\* The thread inside initLogger() and those of the flushers run whenever they
\* can, also when that is a mutex that is free again and again, and an
\* interval ends. Nothing is asked of the threads that log.
Fairness ==
  /\ SF_vars(alive /\ AdminStep)
  /\ \A f \in Flushers : SF_vars(alive /\ WorkerStep(f))

FairSpec == Spec /\ Fairness

-------------------------------------------------------------------------------
(* Properties. *)

\* Every caller that was given a logger has the one that the registry holds
\* and the flusher flushes, whatever threads raced to create it and whether or
\* not the logger was shut down and initialised again.
OneLogger == \A t \in Callers : found[t] # None => found[t] = loggers

\* "If not initialize logger sink, use default sink." (logger.h:143): no logger
\* is handed out that writes nowhere, and uninitLogger() flushes each, whose
\* list the one of the registry is in.
LoggerComplete == loggers # None => loggers \in sinksOf \cap mLoggerList

\* As long as nobody calls uninitLogger(), and test/tcp_server_test.cpp does not,
\* no macro uses a null pointer, also while the logger is initialised again.
InitDelivers == ~uninits => \A t \in Callers : pc[t] = "use" => found[t] # None

\* "Havn't found logger \"{}\", create it at first." (logger.h:168): a caller
\* that asks for the logger ends with one. The code lets two callers create
\* it, of which the second gets an exception, and lets uninitLogger() come
\* between the two tests of the flag.
GetLoggerDelivers ==
  \A t \in Callers : /\ pc[t] # "threw"
                     /\ pc[t] = "use" => found[t] # None

\* What was written is flushed within some intervals, also by a flusher that
\* replaced another one, and after uninitLogger().
OutputFlushed == dirty ~> ~dirty

\* initLogger() returns: joining the former flusher never waits for a thread
\* that waits for the caller.
InitReturns == pc[Admin] = "i_sinks" ~> pc[Admin] = "idle"
===============================================================================
