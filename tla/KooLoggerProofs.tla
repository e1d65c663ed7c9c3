---------------------------- MODULE KooLoggerProofs ----------------------------
(***************************************************************************)
(* Proofs about KooLogger for any number of threads that log and of calls  *)
(* of initLogger().                                                        *)
(*                                                                         *)
(* What getLogger() hands out is decided by the callers and by the flag    *)
(* isInit alone, so most steps of the other threads are alike: QuietStep   *)
(* says what they leave as it is.                                          *)
(***************************************************************************)
EXTENDS KooLogger, TLAPS

\* One step of a thread that logs.
CallerStep(t) == Macro(t) \/ CallStep(t)

\* A step that no caller and no logger takes part in.
QuietStep ==
  \/ InitLogger \/ IEmplace \/ IThrow \/ ISinks \/ ILogger \/ IEvery
  \/ IStop \/ INotify \/ IJoin \/ IDone
  \/ UninitLogger \/ UDone \/ \E t \in Callers : UFlush(t)
  \/ \E f \in Flushers : WorkerStep(f) \/ WSpurious(f)
  \/ UNCHANGED vars

\* Next is a step of a caller, the end of the process, or quiet.
LEMMA StepCases ==
  [Next]_vars => (\E t \in Callers : CallerStep(t)) \/ Dies \/ QuietStep
  BY DEF Next, LoggerNext, AdminStep, CallerStep, QuietStep, Undefined

-------------------------------------------------------------------------------
(* Types. *)

\* The types without the flags that are Boolean, and a completed initLogger()
\* still allowed while one runs.
PcOK == pc \in [Callers \cup {Admin} -> CallerPc \cup AdminPc]
SetsOK ==
  /\ mLoggerList \cup sinksOf \cup todo \subseteq Callers
  /\ loggers \in Callers \cup {None}
  /\ found \in [Callers -> Callers \cup {None}]
  /\ args \subseteq {"console", "file"}
FlusherOK ==
  /\ inits \in 0 .. MaxInits
  /\ pc[Admin] \in {"i_sinks", "i_logger", "i_every"} => inits < MaxInits
  /\ wpc \in [Flushers -> WorkerPc]
ActiveOK == active \in [Flushers -> BOOLEAN]
FlagsOK == {alive, isInit, uninits, mSinks, dirty} \subseteq BOOLEAN

\* The end of the process resets everything.
LEMMA DiesType == Dies => PcOK' /\ SetsOK' /\ FlusherOK' /\ ActiveOK' /\ FlagsOK'
<1> SUFFICES ASSUME Dies PROVE PcOK' /\ SetsOK' /\ FlusherOK' /\ ActiveOK' /\ FlagsOK'
  OBVIOUS
<1> USE LoggerAssumption DEF Dies
<1>1. PcOK'
  BY DEF PcOK, CallerPc
<1>2. SetsOK'
  BY DEF SetsOK
<1>3. FlusherOK'
  BY DEF FlusherOK, WorkerPc
<1>4. ActiveOK'
  BY DEF ActiveOK
<1>5. FlagsOK'
  BY DEF FlagsOK
<1> QED BY <1>1, <1>2, <1>3, <1>4, <1>5

LEMMA PcStep == PcOK /\ [Next]_vars => PcOK'
<1> SUFFICES ASSUME PcOK, [Next]_vars PROVE PcOK'
  OBVIOUS
<1> USE DEF PcOK, CallerPc, AdminPc, At, Goto
<1>1. ASSUME NEW t \in Callers, CallerStep(t) PROVE PcOK'
  <2>1. CASE UseNull(t) \/ Thrown(t) \/ Macro(t) \/ Get(t) \/ Find(t)
    BY <2>1, DiesType DEF UseNull, Thrown, Macro, Get, Find
  <2>2. CASE AddLogger(t) \/ Size(t) \/ Emplace(t) \/ Make(t) \/ List(t)
    BY <2>2 DEF AddLogger, Size, Emplace, Make, List
  <2>3. CASE Register(t) \/ Again(t) \/ Use(t)
    BY <2>3 DEF Register, Again, Use
  <2> QED BY <1>1, <2>1, <2>2, <2>3 DEF CallerStep, CallStep
<1>2. ASSUME QuietStep PROVE PcOK'
  <2>1. CASE InitLogger \/ IEmplace \/ IThrow \/ ISinks \/ ILogger \/ IEvery
    BY <2>1 DEF InitLogger, IEmplace, IThrow, ISinks, ILogger, IEvery
  <2>2. CASE IStop \/ INotify \/ IJoin \/ IDone \/ UninitLogger \/ UDone
    BY <2>2 DEF IStop, INotify, IJoin, IDone, UninitLogger, UDone
  <2>3. CASE (\E t \in Callers : UFlush(t)) \/ UNCHANGED vars
    BY <2>3 DEF UFlush, vars
  <2>4. CASE \E f \in Flushers : WorkerStep(f) \/ WSpurious(f)
    BY <2>4 DEF WorkerStep, WSpurious, WTop, WTimeout, WAfter, WCall, WFlush
  <2> QED BY <1>2, <2>1, <2>2, <2>3, <2>4 DEF QuietStep
<1> QED BY <1>1, <1>2, StepCases, DiesType

LEMMA SetsStep == PcOK /\ SetsOK /\ [Next]_vars => SetsOK'
<1> SUFFICES ASSUME PcOK, SetsOK, [Next]_vars PROVE SetsOK'
  OBVIOUS
<1> USE LoggerAssumption DEF SetsOK, At, Goto, made, admin, flusher
<1>1. ASSUME NEW t \in Callers, CallerStep(t) PROVE SetsOK'
  <2>1. CASE UseNull(t) \/ Thrown(t) \/ Macro(t) \/ Get(t) \/ Find(t)
    BY <2>1, DiesType DEF UseNull, Thrown, Macro, Get, Find
  <2>2. CASE AddLogger(t) \/ Size(t) \/ Emplace(t) \/ Make(t) \/ List(t)
    BY <2>2 DEF AddLogger, Size, Emplace, Make, List
  <2>3. CASE Register(t) \/ Again(t) \/ Use(t)
    BY <2>3 DEF Register, Again, Use
  <2> QED BY <1>1, <2>1, <2>2, <2>3 DEF CallerStep, CallStep
<1>2. ASSUME QuietStep PROVE SetsOK'
  <2>1. CASE InitLogger \/ IEmplace \/ IThrow \/ ISinks \/ ILogger \/ IEvery
    BY <2>1 DEF InitLogger, IEmplace, IThrow, ISinks, ILogger, IEvery
  <2>2. CASE IStop \/ INotify \/ IJoin \/ IDone \/ UninitLogger \/ UDone
    BY <2>2 DEF IStop, INotify, IJoin, IDone, UninitLogger, UDone
  <2>3. CASE (\E t \in Callers : UFlush(t)) \/ UNCHANGED vars
    BY <2>3 DEF UFlush, vars
  <2>4. CASE \E f \in Flushers : WorkerStep(f) \/ WSpurious(f)
    BY <2>4 DEF WorkerStep, WSpurious, WTop, WTimeout, WAfter, WCall, WFlush
  <2> QED BY <1>2, <2>1, <2>2, <2>3, <2>4 DEF QuietStep
<1> QED BY <1>1, <1>2, StepCases, DiesType

LEMMA FlusherStep == PcOK /\ FlusherOK /\ [Next]_vars => FlusherOK'
<1> SUFFICES ASSUME PcOK, FlusherOK, [Next]_vars PROVE FlusherOK'
  OBVIOUS
<1> USE LoggerAssumption
    DEF PcOK, FlusherOK, CallerPc, AdminPc, WorkerPc, Flushers, At, Goto, made, admin, flusher
<1>1. ASSUME NEW t \in Callers, CallerStep(t) PROVE FlusherOK'
  <2>1. CASE UseNull(t) \/ Thrown(t) \/ Macro(t) \/ Get(t) \/ Find(t)
    BY <2>1, DiesType DEF UseNull, Thrown, Macro, Get, Find
  <2>2. CASE AddLogger(t) \/ Size(t) \/ Emplace(t) \/ Make(t) \/ List(t)
    BY <2>2 DEF AddLogger, Size, Emplace, Make, List
  <2>3. CASE Register(t) \/ Again(t) \/ Use(t)
    BY <2>3 DEF Register, Again, Use
  <2> QED BY <1>1, <2>1, <2>2, <2>3 DEF CallerStep, CallStep
<1>2. ASSUME QuietStep PROVE FlusherOK'
  <2>1. CASE InitLogger \/ IEmplace \/ IThrow \/ ISinks \/ ILogger \/ IEvery
    BY <2>1 DEF InitLogger, IEmplace, IThrow, ISinks, ILogger, IEvery
  <2>2. CASE IStop \/ INotify \/ IJoin \/ IDone \/ UninitLogger \/ UDone
    BY <2>2 DEF IStop, INotify, IJoin, IDone, UninitLogger, UDone
  <2>3. CASE (\E t \in Callers : UFlush(t)) \/ UNCHANGED vars
    BY <2>3 DEF UFlush, vars
  <2>4. CASE \E f \in Flushers : WorkerStep(f) \/ WSpurious(f)
    BY <2>4 DEF WorkerStep, WSpurious, WTop, WTimeout, WAfter, WCall, WFlush, WorkerGoes
  <2> QED BY <1>2, <2>1, <2>2, <2>3, <2>4 DEF QuietStep
<1> QED BY <1>1, <1>2, StepCases, DiesType

\* Only flush_every() and the destructor of a flusher write active_.
LEMMA ActiveStep == ActiveOK /\ [Next]_vars => ActiveOK'
<1> SUFFICES ASSUME ActiveOK, [Next]_vars PROVE ActiveOK'
  OBVIOUS
<1> USE DEF ActiveOK, flusher
<1>1. ASSUME NEW t \in Callers, CallerStep(t) PROVE ActiveOK'
  <2>1. CASE UseNull(t) \/ Thrown(t)
    BY <2>1, DiesType DEF UseNull, Thrown
  <2>2. CASE ~UseNull(t) /\ ~Thrown(t)
    BY <1>1, <2>2 DEF CallerStep, CallStep, Macro, Get, Find, AddLogger, Size, Emplace,
                      Make, List, Register, Again, Use
  <2> QED BY <2>1, <2>2
<1>2. ASSUME QuietStep PROVE ActiveOK'
  <2>1. CASE IEvery \/ IStop
    BY <2>1 DEF IEvery, IStop
  <2>2. CASE ~IEvery /\ ~IStop
    BY <1>2, <2>2 DEF QuietStep, InitLogger, IEmplace, IThrow, ISinks, ILogger, INotify,
                      IJoin, IDone, UninitLogger, UDone, UFlush, vars, WorkerStep,
                      WSpurious, WTop, WTimeout, WAfter, WCall, WFlush
  <2> QED BY <2>1, <2>2
<1> QED BY <1>1, <1>2, StepCases, DiesType

LEMMA FlagsStep == FlagsOK /\ [Next]_vars => FlagsOK'
<1> SUFFICES ASSUME FlagsOK, [Next]_vars PROVE FlagsOK'
  OBVIOUS
<1> USE DEF FlagsOK, made, admin
<1>1. ASSUME NEW t \in Callers, CallerStep(t) PROVE FlagsOK'
  <2>1. CASE UseNull(t) \/ Thrown(t)
    BY <2>1, DiesType DEF UseNull, Thrown
  <2>2. CASE Macro(t) \/ Get(t) \/ Find(t) \/ AddLogger(t) \/ Size(t) \/ Emplace(t)
    BY <2>2 DEF Macro, Get, Find, AddLogger, Size, Emplace
  <2>3. CASE Make(t) \/ List(t) \/ Register(t) \/ Again(t) \/ Use(t)
    BY <2>3 DEF Make, List, Register, Again, Use
  <2> QED BY <1>1, <2>1, <2>2, <2>3 DEF CallerStep, CallStep
<1>2. ASSUME QuietStep PROVE FlagsOK'
  <2>1. CASE InitLogger \/ IEmplace \/ IThrow \/ ISinks \/ ILogger \/ IEvery
    BY <2>1 DEF InitLogger, IEmplace, IThrow, ISinks, ILogger, IEvery
  <2>2. CASE IStop \/ INotify \/ IJoin \/ IDone \/ UninitLogger \/ UDone
    BY <2>2 DEF IStop, INotify, IJoin, IDone, UninitLogger, UDone
  <2>3. CASE (\E t \in Callers : UFlush(t)) \/ UNCHANGED vars
    BY <2>3 DEF UFlush, vars
  <2>4. CASE \E f \in Flushers : WorkerStep(f) \/ WSpurious(f)
    BY <2>4 DEF WorkerStep, WSpurious, WTop, WTimeout, WAfter, WCall, WFlush
  <2> QED BY <1>2, <2>1, <2>2, <2>3, <2>4 DEF QuietStep
<1> QED BY <1>1, <1>2, StepCases, DiesType

Types == PcOK /\ SetsOK /\ FlusherOK /\ ActiveOK /\ FlagsOK

LEMMA TypesHold == Spec => []Types
<1>1. Init => Types
  <2> SUFFICES ASSUME Init PROVE Types
    OBVIOUS
  <2> USE LoggerAssumption DEF Init
  <2>1. PcOK
    BY DEF PcOK, CallerPc
  <2>2. SetsOK
    BY DEF SetsOK
  <2>3. FlusherOK
    BY DEF FlusherOK, WorkerPc
  <2>4. ActiveOK
    BY DEF ActiveOK
  <2>5. FlagsOK
    BY DEF FlagsOK
  <2> QED BY <2>1, <2>2, <2>3, <2>4, <2>5 DEF Types
<1>2. Types /\ [Next]_vars => Types'
  BY PcStep, SetsStep, FlusherStep, ActiveStep, FlagsStep DEF Types
<1> QED BY <1>1, <1>2, PTL DEF Spec

\* Type correctness: every variable stays in its type.
THEOREM TypeCorrect == Spec => []TypeOK
<1>1. Types => TypeOK
  BY DEF Types, PcOK, SetsOK, FlusherOK, ActiveOK, FlagsOK, TypeOK
<1> QED BY <1>1, TypesHold, PTL

-------------------------------------------------------------------------------
(* The logger that is handed out. *)

\* What a caller has done of addLogger(): a sink is there when it makes the
\* logger, the logger has it, and is in the list before the registry takes it.
Prepared ==
  \A t \in Callers :
    /\ pc[t] = "make" => mSinks
    /\ pc[t] \in {"list", "register"} => t \in sinksOf
    /\ pc[t] = "register" => t \in mLoggerList

\* Until uninitLogger() is called the flag that a macro has seen set stays
\* set, so that a caller behind a test of it is on its way to a logger.
OnTheWay ==
  ~uninits => \A t \in Callers :
    /\ pc[t] # "idle" => isInit
    /\ pc[t] = "again" => loggers # None
    /\ pc[t] = "use" => found[t] # None

LoggerInv == OneLogger /\ LoggerComplete /\ Prepared /\ OnTheWay

\* A quiet step takes no caller on, and adds no logger and no sink but the one
\* that initLogger() makes.
LEMMA Quiet ==
  ASSUME QuietStep, PcOK
  PROVE  /\ \A t \in Callers : pc'[t] = pc[t]
         /\ UNCHANGED <<mLoggerList, loggers, sinksOf, found>>
         /\ mSinks => mSinks'
         /\ uninits => uninits'
<1> USE LoggerAssumption
    DEF PcOK, CallerPc, AdminPc, WorkerPc, Flushers, At, Goto, made, admin, flusher
<1>1. CASE InitLogger \/ IEmplace \/ IThrow \/ ISinks \/ ILogger \/ IEvery
  BY <1>1 DEF InitLogger, IEmplace, IThrow, ISinks, ILogger, IEvery
<1>2. CASE IStop \/ INotify \/ IJoin \/ IDone \/ UninitLogger \/ UDone
  BY <1>2 DEF IStop, INotify, IJoin, IDone, UninitLogger, UDone
<1>3. CASE \E t \in Callers : UFlush(t)
  BY <1>3 DEF UFlush
<1>4. CASE UNCHANGED vars
  BY <1>4 DEF vars
<1>5. ASSUME NEW f \in Flushers, WorkerStep(f)
      PROVE  UNCHANGED <<pc, made, found, isInit, uninits>>
  BY <1>5 DEF WorkerStep, WTop, WTimeout, WAfter, WCall, WFlush
<1>6. ASSUME NEW f \in Flushers, WSpurious(f)
      PROVE  UNCHANGED <<pc, made, found, isInit, uninits>>
  BY <1>6 DEF WSpurious
<1>7. CASE \E f \in Flushers : WorkerStep(f) \/ WSpurious(f)
  BY <1>5, <1>6, <1>7
<1> QED BY QuietStep, <1>1, <1>2, <1>3, <1>4, <1>7 DEF QuietStep

\* uninitLogger() is the only one to clear the flag, and says so first.
UninitKnown == pc[Admin] = "u_flush" => uninits

LEMMA UninitStep == PcOK /\ UninitKnown /\ [Next]_vars => UninitKnown'
<1> SUFFICES ASSUME PcOK, UninitKnown, [Next]_vars PROVE UninitKnown'
  OBVIOUS
<1> USE LoggerAssumption
    DEF PcOK, UninitKnown, CallerPc, AdminPc, At, Goto, made, admin, flusher
<1>1. ASSUME NEW t \in Callers, CallerStep(t) PROVE UninitKnown'
  <2>1. CASE UseNull(t) \/ Thrown(t)
    BY <2>1 DEF UseNull, Thrown, Dies
  <2>2. CASE Macro(t) \/ Get(t) \/ Find(t) \/ AddLogger(t) \/ Size(t) \/ Emplace(t)
    BY <2>2 DEF Macro, Get, Find, AddLogger, Size, Emplace
  <2>3. CASE Make(t) \/ List(t) \/ Register(t) \/ Again(t) \/ Use(t)
    BY <2>3 DEF Make, List, Register, Again, Use
  <2> QED BY <1>1, <2>1, <2>2, <2>3 DEF CallerStep, CallStep
<1>2. ASSUME QuietStep PROVE UninitKnown'
  <2>1. CASE InitLogger \/ IEmplace \/ IThrow \/ ISinks \/ ILogger \/ IEvery
    BY <2>1 DEF InitLogger, IEmplace, IThrow, ISinks, ILogger, IEvery
  <2>2. CASE IStop \/ INotify \/ IJoin \/ IDone \/ UninitLogger \/ UDone
    BY <2>2 DEF IStop, INotify, IJoin, IDone, UninitLogger, UDone
  <2>3. CASE (\E t \in Callers : UFlush(t)) \/ UNCHANGED vars
    BY <2>3 DEF UFlush, vars
  <2>4. CASE \E f \in Flushers : WorkerStep(f) \/ WSpurious(f)
    BY <2>4 DEF WorkerStep, WSpurious, WTop, WTimeout, WAfter, WCall, WFlush
  <2> QED BY <1>2, <2>1, <2>2, <2>3, <2>4 DEF QuietStep
<1> QED BY <1>1, <1>2, StepCases DEF Dies

\* It clears isInit only when uninits is set.
LEMMA QuietFlag ==
  ASSUME QuietStep, UninitKnown, isInit, ~uninits'
  PROVE  isInit' /\ ~uninits
<1> USE DEF UninitKnown, At, Goto, made, admin, flusher
<1>1. CASE InitLogger \/ IEmplace \/ IThrow \/ ISinks \/ ILogger \/ IEvery
  BY <1>1 DEF InitLogger, IEmplace, IThrow, ISinks, ILogger, IEvery
<1>2. CASE IStop \/ INotify \/ IJoin \/ IDone \/ UninitLogger \/ UDone
  BY <1>2 DEF IStop, INotify, IJoin, IDone, UninitLogger, UDone
<1>3. CASE \E t \in Callers : UFlush(t)
  BY <1>3 DEF UFlush
<1>4. CASE UNCHANGED vars
  BY <1>4 DEF vars
<1>5. ASSUME NEW f \in Flushers, WorkerStep(f)
      PROVE  UNCHANGED <<pc, made, found, isInit, uninits>>
  BY <1>5 DEF WorkerStep, WTop, WTimeout, WAfter, WCall, WFlush
<1>6. ASSUME NEW f \in Flushers, WSpurious(f)
      PROVE  UNCHANGED <<pc, made, found, isInit, uninits>>
  BY <1>6 DEF WSpurious
<1>7. CASE \E f \in Flushers : WorkerStep(f) \/ WSpurious(f)
  BY <1>5, <1>6, <1>7
<1> QED BY QuietStep, <1>1, <1>2, <1>3, <1>4, <1>7 DEF QuietStep

\* The registry takes a logger only while it has none, when no caller has been
\* given one either.
LEMMA OneLoggerStep == SetsOK /\ OneLogger /\ [Next]_vars /\ PcOK => OneLogger'
<1> SUFFICES ASSUME SetsOK, PcOK, OneLogger, [Next]_vars PROVE OneLogger'
  OBVIOUS
<1> USE LoggerAssumption DEF SetsOK, OneLogger, made, admin
<1>1. ASSUME NEW t \in Callers, CallerStep(t) PROVE OneLogger'
  <2>1. CASE UseNull(t) \/ Thrown(t) \/ Macro(t) \/ Get(t) \/ Find(t)
    BY <2>1 DEF UseNull, Thrown, Macro, Get, Find, Dies
  <2>2. CASE AddLogger(t) \/ Size(t) \/ Emplace(t) \/ Make(t) \/ List(t)
    BY <2>2 DEF AddLogger, Size, Emplace, Make, List
  <2>3. CASE Register(t) \/ Again(t) \/ Use(t)
    BY <2>3 DEF Register, Again, Use
  <2> QED BY <1>1, <2>1, <2>2, <2>3 DEF CallerStep, CallStep
<1>2. ASSUME Dies PROVE OneLogger'
  BY <1>2 DEF Dies
<1>3. ASSUME QuietStep PROVE OneLogger'
  BY <1>3, Quiet
<1> QED BY <1>1, <1>2, <1>3, StepCases

LEMMA PreparedStep == PcOK /\ Prepared /\ [Next]_vars => Prepared'
<1> SUFFICES ASSUME PcOK, Prepared, [Next]_vars PROVE Prepared'
  OBVIOUS
<1> USE LoggerAssumption DEF Prepared, PcOK, CallerPc, AdminPc, At, Goto, made, admin
<1>1. ASSUME NEW t \in Callers, CallerStep(t) PROVE Prepared'
  <2>1. CASE UseNull(t) \/ Thrown(t) \/ Macro(t) \/ Get(t) \/ Find(t)
    BY <2>1 DEF UseNull, Thrown, Macro, Get, Find, Dies
  <2>2. CASE AddLogger(t) \/ Size(t) \/ Emplace(t)
    BY <2>2 DEF AddLogger, Size, Emplace
  <2>3. CASE Make(t)
    BY <2>3 DEF Make
  <2>4. CASE List(t)
    BY <2>4 DEF List
  <2>5. CASE Register(t) \/ Again(t) \/ Use(t)
    BY <2>5 DEF Register, Again, Use
  <2> QED BY <1>1, <2>1, <2>2, <2>3, <2>4, <2>5 DEF CallerStep, CallStep
<1>2. ASSUME Dies PROVE Prepared'
  BY <1>2 DEF Dies
<1>3. ASSUME QuietStep PROVE Prepared'
  BY <1>3, Quiet
<1> QED BY <1>1, <1>2, <1>3, StepCases

LEMMA CompleteStep ==
  PcOK /\ Prepared /\ LoggerComplete /\ [Next]_vars => LoggerComplete'
<1> SUFFICES ASSUME PcOK, Prepared, LoggerComplete, [Next]_vars PROVE LoggerComplete'
  OBVIOUS
<1> USE LoggerAssumption DEF Prepared, LoggerComplete, At, Goto, made
<1>1. ASSUME NEW t \in Callers, CallerStep(t) PROVE LoggerComplete'
  <2>1. CASE UseNull(t) \/ Thrown(t) \/ Macro(t) \/ Get(t) \/ Find(t)
    BY <2>1 DEF UseNull, Thrown, Macro, Get, Find, Dies
  <2>2. CASE AddLogger(t) \/ Size(t) \/ Emplace(t) \/ Make(t) \/ List(t)
    BY <2>2 DEF AddLogger, Size, Emplace, Make, List
  <2>3. CASE Register(t) \/ Again(t) \/ Use(t)
    BY <2>3 DEF Register, Again, Use
  <2> QED BY <1>1, <2>1, <2>2, <2>3 DEF CallerStep, CallStep
<1>2. ASSUME Dies PROVE LoggerComplete'
  BY <1>2 DEF Dies
<1>3. ASSUME QuietStep PROVE LoggerComplete'
  BY <1>3, Quiet
<1> QED BY <1>1, <1>2, <1>3, StepCases

LEMMA OnTheWayStep ==
  PcOK /\ SetsOK /\ UninitKnown /\ OnTheWay /\ [Next]_vars => OnTheWay'
<1> SUFFICES ASSUME PcOK, SetsOK, UninitKnown, OnTheWay, [Next]_vars PROVE OnTheWay'
  OBVIOUS
<1> USE LoggerAssumption
    DEF OnTheWay, PcOK, SetsOK, CallerPc, AdminPc, At, Goto, made, admin
<1>1. ASSUME NEW t \in Callers, CallerStep(t) PROVE OnTheWay'
  <2>1. CASE UseNull(t) \/ Thrown(t)
    BY <2>1 DEF UseNull, Thrown, Dies
  <2>2. CASE Macro(t) \/ Get(t)
    BY <2>2 DEF Macro, Get
  <2>3. CASE Find(t)
    BY <2>3 DEF Find
  <2>4. CASE AddLogger(t) \/ Size(t) \/ Emplace(t) \/ Make(t) \/ List(t)
    BY <2>4 DEF AddLogger, Size, Emplace, Make, List
  <2>5. CASE Register(t)
    BY <2>5 DEF Register
  <2>6. CASE Again(t) \/ Use(t)
    BY <2>6 DEF Again, Use
  <2> QED BY <1>1, <2>1, <2>2, <2>3, <2>4, <2>5, <2>6 DEF CallerStep, CallStep
<1>2. ASSUME Dies PROVE OnTheWay'
  BY <1>2 DEF Dies
<1>3. ASSUME QuietStep PROVE OnTheWay'
  <2>1. /\ \A t \in Callers : pc'[t] = pc[t]
        /\ UNCHANGED <<loggers, found>>
        /\ uninits => uninits'
    BY <1>3, Quiet
  <2>2. ASSUME isInit, ~uninits' PROVE isInit'
    BY <1>3, <2>2, QuietFlag
  <2> QED BY <2>1, <2>2
<1> QED BY <1>1, <1>2, <1>3, StepCases

LEMMA InvHolds == Spec => [](LoggerInv /\ UninitKnown)
<1>1. Init => LoggerInv /\ UninitKnown
  BY LoggerAssumption
     DEF Init, LoggerInv, OneLogger, LoggerComplete, Prepared, OnTheWay, UninitKnown
<1>2. PcOK /\ SetsOK /\ LoggerInv /\ UninitKnown /\ [Next]_vars
        => (LoggerInv /\ UninitKnown)'
  BY OneLoggerStep, CompleteStep, PreparedStep, OnTheWayStep, UninitStep DEF LoggerInv
<1>3. Types => PcOK /\ SetsOK
  BY DEF Types
<1> QED BY <1>1, <1>2, <1>3, TypesHold, PTL DEF Spec

\* Whatever threads race to create it, all that are given a logger are given
\* the one the registry has.
THEOREM OneLoggerHolds == Spec => []OneLogger
<1>1. LoggerInv => OneLogger
  BY DEF LoggerInv
<1> QED BY <1>1, InvHolds, PTL

\* A logger in the registry writes somewhere, and uninitLogger() flushes it.
THEOREM LoggerCompleteHolds == Spec => []LoggerComplete
<1>1. LoggerInv => LoggerComplete
  BY DEF LoggerInv
<1> QED BY <1>1, InvHolds, PTL

\* No macro uses a null pointer as long as nobody calls uninitLogger().
THEOREM InitDeliversHolds == Spec => []InitDelivers
<1>1. LoggerInv => InitDelivers
  BY DEF LoggerInv, OnTheWay, InitDelivers
<1> QED BY <1>1, InvHolds, PTL
===============================================================================
