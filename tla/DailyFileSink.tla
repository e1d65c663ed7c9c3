----------------------------- MODULE DailyFileSink -----------------------------
(***************************************************************************)
(* spdlog/sinks/daily_file_sink: a file for each day, a new one begun at   *)
(* the rotation time, and the names of the last max_files_ in a circular_q *)
(* that says which one to delete. The clock runs in half days: an even     *)
(* time is midnight, and the rotation time is midnight or the half after   *)
(* it. A message is stamped before the mutex of the sink is taken, so it   *)
(* may be older than the one before it. truncate_ is false, and what is    *)
(* in the files is not told apart.                                         *)
(***************************************************************************)
EXTENDS FileHelper

Q == INSTANCE CircularQ WITH Blank <- NoFile

CONSTANTS
  DailyFiles,   \* max_files_
  RotationAt,   \* rotation_h_ and rotation_m_: 0 for midnight, or 1
  MaxTime,      \* bound on the clock
  Lateness      \* bound on the age of a message

ASSUME DailyAssumption ==
  /\ DailyFiles \in Nat
  /\ RotationAt \in {0, 1}
  /\ MaxTime \in Nat /\ Lateness \in Nat
  /\ 0 .. MaxTime \div 2 \subseteq Names

VARIABLES
  dpc,          \* where the sink is
  now,          \* the clock
  time,         \* the stamp of the message
  latest,       \* the latest stamp so far
  rotation_tp_,
  filenames_q_,
  made          \* the days a file was opened for

dailyVars == <<dpc, now, time, latest, rotation_tp_, filenames_q_, made>>

DailyPc == {"down", "c_rotation", "c_queue", "idle", "open",
            "write", "write_new", "delete"}

DailyOK ==
  /\ dpc \in DailyPc
  /\ now \in 0 .. MaxTime /\ time \in 0 .. MaxTime /\ latest \in 0 .. MaxTime
  /\ rotation_tp_ \in 0 .. MaxTime + 2
  /\ made \subseteq Names

DailyInit ==
  /\ dpc = "down"
  /\ now = 0 /\ time = 0 /\ latest = 0 /\ rotation_tp_ = 0
  /\ filenames_q_ = Q!DisabledQ
  /\ made = {}

\* calc_filename.
FileOf(t) == t \div 2

\* The next time the clock shows the rotation time.
NextRotation ==
  LET today == 2 * FileOf(now) + RotationAt
  IN  IF today > now THEN today ELSE today + 2

-------------------------------------------------------------------------------

\* Midnight inside the constructor counts as a fault: the file is one day's
\* and the queue is made for the next.
Tick ==
  /\ now < MaxTime
  /\ now' = now + 1
  /\ fault' = (fault \/ (dpc \in {"c_rotation", "c_queue"} /\ FileOf(now') # FileOf(now)))
  /\ UNCHANGED <<dpc, time, latest, rotation_tp_, filenames_q_, made, disk, fd_, buf, logged>>

\* The constructor.
DailyOpen ==
  /\ dpc = "down" /\ dpc' = "c_rotation"
  /\ OpenFile(FileOf(now), FALSE)
  /\ made' = made \cup {FileOf(now)}
  /\ UNCHANGED <<now, time, latest, rotation_tp_, filenames_q_, logged>>

DailyOpenFails ==
  /\ dpc = "down"
  /\ OpenFails(FileOf(now), FALSE)
  /\ UNCHANGED <<dailyVars, logged>>

DailyRotation ==
  /\ dpc = "c_rotation"
  /\ dpc' = IF DailyFiles > 0 THEN "c_queue" ELSE "idle"
  /\ rotation_tp_' = NextRotation
  /\ UNCHANGED <<now, time, latest, filenames_q_, made, fileVars>>

\* init_filenames_q_: backwards from today as long as there are files.
InitQueue ==
  LET n == CHOOSE k \in 0 .. DailyFiles :
             /\ \A i \in 0 .. k - 1 : FileOf(now) - i \in DOMAIN disk
             /\ k = DailyFiles \/ FileOf(now) - k \notin DOMAIN disk
      q[i \in 0 .. n] == IF i = 0 THEN Q!NewQ(DailyFiles)
                         ELSE Q!PushBack(q[i - 1], FileOf(now) - n + i)
  IN  q[n]

DailyQueue ==
  /\ dpc = "c_queue" /\ dpc' = "idle"
  /\ filenames_q_' = InitQueue
  /\ UNCHANGED <<now, time, latest, rotation_tp_, made, fileVars>>

\* sink_it_: is it time to rotate?
DailyLog(t) ==
  /\ dpc = "idle"
  /\ t <= now /\ now - t <= Lateness
  /\ time' = t
  /\ latest' = IF t > latest THEN t ELSE latest
  /\ dpc' = IF t >= rotation_tp_ THEN "open" ELSE "write"
  /\ UNCHANGED <<now, rotation_tp_, filenames_q_, made, fileVars>>

\* Sets the next rotation before the file is open.
BadDailyRotate ==
  /\ dpc = "open"
  /\ rotation_tp_' = NextRotation
  /\ \/ /\ OpenFile(FileOf(time), FALSE)
        /\ dpc' = "write_new"
        /\ made' = made \cup {FileOf(time)}
     \/ /\ OpenFails(FileOf(time), FALSE)
        /\ dpc' = "idle"
        /\ made' = made
  /\ UNCHANGED <<now, time, latest, filenames_q_, logged>>

\* A new file, or an exception, the message lost and no file open.
DailyRotate ==
  /\ dpc = "open"
  /\ \/ /\ OpenFile(FileOf(time), FALSE)
        /\ dpc' = "write_new"
        /\ made' = made \cup {FileOf(time)}
        /\ rotation_tp_' = NextRotation
     \/ /\ OpenFails(FileOf(time), FALSE)
        /\ dpc' = "idle"
        /\ UNCHANGED <<made, rotation_tp_>>
  /\ UNCHANGED <<now, time, latest, filenames_q_, logged>>

\* A write that fails leaves sink_it_ before the cleaning.
DailyWrite ==
  /\ dpc \in {"write", "write_new"} /\ fd_ # NoFile
  /\ \/ /\ dpc' = IF dpc = "write_new" /\ DailyFiles > 0 THEN "delete" ELSE "idle"
        /\ fault' = fault
     \/ /\ dpc' = "idle"
        /\ fault' = TRUE
  /\ UNCHANGED <<now, time, latest, rotation_tp_, filenames_q_, made, disk, fd_, buf, logged>>

\* The oldest file goes after the new one came, though the queue has room.
BadDeleteOld ==
  /\ dpc = "delete" /\ dpc' = "idle"
  /\ LET old == Q!Front(filenames_q_)
         rest == IF Q!IsEmpty(filenames_q_) THEN filenames_q_ ELSE Q!MoveFront(filenames_q_)
     IN  /\ filenames_q_' = Q!PushBack(rest, fd_)
         /\ disk' = IF Q!IsEmpty(filenames_q_) THEN disk
                    ELSE [n \in DOMAIN disk \ {old} |-> disk[n]]
  /\ UNCHANGED <<now, time, latest, rotation_tp_, made, fd_, buf, logged, fault>>

\* delete_old_: the oldest name leaves a full queue, its file the disk unless
\* that fails, and the current name enters.
DeleteOld ==
  /\ dpc = "delete" /\ dpc' = "idle"
  /\ LET full == Q!Full(filenames_q_)
         old == Q!Front(filenames_q_)
     IN  /\ filenames_q_' =
              Q!PushBack(IF full THEN Q!MoveFront(filenames_q_) ELSE filenames_q_, fd_)
         /\ \/ /\ disk' = IF full THEN [n \in DOMAIN disk \ {old} |-> disk[n]] ELSE disk
               /\ fault' = fault
            \/ /\ full /\ old \in DOMAIN disk
               /\ disk' = disk
               /\ fault' = TRUE
  /\ UNCHANGED <<now, time, latest, rotation_tp_, made, fd_, buf, logged>>

\* The end of the process, or of the sink; a write through a null FILE* is one.
DailyCrash ==
  /\ dpc # "down" /\ dpc' = "down"
  /\ CrashFile(TRUE)
  /\ UNCHANGED <<now, time, latest, rotation_tp_, filenames_q_, made, logged>>

DailyNext ==
  \/ Tick
  \/ DailyOpen \/ DailyOpenFails \/ DailyRotation \/ DailyQueue
  \/ \E t \in 0 .. now : DailyLog(t)
  \/ DailyRotate \/ DailyWrite \/ DeleteOld \/ DailyCrash

-------------------------------------------------------------------------------
(* Properties. *)

\* The last days there was a file for, max_files_ of them.
Recent == {d \in made : Cardinality({e \in made : e > d}) < DailyFiles}

\* "If max_files > 0, retain only the last max_files and delete previous."
\* (daily_file_sink.h:60): the last ones are never deleted, whatever failed and
\* however often the sink was made anew; and as long as nothing went wrong
\* there are no others once a message is dealt with. A restart, an ordinary one
\* too, counts as going wrong for this second half (DailyCrash sets fault):
\* init_filenames_q_ stops at the first day without a file, so files from
\* before a gap are not in the new queue and stay for good.
Retention ==
  DailyFiles > 0 =>
    /\ Recent \subseteq DOMAIN disk
    /\ dpc = "idle" /\ ~fault => DOMAIN disk \subseteq Recent
===============================================================================
