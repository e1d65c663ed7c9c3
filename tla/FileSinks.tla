------------------------------- MODULE FileSinks -------------------------------
(***************************************************************************)
(* A process with one file sink, rotating or daily, over the disk.         *)
(***************************************************************************)
EXTENDS RotatingFileSink, DailyFileSink

VARIABLE sink    \* which one

vars == <<sink, fileVars, rotVars, dailyVars>>

TypeOK ==
  /\ sink \in {"rotating", "daily"}
  /\ FileOK /\ RotOK /\ DailyOK

Init ==
  /\ sink \in {"rotating", "daily"}
  /\ FileInit /\ RotInit /\ DailyInit

Next ==
  /\ UNCHANGED sink
  /\ \/ sink = "rotating" /\ RotNext /\ UNCHANGED dailyVars
     \/ sink = "daily" /\ DailyNext /\ UNCHANGED rotVars

Spec == Init /\ [][Next]_vars

\* Nothing is written through a null FILE*, with one exception: a daily sink
\* that could not open its new file writes there what was stamped before the
\* message it failed for.
NullWriteOnlyLate ==
  fd_ = NoFile =>
    /\ ~RotAt("write")
    /\ dpc \in {"write", "write_new"} => time < latest
===============================================================================
