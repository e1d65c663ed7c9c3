--------------------------- MODULE RotatingFileSink ---------------------------
(***************************************************************************)
(* spdlog/sinks/rotating_file_sink: log.txt is number 0 and the older the  *)
(* file the higher its number, up to max_files_. The mutex of the sink     *)
(* keeps threads apart; what can come between two steps is a crash, after  *)
(* which the sink is made anew over the files it finds, and any step of    *)
(* the file system can fail.                                               *)
(***************************************************************************)
EXTENDS FileHelper

CONSTANTS
  MaxSize,      \* max_size_
  MaxFiles,     \* max_files_
  Sizes,        \* sizes of formatted messages
  MaxMsgs       \* bound on the messages logged

ASSUME RotatingAssumption ==
  /\ MaxSize \in Nat \ {0} /\ MaxFiles \in Nat /\ MaxMsgs \in Nat
  /\ Sizes \subseteq Nat \ {0}
  /\ 0 .. MaxFiles \subseteq Names

VARIABLES
  rpc,          \* where the sink is
  current_size_,
  index,        \* i of the loop of rotate_()
  tries         \* rename_file_() has failed for it

rotVars == <<rpc, current_size_, index, tries>>

RotPc == {"down", "ctor", "idle", "rotate", "scan", "remove", "rename", "giveup",
          "reopen", "write"}

RotOK ==
  /\ rpc \in RotPc \X {"ctor", "log"}
  /\ logged \in Seq(Sizes)
  /\ current_size_ \in Nat
  /\ index \in 0 .. MaxFiles
  /\ tries \in 0 .. 1

RotInit ==
  /\ rpc = <<"down", "ctor">>
  /\ current_size_ = 0 /\ index = 0 /\ tries = 0

\* The second part of rpc says for whom rotate_() runs.
RotAt(l) == rpc[1] = l
RotGoto(l) == rpc' = <<l, rpc[2]>>

\* rotate_() throws: out of the constructor, or to the logger, which reports
\* it and goes on.
Throw == RotGoto(IF rpc[2] = "ctor" THEN "down" ELSE "idle")

-------------------------------------------------------------------------------

\* The constructor: open and size().
RotOpen ==
  /\ RotAt("down")
  /\ OpenFile(0, FALSE)
  /\ rpc' = <<"ctor", "ctor">>
  /\ current_size_' = IF 0 \in DOMAIN disk THEN Bytes(disk[0]) ELSE 0
  /\ UNCHANGED <<index, tries, logged>>

\* Either of them throws.
RotOpenFails ==
  /\ RotAt("down")
  /\ \/ OpenFails(0, FALSE)
     \/ disk' = With(disk, 0, IF 0 \in DOMAIN disk THEN disk[0] ELSE <<>>)
        /\ fault' = TRUE /\ UNCHANGED <<fd_, buf>>
  /\ UNCHANGED <<rotVars, logged>>

\* rotate_on_open or not.
RotOpened ==
  /\ RotAt("ctor")
  /\ \/ RotGoto("idle")
     \/ current_size_ > 0 /\ RotGoto("rotate")
  /\ UNCHANGED <<current_size_, index, tries, fileVars>>

\* Looks at the size without the message.
BadRotLog(size) ==
  /\ RotAt("idle")
  /\ Len(logged) < MaxMsgs
  /\ logged' = Append(logged, size)
  /\ current_size_' = current_size_ + size
  /\ rpc' = <<IF current_size_ > MaxSize THEN "rotate" ELSE "write", "log">>
  /\ UNCHANGED <<index, tries, disk, fd_, buf, fault>>

\* sink_it_ with a message of that formatted size.
RotLog(size) ==
  /\ RotAt("idle")
  /\ Len(logged) < MaxMsgs
  /\ logged' = Append(logged, size)
  /\ current_size_' = current_size_ + size
  /\ rpc' = <<IF current_size_' > MaxSize THEN "rotate" ELSE "write", "log">>
  /\ UNCHANGED <<index, tries, disk, fd_, buf, fault>>

\* Forgets the files behind log.1.txt.
BadRotate ==
  /\ RotAt("rotate") /\ RotGoto("scan")
  /\ CloseFile
  /\ index' = IF MaxFiles > 0 THEN 1 ELSE 0
  /\ tries' = 0
  /\ UNCHANGED <<current_size_, logged>>

Rotate ==
  /\ RotAt("rotate") /\ RotGoto("scan")
  /\ CloseFile
  /\ index' = MaxFiles
  /\ tries' = 0
  /\ UNCHANGED <<current_size_, logged>>

\* The loop goes on below zero.
BadSkip ==
  /\ RotAt("scan")
  /\ index - 1 \notin DOMAIN disk
  /\ index' = index - 1
  /\ UNCHANGED <<rpc, current_size_, tries, fileVars>>

\* path_exists(src) finds nothing.
Skip ==
  /\ RotAt("scan")
  /\ index > 0 /\ index - 1 \notin DOMAIN disk
  /\ index' = index - 1
  /\ UNCHANGED <<rpc, current_size_, tries, fileVars>>

Found ==
  /\ RotAt("scan") /\ RotGoto("remove")
  /\ index > 0 /\ index - 1 \in DOMAIN disk
  /\ UNCHANGED <<current_size_, index, tries, fileVars>>

LoopEnds ==
  /\ RotAt("scan") /\ RotGoto("reopen")
  /\ index = 0
  /\ UNCHANGED <<current_size_, index, tries, fileVars>>

\* os::remove(target), whose result is not looked at.
RemoveTarget ==
  /\ RotAt("remove") /\ RotGoto("rename")
  /\ disk' \in {disk, [n \in DOMAIN disk \ {index} |-> disk[n]]}
  /\ UNCHANGED <<current_size_, index, tries, fd_, buf, logged, fault>>

\* os::rename, which replaces a target that is still there.
Rename ==
  /\ RotAt("rename") /\ RotGoto("scan")
  /\ disk' = [n \in (DOMAIN disk \ {index - 1}) \cup {index} |->
                IF n = index THEN disk[index - 1] ELSE disk[n]]
  /\ index' = index - 1
  /\ tries' = 0
  /\ UNCHANGED <<current_size_, fd_, buf, logged, fault>>

\* The first failure is waited out.
RenameFails ==
  /\ RotAt("rename") /\ RotGoto(IF tries = 0 THEN "remove" ELSE "giveup")
  /\ tries' = 1 - tries
  /\ fault' = TRUE
  /\ UNCHANGED <<current_size_, index, disk, fd_, buf, logged>>

\* The log file is truncated to keep it below its limit; the counter is reset
\* unless that throws too. Either way the message is lost. Out of the
\* constructor the file is closed again, and what the counter was is gone.
GiveUp ==
  /\ RotAt("giveup") /\ Throw
  /\ \/ rpc[2] = "log" /\ OpenFile(0, TRUE) /\ current_size_' = 0
     \/ OpenFails(0, TRUE) /\ UNCHANGED current_size_
  /\ UNCHANGED <<index, tries, logged>>

\* The new log file. The constructor keeps the size of the former one.
Reopen ==
  /\ RotAt("reopen")
  /\ OpenFile(0, TRUE)
  /\ \/ /\ rpc[2] = "log"
        /\ RotGoto("write")
        /\ current_size_' = logged[Len(logged)]
     \/ /\ rpc[2] = "ctor"
        /\ RotGoto("idle")
        /\ UNCHANGED current_size_
  /\ UNCHANGED <<index, tries, logged>>

ReopenFails ==
  /\ RotAt("reopen") /\ Throw
  /\ OpenFails(0, TRUE)
  /\ UNCHANGED <<current_size_, index, tries, logged>>

RotWrite ==
  /\ RotAt("write") /\ RotGoto("idle")
  /\ WriteFile(Len(logged)) \/ WriteFails
  /\ UNCHANGED <<current_size_, index, tries, logged>>

RotFlush ==
  /\ RotAt("idle")
  /\ FlushFile
  /\ UNCHANGED <<rotVars, logged>>

\* The destructor, in a process that makes the sink again.
RotClose ==
  /\ RotAt("idle")
  /\ rpc' = <<"down", "ctor">>
  /\ CloseFile
  /\ UNCHANGED <<current_size_, index, tries, logged>>

RotCrash ==
  /\ ~RotAt("down")
  /\ rpc' = <<"down", "ctor">>
  /\ CrashFile(~RotAt("idle"))
  /\ UNCHANGED <<current_size_, index, tries, logged>>

RotNext ==
  \/ RotOpen \/ RotOpenFails \/ RotOpened
  \/ \E size \in Sizes : RotLog(size)
  \/ Rotate \/ Skip \/ Found \/ LoopEnds \/ RemoveTarget \/ Rename \/ RenameFails
  \/ GiveUp \/ Reopen \/ ReopenFails \/ RotWrite \/ RotFlush \/ RotClose \/ RotCrash

-------------------------------------------------------------------------------
(* Properties. *)

\* "to prevent it to grow beyond its limit" (rotating_file_sink-inl.h:111): no
\* file outgrows max_size_ but by a single message, whatever failed and
\* wherever the process died.
SizeBound ==
  \A n \in DOMAIN disk :
    LET c == IF n = fd_ THEN disk[n] \o buf ELSE disk[n]
    IN  Bytes(c) <= MaxSize \/ Len(c) = 1

InFile(n) == IF n \in DOMAIN disk THEN disk[n] ELSE <<>>

\* The files from the oldest to the newest, then what is in the buffer.
History ==
  LET oldest[k \in 0 .. MaxFiles + 1] ==
        IF k = 0 THEN <<>> ELSE oldest[k - 1] \o InFile(MaxFiles + 1 - k)
  IN  oldest[MaxFiles + 1] \o buf

\* The numbered files are the log in order, in the middle of a rotation and
\* after a crash in one too; unless something failed they are its end, without
\* a gap, and messages were given up only for a file with the highest number.
\* A crash between the steps of a rotation is such a failure (RotCrash sets
\* fault): the gap it leaves in the log is not excluded, the wrong order is.
OrderKept ==
  /\ \A i \in 2 .. Len(History) : History[i - 1] < History[i]
  /\ ~fault =>
       /\ \A i \in 2 .. Len(History) : History[i] = History[i - 1] + 1
       /\ (RotAt("idle") \/ RotAt("down")) /\ History # <<>> => History[Len(History)] = Len(logged)
       /\ RotAt("idle") /\ History # <<>> /\ History[1] > 1 => MaxFiles \in DOMAIN disk
===============================================================================
