------------------------------ MODULE FileHelper ------------------------------
(***************************************************************************)
(* spdlog/details/file_helper: the open file behind a file sink, the stdio *)
(* buffer in front of it and the files on disk. The sinks are modules that *)
(* extend this one and use its steps. Messages are their numbers in the    *)
(* order they were logged, a file is the sequence of those in it, and      *)
(* logged gives their formatted sizes. fclose() and fflush() may fail and  *)
(* their results are not looked at; an open that fails does so five times. *)
(***************************************************************************)
EXTENDS Integers, Sequences, FiniteSets

CONSTANTS
  Names,      \* the files a sink may make
  NoFile      \* fd_ is null

ASSUME FileAssumption == NoFile \notin Names

VARIABLES
  disk,       \* the files there are, with their contents
  fd_,        \* the file behind fd_, or NoFile
  buf,        \* messages in its stdio buffer
  logged,     \* the size of each message so far
  fault       \* some operation has failed, or a crash took something along

fileVars == <<disk, fd_, buf, logged, fault>>

FileOK ==
  /\ DOMAIN disk \subseteq Names
  /\ disk \in [DOMAIN disk -> Seq(1 .. Len(logged))]
  /\ fd_ \in Names \cup {NoFile}
  /\ buf \in Seq(1 .. Len(logged))
  /\ fd_ = NoFile => buf = <<>>
  /\ fault \in BOOLEAN

FileInit ==
  /\ disk = <<>> /\ fd_ = NoFile /\ buf = <<>>
  /\ logged = <<>>
  /\ fault = FALSE

With(d, n, c) == [x \in DOMAIN d \cup {n} |-> IF x = n THEN c ELSE d[x]]

\* The disk when the buffer has gone to the file. One that was removed while
\* it is open takes the buffer with it.
Synced(b) == IF fd_ \in DOMAIN disk THEN With(disk, fd_, disk[fd_] \o b) ELSE disk

\* What fclose() may make of the disk.
Closed == {Synced(buf), disk}

CloseFile ==
  /\ disk' \in Closed
  /\ fd_' = NoFile /\ buf' = <<>>
  /\ fault' = (fault \/ disk' # Synced(buf))

\* open() closes what was open; the new file is opened to append.
OpenFile(n, truncate) ==
  \E d \in Closed :
    /\ disk' = With(d, n, IF truncate \/ n \notin DOMAIN d THEN <<>> ELSE d[n])
    /\ fd_' = n /\ buf' = <<>>
    /\ fault' = (fault \/ d # Synced(buf))

\* No try succeeded: open() throws, the former file is closed all the same and
\* the new one may have been truncated.
OpenFails(n, truncate) ==
  \E d \in Closed :
    /\ disk' \in {d} \cup IF truncate THEN {With(d, n, <<>>)} ELSE {}
    /\ fd_' = NoFile /\ buf' = <<>>
    /\ fault' = TRUE

\* write() through a file that is open: into the buffer, or on to the file.
WriteFile(m) ==
  /\ fd_ # NoFile
  /\ \/ disk' = disk /\ buf' = Append(buf, m)
     \/ disk' = Synced(Append(buf, m)) /\ buf' = <<>>
  /\ UNCHANGED <<fd_, fault>>

\* fwrite() comes short and write() throws.
WriteFails ==
  /\ fd_ # NoFile
  /\ \/ UNCHANGED <<disk, buf>>
     \/ disk' \in Closed /\ buf' = <<>>
  /\ fault' = TRUE
  /\ UNCHANGED fd_

FlushFile ==
  /\ disk' \in Closed
  /\ buf' \in IF disk' = Synced(buf) THEN {<<>>} ELSE {buf, <<>>}
  /\ fault' = (fault \/ disk' # Synced(buf))
  /\ UNCHANGED fd_

\* The process dies with what is in the buffer and in flight.
CrashFile(inFlight) ==
  /\ fd_' = NoFile /\ buf' = <<>>
  /\ fault' = (fault \/ inFlight \/ buf # <<>>)
  /\ UNCHANGED disk

Total(s) ==
  LET sum[i \in 0 .. Len(s)] == IF i = 0 THEN 0 ELSE sum[i - 1] + s[i]
  IN  sum[Len(s)]

\* Bytes behind a sequence of messages.
Bytes(c) == Total([i \in 1 .. Len(c) |-> logged[c[i]]])
===============================================================================
