----------------------------- MODULE RollingLog -----------------------------
(***************************************************************************)
(* The log of a managed process: RollingLogWriter (utils/write/log.ts)     *)
(* appends to one active file, archives it under a dated name when it is   *)
(* full and drops the oldest archives; tailPathFollowingFs                 *)
(* (lib/process-manager/operation/tail-file.ts) follows the active file    *)
(* from another process by size alone.  The writing process may die at any *)
(* point (a failed write ends it too: nobody listens for the stream's      *)
(* errors) and a new one opens the same file.                              *)
(*                                                                         *)
(* A file is the sequence of the units (bytes) it holds, numbered in the   *)
(* order they reach the disk.  Its mtime is that of its last unit, and no  *)
(* two mtimes are equal.                                                   *)
(***************************************************************************)
EXTENDS Naturals, Sequences, FiniteSets, SequencesExt, FiniteSetsExt

CONSTANTS
  MaxFileSize, MaxTotalSize, MaxFileCount,   \* RollingLogWriterOptions
  WriteSizes,   \* sizes of a chunk that is logged
  MaxUnits,     \* bound: units asked to be written
  MaxDay,       \* bound: dates
  MaxCrashes    \* bound: deaths of the writing process

ASSUME LogAssumption ==
  /\ MaxFileSize \in Nat \ {0} /\ MaxTotalSize \in Nat /\ MaxFileCount \in Nat
  /\ WriteSizes \subseteq Nat \ {0} /\ MaxUnits \in Nat /\ MaxDay \in Nat /\ MaxCrashes \in Nat

NoFile == <<>>        \* the writer treats an empty active file as none
End == 0              \* the job of end(); the others are the sizes of what they write

VARIABLES
  active,    \* units in dir/basename
  archives,  \* archive name -> units
  day,       \* today's date
  queue,     \* the writer's promise chain: its jobs, the first one running
  pc,        \* where the first job is
  stream,    \* is a stream open, and how large does the writer take the file to be
  disk,      \* history: number of units that have reached the disk
  settled,   \* history: did the last rotation come to the end of its retention
  asked,     \* units asked to be written
  crashes,
  tail       \* the follower: where it is, its position, the size it measured and of which
             \* file; history: the last unit it printed, of which file, and was that file
             \* the one it had measured (steady)

writerVars == <<active, archives, day, queue, pc, stream, disk, settled, asked, crashes>>
logVars == <<writerVars, tail>>

Closed == [open |-> FALSE, size |-> 0]
Units(from, n) == [i \in 1..n |-> from + i]

-----------------------------------------------------------------------------
(* Archives *)

TotalSize(files) == MapThenSumSet(LAMBDA n : Len(files[n]), DOMAIN files)
WithinLimits(files) == TotalSize(files) <= MaxTotalSize /\ Cardinality(DOMAIN files) <= MaxFileCount

\* The first of collectRelatedFiles, which sorts by mtime.
Oldest(files, n) == \A m \in DOMAIN files : Last(files[n]) <= Last(files[m])
WithFile(files, name, f) == [n \in DOMAIN files \union {name} |-> IF n = name THEN f ELSE files[n]]

\* Mutant: the name of the day, taken or not.
AllocateTaken(files, d) == [day |-> d, index |-> 0]

\* name-date, or the first name-date-index that is free.
AllocateArchive(files, d) ==
  CHOOSE n \in [day : {d}, index : 0..Cardinality(DOMAIN files)] :
    /\ n \notin DOMAIN files
    /\ \A i \in 0..(n.index - 1) : [day |-> d, index |-> i] \in DOMAIN files

-----------------------------------------------------------------------------
(* RollingLogWriter *)

Write(size) ==
  /\ asked + size <= MaxUnits
  /\ queue' = Append(queue, size)
  /\ asked' = asked + size
  /\ UNCHANGED <<active, archives, day, pc, stream, disk, settled, crashes, tail>>

\* Mutant: what a file already holds is not counted when it is opened.
OpenedAsEmpty(s) == IF s.open THEN s ELSE [open |-> TRUE, size |-> 0]

\* openStreamFresh unless there is a stream
Opened(s) == IF s.open THEN s ELSE [open |-> TRUE, size |-> Len(active)]

\* ensureStreamAndMaybeRotate up to its await: the stream to rotate is being closed, or
\* the chunk is handed to the stream.
StartWrite ==
  /\ pc = "idle" /\ queue # <<>> /\ Head(queue) # End
  /\ IF Opened(stream).size >= MaxFileSize
       THEN pc' = "rotating" /\ stream' = Closed
       ELSE pc' = "writing" /\ stream' = Opened(stream)
  /\ UNCHANGED <<active, archives, day, queue, disk, settled, asked, crashes, tail>>

\* rotate, once the stream is closed: the active file becomes an archive.
Rename ==
  /\ pc = "rotating" /\ pc' = "retaining"
  /\ archives' = IF active = NoFile THEN archives
                 ELSE WithFile(archives, AllocateArchive(archives, day), active)
  /\ active' = NoFile /\ settled' = FALSE
  /\ UNCHANGED <<day, queue, stream, disk, asked, crashes, tail>>

\* enforceRetention, one round: there is no active file now, so it is not counted.
DropOldest ==
  /\ pc = "retaining" /\ ~WithinLimits(archives)
  /\ \E n \in DOMAIN archives :
       /\ Oldest(archives, n)
       /\ archives' = Restrict(archives, DOMAIN archives \ {n})
  /\ UNCHANGED <<active, day, queue, pc, stream, disk, settled, asked, crashes, tail>>

\* The rest of rotate, and the chunk is handed to the new stream.
Reopen ==
  /\ pc = "retaining" /\ (WithinLimits(archives) \/ DOMAIN archives = {})
  /\ pc' = "writing" /\ settled' = TRUE
  /\ stream' = [open |-> TRUE, size |-> 0]
  /\ UNCHANGED <<active, archives, day, queue, disk, asked, crashes, tail>>

\* The chunk is in the file and the callback of write is called.
Flushed ==
  /\ pc = "writing"
  /\ active' = active \o Units(disk, Head(queue))
  /\ disk' = disk + Head(queue)
  /\ stream' = [stream EXCEPT !.size = @ + Head(queue)]
  /\ queue' = Tail(queue)
  /\ pc' = "idle"
  /\ UNCHANGED <<archives, day, settled, asked, crashes, tail>>

\* end(): finish what is queued and close; a later write opens the file again.
CloseStream ==
  /\ End \notin ToSet(queue) /\ stream.open
  /\ queue' = Append(queue, End)
  /\ UNCHANGED <<active, archives, day, pc, stream, disk, settled, asked, crashes, tail>>

\* Mutant: the job of end() never leaves the chain.
FinishEndStuck ==
  /\ pc = "idle" /\ queue # <<>> /\ Head(queue) = End
  /\ stream.open
  /\ stream' = Closed
  /\ UNCHANGED <<active, archives, day, queue, pc, disk, settled, asked, crashes, tail>>

FinishEnd ==
  /\ pc = "idle" /\ queue # <<>> /\ Head(queue) = End
  /\ stream' = Closed
  /\ queue' = Tail(queue)
  /\ UNCHANGED <<active, archives, day, pc, disk, settled, asked, crashes, tail>>

\* The process dies, perhaps in the middle of a write: part of the chunk may be on disk.
Crash ==
  /\ crashes < MaxCrashes
  /\ crashes' = crashes + 1
  /\ \E n \in 0..(IF pc = "writing" THEN Head(queue) ELSE 0) :
       /\ active' = active \o Units(disk, n)
       /\ disk' = disk + n
  /\ queue' = <<>> /\ pc' = "idle" /\ stream' = Closed
  /\ UNCHANGED <<archives, day, settled, asked, tail>>

NextDay ==
  /\ day < MaxDay
  /\ day' = day + 1
  /\ UNCHANGED <<active, archives, queue, pc, stream, disk, settled, asked, crashes, tail>>

-----------------------------------------------------------------------------
(* tailPathFollowingFs: the size is taken from the path, then the path is   *)
(* opened again, and whatever file is there is read as far as that size.    *)
(* The file that was opened stays the same whatever happens to its name,    *)
(* and only grows: opening and reading it are one step.                     *)

\* createWriteStream makes the file before a unit is in it, and a death may leave it so.
EmptyFile == active = NoFile /\ (pc = "writing" \/ (pc # "retaining" /\ crashes > 0))
FileThere == active # NoFile \/ EmptyFile
FirstUnit == IF active = NoFile THEN 0 ELSE active[1]     \* tells one file from another

FollowerStep(t) == tail' = t /\ UNCHANGED writerVars
Following(position) == [tail EXCEPT !.pc = "follow", !.position = position, !.size = 0, !.measured = 0]
Measuring(doing, from) ==
  [tail EXCEPT !.pc = doing, !.position = from, !.size = Len(active), !.measured = FirstUnit]

\* waitForLogFile
TailFound == tail.pc = "wait" /\ FileThere /\ FollowerStep([tail EXCEPT !.pc = "found"])

\* Phase 1 begins: the size of the file, or statSync throws as it is gone again.
TailFirstStat ==
  /\ tail.pc = "found"
  /\ \/ active # NoFile /\ FollowerStep(Measuring("first", 0))
     \/ EmptyFile /\ FollowerStep(Following(0))
     \/ active = NoFile /\ FollowerStep([tail EXCEPT !.pc = "failed"])

\* Only a file that is shorter than before counts as another one, and is read from its start.
ReadFrom == IF Len(active) < tail.position THEN 0 ELSE tail.position

\* readNew, at a watch event or each second, up to statSync.
TailStat ==
  /\ tail.pc = "follow" /\ FileThere
  /\ FollowerStep(IF Len(active) > ReadFrom THEN Measuring("read", ReadFrom) ELSE Following(ReadFrom))

\* readSync: what is in the file now, perhaps less than was measured; the rest of the
\* buffer, NUL bytes, is printed with it.
ReadNow == SubSeq(active, tail.position + 1, Min({tail.size, Len(active)}))

\* Mutant: the position is that of the last unit read, not the next one.
TailAtLast ==
  [Following(tail.size - 1) EXCEPT
     !.last = IF ReadNow = <<>> THEN @ ELSE Last(ReadNow),
     !.file = FirstUnit, !.steady = FirstUnit = tail.measured]

\* What is remembered of a read: the position is the size that was measured.
TailAt ==
  [Following(tail.size) EXCEPT
     !.last = IF ReadNow = <<>> THEN @ ELSE Last(ReadNow),
     !.file = FirstUnit, !.steady = FirstUnit = tail.measured]

TailRead == tail.pc \in {"first", "read"} /\ FileThere /\ FollowerStep(TailAt)

\* openSync throws: in phase 1 this is the end, readNew tries again.
TailOpenFails ==
  /\ tail.pc \in {"first", "read"} /\ active = NoFile
  /\ FollowerStep(IF tail.pc = "read" THEN Following(tail.position) ELSE [tail EXCEPT !.pc = "failed"])

-----------------------------------------------------------------------------
LogInit ==
  /\ active = NoFile /\ archives = <<>> /\ day = 0
  /\ queue = <<>> /\ pc = "idle" /\ stream = Closed
  /\ disk = 0 /\ settled = TRUE /\ asked = 0 /\ crashes = 0
  /\ tail = [pc |-> "wait", position |-> 0, size |-> 0, measured |-> 0,
             last |-> 0, file |-> 0, steady |-> TRUE]

WriterStep == StartWrite \/ Rename \/ DropOldest \/ Reopen \/ Flushed \/ FinishEnd

LogNext ==
  \/ \E size \in WriteSizes : Write(size)
  \/ CloseStream \/ WriterStep \/ Crash \/ NextDay
  \/ TailFound \/ TailFirstStat \/ TailStat \/ TailRead \/ TailOpenFails

\* Promises settle and streams flush as long as the process lives.
LogFairness == WF_logVars(WriterStep)

LogSpec == LogInit /\ [][LogNext]_logVars /\ LogFairness

-----------------------------------------------------------------------------
(* Properties *)

Kept == UNION ({ToSet(archives[n]) : n \in DOMAIN archives} \union {ToSet(active)})

\* The files together hold the last units that reached the disk, each once and without a
\* gap, and each file the units from its first one on: no archive is overwritten, retention
\* drops the oldest, and rotation and reopening after a death lose nothing.
KeptIsSuffix ==
  /\ active = Units(disk - Len(active), Len(active))
  /\ \A n \in DOMAIN archives :
       /\ archives[n] # <<>> /\ archives[n] = Units(archives[n][1] - 1, Len(archives[n]))
       /\ ToSet(archives[n]) \intersect ToSet(active) = {}
       /\ \A m \in DOMAIN archives \ {n} : ToSet(archives[n]) \intersect ToSet(archives[m]) = {}
  /\ \A u \in Kept : u \in 1..disk /\ u..disk \subseteq Kept

\* maxFileSize: a file is full with the chunk that reaches the limit, across deaths too; a
\* chunk is never split, so the file may exceed the limit by less than that chunk.
\* maxTotalSize and maxFileCount (utils/write/types.ts) hold for the archives once a file
\* is open again; the active file, which types.ts includes, comes on top of both.  A
\* death in the middle of retention leaves one file more, until the next rotation.
ArchivesInLimits ==
  /\ \A f \in {active} \union {archives[n] : n \in DOMAIN archives} :
       f = <<>> \/ \E size \in WriteSizes : Len(f) < MaxFileSize + size
  /\ settled => WithinLimits(archives)
  /\ Cardinality(DOMAIN archives) <= MaxFileCount + crashes + (IF pc = "retaining" THEN 1 ELSE 0)

\* The follower prints units in order and none twice, and as long as the file is not
\* rotated none is missed and no NUL byte printed.  Across a rotation it misses what the old
\* file got last, and the beginning of a new file that has grown to its position before it
\* looks.  A rotation between measuring and reading does more: NUL bytes for what the new
\* file does not have yet, and afterwards the position is that of the old file, so that the
\* read that follows may print units again; this one read is excepted.
TailInOrder ==
  [][tail.pc \in {"first", "read"} /\ tail'.pc = "follow" /\ active # NoFile =>
       LET from == active[tail.position + 1]
       IN /\ active[1] = tail.measured => tail.size <= Len(active)
          /\ tail.steady /\ ReadNow # <<>> => from > tail.last
          /\ tail.steady /\ active[1] = tail.file => from = tail.last + 1]_logVars

\* Every chunk is written and end() returns, unless the process dies: the chain gets empty.
QueueDrains == (queue # <<>>) ~> (queue = <<>>)
=============================================================================
