---------------------------- MODULE RollingSnapshot ----------------------------
(***************************************************************************)
(* What the process manager knows of a process is a file that is written   *)
(* anew with every change (utils/write/snapshot.ts): the file there is     *)
(* gets a dated name first, the oldest of these are to be removed when     *)
(* there are too many.  A save may fail and the writing process may die    *)
(* between any two steps; a new one goes on with the files it finds.       *)
(*                                                                         *)
(* Snapshots are numbered as they are saved, which is also the order of    *)
(* their files' mtimes: renaming a file keeps it.                          *)
(***************************************************************************)
EXTENDS Naturals, FiniteSets, FiniteSetsExt

CONSTANTS
  MaxSnapshots,       \* RollingSnapshotWriterOptions.maxFileCount
  MaxSaves,           \* bound on saves
  MaxInstants,        \* bound on the clock, which may stand still
  NoSnapshot

ASSUME SnapshotAssumption ==
  /\ MaxSnapshots \in Nat \ {0} /\ MaxSaves \in Nat /\ MaxInstants \in Nat
  /\ NoSnapshot \notin [number : Nat, whole : BOOLEAN]

\* What a rolled file is named after, and what is taken for one.
RollTimestampFmt == "-yyyy-MM-dd-hh-mm-ss.SSS"
ArchiveNamePattern == "yyyy-MM-dd-hh-mm-ss"

VARIABLES
  latest,     \* dir/basename: [number, whole], or NoSnapshot
  rolled,     \* name -> snapshot, for the files renamed
  jobs,       \* the numbers of the saves in the chain
  saving,     \* where the first of them is: "idle", "rolled", "opened", "written"
  called,     \* saves so far
  confirmed,  \* history: the last save whose callback had no error, or 0
  instant     \* the time of day

snapshotVars == <<latest, rolled, jobs, saving, called, confirmed, instant>>

RolledNames == [format : {RollTimestampFmt}, instant : 0..MaxInstants, index : 0..MaxSaves]

-----------------------------------------------------------------------------
\* Mutant: a name that is taken is used again.
AllocateArchivePathTaken == [format |-> RollTimestampFmt, instant |-> instant, index |-> 0]

\* name-date, or the first name-date-index that is free.
AllocateArchivePath ==
  CHOOSE n \in RolledNames :
    /\ n.instant = instant /\ n \notin DOMAIN rolled
    /\ \A i \in 0..n.index - 1 : [n EXCEPT !.index = i] \in DOMAIN rolled

(* collectRelatedFiles, but for the file that is never removed.            *)
Related == {n \in DOMAIN rolled : n.format = ArchiveNamePattern}

(* enforceRetention, with the file just written: the youngest that fit     *)
(* beside it stay.                                                         *)
Retained ==
  {n \in DOMAIN rolled : n \in Related =>
     Cardinality({m \in Related : rolled[m].number > rolled[n].number}) < MaxSnapshots - 1}

-----------------------------------------------------------------------------
(* save: a job at the end of the chain.                                    *)
CallSave ==
  /\ called < MaxSaves
  /\ called' = called + 1
  /\ jobs' = jobs \cup {called + 1}
  /\ UNCHANGED <<latest, rolled, saving, confirmed, instant>>

(* rollExistingActiveFileIfAny, up to the await of writeFile.              *)
RollExisting ==
  /\ saving = "idle" /\ jobs # {}
  /\ saving' = "rolled"
  /\ latest' = NoSnapshot
  /\ LET name == AllocateArchivePath IN
       rolled' = IF latest = NoSnapshot THEN rolled
                 ELSE [n \in DOMAIN rolled \cup {name} |-> IF n = name THEN latest ELSE rolled[n]]
  /\ UNCHANGED <<jobs, called, confirmed, instant>>

(* writeFile has opened the file.                                          *)
OpenFile ==
  /\ saving = "rolled"
  /\ saving' = "opened"
  /\ latest' = [number |-> Min(jobs), whole |-> FALSE]
  /\ UNCHANGED <<rolled, jobs, called, confirmed, instant>>

(* It has written the snapshot.                                            *)
WriteFile ==
  /\ saving = "opened"
  /\ saving' = "written"
  /\ latest' = [latest EXCEPT !.whole = TRUE]
  /\ UNCHANGED <<rolled, jobs, called, confirmed, instant>>

(* Old files go, and the callback is called.                               *)
SaveDone ==
  /\ saving = "written"
  /\ rolled' = [n \in Retained |-> rolled[n]]
  /\ confirmed' = latest.number
  /\ jobs' = jobs \ {latest.number}
  /\ saving' = "idle"
  /\ UNCHANGED <<latest, called, instant>>

(* It could not open the file, or write all of it: the next save goes on.  *)
SaveFails ==
  /\ saving \in {"rolled", "opened"}
  /\ jobs' = jobs \ {Min(jobs)}
  /\ saving' = "idle"
  /\ UNCHANGED <<latest, rolled, called, confirmed, instant>>

(* The writing process dies, and with it its chain.                        *)
WriterDies ==
  /\ jobs # {}
  /\ jobs' = {}
  /\ saving' = "idle"
  /\ UNCHANGED <<latest, rolled, called, confirmed, instant>>

ClockTicks ==
  /\ instant < MaxInstants
  /\ instant' = instant + 1
  /\ UNCHANGED <<latest, rolled, jobs, saving, called, confirmed>>

SnapshotInit ==
  /\ latest = NoSnapshot /\ rolled = <<>>
  /\ jobs = {} /\ saving = "idle" /\ called = 0 /\ confirmed = 0 /\ instant = 0

SnapshotNext ==
  CallSave \/ RollExisting \/ OpenFile \/ WriteFile \/ SaveDone \/ SaveFails
    \/ WriterDies \/ ClockTicks

SnapshotSpec == SnapshotInit /\ [][SnapshotNext]_snapshotVars

-----------------------------------------------------------------------------
(* Whenever the writer fails or dies, the last snapshot it has confirmed,  *)
(* or a later one, is whole in some file, even when saves follow one       *)
(* another within a millisecond (snapshot.ts:55-70, 132-155).              *)
LastSaveKept ==
  confirmed > 0 =>
    \E s \in {latest} \cup {rolled[n] : n \in DOMAIN rolled} :
      s # NoSnapshot /\ s.whole /\ s.number >= confirmed

(* snapshot.ts:23-24 "When the number of related files exceeds `maxFileCount`, *)
(* the oldest files (by mtime) are removed", looked at when a save is done. *)
RetainedAtMost ==
  [][confirmed' # confirmed =>
       Cardinality(DOMAIN rolled') + 1 <= MaxSnapshots]_snapshotVars
=============================================================================
