----------------------------- MODULE AssetsBackup -----------------------------
(***************************************************************************)
(* backupAssets (assets-management/operation/assets-backup.ts): the files  *)
(* of a source directory are reproduced in a target directory of the same  *)
(* machine, along a diff of the two metas, and each change is recorded in  *)
(* the target's meta.  The process may stop at any step; the target may be *)
(* edited, and its meta aligned with its disk (updateMetaHandlerMeta, as   *)
(* the callers do first) between two backups.                              *)
(*                                                                         *)
(* `stamped' are the meta items whose date and size are those of the file  *)
(* on disk, which the alignment trusts without reading the file.           *)
(***************************************************************************)
EXTENDS AssetDiff

CONSTANT MaxUpsets  \* bound on edits of files between commands and stops in them

ASSUME BoundAssumption == MaxUpsets \in Nat

VARIABLES
  sourceDisk,  \* files of the source; its meta is kept aligned
  disk,        \* files of the target
  meta,        \* persisted meta of the target
  stamped,
  pc,          \* "idle", "diff" or the list being applied
  todo,        \* its entries not yet applied
  current,     \* the entry whose meta item is to be recorded, or None
  outcome,     \* "none", "done", "failed" or "stopped"
  command,     \* history: the command that ran last
  accurate,    \* history: it started from a meta that matched disk
  upsets

backupVars == <<pc, todo, current, outcome>>
startVars == <<command, accurate>>
boundVars == <<upsets>>
vars == <<diffVars, sourceDisk, disk, meta, stamped, backupVars, startVars,
          boundVars>>

OnDisk(d) == {p \in Paths : d[p] # None}

NextPhase == [add |-> "copy", copy |-> "move", move |-> "delete",
              delete |-> "done"]

\* Mutant: the copied entries are left out.
ListOfNoCopied(phase) ==
  CASE phase = "add"    -> added
    [] phase = "copy"   -> modified
    [] phase = "move"   -> {p \in Paths : moved[p] # None}
    [] phase = "delete" -> deleted
    [] OTHER            -> {}

ListOf(phase) ==
  CASE phase = "add"    -> added
    [] phase = "copy"   -> {p \in Paths : copied[p] # None} \cup modified
    [] phase = "move"   -> {p \in Paths : moved[p] # None}
    [] phase = "delete" -> deleted
    [] OTHER            -> {}

\* `from' of an entry of [...copied, ...modified]: a modified file is its own.
CopiedFrom(p) == IF p \in modified THEN p ELSE copied[p]

End(o) == pc' = "idle" /\ outcome' = o /\ todo' = {} /\ current' = None

-----------------------------------------------------------------------------
(* diffAssets on an item and the stat of its file: size or dates differ.   *)
Outdated(p) == p \notin stamped

(* getAssetInfo with reCalcId: the file is read for its sha1; None without *)
(* a file.                                                                 *)
FullInfo(p) == disk[p]

(* updateMetaHandlerMeta on the target. *)
Align ==
  /\ pc = "idle"
  /\ meta' = [p \in Paths |-> IF Outdated(p) THEN FullInfo(p) ELSE meta[p]]
  /\ stamped' = OnDisk(disk)
  /\ UNCHANGED <<diffVars, sourceDisk, disk, backupVars, startVars, boundVars>>

Start ==
  /\ pc = "idle"
  /\ BeginDiff(meta, sourceDisk)
  /\ accurate' = (meta = disk)
  /\ command' = "backup"
  /\ pc' = "diff"
  /\ outcome' = "none"
  /\ UNCHANGED <<sourceDisk, disk, meta, stamped, todo, current, boundVars>>

Diff ==
  /\ pc = "diff"
  /\ (\E p \in Paths : ScanPath(p)) \/ FinishDiff
  /\ UNCHANGED <<sourceDisk, disk, meta, stamped, backupVars, startVars, boundVars>>

(* Nothing to do: backupAssets returns; else the lists are applied.        *)
Confirm ==
  /\ pc = "diff" /\ command = "backup"
  /\ diffPhase = "ready"
  /\ IF NeedAction
     THEN pc' = "add" /\ todo' = added /\ UNCHANGED <<current, outcome>>
     ELSE End("done")
  /\ UNCHANGED <<diffVars, sourceDisk, disk, meta, stamped, startVars, boundVars>>

FinishPhase ==
  /\ pc \in DOMAIN NextPhase
  /\ todo = {} /\ current = None
  /\ IF NextPhase[pc] = "done"
     THEN End("done")
     ELSE /\ pc' = NextPhase[pc]
          /\ todo' = ListOf(NextPhase[pc])
          /\ UNCHANGED <<current, outcome>>
  /\ UNCHANGED <<diffVars, sourceDisk, disk, meta, stamped, startVars, boundVars>>

\* The file of entry p changes on disk; its meta item is still to be recorded.
ChangeDisk(p, d) ==
  /\ disk' = d
  /\ stamped' = {q \in stamped : d[q] = disk[q]} \ {p}
  /\ todo' = todo \ {p}
  /\ current' = p
  /\ UNCHANGED <<pc, outcome>>

\* A file to take is missing: the call throws, the backup ends.
Throw == End("failed") /\ UNCHANGED <<disk, stamped>>

Ready(phase, p) == pc = phase /\ current = None /\ p \in todo

AddFile(p) ==
  /\ Ready("add", p)
  /\ IF sourceDisk[p] = None
     THEN Throw
     ELSE ChangeDisk(p, [disk EXCEPT ![p] = sourceDisk[p]])
  /\ UNCHANGED <<diffVars, sourceDisk, meta, startVars, boundVars>>

(* Both paths are in the target directory: a modified file is copied onto  *)
(* itself, which changes nothing.                                          *)
CopyFile(p) ==
  /\ Ready("copy", p)
  /\ IF disk[CopiedFrom(p)] = None
     THEN Throw
     ELSE IF CopiedFrom(p) = p
     THEN /\ todo' = todo \ {p}
          /\ current' = p
          /\ UNCHANGED <<disk, stamped, pc, outcome>>
     ELSE ChangeDisk(p, [disk EXCEPT ![p] = disk[CopiedFrom(p)]])
  /\ UNCHANGED <<diffVars, sourceDisk, meta, startVars, boundVars>>

MoveFile(p) ==
  /\ Ready("move", p)
  /\ IF disk[moved[p]] = None
     THEN Throw
     ELSE ChangeDisk(p, [disk EXCEPT ![p] = disk[moved[p]], ![moved[p]] = None])
  /\ UNCHANGED <<diffVars, sourceDisk, meta, startVars, boundVars>>

DeleteFile(p) ==
  /\ Ready("delete", p)
  /\ IF disk[p] = None
     THEN Throw
     ELSE ChangeDisk(p, [disk EXCEPT ![p] = None])
  /\ UNCHANGED <<diffVars, sourceDisk, meta, startVars, boundVars>>

(* createItem and removeItem: the item gets the sha1 of the entry's `from' *)
(* and the date and size of the file now on disk.                          *)
\* Mutant: the item of a file moved away is kept.
RecordedMetaKeepsFrom(p) ==
  CASE pc = "add"    -> [meta EXCEPT ![p] = sourceMeta[p]]
    [] pc = "copy"   -> [meta EXCEPT ![p] = targetMeta[CopiedFrom(p)]]
    [] pc = "move"   -> [meta EXCEPT ![p] = targetMeta[moved[p]]]
    [] pc = "delete" -> [meta EXCEPT ![p] = None]

RecordedMeta(p) ==
  CASE pc = "add"    -> [meta EXCEPT ![p] = sourceMeta[p]]
    [] pc = "copy"   -> [meta EXCEPT ![p] = targetMeta[CopiedFrom(p)]]
    [] pc = "move"   -> [meta EXCEPT ![p] = targetMeta[moved[p]], ![moved[p]] = None]
    [] pc = "delete" -> [meta EXCEPT ![p] = None]

RecordedStamps(p) == IF pc = "delete" THEN stamped ELSE stamped \cup {p}

RecordMeta ==
  /\ pc \in DOMAIN NextPhase
  /\ current # None
  /\ meta' = RecordedMeta(current)
  /\ stamped' = RecordedStamps(current)
  /\ current' = None
  /\ UNCHANGED <<diffVars, sourceDisk, disk, pc, todo, outcome, startVars, boundVars>>

(* The process stops; the meta is on disk as it was last saved.            *)
Stop ==
  /\ pc # "idle"
  /\ upsets < MaxUpsets
  /\ upsets' = upsets + 1
  /\ End("stopped")
  /\ diffPhase' = "none"
  /\ UNCHANGED <<targetMeta, sourceMeta, rank, unscanned, added, copied, moved,
                 modified, deleted, sourceDisk, disk, meta, stamped, startVars>>

EditSource(p, c) ==
  /\ pc = "idle"
  /\ upsets < MaxUpsets
  /\ upsets' = upsets + 1
  /\ sourceDisk' = [sourceDisk EXCEPT ![p] = c]
  /\ outcome' = "none"
  /\ UNCHANGED <<diffVars, disk, meta, stamped, pc, todo, current, startVars>>

EditTarget(p, c) ==
  /\ pc = "idle"
  /\ upsets < MaxUpsets
  /\ upsets' = upsets + 1
  /\ disk' = [disk EXCEPT ![p] = c]
  /\ stamped' = stamped \ {p}
  /\ outcome' = "none"
  /\ UNCHANGED <<diffVars, sourceDisk, meta, pc, todo, current, startVars>>

Init ==
  /\ DiffInit
  /\ sourceDisk \in Metas
  /\ disk \in Metas
  /\ meta = disk
  /\ stamped = OnDisk(disk)
  /\ pc = "idle" /\ todo = {} /\ current = None /\ outcome = "none"
  /\ command = "none" /\ accurate = FALSE
  /\ upsets = 0

Next ==
  \/ Align \/ Start \/ Diff \/ Confirm \/ FinishPhase \/ RecordMeta \/ Stop
  \/ \E p \in Paths :
        \/ AddFile(p) \/ CopyFile(p) \/ MoveFile(p) \/ DeleteFile(p)
        \/ \E c \in Contents \cup {None} : EditSource(p, c) \/ EditTarget(p, c)

Spec == Init /\ [][Next]_vars

-----------------------------------------------------------------------------
(* A backup that finds the target's meta accurate never throws, as no entry *)
(* takes away the file a later one needs (copies come before moves,        *)
(* assets-backup.ts:110), and records what is on disk: no item is left     *)
(* with the sha1 of another content.                                       *)
AccurateBackupEndsRight ==
  accurate /\ command = "backup" =>
    /\ outcome # "failed"
    /\ (outcome = "done" => meta = disk)

(* When no common path differs, the target is then the source.  A file     *)
(* modified at the source is copied from the target onto itself            *)
(* (assets-backup.ts:111): the target keeps its old content, so the        *)
(* condition cannot be dropped.                                            *)
BackupReproducesSource ==
  accurate /\ command = "backup" /\ outcome = "done" /\ modified = {} => disk = sourceDisk
=============================================================================
