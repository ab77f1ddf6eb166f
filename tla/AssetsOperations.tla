--------------------------- MODULE AssetsOperations ---------------------------
(***************************************************************************)
(* The operations on the files of one directory                            *)
(* (assets-management/operation/assets-operation.ts, assets-dedupe.ts):    *)
(* add, copy, move, delete and dedupe change the disk first and record the *)
(* change in the meta after, file by file; the process may stop between    *)
(* any two of these steps, and an operation may throw in the middle.  They *)
(* share the directory with AssetsBackup and AssetsPull.                   *)
(*                                                                         *)
(* Names with a short id are not among Paths.                              *)
(***************************************************************************)
EXTENDS AssetsPull

CONSTANTS
  Basename,     \* the file name of a path
  MaxCommands   \* bound on operations

VARIABLES
  op,       \* the operation: [kind, overwrite, to, content]; content of a file to add, by path
  bin,      \* dir4DeletedFile: contents by sha1 and file name
  saved,    \* shas of which a copy has been put there by this dedupe
  held,     \* history: contents on disk when the operation began
  commands

opVars == <<op, bin, saved, held, commands>>

NoMap == [p \in Paths |-> None]
Bins == Contents \X {Basename[p] : p \in Paths}

(* The pairs of collectInternalTransferPairs: one file, or the files of a  *)
(* directory that keep their names under another one, be it the same, one  *)
(* beside it or one in it.                                                 *)
Transfers ==
  LET from(f) == {p \in Paths : f[p] # None}
      to(f) == {f[p] : p \in from(f)}
  IN {f \in [Paths -> Paths \cup {None}] :
        /\ \A p, q \in from(f) : f[p] = f[q] => p = q
        /\ \/ \A p \in from(f) : f[p] = p
           \/ to(f) # from(f) /\ \A p \in from(f) : f[p] # p}

Sources(f) == {p \in Paths : f[p] # None}
ContentsOf(d) == {d[p] : p \in Paths} \ {None}

CanBegin == pc = "idle" /\ commands < MaxCommands

Begin(kind, ow, to, c, first, S) ==
  /\ CanBegin
  /\ commands' = commands + 1
  /\ op' = [kind |-> kind, overwrite |-> ow, to |-> to, content |-> c]
  /\ held' = ContentsOf(disk)
  /\ saved' = {}
  /\ command' = "operation" /\ accurate' = (meta = disk)
  /\ pc' = first /\ todo' = S /\ outcome' = "none"
  /\ UNCHANGED <<diffVars, sourceDisk, disk, meta, stamped, current, boundVars, pullVars, bin>>

(* copyAsset, moveAsset: every source is a file that is there.             *)
BeginTransfer(kind, ow, f) ==
  /\ Sources(f) # {} /\ Sources(f) \subseteq OnDisk(disk)
  /\ Begin(kind, ow, f, NoMap, "assert", Sources(f))

(* addAssets with a file from outside and a target path: not twice the     *)
(* same sha1, and never over another file.                                 *)
BeginAdd(p, c) ==
  /\ disk[p] = None
  /\ Begin("add", FALSE, [NoMap EXCEPT ![p] = p], [NoMap EXCEPT ![p] = c],
           IF \E q \in Paths : meta[q] = c THEN "done" ELSE "act", {p})

(* addAssets with a folder from outside: of each sha1 the meta lacks, one  *)
(* file, which keeps its name whatever target was given.  (One whose name  *)
(* is taken would get its short id in it.)                                 *)
NewFiles(f) ==
  \A p \in Sources(f) :
    /\ f[p] \notin ContentsOf(meta)
    /\ \A q \in Sources(f) : f[p] = f[q] => p = q

BeginImport(f) ==
  /\ NewFiles(f) /\ \A p \in Sources(f) : disk[p] = None
  /\ Begin("add", FALSE, [p \in Paths |-> IF f[p] = None THEN None ELSE p], f,
           IF Sources(f) = {} THEN "done" ELSE "act", Sources(f))

(* deleteAsset: a file or the files of a directory.                        *)
BeginDelete(S) ==
  /\ S # {} /\ S \subseteq OnDisk(disk)
  /\ Begin("delete", FALSE, NoMap, NoMap, "remove", S)

(* handleAssetsDedupe: of the items with one sha1 the user keeps one, or   *)
(* none.                                                                   *)
Duplicates == {p \in Paths : meta[p] # None /\ \E q \in Paths \ {p} : meta[q] = meta[p]}

BeginDedupe(keep) ==
  /\ Duplicates # {} /\ keep \subseteq Duplicates
  /\ \A p, q \in keep : p # q => meta[p] # meta[q]
  /\ Begin("dedupe", FALSE, NoMap, NoMap, "remove", Duplicates \ keep)

EndOp(o) ==
  /\ End(o)
  /\ UNCHANGED <<diffVars, sourceDisk, disk, meta, stamped, startVars, boundVars, pullVars, opVars>>

To(p) == op.to[p]

-----------------------------------------------------------------------------
\* Mutant: a target that exists is removed whatever was asked for.
AssertTargetNever(p) ==
  /\ pc = "assert" /\ p \in todo
  /\ disk' = [disk EXCEPT ![To(p)] = None]
  /\ stamped' = stamped \ {To(p)}
  /\ pc' = "check" /\ current' = p /\ todo' = todo \ {p}
  /\ UNCHANGED <<diffVars, sourceDisk, meta, outcome, startVars, boundVars, pullVars, opVars>>

(* assertTargetAvailable: a target that exists is removed first, if asked  *)
(* for.                                                                    *)
AssertTarget(p) ==
  /\ pc = "assert" /\ p \in todo
  /\ IF disk[To(p)] # None /\ ~op.overwrite
     THEN EndOp("failed")
     ELSE /\ disk' = [disk EXCEPT ![To(p)] = None]
          /\ stamped' = stamped \ {To(p)}
          /\ pc' = "check" /\ current' = p /\ todo' = todo \ {p}
          /\ UNCHANGED <<diffVars, sourceDisk, meta, outcome, startVars, boundVars, pullVars, opVars>>

(* checkInternalAssetInfo: an item for a file with another date or size is *)
(* renewed from the file.                                                  *)
CheckSource ==
  /\ pc = "check"
  /\ IF meta[current] = None \/ disk[current] = None
     THEN EndOp("failed")
     ELSE /\ meta' = IF Outdated(current) THEN [meta EXCEPT ![current] = FullInfo(current)] ELSE meta
          /\ stamped' = stamped \cup {current}
          /\ pc' = "act"
          /\ UNCHANGED <<diffVars, sourceDisk, disk, todo, current, outcome,
                         startVars, boundVars, pullVars, opVars>>

(* doAddAction, doMoveAction on the disk.                                  *)
TransferFile ==
  /\ pc = "act" /\ op.kind \in {"copy", "move"}
  /\ IF To(current) = current
     THEN pc' = "next" /\ UNCHANGED <<disk, stamped>>
     ELSE /\ disk' = [disk EXCEPT ![To(current)] = disk[current],
                                  ![current] = IF op.kind = "move" THEN None ELSE @]
          /\ stamped' = stamped \ ({To(current)} \cup IF op.kind = "move" THEN {current} ELSE {})
          /\ pc' = "record"
  /\ UNCHANGED <<diffVars, sourceDisk, meta, todo, current, outcome, startVars, boundVars, pullVars, opVars>>

AddAsset(p) ==
  /\ pc = "act" /\ op.kind = "add" /\ p \in todo
  /\ disk' = [disk EXCEPT ![p] = op.content[p]]
  /\ pc' = "record" /\ current' = p /\ todo' = todo \ {p}
  /\ UNCHANGED <<diffVars, sourceDisk, meta, stamped, outcome, startVars, boundVars, pullVars, opVars>>

\* Mutant: the item of a file moved away stays.
ForgetNothing ==
  /\ pc = "forget"
  /\ pc' = "next"
  /\ UNCHANGED <<diffVars, sourceDisk, disk, meta, stamped, todo, current, outcome,
                 startVars, boundVars, pullVars, opVars>>

(* createItem for the target, then removeItem for a source that moved.     *)
RecordTarget ==
  /\ pc = "record"
  /\ meta' = [meta EXCEPT ![To(current)] = IF op.kind = "add" THEN op.content[current] ELSE meta[current]]
  /\ stamped' = stamped \cup {To(current)}
  /\ pc' = IF op.kind = "move" THEN "forget" ELSE "next"
  /\ UNCHANGED <<diffVars, sourceDisk, disk, todo, current, outcome, startVars, boundVars, pullVars, opVars>>

ForgetSource ==
  /\ pc = "forget"
  /\ meta' = [meta EXCEPT ![current] = None]
  /\ pc' = "next"
  /\ UNCHANGED <<diffVars, sourceDisk, disk, stamped, todo, current, outcome,
                 startVars, boundVars, pullVars, opVars>>

NextFile ==
  /\ \/ pc = "next"
     \/ pc = "done"                            \* an added file that is known already
  /\ IF pc = "next" /\ todo # {}
     THEN /\ pc' = IF op.kind = "add" THEN "act" ELSE "assert"
          /\ current' = None
          /\ UNCHANGED <<diffVars, sourceDisk, disk, meta, stamped, todo, outcome,
                         startVars, boundVars, pullVars, opVars>>
     ELSE EndOp("done")

(* A file is removed; a dedupe moves the first of each sha1 away instead.  *)
KeepInBin(p) ==
  IF op.kind = "dedupe" /\ meta[p] \notin saved
  THEN bin' = [bin EXCEPT ![<<meta[p], Basename[p]>>] = disk[p]] /\ saved' = saved \cup {meta[p]}
  ELSE UNCHANGED <<bin, saved>>

RemoveFile(p) ==
  /\ pc = "remove" /\ p \in todo
  /\ IF disk[p] = None
     THEN EndOp("failed")
     ELSE /\ disk' = [disk EXCEPT ![p] = None]
          /\ stamped' = stamped \ {p}
          /\ todo' = todo \ {p}
          /\ op' = [op EXCEPT !.to = [@ EXCEPT ![p] = p]]
          /\ KeepInBin(p)
          /\ UNCHANGED <<diffVars, sourceDisk, meta, pc, current, outcome, held, commands,
                         startVars, boundVars, pullVars>>

(* removeItems, one after the other.                                       *)
RemoveItems ==
  /\ pc = "remove" /\ todo = {}
  /\ pc' = "unlist" /\ todo' = Sources(op.to)
  /\ UNCHANGED <<diffVars, sourceDisk, disk, meta, stamped, current, outcome,
                 startVars, boundVars, pullVars, opVars>>

RemoveItem(p) ==
  /\ pc = "unlist" /\ p \in todo
  /\ meta' = [meta EXCEPT ![p] = None]
  /\ todo' = todo \ {p}
  /\ UNCHANGED <<diffVars, sourceDisk, disk, stamped, pc, current, outcome,
                 startVars, boundVars, pullVars, opVars>>

ItemsRemoved == pc = "unlist" /\ todo = {} /\ EndOp("done")

-----------------------------------------------------------------------------
OpInit ==
  /\ PullInit
  /\ op = [kind |-> "none", overwrite |-> FALSE, to |-> NoMap, content |-> NoMap]
  /\ bin = [b \in Bins |-> None] /\ saved = {} /\ held = {} /\ commands = 0

OpNext ==
  \/ /\ CanBegin
     /\ \/ \E f \in Transfers, kind \in {"copy", "move"}, ow \in BOOLEAN : BeginTransfer(kind, ow, f)
        \/ \E p \in Paths, c \in Contents : BeginAdd(p, c)
        \/ \E f \in [Paths -> Contents \cup {None}] : BeginImport(f)
        \/ \E S \in SUBSET Paths : BeginDelete(S) \/ BeginDedupe(S)
  \/ CheckSource \/ TransferFile \/ RecordTarget \/ ForgetSource \/ NextFile
  \/ RemoveItems \/ ItemsRemoved
  \/ \E p \in Paths : AssertTarget(p) \/ AddAsset(p) \/ RemoveFile(p) \/ RemoveItem(p)

(* Bound: the commands of a behaviour are of one kind, as they meet in the *)
(* directory and its meta only, which a behaviour begins with in any state;*)
(* an operation does not look at the source.                               *)
OneKind ==
  /\ command \in {"none", command'}
  /\ command' = "operation" => sourceDisk' = NoMap

(* Every command on the directory; one process runs them one at a time.    *)
CommandsNext ==
  /\ \/ Next /\ UNCHANGED <<pullVars, opVars>>
     \/ PullNext /\ UNCHANGED opVars
     \/ OpNext
  /\ OneKind

CommandsSpec == OpInit /\ [][CommandsNext]_<<vars, pullVars, opVars>>

-----------------------------------------------------------------------------
(* An operation that finds the meta accurate and ends well leaves it       *)
(* accurate, whichever files of a directory are sources and targets of one *)
(* another.                                                                *)
OperationEndsRight ==
  command = "operation" /\ accurate /\ outcome = "done" => meta = disk

(* Only what is asked to be deleted or overwritten can be lost: at every   *)
(* step of a copy, a move, an addition or a dedupe, also when it throws or *)
(* the process stops there, each content the directory held is still in it *)
(* or in the folder for deleted files (as long as the meta told the truth  *)
(* when it began: a stale one makes a dedupe remove different files).      *)
NothingLost ==
  command = "operation" /\ accurate /\ op.kind # "delete" /\ ~op.overwrite
    /\ (pc # "idle" \/ outcome # "none")
  => held \subseteq ContentsOf(disk) \cup {bin[b] : b \in Bins}
=============================================================================
