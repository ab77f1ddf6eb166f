-------------------------- MODULE AssetsLocalProofs --------------------------
(***************************************************************************)
(* What the commands on one directory do to it, proved for every set of    *)
(* paths and contents and any number of commands, edits and stops: the     *)
(* backup, the operations and the pull.                                    *)
(*                                                                         *)
(* The properties speak of the end, or of every step.  Before the end, the *)
(* files and the meta of a backup are those the diff was computed from     *)
(* with the entries applied so far: Effect says it for a set of entries,   *)
(* and the meta is one entry behind between the change of a file and the   *)
(* record of its item; of a pull PullEffect says the same, and of an       *)
(* operation OpProgress says in what one file the meta and the disk differ.*)
(*                                                                         *)
(* And the tree of the meta implements the map of AssetItems, for any      *)
(* files and directories: no insertion brings, and no deletion takes, the  *)
(* item of another file.                                                   *)
(***************************************************************************)
EXTENDS AssetsOperations, AssetTree, AssetDiffProofs

Phases == {"add", "copy", "move", "delete"}

\* The target with the entries of the paths in H applied.
Effect(H) ==
  [p \in Paths |->
     IF p \in H /\ p \in added THEN sourceMeta[p]
     ELSE IF p \in H /\ p \in ListOf("copy") THEN targetMeta[CopiedFrom(p)]
     ELSE IF p \in H /\ moved[p] # None THEN targetMeta[moved[p]]
     ELSE IF (p \in H /\ p \in deleted) \/ \E q \in Paths : q \in H /\ moved[q] = p THEN None
     ELSE targetMeta[p]]

\* The entries of the phases before this one.
Past ==
  CASE pc = "copy"   -> ListOf("add")
    [] pc = "move"   -> ListOf("add") \cup ListOf("copy")
    [] pc = "delete" -> ListOf("add") \cup ListOf("copy") \cup ListOf("move")
    [] OTHER         -> {}
Handled == Past \cup (ListOf(pc) \ todo)

BackupTypeOK ==
  /\ sourceDisk \in Metas /\ disk \in Metas /\ meta \in Metas
  /\ pc \in {"idle", "diff"} \cup Phases
  /\ outcome \in {"none", "done", "failed", "stopped"}
  /\ current \in Paths \cup {None}

BackupSession ==
  /\ pc # "idle" => sourceMeta = sourceDisk /\ outcome = "none" /\ command = "backup"
  /\ pc = "diff" => diffPhase \in {"scan", "ready"}
  /\ pc \in Phases => diffPhase = "ready" /\ todo \subseteq ListOf(pc)
  /\ current # None => pc \in Phases /\ current \in ListOf(pc) \ todo

BackupProgress ==
  accurate =>
    /\ pc = "diff" => disk = targetMeta /\ meta = targetMeta
    /\ pc \in Phases => disk = Effect(Handled) /\ meta = Effect(Handled \ {current})
    /\ outcome = "done" => meta = disk /\ (modified = {} => disk = sourceDisk)
    /\ outcome # "failed"

BackupInv == BackupTypeOK /\ DiffInv /\ BackupSession /\ BackupProgress

-----------------------------------------------------------------------------
(* A path has one entry at most, and what a list takes its content from is *)
(* the file of another path that the target has.                           *)
LEMMA EntriesApart ==
  ASSUME DiffInv, diffPhase = "ready", NEW p \in Paths
  PROVE  /\ p \in added => copied[p] = None /\ moved[p] = None /\ p \notin modified
         /\ copied[p] # None => moved[p] = None /\ p \notin modified /\ copied[p] \in Paths
                                /\ targetMeta[copied[p]] = sourceMeta[p]
         /\ p \in added \/ copied[p] # None \/ moved[p] # None => p \in PathOnlyInSource
         /\ p \in modified => p \in PathCommon /\ moved[p] = None
         /\ p \in deleted => p \in PathOnlyInTarget /\ \A q \in Paths : moved[q] # p
<1> USE NoneAssumption
<1>1. DiffTypeOK /\ ScanInv /\ ResultInv
  BY DEF DiffInv, DiffCore
<1>2. CASE p \in PathOnlyInSource
  <2>1. unscanned = {}
    BY <1>1 DEF ResultInv
  <2>2. IsAdded(p) \/ IsCopied(p) \/ IsMoved(p)
    BY <1>1, <1>2, <2>1 DEF ScanInv
  <2>3. p \notin PathCommon /\ p \notin PathOnlyInTarget
    BY <1>2 DEF PathOnlyInSource, PathCommon, PathOnlyInTarget
  <2>4. p \notin modified /\ p \notin deleted
    BY <1>1, <2>3 DEF ResultInv
  <2>q. QED BY <1>2, <2>2, <2>4 DEF IsAdded, IsCopied, IsMoved
<1>3. CASE p \notin PathOnlyInSource
  <2>1. InNoList(p)
    BY <1>1, <1>3 DEF ScanInv
  <2>2. p \in deleted => p \in PathOnlyInTarget /\ p \notin PathOfMovedInTarget
    BY <1>1 DEF ResultInv
  <2>3. p \in modified => p \in PathCommon
    BY <1>1 DEF ResultInv
  <2>q. QED BY <1>1, <1>3, <2>1, <2>2, <2>3 DEF InNoList, PathOfMovedInTarget
<1>q. QED BY <1>2, <1>3

(* An entry more changes what its list says, and nothing else.             *)
LEMMA EffectOfOne ==
  ASSUME DiffInv, diffPhase = "ready", NEW H, NEW p \in Paths
  PROVE  /\ p \in added => Effect(H \cup {p}) = [Effect(H) EXCEPT ![p] = sourceMeta[p]]
         /\ p \in ListOf("copy") =>
              Effect(H \cup {p}) = [Effect(H) EXCEPT ![p] = targetMeta[CopiedFrom(p)]]
         /\ moved[p] # None =>
              Effect(H \cup {p}) = [Effect(H) EXCEPT ![p] = targetMeta[moved[p]], ![moved[p]] = None]
         /\ p \in deleted => Effect(H \cup {p}) = [Effect(H) EXCEPT ![p] = None]
<1> USE NoneAssumption
<1>1. \A q \in Paths : p \notin PathOnlyInSource => p \notin added /\ moved[p] = None
  BY EntriesApart
<1>2. ListOf("copy") = {q \in Paths : copied[q] # None} \cup modified
  BY DEF ListOf
<1>3. CASE p \in added
  <2>1. moved[p] = None
    BY <1>3, EntriesApart
  <2>2. p \notin ListOf("copy") /\ p \notin deleted
    BY <1>2, <1>3, EntriesApart DEF PathOnlyInSource, PathOnlyInTarget
  <2>q. QED BY <1>3, <2>1, <2>2 DEF Effect
<1>4. CASE p \in ListOf("copy")
  <2>1. moved[p] = None /\ p \notin added /\ p \notin deleted
    BY <1>2, <1>4, EntriesApart DEF PathOnlyInSource, PathOnlyInTarget, PathCommon
  <2>q. QED BY <1>4, <2>1 DEF Effect
<1>5. CASE moved[p] # None
  <2>1. p \notin added /\ p \notin ListOf("copy") /\ p \notin deleted
    BY <1>2, <1>5, EntriesApart DEF PathOnlyInSource, PathOnlyInTarget, PathCommon
  <2>2. moved[p] \in PathOnlyInTarget /\ moved[p] \in Paths /\ p \in PathOnlyInSource
    BY <1>5, ListFacts, EntriesApart DEF PathOnlyInTarget
  <2>3. /\ moved[p] \notin added /\ moved[p] \notin ListOf("copy") /\ moved[moved[p]] = None
        /\ moved[p] # p
    BY <1>2, <2>2, EntriesApart DEF PathOnlyInSource, PathOnlyInTarget, PathCommon
  <2>q. QED BY <1>5, <2>1, <2>2, <2>3 DEF Effect
<1>6. CASE p \in deleted
  <2>1. moved[p] = None /\ p \notin added /\ p \notin ListOf("copy")
    BY <1>2, <1>6, EntriesApart DEF PathOnlyInSource, PathOnlyInTarget, PathCommon
  <2>q. QED BY <1>6, <2>1 DEF Effect
<1>q. QED BY <1>3, <1>4, <1>5, <1>6

LEMMA EffectOfNone ==
  ASSUME DiffInv
  PROVE  Effect({}) = targetMeta
BY DEF DiffInv, DiffTypeOK, Effect, Metas

(* The file an entry takes its content from is as the diff saw it.         *)
LEMMA SourcesThere ==
  ASSUME DiffInv, diffPhase = "ready", pc \in Phases, NEW p \in todo, todo \subseteq ListOf(pc)
  PROVE  /\ p \in Paths /\ p \notin Handled
         /\ pc = "add" => sourceMeta[p] # None
         /\ pc = "copy" => /\ CopiedFrom(p) \in Paths
                           /\ Effect(Handled)[CopiedFrom(p)] = targetMeta[CopiedFrom(p)]
                           /\ targetMeta[CopiedFrom(p)] # None
         /\ pc = "move" => /\ moved[p] \in Paths /\ moved[p] # None
                           /\ Effect(Handled)[moved[p]] = targetMeta[moved[p]]
                           /\ targetMeta[moved[p]] # None
         /\ pc = "delete" => Effect(Handled)[p] = targetMeta[p] /\ targetMeta[p] # None
<1> USE NoneAssumption
<1>1. /\ added \subseteq Paths /\ modified \subseteq Paths /\ deleted \subseteq Paths
      /\ p \in Paths
  BY DEF DiffInv, DiffTypeOK, ListOf, Phases
<1>2. CASE pc = "add"
  <2>1. Handled = added \ todo /\ p \in added
    BY <1>2 DEF Handled, Past, ListOf
  <2>2. sourceMeta[p] # None
    BY <2>1, ListFacts
  <2>q. QED BY <1>1, <1>2, <2>1, <2>2
<1>3. CASE pc = "copy"
  <2>1. /\ Handled = added \cup (ListOf("copy") \ todo)
        /\ p \in ListOf("copy") /\ ListOf("copy") = {q \in Paths : copied[q] # None} \cup modified
    BY <1>3 DEF Handled, Past, ListOf
  <2>2. p \notin Handled
    BY <1>1, <2>1, EntriesApart
  <2>3. CopiedFrom(p) \in Paths /\ targetMeta[CopiedFrom(p)] # None
    BY <1>1, <2>1, EntriesApart DEF CopiedFrom, PathOnlyInSource, PathCommon
  <2> DEFINE x == CopiedFrom(p)
  <2>4. x \notin added /\ copied[x] = None /\ moved[x] = None
    BY <2>3, EntriesApart DEF PathOnlyInSource
  <2>5. x \in ListOf("copy") => CopiedFrom(x) = x
    BY <2>1, <2>4 DEF CopiedFrom
  <2>6. \A q \in Paths : q \in Handled => moved[q] = None /\ q \notin deleted
    BY <2>1, EntriesApart DEF PathOnlyInSource, PathOnlyInTarget, PathCommon
  <2>7. Effect(Handled)[x] = targetMeta[x]
    BY <2>3, <2>4, <2>5, <2>6 DEF Effect
  <2>q. QED BY <1>1, <1>3, <2>2, <2>3, <2>7
<1>4. CASE pc = "move"
  <2>1. /\ Handled = (added \cup ListOf("copy")) \cup ({q \in Paths : moved[q] # None} \ todo)
        /\ moved[p] # None
        /\ ListOf("copy") = {q \in Paths : copied[q] # None} \cup modified
    BY <1>4 DEF Handled, Past, ListOf
  <2>2. p \notin Handled
    BY <1>1, <2>1, EntriesApart
  <2> DEFINE x == moved[p]
  <2>3. x \in PathOnlyInTarget /\ x \in Paths /\ targetMeta[x] # None
    BY <1>1, <2>1, ListFacts DEF PathOnlyInTarget
  <2>4. x \notin added /\ x \notin ListOf("copy") /\ moved[x] = None
    BY <2>1, <2>3, EntriesApart DEF PathOnlyInSource, PathOnlyInTarget, PathCommon
  <2>5. x \notin deleted
    BY <1>1, <2>3, EntriesApart
  <2>6. \A q \in Paths : moved[q] = x => q = p
    BY <1>1, <2>1 DEF DiffInv, DiffCore, ScanInv
  <2>7. Effect(Handled)[x] = targetMeta[x]
    BY <2>2, <2>3, <2>4, <2>5, <2>6 DEF Effect
  <2>q. QED BY <1>1, <1>4, <2>1, <2>2, <2>3, <2>7
<1>5. CASE pc = "delete"
  <2>1. /\ Handled = (added \cup ListOf("copy") \cup {q \in Paths : moved[q] # None}) \cup (deleted \ todo)
        /\ p \in deleted
        /\ ListOf("copy") = {q \in Paths : copied[q] # None} \cup modified
    BY <1>5 DEF Handled, Past, ListOf
  <2>2. p \in PathOnlyInTarget /\ targetMeta[p] # None /\ \A q \in Paths : moved[q] # p
    BY <1>1, <2>1, EntriesApart DEF PathOnlyInTarget
  <2>3. p \notin added /\ p \notin ListOf("copy") /\ moved[p] = None
    BY <1>1, <2>1, <2>2, EntriesApart DEF PathOnlyInSource, PathOnlyInTarget, PathCommon
  <2>4. p \notin Handled
    BY <2>1, <2>3
  <2>5. Effect(Handled)[p] = targetMeta[p]
    BY <1>1, <2>2, <2>3, <2>4 DEF Effect
  <2>q. QED BY <1>1, <1>5, <2>2, <2>4, <2>5
<1>q. QED BY <1>2, <1>3, <1>4, <1>5 DEF Phases

(* With every entry applied the target is the source, unless a common path *)
(* differs.                                                                *)
LEMMA EffectOfAll ==
  ASSUME DiffInv, diffPhase = "ready", modified = {}, NEW H,
         \A p \in Paths : p \in added \/ copied[p] # None \/ moved[p] # None \/ p \in deleted => p \in H
  PROVE  Effect(H) = sourceMeta
<1>1. Applied = sourceMeta
  BY DiffInvApplied DEF DiffReproducesSource
<1>2. ASSUME NEW p \in Paths
      PROVE  Effect(H)[p] = Applied[p]
  <2>1. p \in ListOf("copy") <=> copied[p] # None
    BY DEF ListOf
  <2>2. CopiedFrom(p) = copied[p]
    BY DEF CopiedFrom
  <2>3. p \in PathOfMovedInTarget <=> \E q \in Paths : q \in H /\ moved[q] = p
    BY NoneAssumption DEF PathOfMovedInTarget
  <2>q. QED BY <2>1, <2>2, <2>3 DEF Effect, Applied
<1>3. Effect(H) = [p \in Paths |-> Effect(H)[p]] /\ Applied = [p \in Paths |-> Applied[p]]
  BY DEF Effect, Applied
<1>q. QED BY <1>1, <1>2, <1>3

-----------------------------------------------------------------------------
LEMMA DiffUnchanged ==
  ASSUME UNCHANGED diffVars
  PROVE  /\ UNCHANGED <<targetMeta, sourceMeta, added, copied, moved, modified, deleted, diffPhase>>
         /\ \A phase : ListOf(phase)' = ListOf(phase)
         /\ \A H : Effect(H)' = Effect(H)
BY DEF diffVars, ListOf, Effect, CopiedFrom

LEMMA BackupInitInv == Init => BackupInv
<1> SUFFICES ASSUME Init PROVE BackupInv
  OBVIOUS
<1>1. DiffInv
  BY DiffInitInv DEF Init
<1>2. BackupTypeOK
  BY DEF Init, BackupTypeOK
<1>3. BackupSession
  BY DEF Init, BackupSession, Phases
<1>4. BackupProgress
  BY DEF Init, BackupProgress
<1>q. QED BY <1>1, <1>2, <1>3, <1>4 DEF BackupInv

(* Between two backups: alignment, edits and the start of the next.        *)
LEMMA IdleStepsKeep ==
  ASSUME BackupInv,
         Align \/ Start \/ \E p \in Paths, c \in Contents \cup {None} : EditSource(p, c) \/ EditTarget(p, c)
  PROVE  BackupInv'
<1>1. CASE Align
  <2>1. DiffInv' /\ UNCHANGED <<modified, sourceDisk, disk, backupVars, startVars>> /\ pc = "idle"
    BY <1>1, DiffStutterInv, DiffUnchanged DEF Align, BackupInv
  <2>2. meta' \in Metas /\ (meta = disk => meta' = disk)
    BY <1>1 DEF Align, FullInfo, BackupInv, BackupTypeOK, Metas
  <2>3. BackupTypeOK' /\ BackupSession'
    BY <2>1, <2>2 DEF BackupInv, BackupTypeOK, BackupSession, backupVars, startVars, Phases
  <2>4. BackupProgress'
    BY <2>1, <2>2 DEF BackupInv, BackupProgress, backupVars, startVars, Phases
  <2>q. QED BY <2>1, <2>3, <2>4 DEF BackupInv
<1>2. CASE Start
  <2>1. DiffInv' /\ targetMeta' = meta /\ sourceMeta' = sourceDisk /\ diffPhase' = "scan"
    BY <1>2, BeginDiffInv DEF Start, BackupInv, BackupTypeOK, BeginDiff
  <2>2. BackupTypeOK' /\ BackupSession'
    BY <1>2, <2>1 DEF Start, BackupInv, BackupTypeOK, BackupSession, Phases
  <2>3. BackupProgress'
    BY <1>2, <2>1 DEF Start, BackupProgress, Phases
  <2>q. QED BY <2>1, <2>2, <2>3 DEF BackupInv
<1>3. ASSUME NEW p \in Paths, NEW c \in Contents \cup {None}, EditSource(p, c) \/ EditTarget(p, c)
      PROVE  BackupInv'
  <2>1. DiffInv'
    BY <1>3, DiffStutterInv DEF EditSource, EditTarget, BackupInv
  <2>2. BackupTypeOK' /\ BackupSession'
    BY <1>3 DEF EditSource, EditTarget, BackupInv, BackupTypeOK, BackupSession, Phases, Metas, startVars
  <2>3. BackupProgress'
    BY <1>3 DEF EditSource, EditTarget, BackupProgress, Phases, startVars
  <2>q. QED BY <2>1, <2>2, <2>3 DEF BackupInv
<1>q. QED BY <1>1, <1>2, <1>3

(* The diff runs on its own variables.                                     *)
LEMMA DiffKeeps ==
  ASSUME BackupInv, Diff
  PROVE  BackupInv'
<1>1. DiffInv'
  BY ScanPathInv, FinishDiffInv DEF Diff, BackupInv
<1>2. /\ UNCHANGED <<sourceMeta, targetMeta>> /\ diffPhase' \in {"scan", "ready"}
      /\ UNCHANGED <<sourceDisk, disk, meta, backupVars, startVars>> /\ pc = "diff"
  BY DEF Diff, ScanPath, FinishDiff
<1>3. BackupTypeOK' /\ BackupSession'
  BY <1>2 DEF BackupInv, BackupTypeOK, BackupSession, backupVars, startVars, Phases
<1>4. BackupProgress'
  BY <1>2 DEF BackupInv, BackupProgress, BackupSession, backupVars, startVars, Phases
<1>q. QED BY <1>1, <1>3, <1>4 DEF BackupInv

(* The diff has come back: nothing to do, or the first list.               *)
LEMMA ConfirmKeeps ==
  ASSUME BackupInv, Confirm
  PROVE  BackupInv'
<1>1. /\ DiffInv' /\ DiffInv /\ diffPhase = "ready" /\ pc = "diff"
      /\ UNCHANGED <<sourceDisk, disk, meta, startVars>>
  BY DiffStutterInv DEF Confirm, BackupInv
<1> USE DiffUnchanged
<1>2. CASE NeedAction
  <2>1. /\ pc' = "add" /\ todo' = added /\ UNCHANGED <<current, outcome>> /\ UNCHANGED diffVars
    BY <1>2 DEF Confirm
  <2>2. current = None
    BY <1>1 DEF BackupInv, BackupSession, BackupTypeOK, Phases
  <2>3. BackupTypeOK' /\ BackupSession'
    BY <1>1, <2>1, <2>2 DEF BackupInv, BackupTypeOK, BackupSession, ListOf, Phases, startVars
  <2>4. Handled' = {} /\ (Handled \ {current})' = {}
    BY <2>1 DEF Handled, Past, ListOf
  <2>5. Effect({})' = targetMeta
    BY <1>1, <2>1, EffectOfNone
  <2>6. BackupProgress'
    BY <1>1, <2>1, <2>4, <2>5 DEF BackupInv, BackupProgress, BackupSession, startVars
  <2>q. QED BY <1>1, <2>3, <2>6 DEF BackupInv
<1>3. CASE ~NeedAction
  <2>1. End("done") /\ UNCHANGED diffVars
    BY <1>3 DEF Confirm
  <2>2. BackupTypeOK' /\ BackupSession'
    BY <1>1, <2>1 DEF BackupInv, BackupTypeOK, BackupSession, End, Phases, startVars
  <2>3. targetMeta = sourceMeta
    BY <1>1, <1>3, EffectOfAll, EffectOfNone DEF NeedAction
  <2>4. BackupProgress'
    BY <1>1, <2>1, <2>3 DEF BackupInv, BackupProgress, BackupSession, End, Phases, startVars
  <2>q. QED BY <1>1, <2>2, <2>4 DEF BackupInv
<1>q. QED BY <1>2, <1>3

(* A list is done: the next one, or the end.                               *)
LEMMA FinishPhaseKeeps ==
  ASSUME BackupInv, FinishPhase
  PROVE  BackupInv'
<1>1. /\ DiffInv' /\ DiffInv /\ diffPhase = "ready" /\ pc \in Phases
      /\ todo = {} /\ current = None /\ UNCHANGED diffVars
      /\ UNCHANGED <<sourceDisk, disk, meta, startVars>>
  BY DiffStutterInv DEF FinishPhase, BackupInv, BackupSession, NextPhase, Phases
<1> USE DiffUnchanged
<1>2. CASE pc # "delete"
  <2>1. /\ pc' = NextPhase[pc] /\ todo' = ListOf(pc') /\ UNCHANGED <<current, outcome>>
        /\ pc' \in {"copy", "move", "delete"}
    BY <1>1, <1>2 DEF FinishPhase, NextPhase, Phases
  <2>2. BackupTypeOK' /\ BackupSession'
    BY <1>1, <2>1 DEF BackupInv, BackupTypeOK, BackupSession, Phases, startVars
  <2>3. Handled' = Past'
    BY <1>1, <2>1 DEF Handled
  <2>4. Handled = Past \cup ListOf(pc)
    BY <1>1 DEF Handled
  <2>5. Past' = Past \cup ListOf(pc)
    BY <1>1, <1>2, <2>1 DEF Past, NextPhase, Phases
  <2>6. BackupProgress'
    BY <1>1, <2>1, <2>3, <2>4, <2>5 DEF BackupInv, BackupProgress, BackupSession, Phases, startVars
  <2>q. QED BY <1>1, <2>2, <2>6 DEF BackupInv
<1>3. CASE pc = "delete"
  <2>1. End("done")
    BY <1>3 DEF FinishPhase, NextPhase
  <2>2. BackupTypeOK' /\ BackupSession'
    BY <1>1, <2>1 DEF BackupInv, BackupTypeOK, BackupSession, End, Phases, startVars
  <2>3. Handled = ListOf("add") \cup ListOf("copy") \cup ListOf("move") \cup deleted
    BY <1>1, <1>3 DEF Handled, Past, ListOf
  <2>4. modified = {} => Effect(Handled) = sourceMeta
    BY <1>1, <2>3, EffectOfAll DEF ListOf
  <2>5. Handled \ {current} = Handled
    BY <1>1, <2>3, NoneAssumption DEF ListOf, DiffInv, DiffTypeOK
  <2>6. BackupProgress'
    BY <1>1, <2>1, <2>4, <2>5 DEF BackupInv, BackupProgress, BackupSession, End, Phases, startVars
  <2>q. QED BY <1>1, <2>2, <2>6 DEF BackupInv
<1>q. QED BY <1>2, <1>3

(* An entry's file has been changed as its list says.                      *)
LEMMA EntryKeeps ==
  ASSUME BackupInv, NEW p, pc \in Phases, Ready(pc, p),
         UNCHANGED <<diffVars, sourceDisk, meta, startVars, pc, outcome>>,
         todo' = todo \ {p}, current' = p, disk' \in Metas,
         accurate => disk' = Effect(Handled \cup {p})
  PROVE  BackupInv'
<1> USE DiffUnchanged
<1>1. /\ DiffInv /\ DiffInv' /\ diffPhase = "ready" /\ p \in todo /\ todo \subseteq ListOf(pc)
      /\ current = None /\ None \notin Paths
  BY DiffStutterInv, NoneAssumption DEF BackupInv, BackupSession, Ready
<1>2. p \in Paths /\ p \notin Handled
  BY <1>1, SourcesThere
<1>3. BackupTypeOK' /\ BackupSession'
  BY <1>1, <1>2 DEF BackupInv, BackupTypeOK, BackupSession, Phases, startVars
<1>4. Past' = Past
  BY DEF Past
<1>5. Handled' = Handled \cup {p} /\ (Handled \ {current})' = Handled
  BY <1>1, <1>2, <1>4 DEF Handled
<1>6. None \notin Handled
  BY <1>1 DEF Handled, Past, ListOf, DiffInv, DiffTypeOK
<1>7. BackupProgress'
  BY <1>1, <1>5, <1>6 DEF BackupInv, BackupProgress, BackupSession, Phases, startVars
<1>q. QED BY <1>1, <1>3, <1>7 DEF BackupInv

(* A call that throws ends the backup; an accurate one has none.           *)
LEMMA ThrowKeeps ==
  ASSUME BackupInv, pc \in Phases, ~accurate, Throw,
         UNCHANGED <<diffVars, sourceDisk, meta, startVars>>
  PROVE  BackupInv'
<1>1. DiffInv'
  BY DiffStutterInv DEF BackupInv
<1>2. BackupTypeOK' /\ BackupSession' /\ BackupProgress'
  BY DEF BackupInv, BackupTypeOK, BackupSession, BackupProgress, Throw, End, Phases, startVars
<1>q. QED BY <1>1, <1>2 DEF BackupInv

LEMMA FileStepsKeep ==
  ASSUME BackupInv, NEW p \in Paths, AddFile(p) \/ CopyFile(p) \/ MoveFile(p) \/ DeleteFile(p)
  PROVE  BackupInv'
<1>1. /\ pc \in Phases /\ Ready(pc, p) /\ p \in todo /\ UNCHANGED <<diffVars, sourceDisk, meta, startVars>>
  BY DEF AddFile, CopyFile, MoveFile, DeleteFile, Ready, Phases
<1>2. /\ DiffInv /\ diffPhase = "ready" /\ todo \subseteq ListOf(pc) /\ disk \in Metas
      /\ sourceMeta = sourceDisk /\ sourceDisk \in Metas /\ current = None
  BY <1>1 DEF BackupInv, BackupSession, BackupTypeOK, Phases, Ready
<1>3. accurate => disk = Effect(Handled)
  BY <1>1 DEF BackupInv, BackupProgress
<1>4. CASE AddFile(p)
  <2>1. pc = "add" /\ p \in added
    BY <1>2, <1>4 DEF AddFile, Ready, ListOf
  <2>2. sourceDisk[p] # None
    BY <1>1, <1>2, <2>1, SourcesThere
  <2>3. ChangeDisk(p, [disk EXCEPT ![p] = sourceMeta[p]])
    BY <1>2, <1>4, <2>2 DEF AddFile
  <2>4. accurate => disk' = Effect(Handled \cup {p})
    <3>1. Effect(Handled \cup {p}) = [Effect(Handled) EXCEPT ![p] = sourceMeta[p]]
      BY <1>2, <2>1, EffectOfOne
    <3>q. QED BY <1>3, <2>3, <3>1 DEF ChangeDisk
  <2>5. disk' \in Metas
    BY <1>2, <2>3 DEF ChangeDisk, Metas
  <2>q. QED BY <1>1, <2>3, <2>4, <2>5, EntryKeeps DEF ChangeDisk
<1>5. CASE CopyFile(p)
  <2>1. pc = "copy" /\ p \in ListOf("copy")
    BY <1>2, <1>5 DEF CopyFile, Ready
  <2>2. CopiedFrom(p) \in Paths /\ (accurate => disk[CopiedFrom(p)] = targetMeta[CopiedFrom(p)] /\ disk[CopiedFrom(p)] # None)
    BY <1>1, <1>2, <1>3, <2>1, SourcesThere
  <2>3. CASE disk[CopiedFrom(p)] = None
    BY <1>1, <1>5, <2>2, <2>3, ThrowKeeps DEF CopyFile
  <2>4. CASE disk[CopiedFrom(p)] # None
    <3>1. /\ todo' = todo \ {p} /\ current' = p /\ UNCHANGED <<pc, outcome>>
          /\ disk' = [disk EXCEPT ![p] = disk[CopiedFrom(p)]]
      BY <1>2, <1>5, <2>4 DEF CopyFile, ChangeDisk, Metas
    <3>2. accurate => disk' = Effect(Handled \cup {p})
      <4>1. Effect(Handled \cup {p}) = [Effect(Handled) EXCEPT ![p] = targetMeta[CopiedFrom(p)]]
        BY <1>2, <2>1, EffectOfOne
      <4>q. QED BY <1>3, <2>2, <3>1, <4>1
    <3>3. disk' \in Metas
      BY <1>2, <2>2, <3>1 DEF Metas
    <3>q. QED BY <1>1, <3>1, <3>2, <3>3, EntryKeeps
  <2>q. QED BY <2>3, <2>4
<1>6. CASE MoveFile(p)
  <2>1. pc = "move"
    BY <1>6 DEF MoveFile, Ready
  <2>2. /\ moved[p] \in Paths /\ moved[p] # None
        /\ accurate => disk[moved[p]] = targetMeta[moved[p]] /\ disk[moved[p]] # None
    BY <1>1, <1>2, <1>3, <2>1, SourcesThere
  <2>3. CASE disk[moved[p]] = None
    BY <1>1, <1>6, <2>2, <2>3, ThrowKeeps DEF MoveFile
  <2>4. CASE disk[moved[p]] # None
    <3>1. ChangeDisk(p, [disk EXCEPT ![p] = disk[moved[p]], ![moved[p]] = None])
      BY <1>6, <2>4 DEF MoveFile
    <3>2. accurate => disk' = Effect(Handled \cup {p})
      <4>1. Effect(Handled \cup {p})
              = [Effect(Handled) EXCEPT ![p] = targetMeta[moved[p]], ![moved[p]] = None]
        BY <1>2, <2>2, EffectOfOne
      <4>q. QED BY <1>3, <2>2, <3>1, <4>1 DEF ChangeDisk
    <3>3. disk' \in Metas
      BY <1>2, <2>2, <3>1 DEF ChangeDisk, Metas
    <3>q. QED BY <1>1, <3>1, <3>2, <3>3, EntryKeeps DEF ChangeDisk
  <2>q. QED BY <2>3, <2>4
<1>7. CASE DeleteFile(p)
  <2>1. pc = "delete" /\ p \in deleted
    BY <1>2, <1>7 DEF DeleteFile, Ready, ListOf
  <2>2. accurate => disk[p] # None
    BY <1>1, <1>2, <1>3, <2>1, SourcesThere
  <2>3. CASE disk[p] = None
    BY <1>1, <1>7, <2>2, <2>3, ThrowKeeps DEF DeleteFile
  <2>4. CASE disk[p] # None
    <3>1. ChangeDisk(p, [disk EXCEPT ![p] = None])
      BY <1>7, <2>4 DEF DeleteFile
    <3>2. accurate => disk' = Effect(Handled \cup {p})
      <4>1. Effect(Handled \cup {p}) = [Effect(Handled) EXCEPT ![p] = None]
        BY <1>2, <2>1, EffectOfOne
      <4>q. QED BY <1>3, <3>1, <4>1 DEF ChangeDisk
    <3>3. disk' \in Metas
      BY <1>2, <3>1 DEF ChangeDisk, Metas
    <3>q. QED BY <1>1, <3>1, <3>2, <3>3, EntryKeeps DEF ChangeDisk
  <2>q. QED BY <2>3, <2>4
<1>q. QED BY <1>4, <1>5, <1>6, <1>7

(* The item of the entry in hand: the meta has caught up with the files.   *)
LEMMA RecordMetaKeeps ==
  ASSUME BackupInv, RecordMeta
  PROVE  BackupInv'
<1> USE DiffUnchanged
<1> DEFINE p == current
           H == Handled \ {p}
<1>1. /\ DiffInv /\ DiffInv' /\ diffPhase = "ready" /\ pc \in Phases /\ UNCHANGED diffVars
      /\ p \in Paths /\ p \in ListOf(pc) \ todo /\ meta \in Metas
      /\ UNCHANGED <<sourceDisk, disk, pc, todo, outcome, startVars>>
      /\ meta' = RecordedMeta(p) /\ current' = None
  BY DiffStutterInv DEF RecordMeta, BackupInv, BackupSession, BackupTypeOK, NextPhase, Phases
<1>2. H \cup {p} = Handled
  BY <1>1 DEF Handled
<1>3. RecordedMeta(p) \in Metas
  <2>1. targetMeta \in Metas /\ sourceMeta \in Metas
    BY <1>1 DEF DiffInv, DiffTypeOK
  <2>2. pc = "copy" => CopiedFrom(p) \in Paths
    BY <1>1, EntriesApart DEF ListOf, CopiedFrom
  <2>3. pc = "move" => moved[p] \in Paths
    BY <1>1, ListFacts DEF ListOf, PathOnlyInTarget
  <2>q. QED BY <1>1, <2>1, <2>2, <2>3 DEF RecordedMeta, Metas, Phases
<1>4. accurate => RecordedMeta(p) = Effect(Handled)
  <2>1. accurate => meta = Effect(H)
    BY <1>1 DEF BackupInv, BackupProgress
  <2>2. CASE pc = "add"
    <3>0. p \in added
      BY <1>1, <2>2 DEF ListOf
    <3>1. Effect(H \cup {p}) = [Effect(H) EXCEPT ![p] = sourceMeta[p]]
      BY <1>1, <3>0, EffectOfOne
    <3>q. QED BY <1>2, <2>1, <2>2, <3>1 DEF RecordedMeta
  <2>3. CASE pc = "copy"
    <3>1. Effect(H \cup {p}) = [Effect(H) EXCEPT ![p] = targetMeta[CopiedFrom(p)]]
      BY <1>1, <2>3, EffectOfOne
    <3>2. RecordedMeta(p) = [meta EXCEPT ![p] = targetMeta[CopiedFrom(p)]]
      BY <2>3 DEF RecordedMeta
    <3>q. QED BY <1>2, <2>1, <3>1, <3>2
  <2>4. CASE pc = "move"
    <3>0. moved[p] # None
      BY <1>1, <2>4 DEF ListOf
    <3>1. Effect(H \cup {p}) = [Effect(H) EXCEPT ![p] = targetMeta[moved[p]], ![moved[p]] = None]
      BY <1>1, <3>0, EffectOfOne
    <3>2. RecordedMeta(p) = [meta EXCEPT ![p] = targetMeta[moved[p]], ![moved[p]] = None]
      BY <2>4 DEF RecordedMeta
    <3>q. QED BY <1>2, <2>1, <3>1, <3>2
  <2>5. CASE pc = "delete"
    <3>1. Effect(H \cup {p}) = [Effect(H) EXCEPT ![p] = None]
      BY <1>1, <2>5, EffectOfOne DEF ListOf
    <3>q. QED BY <1>2, <2>1, <2>5, <3>1 DEF RecordedMeta
  <2>q. QED BY <1>1, <2>2, <2>3, <2>4, <2>5 DEF Phases
<1>5. BackupTypeOK' /\ BackupSession'
  BY <1>1, <1>3 DEF BackupInv, BackupTypeOK, BackupSession, Phases, startVars
<1>6. Handled' = Handled
  BY <1>1 DEF Handled, Past
<1>7. None \notin Handled
  BY <1>1, NoneAssumption DEF Handled, Past, ListOf, DiffInv, DiffTypeOK
<1>8. BackupProgress'
  BY <1>1, <1>4, <1>6, <1>7 DEF BackupInv, BackupProgress, BackupSession, Phases, startVars
<1>q. QED BY <1>1, <1>5, <1>8 DEF BackupInv

(* A stop leaves files and meta as they are, and no claim about them.      *)
LEMMA StopKeeps ==
  ASSUME BackupInv, Stop
  PROVE  BackupInv'
<1>1. DiffInv'
  BY DropDiffInv DEF Stop, BackupInv, DropDiff
<1>2. BackupTypeOK' /\ BackupSession' /\ BackupProgress'
  BY DEF Stop, End, BackupInv, BackupTypeOK, BackupSession, BackupProgress, Phases, startVars
<1>q. QED BY <1>1, <1>2 DEF BackupInv

LEMMA BackupStep == BackupInv /\ [Next]_vars => BackupInv'
<1> SUFFICES ASSUME BackupInv, [Next]_vars PROVE BackupInv'
  OBVIOUS
<1>1. CASE UNCHANGED vars
  <2>1. /\ UNCHANGED <<sourceDisk, disk, meta, stamped, pc, todo, current, outcome, command, accurate>>
        /\ UNCHANGED diffVars
    BY <1>1 DEF vars, backupVars, startVars
  <2>2. DiffInv' /\ Handled' = Handled
    BY <2>1, DiffStutterInv, DiffUnchanged DEF BackupInv, Handled, Past
  <2>3. BackupTypeOK' /\ BackupSession'
    BY <2>1, DiffUnchanged DEF BackupInv, BackupTypeOK, BackupSession
  <2>4. BackupProgress'
    BY <2>1, <2>2, DiffUnchanged DEF BackupInv, BackupProgress
  <2>q. QED BY <2>2, <2>3, <2>4 DEF BackupInv
<1>2. CASE Next
  BY <1>2, IdleStepsKeep, DiffKeeps, ConfirmKeeps, FinishPhaseKeeps, FileStepsKeep,
     RecordMetaKeeps, StopKeeps DEF Next
<1>q. QED BY <1>1, <1>2

THEOREM BackupInvariance == Spec => []BackupInv
BY BackupInitInv, BackupStep, PTL DEF Spec

(* A backup that starts from an accurate meta never misses a file it       *)
(* needs, and its meta then says what is on disk (assets-backup.ts:97-124).*)
THEOREM AccurateBackupsEndRight == Spec => []AccurateBackupEndsRight
<1>1. BackupInv => AccurateBackupEndsRight
  BY DEF BackupInv, BackupProgress, AccurateBackupEndsRight
<1>q. QED BY <1>1, BackupInvariance, PTL

(* If no common path differed, the target then is the source.              *)
THEOREM BackupsReproduceSource == Spec => []BackupReproducesSource
<1>1. BackupInv => BackupReproducesSource
  BY DEF BackupInv, BackupProgress, BackupReproducesSource
<1>q. QED BY <1>1, BackupInvariance, PTL

-----------------------------------------------------------------------------
(* The operations.  They go file by file: with an accurate meta at the     *)
(* start, meta and disk differ at most in the source and the target of the *)
(* file in hand, in a way that the place in the operation tells.           *)
OpPhases == {"assert", "check", "act", "record", "forget", "next", "done", "remove", "unlist"}
OpKinds == {"none", "copy", "move", "add", "delete", "dedupe"}

OpTypeOK ==
  /\ disk \in Metas /\ meta \in Metas
  /\ op \in [kind : OpKinds, overwrite : BOOLEAN, to : [Paths -> Paths \cup {None}], content : Metas]
  /\ bin = [b \in Bins |-> bin[b]]
  /\ pc \in {"idle"} \cup OpPhases

OpSession ==
  /\ pc # "idle" => command = "operation" /\ outcome = "none"
  /\ pc \in {"assert", "check"} => op.kind \in {"copy", "move"}
  /\ pc = "forget" => op.kind = "move"
  /\ pc \in {"act", "record", "next"} => op.kind \in {"copy", "move", "add"}
  /\ pc = "done" => op.kind = "add"
  /\ pc \in {"remove", "unlist"} => op.kind \in {"delete", "dedupe"}
  /\ pc \in {"assert", "check", "act", "record", "forget", "next"} => todo \subseteq Sources(op.to)
  /\ pc \in {"remove", "unlist"} => todo \subseteq Paths
  /\ pc \in {"check", "record", "forget"} \/ (pc = "act" /\ op.kind # "add") => current \in Sources(op.to)
  /\ op.kind = "add" => \A p \in Sources(op.to) : op.to[p] = p

OpProgress ==
  accurate =>
    /\ pc \in {"assert", "next", "done"} \/ (pc = "act" /\ op.kind = "add") => meta = disk
    /\ pc \in {"check", "act"} /\ op.kind # "add" => disk = [meta EXCEPT ![To(current)] = None]
    /\ pc \in {"act", "record"} /\ op.kind # "add" => To(current) # current
    /\ pc = "record" =>
         disk = CASE op.kind = "add"  -> [meta EXCEPT ![current] = op.content[current]]
                  [] op.kind = "copy" -> [meta EXCEPT ![To(current)] = meta[current]]
                  [] op.kind = "move" -> [meta EXCEPT ![To(current)] = meta[current], ![current] = None]
    /\ pc = "forget" => disk = [meta EXCEPT ![current] = None]
    /\ pc = "remove" => /\ disk = [p \in Paths |-> IF p \in Sources(op.to) THEN None ELSE meta[p]]
                        /\ todo \cap Sources(op.to) = {}
    /\ pc = "unlist" => disk = [p \in Paths |-> IF p \in todo THEN None ELSE meta[p]]
    /\ outcome = "done" => meta = disk

\* A sha1 that a dedupe has put away is there, under some file name.
InBin(c) == \E p \in Paths : bin[<<c, Basename[p]>>] = c

OpKeeps ==
  accurate /\ op.kind # "delete" /\ ~op.overwrite /\ (pc # "idle" \/ outcome # "none") =>
    /\ \A c \in held : c \in ContentsOf(disk) \cup saved
    /\ \A c \in saved : c \in Contents /\ InBin(c)
    /\ pc \in {"check", "act"} /\ op.kind # "add" => disk[To(current)] = None
    /\ op.kind = "add" => \A p \in todo : disk[p] = None

OpInv == OpTypeOK /\ OpSession /\ (command = "operation" => OpProgress /\ OpKeeps)

LEMMA OpInitInv == OpInit => OpInv
<1> SUFFICES ASSUME OpInit PROVE OpInv
  OBVIOUS
<1>1. /\ disk \in Metas /\ meta = disk /\ pc = "idle" /\ outcome = "none"
      /\ todo = {} /\ current = None /\ command = "none" /\ accurate = FALSE
  BY DEF OpInit, PullInit, Init
<1>2. NoMap \in [Paths -> Paths \cup {None}] /\ NoMap \in Metas
  BY DEF NoMap, Metas
<1>3. OpTypeOK
  BY <1>1, <1>2 DEF OpInit, OpTypeOK, OpKinds
<1>4. op.kind = "none"
  BY DEF OpInit
<1>5. OpSession
  BY <1>1, <1>4 DEF OpSession
<1>q. QED BY <1>1, <1>3, <1>5 DEF OpInv

(* Alignment and edits, between two commands: an edit makes the outcome    *)
(* one that nothing is claimed of.                                         *)
LEMMA OpIdleKeeps ==
  ASSUME OpInv, UNCHANGED opVars,
         Align \/ \E p \in Paths, c \in Contents \cup {None} : EditSource(p, c) \/ EditTarget(p, c)
  PROVE  OpInv'
<1>1. pc = "idle" /\ pc' = "idle" /\ UNCHANGED <<op, bin, saved, held, todo, current, command, accurate>>
  BY DEF opVars, Align, EditSource, EditTarget, backupVars, startVars
<1>2. CASE Align
  <2>1. UNCHANGED <<disk, outcome>> /\ meta' \in Metas /\ (meta = disk => meta' = disk)
    BY <1>2 DEF Align, FullInfo, backupVars, OpInv, OpTypeOK, Metas
  <2>2. OpTypeOK' /\ OpSession'
    BY <1>1, <2>1 DEF OpInv, OpTypeOK, OpSession, Bins
  <2>3. command = "operation" => OpProgress' /\ OpKeeps'
    BY <1>1, <2>1 DEF OpInv, OpProgress, OpKeeps, OpPhases, InBin, ContentsOf, To
  <2>q. QED BY <1>1, <2>2, <2>3 DEF OpInv
<1>3. ASSUME NEW p \in Paths, NEW c \in Contents \cup {None}, EditSource(p, c) \/ EditTarget(p, c)
      PROVE  OpInv'
  <2>1. UNCHANGED meta /\ outcome' = "none" /\ disk' \in Metas
    BY <1>3 DEF EditSource, EditTarget, OpInv, OpTypeOK, Metas
  <2>2. OpTypeOK' /\ OpSession'
    BY <1>1, <2>1 DEF OpInv, OpTypeOK, OpSession, Bins
  <2>3. OpProgress' /\ OpKeeps'
    BY <1>1, <2>1 DEF OpProgress, OpKeeps
  <2>q. QED BY <2>2, <2>3 DEF OpInv
<1>q. QED BY <1>2, <1>3

(* An operation begins, whatever the disk and the meta are.                *)
LEMMA BeginKeeps ==
  ASSUME OpInv, NEW kind \in OpKinds \ {"none"}, NEW ow \in BOOLEAN,
         NEW to \in [Paths -> Paths \cup {None}], NEW c \in Metas, NEW first, NEW S \in SUBSET Paths,
         Begin(kind, ow, to, c, first, S),
         \/ kind \in {"copy", "move"} /\ first = "assert" /\ S = Sources(to)
         \/ /\ kind = "add" /\ first \in {"act", "done"} /\ S = Sources(to)
            /\ \A p \in S : to[p] = p /\ disk[p] = None
         \/ kind \in {"delete", "dedupe"} /\ first = "remove" /\ Sources(to) = {}
  PROVE  OpInv'
<1>1. /\ op' = [kind |-> kind, overwrite |-> ow, to |-> to, content |-> c]
      /\ held' = ContentsOf(disk) /\ saved' = {} /\ command' = "operation" /\ accurate' = (meta = disk)
      /\ pc' = first /\ todo' = S /\ outcome' = "none" /\ UNCHANGED <<disk, meta, current, bin>>
  BY DEF Begin
<1>2. /\ op'.kind = kind /\ op'.overwrite = ow /\ op'.to = to /\ op'.content = c
  BY <1>1
<1>3. Sources(op.to)' = Sources(to)
  BY <1>2 DEF Sources
<1>4. OpTypeOK'
  BY <1>1 DEF OpInv, OpTypeOK, OpPhases, OpKinds, Bins, Metas
<1>5. OpSession'
  BY <1>1, <1>2, <1>3 DEF OpSession
<1>6. OpProgress'
  <2>1. accurate' => meta' = disk' /\ disk' = [p \in Paths |-> disk'[p]]
    BY <1>1 DEF OpInv, OpTypeOK, Metas
  <2>q. QED BY <1>1, <1>2, <1>3, <2>1 DEF OpProgress
<1>7. OpKeeps'
  BY <1>1, <1>2 DEF OpKeeps, ContentsOf
<1>q. QED BY <1>4, <1>5, <1>6, <1>7 DEF OpInv

LEMMA BeginningsKeep ==
  ASSUME OpInv,
         \/ \E f \in Transfers, kind \in {"copy", "move"}, ow \in BOOLEAN : BeginTransfer(kind, ow, f)
         \/ \E p \in Paths, c \in Contents : BeginAdd(p, c)
         \/ \E f \in [Paths -> Contents \cup {None}] : BeginImport(f)
         \/ \E S \in SUBSET Paths : BeginDelete(S) \/ BeginDedupe(S)
  PROVE  OpInv'
<1> USE NoneAssumption
<1>1. NoMap \in [Paths -> Paths \cup {None}] /\ NoMap \in Metas /\ Sources(NoMap) = {}
  BY DEF NoMap, Metas, Sources
<1>2. ASSUME NEW f \in Transfers, NEW kind \in {"copy", "move"}, NEW ow \in BOOLEAN, BeginTransfer(kind, ow, f)
      PROVE  OpInv'
  <2>1. f \in [Paths -> Paths \cup {None}] /\ Sources(f) \in SUBSET Paths
    BY DEF Transfers, Sources
  <2>2. Begin(kind, ow, f, NoMap, "assert", Sources(f))
    BY <1>2 DEF BeginTransfer
  <2>q. QED BY <1>1, <2>1, <2>2, BeginKeeps DEF OpKinds
<1>3. ASSUME NEW p \in Paths, NEW c \in Contents, BeginAdd(p, c)
      PROVE  OpInv'
  <2> DEFINE to == [NoMap EXCEPT ![p] = p]
             first == IF \E q \in Paths : meta[q] = c THEN "done" ELSE "act"
  <2>1. /\ to \in [Paths -> Paths \cup {None}] /\ Sources(to) = {p} /\ to[p] = p
        /\ [NoMap EXCEPT ![p] = c] \in Metas /\ first \in {"act", "done"}
    BY <1>1 DEF NoMap, Metas, Sources
  <2>2. Begin("add", FALSE, to, [NoMap EXCEPT ![p] = c], first, {p}) /\ disk[p] = None
    BY <1>3 DEF BeginAdd
  <2> HIDE DEF to, first
  <2>q. QED BY <2>1, <2>2, BeginKeeps DEF OpKinds
<1>4. ASSUME NEW f \in [Paths -> Contents \cup {None}], BeginImport(f)
      PROVE  OpInv'
  <2> DEFINE to == [p \in Paths |-> IF f[p] = None THEN None ELSE p]
             first == IF Sources(f) = {} THEN "done" ELSE "act"
  <2>1. /\ to \in [Paths -> Paths \cup {None}] /\ Sources(to) = Sources(f)
        /\ \A p \in Sources(f) : to[p] = p
        /\ f \in Metas /\ Sources(f) \in SUBSET Paths /\ first \in {"act", "done"}
    BY DEF Metas, Sources
  <2>2. Begin("add", FALSE, to, f, first, Sources(f)) /\ \A p \in Sources(f) : disk[p] = None
    BY <1>4 DEF BeginImport
  <2> HIDE DEF to, first
  <2>q. QED BY <2>1, <2>2, BeginKeeps DEF OpKinds
<1>5. ASSUME NEW S \in SUBSET Paths, BeginDelete(S) \/ BeginDedupe(S)
      PROVE  OpInv'
  <2>1. PICK kind \in {"delete", "dedupe"}, T \in SUBSET Paths : Begin(kind, FALSE, NoMap, NoMap, "remove", T)
    BY <1>5 DEF BeginDelete, BeginDedupe, Duplicates
  <2>q. QED BY <1>1, <2>1, BeginKeeps DEF OpKinds
<1>q. QED BY <1>2, <1>3, <1>4, <1>5

(* It ends: well only with a meta that is the disk if it was so at first.  *)
LEMMA EndOpKeeps ==
  ASSUME OpInv, pc # "idle", NEW o, End(o), UNCHANGED <<disk, meta, command, accurate, opVars>>,
         o = "done" => (accurate => meta = disk)
  PROVE  OpInv'
<1>1. /\ pc' = "idle" /\ outcome' = o /\ todo' = {}
      /\ UNCHANGED <<disk, meta, command, accurate, op, bin, saved, held>>
  BY DEF End, opVars
<1>2. OpTypeOK' /\ OpSession'
  BY <1>1 DEF OpInv, OpTypeOK, OpSession, Bins
<1>3. command = "operation" => OpProgress' /\ OpKeeps'
  BY <1>1 DEF OpInv, OpProgress, OpKeeps, InBin, ContentsOf
<1>q. QED BY <1>1, <1>2, <1>3 DEF OpInv

(* What a step of the transfer of the file in hand keeps, when only the    *)
(* disk, the meta and the place in the operation change.                   *)
LEMMA TransferStepKeeps ==
  ASSUME OpInv, pc # "idle", pc' # "idle", UNCHANGED <<outcome, command, accurate, opVars>>,
         disk' \in Metas, meta' \in Metas, pc' \in OpPhases, OpSession', OpProgress', OpKeeps'
  PROVE  OpInv'
<1>1. UNCHANGED <<op, bin>>
  BY DEF opVars
<1>2. OpTypeOK'
  BY <1>1 DEF OpInv, OpTypeOK, Bins
<1>q. QED BY <1>2 DEF OpInv

(* assertTargetAvailable: from here on the target has no file; without     *)
(* overwriting it never had one.                                           *)
LEMMA AssertTargetKeeps ==
  ASSUME OpInv, NEW p \in Paths, AssertTarget(p)
  PROVE  OpInv'
<1> USE NoneAssumption
<1>1. pc = "assert" /\ p \in todo /\ UNCHANGED <<meta, command, accurate, opVars>>
  BY DEF AssertTarget, EndOp, startVars, opVars
<1>2. /\ command = "operation" /\ outcome = "none" /\ op.kind \in {"copy", "move"} /\ p \in Sources(op.to)
      /\ todo \subseteq Sources(op.to)
  BY <1>1 DEF OpInv, OpSession
<1>3. CASE disk[To(p)] # None /\ ~op.overwrite
  <2>1. End("failed") /\ UNCHANGED disk
    BY <1>3 DEF AssertTarget, EndOp
  <2>q. QED BY <1>1, <2>1, EndOpKeeps
<1>4. CASE ~(disk[To(p)] # None /\ ~op.overwrite)
  <2>1. /\ disk' = [disk EXCEPT ![To(p)] = None] /\ pc' = "check" /\ current' = p
        /\ todo' = todo \ {p} /\ UNCHANGED outcome
    BY <1>4 DEF AssertTarget
  <2>2. /\ disk \in Metas /\ To(p) \in Paths /\ UNCHANGED <<op, bin, saved, held>>
    BY <1>1, <1>2 DEF OpInv, OpTypeOK, Sources, To, opVars
  <2>3. To(current)' = To(p) /\ Sources(op.to)' = Sources(op.to)
    BY <2>1, <2>2 DEF To, Sources
  <2>4. disk' \in Metas /\ disk'[To(p)] = None
    BY <2>1, <2>2 DEF Metas
  <2>5. OpSession'
    BY <1>1, <1>2, <2>1, <2>2, <2>3 DEF OpInv, OpSession
  <2>6. OpProgress'
    BY <1>1, <1>2, <2>1, <2>2, <2>3 DEF OpInv, OpProgress
  <2>7. OpKeeps'
    <3>1. ~op.overwrite => disk' = disk
      BY <1>4, <2>1, <2>2 DEF Metas
    <3>q. QED BY <1>1, <1>2, <2>1, <2>2, <2>3, <2>4, <3>1 DEF OpInv, OpKeeps, ContentsOf, InBin
  <2>q. QED BY <1>1, <2>1, <2>4, <2>5, <2>6, <2>7, TransferStepKeeps DEF OpInv, OpTypeOK, OpPhases
<1>q. QED BY <1>3, <1>4

(* checkInternalAssetInfo: the source is there, so it is not the target.   *)
LEMMA CheckSourceKeeps ==
  ASSUME OpInv, CheckSource
  PROVE  OpInv'
<1> USE NoneAssumption
<1>1. pc = "check" /\ UNCHANGED <<disk, command, accurate, opVars>>
  BY DEF CheckSource, EndOp, startVars, opVars
<1>2. /\ command = "operation" /\ outcome = "none" /\ op.kind \in {"copy", "move"} /\ current \in Sources(op.to)
      /\ todo \subseteq Sources(op.to) /\ disk \in Metas /\ meta \in Metas
      /\ current \in Paths /\ To(current) \in Paths
  BY <1>1 DEF OpInv, OpSession, OpTypeOK, Sources, To
<1>3. CASE meta[current] = None \/ disk[current] = None
  <2>1. End("failed") /\ UNCHANGED meta
    BY <1>3 DEF CheckSource, EndOp
  <2>q. QED BY <1>1, <2>1, EndOpKeeps
<1>4. CASE ~(meta[current] = None \/ disk[current] = None)
  <2>1. /\ meta' = IF Outdated(current) THEN [meta EXCEPT ![current] = disk[current]] ELSE meta
        /\ pc' = "act" /\ UNCHANGED <<todo, current, outcome>>
    BY <1>4 DEF CheckSource, FullInfo
  <2>2. UNCHANGED <<op, bin, saved, held>>
    BY <1>1 DEF opVars
  <2>3. To(current)' = To(current) /\ Sources(op.to)' = Sources(op.to)
    BY <2>1, <2>2 DEF To, Sources
  <2>4. meta' \in Metas
    BY <1>2, <2>1 DEF Metas
  <2>5. accurate => /\ disk = [meta EXCEPT ![To(current)] = None]
                    /\ To(current) # current /\ meta' = meta
    <3>1. accurate => disk = [meta EXCEPT ![To(current)] = None]
      BY <1>1, <1>2 DEF OpInv, OpProgress
    <3>2. accurate => disk[To(current)] = None
      BY <1>2, <3>1 DEF Metas
    <3>3. accurate => To(current) # current /\ disk[current] = meta[current]
      BY <1>2, <1>4, <3>1, <3>2 DEF Metas
    <3>q. QED BY <1>2, <2>1, <3>1, <3>3 DEF Metas
  <2>6. OpSession'
    BY <1>1, <1>2, <2>1, <2>2, <2>3 DEF OpInv, OpSession
  <2>7. OpProgress'
    BY <1>1, <1>2, <2>1, <2>2, <2>3, <2>5 DEF OpProgress
  <2>8. OpKeeps'
    BY <1>1, <1>2, <2>1, <2>2, <2>3 DEF OpInv, OpKeeps, ContentsOf, InBin
  <2>q. QED BY <1>1, <1>2, <2>1, <2>4, <2>6, <2>7, <2>8, TransferStepKeeps DEF OpPhases
<1>q. QED BY <1>3, <1>4

(* doAddAction, doMoveAction: the file goes to a place that is free.       *)
LEMMA TransferFileKeeps ==
  ASSUME OpInv, TransferFile
  PROVE  OpInv'
<1> USE NoneAssumption
<1>1. /\ pc = "act" /\ op.kind \in {"copy", "move"}
      /\ UNCHANGED <<meta, todo, current, outcome, command, accurate, opVars>>
  BY DEF TransferFile, startVars, opVars
<1>2. /\ command = "operation" /\ outcome = "none" /\ current \in Sources(op.to)
      /\ todo \subseteq Sources(op.to) /\ disk \in Metas /\ meta \in Metas
      /\ current \in Paths /\ To(current) \in Paths
  BY <1>1 DEF OpInv, OpSession, OpTypeOK, Sources, To
<1>3. UNCHANGED <<op, bin, saved, held>>
  BY <1>1 DEF opVars
<1>4. To(current)' = To(current) /\ Sources(op.to)' = Sources(op.to)
  BY <1>1, <1>3 DEF To, Sources
<1>5. accurate => disk = [meta EXCEPT ![To(current)] = None] /\ To(current) # current
  BY <1>1, <1>2 DEF OpInv, OpProgress
<1>6. CASE To(current) = current
  <2>1. pc' = "next" /\ UNCHANGED disk /\ ~accurate
    BY <1>5, <1>6 DEF TransferFile
  <2>2. OpSession'
    BY <1>1, <1>2, <1>3, <1>4, <2>1 DEF OpInv, OpSession
  <2>3. OpProgress' /\ OpKeeps'
    BY <1>1, <2>1 DEF OpProgress, OpKeeps
  <2>q. QED BY <1>1, <1>2, <2>1, <2>2, <2>3, TransferStepKeeps DEF OpPhases
<1>7. CASE To(current) # current
  <2>1. /\ disk' = [disk EXCEPT ![To(current)] = disk[current],
                                ![current] = IF op.kind = "move" THEN None ELSE @]
        /\ pc' = "record"
    BY <1>7 DEF TransferFile
  <2>2. /\ disk' \in Metas /\ disk'[To(current)] = disk[current]
        /\ \A q \in Paths \ {current, To(current)} : disk'[q] = disk[q]
        /\ disk'[current] = IF op.kind = "move" THEN None ELSE disk[current]
    BY <1>2, <1>7, <2>1 DEF Metas
  <2>3. OpSession'
    BY <1>1, <1>2, <1>3, <1>4, <2>1 DEF OpInv, OpSession
  <2>4. OpProgress'
    <3>1. accurate => disk[current] = meta[current] /\ \A q \in Paths \ {To(current)} : disk[q] = meta[q]
      BY <1>2, <1>5, <1>7 DEF Metas
    <3>2. ASSUME accurate, op.kind = "copy"
          PROVE  disk' = [meta EXCEPT ![To(current)] = meta[current]]
      BY <1>2, <1>7, <2>2, <3>1, <3>2 DEF Metas
    <3>3. ASSUME accurate, op.kind = "move"
          PROVE  disk' = [meta EXCEPT ![To(current)] = meta[current], ![current] = None]
      BY <1>2, <1>7, <2>2, <3>1, <3>3 DEF Metas
    <3>q. QED BY <1>1, <1>2, <1>3, <1>4, <1>7, <2>1, <3>2, <3>3 DEF OpProgress
  <2>5. OpKeeps'
    <3>1. ASSUME disk[To(current)] = None
          PROVE  ContentsOf(disk) \subseteq ContentsOf(disk')
      <4>1. ASSUME NEW q \in Paths, disk[q] # None
            PROVE  \E r \in Paths : disk'[r] = disk[q]
        <5>1. q # To(current)
          BY <3>1, <4>1
        <5>q. QED BY <1>2, <2>2, <5>1
      <4>q. QED BY <4>1 DEF ContentsOf
    <3>q. QED BY <1>1, <1>2, <1>3, <1>4, <2>1, <3>1 DEF OpInv, OpKeeps, InBin, ContentsOf
  <2>q. QED BY <1>1, <1>2, <2>1, <2>2, <2>3, <2>4, <2>5, TransferStepKeeps DEF OpPhases
<1>q. QED BY <1>6, <1>7

LEMMA AddAssetKeeps ==
  ASSUME OpInv, NEW p \in Paths, AddAsset(p)
  PROVE  OpInv'
<1> USE NoneAssumption
<1>1. /\ pc = "act" /\ op.kind = "add" /\ p \in todo /\ disk' = [disk EXCEPT ![p] = op.content[p]]
      /\ pc' = "record" /\ current' = p /\ todo' = todo \ {p}
      /\ UNCHANGED <<meta, outcome, command, accurate, opVars>>
  BY DEF AddAsset, startVars
<1>2. /\ command = "operation" /\ outcome = "none" /\ p \in Sources(op.to) /\ op.content \in Metas
      /\ todo \subseteq Sources(op.to) /\ disk \in Metas /\ meta \in Metas
  BY <1>1 DEF OpInv, OpSession, OpTypeOK
<1>3. UNCHANGED <<op, bin, saved, held>>
  BY <1>1 DEF opVars
<1>4. Sources(op.to)' = Sources(op.to) /\ disk' \in Metas
  BY <1>1, <1>2, <1>3 DEF Sources, Metas
<1>5. OpSession'
  BY <1>1, <1>2, <1>3, <1>4 DEF OpInv, OpSession
<1>6. OpProgress'
  BY <1>1, <1>2, <1>3 DEF OpInv, OpProgress
<1>7. OpKeeps'
  <2>1. ASSUME disk[p] = None
        PROVE  ContentsOf(disk) \subseteq ContentsOf(disk')
    BY <1>1, <1>2, <2>1 DEF ContentsOf, Metas
  <2>2. \A q \in todo' : disk'[q] = disk[q]
    BY <1>1, <1>2 DEF Metas, Sources
  <2>q. QED BY <1>1, <1>2, <1>3, <2>1, <2>2 DEF OpInv, OpKeeps, InBin, ContentsOf
<1>q. QED BY <1>1, <1>2, <1>4, <1>5, <1>6, <1>7, TransferStepKeeps DEF OpPhases

(* createItem and removeItem: the meta catches up with the disk.           *)
LEMMA RecordsKeep ==
  ASSUME OpInv, RecordTarget \/ ForgetSource
  PROVE  OpInv'
<1> USE NoneAssumption
<1>1. pc \in {"record", "forget"} /\ UNCHANGED <<disk, todo, current, outcome, command, accurate, opVars>>
  BY DEF RecordTarget, ForgetSource, startVars
<1>2. /\ command = "operation" /\ outcome = "none" /\ op.kind \in {"copy", "move", "add"}
      /\ current \in Sources(op.to)
      /\ todo \subseteq Sources(op.to) /\ disk \in Metas /\ meta \in Metas /\ op.content \in Metas
      /\ current \in Paths /\ To(current) \in Paths /\ (op.kind = "add" => To(current) = current)
  BY <1>1 DEF OpInv, OpSession, OpTypeOK, Sources, To
<1>3. UNCHANGED <<op, bin, saved, held>>
  BY <1>1 DEF opVars
<1>4. To(current)' = To(current) /\ Sources(op.to)' = Sources(op.to)
  BY <1>1, <1>3 DEF To, Sources
<1>5. OpKeeps' /\ pc' # "idle"
  BY <1>1, <1>2, <1>3, <1>4 DEF OpInv, OpKeeps, InBin, ContentsOf, RecordTarget, ForgetSource
<1>6. CASE RecordTarget
  <2>1. /\ pc = "record"
        /\ meta' = [meta EXCEPT ![To(current)] = IF op.kind = "add" THEN op.content[current] ELSE meta[current]]
        /\ pc' = IF op.kind = "move" THEN "forget" ELSE "next"
    BY <1>6 DEF RecordTarget
  <2>2. meta' \in Metas
    BY <1>2, <2>1 DEF Metas
  <2>3. OpSession'
    BY <1>1, <1>2, <1>3, <1>4, <2>1 DEF OpInv, OpSession
  <2>4. accurate => disk = CASE op.kind = "add"  -> [meta EXCEPT ![current] = op.content[current]]
                             [] op.kind = "copy" -> [meta EXCEPT ![To(current)] = meta[current]]
                             [] op.kind = "move" -> [meta EXCEPT ![To(current)] = meta[current], ![current] = None]
    BY <1>2, <2>1 DEF OpInv, OpProgress
  <2>7. OpProgress'
    <3>1. CASE op.kind = "move"
      <4>1. accurate => disk = [meta' EXCEPT ![current] = None]
        BY <1>2, <2>1, <2>4, <3>1 DEF Metas
      <4>q. QED BY <1>1, <1>2, <1>3, <2>1, <3>1, <4>1 DEF OpProgress
    <3>2. CASE op.kind # "move"
      <4>1. accurate => disk = meta'
        BY <1>2, <2>1, <2>4, <3>2
      <4>q. QED BY <1>1, <1>2, <1>3, <2>1, <3>2, <4>1 DEF OpProgress
    <3>q. QED BY <3>1, <3>2
  <2>q. QED BY <1>1, <1>2, <1>5, <2>1, <2>2, <2>3, <2>7, TransferStepKeeps DEF OpPhases
<1>7. CASE ForgetSource
  <2>1. pc = "forget" /\ meta' = [meta EXCEPT ![current] = None] /\ pc' = "next"
    BY <1>7 DEF ForgetSource
  <2>2. meta' \in Metas
    BY <1>2, <2>1 DEF Metas
  <2>3. OpSession'
    BY <1>1, <1>2, <1>3, <1>4, <2>1 DEF OpInv, OpSession
  <2>4. OpProgress'
    <3>1. accurate => disk = meta'
      BY <1>2, <2>1 DEF OpInv, OpProgress
    <3>q. QED BY <1>1, <1>2, <1>3, <2>1, <3>1 DEF OpProgress
  <2>q. QED BY <1>1, <1>2, <1>5, <2>1, <2>2, <2>3, <2>4, TransferStepKeeps DEF OpPhases
<1>q. QED BY <1>6, <1>7

LEMMA NextFileKeeps ==
  ASSUME OpInv, NextFile
  PROVE  OpInv'
<1>1. pc \in {"next", "done"} /\ UNCHANGED <<disk, meta, command, accurate, opVars>>
  BY DEF NextFile, EndOp, startVars, opVars
<1>2. /\ command = "operation" /\ outcome = "none" /\ disk \in Metas /\ meta \in Metas
      /\ accurate => meta = disk
  BY <1>1 DEF OpInv, OpSession, OpTypeOK, OpProgress
<1>3. CASE pc = "next" /\ todo # {}
  <2>1. pc' = IF op.kind = "add" THEN "act" ELSE "assert"
    BY <1>3 DEF NextFile
  <2>2. UNCHANGED <<todo, outcome, op, bin, saved, held>>
    BY <1>1, <1>3 DEF NextFile, opVars
  <2>3. op.kind \in {"copy", "move", "add"} /\ todo \subseteq Sources(op.to)
    BY <1>3 DEF OpInv, OpSession
  <2>4. OpSession'
    BY <1>1, <1>2, <2>1, <2>2, <2>3 DEF OpInv, OpSession, Sources
  <2>5. OpProgress'
    BY <1>1, <1>2, <2>1, <2>2, <2>3 DEF OpProgress
  <2>6. OpKeeps'
    BY <1>1, <1>2, <2>1, <2>2, <2>3 DEF OpInv, OpKeeps, InBin, ContentsOf
  <2>q. QED BY <1>1, <1>2, <2>1, <2>2, <2>4, <2>5, <2>6, TransferStepKeeps DEF OpPhases
<1>4. CASE ~(pc = "next" /\ todo # {})
  <2>1. End("done")
    BY <1>4 DEF NextFile, EndOp
  <2>q. QED BY <1>1, <1>2, <2>1, EndOpKeeps
<1>q. QED BY <1>3, <1>4

(* A file goes; a dedupe puts the first of a sha1 away, and with an        *)
(* accurate meta the sha1 is that of the file.                             *)
LEMMA RemoveFileKeeps ==
  ASSUME OpInv, NEW p \in Paths, RemoveFile(p)
  PROVE  OpInv'
<1> USE NoneAssumption
<1>1. pc = "remove" /\ p \in todo /\ UNCHANGED <<meta, held, command, accurate>>
  BY DEF RemoveFile, EndOp, startVars, opVars
<1>2. /\ command = "operation" /\ outcome = "none" /\ op.kind \in {"delete", "dedupe"}
      /\ todo \subseteq Paths /\ disk \in Metas /\ meta \in Metas /\ op.to \in [Paths -> Paths \cup {None}]
      /\ bin = [b \in Bins |-> bin[b]]
      /\ op \in [kind : OpKinds, overwrite : BOOLEAN, to : [Paths -> Paths \cup {None}], content : Metas]
  BY <1>1 DEF OpInv, OpSession, OpTypeOK
<1>3. CASE disk[p] = None
  <2>1. End("failed") /\ UNCHANGED <<disk, opVars>>
    BY <1>3 DEF RemoveFile, EndOp, opVars
  <2>q. QED BY <1>1, <2>1, EndOpKeeps
<1>4. CASE disk[p] # None
  <2>1. /\ disk' = [disk EXCEPT ![p] = None] /\ todo' = todo \ {p}
        /\ op' = [op EXCEPT !.to = [@ EXCEPT ![p] = p]]
        /\ KeepInBin(p) /\ UNCHANGED <<pc, current, outcome>>
    BY <1>4 DEF RemoveFile
  <2>2. /\ op'.kind = op.kind /\ op'.overwrite = op.overwrite /\ op'.to = [op.to EXCEPT ![p] = p]
        /\ op' \in [kind : OpKinds, overwrite : BOOLEAN, to : [Paths -> Paths \cup {None}], content : Metas]
    BY <1>2, <2>1
  <2>3. Sources(op.to)' = Sources(op.to) \cup {p}
    BY <1>2, <2>2 DEF Sources
  <2>4. disk' \in Metas /\ bin' = [b \in Bins |-> bin'[b]]
    BY <1>2, <2>1 DEF Metas, KeepInBin
  <2>5. OpTypeOK'
    BY <1>1, <1>2, <2>1, <2>2, <2>4 DEF OpTypeOK, OpPhases, Bins
  <2>6. OpSession'
    BY <1>1, <1>2, <2>1, <2>2 DEF OpSession
  <2>7. accurate => /\ disk = [q \in Paths |-> IF q \in Sources(op.to) THEN None ELSE meta[q]]
                    /\ todo \cap Sources(op.to) = {}
    BY <1>1, <1>2 DEF OpInv, OpProgress
  <2>8. OpProgress'
    <3>1. accurate => disk' = [q \in Paths |-> IF q \in Sources(op.to)' THEN None ELSE meta[q]]
      BY <1>2, <2>1, <2>3, <2>7 DEF Metas
    <3>2. accurate => todo' \cap Sources(op.to)' = {}
      BY <2>1, <2>3, <2>7
    <3>q. QED BY <1>1, <1>2, <2>1, <2>2, <3>1, <3>2 DEF OpProgress
  <2>9. OpKeeps'
    <3> SUFFICES ASSUME accurate, op.kind = "dedupe", ~op.overwrite
                 PROVE  /\ \A c \in held : c \in ContentsOf(disk)' \cup saved'
                        /\ \A c \in saved' : c \in Contents /\ InBin(c)'
      BY <1>1, <1>2, <2>1, <2>2 DEF OpKeeps
    <3>1. /\ \A c \in held : c \in ContentsOf(disk) \cup saved
          /\ \A c \in saved : c \in Contents /\ InBin(c)
      BY <1>1, <1>2 DEF OpInv, OpKeeps
    <3>2. meta[p] = disk[p] /\ disk[p] \in Contents
      BY <1>1, <1>2, <1>4, <2>7 DEF Metas
    <3>3. \A c \in ContentsOf(disk) : c \in ContentsOf(disk)' \/ c = disk[p]
      BY <1>2, <2>1 DEF ContentsOf, Metas
    <3>4. CASE meta[p] \in saved
      <4>1. UNCHANGED <<bin, saved>>
        BY <2>1, <3>4 DEF KeepInBin
      <4>q. QED BY <3>1, <3>2, <3>3, <3>4, <4>1 DEF InBin
    <3>5. CASE meta[p] \notin saved
      <4>1. bin' = [bin EXCEPT ![<<meta[p], Basename[p]>>] = disk[p]] /\ saved' = saved \cup {meta[p]}
        BY <2>1, <3>5 DEF KeepInBin
      <4>2. <<meta[p], Basename[p]>> \in Bins
        BY <3>2 DEF Bins
      <4>3. ASSUME NEW c, c = disk[p]
            PROVE  c \in Contents /\ InBin(c)'
        BY <1>2, <3>2, <4>1, <4>2, <4>3 DEF InBin
      <4>4. ASSUME NEW c \in saved
            PROVE  InBin(c)'
        <5>1. PICK q \in Paths : bin[<<c, Basename[q]>>] = c
          BY <3>1 DEF InBin
        <5>2. c \in Contents /\ c # meta[p] /\ <<c, Basename[q]>> \in Bins
          BY <3>1, <3>5 DEF Bins
        <5>3. <<c, Basename[q]>> # <<meta[p], Basename[p]>>
          BY <5>2
        <5>4. bin'[<<c, Basename[q]>>] = c
          BY <1>2, <4>1, <5>1, <5>2, <5>3
        <5>q. QED BY <5>4 DEF InBin
      <4>q. QED BY <3>1, <3>2, <3>3, <4>1, <4>3, <4>4
    <3>q. QED BY <3>4, <3>5
  <2>q. QED BY <2>5, <2>6, <2>8, <2>9 DEF OpInv
<1>q. QED BY <1>3, <1>4

(* removeItems: the items of the files that went, one after the other.     *)
LEMMA RemovalsKeep ==
  ASSUME OpInv, RemoveItems \/ ItemsRemoved \/ \E p \in Paths : RemoveItem(p)
  PROVE  OpInv'
<1>1. /\ pc \in {"remove", "unlist"} /\ UNCHANGED <<disk, command, accurate, opVars>>
  BY DEF RemoveItems, ItemsRemoved, RemoveItem, EndOp, startVars, opVars
<1>2. /\ command = "operation" /\ outcome = "none" /\ op.kind \in {"delete", "dedupe"}
      /\ todo \subseteq Paths /\ disk \in Metas /\ meta \in Metas
  BY <1>1 DEF OpInv, OpSession, OpTypeOK
<1>3. UNCHANGED <<op, bin, saved, held>>
  BY <1>1 DEF opVars
<1>4. CASE RemoveItems
  <2>1. pc = "remove" /\ pc' = "unlist" /\ todo' = Sources(op.to) /\ UNCHANGED <<meta, current, outcome>>
    BY <1>4 DEF RemoveItems
  <2>2. Sources(op.to) \subseteq Paths
    BY DEF Sources
  <2>3. OpSession'
    BY <1>1, <1>2, <1>3, <2>1, <2>2 DEF OpSession
  <2>4. OpProgress'
    BY <1>1, <1>2, <1>3, <2>1 DEF OpInv, OpProgress
  <2>5. OpKeeps'
    BY <1>1, <1>2, <1>3, <2>1 DEF OpInv, OpKeeps, InBin, ContentsOf
  <2>q. QED BY <1>1, <1>2, <2>1, <2>3, <2>4, <2>5, TransferStepKeeps DEF OpPhases
<1>5. CASE ItemsRemoved
  <2>1. pc = "unlist" /\ todo = {} /\ End("done") /\ UNCHANGED meta
    BY <1>5 DEF ItemsRemoved, EndOp
  <2>2. accurate => meta = disk
    BY <1>2, <2>1 DEF OpInv, OpProgress, Metas
  <2>q. QED BY <1>1, <2>1, <2>2, EndOpKeeps
<1>6. ASSUME NEW p \in Paths, RemoveItem(p)
      PROVE  OpInv'
  <2>1. /\ pc = "unlist" /\ p \in todo /\ meta' = [meta EXCEPT ![p] = None] /\ todo' = todo \ {p}
        /\ UNCHANGED <<pc, current, outcome>>
    BY <1>6 DEF RemoveItem
  <2>2. meta' \in Metas
    BY <1>2, <2>1 DEF Metas
  <2>3. OpSession'
    BY <1>1, <1>2, <1>3, <2>1 DEF OpSession
  <2>4. OpProgress'
    <3>1. accurate => disk = [q \in Paths |-> IF q \in todo THEN None ELSE meta[q]]
      BY <1>2, <2>1 DEF OpInv, OpProgress
    <3>2. accurate => disk = [q \in Paths |-> IF q \in todo' THEN None ELSE meta'[q]]
      BY <1>2, <2>1, <3>1 DEF Metas
    <3>q. QED BY <1>1, <1>2, <1>3, <2>1, <3>2 DEF OpProgress
  <2>5. OpKeeps'
    BY <1>1, <1>2, <1>3, <2>1 DEF OpInv, OpKeeps, InBin, ContentsOf
  <2>q. QED BY <1>1, <1>2, <2>1, <2>2, <2>3, <2>4, <2>5, TransferStepKeeps DEF OpPhases
<1>q. QED BY <1>4, <1>5, <1>6

LEMMA OpStopKeeps ==
  ASSUME OpInv, Stop, UNCHANGED opVars
  PROVE  OpInv'
<1>1. pc # "idle" /\ End("stopped") /\ UNCHANGED <<disk, meta, command, accurate>>
  BY DEF Stop, startVars
<1>q. QED BY <1>1, EndOpKeeps

-----------------------------------------------------------------------------
(* The pull.  Every entry brings its path, and the path a file moves away  *)
(* from, to what the source has there.                                     *)
PullPhases == {"receive", "added", "modified", "moved", "copied", "deleted"}
NoCopies == \A p \in Paths : copied[p] = None

\* The client's directory with the entries of the paths in H applied.
PullEffect(H) ==
  [p \in Paths |-> IF p \in H \/ \E q \in Paths : q \in H /\ moved[q] = p
                   THEN sourceMeta[p] ELSE targetMeta[p]]

\* The entries whose files are in place.
FilesDone ==
  CASE pc = "receive"               -> (added \cup modified) \ todo
    [] pc \in {"added", "modified"} -> added \cup modified
    [] pc = "moved"                 -> added \cup modified \cup (PullList("moved") \ todo)
    [] pc = "copied"                -> added \cup modified \cup PullList("moved")
    [] pc = "deleted"               -> added \cup modified \cup PullList("moved") \cup (deleted \ todo)

\* Those that are recorded.
ItemsDone ==
  CASE pc = "receive"  -> {}
    [] pc = "added"    -> added \ todo
    [] pc = "modified" -> added \cup (modified \ todo)
    [] OTHER           -> FilesDone \ {current}

PullTypeOK ==
  /\ sourceDisk = [p \in Paths |-> sourceDisk[p]]
  /\ disk = [p \in Paths |-> disk[p]]
  /\ meta = [p \in Paths |-> meta[p]]
  /\ pc \in {"idle", "diff"} \cup PullPhases

PullSession ==
  /\ pc # "idle" => command = "pull" /\ outcome = "none"
  /\ pc = "diff" => diffPhase \in {"scan", "ready"}
  /\ pc \in PullPhases => diffPhase = "ready" /\ todo \subseteq PullList(pc)
  /\ current # None => pc \in {"receive", "moved", "copied", "deleted"} /\ current \in PullList(pc) \ todo

PullProgress ==
  accurate /\ fresh =>
    /\ pc # "idle" => sourceMeta = sourceDisk
    /\ pc = "diff" => disk = targetMeta /\ meta = targetMeta
    /\ pc \in PullPhases /\ NoCopies =>
         /\ disk = IF pc = "receive" /\ current # None
                   THEN [PullEffect(FilesDone) EXCEPT ![current] = Torn] ELSE PullEffect(FilesDone)
         /\ meta = PullEffect(ItemsDone)
    /\ outcome = "done" /\ NoCopies => disk = sourceDisk /\ meta = disk

PullInv == PullTypeOK /\ DiffCore /\ PullSession /\ (command = "pull" => PullProgress)

LEMMA PullEffectOfOne ==
  ASSUME DiffCore, diffPhase = "ready", NEW H, NEW p \in Paths
  PROVE  /\ moved[p] = None => PullEffect(H \cup {p}) = [PullEffect(H) EXCEPT ![p] = sourceMeta[p]]
         /\ moved[p] # None => PullEffect(H \cup {p})
              = [PullEffect(H) EXCEPT ![p] = sourceMeta[p], ![moved[p]] = None]
<1> USE NoneAssumption
<1>1. CASE moved[p] = None
  BY <1>1 DEF PullEffect
<1>2. CASE moved[p] # None
  <2>1. moved[p] \in Paths /\ sourceMeta[moved[p]] = None /\ sourceMeta[p] # None
    BY <1>2, CoreListFacts DEF PathOnlyInTarget
  <2>2. moved[p] # p
    BY <2>1
  <2>q. QED BY <1>2, <2>1, <2>2 DEF PullEffect
<1>q. QED BY <1>1, <1>2

LEMMA PullEffectOfNone ==
  ASSUME DiffCore
  PROVE  PullEffect({}) = targetMeta
BY DEF DiffCore, DiffListsOK, PullEffect

(* With every entry applied, and no copies, the client has what the source *)
(* has.                                                                    *)
LEMMA PullEffectOfAll ==
  ASSUME DiffCore, diffPhase = "ready", NoCopies, NEW H,
         \A p \in Paths : p \in added \/ p \in modified \/ moved[p] # None \/ p \in deleted => p \in H
  PROVE  PullEffect(H) = sourceMeta
<1> USE NoneAssumption
<1>1. Applied = sourceMeta
  BY DiffCoreApplied DEF DiffReproducesSource
<1>2. ASSUME NEW p \in Paths
      PROVE  PullEffect(H)[p] = sourceMeta[p]
  <2>1. CASE p \in H \/ \E q \in Paths : q \in H /\ moved[q] = p
    BY <2>1 DEF PullEffect
  <2>2. CASE ~(p \in H \/ \E q \in Paths : q \in H /\ moved[q] = p)
    <3>1. p \notin PathOfMovedInTarget
      BY <2>2 DEF PathOfMovedInTarget
    <3>2. Applied[p] = targetMeta[p]
      BY <2>2, <3>1 DEF Applied, NoCopies
    <3>q. QED BY <1>1, <2>2, <3>2 DEF PullEffect
  <2>q. QED BY <2>1, <2>2
<1>3. sourceMeta = [p \in Paths |-> sourceMeta[p]]
  BY DEF DiffCore, DiffListsOK
<1>q. QED BY <1>2, <1>3 DEF PullEffect

(* The lists of the pull have no path in common, and what a move takes is  *)
(* still as the diff saw it.                                               *)
LEMMA PullListsApart ==
  ASSUME DiffCore, diffPhase = "ready", pc \in PullPhases, todo \subseteq PullList(pc), NEW p \in todo
  PROVE  /\ p \in Paths
         /\ pc \in {"receive", "moved", "deleted"} => p \notin FilesDone
         /\ pc \in {"added", "modified"} => p \notin ItemsDone
         /\ pc # "moved" => (pc # "copied" => moved[p] = None)
         /\ pc = "moved" => /\ moved[p] \in Paths /\ moved[p] # None
                            /\ targetMeta[moved[p]] = sourceMeta[p] /\ sourceMeta[p] # None
                            /\ PullEffect(FilesDone)[moved[p]] = targetMeta[moved[p]]
         /\ pc = "deleted" => sourceMeta[p] = None
<1> USE NoneAssumption
<1>1. /\ added \subseteq Paths /\ modified \subseteq Paths /\ deleted \subseteq Paths
  BY DEF DiffCore, DiffListsOK
<1>2. /\ \A q \in added \cup modified : sourceMeta[q] # None /\ moved[q] = None
      /\ \A q \in PullList("moved") : sourceMeta[q] # None /\ moved[q] # None
      /\ \A q \in deleted : q \in Paths /\ sourceMeta[q] = None
  BY CoreListFacts DEF PullList, PathOnlyInTarget
<1>3. \A q \in deleted : moved[q] = None
  BY <1>2, CoreListFacts
<1>4. added \cap modified = {}
  <2>1. ASSUME NEW q \in added
        PROVE  q \notin modified
    <3>1. q \in Paths /\ q \in PathOnlyInSource
      BY <1>1, <2>1 DEF DiffCore, ScanInv, InNoList
    <3>q. QED BY <3>1 DEF DiffCore, ResultInv, PathOnlyInSource, PathCommon
  <2>q. QED BY <2>1
<1>5. CASE pc = "receive"
  BY <1>1, <1>2, <1>5 DEF FilesDone, PullList
<1>6. CASE pc = "added"
  BY <1>1, <1>2, <1>6 DEF ItemsDone, PullList
<1>7. CASE pc = "modified"
  BY <1>1, <1>2, <1>4, <1>7 DEF ItemsDone, PullList
<1>8. CASE pc = "moved"
  <2>1. p \in Paths /\ moved[p] # None /\ p \notin added \cup modified
    BY <1>2, <1>8 DEF PullList
  <2>2. FilesDone = added \cup modified \cup (PullList("moved") \ todo)
    BY <1>8 DEF FilesDone
  <2>3. p \notin FilesDone
    BY <2>1, <2>2
  <2>4. /\ moved[p] \in Paths /\ sourceMeta[moved[p]] = None
        /\ targetMeta[moved[p]] = sourceMeta[p] /\ sourceMeta[p] # None
    BY <2>1, CoreListFacts DEF PathOnlyInTarget
  <2>5. moved[p] \notin FilesDone
    BY <1>2, <2>2, <2>4
  <2>6. \A q \in Paths : moved[q] = moved[p] => q = p
    BY <2>1 DEF DiffCore, ScanInv
  <2>7. PullEffect(FilesDone)[moved[p]] = targetMeta[moved[p]]
    BY <2>3, <2>4, <2>5, <2>6 DEF PullEffect
  <2>q. QED BY <1>8, <2>1, <2>3, <2>4, <2>7
<1>9. CASE pc = "copied"
  BY <1>9 DEF PullList
<1>10. CASE pc = "deleted"
  BY <1>1, <1>2, <1>3, <1>10 DEF FilesDone, PullList
<1>q. QED BY <1>5, <1>6, <1>7, <1>8, <1>9, <1>10 DEF PullPhases

LEMMA PullUnchanged ==
  ASSUME UNCHANGED diffVars
  PROVE  /\ UNCHANGED <<targetMeta, sourceMeta, added, copied, moved, modified, deleted, diffPhase>>
         /\ \A phase : PullList(phase)' = PullList(phase)
         /\ \A H : PullEffect(H)' = PullEffect(H)
         /\ NoCopies' = NoCopies
BY DEF diffVars, PullList, PullEffect, NoCopies

LEMMA PullInitInv == OpInit => PullInv
<1> SUFFICES ASSUME OpInit PROVE PullInv
  OBVIOUS
<1>1. /\ sourceDisk \in Metas /\ disk \in Metas /\ meta = disk /\ pc = "idle" /\ outcome = "none"
      /\ todo = {} /\ current = None /\ command = "none" /\ DiffInit
  BY DEF OpInit, PullInit, Init
<1>2. DiffCore
  BY <1>1, DiffInitCore
<1>3. PullTypeOK
  BY <1>1 DEF PullTypeOK, Metas
<1>4. PullSession
  BY <1>1 DEF PullSession, PullPhases
<1>q. QED BY <1>1, <1>2, <1>3, <1>4 DEF PullInv

(* Alignment and edits, between two commands.                              *)
LEMMA PullIdleKeeps ==
  ASSUME PullInv, UNCHANGED pullVars,
         Align \/ \E p \in Paths, c \in Contents \cup {None} : EditSource(p, c) \/ EditTarget(p, c)
  PROVE  PullInv'
<1>1. pc = "idle" /\ pc' = "idle" /\ UNCHANGED <<diffVars, todo, current, command, accurate, fresh>>
  BY DEF pullVars, Align, EditSource, EditTarget, backupVars, startVars
<1>2. DiffCore' /\ NoCopies' = NoCopies
  BY <1>1, DiffStutterCore, PullUnchanged DEF PullInv
<1>3. CASE Align
  <2>1. UNCHANGED <<sourceDisk, disk, outcome>>
    BY <1>3 DEF Align, backupVars
  <2>2. meta' = [p \in Paths |-> meta'[p]] /\ (meta = disk => meta' = disk)
    BY <1>3 DEF Align, FullInfo, PullInv, PullTypeOK
  <2>3. PullTypeOK' /\ PullSession'
    BY <1>1, <2>1, <2>2 DEF PullInv, PullTypeOK, PullSession, PullPhases
  <2>4. command = "pull" => PullProgress'
    BY <1>1, <1>2, <2>1, <2>2 DEF PullInv, PullProgress, PullPhases
  <2>q. QED BY <1>1, <1>2, <2>3, <2>4 DEF PullInv
<1>4. ASSUME NEW p \in Paths, NEW c \in Contents \cup {None}, EditSource(p, c) \/ EditTarget(p, c)
      PROVE  PullInv'
  <2>1. /\ UNCHANGED meta /\ outcome' = "none" /\ disk' = [q \in Paths |-> disk'[q]]
        /\ sourceDisk' = [q \in Paths |-> sourceDisk'[q]]
    BY <1>4 DEF EditSource, EditTarget, PullInv, PullTypeOK
  <2>2. PullTypeOK' /\ PullSession'
    BY <1>1, <2>1 DEF PullInv, PullTypeOK, PullSession, PullPhases
  <2>3. PullProgress'
    BY <1>1, <2>1 DEF PullProgress, PullPhases
  <2>q. QED BY <1>2, <2>2, <2>3 DEF PullInv
<1>q. QED BY <1>3, <1>4

(* The pull begins: the meta is aligned, and a server with a current meta  *)
(* announces what its directory holds.                                     *)
LEMMA PullStartKeeps ==
  ASSUME PullInv, PullStart
  PROVE  PullInv'
<1>1. /\ pc = "idle" /\ meta' = AlignedTarget /\ targetMeta' = AlignedTarget /\ sourceMeta' = ServerView
      /\ diffPhase' = "scan" /\ fresh' = (sourceSaved = sourceDisk) /\ accurate' = (AlignedTarget = disk)
      /\ command' = "pull" /\ pc' = "diff" /\ outcome' = "none" /\ UNCHANGED <<sourceDisk, disk, todo, current>>
      /\ BeginDiff(AlignedTarget, ServerView)
  BY DEF PullStart, BeginDiff
<1>2. /\ AlignedTarget = [p \in Paths |-> AlignedTarget[p]]
      /\ ServerView = [p \in Paths |-> ServerView[p]]
  BY DEF AlignedTarget, ServerView
<1>3. DiffCore'
  BY <1>1, <1>2, BeginDiffCore
<1>4. PullTypeOK' /\ PullSession'
  BY <1>1, <1>2 DEF PullInv, PullTypeOK, PullSession, PullPhases
<1>5. sourceSaved = sourceDisk => ServerView = sourceDisk
  BY DEF ServerView, PullInv, PullTypeOK
<1>6. PullProgress'
  BY <1>1, <1>5 DEF PullProgress, PullPhases
<1>q. QED BY <1>3, <1>4, <1>6 DEF PullInv

LEMMA PullDiffKeeps ==
  ASSUME PullInv, Diff, UNCHANGED pullVars
  PROVE  PullInv'
<1>1. DiffCore'
  BY ScanPathCore, FinishDiffCore DEF Diff, PullInv
<1>2. /\ UNCHANGED <<sourceMeta, targetMeta>> /\ diffPhase' \in {"scan", "ready"} /\ pc = "diff"
      /\ UNCHANGED <<sourceDisk, disk, meta, pc, todo, current, outcome, command, accurate, fresh>>
  BY DEF Diff, ScanPath, FinishDiff, backupVars, startVars, pullVars
<1>3. PullTypeOK' /\ PullSession'
  BY <1>2 DEF PullInv, PullTypeOK, PullSession, PullPhases
<1>4. outcome = "none"
  BY <1>2 DEF PullInv, PullSession
<1>5. command = "pull" => PullProgress'
  BY <1>2, <1>4 DEF PullInv, PullProgress, PullPhases
<1>q. QED BY <1>1, <1>2, <1>3, <1>5 DEF PullInv

(* A pull that ends: well only with the files of the source.               *)
LEMMA PullEndKeeps ==
  ASSUME PullInv, NEW o, End(o), DiffCore',
         UNCHANGED <<sourceDisk, disk, meta, command, accurate, fresh, copied>>,
         o = "done" => (command = "pull" /\ accurate /\ fresh /\ NoCopies => disk = sourceDisk /\ meta = disk)
  PROVE  PullInv'
<1>1. pc' = "idle" /\ outcome' = o /\ todo' = {} /\ current' = None
  BY DEF End
<1>2. PullTypeOK' /\ PullSession'
  BY <1>1 DEF PullInv, PullTypeOK, PullSession, PullPhases
<1>3. command = "pull" => PullProgress'
  BY <1>1 DEF PullProgress, NoCopies, PullPhases
<1>q. QED BY <1>2, <1>3 DEF PullInv

LEMMA PullConfirmKeeps ==
  ASSUME PullInv, PullConfirm \/ PullRefused
  PROVE  PullInv'
<1>1. /\ pc = "diff" /\ command = "pull" /\ diffPhase = "ready" /\ UNCHANGED diffVars
      /\ UNCHANGED <<sourceDisk, disk, meta, command, accurate, fresh>>
  BY DEF PullConfirm, PullRefused, startVars, pullVars
<1>2. DiffCore /\ DiffCore' /\ UNCHANGED copied
  BY <1>1, DiffStutterCore, PullUnchanged DEF PullInv
<1>3. CASE PullRefused \/ ~NeedAction
  <2>1. PICK o \in {"done", "refused"} : End(o) /\ (o = "done" => ~NeedAction)
    BY <1>3 DEF PullConfirm, PullRefused
  <2>2. ~NeedAction => targetMeta = sourceMeta
    BY <1>1, <1>2, PullEffectOfAll, PullEffectOfNone DEF NeedAction, NoCopies
  <2>3. ~NeedAction => (accurate /\ fresh => disk = sourceDisk /\ meta = disk)
    BY <1>1, <2>2 DEF PullInv, PullProgress
  <2>q. QED BY <1>1, <1>2, <2>1, <2>3, PullEndKeeps
<1>4. CASE PullConfirm /\ NeedAction
  <2>1. pc' = "receive" /\ todo' = PullList("receive") /\ UNCHANGED <<current, outcome>>
    BY <1>4 DEF PullConfirm, EnterPull
  <2>2. current = None /\ outcome = "none"
    BY <1>1 DEF PullInv, PullSession
  <2>3. PullTypeOK' /\ PullSession'
    BY <1>1, <2>1, <2>2, PullUnchanged DEF PullInv, PullTypeOK, PullSession, PullPhases
  <2>4. FilesDone' = {} /\ ItemsDone' = {}
    BY <1>1, <2>1, PullUnchanged DEF FilesDone, ItemsDone, PullList
  <2>5. PullEffect(FilesDone)' = targetMeta /\ PullEffect(ItemsDone)' = targetMeta
    BY <1>1, <1>2, <2>4, PullUnchanged, PullEffectOfNone
  <2>6. accurate /\ fresh => disk = targetMeta /\ meta = targetMeta /\ sourceMeta = sourceDisk
    BY <1>1 DEF PullInv, PullProgress
  <2>7. PullProgress'
    BY <1>1, <2>1, <2>2, <2>5, <2>6, PullUnchanged DEF PullProgress
  <2>q. QED BY <1>2, <2>3, <2>7 DEF PullInv
<1>q. QED BY <1>3, <1>4

(* A list is done: the next one, or the end.                               *)
LEMMA PullFinishPhaseKeeps ==
  ASSUME PullInv, PullFinishPhase
  PROVE  PullInv'
<1> USE NoneAssumption
<1>1. /\ pc \in PullPhases /\ todo = {} /\ current = None /\ UNCHANGED diffVars
      /\ UNCHANGED <<sourceDisk, disk, meta, command, accurate, fresh>>
  BY DEF PullFinishPhase, NextPullPhase, PullPhases, startVars, pullVars
<1>2. DiffCore /\ DiffCore' /\ UNCHANGED copied /\ diffPhase = "ready" /\ command = "pull" /\ outcome = "none"
  BY <1>1, DiffStutterCore, PullUnchanged DEF PullInv, PullSession, PullPhases
<1>3. added \subseteq Paths /\ modified \subseteq Paths /\ deleted \subseteq Paths
  BY <1>2 DEF DiffCore, DiffListsOK
<1>4. None \notin FilesDone
  BY <1>1, <1>3 DEF FilesDone, PullList, PullPhases
<1>5. /\ accurate /\ fresh /\ NoCopies => disk = PullEffect(FilesDone) /\ meta = PullEffect(ItemsDone)
      /\ accurate /\ fresh => sourceMeta = sourceDisk
  BY <1>1, <1>2 DEF PullInv, PullProgress, PullPhases
<1>6. CASE pc = "deleted"
  <2>1. End("done")
    BY <1>6 DEF PullFinishPhase, NextPullPhase
  <2>2. FilesDone = added \cup modified \cup PullList("moved") \cup deleted /\ ItemsDone = FilesDone
    BY <1>1, <1>4, <1>6 DEF FilesDone, ItemsDone
  <2>3. NoCopies => PullEffect(FilesDone) = sourceMeta
    BY <1>2, <2>2, PullEffectOfAll DEF PullList
  <2>q. QED BY <1>1, <1>2, <1>5, <2>1, <2>2, <2>3, PullEndKeeps
<1>7. CASE pc # "deleted"
  <2>1. /\ pc' = NextPullPhase[pc] /\ todo' = PullList(pc') /\ UNCHANGED <<current, outcome>>
        /\ pc' \in PullPhases \ {"receive"}
    BY <1>1, <1>7 DEF PullFinishPhase, NextPullPhase, PullPhases, EnterPull
  <2>2. PullTypeOK' /\ PullSession'
    BY <1>1, <1>2, <2>1, PullUnchanged DEF PullInv, PullTypeOK, PullSession, PullPhases
  <2>3. FilesDone' = FilesDone
    <3>1. PullList("moved")' = PullList("moved") /\ UNCHANGED <<added, modified, deleted>>
      BY <1>1, PullUnchanged
    <3>2. PullList("moved") \ PullList("moved") = {} /\ deleted \ deleted = {}
      OBVIOUS
    <3>3. CASE pc = "receive"
      <4>1. pc' = "added"
        BY <2>1, <3>3 DEF NextPullPhase
      <4>q. QED BY <1>1, <3>1, <3>3, <4>1 DEF FilesDone
    <3>4. CASE pc = "added"
      <4>1. pc' = "modified"
        BY <2>1, <3>4 DEF NextPullPhase
      <4>q. QED BY <3>1, <3>4, <4>1 DEF FilesDone
    <3>5. CASE pc = "modified"
      <4>1. pc' = "moved" /\ todo' = PullList("moved")
        BY <2>1, <3>1, <3>5 DEF NextPullPhase
      <4>q. QED BY <3>1, <3>2, <3>5, <4>1 DEF FilesDone
    <3>6. CASE pc = "moved"
      <4>1. pc' = "copied"
        BY <2>1, <3>6 DEF NextPullPhase
      <4>q. QED BY <1>1, <3>1, <3>6, <4>1 DEF FilesDone
    <3>7. CASE pc = "copied"
      <4>1. pc' = "deleted" /\ todo' = deleted
        BY <2>1, <3>1, <3>7 DEF NextPullPhase, PullList
      <4>q. QED BY <3>1, <3>2, <3>7, <4>1 DEF FilesDone
    <3>q. QED BY <1>1, <1>7, <3>3, <3>4, <3>5, <3>6, <3>7 DEF PullPhases
  <2>4. ItemsDone' = ItemsDone
    <3>1. FilesDone \ {None} = FilesDone /\ FilesDone' \ {current'} = FilesDone
      BY <1>1, <1>4, <2>1, <2>3
    <3>2. CASE pc \in {"receive", "added"}
      BY <1>1, <2>1, <3>2, PullUnchanged DEF ItemsDone, PullList, NextPullPhase
    <3>3. CASE pc = "modified"
      <4>1. pc' = "moved"
        BY <2>1, <3>3 DEF NextPullPhase
      <4>2. ItemsDone' = FilesDone
        BY <3>1, <4>1 DEF ItemsDone
      <4>3. FilesDone = added \cup modified /\ ItemsDone = added \cup modified
        BY <1>1, <3>3 DEF ItemsDone, FilesDone
      <4>q. QED BY <4>2, <4>3
    <3>4. CASE pc \in {"moved", "copied"}
      <4>1. pc' \in {"copied", "deleted"}
        BY <2>1, <3>4 DEF NextPullPhase
      <4>q. QED BY <1>1, <3>1, <3>4, <4>1 DEF ItemsDone
    <3>q. QED BY <1>1, <1>7, <3>2, <3>3, <3>4 DEF PullPhases
  <2>5. PullEffect(FilesDone)' = PullEffect(FilesDone) /\ PullEffect(ItemsDone)' = PullEffect(ItemsDone)
    <3>1. UNCHANGED <<targetMeta, sourceMeta, moved>>
      BY <1>1, PullUnchanged
    <3>q. QED BY <2>3, <2>4, <3>1 DEF PullEffect
  <2>6. PullProgress'
    <3>1. NoCopies' = NoCopies /\ UNCHANGED sourceMeta
      BY <1>1, PullUnchanged
    <3>2. pc' # "receive" /\ pc' # "idle" /\ pc' # "diff" /\ outcome' = "none"
      BY <1>2, <2>1 DEF PullPhases
    <3>q. QED BY <1>1, <1>5, <2>5, <3>1, <3>2 DEF PullProgress
  <2>q. QED BY <1>2, <2>2, <2>6 DEF PullInv
<1>q. QED BY <1>6, <1>7

(* The file of an entry has been brought to where its list says, or begins *)
(* to be.                                                                  *)
LEMMA PullFileKeeps ==
  ASSUME PullInv, NEW p, pc \in {"receive", "moved", "copied", "deleted"}, Ready(pc, p),
         UNCHANGED <<diffVars, sourceDisk, meta, command, accurate, fresh, pc, outcome>>,
         todo' = todo \ {p}, current' = p, disk' = [q \in Paths |-> disk'[q]],
         accurate /\ fresh /\ NoCopies =>
           disk' = IF pc = "receive" THEN [PullEffect(FilesDone \cup {p}) EXCEPT ![p] = Torn]
                   ELSE PullEffect(FilesDone \cup {p})
  PROVE  PullInv'
<1> USE NoneAssumption
<1>1. /\ pc \in PullPhases /\ p \in todo /\ todo \subseteq PullList(pc) /\ diffPhase = "ready" /\ DiffCore
      /\ current = None /\ command = "pull" /\ outcome = "none"
  BY DEF PullInv, PullSession, PullPhases, Ready
<1>2. p \in Paths /\ (pc # "copied" => p \notin FilesDone)
  BY <1>1, PullListsApart
<1>3. DiffCore'
  BY <1>1, DiffStutterCore
<1>4. /\ UNCHANGED <<targetMeta, sourceMeta, moved, added, modified, deleted, diffPhase>>
      /\ PullList(pc)' = PullList(pc) /\ PullList("moved")' = PullList("moved") /\ NoCopies' = NoCopies
  BY PullUnchanged
<1>5. PullTypeOK' /\ PullSession'
  BY <1>1, <1>2, <1>4 DEF PullInv, PullTypeOK, PullSession, PullPhases
<1>6. pc = "copied" => ~NoCopies
  BY <1>1 DEF NoCopies, PullList
<1>7. CASE pc = "copied"
  BY <1>1, <1>3, <1>4, <1>5, <1>6, <1>7 DEF PullInv, PullProgress
<1>8. CASE pc # "copied"
  <2>1. FilesDone' = FilesDone \cup {p}
    <3>1. pc = "receive" => FilesDone' = FilesDone \cup {p}
      BY <1>1, <1>4 DEF FilesDone, PullList
    <3>2. pc = "moved" => FilesDone' = FilesDone \cup {p}
      BY <1>1, <1>4 DEF FilesDone
    <3>3. pc = "deleted" => FilesDone' = FilesDone \cup {p}
      BY <1>1, <1>4 DEF FilesDone, PullList
    <3>q. QED BY <1>8, <3>1, <3>2, <3>3
  <2>2. ItemsDone' = ItemsDone
    <3>1. None \notin FilesDone
      <4>1. added \subseteq Paths /\ modified \subseteq Paths /\ deleted \subseteq Paths
        BY <1>1 DEF DiffCore, DiffListsOK
      <4>q. QED BY <1>1, <4>1 DEF FilesDone, PullList, PullPhases
    <3>2. CASE pc = "receive"
      BY <3>2 DEF ItemsDone
    <3>3. CASE pc \in {"moved", "deleted"}
      <4>1. ItemsDone = FilesDone \ {None} /\ ItemsDone' = (FilesDone \cup {p}) \ {p}
        BY <1>1, <2>1, <3>3 DEF ItemsDone
      <4>q. QED BY <1>2, <1>8, <3>1, <4>1
    <3>q. QED BY <1>8, <3>2, <3>3
  <2>3. /\ PullEffect(FilesDone)' = PullEffect(FilesDone \cup {p})
        /\ PullEffect(ItemsDone)' = PullEffect(ItemsDone)
    BY <1>4, <2>1, <2>2 DEF PullEffect
  <2>4. accurate /\ fresh /\ NoCopies => meta = PullEffect(ItemsDone)
    BY <1>1 DEF PullInv, PullProgress
  <2>5. accurate /\ fresh => sourceMeta = sourceDisk
    BY <1>1 DEF PullInv, PullProgress, PullPhases
  <2>6. PullProgress'
    <3>1. p # None /\ pc # "idle" /\ pc # "diff"
      BY <1>1, <1>2 DEF PullPhases
    <3>2. ASSUME accurate, fresh, NoCopies
          PROVE  disk' = IF pc' = "receive" /\ current' # None
                         THEN [PullEffect(FilesDone)' EXCEPT ![current'] = Torn] ELSE PullEffect(FilesDone)'
      BY <2>3, <3>1, <3>2
    <3>q. QED BY <1>1, <1>4, <2>3, <2>4, <2>5, <3>1, <3>2 DEF PullProgress
  <2>q. QED BY <1>1, <1>3, <1>5, <2>6 DEF PullInv
<1>q. QED BY <1>7, <1>8

(* A file that is not there at the server: the call throws, the pull ends. *)
LEMMA PullThrowKeeps ==
  ASSUME PullInv, Throw, UNCHANGED <<diffVars, sourceDisk, meta, command, accurate, fresh>>
  PROVE  PullInv'
<1>1. DiffCore' /\ UNCHANGED copied
  BY DiffStutterCore, PullUnchanged DEF PullInv
<1>q. QED BY <1>1, PullEndKeeps DEF Throw

(* Moves and copies whose file is not there are passed over: an accurate   *)
(* pull without copies has none.                                           *)
LEMMA SkipKeeps ==
  ASSUME PullInv, NEW p, Ready(pc, p), pc \in PullPhases, Skip(p), ~accurate \/ ~fresh \/ ~NoCopies,
         UNCHANGED <<diffVars, sourceDisk, command, accurate, fresh>>
  PROVE  PullInv'
<1>1. DiffCore' /\ NoCopies' = NoCopies /\ UNCHANGED <<diffPhase, sourceMeta>>
  BY DiffStutterCore, PullUnchanged DEF PullInv
<1>2. UNCHANGED <<disk, meta, pc, current, outcome>> /\ todo' = todo \ {p} /\ current = None
  BY DEF Skip, Ready
<1>3. PullTypeOK' /\ PullSession'
  BY <1>1, <1>2, PullUnchanged DEF PullInv, PullTypeOK, PullSession, PullPhases
<1>4. outcome = "none" /\ pc # "diff" /\ pc # "idle" /\ command = "pull"
  BY DEF PullInv, PullSession, PullPhases
<1>5. PullProgress'
  BY <1>1, <1>2, <1>4 DEF PullInv, PullProgress
<1>q. QED BY <1>1, <1>3, <1>5 DEF PullInv

LEMMA PullFilesKeep ==
  ASSUME PullInv, NEW p \in Paths, ReceiveStart(p) \/ PullMove(p) \/ PullCopy(p) \/ PullDelete(p)
  PROVE  PullInv'
<1> USE NoneAssumption
<1>1. /\ pc \in {"receive", "moved", "copied", "deleted"} /\ Ready(pc, p) /\ p \in todo /\ current = None
      /\ UNCHANGED <<diffVars, sourceDisk, command, accurate, fresh>>
  BY DEF ReceiveStart, PullMove, PullCopy, PullDelete, Ready, startVars, pullVars
<1>2. /\ DiffCore /\ diffPhase = "ready" /\ todo \subseteq PullList(pc) /\ pc \in PullPhases
      /\ disk = [q \in Paths |-> disk[q]] /\ command = "pull"
  BY <1>1 DEF PullInv, PullSession, PullTypeOK, PullPhases
<1>3. accurate /\ fresh /\ NoCopies => disk = PullEffect(FilesDone) /\ sourceMeta = sourceDisk
  BY <1>1, <1>2 DEF PullInv, PullProgress, PullPhases
<1>4. CASE ReceiveStart(p)
  <2>1. pc = "receive" /\ UNCHANGED meta
    BY <1>4 DEF ReceiveStart, Ready
  <2>2. CASE sourceDisk[p] = None
    BY <1>1, <1>4, <2>1, <2>2, PullThrowKeeps DEF ReceiveStart
  <2>3. CASE sourceDisk[p] # None
    <3>1. ChangeDisk(p, [disk EXCEPT ![p] = Torn])
      BY <1>4, <2>3 DEF ReceiveStart
    <3>2. moved[p] = None
      BY <1>1, <1>2, <2>1, PullListsApart
    <3>3. PullEffect(FilesDone \cup {p}) = [PullEffect(FilesDone) EXCEPT ![p] = sourceMeta[p]]
      BY <1>2, <3>2, PullEffectOfOne
    <3>4. accurate /\ fresh /\ NoCopies => disk' = [PullEffect(FilesDone \cup {p}) EXCEPT ![p] = Torn]
      <4> DEFINE E == PullEffect(FilesDone)
      <4>1. E = [q \in Paths |-> E[q]]
        BY DEF PullEffect
      <4>2. accurate /\ fresh /\ NoCopies => disk' = [E EXCEPT ![p] = Torn]
        BY <1>3, <3>1 DEF ChangeDisk
      <4> HIDE DEF E
      <4>3. [[E EXCEPT ![p] = sourceMeta[p]] EXCEPT ![p] = Torn] = [E EXCEPT ![p] = Torn]
        BY <4>1
      <4>q. QED BY <3>3, <4>2, <4>3 DEF E
    <3>5. disk' = [q \in Paths |-> disk'[q]]
      BY <1>2, <3>1 DEF ChangeDisk
    <3>6. todo' = todo \ {p} /\ current' = p /\ UNCHANGED <<pc, outcome>>
      BY <3>1 DEF ChangeDisk
    <3>q. QED BY <1>1, <2>1, <3>4, <3>5, <3>6, PullFileKeeps
  <2>q. QED BY <2>2, <2>3
<1>5. CASE PullMove(p)
  <2>1. pc = "moved"
    BY <1>5 DEF PullMove, Ready
  <2>2. /\ moved[p] \in Paths /\ moved[p] # None /\ targetMeta[moved[p]] = sourceMeta[p]
        /\ sourceMeta[p] # None /\ PullEffect(FilesDone)[moved[p]] = targetMeta[moved[p]]
    BY <1>1, <1>2, <2>1, PullListsApart
  <2>3. accurate /\ fresh /\ NoCopies => disk[moved[p]] = sourceMeta[p]
    BY <1>3, <2>2
  <2>4. CASE disk[moved[p]] = None
    BY <1>1, <1>2, <1>5, <2>2, <2>3, <2>4, SkipKeeps DEF PullMove
  <2>5. CASE disk[moved[p]] # None
    <3>1. ChangeDisk(p, [disk EXCEPT ![p] = disk[moved[p]], ![moved[p]] = None]) /\ UNCHANGED meta
      BY <1>5, <2>5 DEF PullMove
    <3>2. PullEffect(FilesDone \cup {p}) = [PullEffect(FilesDone) EXCEPT ![p] = sourceMeta[p], ![moved[p]] = None]
      BY <1>2, <2>2, PullEffectOfOne
    <3>3. accurate /\ fresh /\ NoCopies => disk' = PullEffect(FilesDone \cup {p})
      BY <1>3, <2>3, <3>1, <3>2 DEF ChangeDisk
    <3>4. disk' = [q \in Paths |-> disk'[q]]
      BY <1>2, <3>1 DEF ChangeDisk
    <3>5. todo' = todo \ {p} /\ current' = p /\ UNCHANGED <<pc, outcome>>
      BY <3>1 DEF ChangeDisk
    <3>q. QED BY <1>1, <2>1, <3>1, <3>3, <3>4, <3>5, PullFileKeeps
  <2>q. QED BY <2>4, <2>5
<1>6. CASE PullCopy(p)
  <2>1. pc = "copied" /\ ~NoCopies
    BY <1>1, <1>2, <1>6 DEF PullCopy, Ready, PullList, NoCopies
  <2>2. CASE disk[copied[p]] = None
    BY <1>1, <1>2, <1>6, <2>1, <2>2, SkipKeeps DEF PullCopy
  <2>3. CASE disk[copied[p]] # None
    <3>1. ChangeDisk(p, [disk EXCEPT ![p] = disk[copied[p]]]) /\ UNCHANGED meta
      BY <1>6, <2>3 DEF PullCopy
    <3>2. disk' = [q \in Paths |-> disk'[q]]
      BY <1>2, <3>1 DEF ChangeDisk
    <3>3. todo' = todo \ {p} /\ current' = p /\ UNCHANGED <<pc, outcome>>
      BY <3>1 DEF ChangeDisk
    <3>4. accurate /\ fresh /\ NoCopies => disk' = PullEffect(FilesDone \cup {p})
      BY <2>1
    <3>q. QED BY <1>1, <2>1, <3>1, <3>2, <3>3, <3>4, PullFileKeeps
  <2>q. QED BY <2>2, <2>3
<1>7. CASE PullDelete(p)
  <2>1. pc = "deleted" /\ ChangeDisk(p, [disk EXCEPT ![p] = None]) /\ UNCHANGED meta
    BY <1>7 DEF PullDelete, Ready
  <2>2. moved[p] = None /\ sourceMeta[p] = None
    BY <1>1, <1>2, <2>1, PullListsApart
  <2>3. PullEffect(FilesDone \cup {p}) = [PullEffect(FilesDone) EXCEPT ![p] = sourceMeta[p]]
    BY <1>2, <2>2, PullEffectOfOne
  <2>4. accurate /\ fresh /\ NoCopies => disk' = PullEffect(FilesDone \cup {p})
    BY <1>3, <2>1, <2>2, <2>3 DEF ChangeDisk
  <2>5. disk' = [q \in Paths |-> disk'[q]]
    BY <1>2, <2>1 DEF ChangeDisk
  <2>6. todo' = todo \ {p} /\ current' = p /\ UNCHANGED <<pc, outcome>>
    BY <2>1 DEF ChangeDisk
  <2>q. QED BY <1>1, <2>1, <2>4, <2>5, <2>6, PullFileKeeps
<1>q. QED BY <1>4, <1>5, <1>6, <1>7

(* The file in hand is there as a whole.                                   *)
LEMMA ReceiveEndKeeps ==
  ASSUME PullInv, ReceiveEnd
  PROVE  PullInv'
<1> USE NoneAssumption
<1>1. /\ pc = "receive" /\ current # None /\ disk' = [disk EXCEPT ![current] = sourceDisk[current]]
      /\ current' = None
      /\ UNCHANGED <<diffVars, sourceDisk, meta, pc, todo, outcome, command, accurate, fresh>>
  BY DEF ReceiveEnd, startVars, pullVars
<1>2. /\ DiffCore /\ DiffCore' /\ diffPhase = "ready" /\ command = "pull" /\ outcome = "none"
      /\ current \in PullList("receive") \ todo /\ disk = [p \in Paths |-> disk[p]]
  BY <1>1, DiffStutterCore DEF PullInv, PullSession, PullTypeOK, PullPhases
<1>3. current \in FilesDone /\ current \in Paths
  BY <1>1, <1>2 DEF FilesDone, PullList, DiffCore, DiffListsOK
<1>4. /\ UNCHANGED <<targetMeta, sourceMeta, moved, added, modified, deleted, diffPhase>>
      /\ PullList(pc)' = PullList(pc) /\ NoCopies' = NoCopies
  BY <1>1, PullUnchanged
<1>5. disk' = [p \in Paths |-> disk'[p]]
  BY <1>1, <1>2
<1>6. PullTypeOK' /\ PullSession'
  BY <1>1, <1>2, <1>4, <1>5 DEF PullInv, PullTypeOK, PullSession, PullPhases
<1>7. FilesDone' = FilesDone /\ ItemsDone' = ItemsDone
  BY <1>1, <1>4 DEF FilesDone, ItemsDone
<1>8. PullEffect(FilesDone)' = PullEffect(FilesDone) /\ PullEffect(ItemsDone)' = PullEffect(ItemsDone)
  BY <1>4, <1>7 DEF PullEffect
<1>9. accurate /\ fresh => sourceMeta = sourceDisk
  BY <1>1, <1>2 DEF PullInv, PullProgress
<1>10. accurate /\ fresh /\ NoCopies => disk' = PullEffect(FilesDone) /\ meta = PullEffect(ItemsDone)
  <2>1. accurate /\ fresh /\ NoCopies =>
          disk = [PullEffect(FilesDone) EXCEPT ![current] = Torn] /\ meta = PullEffect(ItemsDone)
    BY <1>1, <1>2 DEF PullInv, PullProgress, PullPhases
  <2>2. PullEffect(FilesDone)[current] = sourceMeta[current]
    BY <1>3 DEF PullEffect
  <2> DEFINE E == PullEffect(FilesDone)
  <2>3. E = [p \in Paths |-> E[p]]
    BY DEF PullEffect
  <2> HIDE DEF E
  <2>4. accurate /\ fresh /\ NoCopies => disk' = E
    BY <1>1, <1>3, <1>9, <2>1, <2>2, <2>3 DEF E
  <2>q. QED BY <2>1, <2>4 DEF E
<1>11. PullProgress'
  BY <1>1, <1>2, <1>4, <1>8, <1>9, <1>10 DEF PullProgress
<1>q. QED BY <1>2, <1>6, <1>11 DEF PullInv

(* What is recorded of an entry, the file being in place.                  *)
LEMMA PullItemKeeps ==
  ASSUME PullInv, pc \in PullPhases \ {"receive"}, meta' = [p \in Paths |-> meta'[p]],
         UNCHANGED <<diffVars, sourceDisk, disk, pc, outcome, command, accurate, fresh>>,
         current' = None, todo' \subseteq todo,
         NoCopies => FilesDone' = FilesDone /\ (accurate /\ fresh => meta' = PullEffect(ItemsDone'))
  PROVE  PullInv'
<1>1. /\ DiffCore /\ DiffCore' /\ diffPhase = "ready" /\ command = "pull" /\ outcome = "none"
      /\ todo \subseteq PullList(pc)
  BY DiffStutterCore DEF PullInv, PullSession, PullPhases
<1>2. /\ UNCHANGED <<targetMeta, sourceMeta, moved, diffPhase>>
      /\ PullList(pc)' = PullList(pc) /\ NoCopies' = NoCopies
  BY PullUnchanged
<1>3. PullTypeOK' /\ PullSession'
  BY <1>1, <1>2 DEF PullInv, PullTypeOK, PullSession, PullPhases
<1>4. NoCopies => PullEffect(FilesDone)' = PullEffect(FilesDone) /\ PullEffect(ItemsDone)' = PullEffect(ItemsDone')
  BY <1>2 DEF PullEffect
<1>5. /\ accurate /\ fresh => sourceMeta = sourceDisk
      /\ accurate /\ fresh /\ NoCopies => disk = PullEffect(FilesDone)
  BY <1>1 DEF PullInv, PullProgress, PullPhases
<1>6. pc # "idle" /\ pc # "diff" /\ pc # "receive"
  BY DEF PullPhases
<1>7. PullProgress'
  BY <1>1, <1>2, <1>4, <1>5, <1>6 DEF PullProgress
<1>q. QED BY <1>1, <1>3, <1>7 DEF PullInv

LEMMA PullRecordsKeep ==
  ASSUME PullInv, PullRecord \/ \E p \in Paths : RecordReceived(p)
  PROVE  PullInv'
<1> USE NoneAssumption
<1>1. /\ UNCHANGED <<diffVars, sourceDisk, disk, pc, outcome, command, accurate, fresh>>
      /\ pc \in PullPhases \ {"receive"}
  BY DEF PullRecord, RecordReceived, Record, PullPhases, startVars, pullVars
<1>2. /\ DiffCore /\ diffPhase = "ready" /\ todo \subseteq PullList(pc) /\ command = "pull"
      /\ meta = [p \in Paths |-> meta[p]]
  BY <1>1 DEF PullInv, PullSession, PullTypeOK, PullPhases
<1>3. /\ UNCHANGED <<moved, added, modified, deleted>> /\ PullList("moved")' = PullList("moved")
  BY <1>1, PullUnchanged
<1>4. accurate /\ fresh /\ NoCopies => meta = PullEffect(ItemsDone)
  BY <1>1, <1>2 DEF PullInv, PullProgress, PullPhases
<1>5. ASSUME NEW p \in Paths, RecordReceived(p)
      PROVE  PullInv'
  <2>1. /\ pc \in {"added", "modified"} /\ p \in todo /\ todo' = todo \ {p} /\ UNCHANGED current
        /\ meta' = [meta EXCEPT ![p] = sourceMeta[p]]
    BY <1>5 DEF RecordReceived, Record
  <2>2. current = None
    BY <2>1 DEF PullInv, PullSession
  <2>3. FilesDone' = FilesDone
    BY <1>1, <1>3, <2>1 DEF FilesDone
  <2>4. ItemsDone' = ItemsDone \cup {p}
    <3>1. pc = "added" => ItemsDone' = ItemsDone \cup {p}
      BY <1>1, <1>2, <1>3, <2>1 DEF ItemsDone, PullList
    <3>2. pc = "modified" => ItemsDone' = ItemsDone \cup {p}
      BY <1>1, <1>2, <1>3, <2>1 DEF ItemsDone, PullList
    <3>q. QED BY <2>1, <3>1, <3>2
  <2>5. moved[p] = None
    BY <1>1, <1>2, <2>1, PullListsApart
  <2>6. PullEffect(ItemsDone \cup {p}) = [PullEffect(ItemsDone) EXCEPT ![p] = sourceMeta[p]]
    BY <1>2, <2>5, PullEffectOfOne
  <2>7. meta' = [q \in Paths |-> meta'[q]]
    BY <1>2, <2>1
  <2>q. QED BY <1>1, <1>4, <2>1, <2>2, <2>3, <2>4, <2>6, <2>7, PullItemKeeps
<1>6. CASE PullRecord
  <2>1. /\ pc \in {"moved", "copied", "deleted"} /\ current # None /\ current' = None /\ UNCHANGED todo
        /\ meta' = CASE pc = "moved"   -> [meta EXCEPT ![current] = sourceMeta[current], ![moved[current]] = None]
                     [] pc = "copied"  -> [meta EXCEPT ![current] = sourceMeta[current]]
                     [] pc = "deleted" -> [meta EXCEPT ![current] = None]
    BY <1>6 DEF PullRecord
  <2>2. current \in PullList(pc) \ todo
    BY <2>1 DEF PullInv, PullSession
  <2>3. current \in Paths
    BY <1>2, <2>1, <2>2 DEF PullList, DiffCore, DiffListsOK
  <2>4. FilesDone' = FilesDone
    BY <1>1, <1>3, <2>1 DEF FilesDone
  <2>5. meta' = [q \in Paths |-> meta'[q]]
    BY <1>2, <2>1
  <2>6. CASE pc = "copied"
    <3>1. ~NoCopies
      BY <2>2, <2>3, <2>6 DEF NoCopies, PullList
    <3>q. QED BY <1>1, <2>1, <2>5, <3>1, PullItemKeeps
  <2>7. CASE pc \in {"moved", "deleted"}
    <3>1. current \in FilesDone /\ None \notin FilesDone
      <4>1. added \subseteq Paths /\ modified \subseteq Paths /\ deleted \subseteq Paths
        BY <1>2 DEF DiffCore, DiffListsOK
      <4>q. QED BY <2>2, <2>7, <4>1 DEF FilesDone, PullList
    <3>2. ItemsDone = FilesDone \ {current} /\ ItemsDone' = FilesDone
      BY <1>1, <2>1, <2>4, <2>7, <3>1 DEF ItemsDone
    <3>3. ItemsDone' = ItemsDone \cup {current}
      BY <3>1, <3>2
    <3>4. accurate /\ fresh /\ NoCopies => meta' = PullEffect(ItemsDone \cup {current})
      <4>1. CASE pc = "moved"
        <5>1. moved[current] # None
          BY <2>2, <4>1 DEF PullList
        <5>2. PullEffect(ItemsDone \cup {current})
                = [PullEffect(ItemsDone) EXCEPT ![current] = sourceMeta[current], ![moved[current]] = None]
          BY <1>2, <2>3, <5>1, PullEffectOfOne
        <5>q. QED BY <1>4, <2>1, <4>1, <5>2
      <4>2. CASE pc = "deleted"
        <5>1. current \in deleted
          BY <2>2, <4>2 DEF PullList
        <5>2. sourceMeta[current] = None /\ moved[current] = None
          BY <1>2, <2>3, <5>1, CoreListFacts DEF PathOnlyInTarget
        <5>3. PullEffect(ItemsDone \cup {current}) = [PullEffect(ItemsDone) EXCEPT ![current] = sourceMeta[current]]
          BY <1>2, <2>3, <5>2, PullEffectOfOne
        <5>q. QED BY <1>4, <2>1, <4>2, <5>2, <5>3
      <4>q. QED BY <2>7, <4>1, <4>2
    <3>q. QED BY <1>1, <2>1, <2>4, <2>5, <3>3, <3>4, PullItemKeeps
  <2>q. QED BY <2>1, <2>6, <2>7
<1>q. QED BY <1>5, <1>6

LEMMA PullStopKeeps ==
  ASSUME PullInv, Stop, UNCHANGED pullVars
  PROVE  PullInv'
<1>1. /\ End("stopped") /\ DropDiff /\ UNCHANGED <<sourceDisk, disk, meta, command, accurate, fresh, copied>>
  BY DEF Stop, DropDiff, startVars, pullVars
<1>2. DiffCore'
  BY <1>1, DropDiffCore DEF PullInv
<1>q. QED BY <1>1, <1>2, PullEndKeeps

-----------------------------------------------------------------------------
(* The commands together.  Those of a behaviour are of one kind (OneKind), *)
(* so what holds of the first state of all three is kept by one of them.   *)
LocalInv ==
  /\ command \in {"none", "backup"} => BackupInv
  /\ command \in {"none", "operation"} => OpInv
  /\ command \in {"none", "pull"} => PullInv

\* Between two commands, or when the process stops.
Between ==
  Align \/ \E p \in Paths, c \in Contents \cup {None} : EditSource(p, c) \/ EditTarget(p, c)

(* By its place in the program a step belongs to one command.              *)
LEMMA StepsApart ==
  /\ Next => \/ Between \/ Diff \/ Stop
             \/ pc = "idle" /\ command' = "backup"
             \/ pc = "diff" /\ command = "backup"
             \/ pc \in Phases
  /\ PullNext => \/ PullStart /\ command' = "pull"
                 \/ (PullConfirm \/ PullRefused) /\ pc = "diff" /\ command = "pull"
                 \/ pc \in PullPhases
  /\ OpNext => \/ command' = "operation" /\ pc = "idle"
               \/ pc \in OpPhases
<1>1. Next => \/ Between \/ Diff \/ Stop
              \/ pc = "idle" /\ command' = "backup"
              \/ pc = "diff" /\ command = "backup"
              \/ pc \in Phases
  BY DEF Next, Between, Start, Confirm, FinishPhase, RecordMeta, AddFile, CopyFile, MoveFile, DeleteFile,
         Ready, NextPhase, Phases
<1>2. PullNext => \/ PullStart /\ command' = "pull"
                  \/ (PullConfirm \/ PullRefused) /\ pc = "diff" /\ command = "pull"
                  \/ pc \in PullPhases
  BY DEF PullNext, PullStart, PullConfirm, PullRefused, PullFinishPhase, ReceiveEnd, PullRecord, ReceiveStart,
         RecordReceived, PullMove, PullCopy, PullDelete, Ready, NextPullPhase, PullPhases
<1>3. OpNext => \/ command' = "operation" /\ pc = "idle"
                \/ pc \in OpPhases
  <2> SUFFICES ASSUME OpNext, pc \notin OpPhases
               PROVE  command' = "operation" /\ pc = "idle"
    OBVIOUS
  <2>1. /\ ~CheckSource /\ ~TransferFile /\ ~RecordTarget /\ ~ForgetSource /\ ~NextFile /\ ~RemoveItems
        /\ ~ItemsRemoved
        /\ \A p \in Paths : ~AssertTarget(p) /\ ~AddAsset(p) /\ ~RemoveFile(p) /\ ~RemoveItem(p)
    BY DEF CheckSource, TransferFile, RecordTarget, ForgetSource, NextFile, RemoveItems, ItemsRemoved,
           AssertTarget, AddAsset, RemoveFile, RemoveItem, OpPhases
  <2>2. CanBegin
    BY <2>1 DEF OpNext
  <2>3. command' = "operation"
    BY <2>1 DEF OpNext, BeginTransfer, BeginAdd, BeginImport, BeginDelete, BeginDedupe, Begin
  <2>q. QED BY <2>2, <2>3 DEF CanBegin
<1>q. QED BY <1>1, <1>2, <1>3

LEMMA OpStepKeeps ==
  ASSUME OpInv, command \in {"none", "operation"}, command' \in {"none", "operation"},
         CommandsNext \/ UNCHANGED <<vars, pullVars, opVars>>
  PROVE  OpInv'
<1>1. pc \notin Phases /\ pc \notin PullPhases /\ pc # "diff"
  BY DEF OpInv, OpTypeOK, OpPhases, Phases, PullPhases
<1>2. CASE Next /\ UNCHANGED <<pullVars, opVars>>
  <2>1. Between \/ Stop
    BY <1>1, <1>2, StepsApart DEF Diff
  <2>q. QED BY <1>2, <2>1, OpIdleKeeps, OpStopKeeps DEF Between
<1>3. ~PullNext
  BY <1>1, StepsApart
<1>4. CASE OpNext
  BY <1>4, BeginningsKeep, CheckSourceKeeps, TransferFileKeeps, RecordsKeep, NextFileKeeps, RemovalsKeep,
     AssertTargetKeeps, AddAssetKeeps, RemoveFileKeeps DEF OpNext
<1>5. CASE UNCHANGED <<vars, pullVars, opVars>>
  <2>1. UNCHANGED <<disk, meta, pc, todo, current, outcome, command, accurate, op, bin, saved, held>>
    BY <1>5 DEF vars, opVars, backupVars, startVars
  <2>2. OpTypeOK' /\ OpSession'
    BY <2>1 DEF OpInv, OpTypeOK, OpSession, Sources, Bins
  <2>3. ASSUME command = "operation" PROVE OpProgress' /\ OpKeeps'
    <3>1. OpProgress /\ OpKeeps
      BY <2>3 DEF OpInv
    <3>2. OpProgress'
      BY <2>1, <3>1 DEF OpProgress, To, Sources
    <3>3. ContentsOf(disk)' = ContentsOf(disk) /\ \A c : InBin(c)' <=> InBin(c)
      BY <2>1 DEF ContentsOf, InBin
    <3>4. OpKeeps'
      BY <2>1, <3>1, <3>3 DEF OpKeeps, To
    <3>q. QED BY <3>2, <3>4
  <2>q. QED BY <2>1, <2>2, <2>3 DEF OpInv
<1>q. QED BY <1>2, <1>3, <1>4, <1>5 DEF CommandsNext

LEMMA PullStepKeeps ==
  ASSUME PullInv, command \in {"none", "pull"}, command' \in {"none", "pull"},
         CommandsNext \/ UNCHANGED <<vars, pullVars, opVars>>
  PROVE  PullInv'
<1>1. pc \notin Phases /\ pc \notin OpPhases
  BY DEF PullInv, PullTypeOK, OpPhases, Phases, PullPhases
<1>2. CASE Next /\ UNCHANGED <<pullVars, opVars>>
  <2>1. Between \/ Diff \/ Stop
    BY <1>1, <1>2, StepsApart
  <2>q. QED BY <1>2, <2>1, PullIdleKeeps, PullDiffKeeps, PullStopKeeps DEF Between
<1>3. CASE PullNext
  BY <1>3, PullStartKeeps, PullConfirmKeeps, PullFinishPhaseKeeps, ReceiveEndKeeps, PullRecordsKeep,
     PullFilesKeep DEF PullNext
<1>4. ~OpNext
  BY <1>1, StepsApart
<1>5. CASE UNCHANGED <<vars, pullVars, opVars>>
  <2>1. /\ UNCHANGED <<sourceDisk, disk, meta, pc, todo, current, outcome, command, accurate, fresh>>
        /\ UNCHANGED diffVars
    BY <1>5 DEF vars, pullVars, backupVars, startVars
  <2>2. DiffCore'
    BY <2>1, DiffStutterCore DEF PullInv
  <2>3. PullTypeOK' /\ PullSession'
    BY <2>1, PullUnchanged DEF PullInv, PullTypeOK, PullSession
  <2>4. FilesDone' = FilesDone /\ ItemsDone' = ItemsDone
    BY <2>1, PullUnchanged DEF FilesDone, ItemsDone
  <2>5. PullEffect(FilesDone)' = PullEffect(FilesDone) /\ PullEffect(ItemsDone)' = PullEffect(ItemsDone)
    BY <2>1, <2>4 DEF PullEffect, diffVars
  <2>6. command = "pull" => PullProgress'
    <3>1. NoCopies' = NoCopies /\ UNCHANGED <<targetMeta, sourceMeta>>
      BY <2>1, PullUnchanged
    <3>q. QED BY <2>1, <2>5, <3>1 DEF PullInv, PullProgress
  <2>q. QED BY <2>1, <2>2, <2>3, <2>6 DEF PullInv
<1>q. QED BY <1>2, <1>3, <1>4, <1>5 DEF CommandsNext

LEMMA BackupAmongCommands ==
  ASSUME BackupInv, command \in {"none", "backup"}, command' \in {"none", "backup"},
         CommandsNext \/ UNCHANGED <<vars, pullVars, opVars>>
  PROVE  BackupInv'
<1>1. pc \notin PullPhases /\ pc \notin OpPhases
  BY DEF BackupInv, BackupTypeOK, OpPhases, Phases, PullPhases
<1>2. ~PullNext /\ ~OpNext
  BY <1>1, StepsApart
<1>q. QED BY <1>2, BackupStep DEF CommandsNext

(* Whatever the commands of a behaviour are.                               *)
THEOREM LocalInvariance == CommandsSpec => []LocalInv
<1>1. OpInit => LocalInv
  <2>1. OpInit => Init
    BY DEF OpInit, PullInit
  <2>q. QED BY <2>1, BackupInitInv, OpInitInv, PullInitInv DEF LocalInv
<1>2. LocalInv /\ [CommandsNext]_<<vars, pullVars, opVars>> => LocalInv'
  <2> SUFFICES ASSUME LocalInv, CommandsNext \/ UNCHANGED <<vars, pullVars, opVars>>
               PROVE  LocalInv'
    OBVIOUS
  <2>1. command \in {"none", command'}
    BY DEF CommandsNext, OneKind, vars, startVars
  <2>2. command' \in {"none", "backup"} => BackupInv'
    BY <2>1, BackupAmongCommands DEF LocalInv
  <2>3. command' \in {"none", "operation"} => OpInv'
    BY <2>1, OpStepKeeps DEF LocalInv
  <2>4. command' \in {"none", "pull"} => PullInv'
    BY <2>1, PullStepKeeps DEF LocalInv
  <2>q. QED BY <2>2, <2>3, <2>4 DEF LocalInv
<1>q. QED BY <1>1, <1>2, PTL DEF CommandsSpec

(* An operation that finds the meta accurate and ends well leaves it so,   *)
(* however the sources and targets of its transfers overlap                *)
(* (assets-operation.ts, assets-dedupe.ts).                                *)
THEOREM OperationsEndRight == CommandsSpec => []OperationEndsRight
<1>1. LocalInv => OperationEndsRight
  BY DEF LocalInv, OpInv, OpProgress, OperationEndsRight
<1>q. QED BY <1>1, LocalInvariance, PTL

(* At every step of a copy, a move, an addition or a dedupe, each content  *)
(* that was in the directory is still in it or in the folder for deleted   *)
(* files.                                                                  *)
THEOREM NothingIsLost == CommandsSpec => []NothingLost
<1>1. LocalInv => NothingLost
  <2> SUFFICES ASSUME LocalInv, command = "operation", accurate, op.kind # "delete", ~op.overwrite,
                      pc # "idle" \/ outcome # "none", NEW c \in held
               PROVE  c \in ContentsOf(disk) \cup {bin[b] : b \in Bins}
    BY DEF NothingLost
  <2>1. c \in ContentsOf(disk) \/ (c \in Contents /\ InBin(c))
    BY DEF LocalInv, OpInv, OpKeeps
  <2>2. c \in Contents /\ InBin(c) => c \in {bin[b] : b \in Bins}
    BY DEF InBin, Bins
  <2>q. QED BY <2>1, <2>2
<1>q. QED BY <1>1, LocalInvariance, PTL

(* A pull that ends well from a current server meta, with nothing to copy, *)
(* leaves the client with the server's files, and recorded as such         *)
(* (tcp-protocol/client.ts).                                               *)
THEOREM PullsReproduceSource == CommandsSpec => []PullReproducesSource
<1>1. LocalInv => PullReproducesSource
  BY DEF LocalInv, PullInv, PullProgress, NoCopies, PullReproducesSource
<1>q. QED BY <1>1, LocalInvariance, PTL

(* What is proved of backups above holds of those among the commands too.  *)
THEOREM BackupsAmongCommands == CommandsSpec => [](AccurateBackupEndsRight /\ BackupReproducesSource)
<1>1. LocalInv => AccurateBackupEndsRight /\ BackupReproducesSource
  BY DEF LocalInv, BackupInv, BackupProgress, AccurateBackupEndsRight, BackupReproducesSource
<1>q. QED BY <1>1, LocalInvariance, PTL

-----------------------------------------------------------------------------
(* the tree                                                                  *)

(* The tree is closed upwards, a file outside it has no item, and what is  *)
(* saved is what is in memory.                                             *)
Closed(N) == \A n \in N : Above[n] \subseteq N

ItemsInside(N, f) == \A p \in Files : p \notin N => f[p] = NoInfo

Tree(N, f) ==
  /\ N \subseteq Nodes
  /\ f \in [Files -> Infos \cup {NoInfo}]
  /\ Closed(N)
  /\ ItemsInside(N, f)

TreeInv == Tree(nodes, info) /\ file = [nodes |-> nodes, info |-> info]

(* In a closed tree an item is found exactly where its node is.            *)
LEMMA FoundInTree == ASSUME Tree(nodes, info), NEW p \in Files
                     PROVE  Found(p) <=> p \in nodes
BY DEF Tree, Closed, Found

(* So the listing is `info' itself.                                        *)
ItemsMatch == ItemsOf = info

LEMMA ItemsAreInfo == TreeInv => ItemsMatch
<1> SUFFICES ASSUME TreeInv PROVE ItemsOf = info
  BY DEF ItemsMatch
<1>1. \A p \in Files : (IF Found(p) THEN info[p] ELSE NoInfo) = info[p]
  BY FoundInTree DEF TreeInv, Tree, ItemsInside
<1> QED
  BY <1>1 DEF ItemsOf, TreeInv, Tree

LEMMA ItemsAreInfoNext == TreeInv' => ItemsMatch'
BY ItemsAreInfo, PTL

(* An insertion keeps the tree closed: it brings all that is above.        *)
LEMMA InsertKeeps ==
  ASSUME TreeInv, NEW p \in Files, NEW i \in Infos
  PROVE  Tree(nodes \cup Above[p] \cup {p}, [info EXCEPT ![p] = i])
<1> DEFINE N == nodes \cup Above[p] \cup {p}
           f == [info EXCEPT ![p] = i]
<1>1. p \in Nodes /\ Above[p] \subseteq Dirs /\ Dirs \subseteq Nodes
  BY PathAssumption DEF Nodes
<1>2. N \subseteq Nodes /\ f \in [Files -> Infos \cup {NoInfo}]
  BY <1>1 DEF TreeInv, Tree
<1>3. Closed(N)
  <2> SUFFICES ASSUME NEW n \in N PROVE Above[n] \subseteq N
    BY DEF Closed
  <2>1. CASE n \in nodes
    BY <2>1 DEF TreeInv, Tree, Closed
  <2>2. CASE n \in Above[p]
    BY <2>2, <1>1, PathAssumption
  <2> QED
    BY <2>1, <2>2
<1>4. ItemsInside(N, f)
  BY DEF TreeInv, Tree, ItemsInside
<1> QED
  BY <1>2, <1>3, <1>4 DEF Tree

(* A deletion keeps it closed: of what is left, nothing is below the       *)
(* deleted file, nor below its parent when that goes too, as the node on   *)
(* the way down from the parent would be another child of it.              *)
LEMMA RemoveKeeps ==
  ASSUME TreeInv, NEW p \in Files, p \in nodes
  PROVE  Tree(nodes \ ({p} \cup Emptied(p)), [info EXCEPT ![p] = NoInfo])
<1> DEFINE N == nodes \ ({p} \cup Emptied(p))
           f == [info EXCEPT ![p] = NoInfo]
           d == Parent[p]
<1>1. p \in Nodes /\ p \notin Dirs /\ d \in Dirs \cup {Root} /\ Emptied(p) \subseteq Dirs
  BY PathAssumption DEF Nodes, Emptied
<1>2. N \subseteq Nodes /\ f \in [Files -> Infos \cup {NoInfo}]
  BY DEF TreeInv, Tree
<1>3. ASSUME NEW n \in N PROVE Above[n] \subseteq N
  <2>1. n \in nodes /\ n # p /\ n \in Nodes
    BY <1>2
  <2>2. Above[n] \subseteq nodes /\ Above[n] \subseteq Dirs
    BY <2>1, PathAssumption DEF TreeInv, Tree, Closed
  <2>3. p \notin Above[n]
    BY <2>2, <1>1
  <2>4. ASSUME NEW e \in Emptied(p), e \in Above[n] PROVE FALSE
    <3>1. e = d /\ Children(d, nodes \ {p}) = {}
      BY <2>4 DEF Emptied
    <3>2. PICK c \in {n} \cup Above[n] : Parent[c] = e
      BY <2>1, <2>4, PathAssumption
    <3>3. c \in nodes \ {p}
      BY <2>1, <2>2, <2>3
    <3> QED
      BY <3>1, <3>2, <3>3 DEF Children
  <2> QED
    BY <2>2, <2>3, <2>4
<1>4. ItemsInside(N, f)
  <2> SUFFICES ASSUME NEW q \in Files, q \notin N PROVE f[q] = NoInfo
    BY DEF ItemsInside
  <2>1. q \notin Dirs
    BY PathAssumption
  <2>2. q \notin nodes \/ q = p
    BY <2>1, <1>1
  <2> QED
    BY <2>2 DEF TreeInv, Tree, ItemsInside
<1> QED
  BY <1>2, <1>3, <1>4 DEF Tree, Closed

-----------------------------------------------------------------------------
LEMMA TreeInitInv == TreeInit => TreeInv
<1> SUFFICES ASSUME TreeInit PROVE TreeInv
  OBVIOUS
<1>1. PICK N \in SUBSET Nodes :
        \E f \in ItemsIn(N) : (\A n \in N : Above[n] \subseteq N) /\ nodes = N /\ info = f
  BY DEF TreeInit
<1>2. PICK f \in ItemsIn(N) : (\A n \in N : Above[n] \subseteq N) /\ nodes = N /\ info = f
  BY <1>1
<1>3. Tree(N, f)
  BY <1>2 DEF Tree, Closed, ItemsInside, ItemsIn
<1> QED
  BY <1>2, <1>3 DEF TreeInv, TreeInit

(* Each step keeps the invariant and is a step of the map.                 *)
LEMMA PutSteps ==
  ASSUME TreeInv, NEW p \in Files, NEW i \in Infos, CreateOrUpdate(p, i)
  PROVE  TreeInv' /\ info' = [info EXCEPT ![p] = i]
<1>1. CASE Found(p)
  <2>1. p \in nodes
    BY <1>1, FoundInTree DEF TreeInv
  <2>2. nodes' = nodes /\ info' = [info EXCEPT ![p] = i]
        /\ file' = [nodes |-> nodes, info |-> [info EXCEPT ![p] = i]]
    BY <1>1 DEF CreateOrUpdate, Update, ChangeTree
  <2>3. Tree(nodes, [info EXCEPT ![p] = i])
    BY <2>1 DEF TreeInv, Tree, ItemsInside
  <2> QED
    BY <2>2, <2>3 DEF TreeInv
<1>2. CASE ~Found(p)
  <2>1. nodes' = nodes \cup Above[p] \cup {p} /\ info' = [info EXCEPT ![p] = i]
        /\ file' = [nodes |-> nodes', info |-> info']
    BY <1>2 DEF CreateOrUpdate, Insert, ChangeTree
  <2> QED
    BY <2>1, InsertKeeps DEF TreeInv
<1> QED
  BY <1>1, <1>2

LEMMA DropSteps ==
  ASSUME TreeInv, NEW p \in Files, Remove(p)
  PROVE  TreeInv' /\ info' = [info EXCEPT ![p] = NoInfo]
<1>1. CASE Found(p)
  <2>1. p \in nodes
    BY <1>1, FoundInTree DEF TreeInv
  <2>2. nodes' = nodes \ ({p} \cup Emptied(p)) /\ info' = [info EXCEPT ![p] = NoInfo]
        /\ file' = [nodes |-> nodes', info |-> info']
    BY <1>1 DEF Remove, ChangeTree
  <2> QED
    BY <2>1, <2>2, RemoveKeeps DEF TreeInv
<1>2. CASE ~Found(p)
  <2>1. p \notin nodes
    BY <1>2, FoundInTree DEF TreeInv
  <2>2. info[p] = NoInfo
    BY <2>1 DEF TreeInv, Tree, ItemsInside
  <2>3. nodes' = nodes /\ info' = info /\ file' = [nodes |-> nodes, info |-> info]
    BY <1>2 DEF Remove, ChangeTree
  <2>4. info = [info EXCEPT ![p] = NoInfo]
    BY <2>2 DEF TreeInv, Tree
  <2> QED
    BY <2>3, <2>4 DEF TreeInv
<1> QED
  BY <1>1, <1>2

LEMMA TreeStep == TreeInv /\ [TreeNext]_treeVars =>
                  TreeInv' /\ [Promised!NextItems]_(ItemsOf)
<1> SUFFICES ASSUME TreeInv, [TreeNext]_treeVars
             PROVE  TreeInv' /\ (Promised!NextItems \/ ItemsOf' = ItemsOf)
  OBVIOUS
<1>0. ASSUME TreeInv' PROVE ItemsOf = info /\ ItemsOf' = info'
  BY <1>0, ItemsAreInfo, ItemsAreInfoNext DEF ItemsMatch
<1>1. ASSUME NEW p \in Files, NEW i \in Infos, CreateOrUpdate(p, i)
      PROVE  TreeInv' /\ (Promised!NextItems \/ ItemsOf' = ItemsOf)
  <2>1. TreeInv' /\ info' = [info EXCEPT ![p] = i]
    BY <1>1, PutSteps
  <2>2. ItemsOf' = [ItemsOf EXCEPT ![p] = i]
    BY <2>1, <1>0
  <2> QED
    BY <2>1, <2>2 DEF Promised!NextItems, Promised!Put
<1>2. ASSUME NEW p \in Files, Remove(p)
      PROVE  TreeInv' /\ (Promised!NextItems \/ ItemsOf' = ItemsOf)
  <2>1. TreeInv' /\ info' = [info EXCEPT ![p] = NoInfo]
    BY <1>2, DropSteps
  <2>2. ItemsOf' = [ItemsOf EXCEPT ![p] = NoInfo]
    BY <2>1, <1>0
  <2> QED
    BY <2>1, <2>2 DEF Promised!NextItems, Promised!Drop
<1>3. CASE Reopen \/ UNCHANGED treeVars
  <2>1. nodes' = nodes /\ info' = info /\ file' = file
    BY <1>3 DEF Reopen, treeVars, TreeInv
  <2>2. TreeInv'
    BY <2>1 DEF TreeInv
  <2> QED
    BY <2>1, <2>2, <1>0
<1> QED
  BY <1>1, <1>2, <1>3 DEF TreeNext

(* The invariant of the tree, for any paths.                               *)
THEOREM TreeInvariance == TreeSpec => []TreeInv
<1>1. TreeInv /\ [TreeNext]_treeVars => TreeInv'
  BY TreeStep
<1> QED
  BY TreeInitInv, <1>1, PTL DEF TreeSpec

(* The tree of assets-meta.ts gives the items of a plain map from path to  *)
(* item: it implements AssetItems.                                         *)
THEOREM TreeKeepsItems == TreeSpec => KeepsItems
<1>1. TreeInit => Promised!InitItems
  BY TreeInitInv, ItemsAreInfo DEF ItemsMatch, Promised!InitItems, Promised!ItemMaps, TreeInv, Tree
<1>2. TreeInv /\ [TreeNext]_treeVars => [Promised!NextItems]_(ItemsOf)
  BY TreeStep
<1> QED
  BY <1>1, <1>2, TreeInvariance, PTL DEF TreeSpec, KeepsItems, Promised!ItemsSpec
=============================================================================
