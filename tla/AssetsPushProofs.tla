--------------------------- MODULE AssetsPushProofs ---------------------------
(***************************************************************************)
(* The safety properties of the push session, proved for every set of      *)
(* paths and contents, any number of sessions, edits and faults.           *)
(*                                                                         *)
(* None of them is inductive.  What is missing is what the session is      *)
(* about to do: SessionInv says which entry is in hand and what the disk   *)
(* holds of it between the change of a file and of its item, TrustInv that *)
(* the files to be moved still are what the diff took them for, and        *)
(* ProgressInv how far the directory has come.                             *)
(***************************************************************************)
EXTENDS AssetsPush, AssetDiffProofs

Phases == {"receive", "move", "copy", "delete"}

SessionInv ==
  /\ pc # "idle" =>
       /\ accurate \/ ~refused => sourceMeta = clientDisk
       /\ outcome = "none"
  /\ pc = "diff" => diffPhase \in {"scan", "ready"}
  /\ pc \in Phases => diffPhase = "ready" /\ todo \subseteq ListOf(pc)
  /\ step # "next" => pc \in Phases /\ current \in ListOf(pc) \ todo
  /\ step = "body" => /\ pc = "receive" /\ current \notin stamped
                     /\ clientDisk[current] # None
  /\ step = "forget" => pc = "move" /\ disk[moved[current]] = None
  /\ step = "record" =>
       /\ pc = "receive" => disk[current] = clientDisk[current]
       /\ pc = "move" => disk[moved[current]] = None
       /\ pc = "delete" => disk[current] = None
       /\ pc # "delete" => disk[current] # None

NoCopy == \A p \in Paths : copied[p] = None

TrustInv ==
  ~copyUsed /\ ~refused =>
    /\ \A p \in stamped : meta[p] = disk[p]
    /\ pc # "idle" => \A p \in PathOnlyInTarget : disk[p] \in {None, targetMeta[p]}
    /\ step = "record" /\ pc = "move" => disk[current] = sourceMeta[current]
    /\ pc \in Phases => NoCopy

\* The entry has been handled, as far as the files are concerned.
Received(p) == pc # "receive" \/ (p \notin todo /\ ~(step = "body" /\ current = p))
Moved(p) == pc \in {"copy", "delete"} \/ (pc = "move" /\ p \notin todo)

ProgressInv ==
  accurate =>
    /\ pc = "diff" => disk = targetMeta
    /\ pc \in Phases /\ NoCopy => \A p \in Paths :
         /\ p \in added \cup modified /\ Received(p) => disk[p] = sourceMeta[p]
         /\ moved[p] # None =>
              IF Moved(p) THEN disk[p] = sourceMeta[p] /\ disk[moved[p]] = None
                          ELSE disk[moved[p]] = targetMeta[moved[p]]
         /\ p \in deleted /\ pc = "delete" /\ p \notin todo => disk[p] = None
         /\ p \notin added \cup modified \cup deleted \cup PathOfMovedInTarget
            /\ moved[p] = None => disk[p] = sourceMeta[p]

PushInv == TypeOK /\ DiffInv /\ SessionInv /\ TrustInv /\ ProgressInv /\ SuccessMeansSynced

-----------------------------------------------------------------------------
LEMMA NextPhaseDomain == DOMAIN NextPhase = Phases
BY DEF NextPhase, Phases

(* A path that is in no list is the same on both sides. *)
LEMMA UnlistedSame ==
  ASSUME DiffInv, diffPhase = "ready", NoCopy, NEW p \in Paths, moved[p] = None,
         p \notin added \cup modified \cup deleted \cup PathOfMovedInTarget
  PROVE  targetMeta[p] = sourceMeta[p]
<1>1. Applied[p] = sourceMeta[p]
  BY DiffInvApplied DEF DiffReproducesSource
<1> QED
  BY <1>1 DEF Applied, NoCopy

\* The operators of the state that depend on the diff alone.
LEMMA DiffUnchanged ==
  ASSUME UNCHANGED diffVars
  PROVE  /\ PathOnlyInTarget' = PathOnlyInTarget
         /\ PathOfMovedInTarget' = PathOfMovedInTarget
         /\ NoCopy' = NoCopy
         /\ UNCHANGED <<targetMeta, sourceMeta, added, copied, moved, modified,
                        deleted, diffPhase>>
         /\ \A phase : ListOf(phase)' = ListOf(phase)
BY DEF diffVars, PathOnlyInTarget, PathOfMovedInTarget, NoCopy, ListOf

-----------------------------------------------------------------------------
LEMMA PushInitInv == Init => PushInv
<1> SUFFICES ASSUME Init PROVE PushInv
  OBVIOUS
<1> USE NoneAssumption, TornAssumption, BoundAssumption
<1>1. DiffInv
  BY DiffInitInv DEF Init
<1>2. TypeOK
  <2>1. disk \in Metas /\ meta \in Metas
    BY DEF Init, Metas, UserContents
  <2>2. stamped \subseteq OnDisk(disk) /\ pc \in {"idle", "diff"} \cup DOMAIN NextPhase
    BY DEF Init
  <2>3. edits \in 0..MaxEdits /\ faults \in 0..MaxFaults
    BY DEF Init
  <2> QED
    BY <1>1, <2>1, <2>2, <2>3 DEF Init, DiffInv, TypeOK
<1>3. SessionInv
  BY DEF Init, SessionInv, Phases
<1>4. TrustInv
  BY DEF Init, TrustInv, Phases
<1>5. ProgressInv
  BY DEF Init, ProgressInv
<1>6. SuccessMeansSynced
  BY DEF Init, SuccessMeansSynced
<1> QED
  BY <1>1, <1>2, <1>3, <1>4, <1>5, <1>6 DEF PushInv

LEMMA ConnectInv ==
  ASSUME PushInv, NEW confirm \in BOOLEAN, NEW accept \in BOOLEAN,
         Connect(confirm, accept)
  PROVE  PushInv'
<1> USE NoneAssumption, TornAssumption, BoundAssumption
<1> DEFINE aligned == IF accept THEN AlignedMeta ELSE meta
<1>1. /\ pc = "idle" /\ TypeOK /\ SessionInv /\ TrustInv
      /\ meta' = aligned
      /\ clientMeta' = IF confirm THEN clientDisk ELSE clientMeta
      /\ BeginDiff(TargetView(aligned), clientMeta')
  BY DEF PushInv, Connect
<1>2. aligned \in Metas /\ TargetView(aligned) \in Metas /\ clientMeta' \in Metas
  BY <1>1 DEF TypeOK, Metas, AlignedMeta, TargetView, UserContents
<1>3. DiffInv'
  BY <1>1, <1>2, BeginDiffInv
<1>4. TypeOK'
  <2>1. accurate' \in BOOLEAN /\ refused' \in BOOLEAN
    BY DEF Connect
  <2>2. stamped' \subseteq OnDisk(disk)'
    BY <1>1 DEF Connect, TypeOK, OnDisk
  <2>3. /\ pc' = "diff" /\ outcome' = "none" /\ report' = "none"
        /\ UNCHANGED <<clientDisk, disk, todo, step, current, copyUsed, edits,
                       faults>>
    BY DEF Connect, boundVars
  <2>4. DiffTypeOK'
    BY <1>3 DEF DiffInv
  <2> HIDE DEF aligned
  <2> QED
    BY <1>1, <1>2, <2>1, <2>2, <2>3, <2>4 DEF TypeOK, Metas
<1>5. SessionInv'
  BY <1>1 DEF SessionInv, Connect, BeginDiff, Phases, TypeOK
\* A meta that vouches for the disk is the disk once it is aligned.
<1>6. TrustInv'
  <2> SUFFICES ASSUME ~copyUsed', ~refused'
               PROVE  /\ \A p \in stamped' : meta'[p] = disk'[p]
                      /\ \A p \in PathOnlyInTarget' :
                           disk'[p] \in {None, targetMeta'[p]}
    BY <1>1 DEF TrustInv, Connect, Phases, SessionInv
  <2>1. \A p \in stamped : meta[p] = disk[p]
    BY <1>1 DEF TrustInv, Connect
  <2>2. ~accept => AlignedMeta = meta /\ stamped = OnDisk(disk)
    BY DEF Connect
  <2>3. \A p \in Paths : AlignedMeta[p] = disk[p]
    BY <2>1 DEF AlignedMeta
  <2>4. \A p \in Paths : aligned[p] = disk[p]
    BY <2>2, <2>3
  <2>5. stamped' \subseteq Paths /\ disk' = disk
    BY <2>2 DEF Connect, OnDisk
  <2>6. ASSUME NEW p \in Paths, disk[p] # None, TargetView(aligned)[p] # None
        PROVE  TargetView(aligned)[p] = disk[p]
    BY <2>6, <2>4 DEF TargetView
  <2>7. targetMeta' = TargetView(aligned)
    BY <1>1 DEF BeginDiff
  <2> HIDE DEF aligned
  <2> QED
    BY <1>1, <2>4, <2>5, <2>6, <2>7 DEF PathOnlyInTarget
<1>7. ProgressInv'
  BY <1>1 DEF ProgressInv, Connect, BeginDiff, Phases
<1>8. SuccessMeansSynced'
  BY DEF SuccessMeansSynced, Connect
<1> QED
  BY <1>3, <1>4, <1>5, <1>6, <1>7, <1>8 DEF PushInv

LEMMA DiffStepInv ==
  ASSUME PushInv, Diff
  PROVE  PushInv'
<1>1. /\ pc = "diff" /\ TypeOK /\ DiffInv /\ SessionInv /\ TrustInv /\ ProgressInv
      /\ UNCHANGED <<clientDisk, clientMeta, disk, meta, stamped, sessionVars, historyVars,
                     boundVars>>
  BY DEF PushInv, Diff, clientSide
<1>2. DiffInv'
  BY <1>1, ScanPathInv, FinishDiffInv DEF Diff, clientSide
<1>3. UNCHANGED <<targetMeta, sourceMeta>> /\ diffPhase' \in {"scan", "ready"}
  BY DEF Diff, ScanPath, FinishDiff
<1>4. TypeOK'
  BY <1>1, <1>2
  DEF DiffInv, TypeOK, sessionVars, historyVars, boundVars, OnDisk
<1>5. SessionInv'
  BY <1>1, <1>3 DEF SessionInv, sessionVars, historyVars, clientSide, Phases
<1>6. PathOnlyInTarget' = PathOnlyInTarget
  BY <1>3 DEF PathOnlyInTarget
<1>7. TrustInv'
  BY <1>1, <1>3, <1>6 DEF TrustInv, sessionVars, historyVars, Phases
<1>8. ProgressInv'
  BY <1>1, <1>3 DEF ProgressInv, sessionVars, historyVars, Phases
<1>9. SuccessMeansSynced'
  BY <1>1 DEF SuccessMeansSynced, SessionInv, sessionVars
<1> QED
  BY <1>2, <1>4, <1>5, <1>7, <1>8, <1>9 DEF PushInv

LEMMA ReadDiffInv ==
  ASSUME PushInv, ReadDiff
  PROVE  PushInv'
<1> USE NoneAssumption, NextPhaseDomain
<1>1. /\ pc = "diff" /\ diffPhase = "ready" /\ step = "next"
      /\ TypeOK /\ DiffInv /\ SessionInv /\ TrustInv /\ ProgressInv
      /\ UNCHANGED diffVars
      /\ UNCHANGED <<clientDisk, clientMeta, disk, meta, stamped, accurate, refused, edits,
                     faults>>
  BY DEF PushInv, ReadDiff, SessionInv, Phases, boundVars, clientSide
<1>2. DiffInv'
  BY <1>1, DiffStutterInv
<1>3. /\ UNCHANGED <<targetMeta, sourceMeta, added, copied, moved, modified,
                     deleted, diffPhase>>
      /\ PathOnlyInTarget' = PathOnlyInTarget /\ NoCopy' = NoCopy
      /\ PathOfMovedInTarget' = PathOfMovedInTarget
      /\ \A phase : ListOf(phase)' = ListOf(phase)
  BY <1>1, DiffUnchanged
<1>4. ~copyUsed' => ~copyUsed /\ NoCopy
  BY DEF ReadDiff, NoCopy
<1>5. copyUsed' \in BOOLEAN
  BY DEF ReadDiff
<1>6. CASE NeedAction
  <2>1. /\ pc' = "receive" /\ todo' = ListOf("receive")
        /\ UNCHANGED <<step, current, outcome, report>>
    BY <1>6 DEF ReadDiff
  <2>2. ListOf("receive") = added \cup modified
    BY DEF ListOf
  <2>3. TypeOK'
    <3>1. DiffTypeOK' /\ todo' \subseteq Paths
      BY <1>1, <1>2, <2>1, <2>2 DEF DiffInv, DiffTypeOK
    <3> QED
      BY <1>1, <1>5, <2>1, <3>1 DEF TypeOK, OnDisk, Phases
  <2>4. SessionInv'
    BY <1>1, <1>3, <2>1 DEF SessionInv, Phases
  <2>5. TrustInv'
    BY <1>1, <1>3, <1>4, <2>1 DEF TrustInv
  <2>6. ASSUME NoCopy, NEW p \in Paths, moved[p] = None,
               p \notin added \cup modified \cup deleted \cup PathOfMovedInTarget
        PROVE  targetMeta[p] = sourceMeta[p]
    BY <2>6, <1>1, UnlistedSame
  <2>7. ProgressInv'
    BY <1>1, <1>3, <2>1, <2>2, <2>6 DEF ProgressInv, Phases, Received, Moved
  <2>8. SuccessMeansSynced'
    BY <1>1, <2>1 DEF SuccessMeansSynced, SessionInv
  <2> QED
    BY <1>2, <2>3, <2>4, <2>5, <2>7, <2>8 DEF PushInv
<1>7. CASE ~NeedAction
  <2>1. /\ pc' = "idle" /\ outcome' = "unchanged" /\ report' = "unchanged"
        /\ todo' = {} /\ step' = "next" /\ current' = None
    BY <1>7 DEF ReadDiff, End
  <2>2. TypeOK'
    <3>1. DiffTypeOK'
      BY <1>2 DEF DiffInv
    <3> QED
      BY <1>1, <1>5, <2>1, <3>1 DEF TypeOK, OnDisk
  <2>3. SessionInv'
    BY <2>1 DEF SessionInv, Phases
  <2>4. TrustInv'
    BY <1>1, <1>4, <2>1 DEF TrustInv, Phases
  <2>5. ProgressInv'
    BY <2>1 DEF ProgressInv, Phases
  \* An empty diff, applied to the target's contents, changes nothing.
  <2>6. ASSUME accurate
        PROVE  disk = clientDisk
    <3>1. Applied = sourceMeta
      BY <1>1, DiffInvApplied DEF DiffReproducesSource
    <3>2. Applied = [p \in Paths |-> targetMeta[p]]
      BY <1>7 DEF Applied, NeedAction, PathOfMovedInTarget
    <3>3. targetMeta = [p \in Paths |-> targetMeta[p]]
      BY <1>1 DEF DiffInv, DiffTypeOK, Metas
    <3> QED
      BY <1>1, <2>6, <3>1, <3>2, <3>3 DEF ProgressInv, SessionInv
  <2>7. SuccessMeansSynced'
    BY <1>1, <2>6 DEF SuccessMeansSynced
  <2> QED
    BY <1>2, <2>2, <2>3, <2>4, <2>5, <2>7 DEF PushInv
<1> QED
  BY <1>6, <1>7

(* A session that ends without success leaves only the trust to be shown.  *)
LEMMA IdleInv ==
  ASSUME TypeOK', DiffInv', pc' = "idle", step' = "next", SuccessMeansSynced',
         ~copyUsed' /\ ~refused' => \A p \in stamped' : meta'[p] = disk'[p]
  PROVE  PushInv'
<1>1. SessionInv' /\ ProgressInv'
  BY DEF SessionInv, ProgressInv, Phases
<1>2. TrustInv'
  BY DEF TrustInv, Phases
<1> QED
  BY <1>1, <1>2 DEF PushInv

LEMMA AbandonInv ==
  ASSUME PushInv, Abandon
  PROVE  PushInv'
<1>1. /\ TypeOK /\ DiffInv /\ TrustInv /\ UNCHANGED diffVars
      /\ pc' = "idle" /\ outcome' = "none" /\ report' = "none"
      /\ todo' = {} /\ step' = "next" /\ current' = None
      /\ UNCHANGED <<clientDisk, clientMeta, disk, meta, stamped, accurate, copyUsed,
                     refused, edits, faults>>
  BY DEF PushInv, Abandon, End, historyVars, boundVars, clientSide
<1>2. DiffInv'
  BY <1>1, DiffStutterInv
<1>3. TypeOK'
  <2>1. DiffTypeOK'
    BY <1>2 DEF DiffInv
  <2> QED
    BY <1>1, <2>1 DEF TypeOK, OnDisk
<1>4. SuccessMeansSynced'
  BY <1>1 DEF SuccessMeansSynced
<1> QED
  BY <1>1, <1>2, <1>3, <1>4, IdleInv DEF TrustInv

LEMMA FaultInv ==
  ASSUME PushInv, Fault
  PROVE  PushInv'
<1> USE NoneAssumption, TornAssumption, BoundAssumption
<1>1. /\ TypeOK /\ DiffInv /\ SessionInv /\ TrustInv
      /\ faults < MaxFaults /\ faults' = faults + 1
      /\ pc' = "idle" /\ outcome' = "failed" /\ report' = "failed"
      /\ todo' = {} /\ step' = "next" /\ current' = None
      /\ diffPhase' = "none"
      /\ UNCHANGED <<clientDisk, clientMeta, meta, stamped, accurate, copyUsed, refused, edits>>
      /\ UNCHANGED <<targetMeta, sourceMeta, rank, unscanned, added, copied,
                     moved, modified, deleted>>
  BY DEF PushInv, Fault, End, historyVars, clientSide
<1>2. DiffInv'
  BY <1>1, DropDiffInv DEF DropDiff
\* Only the file being received changes, and no item vouches for it.
<1>3. /\ disk' \in Metas
      /\ \A p \in stamped : disk'[p] = disk[p]
  <2>1. CASE step = "body"
    <3>1. current \in Paths /\ current \notin stamped
      <4>1. ListOf("receive") \subseteq Paths
        BY <1>1 DEF ListOf, DiffInv, DiffTypeOK
      <4> QED
        BY <2>1, <1>1, <4>1 DEF SessionInv
    <3>2. PICK c \in {Torn, clientDisk[current]} :
             disk' = [disk EXCEPT ![current] = c]
      BY <2>1 DEF Fault
    <3>3. c \in Contents \cup {None}
      BY <1>1, <3>1 DEF TypeOK, UserContents
    <3> QED
      BY <1>1, <3>1, <3>2, <3>3 DEF TypeOK, Metas, OnDisk
  <2>2. CASE step # "body"
    BY <2>2, <1>1 DEF Fault, TypeOK
  <2> QED
    BY <2>1, <2>2
<1>4. TypeOK'
  <2>1. DiffTypeOK'
    BY <1>2 DEF DiffInv
  <2>2. stamped' \subseteq OnDisk(disk)'
    BY <1>1, <1>3 DEF TypeOK, OnDisk
  <2>3. faults' \in 0..MaxFaults
    BY <1>1 DEF TypeOK
  <2> QED
    BY <1>1, <1>3, <2>1, <2>2, <2>3 DEF TypeOK
<1>5. SuccessMeansSynced'
  BY <1>1 DEF SuccessMeansSynced
<1> QED
  BY <1>1, <1>2, <1>3, <1>4, <1>5, IdleInv DEF TrustInv

LEMMA EditClientInv ==
  ASSUME PushInv, NEW p \in Paths, NEW c \in UserContents \cup {None},
         EditClient(p, c)
  PROVE  PushInv'
<1> USE BoundAssumption
<1>1. /\ TypeOK /\ DiffInv /\ SessionInv /\ TrustInv /\ UNCHANGED diffVars
      /\ pc = "idle" /\ edits < MaxEdits /\ edits' = edits + 1
      /\ clientDisk' = [clientDisk EXCEPT ![p] = c]
      /\ outcome' = "none" /\ report' = "none"
      /\ UNCHANGED <<clientMeta, disk, meta, stamped, pc, todo, step, current,
                     accurate, copyUsed, refused, faults>>
  BY DEF PushInv, EditClient, historyVars
<1>2. DiffInv'
  BY <1>1, DiffStutterInv
<1>3. TypeOK'
  <2>1. DiffTypeOK' /\ edits' \in 0..MaxEdits
    BY <1>1, <1>2 DEF DiffInv, TypeOK
  <2> QED
    BY <1>1, <2>1 DEF TypeOK, OnDisk
<1>4. SuccessMeansSynced' /\ step' = "next"
  BY <1>1 DEF SuccessMeansSynced, SessionInv, Phases
<1> QED
  BY <1>1, <1>2, <1>3, <1>4, IdleInv DEF TrustInv

LEMMA EditServerInv ==
  ASSUME PushInv, NEW p \in Paths, NEW c \in UserContents \cup {None},
         EditServer(p, c)
  PROVE  PushInv'
<1> USE BoundAssumption
<1>1. /\ TypeOK /\ DiffInv /\ SessionInv /\ TrustInv /\ UNCHANGED diffVars
      /\ pc = "idle" /\ edits < MaxEdits /\ edits' = edits + 1
      /\ disk' = [disk EXCEPT ![p] = c] /\ stamped' = stamped \ {p}
      /\ outcome' = "none" /\ report' = "none"
      /\ UNCHANGED <<clientDisk, clientMeta, meta, pc, todo, step, current, accurate,
                     copyUsed, refused, faults>>
  BY DEF PushInv, EditServer, historyVars, clientSide
<1>2. DiffInv'
  BY <1>1, DiffStutterInv
<1>3. disk' \in Metas /\ \A q \in stamped' : disk'[q] = disk[q]
  BY <1>1 DEF TypeOK, Metas, UserContents, OnDisk
<1>4. TypeOK'
  <2>1. DiffTypeOK' /\ edits' \in 0..MaxEdits
    BY <1>1, <1>2 DEF DiffInv, TypeOK
  <2>2. stamped' \subseteq OnDisk(disk)'
    BY <1>1, <1>3 DEF TypeOK, OnDisk
  <2> QED
    BY <1>1, <1>3, <2>1, <2>2 DEF TypeOK
<1>5. SuccessMeansSynced' /\ step' = "next"
  BY <1>1 DEF SuccessMeansSynced, SessionInv, Phases
<1> QED
  BY <1>1, <1>2, <1>3, <1>4, <1>5, IdleInv DEF TrustInv

LEMMA FinishPhaseInv ==
  ASSUME PushInv, FinishPhase
  PROVE  PushInv'
<1> USE NoneAssumption, NextPhaseDomain
<1>1. /\ TypeOK /\ DiffInv /\ SessionInv /\ TrustInv /\ ProgressInv
      /\ pc \in Phases /\ step = "next" /\ todo = {} /\ diffPhase = "ready"
      /\ UNCHANGED diffVars
      /\ UNCHANGED <<clientDisk, clientMeta, disk, meta, stamped, accurate, copyUsed,
                     refused, edits, faults>>
  BY DEF PushInv, FinishPhase, SessionInv, historyVars, boundVars, clientSide
<1>2. DiffInv'
  BY <1>1, DiffStutterInv
<1>3. DiffTypeOK'
  BY <1>2 DEF DiffInv
<1>4. CASE pc = "delete"
  <2>1. /\ pc' = "idle" /\ outcome' = "success" /\ report' = "success"
        /\ todo' = {} /\ step' = "next" /\ current' = None
    BY <1>4 DEF FinishPhase, End, NextPhase
  <2>2. TypeOK'
    BY <1>1, <1>3, <2>1 DEF TypeOK, OnDisk
  \* Every list has been gone through: each path is as in the source.
  <2>3. ASSUME accurate, NoCopy
        PROVE  disk = clientDisk
    <3>1. ASSUME NEW p \in Paths
          PROVE  disk[p] = sourceMeta[p]
      <4>1. CASE p \in added \cup modified
        BY <4>1, <1>1, <1>4, <2>3 DEF ProgressInv, Received
      <4>2. CASE moved[p] # None
        BY <4>2, <1>1, <1>4, <2>3 DEF ProgressInv, Moved
      <4>3. CASE p \in deleted
        BY <4>3, <1>1, <1>4, <2>3, ListFacts DEF ProgressInv, PathOnlyInTarget
      <4>4. CASE p \in PathOfMovedInTarget
        <5>1. PICK q \in Paths : moved[q] = p
          BY <4>4 DEF PathOfMovedInTarget
        <5> QED
          BY <5>1, <1>1, <1>4, <2>3, ListFacts
          DEF ProgressInv, Moved, PathOnlyInTarget
      <4>5. CASE /\ p \notin added \cup modified \cup deleted \cup PathOfMovedInTarget
                 /\ moved[p] = None
        BY <4>5, <1>1, <2>3 DEF ProgressInv
      <4> QED
        BY <4>1, <4>2, <4>3, <4>4, <4>5
    <3>2. disk \in Metas /\ sourceMeta \in Metas /\ sourceMeta = clientDisk
      BY <1>1, <1>4, <2>3 DEF TypeOK, DiffInv, DiffTypeOK, SessionInv, Phases
    <3> QED
      BY <3>1, <3>2 DEF Metas
  <2>4. SuccessMeansSynced'
    <3>1. UNCHANGED copied
      BY <1>1, DiffUnchanged
    <3> QED
      BY <1>1, <2>3, <3>1 DEF SuccessMeansSynced, NoCopy
  <2> QED
    BY <1>1, <1>2, <2>1, <2>2, <2>4, IdleInv DEF TrustInv
<1>5. CASE pc # "delete"
  <2>1. /\ pc' \in Phases \ {"receive"} /\ todo' = ListOf(pc')
        /\ pc' = "move" <=> pc = "receive"
        /\ UNCHANGED <<step, current, outcome, report>>
    BY <1>1, <1>5 DEF FinishPhase, NextPhase, Phases
  <2>2. ListOf(pc') \subseteq Paths
    BY <1>1 DEF ListOf, DiffInv, DiffTypeOK
  <2>3. TypeOK'
    BY <1>1, <1>3, <2>1, <2>2 DEF TypeOK, OnDisk
  <2>4. /\ UNCHANGED <<targetMeta, sourceMeta, added, copied, moved, modified,
                       deleted, diffPhase>>
        /\ PathOnlyInTarget' = PathOnlyInTarget /\ NoCopy' = NoCopy
        /\ PathOfMovedInTarget' = PathOfMovedInTarget
        /\ \A phase : ListOf(phase)' = ListOf(phase)
    BY <1>1, DiffUnchanged
  <2>5. todo' \subseteq ListOf(pc)' /\ pc' # "idle" /\ pc' # "diff"
    BY <2>1, <2>4 DEF Phases, ListOf
  <2>6. SessionInv'
    BY <1>1, <2>1, <2>4, <2>5 DEF SessionInv, Phases
  <2>7. TrustInv'
    BY <1>1, <2>1, <2>4 DEF TrustInv, Phases
  <2>8. ProgressInv'
    <3> SUFFICES ASSUME accurate, NoCopy, NEW p \in Paths
                 PROVE  /\ p \in added \cup modified => disk[p] = sourceMeta[p]
                        /\ moved[p] # None =>
                             IF Moved(p)' THEN disk[p] = sourceMeta[p] /\ disk[moved[p]] = None
                                          ELSE disk[moved[p]] = targetMeta[moved[p]]
                        /\ p \in deleted /\ pc' = "delete" => p \in todo'
                        /\ p \notin added \cup modified \cup deleted \cup PathOfMovedInTarget
                           /\ moved[p] = None => disk[p] = sourceMeta[p]
      BY <1>1, <2>1, <2>4, <2>5 DEF ProgressInv, Phases
    <3>1. p \in added \cup modified => disk[p] = sourceMeta[p]
      BY <1>1 DEF ProgressInv, Received
    <3>2. p \in deleted /\ pc' = "delete" => p \in todo'
      BY <2>1 DEF ListOf
    <3>3. moved[p] # None => (Moved(p)' <=> Moved(p))
      <4>1. CASE pc = "receive"
        <5>1. pc' = "move" /\ todo' = {q \in Paths : moved[q] # None}
          BY <4>1, <2>1 DEF ListOf
        <5> QED
          BY <4>1, <5>1 DEF Moved
      <4>2. CASE pc # "receive"
        BY <4>2, <1>1, <1>5, <2>1 DEF Moved, Phases
      <4> QED
        BY <4>1, <4>2
    <3> QED
      BY <1>1, <3>1, <3>2, <3>3 DEF ProgressInv
  <2>9. SuccessMeansSynced'
    BY <1>1, <2>1 DEF SuccessMeansSynced, SessionInv, Phases
  <2> QED
    BY <1>2, <2>3, <2>6, <2>7, <2>8, <2>9 DEF PushInv
<1> QED
  BY <1>4, <1>5

(* An entry is taken in hand: the diff, the client's files and the         *)
(* histories stay, the outcome is still open.                              *)
LEMMA SameDiff ==
  ASSUME PushInv, pc \in Phases, UNCHANGED diffVars
  PROVE  /\ TypeOK /\ DiffInv /\ SessionInv /\ TrustInv /\ ProgressInv
         /\ DiffInv' /\ DiffTypeOK'
         /\ diffPhase = "ready" /\ todo \subseteq ListOf(pc) /\ ListOf(pc) \subseteq Paths
         /\ outcome = "none"
         /\ UNCHANGED <<targetMeta, sourceMeta, added, copied, moved, modified,
                        deleted, diffPhase>>
         /\ PathOnlyInTarget' = PathOnlyInTarget /\ NoCopy' = NoCopy
         /\ PathOfMovedInTarget' = PathOfMovedInTarget
         /\ \A phase : ListOf(phase)' = ListOf(phase)
<1>1. DiffInv /\ DiffInv'
  BY DiffStutterInv DEF PushInv
<1>2. ListOf(pc) \subseteq Paths
  BY <1>1 DEF ListOf, DiffInv, DiffTypeOK
<1> QED
  BY <1>1, <1>2, DiffUnchanged DEF PushInv, SessionInv, DiffInv, Phases

LEMMA ReceiveStartInv ==
  ASSUME PushInv, NEW p \in Paths, ReceiveStart(p)
  PROVE  PushInv'
<1> USE NoneAssumption, TornAssumption, NextPhaseDomain
<1>1. /\ pc = "receive" /\ pc \in Phases /\ step = "next" /\ p \in todo
      /\ clientDisk[p] # None
      /\ todo' = todo \ {p} /\ current' = p /\ step' = "body"
      /\ disk' = [disk EXCEPT ![p] = Torn] /\ stamped' = stamped \ {p}
      /\ UNCHANGED diffVars
      /\ UNCHANGED <<clientDisk, clientMeta, meta, pc, outcome, report, accurate, copyUsed,
                     refused, edits, faults>>
  BY DEF ReceiveStart, At, historyVars, boundVars, Phases, clientSide
<1>2. /\ TypeOK /\ DiffInv /\ SessionInv /\ TrustInv /\ ProgressInv
      /\ DiffInv' /\ DiffTypeOK'
      /\ diffPhase = "ready" /\ todo \subseteq ListOf("receive")
      /\ outcome = "none"
      /\ UNCHANGED <<targetMeta, sourceMeta, added, copied, moved, modified,
                     deleted, diffPhase>>
      /\ PathOnlyInTarget' = PathOnlyInTarget /\ NoCopy' = NoCopy
      /\ PathOfMovedInTarget' = PathOfMovedInTarget
      /\ \A phase : ListOf(phase)' = ListOf(phase)
  BY <1>1, SameDiff
<1>3. p \in added \cup modified /\ sourceMeta[p] # None /\ moved[p] = None
  BY <1>1, <1>2, ListFacts DEF ListOf
<1>4. disk' \in Metas /\ \A q \in Paths \ {p} : disk'[q] = disk[q]
  BY <1>1, <1>2 DEF TypeOK, Metas
<1>5. stamped \subseteq Paths /\ stamped' \subseteq OnDisk(disk)'
  BY <1>1, <1>2, <1>4 DEF TypeOK, OnDisk
<1>6. TypeOK'
  BY <1>1, <1>2, <1>4, <1>5 DEF TypeOK
<1>7. SessionInv'
  BY <1>1, <1>2 DEF SessionInv
<1>8. \A q \in PathOnlyInTarget : q # p /\ q \in Paths
  BY <1>3 DEF PathOnlyInTarget
<1>9. TrustInv'
  BY <1>1, <1>2, <1>4, <1>5, <1>8 DEF TrustInv
<1>10. ProgressInv'
  BY <1>1, <1>2, <1>3, <1>4, <1>8, ListFacts
  DEF ProgressInv, Received, Moved
<1>11. SuccessMeansSynced'
  BY <1>1, <1>2 DEF SuccessMeansSynced
<1> QED
  BY <1>2, <1>6, <1>7, <1>9, <1>10, <1>11 DEF PushInv

LEMMA CannotSendInv ==
  ASSUME PushInv, NEW p \in Paths, CannotSend(p)
  PROVE  PushInv'
<1>1. /\ pc = "receive" /\ pc \in Phases /\ UNCHANGED diffVars
      /\ pc' = "idle" /\ outcome' = "failed" /\ report' = "failed"
      /\ todo' = {} /\ step' = "next" /\ current' = None
      /\ UNCHANGED <<clientDisk, clientMeta, disk, meta, stamped, accurate,
                     copyUsed, refused, edits, faults>>
  BY DEF CannotSend, At, Phases, End, historyVars, boundVars, clientSide
<1>2. TypeOK /\ TrustInv /\ DiffInv' /\ DiffTypeOK'
  BY <1>1, SameDiff
<1>3. TypeOK'
  BY <1>1, <1>2 DEF TypeOK, OnDisk
<1>4. SuccessMeansSynced'
  BY <1>1 DEF SuccessMeansSynced
<1> QED
  BY <1>1, <1>2, <1>3, <1>4, IdleInv DEF TrustInv

LEMMA ReceiveEndInv ==
  ASSUME PushInv, ReceiveEnd
  PROVE  PushInv'
<1> USE NoneAssumption, TornAssumption, NextPhaseDomain
<1>1. /\ pc = "receive" /\ pc \in Phases /\ step = "body" /\ step' = "record"
      /\ disk' = [disk EXCEPT ![current] = clientDisk[current]]
      /\ UNCHANGED diffVars
      /\ UNCHANGED <<clientDisk, clientMeta, meta, stamped, pc, todo, current, outcome,
                     report, accurate, copyUsed, refused, edits, faults>>
  BY DEF ReceiveEnd, At, historyVars, boundVars, Phases, clientSide
<1>2. /\ TypeOK /\ DiffInv /\ SessionInv /\ TrustInv /\ ProgressInv
      /\ DiffInv' /\ DiffTypeOK'
      /\ diffPhase = "ready" /\ ListOf("receive") \subseteq Paths
      /\ outcome = "none"
      /\ UNCHANGED <<targetMeta, sourceMeta, added, copied, moved, modified,
                     deleted, diffPhase>>
      /\ PathOnlyInTarget' = PathOnlyInTarget /\ NoCopy' = NoCopy
      /\ PathOfMovedInTarget' = PathOfMovedInTarget
      /\ \A phase : ListOf(phase)' = ListOf(phase)
  BY <1>1, SameDiff
<1>3. /\ current \in ListOf("receive") \ todo /\ current \in Paths
      /\ current \notin stamped /\ clientDisk[current] # None
      /\ accurate \/ ~refused => clientDisk = sourceMeta
  BY <1>1, <1>2 DEF SessionInv
<1>4. /\ current \in added \cup modified
      /\ sourceMeta[current] # None /\ moved[current] = None
  BY <1>2, <1>3, ListFacts DEF ListOf
<1>5. /\ disk' \in Metas /\ disk'[current] = clientDisk[current]
      /\ \A q \in Paths \ {current} : disk'[q] = disk[q]
  BY <1>1, <1>2, <1>3 DEF TypeOK, Metas, UserContents
<1>6. stamped \subseteq Paths /\ stamped' \subseteq OnDisk(disk)'
  BY <1>1, <1>2, <1>3, <1>5 DEF TypeOK, OnDisk
<1>7. TypeOK'
  BY <1>1, <1>2, <1>5, <1>6 DEF TypeOK
<1>8. SessionInv'
  BY <1>1, <1>2, <1>3, <1>4, <1>5 DEF SessionInv
<1>9. \A q \in PathOnlyInTarget : q # current /\ q \in Paths
  BY <1>4 DEF PathOnlyInTarget
<1>10. TrustInv'
  BY <1>1, <1>2, <1>3, <1>5, <1>6, <1>9 DEF TrustInv
<1>11. ProgressInv'
  BY <1>1, <1>2, <1>3, <1>4, <1>5, <1>9, ListFacts
  DEF ProgressInv, Received, Moved
<1>12. SuccessMeansSynced'
  BY <1>1, <1>2 DEF SuccessMeansSynced
<1> QED
  BY <1>2, <1>7, <1>8, <1>10, <1>11, <1>12 DEF PushInv

(* renameSync or copyFileSync threw: the session is over.                  *)
LEMMA ThrowInv ==
  ASSUME PushInv, pc \in Phases, UNCHANGED diffVars, Throw,
         UNCHANGED <<clientDisk, clientMeta, meta, historyVars, boundVars>>
  PROVE  PushInv'
<1>1. /\ pc' = "idle" /\ outcome' = "failed" /\ report' = "success"
      /\ todo' = {} /\ step' = "next" /\ current' = None
      /\ UNCHANGED <<clientDisk, clientMeta, disk, meta, stamped, accurate, copyUsed,
                     refused, edits, faults>>
  BY DEF Throw, End, historyVars, boundVars, clientSide
<1>2. TypeOK /\ TrustInv /\ DiffInv' /\ DiffTypeOK'
  BY SameDiff
<1>3. TypeOK'
  BY <1>1, <1>2 DEF TypeOK, OnDisk
<1>4. SuccessMeansSynced'
  BY <1>1 DEF SuccessMeansSynced
<1> QED
  BY <1>1, <1>2, <1>3, <1>4, IdleInv DEF TrustInv

LEMMA MoveFileInv ==
  ASSUME PushInv, NEW p \in Paths, MoveFile(p)
  PROVE  PushInv'
<1> USE NoneAssumption, NextPhaseDomain
<1> DEFINE from == moved[p]
<1>1. /\ pc = "move" /\ pc \in Phases /\ step = "next" /\ p \in todo
      /\ UNCHANGED diffVars
      /\ UNCHANGED <<clientDisk, clientMeta, meta, historyVars, boundVars>>
  BY DEF MoveFile, At, Phases, clientSide
<1>2. CASE disk[from] = None
  BY <1>1, <1>2, ThrowInv DEF MoveFile
<1>3. CASE disk[from] # None
  <2>1. /\ disk' = [disk EXCEPT ![p] = disk[from], ![from] = None]
        /\ stamped' = stamped \ {p, from}
        /\ todo' = todo \ {p} /\ current' = p /\ step' = "record"
        /\ UNCHANGED <<pc, outcome, report, accurate, copyUsed, refused, edits,
                       faults>>
    BY <1>1, <1>3 DEF MoveFile, historyVars, boundVars
  <2>2. /\ TypeOK /\ DiffInv /\ SessionInv /\ TrustInv /\ ProgressInv
        /\ DiffInv' /\ DiffTypeOK'
        /\ diffPhase = "ready" /\ todo \subseteq ListOf("move")
        /\ outcome = "none"
        /\ UNCHANGED <<targetMeta, sourceMeta, added, copied, moved, modified,
                       deleted, diffPhase>>
        /\ PathOnlyInTarget' = PathOnlyInTarget /\ NoCopy' = NoCopy
        /\ PathOfMovedInTarget' = PathOfMovedInTarget
        /\ \A phase : ListOf(phase)' = ListOf(phase)
    BY <1>1, SameDiff
  \* The file taken is one that only the target has.
  <2>3. moved[p] # None /\ p \in ListOf("move")
    BY <1>1, <2>2 DEF ListOf
  <2>4. /\ from \in PathOnlyInTarget /\ from \in Paths /\ from # p
        /\ sourceMeta[p] # None /\ targetMeta[from] = sourceMeta[p]
        /\ p \notin PathOnlyInTarget
    BY <2>2, <2>3, ListFacts DEF PathOnlyInTarget
  <2>5. /\ disk' \in Metas /\ disk'[p] = disk[from] /\ disk'[from] = None
        /\ \A q \in Paths \ {p, from} : disk'[q] = disk[q]
    BY <2>1, <2>2, <2>4 DEF TypeOK, Metas
  <2>6. stamped \subseteq Paths /\ stamped' \subseteq OnDisk(disk)'
    BY <2>1, <2>2, <2>5 DEF TypeOK, OnDisk
  <2>7. TypeOK'
    BY <1>1, <2>1, <2>2, <2>5, <2>6 DEF TypeOK
  <2>8. SessionInv'
    BY <1>1, <1>3, <2>1, <2>2, <2>3, <2>5 DEF SessionInv
  <2>9. TrustInv'
    <3>1. \A q \in PathOnlyInTarget : q \in Paths /\ q # p
      BY <2>4 DEF PathOnlyInTarget
    <3> QED
      BY <1>1, <1>3, <2>1, <2>2, <2>4, <2>5, <2>6, <3>1 DEF TrustInv
  <2>10. ProgressInv'
    <3> SUFFICES ASSUME accurate, NoCopy, NEW q \in Paths
                 PROVE  /\ q \in added \cup modified => disk'[q] = sourceMeta[q]
                        /\ moved[q] # None =>
                             IF Moved(q)' THEN disk'[q] = sourceMeta[q] /\ disk'[moved[q]] = None
                                          ELSE disk'[moved[q]] = targetMeta[moved[q]]
                        /\ q \notin added \cup modified \cup deleted \cup PathOfMovedInTarget
                           /\ moved[q] = None => disk'[q] = sourceMeta[q]
      BY <1>1, <2>1, <2>2 DEF ProgressInv
    <3>1. sourceMeta[from] = None
      BY <2>4 DEF PathOnlyInTarget
    <3>2. ASSUME q \in added \cup modified
          PROVE  disk'[q] = sourceMeta[q]
      <4>1. q # p /\ q # from
        BY <2>2, <2>3, <3>1, <3>2, ListFacts
      <4> QED
        BY <1>1, <2>2, <2>5, <3>2, <4>1 DEF ProgressInv, Received
    <3>3. CASE q = p
      BY <1>1, <2>1, <2>2, <2>3, <2>4, <2>5, <3>2, <3>3
      DEF ProgressInv, Moved
    <3>4. ASSUME q # p, moved[q] # None
          PROVE  IF Moved(q)' THEN disk'[q] = sourceMeta[q] /\ disk'[moved[q]] = None
                              ELSE disk'[moved[q]] = targetMeta[moved[q]]
      <4>1. moved[q] # from /\ moved[q] # p /\ moved[q] \in Paths /\ q # from
        BY <2>2, <2>4, <3>1, <3>4, ListFacts DEF DiffInv, DiffCore, ScanInv, PathOnlyInTarget
      <4>2. Moved(q)' <=> Moved(q)
        BY <2>1, <3>4 DEF Moved
      <4>3. disk'[q] = disk[q] /\ disk'[moved[q]] = disk[moved[q]]
        BY <2>5, <3>4, <4>1
      <4> QED
        BY <1>1, <2>2, <3>4, <4>2, <4>3 DEF ProgressInv
    <3>5. ASSUME moved[q] = None,
                 q \notin added \cup modified \cup deleted \cup PathOfMovedInTarget
          PROVE  disk'[q] = sourceMeta[q]
      <4>1. q # p /\ q # from
        BY <2>3, <3>5, NoneAssumption DEF PathOfMovedInTarget
      <4> QED
        BY <1>1, <2>2, <2>5, <3>5, <4>1 DEF ProgressInv
    <3> QED
      BY <3>2, <3>3, <3>4, <3>5, <2>3
  <2>11. SuccessMeansSynced'
    BY <2>1, <2>2 DEF SuccessMeansSynced
  <2> QED
    BY <2>2, <2>7, <2>8, <2>9, <2>10, <2>11 DEF PushInv
<1> QED
  BY <1>2, <1>3

LEMMA CopyFileInv ==
  ASSUME PushInv, NEW p \in Paths, CopyFile(p)
  PROVE  PushInv'
<1> USE NoneAssumption, NextPhaseDomain
<1> DEFINE from == copied[p]
<1>1. /\ pc = "copy" /\ pc \in Phases /\ step = "next" /\ p \in todo
      /\ UNCHANGED diffVars
      /\ UNCHANGED <<clientDisk, clientMeta, meta, historyVars, boundVars>>
  BY DEF CopyFile, At, Phases, clientSide
<1>2. CASE disk[from] = None
  BY <1>1, <1>2, ThrowInv DEF CopyFile
<1>3. CASE disk[from] # None
  <2>1. /\ disk' = [disk EXCEPT ![p] = disk[from]]
        /\ stamped' = stamped \ {p}
        /\ todo' = todo \ {p} /\ current' = p /\ step' = "record"
        /\ UNCHANGED <<pc, outcome, report, accurate, copyUsed, refused, edits,
                       faults>>
    BY <1>1, <1>3 DEF CopyFile, historyVars, boundVars
  <2>2. /\ TypeOK /\ DiffInv /\ SessionInv /\ TrustInv /\ ProgressInv
        /\ DiffInv' /\ DiffTypeOK'
        /\ diffPhase = "ready" /\ todo \subseteq ListOf("copy")
        /\ outcome = "none"
        /\ UNCHANGED <<sourceMeta, copied, diffPhase>> /\ NoCopy' = NoCopy
        /\ \A phase : ListOf(phase)' = ListOf(phase)
    BY <1>1, SameDiff
  <2>3. copied[p] # None /\ p \in ListOf("copy")
    BY <1>1, <2>2 DEF ListOf
  <2>4. from \in Paths
    BY <2>2, <2>3, ListFacts
  <2>5. ~NoCopy
    BY <2>3 DEF NoCopy
  <2>6. /\ disk' \in Metas /\ disk'[p] = disk[from]
        /\ \A q \in Paths \ {p} : disk'[q] = disk[q]
    BY <2>1, <2>2, <2>4 DEF TypeOK, Metas
  <2>7. stamped' \subseteq OnDisk(disk)'
    BY <2>1, <2>2, <2>6 DEF TypeOK, OnDisk
  <2>8. TypeOK'
    BY <1>1, <2>1, <2>2, <2>6, <2>7 DEF TypeOK
  <2>9. SessionInv'
    BY <1>1, <1>3, <2>1, <2>2, <2>3, <2>6 DEF SessionInv
  <2>10. TrustInv' /\ ProgressInv'
    BY <1>1, <2>1, <2>2, <2>5 DEF TrustInv, ProgressInv
  <2>11. SuccessMeansSynced'
    BY <2>1, <2>2 DEF SuccessMeansSynced
  <2> QED
    BY <2>2, <2>8, <2>9, <2>10, <2>11 DEF PushInv
<1> QED
  BY <1>2, <1>3

LEMMA DeleteFileInv ==
  ASSUME PushInv, NEW p \in Paths, DeleteFile(p)
  PROVE  PushInv'
<1> USE NoneAssumption, NextPhaseDomain
<1>1. /\ pc = "delete" /\ pc \in Phases /\ step = "next" /\ p \in todo
      /\ todo' = todo \ {p} /\ current' = p /\ step' = "record"
      /\ disk' = [disk EXCEPT ![p] = None] /\ stamped' = stamped \ {p}
      /\ UNCHANGED diffVars
      /\ UNCHANGED <<clientDisk, clientMeta, meta, pc, outcome, report, accurate, copyUsed,
                     refused, edits, faults>>
  BY DEF DeleteFile, At, historyVars, boundVars, Phases, clientSide
<1>2. /\ TypeOK /\ DiffInv /\ SessionInv /\ TrustInv /\ ProgressInv
      /\ DiffInv' /\ DiffTypeOK'
      /\ diffPhase = "ready" /\ todo \subseteq ListOf("delete")
      /\ outcome = "none"
      /\ UNCHANGED <<targetMeta, sourceMeta, added, copied, moved, modified,
                     deleted, diffPhase>>
      /\ PathOnlyInTarget' = PathOnlyInTarget /\ NoCopy' = NoCopy
      /\ PathOfMovedInTarget' = PathOfMovedInTarget
      /\ \A phase : ListOf(phase)' = ListOf(phase)
  BY <1>1, SameDiff
<1>3. p \in deleted /\ p \in PathOnlyInTarget /\ sourceMeta[p] = None
  BY <1>1, <1>2, ListFacts DEF ListOf, PathOnlyInTarget
<1>4. /\ disk' \in Metas /\ disk'[p] = None
      /\ \A q \in Paths \ {p} : disk'[q] = disk[q]
  BY <1>1, <1>2 DEF TypeOK, Metas
<1>5. stamped \subseteq Paths /\ stamped' \subseteq OnDisk(disk)'
  BY <1>1, <1>2, <1>4 DEF TypeOK, OnDisk
<1>6. TypeOK'
  BY <1>1, <1>2, <1>4, <1>5 DEF TypeOK
<1>7. SessionInv'
  BY <1>1, <1>2, <1>4 DEF SessionInv
<1>8. PathOnlyInTarget \subseteq Paths
  BY DEF PathOnlyInTarget
<1>9. TrustInv'
  BY <1>1, <1>2, <1>4, <1>5, <1>8 DEF TrustInv
\* Nothing was moved away from a path that is deleted.
<1>10. \A q \in Paths : moved[q] # None => moved[q] # p
  BY <1>2, <1>3 DEF DiffInv, DiffCore, ResultInv
<1>11. ProgressInv'
  <2>1. \A q \in added \cup modified : q # p
    BY <1>2, <1>3, ListFacts
  <2>2. \A q \in Paths : moved[q] # None => q # p /\ moved[q] \in Paths \ {p}
    BY <1>2, <1>3, <1>8, <1>10, ListFacts
  <2> QED
    BY <1>1, <1>2, <1>3, <1>4, <2>1, <2>2 DEF ProgressInv, Received, Moved
<1>12. SuccessMeansSynced'
  BY <1>1, <1>2 DEF SuccessMeansSynced
<1> QED
  BY <1>2, <1>6, <1>7, <1>9, <1>11, <1>12 DEF PushInv

LEMMA RecordMetaInv ==
  ASSUME PushInv, RecordMeta
  PROVE  PushInv'
<1> USE NoneAssumption, NextPhaseDomain
<1>1. /\ pc \in Phases /\ step = "record"
      /\ IF pc = "move" THEN step' = "forget" /\ UNCHANGED current
                        ELSE step' = "next" /\ current' = None
      /\ UNCHANGED diffVars
      /\ UNCHANGED <<clientDisk, clientMeta, disk, pc, todo, outcome, report, accurate,
                     copyUsed, refused, edits, faults>>
  BY DEF RecordMeta, historyVars, boundVars, clientSide
<1>2. /\ TypeOK /\ DiffInv /\ SessionInv /\ TrustInv /\ ProgressInv
      /\ DiffInv' /\ DiffTypeOK'
      /\ diffPhase = "ready" /\ ListOf(pc) \subseteq Paths
      /\ outcome = "none"
      /\ UNCHANGED <<targetMeta, sourceMeta, added, copied, moved, modified,
                     deleted, diffPhase>>
      /\ PathOnlyInTarget' = PathOnlyInTarget /\ NoCopy' = NoCopy
      /\ PathOfMovedInTarget' = PathOfMovedInTarget
      /\ \A phase : ListOf(phase)' = ListOf(phase)
  BY <1>1, SameDiff
<1>3. current \in ListOf(pc) \ todo /\ current \in Paths
  BY <1>1, <1>2 DEF SessionInv
<1> DEFINE Recorded == meta' \in Metas /\ stamped' \subseteq OnDisk(disk)' /\ TrustInv'
<1>5. ASSUME pc = "delete" PROVE Recorded
  <2>1. meta' = [meta EXCEPT ![current] = None] /\ stamped' = stamped
    BY <1>5 DEF RecordMeta, RecordedMeta, RecordedStamps
  <2>2. disk[current] = None
    BY <1>1, <1>2, <1>5 DEF SessionInv
  <2>3. meta' \in Metas /\ stamped' \subseteq OnDisk(disk)'
    BY <1>1, <1>2, <2>1 DEF TypeOK, Metas, OnDisk
  <2>4. current \notin stamped /\ \A q \in stamped' : meta'[q] = meta[q]
    BY <1>2, <1>3, <2>1, <2>2 DEF TypeOK, Metas, OnDisk
  <2>5. TrustInv'
    BY <1>1, <1>2, <2>1, <2>4 DEF TrustInv
  <2> QED
    BY <2>3, <2>5
<1>6. ASSUME pc = "move" PROVE Recorded
  <2>1. /\ meta' = [meta EXCEPT ![current] = sourceMeta[current]]
        /\ stamped' = stamped \cup {current}
    BY <1>6 DEF RecordMeta, RecordedMeta, RecordedStamps
  <2>2. disk[current] # None
    BY <1>1, <1>2, <1>6 DEF SessionInv
  <2>3. meta' \in Metas /\ stamped' \subseteq OnDisk(disk)'
    BY <1>1, <1>2, <1>3, <2>1, <2>2
    DEF TypeOK, Metas, OnDisk, DiffInv, DiffTypeOK
  <2>4. /\ meta'[current] = sourceMeta[current]
        /\ \A q \in stamped' \ {current} : q \in stamped /\ meta'[q] = meta[q]
    BY <1>2, <1>3, <2>1 DEF TypeOK, Metas, OnDisk
  <2>5. TrustInv'
    BY <1>1, <1>2, <1>6, <2>1, <2>4 DEF TrustInv
  <2> QED
    BY <2>3, <2>5
<1>7. ASSUME pc \in {"receive", "copy"} PROVE Recorded
  <2>1. /\ meta' = [meta EXCEPT ![current] = sourceMeta[current]]
        /\ stamped' = stamped \cup {current}
    BY <1>7 DEF RecordMeta, RecordedMeta, RecordedStamps
  <2>2. disk[current] # None
    BY <1>1, <1>2, <1>7 DEF SessionInv
  <2>3. meta' \in Metas /\ stamped' \subseteq OnDisk(disk)'
    BY <1>1, <1>2, <1>3, <2>1, <2>2
    DEF TypeOK, Metas, OnDisk, DiffInv, DiffTypeOK
  <2>4. /\ meta'[current] = sourceMeta[current]
        /\ \A q \in stamped' \ {current} : q \in stamped /\ meta'[q] = meta[q]
    BY <1>2, <1>3, <2>1 DEF TypeOK, Metas, OnDisk
  \* A copied entry never gets here while the meta is trusted.
  <2>5. ~copyUsed /\ ~refused => disk[current] = sourceMeta[current]
    <3>1. CASE pc = "receive"
      BY <3>1, <1>1, <1>2 DEF SessionInv
    <3>2. CASE pc = "copy"
      <4>1. copied[current] # None
        BY <3>2, <1>3 DEF ListOf
      <4> QED
        BY <4>1, <1>1, <1>2, <1>3 DEF TrustInv, NoCopy
    <3> QED
      BY <3>1, <3>2, <1>7
  <2>6. TrustInv'
    BY <1>1, <1>2, <2>1, <2>4, <2>5 DEF TrustInv
  <2> QED
    BY <2>3, <2>6
<1>8. Recorded
  BY <1>1, <1>5, <1>6, <1>7 DEF Phases
<1>9. TypeOK'
  BY <1>1, <1>2, <1>8 DEF TypeOK
<1>10. SessionInv'
  BY <1>1, <1>2 DEF SessionInv
<1>11. ProgressInv'
  BY <1>1, <1>2 DEF ProgressInv, Received, Moved
<1>12. SuccessMeansSynced'
  BY <1>1, <1>2 DEF SuccessMeansSynced
<1> QED
  BY <1>2, <1>8, <1>9, <1>10, <1>11, <1>12 DEF PushInv

LEMMA ForgetMovedInv ==
  ASSUME PushInv, ForgetMoved
  PROVE  PushInv'
<1> USE NoneAssumption, NextPhaseDomain
<1>1. /\ pc = "move" /\ pc \in Phases /\ step = "forget"
      /\ meta' = [meta EXCEPT ![moved[current]] = None]
      /\ step' = "next" /\ current' = None
      /\ UNCHANGED diffVars
      /\ UNCHANGED <<clientDisk, clientMeta, disk, stamped, pc, todo, outcome,
                     report, accurate, copyUsed, refused, edits, faults>>
  BY DEF ForgetMoved, At, Phases, historyVars, boundVars, clientSide
<1>2. /\ TypeOK /\ DiffInv /\ SessionInv /\ TrustInv /\ ProgressInv
      /\ DiffInv' /\ DiffTypeOK'
      /\ diffPhase = "ready" /\ outcome = "none"
      /\ UNCHANGED <<targetMeta, sourceMeta, added, copied, moved, modified,
                     deleted, diffPhase>>
      /\ PathOnlyInTarget' = PathOnlyInTarget /\ NoCopy' = NoCopy
      /\ PathOfMovedInTarget' = PathOfMovedInTarget
      /\ \A phase : ListOf(phase)' = ListOf(phase)
  BY <1>1, SameDiff
\* The item that goes is of a path the disk no longer has.
<1>3. moved[current] \notin stamped
  BY <1>1, <1>2 DEF SessionInv, TypeOK, OnDisk
<1>4. meta' \in Metas /\ \A q \in stamped : q \in Paths /\ meta'[q] = meta[q]
  BY <1>1, <1>2, <1>3 DEF TypeOK, Metas, OnDisk
<1>5. TypeOK'
  BY <1>1, <1>2, <1>4 DEF TypeOK, OnDisk
<1>6. SessionInv'
  BY <1>1, <1>2 DEF SessionInv
<1>7. TrustInv'
  BY <1>1, <1>2, <1>4 DEF TrustInv
<1>8. ProgressInv'
  BY <1>1, <1>2 DEF ProgressInv, Received, Moved
<1>9. SuccessMeansSynced'
  BY <1>1, <1>2 DEF SuccessMeansSynced
<1> QED
  BY <1>2, <1>5, <1>6, <1>7, <1>8, <1>9 DEF PushInv

-----------------------------------------------------------------------------
(* The invariant holds whatever is edited, refused, broken or repeated.    *)
THEOREM PushInvariance == Spec => []PushInv
<1>1. ASSUME PushInv, [Next]_vars
      PROVE  PushInv'
  <2>1. CASE \E confirm, accept \in BOOLEAN : Connect(confirm, accept)
    BY <2>1, <1>1, ConnectInv
  <2>2. CASE Session
    <3>1. CASE Diff
      BY <3>1, <1>1, DiffStepInv
    <3>2. CASE ReadDiff
      BY <3>2, <1>1, ReadDiffInv
    <3>3. CASE FinishPhase
      BY <3>3, <1>1, FinishPhaseInv
    <3>4. CASE \E p \in Paths : \/ ReceiveStart(p) \/ CannotSend(p)
                                \/ MoveFile(p) \/ CopyFile(p) \/ DeleteFile(p)
      BY <3>4, <1>1, ReceiveStartInv, CannotSendInv, MoveFileInv, CopyFileInv, DeleteFileInv
    <3>5. CASE ReceiveEnd
      BY <3>5, <1>1, ReceiveEndInv
    <3>6. CASE RecordMeta
      BY <3>6, <1>1, RecordMetaInv
    <3>7. CASE ForgetMoved
      BY <3>7, <1>1, ForgetMovedInv
    <3> QED
      BY <2>2, <3>1, <3>2, <3>3, <3>4, <3>5, <3>6, <3>7 DEF Session
  <2>3. CASE Abandon
    BY <2>3, <1>1, AbandonInv
  <2>4. CASE Fault
    BY <2>4, <1>1, FaultInv
  <2>5. CASE \E p \in Paths, c \in UserContents \cup {None} :
                EditClient(p, c) \/ EditServer(p, c)
    BY <2>5, <1>1, EditClientInv, EditServerInv
  <2>6. CASE UNCHANGED vars
    <3>1. /\ UNCHANGED diffVars
          /\ UNCHANGED <<clientDisk, clientMeta, disk, meta, stamped, pc, todo, step,
                         current, outcome, report, accurate, copyUsed, refused,
                         edits, faults>>
      BY <2>6 DEF vars, sessionVars, historyVars, boundVars, clientSide
    <3>2. DiffInv'
      BY <1>1, <3>1, DiffStutterInv DEF PushInv
    <3>3. /\ UNCHANGED <<targetMeta, sourceMeta, added, copied, moved, modified,
                         deleted, diffPhase>>
          /\ PathOnlyInTarget' = PathOnlyInTarget /\ NoCopy' = NoCopy
          /\ PathOfMovedInTarget' = PathOfMovedInTarget
          /\ \A phase : ListOf(phase)' = ListOf(phase)
      BY <3>1, DiffUnchanged
    <3>4. TypeOK'
      BY <1>1, <3>1, <3>2 DEF PushInv, TypeOK, OnDisk, DiffInv
    <3>5. SessionInv' /\ TrustInv'
      BY <1>1, <3>1, <3>3 DEF PushInv, SessionInv, TrustInv
    <3>6. ProgressInv' /\ SuccessMeansSynced'
      BY <1>1, <3>1, <3>3
      DEF PushInv, ProgressInv, SuccessMeansSynced, Received, Moved
    <3> QED
      BY <3>2, <3>4, <3>5, <3>6 DEF PushInv
  <2> QED
    BY <1>1, <2>1, <2>2, <2>3, <2>4, <2>5, <2>6 DEF Next
<1> QED
  BY <1>1, PushInitInv, PTL DEF Spec

(* Type correctness of the push session. *)
THEOREM PushTypeCorrect == Spec => []TypeOK
BY PushInvariance, PTL DEF PushInv

(* The server's meta vouches only for contents its disk has. *)
THEOREM PushMetaVouches == Spec => []MetaVouchesForDisk
<1>1. PushInv => MetaVouchesForDisk
  BY DEF PushInv, TrustInv, MetaVouchesForDisk
<1> QED
  BY <1>1, PushInvariance, PTL

(* A push that ends well has made the server's files the client's. *)
THEOREM PushSucceeds == Spec => []SuccessMeansSynced
BY PushInvariance, PTL DEF PushInv

=============================================================================
