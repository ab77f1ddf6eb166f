------------------------------ MODULE AssetsPush ------------------------------
(***************************************************************************)
(* The push command of assets-management/tcp-protocol: a client sends what *)
(* its directory holds, the server applies the diff to its own directory   *)
(* and records every change in the meta it persists there.                 *)
(*                                                                         *)
(* One session at a time, any number of sessions.  Between two of them the *)
(* files of either side may be edited without the meta being told; during  *)
(* one, the connection may break or the server may stop at any step.       *)
(*                                                                         *)
(* A meta item holds the sha1, date and size of a file.  An item is in     *)
(* `stamped' when its date and size are those of the file on disk: the     *)
(* alignment with the disk then trusts its sha1 without reading the file.  *)
(***************************************************************************)
EXTENDS AssetDiff

CONSTANTS
  Torn,      \* content of a file whose transfer was cut
  MaxEdits,  \* bound on edits of files between sessions
  MaxFaults  \* bound on broken connections and server stops

ASSUME TornAssumption == Torn \in Contents
ASSUME BoundAssumption == MaxEdits \in Nat /\ MaxFaults \in Nat

VARIABLES
  clientDisk,  \* the client's files
  clientMeta,  \* the client's persisted meta
  disk,        \* the server's files
  meta,        \* the server's persisted meta: the sha1 of each item
  stamped,     \* items whose recorded date and size are those on disk
  pc,          \* phase of the session
  todo,        \* entries of the phase's list not yet handled
  step,        \* "next" entry, its "body" arriving, its meta to "record", the
               \* item it was moved from to "forget"
  current,     \* the entry being handled
  outcome,     \* how the last session ended on the server
  report,      \* what the client said of it
  accurate,    \* history: the session's metas said what the two disks held
  copyUsed,    \* history: some session so far had a copied entry
  refused,     \* history: some session ran on a meta known to be out of date
  edits, faults

sessionVars == <<pc, todo, step, current, outcome, report>>
historyVars == <<accurate, copyUsed, refused>>
boundVars == <<edits, faults>>
clientSide == <<clientDisk, clientMeta>>
vars == <<diffVars, clientSide, disk, meta, stamped, sessionVars,
          historyVars, boundVars>>

UserContents == Contents \ {Torn}
OnDisk(d) == {p \in Paths : d[p] # None}

-----------------------------------------------------------------------------
(* updateMetaHandlerMeta: the meta is compared with a scan of the disk and *)
(* only the items whose date or size changed are hashed again.             *)
\* Mutant: the items of files that are still there are never hashed again.
AlignedMetaByName ==
  [p \in Paths |-> IF meta[p] # None /\ disk[p] # None THEN meta[p] ELSE disk[p]]

AlignedMeta ==
  [p \in Paths |-> IF p \in stamped THEN meta[p] ELSE disk[p]]

(* The server calls getMeta before it aligns the meta.  The list getMeta   *)
(* returned shares its items with the tree, so an item the alignment       *)
(* updates is seen updated, but items added or removed are not.            *)
TargetView(aligned) ==
  [p \in Paths |-> IF meta[p] = None THEN None
                   ELSE IF aligned[p] # None THEN aligned[p] ELSE meta[p]]

(* A client connects.  updateMetaHandlerMeta asks the client's user, then  *)
(* the server's operator, before it changes the meta (runDirectly is not   *)
(* passed): when one of them refuses, his meta stays as it is and the      *)
(* session goes on with it.  An aligned meta of the client, which only     *)
(* scans have made, is what its disk holds.                                *)
Connect(confirm, accept) ==
  /\ pc = "idle"
  /\ LET aligned == IF accept THEN AlignedMeta ELSE meta IN
       /\ clientMeta' = IF confirm THEN clientDisk ELSE clientMeta
       /\ meta' = aligned
       /\ stamped' = IF accept THEN OnDisk(disk) ELSE stamped
       /\ BeginDiff(TargetView(aligned), clientMeta')
       /\ accurate' = (TargetView(aligned) = disk /\ clientMeta' = clientDisk)
  /\ pc' = "diff"
  /\ outcome' = "none"
  /\ report' = "none"
  /\ refused' = (\/ refused
                 \/ clientMeta' # clientDisk
                 \/ ~accept /\ (AlignedMeta # meta \/ stamped # OnDisk(disk)))
  /\ UNCHANGED <<clientDisk, disk, todo, step, current, copyUsed, boundVars>>

Diff ==
  /\ pc = "diff"
  /\ (\E p \in Paths : ScanPath(p)) \/ FinishDiff
  /\ UNCHANGED <<clientSide, disk, meta, stamped, sessionVars, historyVars,
                 boundVars>>

\* The session ends: nothing is pending any more.
End(o, r) ==
  /\ pc' = "idle"
  /\ outcome' = o
  /\ report' = r
  /\ todo' = {}
  /\ step' = "next"
  /\ current' = None

\* The lists of the diff in the order handlePush goes through them.
ListOf(phase) ==
  CASE phase = "receive" -> added \cup modified
    [] phase = "move"    -> {p \in Paths : moved[p] # None}
    [] phase = "copy"    -> {p \in Paths : copied[p] # None}
    [] phase = "delete"  -> deleted
    [] OTHER             -> {}

\* Mutant: nothing is deleted.
NextPhaseNoDelete == [receive |-> "move", move |-> "copy", copy |-> "success",
                      delete |-> "success"]

NextPhase == [receive |-> "move", move |-> "copy", copy |-> "delete",
              delete |-> "success"]

(* The client reads the diff: with nothing to do it closes the connection, *)
(* else it starts to send files.                                           *)
ReadDiff ==
  /\ pc = "diff"
  /\ diffPhase = "ready"
  /\ IF NeedAction
     THEN /\ pc' = "receive"
          /\ todo' = ListOf("receive")
          /\ UNCHANGED <<step, current, outcome, report>>
     ELSE End("unchanged", "unchanged")
  /\ copyUsed' = (copyUsed \/ \E p \in Paths : copied[p] # None)
  /\ UNCHANGED <<diffVars, clientSide, disk, meta, stamped, accurate, refused,
                 boundVars>>

(* The command was diff, or the user does not confirm: the connection is   *)
(* closed after the diff.                                                  *)
Abandon ==
  /\ pc = "diff"
  /\ diffPhase = "ready"
  /\ End("none", "none")
  /\ UNCHANGED <<diffVars, clientSide, disk, meta, stamped, historyVars,
                 boundVars>>

At(phase, s) == pc = phase /\ step = s

\* A loop of handlePush ends, the next one starts or the push succeeded.
FinishPhase ==
  /\ pc \in DOMAIN NextPhase
  /\ step = "next"
  /\ todo = {}
  /\ LET next == NextPhase[pc] IN
       IF next = "success"
       THEN End("success", "success")
       ELSE /\ pc' = next
            /\ todo' = ListOf(next)
            /\ UNCHANGED <<step, current, outcome, report>>
  /\ UNCHANGED <<diffVars, clientSide, disk, meta, stamped, historyVars,
                 boundVars>>

(* receiveFileFromSocket: the file is opened, which truncates it, then     *)
(* filled as the bytes arrive.                                             *)
ReceiveStart(p) ==
  /\ At("receive", "next")
  /\ p \in todo
  /\ clientDisk[p] # None
  /\ todo' = todo \ {p}
  /\ current' = p
  /\ step' = "body"
  /\ disk' = [disk EXCEPT ![p] = Torn]
  /\ stamped' = stamped \ {p}
  /\ UNCHANGED <<diffVars, clientSide, meta, pc, outcome, report, historyVars,
                 boundVars>>

\* statSync of a file the client's meta lists, and its disk has not, throws.
CannotSend(p) ==
  /\ At("receive", "next")
  /\ p \in todo
  /\ clientDisk[p] = None
  /\ End("failed", "failed")
  /\ UNCHANGED <<diffVars, clientSide, disk, meta, stamped, historyVars,
                 boundVars>>

ReceiveEnd ==
  /\ At("receive", "body")
  /\ disk' = [disk EXCEPT ![current] = clientDisk[current]]
  /\ step' = "record"
  /\ UNCHANGED <<diffVars, clientSide, meta, stamped, pc, todo, current,
                 outcome,
                 report, historyVars, boundVars>>

(* renameSync and copyFileSync throw when the file to take is not there;   *)
(* the error frame the client then gets is not told from a success: any    *)
(* frame but 'info' ends its wait.                                         *)
Throw ==
  /\ End("failed", "success")
  /\ UNCHANGED <<disk, stamped>>

MoveFile(p) ==
  /\ At("move", "next")
  /\ p \in todo
  /\ LET from == moved[p] IN
       IF disk[from] = None
       THEN Throw
       ELSE /\ disk' = [disk EXCEPT ![p] = disk[from], ![from] = None]
            /\ stamped' = stamped \ {p, from}
            /\ todo' = todo \ {p}
            /\ current' = p
            /\ step' = "record"
            /\ UNCHANGED <<pc, outcome, report>>
  /\ UNCHANGED <<diffVars, clientSide, meta, historyVars, boundVars>>

CopyFile(p) ==
  /\ At("copy", "next")
  /\ p \in todo
  /\ LET from == copied[p] IN
       IF disk[from] = None
       THEN Throw
       ELSE /\ disk' = [disk EXCEPT ![p] = disk[from]]
            /\ stamped' = stamped \ {p}
            /\ todo' = todo \ {p}
            /\ current' = p
            /\ step' = "record"
            /\ UNCHANGED <<pc, outcome, report>>
  /\ UNCHANGED <<diffVars, clientSide, meta, historyVars, boundVars>>

DeleteFile(p) ==
  /\ At("delete", "next")
  /\ p \in todo
  /\ disk' = [disk EXCEPT ![p] = None]
  /\ stamped' = stamped \ {p}
  /\ todo' = todo \ {p}
  /\ current' = p
  /\ step' = "record"
  /\ UNCHANGED <<diffVars, clientSide, meta, pc, outcome, report, historyVars,
                 boundVars>>

(* createOrUpdateItem and removeItem: the item gets the date and size of   *)
(* the file now on disk, but the sha1 the client announced in the diff.    *)
\* Mutant: a modified file keeps the sha1 of the diff's `from'.
RecordedMetaOfFrom ==
  CASE pc = "delete" -> [meta EXCEPT ![current] = None]
    [] OTHER         -> [meta EXCEPT ![current] =
                           IF current \in modified THEN targetMeta[current]
                                                   ELSE sourceMeta[current]]

RecordedMeta ==
  IF pc = "delete" THEN [meta EXCEPT ![current] = None]
                   ELSE [meta EXCEPT ![current] = sourceMeta[current]]

RecordedStamps == IF pc = "delete" THEN stamped ELSE stamped \cup {current}

RecordMeta ==
  /\ pc \in DOMAIN NextPhase
  /\ step = "record"
  /\ meta' = RecordedMeta
  /\ stamped' = RecordedStamps
  /\ IF pc = "move" THEN step' = "forget" /\ UNCHANGED current
                    ELSE step' = "next" /\ current' = None
  /\ UNCHANGED <<diffVars, clientSide, disk, pc, todo, outcome, report,
                 historyVars, boundVars>>

\* A move saves the meta twice: the item of its source goes after the other came.
ForgetMoved ==
  /\ At("move", "forget")
  /\ meta' = [meta EXCEPT ![moved[current]] = None]
  /\ step' = "next"
  /\ current' = None
  /\ UNCHANGED <<diffVars, clientSide, disk, stamped, pc, todo, outcome, report,
                 historyVars, boundVars>>

(* The connection breaks or the server stops.  Of a file being received    *)
(* any part may be on disk; a change of the disk may lack its meta item.   *)
Fault ==
  /\ pc # "idle"
  /\ faults < MaxFaults
  /\ faults' = faults + 1
  /\ IF step = "body"
     THEN \E c \in {Torn, clientDisk[current]} :
             disk' = [disk EXCEPT ![current] = c]
     ELSE UNCHANGED disk
  /\ End("failed", "failed")
  /\ diffPhase' = "none"
  /\ UNCHANGED <<targetMeta, sourceMeta, rank, unscanned, added, copied, moved,
                 modified, deleted, clientSide, meta, stamped, historyVars,
                 edits>>

(* Files are edited, created or removed by their owners between sessions.  *)
EditClient(p, c) ==
  /\ pc = "idle"
  /\ edits < MaxEdits
  /\ edits' = edits + 1
  /\ clientDisk' = [clientDisk EXCEPT ![p] = c]
  /\ outcome' = "none" /\ report' = "none"
  /\ UNCHANGED <<diffVars, clientMeta, disk, meta, stamped, pc, todo, step, current,
                 historyVars, faults>>

EditServer(p, c) ==
  /\ pc = "idle"
  /\ edits < MaxEdits
  /\ edits' = edits + 1
  /\ disk' = [disk EXCEPT ![p] = c]
  /\ stamped' = stamped \ {p}
  /\ outcome' = "none" /\ report' = "none"
  /\ UNCHANGED <<diffVars, clientSide, meta, pc, todo, step, current,
                 historyVars, faults>>

(* The first session of a directory creates its meta from a full scan:     *)
(* every item is then accurate.                                            *)
Init ==
  /\ DiffInit
  /\ clientDisk \in [Paths -> UserContents \cup {None}]
  /\ disk \in [Paths -> UserContents \cup {None}]
  /\ clientMeta = clientDisk
  /\ meta = disk
  /\ stamped = OnDisk(disk)
  /\ pc = "idle" /\ todo = {} /\ step = "next" /\ current = None
  /\ outcome = "none" /\ report = "none"
  /\ accurate = FALSE /\ copyUsed = FALSE /\ refused = FALSE
  /\ edits = 0 /\ faults = 0

Session ==
  \/ Diff
  \/ ReadDiff
  \/ FinishPhase
  \/ \E p \in Paths : \/ ReceiveStart(p) \/ CannotSend(p)
                      \/ MoveFile(p) \/ CopyFile(p) \/ DeleteFile(p)
  \/ ReceiveEnd
  \/ RecordMeta
  \/ ForgetMoved

Next ==
  \/ \E confirm, accept \in BOOLEAN : Connect(confirm, accept)
  \/ Session
  \/ Abandon
  \/ Fault
  \/ \E p \in Paths, c \in UserContents \cup {None} :
        EditClient(p, c) \/ EditServer(p, c)

Spec == Init /\ [][Next]_vars

(* A session that has started goes on while nothing breaks it; the user    *)
(* pushes again and again; neither he nor the operator refuses for ever.   *)
FairSpec ==
  /\ Spec
  /\ WF_vars(Session)
  /\ SF_vars(Connect(TRUE, TRUE))
  /\ SF_vars(ReadDiff)

-----------------------------------------------------------------------------
TypeOK ==
  /\ DiffTypeOK
  /\ clientDisk \in [Paths -> UserContents \cup {None}]
  /\ clientMeta \in [Paths -> UserContents \cup {None}]
  /\ disk \in Metas
  /\ meta \in Metas
  /\ stamped \subseteq OnDisk(disk)
  /\ pc \in {"idle", "diff"} \cup DOMAIN NextPhase
  /\ todo \subseteq Paths
  /\ step \in {"next", "body", "record", "forget"}
  /\ current \in Paths \cup {None}
  /\ outcome \in {"none", "success", "unchanged", "failed"}
  /\ report \in {"none", "success", "unchanged", "failed"}
  /\ accurate \in BOOLEAN
  /\ copyUsed \in BOOLEAN
  /\ refused \in BOOLEAN
  /\ edits \in 0..MaxEdits
  /\ faults \in 0..MaxFaults

(* The meta never vouches for a content the disk does not have: an item    *)
(* whose date and size match the file has the sha1 of the file, through    *)
(* cut transfers, stops between a disk change and its meta item, edits and *)
(* retries.  A wrong item of this kind would never be noticed again.       *)
(* Two things break it, and are left out: a copy, and going on with a meta *)
(* known to be out of date when the user or the operator refuses to align  *)
(* his.                                                                    *)
MetaVouchesForDisk ==
  ~copyUsed /\ ~refused => \A p \in stamped : meta[p] = disk[p]

(* A push that ends well leaves the server with the client's files, if it  *)
(* started from metas that said what the two disks held and had nothing to *)
(* copy.                                                                   *)
SuccessMeansSynced ==
  outcome \in {"success", "unchanged"} /\ accurate
    /\ (\A p \in Paths : copied[p] = None) => disk = clientDisk

(* While no push needed a copy, pushing again and again brings the server  *)
(* to the client's files for good, whatever broke before.                  *)
EventuallySynced == <>[](disk = clientDisk) \/ <>(copyUsed \/ refused)

(* client.ts:126 "Push completed successfully.": said of a push that the   *)
(* server completed.                                                       *)
ReportedSuccessIsSuccess == report = "success" => outcome = "success"

=============================================================================
