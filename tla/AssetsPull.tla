------------------------------ MODULE AssetsPull ------------------------------
(***************************************************************************)
(* The pull command (assets-management/tcp-protocol): the directory of     *)
(* AssetsBackup, as the client's, asks a server for its files.  The server *)
(* announces the diff and sends the contents the client lacks; the client  *)
(* writes them as they come, records them once all are there, and then     *)
(* moves, copies and deletes.  The source of AssetsBackup is the server's  *)
(* directory.                                                              *)
(***************************************************************************)
EXTENDS AssetsBackup

CONSTANTS
  Torn,       \* content of a file whose transfer was cut
  MaxPulls    \* bound on pulls

ASSUME TornAssumption == Torn \notin Paths \cup Contents \cup {None}

VARIABLES
  sourceSaved,  \* the server's meta as its file has it
  fresh,     \* history: that file matched the server's directory
  pulls

pullVars == <<sourceSaved, fresh, pulls>>

(* The server takes its meta before it aligns it with its disk: files that *)
(* came since are missing and files that went are still announced, while   *)
(* the items of changed files are renewed in place.                        *)
ServerView ==
  [p \in Paths |-> IF sourceSaved[p] = None \/ sourceDisk[p] = None
                   THEN sourceSaved[p] ELSE sourceDisk[p]]

AlignedTarget == [p \in Paths |-> IF Outdated(p) THEN FullInfo(p) ELSE meta[p]]

PullStart ==
  /\ pc = "idle" /\ pulls < MaxPulls
  /\ pulls' = pulls + 1
  /\ meta' = AlignedTarget /\ stamped' = OnDisk(disk)
  /\ BeginDiff(AlignedTarget, ServerView)
  /\ sourceSaved' = sourceDisk
  /\ fresh' = (sourceSaved = sourceDisk)
  /\ command' = "pull" /\ accurate' = (AlignedTarget = disk)
  /\ pc' = "diff" /\ outcome' = "none"
  /\ UNCHANGED <<sourceDisk, disk, todo, current, boundVars>>

\* Mutant: files that are both moved and expected are moved first.
NextPullPhaseEarly ==
  [receive |-> "added", added |-> "modified", modified |-> "moved",
   moved |-> "copied", copied |-> "done", deleted |-> "done"]

NextPullPhase ==
  [receive |-> "added", added |-> "modified", modified |-> "moved",
   moved |-> "copied", copied |-> "deleted", deleted |-> "done"]

PullList(phase) ==
  CASE phase = "receive"  -> added \cup modified
    [] phase = "added"    -> added
    [] phase = "modified" -> modified
    [] phase = "moved"    -> {p \in Paths : moved[p] # None}
    [] phase = "copied"   -> {p \in Paths : copied[p] # None}
    [] phase = "deleted"  -> deleted
    [] OTHER              -> {}

EnterPull(phase) ==
  /\ pc' = phase /\ todo' = PullList(phase)
  /\ UNCHANGED <<current, outcome>>

(* runAssetsSyncCommand: with nothing to do, or a refusal, it ends.        *)
PullConfirm ==
  /\ pc = "diff" /\ command = "pull" /\ diffPhase = "ready"
  /\ IF NeedAction THEN EnterPull("receive") ELSE End("done")
  /\ UNCHANGED <<diffVars, sourceDisk, disk, meta, stamped, startVars, boundVars, pullVars>>

PullRefused ==
  /\ pc = "diff" /\ command = "pull" /\ diffPhase = "ready" /\ NeedAction
  /\ End("refused")
  /\ UNCHANGED <<diffVars, sourceDisk, disk, meta, stamped, startVars, boundVars, pullVars>>

PullFinishPhase ==
  /\ pc \in DOMAIN NextPullPhase /\ todo = {} /\ current = None
  /\ IF NextPullPhase[pc] = "done" THEN End("done") ELSE EnterPull(NextPullPhase[pc])
  /\ UNCHANGED <<diffVars, sourceDisk, disk, meta, stamped, startVars, boundVars, pullVars>>

(* A file begins to arrive: the client's is cut to nothing first.  One     *)
(* that is gone makes the server send an error frame, in which the client  *)
(* finds no file's name: it throws.                                        *)
ReceiveStart(p) ==
  /\ Ready("receive", p)
  /\ IF sourceDisk[p] = None
     THEN Throw
     ELSE ChangeDisk(p, [disk EXCEPT ![p] = Torn])
  /\ UNCHANGED <<diffVars, sourceDisk, meta, startVars, boundVars, pullVars>>

ReceiveEnd ==
  /\ pc = "receive" /\ current # None
  /\ disk' = [disk EXCEPT ![current] = sourceDisk[current]]
  /\ current' = None
  /\ UNCHANGED <<diffVars, sourceDisk, meta, stamped, pc, todo, outcome, startVars, boundVars, pullVars>>

(* An item with the announced sha1 and the date and size of the file.      *)
Record(p, m) ==
  /\ todo' = todo \ {p}
  /\ meta' = m
  /\ stamped' = stamped \cup {p}
  /\ UNCHANGED <<pc, current, outcome>>

RecordReceived(p) ==
  /\ pc \in {"added", "modified"} /\ p \in todo
  /\ Record(p, [meta EXCEPT ![p] = sourceMeta[p]])
  /\ UNCHANGED <<diffVars, sourceDisk, disk, startVars, boundVars, pullVars>>

Skip(p) ==
  /\ todo' = todo \ {p}
  /\ UNCHANGED <<disk, stamped, meta, pc, current, outcome>>

(* The file is moved or copied, then recorded; one that is not there is    *)
(* passed over without a word.                                             *)
PullMove(p) ==
  /\ Ready("moved", p)
  /\ IF disk[moved[p]] = None
     THEN Skip(p)
     ELSE /\ ChangeDisk(p, [disk EXCEPT ![p] = disk[moved[p]], ![moved[p]] = None])
          /\ UNCHANGED meta
  /\ UNCHANGED <<diffVars, sourceDisk, startVars, boundVars, pullVars>>

PullCopy(p) ==
  /\ Ready("copied", p)
  /\ IF disk[copied[p]] = None
     THEN Skip(p)
     ELSE /\ ChangeDisk(p, [disk EXCEPT ![p] = disk[copied[p]]])
          /\ UNCHANGED meta
  /\ UNCHANGED <<diffVars, sourceDisk, startVars, boundVars, pullVars>>

PullDelete(p) ==
  /\ Ready("deleted", p)
  /\ ChangeDisk(p, [disk EXCEPT ![p] = None])
  /\ UNCHANGED <<diffVars, sourceDisk, meta, startVars, boundVars, pullVars>>

PullRecord ==
  /\ pc \in {"moved", "copied", "deleted"} /\ current # None
  /\ meta' = CASE pc = "moved"   -> [meta EXCEPT ![current] = sourceMeta[current], ![moved[current]] = None]
               [] pc = "copied"  -> [meta EXCEPT ![current] = sourceMeta[current]]
               [] pc = "deleted" -> [meta EXCEPT ![current] = None]
  /\ stamped' = IF pc = "deleted" THEN stamped ELSE stamped \cup {current}
  /\ current' = None
  /\ UNCHANGED <<diffVars, sourceDisk, disk, pc, todo, outcome, startVars, boundVars, pullVars>>

PullInit == Init /\ sourceSaved = sourceDisk /\ fresh = FALSE /\ pulls = 0

PullNext ==
  \/ PullStart \/ PullConfirm \/ PullRefused \/ PullFinishPhase \/ ReceiveEnd \/ PullRecord
  \/ \E p \in Paths :
       \/ ReceiveStart(p) \/ RecordReceived(p) \/ PullMove(p) \/ PullCopy(p) \/ PullDelete(p)

-----------------------------------------------------------------------------
(* A pull that ends well from the server's current meta, with nothing to   *)
(* copy, leaves the client with the server's files, and recorded as such.  *)
(* (Moves come before copies, and a copy whose source has moved away is    *)
(* passed over: the condition cannot be dropped.)                          *)
PullReproducesSource ==
  command = "pull" /\ accurate /\ fresh /\ outcome = "done"
    /\ (\A p \in Paths : copied[p] = None)
  => disk = sourceDisk /\ meta = disk
=============================================================================
