--------------------------- MODULE ProcessManager ---------------------------
(***************************************************************************)
(* The process manager (lib/process-manager) for ONE process id.  It has   *)
(* no daemon: callers of startProcess, killProc, restartProcess and        *)
(* removeProcBaseDir work from the persisted snapshot info/index.json, a   *)
(* monitor process writes it and restarts its child, and the operating     *)
(* system kills, reaps and reparents.  Ids share no files, so one id is    *)
(* the whole state.                                                        *)
(*                                                                         *)
(* Atomic is the code between two awaits; any process may die between two  *)
(* steps.  A pid is never reused.  The launched script is one that is      *)
(* waited for over IPC (maxWaitCpResInSec is set) and may answer or not.   *)
(***************************************************************************)
EXTENDS Naturals, Sequences, FiniteSets, SequencesExt

CONSTANTS
  Operators,   \* processes that call the API, each one call at a time
  MaxRetry,    \* monitorConfig.retry.maxCount
  MaxCalls,    \* bound: API calls in a behaviour
  MaxStarts    \* bound: calls among them that may launch a process

ASSUME BoundsAssumption == MaxRetry \in Nat /\ MaxCalls \in Nat /\ MaxStarts \in Nat

Modes == {"monitored", "detached"}
NoPid == 0
NoInfo == [mon |-> NoPid, sp |-> NoPid]     \* readProcInfo returns null
Idle == [pc |-> "idle"]

VARIABLES
  procs,    \* every process launched so far; its pid is its place
  info,     \* what info/index.json says: pids of monitor and child
  ops,      \* what each operator is doing
  calls,    \* API calls and launching calls made so far
  mishaps   \* history: which ways of losing sight of a process have occurred

pmVars == <<procs, info, ops, calls, mishaps>>

Pids == DOMAIN procs
Alive(p) == p \in Pids /\ procs[p].alive                  \* isProcessAlive
Living == {p \in Pids : procs[p].alive}
Monitors == {p \in Pids : procs[p].kind = "monitor"}
Children(p) == {c \in Pids : procs[c].parent = p}
LivingChildren == Living \ Monitors

\* saves: the chain of the snapshot writer for this process: records not yet written.
NewProc(kind, parent, caller) ==
  [kind |-> kind, alive |-> TRUE, parent |-> parent, caller |-> caller,
   pc |-> "boot", child |-> NoPid, retry |-> 0, saves |-> <<>>]

\* Mutant: the check looks at the child alone.
RecordLivesChildOnly(i) == Alive(i.sp)

\* A record lives when its monitor does (if it has one), or its child.
RecordLives(i) == (i.mon # NoPid /\ i.mon # i.sp /\ Alive(i.mon)) \/ Alive(i.sp)

ManagedAlive == RecordLives(info)                         \* isManagedProcPidAlive

\* A launch or a respawn is under way until its record is written.
LaunchUnderWay(p) ==
  \/ procs[p].saves # <<>>
  \/ procs[p].kind = "monitor" /\ Alive(p) /\ procs[p].pc \in {"boot", "probation", "handshake"}
  \/ \E o \in Operators : ops[o].pc \in {"probation", "handshake"} /\ ops[o].pid = p

SetOp(o, rec) == ops' = [ops EXCEPT ![o] = rec]
Note(cause, happened) == mishaps' = IF happened THEN mishaps \union {cause} ELSE mishaps

\* A dead process takes its unwritten saves with it; init adopts its children.
Kill(ps, gone) ==
  [q \in DOMAIN ps |->
     IF q \in gone THEN [ps[q] EXCEPT !.alive = FALSE, !.saves = IF ps[q].kind = "monitor" THEN <<>> ELSE @]
     ELSE ps[q]]

-----------------------------------------------------------------------------
(* RollingSnapshotWriter.save: the old file is renamed away at once, the    *)
(* new one can be read when writeFile is done; saves of a writer queue up.  *)
Save(ps, p, rec) ==
  /\ procs' = [ps EXCEPT ![p].saves = Append(@, rec)]
  /\ info' = IF ps[p].saves = <<>> THEN NoInfo ELSE info

SaveWritten(p) ==
  /\ procs[p].saves # <<>>
  /\ procs' = [procs EXCEPT ![p].saves = Tail(@)]
  /\ info' = IF Len(procs[p].saves) = 1 THEN Head(procs[p].saves) ELSE NoInfo
  /\ UNCHANGED <<ops, calls, mishaps>>

-----------------------------------------------------------------------------
(* startProcess *)

Launch(o, mode) ==
  /\ procs' = Append(procs, NewProc(IF mode = "monitored" THEN "monitor" ELSE "child", NoPid, o))
  /\ SetOp(o, [pc |-> IF mode = "monitored" THEN "await" ELSE "probation", pid |-> Len(procs) + 1])
  /\ Note("started during a launch", \E p \in Pids : LaunchUnderWay(p))
  /\ UNCHANGED info

\* Check and launch are one synchronous piece: "is already running, cannot start again".
CheckAndLaunch(o, mode) ==
  \/ /\ ~ManagedAlive
     /\ Launch(o, mode)
  \/ /\ ManagedAlive
     /\ SetOp(o, Idle)
     /\ UNCHANGED <<procs, info, mishaps>>

StartCall(o, mode) ==
  /\ ops[o].pc = "idle" /\ calls.all < MaxCalls /\ calls.starts < MaxStarts
  /\ calls' = [all |-> calls.all + 1, starts |-> calls.starts + 1]
  /\ CheckAndLaunch(o, mode)

\* The monitor has answered, or 15 seconds are over; both ways the channel is closed and
\* the caller is given what the snapshot now says.
MonitorAwaited(o) ==
  /\ ops[o].pc \in {"await", "answered"}
  /\ SetOp(o, Idle)
  /\ UNCHANGED <<procs, info, calls, mishaps>>

\* Detached mode: the operator is the one who spawns the child and saves the record.
ChildStays(o) ==
  /\ ops[o].pc = "probation" /\ Alive(ops[o].pid)
  /\ SetOp(o, [ops[o] EXCEPT !.pc = "handshake"])
  /\ UNCHANGED <<procs, info, calls, mishaps>>

ChildFails(o) ==
  /\ ops[o].pc = "probation" /\ ~Alive(ops[o].pid)
  /\ SetOp(o, Idle)
  /\ UNCHANGED <<procs, info, calls, mishaps>>

DetachedSaved(o) ==
  /\ ops[o].pc = "handshake"
  /\ Save(procs, ops[o].pid, [mon |-> NoPid, sp |-> ops[o].pid])
  /\ SetOp(o, Idle)
  /\ UNCHANGED <<calls, mishaps>>

\* An operator may be interrupted; a launch it was conducting is left behind.
OperatorDies(o) ==
  LET mine == {p \in Pids : procs[p].kind = "child" /\ procs[p].caller = o /\ procs[p].saves # <<>>}
  IN /\ ops[o].pc # "idle" \/ mine # {}
     /\ procs' = [p \in Pids |-> IF p \in mine THEN [procs[p] EXCEPT !.saves = <<>>] ELSE procs[p]]
     /\ SetOp(o, Idle)
     /\ Note("operator gone", mine # {} \/ ops[o].pc \in {"probation", "handshake"})
     /\ UNCHANGED <<info, calls>>

-----------------------------------------------------------------------------
(* launchCpInMonitoredMode, in the monitor process *)

SpawnFrom(m, retry) ==
  LET c == Len(procs) + 1
  IN procs' = Append([procs EXCEPT ![m].pc = "probation", ![m].child = c, ![m].retry = retry],
                     NewProc("child", m, procs[m].caller))

MonitorAt(m, pc) == m \in Monitors /\ Alive(m) /\ procs[m].pc = pc

FirstSpawn(m) ==
  /\ MonitorAt(m, "boot")
  /\ SpawnFrom(m, 0)
  /\ UNCHANGED <<info, ops, calls, mishaps>>

\* minUptime has passed with the child still there.
Handshake(m) ==
  /\ MonitorAt(m, "probation") /\ Alive(procs[m].child)
  /\ procs' = [procs EXCEPT ![m].pc = "handshake"]
  /\ UNCHANGED <<info, ops, calls, mishaps>>

\* It was not: the rejection of doSpawn is handled nowhere, which ends the monitor.
SpawnFails(m) ==
  /\ MonitorAt(m, "probation") /\ ~Alive(procs[m].child)
  /\ procs' = Kill(procs, {m})
  /\ UNCHANGED <<info, ops, calls, mishaps>>

\* The child answered or the wait timed out.  Only now is its exit listened for: if it is
\* gone already the monitor is deaf.  The first time, the operator is sent the result;
\* a send into a channel the operator has closed ends the monitor.
Watch(m) ==
  LET c == procs[m].child
      o == procs[m].caller
      pc == IF Alive(c) THEN "watch" ELSE "deaf"
      saved == [procs EXCEPT ![m].pc = pc]
      first == Children(m) = {c}
      waiting == ops[o].pc = "await" /\ ops[o].pid = m
  IN /\ MonitorAt(m, "handshake")
     /\ \/ /\ ~first \/ waiting
           /\ Save(saved, m, [mon |-> m, sp |-> c])
           /\ IF first THEN SetOp(o, [ops[o] EXCEPT !.pc = "answered"]) ELSE UNCHANGED ops
           /\ UNCHANGED mishaps
        \/ /\ first /\ ~waiting
           /\ procs' = Kill(saved, {m})
           /\ info' = NoInfo
           /\ Note("answer unwanted", TRUE)
           /\ UNCHANGED ops
     /\ UNCHANGED calls

\* Mutant: one retry less.
ChildGoneOneLess(m) ==
  /\ MonitorAt(m, "watch") /\ ~Alive(procs[m].child)
  /\ procs' = [procs EXCEPT ![m].pc = IF procs[m].retry + 1 < MaxRetry THEN "interval" ELSE "done"]
  /\ UNCHANGED <<info, ops, calls, mishaps>>

\* The exit event of the watched child.
ChildGone(m) ==
  /\ MonitorAt(m, "watch") /\ ~Alive(procs[m].child)
  /\ procs' = [procs EXCEPT ![m].pc = IF procs[m].retry < MaxRetry THEN "interval" ELSE "done"]
  /\ UNCHANGED <<info, ops, calls, mishaps>>

Respawn(m) ==
  /\ MonitorAt(m, "interval")
  /\ SpawnFrom(m, procs[m].retry + 1)
  /\ UNCHANGED <<info, ops, calls, mishaps>>

\* Nothing is left on its event loop.
MonitorEnds(m) ==
  /\ MonitorAt(m, "done") \/ MonitorAt(m, "deaf")
  /\ procs[m].saves = <<>>
  /\ procs' = Kill(procs, {m})
  /\ UNCHANGED <<info, ops, calls, mishaps>>

\* Somebody or something ends a monitor: what its child is, only a written record tells.
MonitorDies(m) ==
  /\ m \in Living \cap Monitors
  /\ procs' = Kill(procs, {m})
  /\ Note("monitor gone", Alive(procs[m].child) /\ info.sp # procs[m].child)
  /\ UNCHANGED <<info, ops, calls>>

\* A child ends or crashes by itself.
ChildExits(c) ==
  /\ c \in LivingChildren
  /\ procs' = Kill(procs, {c})
  /\ UNCHANGED <<info, ops, calls, mishaps>>

-----------------------------------------------------------------------------
(* killProc, restartProcess, removeProcBaseDir *)

\* What rmSync does to the directory: a save under way never becomes readable.
RemoveDir ==
  /\ info' = NoInfo
  /\ procs' = [p \in Pids |-> [procs[p] EXCEPT !.saves = IF @ = <<>> THEN @ ELSE Tail(@)]]
  /\ Note("removed while saving", \E p \in Pids : procs[p].saves # <<>>)

\* The end of killProc: clean up if asked to, then start again if this is a restart.
FinishKill(o, call) ==
  /\ IF call.cleanUp THEN ~ManagedAlive /\ RemoveDir ELSE UNCHANGED <<procs, info, mishaps>>
  /\ SetOp(o, IF call.thenStart = "no" THEN Idle ELSE [pc |-> "restart", mode |-> call.thenStart])

\* The monitor first, then the child.
PidsOf(i) == SelectSeq(<<i.mon, i.sp>>, Alive)

KillCall(o, call) ==
  /\ ops[o].pc = "idle" /\ calls.all < MaxCalls
  /\ call.thenStart # "no" => calls.starts < MaxStarts
  /\ calls' = [all |-> calls.all + 1,
               starts |-> calls.starts + IF call.thenStart = "no" THEN 0 ELSE 1]
  /\ \/ /\ info = NoInfo                           \* returns [] without cleaning up
        /\ SetOp(o, IF call.thenStart = "no" THEN Idle ELSE [pc |-> "restart", mode |-> call.thenStart])
        /\ UNCHANGED <<procs, info, mishaps>>
     \/ /\ info # NoInfo /\ PidsOf(info) = <<>>
        /\ FinishKill(o, call)
     \/ /\ PidsOf(info) # <<>>
        /\ SetOp(o, [pc |-> "list", pids |-> PidsOf(info), call |-> call])
        /\ UNCHANGED <<procs, info, mishaps>>

\* The ps listing: a root is followed by the children it has now; a pid that is listed
\* below another one is no root.
ListTree(o) ==
  LET present == SelectSeq(ops[o].pids, Alive)
      below(r) == {c \in Children(r) : Alive(c)}
      isRoot(p) == \A r \in ToSet(present) : p \notin below(r)
      tree(r) == <<r>> \o SetToSeq(below(r))
  IN /\ ops[o].pc = "list"
     /\ SetOp(o, [pc |-> "signal", call |-> ops[o].call,
                  targets |-> FlattenSeq([i \in DOMAIN SelectSeq(present, isRoot) |->
                                            tree(SelectSeq(present, isRoot)[i])])])
     /\ UNCHANGED <<procs, info, calls, mishaps>>

\* Each in turn is signalled, and the first one that is gone ends the matter.  A monitor
\* dies of the signal, a child may take its time or ignore it.
Reached(targets) == {targets[i] : i \in {j \in DOMAIN targets : \A k \in 1..j : Alive(targets[k])}}

SignalTree(o) ==
  LET reached == Reached(ops[o].targets)
  IN /\ ops[o].pc = "signal"
     /\ \E dies \in SUBSET reached :
          /\ reached \cap Monitors \subseteq dies
          /\ procs' = Kill(procs, dies)
     /\ Note("respawn survived", \E m \in reached \cap Monitors :
                 procs[m].saves # <<>> \/ (Alive(procs[m].child) /\ info.sp # procs[m].child))
     /\ SetOp(o, [pc |-> "wait", call |-> ops[o].call])
     /\ UNCHANGED <<info, calls>>

KilledAll(o) ==
  /\ ops[o].pc = "wait" /\ ~ManagedAlive
  /\ FinishKill(o, ops[o].call)
  /\ UNCHANGED calls

\* Mutant: the poll has no deadline.
KillPollsOn(o) == ops[o].pc = "wait" /\ ManagedAlive /\ UNCHANGED pmVars

\* maxWaitMs has passed: "is still alive after ...", and no restart.
KillGivesUp(o) ==
  /\ ops[o].pc = "wait" /\ ManagedAlive
  /\ SetOp(o, Idle)
  /\ UNCHANGED <<procs, info, calls, mishaps>>

RestartCall(o) ==
  /\ ops[o].pc = "restart"
  /\ CheckAndLaunch(o, ops[o].mode)
  /\ UNCHANGED calls

\* Mutant: the directory is removed without looking.
RemoveUnchecked(o) ==
  /\ ops[o].pc = "idle" /\ calls.all < MaxCalls
  /\ calls' = [calls EXCEPT !.all = @ + 1]
  /\ RemoveDir
  /\ UNCHANGED ops

RemoveCall(o) ==
  /\ ops[o].pc = "idle" /\ calls.all < MaxCalls
  /\ ~ManagedAlive                                 \* "process is still running"
  /\ calls' = [calls EXCEPT !.all = @ + 1]
  /\ RemoveDir
  /\ UNCHANGED ops

-----------------------------------------------------------------------------
Calls == [cleanUp : BOOLEAN, thenStart : Modes \union {"no"}]

PMInit ==
  /\ procs = <<>>
  /\ info = NoInfo
  /\ ops = [o \in Operators |-> Idle]
  /\ calls = [all |-> 0, starts |-> 0]
  /\ mishaps = {}

OperatorStep(o) ==
  \/ MonitorAwaited(o) \/ ChildStays(o) \/ ChildFails(o) \/ DetachedSaved(o)
  \/ ListTree(o) \/ SignalTree(o) \/ KilledAll(o) \/ KillGivesUp(o) \/ RestartCall(o)

MonitorStep(m) ==
  \/ FirstSpawn(m) \/ Handshake(m) \/ SpawnFails(m) \/ Watch(m)
  \/ ChildGone(m) \/ Respawn(m) \/ MonitorEnds(m)

PMNext ==
  \/ \E o \in Operators :
       \/ \E mode \in Modes : StartCall(o, mode)
       \/ \E call \in Calls : KillCall(o, call)
       \/ RemoveCall(o)
       \/ OperatorStep(o)
       \/ OperatorDies(o)
  \/ \E p \in Pids : SaveWritten(p) \/ MonitorStep(p) \/ MonitorDies(p) \/ ChildExits(p)

\* The event loops of the processes run, timers fire, files get written; it is enough to
\* assume that they do not all stand still.  Nothing makes a child exit, a monitor die, an
\* operator call, or be interrupted.
EventLoops ==
  \/ \E o \in Operators : OperatorStep(o)
  \/ \E p \in Pids : SaveWritten(p) \/ MonitorStep(p)

PMFairness == WF_pmVars(EventLoops)

PMSpec == PMInit /\ [][PMNext]_pmVars /\ PMFairness

-----------------------------------------------------------------------------
(* Properties *)

\* The pids a monitor may have: each launch makes at most a monitor and MaxRetry + 1 children.
MonitorPids == 1..((MaxStarts - 1) * (MaxRetry + 2) + 1)
\* A process is in sight when the snapshot names it or its living monitor.
InSight(p) == p \in {info.mon, info.sp} \/ (procs[p].parent = info.mon /\ Alive(info.mon))

\* No daemon keeps the list of processes, the snapshot has to lead to each of them.  A
\* living process is named by the snapshot or the child of a monitor that is, or its launch
\* is not over yet; unless an operator was interrupted, a monitor died before its record of
\* a living child was written, a launch outlasted its operator's patience, a kill met a
\* respawn, or two operators overlapped (a start, or a removal, during a launch).
NoProcessOutOfSight ==
  mishaps = {} =>
    \A p \in Living :
      InSight(p) \/ \E q \in {p, procs[p].parent} \cap Living : LaunchUnderWay(q)

\* startProcess refuses while the process runs (docs/design.md: the id prevents a repeated
\* start): but for those mishaps never two monitors nor two children of one id live.  A
\* monitor never has two at once, so the resources of the previous child are released
\* (service/types.ts on minInterval).
NeverTwice ==
  /\ mishaps = {} => Cardinality(LivingChildren) <= 1 /\ Cardinality(Living \cap Monitors) <= 1
  /\ \A m \in Monitors : Cardinality(Children(m) \cap Living) <= 1

\* The exit of a watched child is followed by another child as long as retries are left,
\* or the monitor is killed.  A child that exits while its answer is awaited (pc "deaf")
\* or before minUptime is not covered: the code does not retry those.
ExitIsRetried ==
  \A m \in MonitorPids, r \in 0..(MaxRetry - 1) :
    (m \in Pids /\ MonitorAt(m, "watch") /\ ~Alive(procs[m].child) /\ procs[m].retry = r)
      ~> (m \in Pids /\ (procs[m].retry > r \/ (~Alive(m) /\ procs[m].pc \in {"watch", "interval"})))

\* Every call returns: a start after its waits, a kill when all is dead or maxWaitMs over.
CallsReturn == \A o \in Operators : ops[o].pc # "idle" ~> ops[o].pc = "idle"
=============================================================================
