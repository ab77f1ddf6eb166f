------------------------- MODULE ProcessManagerProofs -------------------------
(***************************************************************************)
(* No process gets out of sight and none runs twice, for any number of     *)
(* operators, calls, launches and retries.                                 *)
(*                                                                         *)
(* The argument: in a behaviour without mishaps a launch finds nothing     *)
(* alive and nothing under way, so whatever is alive later belongs to the  *)
(* last launch: it is its root, or a child of that monitor, which has but  *)
(* one.  And from the moment the root's launch is over, the record that    *)
(* was written leads to both.                                              *)
(***************************************************************************)
EXTENDS ProcessManager, FiniteSetTheorems, SequenceTheorems, TLAPS

Records == [mon : Nat, sp : Nat]
Settled == {"watch", "deaf", "interval", "done"}
Process ==
  [kind : {"monitor", "child"}, alive : BOOLEAN, parent : Nat, caller : Operators,
   pc : {"boot", "probation", "handshake"} \cup Settled, child : Nat, retry : Nat,
   saves : Seq(Records)]

PMTypeOK ==
  /\ procs \in Seq(Process)
  /\ info \in Records
  /\ ops = [o \in Operators |-> ops[o]]

\* An operator that conducts a launch, or waits for the monitor it launched.
Launching == {"await", "answered", "probation", "handshake"}
OperatorOK(o) ==
  /\ ops[o].pc \in Launching => ops[o] \in [pc : Launching, pid : Pids]
  /\ ops[o].pc \in {"probation", "handshake"} =>
       procs[ops[o].pid].kind = "child" /\ procs[ops[o].pid].parent = NoPid

\* A process was launched by an operator, or is the child of a monitor; of a monitor's
\* children only the last can be alive.
DescentOK(p) ==
  IF procs[p].parent = NoPid
  THEN procs[p].kind = "child" =>
         \A i \in DOMAIN procs[p].saves : procs[p].saves[i] = [mon |-> NoPid, sp |-> p]
  ELSE /\ procs[p].kind = "child" /\ procs[p].saves = <<>>
       /\ procs[p].parent \in Pids /\ procs[procs[p].parent].kind = "monitor"
       /\ procs[p].alive => procs[procs[p].parent].child = p

LastSaved(p) == procs[p].saves[Len(procs[p].saves)]

\* What a monitor knows of its child, and saves of it last.
MonitorOK(m) ==
  procs[m].kind = "monitor" =>
    /\ procs[m].parent = NoPid
    /\ procs[m].pc # "boot" => procs[m].child \in Pids /\ procs[procs[m].child].parent = m
    /\ procs[m].pc = "boot" => procs[m].child = NoPid
    /\ procs[m].pc \in Settled \ {"watch"} => ~Alive(procs[m].child)
    /\ procs[m].pc \in Settled /\ procs[m].saves # <<>> =>
         LastSaved(m) = [mon |-> m, sp |-> procs[m].child]
    /\ ~procs[m].alive => procs[m].saves = <<>>

Shape == /\ \A o \in Operators : OperatorOK(o)
         /\ \A p \in Pids : DescentOK(p) /\ MonitorOK(p)

Conducted(p) == \E o \in Operators : ops[o].pc \in {"probation", "handshake"} /\ ops[o].pid = p
Active(p) == procs[p].alive \/ procs[p].saves # <<>> \/ Conducted(p)
RootOf(p) == IF procs[p].parent = NoPid THEN p ELSE procs[p].parent

\* What is active belongs to one launch.
OneLaunch == \A p, q \in Pids : Active(p) /\ Active(q) => RootOf(p) = RootOf(q)

\* The record leads to a living process: a monitor whose launch is over, a child its
\* monitor left behind, a child that was launched detached.
Recorded(p) ==
  procs[p].alive =>
    /\ procs[p].kind = "monitor" /\ procs[p].pc \in Settled /\ procs[p].saves = <<>> =>
         info = [mon |-> p, sp |-> procs[p].child]
    /\ procs[p].parent # NoPid /\ ~procs[procs[p].parent].alive => info.sp = p
    /\ procs[p].kind = "child" /\ procs[p].parent = NoPid =>
         Conducted(p) \/ procs[p].saves # <<>> \/ info.sp = p

Clean == OneLaunch /\ \A p \in Pids : Recorded(p)

PMInv == PMTypeOK /\ Shape /\ (mishaps = {} => Clean)

-----------------------------------------------------------------------------
(* The process table as a function on the pids.                            *)
LEMMA Table ==
  ASSUME PMTypeOK
  PROVE  /\ Pids = 1..Len(procs) /\ Len(procs) \in Nat /\ NoPid \notin Pids
         /\ procs \in [Pids -> Process]
         /\ \A p \in Pids : procs[p] \in Process
BY DEF PMTypeOK, NoPid, Pids

LEMMA TableIsSeq ==
  ASSUME PMTypeOK, NEW f \in [Pids -> Process]
  PROVE  f \in Seq(Process) /\ DOMAIN f = Pids
BY Table

LEMMA TableGrows ==
  ASSUME PMTypeOK, NEW f \in [Pids -> Process], NEW x \in Process
  PROVE  /\ Append(f, x) \in Seq(Process)
         /\ Len(procs) + 1 \notin Pids
         /\ DOMAIN Append(f, x) = Pids \cup {Len(procs) + 1}
         /\ \A p \in Pids : Append(f, x)[p] = f[p]
         /\ Append(f, x)[Len(procs) + 1] = x
<1>1. f \in Seq(Process) /\ Len(f) = Len(procs)
  BY Table
<1>2. Len(Append(f, x)) = Len(procs) + 1
  BY <1>1, Table
<1>q. QED BY <1>1, <1>2, Table, AppendProperties

LEMMA PMInitInv == PMInit => PMInv
<1> SUFFICES ASSUME PMInit PROVE PMInv
  OBVIOUS
<1>1. Pids = {}
  BY DEF PMInit, Pids
<1>2. PMTypeOK
  BY DEF PMInit, PMTypeOK, NoInfo, NoPid, Records
<1>3. \A o \in Operators : OperatorOK(o)
  BY DEF PMInit, OperatorOK, Idle, Launching
<1>q. QED BY <1>1, <1>2, <1>3 DEF PMInv, Shape, Clean, OneLaunch

(* In sight: what the invariant has of a living process when no mishap has *)
(* occurred.                                                               *)
LEMMA LivingInSight ==
  ASSUME PMInv, mishaps = {}, NEW p \in Living
  PROVE  InSight(p) \/ \E q \in {p, procs[p].parent} \cap Living : LaunchUnderWay(q)
<1>1. p \in Pids /\ procs[p].alive /\ procs[p] \in Process /\ Recorded(p) /\ DescentOK(p) /\ MonitorOK(p)
  BY Table DEF PMInv, Shape, Clean, Living
<1>2. CASE procs[p].kind = "monitor"
  BY <1>1, <1>2 DEF Recorded, InSight, LaunchUnderWay, Process, Settled, Alive, Living
<1>3. CASE procs[p].kind = "child" /\ procs[p].parent = NoPid
  BY <1>1, <1>3 DEF Recorded, InSight, LaunchUnderWay, Conducted, Living
<1>4. CASE procs[p].kind = "child" /\ procs[p].parent # NoPid
  <2> DEFINE m == procs[p].parent
  <2>1. m \in Pids /\ procs[m] \in Process /\ procs[m].kind = "monitor" /\ procs[m].child = p
    BY <1>1, <1>4, Table DEF DescentOK, PMInv, NoPid
  <2>2. Recorded(m) /\ MonitorOK(m)
    BY <2>1 DEF PMInv, Shape, Clean
  <2>3. CASE ~procs[m].alive
    BY <1>1, <1>4, <2>3 DEF Recorded, InSight
  <2>4. CASE procs[m].alive /\ LaunchUnderWay(m)
    BY <2>1, <2>4 DEF Living
  <2>5. CASE procs[m].alive /\ ~LaunchUnderWay(m)
    BY <2>1, <2>2, <2>5 DEF Recorded, InSight, LaunchUnderWay, Process, Settled, Alive
  <2>q. QED BY <2>1, <2>3, <2>4, <2>5 DEF Process
<1>q. QED BY <1>1, <1>2, <1>3, <1>4 DEF Process

(* So a launch that is not a mishap finds nothing active.                  *)
LEMMA NothingActive ==
  ASSUME PMInv, mishaps = {}, ~ManagedAlive, ~ \E p \in Pids : LaunchUnderWay(p)
  PROVE  \A p \in Pids : ~Active(p)
<1> SUFFICES ASSUME NEW p \in Pids, Active(p) PROVE FALSE
  OBVIOUS
<1>1. procs[p].saves = <<>> /\ ~Conducted(p)
  BY DEF LaunchUnderWay, Conducted
<1>2. p \in Living
  BY <1>1, Table DEF PMInv, Active, Living, Process
<1>3. InSight(p)
  BY <1>2, LivingInSight DEF Living
<1>q. QED BY <1>2, <1>3, Table DEF PMInv, InSight, ManagedAlive, RecordLives, Alive, Living

-----------------------------------------------------------------------------
(* Operators who begin or end no conducting of a launch.                   *)
Conducts(r) == r.pc \in {"probation", "handshake"}
Launches(r) == r.pc \in Launching

QuietOps ==
  /\ ops' = [x \in Operators |-> ops'[x]]
  /\ \A x \in Operators : ops'[x] # ops[x] =>
       /\ ~Conducts(ops[x]) /\ ~Conducts(ops'[x])
       /\ Launches(ops'[x]) => ops'[x] \in [pc : Launching, pid : Pids']

LEMMA SameOps == PMTypeOK /\ UNCHANGED ops => QuietOps
BY DEF PMTypeOK, QuietOps

LEMMA QuietOp ==
  ASSUME PMTypeOK, NEW o \in Operators, NEW r, SetOp(o, r), ~Conducts(ops[o]), ~Launches(r)
  PROVE  QuietOps
BY DEF PMTypeOK, SetOp, QuietOps, Launches, Conducts, Launching

\* Nobody's descent changes.
SameDescent == \A p \in Pids : /\ p \in Pids' /\ procs'[p].kind = procs[p].kind
                               /\ procs'[p].parent = procs[p].parent

LEMMA OperatorsKeep ==
  ASSUME PMTypeOK, Shape, QuietOps, SameDescent
  PROVE  /\ \A x \in Operators : OperatorOK(x)'
         /\ \A p : Conducted(p)' <=> Conducted(p)
<1>1. ASSUME NEW x \in Operators PROVE OperatorOK(x)'
  <2>1. CASE ops'[x] = ops[x]
    BY <2>1 DEF Shape, OperatorOK, SameDescent, Launching
  <2>2. CASE ops'[x] # ops[x]
    BY <2>2 DEF QuietOps, OperatorOK, Conducts, Launches, Launching
  <2>q. QED BY <2>1, <2>2
<1>2. \A p : Conducted(p)' <=> Conducted(p)
  BY DEF QuietOps, Conducted, Conducts
<1>q. QED BY <1>1, <1>2

LEMMA TypeKeeps ==
  ASSUME PMTypeOK, procs' \in [Pids -> Process], info' \in Records, QuietOps
  PROVE  PMTypeOK' /\ Pids' = Pids
<1>1. procs' \in Seq(Process) /\ DOMAIN procs' = Pids
  BY TableIsSeq
<1>q. QED BY <1>1 DEF PMTypeOK, QuietOps, Pids

LEMMA QuietStep ==
  ASSUME PMInv, QuietOps, UNCHANGED <<procs, info>>, mishaps' = {} => mishaps = {}
  PROVE  PMInv'
<1> USE DEF PMInv
<1>3. PMTypeOK' /\ Pids' = Pids
  BY TypeKeeps, Table DEF PMTypeOK
<1>4. /\ \A x \in Operators : OperatorOK(x)'
      /\ \A p : Conducted(p)' <=> Conducted(p)
  BY <1>3, OperatorsKeep DEF SameDescent
<1>5. \A p \in Pids' : DescentOK(p)' /\ MonitorOK(p)'
  BY <1>3 DEF Shape, DescentOK, MonitorOK, LastSaved, Alive
<1>6. ASSUME mishaps' = {} PROVE Clean'
  <2>1. OneLaunch'
    BY <1>4, <1>3, <1>6 DEF Clean, OneLaunch, Active, RootOf
  <2>2. \A p \in Pids' : Recorded(p)'
    BY <1>4, <1>3, <1>6 DEF Clean, Recorded
  <2>q. QED BY <2>1, <2>2 DEF Clean
<1>q. QED BY <1>3, <1>4, <1>5, <1>6 DEF Shape

-----------------------------------------------------------------------------
(* Processes die.  A monitor must not leave a child that is not recorded.  *)
LEMMA KillPoint ==
  ASSUME PMTypeOK, NEW gone \in SUBSET Pids, procs' = Kill(procs, gone)
  PROVE  /\ procs' \in [Pids -> Process]
         /\ \A q \in Pids :
              /\ procs'[q].kind = procs[q].kind /\ procs'[q].parent = procs[q].parent
              /\ procs'[q].pc = procs[q].pc /\ procs'[q].child = procs[q].child
              /\ procs'[q].alive = (procs[q].alive /\ q \notin gone)
              /\ procs'[q].saves = IF q \in gone /\ procs[q].kind = "monitor"
                                   THEN <<>> ELSE procs[q].saves
<1>1. procs' = [q \in Pids |-> procs'[q]]
  BY DEF Kill, Pids
<1>2. ASSUME NEW q \in Pids, q \notin gone PROVE procs'[q] = procs[q]
  BY <1>2 DEF Kill, Pids
<1>3. ASSUME NEW q \in gone
      PROVE  procs'[q] = [procs[q] EXCEPT !.alive = FALSE,
                            !.saves = IF procs[q].kind = "monitor" THEN <<>> ELSE @]
  BY <1>3 DEF Kill, Pids
<1>4. ASSUME NEW q \in Pids
      PROVE  /\ procs'[q] \in Process
             /\ procs'[q].kind = procs[q].kind /\ procs'[q].parent = procs[q].parent
             /\ procs'[q].pc = procs[q].pc /\ procs'[q].child = procs[q].child
             /\ procs'[q].alive = (procs[q].alive /\ q \notin gone)
             /\ procs'[q].saves = IF q \in gone /\ procs[q].kind = "monitor"
                                  THEN <<>> ELSE procs[q].saves
  <2>1. procs[q] \in Process
    BY Table
  <2>2. CASE q \notin gone
    BY <1>2, <2>1, <2>2 DEF Process
  <2>3. CASE q \in gone
    <3>1. <<>> \in Seq(Records)
      OBVIOUS
    <3> DEFINE kept == IF procs[q].kind = "monitor" THEN <<>> ELSE procs[q].saves
    <3>2. kept \in Seq(Records)
      BY <2>1, <3>1 DEF Process
    <3>3. procs'[q] = [procs[q] EXCEPT !.alive = FALSE, !.saves = kept]
      BY <1>3, <2>1, <2>3 DEF Process
    <3> HIDE DEF kept
    <3>4. /\ procs'[q] \in Process
          /\ procs'[q].kind = procs[q].kind /\ procs'[q].parent = procs[q].parent
          /\ procs'[q].pc = procs[q].pc /\ procs'[q].child = procs[q].child
          /\ procs'[q].alive = FALSE /\ procs'[q].saves = kept
      BY <2>1, <3>2, <3>3 DEF Process
    <3>q. QED BY <2>3, <3>4 DEF kept
  <2>q. QED BY <2>2, <2>3
<1>q. QED BY <1>1, <1>4

LEMMA KillStep ==
  ASSUME PMInv, QuietOps, UNCHANGED info, NEW gone \in SUBSET Pids, procs' = Kill(procs, gone),
         mishaps' = {} => /\ mishaps = {}
                          /\ \A m \in gone : procs[m].kind = "monitor" /\ Alive(procs[m].child) =>
                                               info.sp = procs[m].child
  PROVE  PMInv'
<1> USE DEF PMInv
<1>1. /\ procs' \in [Pids -> Process]
      /\ \A q \in Pids :
           /\ procs'[q].kind = procs[q].kind /\ procs'[q].parent = procs[q].parent
           /\ procs'[q].pc = procs[q].pc /\ procs'[q].child = procs[q].child
           /\ procs'[q].alive = (procs[q].alive /\ q \notin gone)
           /\ procs'[q].saves = IF q \in gone /\ procs[q].kind = "monitor"
                                THEN <<>> ELSE procs[q].saves
  BY KillPoint
<1>2. PMTypeOK' /\ Pids' = Pids
  BY <1>1, TypeKeeps DEF PMTypeOK
<1>3. /\ \A x \in Operators : OperatorOK(x)'
      /\ \A p : Conducted(p)' <=> Conducted(p)
  BY <1>1, <1>2, OperatorsKeep DEF SameDescent
<1>4. ASSUME NEW p \in Pids PROVE DescentOK(p)'
  <2>1. DescentOK(p)
    BY DEF Shape
  <2>2. CASE procs[p].parent = NoPid
    <3>1. procs'[p].saves = <<>> \/ procs'[p].saves = procs[p].saves
      BY <1>1
    <3>q. QED BY <1>1, <2>1, <2>2, <3>1 DEF DescentOK
  <2>3. CASE procs[p].parent # NoPid
    <3>1. procs[p].parent \in Pids /\ procs'[p].saves = <<>> /\ (procs'[p].alive => procs[p].alive)
      BY <1>1, <2>1, <2>3 DEF DescentOK
    <3>q. QED BY <1>1, <1>2, <2>1, <2>3, <3>1 DEF DescentOK
  <2>q. QED BY <2>2, <2>3
<1>5. ASSUME NEW p \in Pids PROVE MonitorOK(p)'
  <2>1. MonitorOK(p)
    BY DEF Shape
  <2>2. ~Alive(procs[p].child) => ~Alive(procs[p].child)'
    BY <1>1, <1>2 DEF Alive
  <2>3. procs'[p].saves # <<>> => LastSaved(p)' = LastSaved(p) /\ procs'[p].saves = procs[p].saves
    BY <1>1 DEF LastSaved
  <2>q. QED BY <1>1, <1>2, <2>1, <2>2, <2>3 DEF MonitorOK
<1>6. ASSUME mishaps' = {} PROVE Clean'
  <2>0. ASSUME NEW p \in Pids, Active(p)' PROVE Active(p) /\ RootOf(p)' = RootOf(p)
    BY <1>1, <1>2, <1>3, <2>0 DEF Active, RootOf
  <2>1. OneLaunch'
    BY <1>2, <1>6, <2>0 DEF Clean, OneLaunch
  <2>2. ASSUME NEW p \in Pids PROVE Recorded(p)'
    <3>1. Recorded(p) /\ DescentOK(p)
      BY <1>6 DEF Clean, Shape
    <3>2. CASE procs[p].parent # NoPid
      <4> DEFINE m == procs[p].parent
      <4>1. m \in Pids /\ procs[m].kind = "monitor" /\ procs'[p].parent = m /\ procs[p].kind = "child"
        BY <1>1, <3>1, <3>2 DEF DescentOK
      <4>2. procs'[p].alive => procs[p].alive /\ procs[m].child = p
        BY <1>1, <3>1, <3>2 DEF DescentOK
      <4>3. ~procs'[m].alive => ~procs[m].alive \/ m \in gone
        BY <1>1, <4>1
      <4>4. procs[p].alive /\ (~procs[m].alive \/ m \in gone) => info.sp = p
        BY <1>6, <3>1, <3>2, <4>1, <4>2, <4>3 DEF Recorded, DescentOK, Alive
      <4>q. QED BY <1>1, <3>2, <4>1, <4>2, <4>3, <4>4 DEF Recorded
    <3>3. CASE procs[p].parent = NoPid
      <4> SUFFICES ASSUME procs'[p].alive PROVE Recorded(p)'
        BY DEF Recorded
      <4>1. procs[p].alive /\ procs'[p].saves = procs[p].saves
        BY <1>1
      <4>2. procs'[p].kind = procs[p].kind /\ procs'[p].pc = procs[p].pc
            /\ procs'[p].child = procs[p].child /\ procs'[p].parent = NoPid
        BY <1>1, <3>3
      <4>3. /\ procs[p].kind = "monitor" /\ procs[p].pc \in Settled /\ procs[p].saves = <<>> =>
                 info = [mon |-> p, sp |-> procs[p].child]
            /\ procs[p].kind = "child" => Conducted(p) \/ procs[p].saves # <<>> \/ info.sp = p
        BY <3>1, <3>3, <4>1 DEF Recorded
      <4>4. info' = info /\ (Conducted(p)' <=> Conducted(p))
        BY <1>3
      <4>q. QED BY <4>1, <4>2, <4>3, <4>4 DEF Recorded
    <3>q. QED BY <3>2, <3>3
  <2>q. QED BY <1>2, <2>1, <2>2 DEF Clean
<1>q. QED BY <1>2, <1>3, <1>4, <1>5, <1>6 DEF Shape

-----------------------------------------------------------------------------
(* One operator moves on, the others keep what they do.                    *)
LEMMA OperatorMoves ==
  ASSUME PMTypeOK, Shape, SameDescent, NEW o \in Operators, NEW r, SetOp(o, r), OperatorOK(o)'
  PROVE  /\ ops' = [x \in Operators |-> ops'[x]]
         /\ \A x \in Operators : OperatorOK(x)'
<1>1. ops' = [x \in Operators |-> ops'[x]]
  BY DEF PMTypeOK, SetOp
<1>2. \A x \in Operators \ {o} : ops'[x] = ops[x]
  BY DEF PMTypeOK, SetOp
<1>3. \A x \in Operators \ {o} : OperatorOK(x)'
  BY <1>2 DEF Shape, OperatorOK, SameDescent, Launching
<1>q. QED BY <1>1, <1>3

(* One process p changes its program counter or its saves, and a root may  *)
(* change the record.                                                      *)
LEMMA PointStep ==
  ASSUME PMInv, NEW p \in Pids, NEW np \in Process, procs' = [procs EXCEPT ![p] = np],
         np.kind = procs[p].kind, np.parent = procs[p].parent,
         np.alive = procs[p].alive, np.child = procs[p].child,
         info' \in Records, ops' = [x \in Operators |-> ops'[x]],
         \A x \in Operators : OperatorOK(x)',
         DescentOK(p)', MonitorOK(p)',
         \A q \in Pids \ {p} : Conducted(q)' <=> Conducted(q),
         info' = info \/ (procs[p].parent = NoPid /\ (procs[p].alive \/ procs[p].kind = "child")),
         mishaps' = {} => mishaps = {} /\ (Active(p)' => Active(p)) /\ Recorded(p)',
         mishaps' = {} /\ info' # info => Active(p)
  PROVE  PMInv'
<1> USE DEF PMInv
<1>1. procs' \in [Pids -> Process] /\ procs'[p] = np /\ \A q \in Pids \ {p} : procs'[q] = procs[q]
  BY Table
<1>2. PMTypeOK' /\ Pids' = Pids
  <2>1. procs' \in Seq(Process) /\ DOMAIN procs' = Pids
    BY <1>1, TableIsSeq
  <2>q. QED BY <2>1 DEF PMTypeOK, Pids
<1>3. \A q \in Pids : /\ procs'[q].kind = procs[q].kind /\ procs'[q].parent = procs[q].parent
                      /\ procs'[q].alive = procs[q].alive /\ procs'[q].child = procs[q].child
  BY <1>1
<1>4. ASSUME NEW q \in Pids, q # p PROVE DescentOK(q)'
  BY <1>1, <1>2, <1>3, <1>4 DEF Shape, DescentOK
<1>5. ASSUME NEW q \in Pids, q # p PROVE MonitorOK(q)'
  BY <1>1, <1>2, <1>3, <1>5 DEF Shape, MonitorOK, Alive, LastSaved
<1>6. Shape'
  BY <1>2, <1>4, <1>5 DEF Shape
<1>7. ASSUME mishaps' = {} PROVE Clean'
  <2>1. ASSUME NEW q \in Pids, Active(q)' PROVE Active(q) /\ RootOf(q)' = RootOf(q)
    <3>1. CASE q = p
      BY <1>3, <1>7, <2>1, <3>1 DEF RootOf
    <3>2. CASE q # p
      BY <1>1, <2>1, <3>2 DEF RootOf, Active
    <3>q. QED BY <3>1, <3>2
  <2>2. OneLaunch'
    BY <1>2, <1>7, <2>1 DEF Clean, OneLaunch
  <2>3. ASSUME NEW q \in Pids, q # p PROVE Recorded(q)'
    <3>1. Recorded(q) /\ DescentOK(q) /\ MonitorOK(q)
      BY <1>7 DEF Clean, Shape
    <3>2. CASE info' = info
      <4>1. procs[q].parent # NoPid => procs[q].parent \in Pids
        BY <3>1 DEF DescentOK
      <4>q. QED BY <1>1, <1>3, <2>3, <3>1, <3>2, <4>1 DEF Recorded
    <3>3. CASE info' # info /\ procs[q].alive
      <4>1. Active(q) /\ Active(p)
        BY <1>7, <3>3 DEF Active
      <4>2. RootOf(q) = RootOf(p) /\ RootOf(p) = p
        BY <1>7, <3>3, <4>1 DEF Clean, OneLaunch, RootOf
      <4>3. procs[q].parent = p /\ procs[q].parent # NoPid
        BY <2>3, <4>2, Table DEF RootOf
      <4>4. procs[q].kind = "child" /\ procs[p].kind = "monitor"
        BY <3>1, <4>3 DEF DescentOK
      <4>5. procs[p].alive
        BY <3>3, <4>4
      <4>q. QED BY <1>1, <1>3, <2>3, <4>3, <4>4, <4>5 DEF Recorded
    <3>4. CASE ~procs[q].alive
      BY <1>3, <3>4 DEF Recorded
    <3>q. QED BY <3>2, <3>3, <3>4
  <2>q. QED BY <1>2, <1>7, <2>2, <2>3 DEF Clean
<1>q. QED BY <1>2, <1>6, <1>7

(* Saves get lost, whoever is to blame: shape and type are kept.           *)
LEMMA SavesLost ==
  ASSUME PMTypeOK, Shape, info' \in Records, ops' = [x \in Operators |-> ops'[x]],
         \A x \in Operators : OperatorOK(x)', NEW f \in [Pids -> Seq(Records)],
         procs' = [q \in Pids |-> [procs[q] EXCEPT !.saves = f[q]]],
         \A q \in Pids : f[q] \in {procs[q].saves, <<>>} \/ (procs[q].saves # <<>> /\ f[q] = Tail(procs[q].saves))
  PROVE  PMTypeOK' /\ Shape' /\ Pids' = Pids
<1>0. \A q \in Pids : procs[q] \in Process
  BY Table
<1>1. procs' \in [Pids -> Process]
  BY <1>0 DEF Process
<1>2. \A q \in Pids : /\ procs'[q].kind = procs[q].kind /\ procs'[q].parent = procs[q].parent
                      /\ procs'[q].alive = procs[q].alive /\ procs'[q].child = procs[q].child
                      /\ procs'[q].pc = procs[q].pc /\ procs'[q].saves = f[q]
  BY <1>0 DEF Process
<1>3. PMTypeOK' /\ Pids' = Pids
  <2>1. procs' \in Seq(Process) /\ DOMAIN procs' = Pids
    BY <1>1, TableIsSeq
  <2>q. QED BY <2>1 DEF PMTypeOK, Pids
<1>4. ASSUME NEW q \in Pids PROVE DescentOK(q)' /\ MonitorOK(q)'
  <2>1. DescentOK(q) /\ MonitorOK(q)
    BY DEF Shape
  <2>2. procs[q].saves \in Seq(Records)
    BY <1>0 DEF Process
  <2>3. CASE f[q] = procs[q].saves
    BY <1>2, <1>3, <2>1, <2>3 DEF DescentOK, MonitorOK, Alive, LastSaved
  <2>4. CASE f[q] = <<>>
    BY <1>2, <1>3, <2>1, <2>4 DEF DescentOK, MonitorOK, Alive, LastSaved
  <2>5. CASE procs[q].saves # <<>> /\ f[q] = Tail(procs[q].saves)
    <3>1. /\ Len(f[q]) = Len(procs[q].saves) - 1
          /\ \A i \in DOMAIN f[q] : i + 1 \in DOMAIN procs[q].saves /\ f[q][i] = procs[q].saves[i + 1]
          /\ DOMAIN f[q] = 1..Len(f[q]) /\ Len(f[q]) \in Nat /\ Len(procs[q].saves) \in Nat
      BY <2>2, <2>5
    <3>2. f[q] # <<>> => f[q][Len(f[q])] = procs[q].saves[Len(procs[q].saves)]
      <4>1. f[q] # <<>> => Len(f[q]) \in DOMAIN f[q]
        BY <2>2, <2>5, <3>1
      <4>q. QED BY <3>1, <4>1
    <3>3. DescentOK(q)'
      <4>1. CASE procs[q].parent = NoPid
        <5>1. procs[q].kind = "child" => \A i \in DOMAIN f[q] : f[q][i] = [mon |-> NoPid, sp |-> q]
          <6> SUFFICES ASSUME procs[q].kind = "child", NEW i \in DOMAIN f[q]
                       PROVE  f[q][i] = [mon |-> NoPid, sp |-> q]
            OBVIOUS
          <6>1. i + 1 \in DOMAIN procs[q].saves /\ f[q][i] = procs[q].saves[i + 1]
            BY <3>1
          <6>q. QED BY <2>1, <4>1, <6>1 DEF DescentOK
        <5>q. QED BY <1>2, <4>1, <5>1 DEF DescentOK
      <4>2. CASE procs[q].parent # NoPid
        BY <2>1, <2>5, <4>2 DEF DescentOK
      <4>q. QED BY <4>1, <4>2
    <3>4. MonitorOK(q)'
      <4>1. f[q] # <<>> => LastSaved(q)' = LastSaved(q)
        BY <1>2, <3>2 DEF LastSaved
      <4>2. procs'[q].saves # <<>> => procs[q].saves # <<>> /\ f[q] # <<>>
        BY <1>2, <2>5
      <4>3. procs[q].kind = "monitor" => procs[q].alive
        BY <2>1, <2>5 DEF MonitorOK
      <4>4. Alive(procs[q].child)' = Alive(procs[q].child)
        BY <1>2, <1>3 DEF Alive
      <4>5. procs[q].child \in Pids => procs'[procs[q].child].parent = procs[procs[q].child].parent
        BY <1>2
      <4>6. /\ procs'[q].kind = procs[q].kind /\ procs'[q].parent = procs[q].parent
            /\ procs'[q].alive = procs[q].alive /\ procs'[q].child = procs[q].child
            /\ procs'[q].pc = procs[q].pc
        BY <1>2
      <4>7. ~procs[q].alive /\ procs[q].kind = "monitor" => procs'[q].saves = <<>>
        BY <4>2, <4>3
      <4>q. QED BY <1>3, <2>1, <4>1, <4>2, <4>4, <4>5, <4>6, <4>7 DEF MonitorOK
    <3>q. QED BY <3>3, <3>4
  <2>q. QED BY <2>3, <2>4, <2>5
<1>q. QED BY <1>3, <1>4 DEF Shape

-----------------------------------------------------------------------------
(* A monitor, alive, whose child is gone spawns another.                   *)
LEMMA SpawnStep ==
  ASSUME PMInv, UNCHANGED <<info, ops, mishaps>>, NEW m \in Pids, NEW retry \in Nat,
         procs[m].kind = "monitor", procs[m].alive, procs[m].pc \in {"boot", "interval"},
         SpawnFrom(m, retry)
  PROVE  PMInv'
<1> USE DEF PMInv
<1> DEFINE c == Len(procs) + 1
           nm == [procs[m] EXCEPT !.pc = "probation", !.child = c, !.retry = retry]
           f == [procs EXCEPT ![m] = nm]
           x == NewProc("child", m, procs[m].caller)
<1>0. procs[m] \in Process /\ procs \in [Pids -> Process] /\ m \in Nat /\ c \in Nat /\ m # NoPid /\ c # NoPid
  BY Table DEF NoPid
<1>1. nm \in Process
  BY <1>0 DEF Process
<1>2. x \in Process
  <2>1. <<>> \in Seq(Records)
    OBVIOUS
  <2>q. QED BY <1>0, <2>1 DEF Process, NewProc, NoPid
<1>3. f \in [Pids -> Process] /\ f[m] = nm /\ \A q \in Pids \ {m} : f[q] = procs[q]
  BY <1>0, <1>1
<1>4. procs' = Append(f, x)
  BY <1>0 DEF SpawnFrom
<1> HIDE DEF f
<1>5. /\ procs' \in Seq(Process) /\ c \notin Pids /\ Pids' = Pids \cup {c}
      /\ procs'[m] = nm /\ procs'[c] = x /\ \A q \in Pids \ {m} : procs'[q] = procs[q]
  <2>1. /\ Append(f, x) \in Seq(Process) /\ c \notin Pids /\ DOMAIN Append(f, x) = Pids \cup {c}
        /\ \A p \in Pids : Append(f, x)[p] = f[p]
        /\ Append(f, x)[c] = x
    BY <1>2, <1>3, TableGrows
  <2>2. DOMAIN procs' = Pids \cup {c}
    BY <1>4, <2>1
  <2>q. QED BY <1>3, <1>4, <2>1, <2>2 DEF Pids
<1>6. /\ nm.kind = "monitor" /\ nm.alive /\ nm.parent = procs[m].parent /\ nm.pc = "probation"
      /\ nm.child = c /\ nm.saves = procs[m].saves
      /\ x.kind = "child" /\ x.alive /\ x.parent = m /\ x.saves = <<>>
  BY <1>0 DEF Process, NewProc
<1> HIDE DEF nm, x, c
<1>7. PMTypeOK'
  BY <1>5 DEF PMTypeOK
<1>8. \A o \in Operators : OperatorOK(o)'
  BY <1>5, <1>6 DEF Shape, OperatorOK, Launching
<1>9. procs[m].parent = NoPid
  BY DEF Shape, MonitorOK
<1>10. \A q \in Pids : procs[q].parent = m => ~procs[q].alive
  <2> SUFFICES ASSUME NEW q \in Pids, procs[q].parent = m, procs[q].alive PROVE FALSE
    BY Table DEF Process
  <2>1. procs[m].child = q
    BY <1>0 DEF Shape, DescentOK
  <2>q. QED BY <2>1, Table DEF Shape, MonitorOK, Alive, Settled
<1>11. ASSUME NEW q \in Pids' PROVE DescentOK(q)' /\ MonitorOK(q)'
  <2>1. CASE q = m
    BY <1>0, <1>5, <1>6, <1>9, <2>1 DEF Shape, DescentOK, MonitorOK, Settled, LastSaved
  <2>2. CASE q = c
    BY <1>0, <1>5, <1>6, <2>2 DEF DescentOK, MonitorOK
  <2>3. CASE q \in Pids \ {m}
    <3>1. DescentOK(q) /\ MonitorOK(q) /\ procs'[q] = procs[q]
      BY <1>5, <2>3 DEF Shape
    <3>2. DescentOK(q)'
      BY <1>5, <1>6, <1>10, <2>3, <3>1 DEF DescentOK
    <3>3. MonitorOK(q)'
      BY <1>0, <1>5, <1>6, <2>3, <3>1 DEF MonitorOK, Alive, LastSaved, Settled
    <3>q. QED BY <3>2, <3>3
  <2>q. QED BY <1>5, <2>1, <2>2, <2>3
<1>12. ASSUME mishaps' = {} PROVE Clean'
  <2>1. Clean
    BY <1>12
  <2>2. ASSUME NEW q \in Pids', Active(q)' PROVE RootOf(q)' = m
    <3>1. CASE q = m
      BY <1>5, <1>6, <1>9, <3>1 DEF RootOf
    <3>2. CASE q = c
      BY <1>0, <1>5, <1>6, <3>2 DEF RootOf
    <3>3. CASE q \in Pids \ {m}
      <4>1. Active(q) /\ Active(m)
        BY <1>5, <2>2, <3>3 DEF Active, Conducted
      <4>2. RootOf(q) = RootOf(m)
        BY <2>1, <4>1, <3>3 DEF Clean, OneLaunch
      <4>q. QED BY <1>5, <1>9, <3>3, <4>2 DEF RootOf
    <3>q. QED BY <1>5, <3>1, <3>2, <3>3
  <2>3. ASSUME NEW q \in Pids' PROVE Recorded(q)'
    <3>1. CASE q = m
      BY <1>5, <1>6, <1>9, <3>1 DEF Recorded, Settled
    <3>2. CASE q = c
      BY <1>0, <1>5, <1>6, <3>2 DEF Recorded
    <3>3. CASE q \in Pids \ {m}
      <4>1. Recorded(q) /\ DescentOK(q) /\ procs'[q] = procs[q]
        BY <1>5, <2>1, <3>3 DEF Clean, Shape
      <4>2. Conducted(q)' <=> Conducted(q)
        BY DEF Conducted
      <4>3. procs[q].parent # NoPid => (procs'[procs[q].parent].alive <=> procs[procs[q].parent].alive)
        <5>1. CASE procs[q].parent = m
          BY <1>5, <1>6, <5>1
        <5>2. CASE procs[q].parent # m
          BY <1>5, <4>1, <5>2 DEF DescentOK
        <5>q. QED BY <5>1, <5>2
      <4>q. QED BY <4>1, <4>2, <4>3 DEF Recorded
    <3>q. QED BY <1>5, <3>1, <3>2, <3>3
  <2>q. QED BY <2>2, <2>3 DEF Clean, OneLaunch
<1>q. QED BY <1>7, <1>8, <1>11, <1>12 DEF Shape

(* A launch by an operator, with nothing active in a clean behaviour.      *)
LEMMA LaunchStep ==
  ASSUME PMInv, NEW o \in Operators, NEW mode, ~ManagedAlive, Launch(o, mode)
  PROVE  PMInv'
<1> USE DEF PMInv
<1> DEFINE c == Len(procs) + 1
           x == NewProc(IF mode = "monitored" THEN "monitor" ELSE "child", NoPid, o)
           r == [pc |-> IF mode = "monitored" THEN "await" ELSE "probation", pid |-> c]
<1>1. x \in Process
  <2>1. <<>> \in Seq(Records)
    OBVIOUS
  <2>q. QED BY <2>1 DEF Process, NewProc, NoPid
<1>2. /\ procs' \in Seq(Process) /\ c \notin Pids /\ Pids' = Pids \cup {c}
      /\ procs'[c] = x /\ \A q \in Pids : procs'[q] = procs[q]
  <2>1. procs' = Append(procs, x) /\ procs \in [Pids -> Process]
    BY Table DEF Launch
  <2> HIDE DEF x, c
  <2>2. /\ Append(procs, x) \in Seq(Process) /\ c \notin Pids /\ DOMAIN Append(procs, x) = Pids \cup {c}
        /\ \A p \in Pids : Append(procs, x)[p] = procs[p]
        /\ Append(procs, x)[c] = x
    BY <1>1, <2>1, TableGrows DEF c
  <2>q. QED BY <2>1, <2>2 DEF Pids
<1>3. /\ x.parent = NoPid /\ x.saves = <<>> /\ x.alive /\ x.pc = "boot" /\ x.child = NoPid
      /\ x.kind = (IF mode = "monitored" THEN "monitor" ELSE "child")
  BY DEF NewProc
<1>4. /\ ops' = [y \in Operators |-> ops'[y]] /\ ops'[o] = r
      /\ \A y \in Operators \ {o} : ops'[y] = ops[y]
  BY DEF Launch, SetOp, PMTypeOK
<1>5. c \in Nat /\ c # NoPid
  BY Table DEF NoPid
<1>6. r \in [pc : Launching, pid : Pids'] /\ r.pid = c /\ r.pc = (IF mode = "monitored" THEN "await" ELSE "probation")
  <2>1. c \in Pids'
    BY <1>2
  <2> HIDE DEF c
  <2>2. CASE mode = "monitored"
    BY <2>1, <2>2 DEF Launching
  <2>3. CASE mode # "monitored"
    BY <2>1, <2>3 DEF Launching
  <2>q. QED BY <2>2, <2>3
<1>7. UNCHANGED info
  BY DEF Launch
<1> HIDE DEF x, c, r
<1>8. PMTypeOK'
  BY <1>2, <1>4, <1>7 DEF PMTypeOK
<1>9. ASSUME NEW y \in Operators PROVE OperatorOK(y)'
  <2>1. CASE y = o
    BY <1>2, <1>3, <1>4, <1>6, <2>1 DEF OperatorOK, Launching
  <2>2. CASE y # o
    BY <1>2, <1>4, <2>2 DEF Shape, OperatorOK, Launching
  <2>q. QED BY <2>1, <2>2
<1>10. ASSUME NEW q \in Pids' PROVE DescentOK(q)' /\ MonitorOK(q)'
  <2>1. CASE q = c
    BY <1>2, <1>3, <2>1 DEF DescentOK, MonitorOK, Settled, LastSaved
  <2>2. CASE q \in Pids
    <3>1. DescentOK(q) /\ MonitorOK(q) /\ procs'[q] = procs[q]
      BY <1>2, <2>2 DEF Shape
    <3>2. DescentOK(q)'
      BY <1>2, <2>2, <3>1 DEF DescentOK
    <3>3. MonitorOK(q)'
      BY <1>2, <1>5, <2>2, <3>1, Table DEF MonitorOK, Alive, LastSaved, Settled
    <3>q. QED BY <3>2, <3>3
  <2>q. QED BY <1>2, <2>1, <2>2
<1>11. ASSUME mishaps' = {} PROVE Clean'
  <2>1. mishaps = {} /\ ~ \E p \in Pids : LaunchUnderWay(p)
    BY <1>11 DEF Launch, Note
  <2>2. ASSUME NEW q \in Pids PROVE ~Active(q)' /\ ~procs'[q].alive
    <3>1. ~Active(q)
      BY <2>1, NothingActive
    <3>q. QED BY <1>2, <1>4, <1>6, <3>1 DEF Active, Conducted
  <2>3. OneLaunch'
    BY <1>2, <2>2 DEF OneLaunch
  <2>4. ASSUME NEW q \in Pids' PROVE Recorded(q)'
    <3>1. CASE q \in Pids
      BY <2>2, <3>1 DEF Recorded
    <3>2. CASE q = c /\ mode = "monitored"
      BY <1>2, <1>3, <3>2 DEF Recorded, Settled
    <3>3. CASE q = c /\ mode # "monitored"
      <4>1. Conducted(q)'
        BY <1>4, <1>6, <3>3 DEF Conducted
      <4>q. QED BY <1>2, <1>3, <3>3, <4>1 DEF Recorded
    <3>q. QED BY <1>2, <3>1, <3>2, <3>3
  <2>q. QED BY <2>3, <2>4 DEF Clean
<1>q. QED BY <1>8, <1>9, <1>10, <1>11 DEF Shape

LEMMA IdleOp == Idle.pc = "idle" /\ ~Launches(Idle) /\ ~Conducts(Idle)
BY DEF Idle, Launches, Conducts, Launching

LEMMA CheckAndLaunchStep ==
  ASSUME PMInv, NEW o \in Operators, NEW mode, ops[o].pc \in {"idle", "restart"},
         CheckAndLaunch(o, mode)
  PROVE  PMInv'
<1>1. CASE ~ManagedAlive /\ Launch(o, mode)
  BY <1>1, LaunchStep
<1>2. CASE SetOp(o, Idle) /\ UNCHANGED <<procs, info, mishaps>>
  <2>1. QuietOps
    BY <1>2, QuietOp, IdleOp DEF Conducts, PMInv
  <2>q. QED BY <1>2, <2>1, QuietStep
<1>q. QED BY <1>1, <1>2 DEF CheckAndLaunch

-----------------------------------------------------------------------------
(* The directory is removed when the record shows nobody alive.            *)
LEMMA RemoveDirStep ==
  ASSUME PMInv, QuietOps, ~ManagedAlive, RemoveDir
  PROVE  PMInv'
<1> USE DEF PMInv
<1> DEFINE f == [q \in Pids |-> IF procs[q].saves = <<>> THEN procs[q].saves ELSE Tail(procs[q].saves)]
<1>1. info' = NoInfo /\ info' \in Records
  BY DEF RemoveDir, NoInfo, NoPid, Records
<1>2. procs' = [q \in Pids |-> [procs[q] EXCEPT !.saves = f[q]]]
  BY DEF RemoveDir
<1>3. f \in [Pids -> Seq(Records)]
  <2>1. \A q \in Pids : procs[q].saves \in Seq(Records)
    BY Table DEF Process
  <2>q. QED BY <2>1
<1>4. \A q \in Pids : f[q] \in {procs[q].saves, <<>>} \/ (procs[q].saves # <<>> /\ f[q] = Tail(procs[q].saves))
  OBVIOUS
<1> HIDE DEF f
<1>5. SameDescent
  BY <1>2, Table DEF SameDescent, Process, Pids
<1>6. /\ \A x \in Operators : OperatorOK(x)'
      /\ \A p : Conducted(p)' <=> Conducted(p)
  BY <1>5, OperatorsKeep
<1>7. PMTypeOK' /\ Shape' /\ Pids' = Pids
  BY <1>1, <1>2, <1>3, <1>4, <1>6, SavesLost DEF QuietOps
<1>8. ASSUME mishaps' = {} PROVE Clean'
  <2>1. mishaps = {} /\ \A p \in Pids : procs[p].saves = <<>>
    BY <1>8 DEF RemoveDir, Note
  <2>2. \A q \in Pids : procs'[q] = procs[q]
    BY <1>2, <2>1, Table DEF f, Process
  <2>3. OneLaunch'
    BY <1>6, <1>7, <2>1, <2>2 DEF Clean, OneLaunch, Active, RootOf
  <2>4. ASSUME NEW q \in Pids, procs'[q].alive PROVE Recorded(q)'
    <3>1. Recorded(q) /\ DescentOK(q) /\ MonitorOK(q) /\ procs[q].alive /\ procs'[q] = procs[q]
      BY <2>1, <2>2, <2>4 DEF Clean, Shape
    <3>2. info.sp # q
      BY <3>1 DEF ManagedAlive, RecordLives, Alive
    <3>3. procs[q].kind = "monitor" => procs[q].pc \notin Settled
      <4> SUFFICES ASSUME procs[q].kind = "monitor", procs[q].pc \in Settled PROVE FALSE
        OBVIOUS
      <4>1. info = [mon |-> q, sp |-> procs[q].child]
        BY <2>1, <3>1 DEF Recorded
      <4>2. q # NoPid /\ q # procs[q].child
        BY <3>1, Table DEF MonitorOK, Settled
      <4>q. QED BY <3>1, <4>1, <4>2 DEF ManagedAlive, RecordLives, Alive
    <3>4. procs[q].kind = "child" /\ procs[q].parent = NoPid => Conducted(q)
      BY <2>1, <3>1, <3>2 DEF Recorded
    <3>5. procs[q].parent # NoPid => procs'[procs[q].parent].alive
      BY <2>2, <3>1, <3>2 DEF Recorded, DescentOK
    <3>q. QED BY <1>6, <3>1, <3>3, <3>4, <3>5 DEF Recorded
  <2>5. \A q \in Pids : Recorded(q)'
    BY <2>4 DEF Recorded
  <2>q. QED BY <1>7, <2>3, <2>5 DEF Clean
<1>q. QED BY <1>7, <1>8

LEMMA FinishKillStep ==
  ASSUME PMInv, NEW o \in Operators, NEW call, ~Conducts(ops[o]), FinishKill(o, call)
  PROVE  PMInv'
<1> DEFINE r == IF call.thenStart = "no" THEN Idle ELSE [pc |-> "restart", mode |-> call.thenStart]
<1>1. QuietOps
  <2>1. ~Launches(r)
    BY IdleOp DEF Launches, Launching
  <2>2. SetOp(o, r)
    BY DEF FinishKill
  <2>q. QED BY <2>1, <2>2, QuietOp DEF PMInv
<1>2. CASE UNCHANGED <<procs, info, mishaps>>
  BY <1>1, <1>2, QuietStep
<1>3. CASE ~ManagedAlive /\ RemoveDir
  BY <1>1, <1>3, RemoveDirStep
<1>q. QED BY <1>2, <1>3 DEF FinishKill

-----------------------------------------------------------------------------
(* The steps of an operator.                                               *)
LEMMA QuietCalls ==
  ASSUME PMInv, NEW o \in Operators,
         MonitorAwaited(o) \/ ListTree(o) \/ KillGivesUp(o)
  PROVE  PMInv'
<1>1. CASE MonitorAwaited(o)
  <2>1. QuietOps
    BY <1>1, QuietOp, IdleOp DEF MonitorAwaited, Conducts, PMInv
  <2>q. QED BY <1>1, <2>1, QuietStep DEF MonitorAwaited
<1>2. CASE KillGivesUp(o)
  <2>1. QuietOps
    BY <1>2, QuietOp, IdleOp DEF KillGivesUp, Conducts, PMInv
  <2>q. QED BY <1>2, <2>1, QuietStep DEF KillGivesUp
<1>3. CASE ListTree(o)
  <2>1. PICK t : SetOp(o, [pc |-> "signal", call |-> ops[o].call, targets |-> t])
    BY <1>3 DEF ListTree
  <2>2. QuietOps
    <3> DEFINE r == [pc |-> "signal", call |-> ops[o].call, targets |-> t]
    <3>1. ~Launches(r)
      BY DEF Launches, Launching
    <3>2. ~Conducts(ops[o])
      BY <1>3 DEF ListTree, Conducts
    <3>q. QED BY <2>1, <3>1, <3>2, QuietOp DEF PMInv
  <2>q. QED BY <1>3, <2>2, QuietStep DEF ListTree
<1>q. QED BY <1>1, <1>2, <1>3

LEMMA KillCallStep ==
  ASSUME PMInv, NEW o \in Operators, NEW call \in Calls, KillCall(o, call)
  PROVE  PMInv'
<1>1. ~Conducts(ops[o])
  BY DEF KillCall, Conducts
<1>2. CASE /\ SetOp(o, IF call.thenStart = "no" THEN Idle ELSE [pc |-> "restart", mode |-> call.thenStart])
           /\ UNCHANGED <<procs, info, mishaps>>
  <2> DEFINE r == IF call.thenStart = "no" THEN Idle ELSE [pc |-> "restart", mode |-> call.thenStart]
  <2>1. ~Launches(r)
    BY IdleOp DEF Launches, Launching
  <2>2. QuietOps
    BY <1>1, <1>2, <2>1, QuietOp DEF PMInv
  <2>q. QED BY <1>2, <2>2, QuietStep
<1>3. CASE FinishKill(o, call)
  BY <1>1, <1>3, FinishKillStep
<1>4. CASE /\ SetOp(o, [pc |-> "list", pids |-> PidsOf(info), call |-> call])
           /\ UNCHANGED <<procs, info, mishaps>>
  <2> DEFINE r == [pc |-> "list", pids |-> PidsOf(info), call |-> call]
  <2>1. ~Launches(r)
    BY DEF Launches, Launching
  <2>2. QuietOps
    BY <1>1, <1>4, <2>1, QuietOp DEF PMInv
  <2>q. QED BY <1>4, <2>2, QuietStep
<1>q. QED BY <1>2, <1>3, <1>4 DEF KillCall

LEMMA SignalStep ==
  ASSUME PMInv, NEW o \in Operators, SignalTree(o)
  PROVE  PMInv'
<1> USE DEF PMInv
<1> DEFINE targets == ops[o].targets
           reached == Reached(targets)
           r == [pc |-> "wait", call |-> ops[o].call]
<1>1. PICK dies \in SUBSET reached : reached \cap Monitors \subseteq dies /\ procs' = Kill(procs, dies)
  BY DEF SignalTree
<1> DEFINE gone == dies \cap Pids
<1>2. procs' = Kill(procs, gone)
  BY <1>1 DEF Kill, Pids
<1>3. QuietOps
  <2>1. ~Launches(r)
    BY DEF Launches, Launching
  <2>2. ~Conducts(ops[o]) /\ SetOp(o, r)
    BY DEF SignalTree, Conducts
  <2>q. QED BY <2>1, <2>2, QuietOp
<1>4. ASSUME mishaps' = {}
      PROVE  /\ mishaps = {}
             /\ \A m \in gone : procs[m].kind = "monitor" /\ Alive(procs[m].child) => info.sp = procs[m].child
  <2>1. mishaps = {} /\ ~ \E m \in reached \cap Monitors :
                            procs[m].saves # <<>> \/ (Alive(procs[m].child) /\ info.sp # procs[m].child)
    BY <1>4 DEF SignalTree, Note
  <2>q. QED BY <1>1, <2>1 DEF Monitors
<1>5. UNCHANGED info /\ gone \in SUBSET Pids
  BY DEF SignalTree
<1> HIDE DEF reached, targets, r, gone
<1>q. QED BY <1>2, <1>3, <1>4, <1>5, KillStep

(* The launch in detached mode.                                            *)
LEMMA DetachedLaunch ==
  ASSUME PMInv, NEW o \in Operators, ChildStays(o) \/ ChildFails(o) \/ DetachedSaved(o)
  PROVE  PMInv'
<1> USE DEF PMInv
<1>1. Conducts(ops[o])
  BY DEF ChildStays, ChildFails, DetachedSaved, Conducts
<1>2. PICK p \in Pids : /\ p = ops[o].pid /\ ops[o] \in [pc : Launching, pid : Pids]
                        /\ procs[p].kind = "child" /\ procs[p].parent = NoPid
  BY <1>1 DEF Shape, OperatorOK, Conducts, Launching
<1>3. procs[p] \in Process /\ procs \in [Pids -> Process] /\ procs = [procs EXCEPT ![p] = procs[p]]
  BY <1>2, Table
<1>4. Conducted(p)
  BY <1>1, <1>2 DEF Conducted, Conducts
<1>5. DescentOK(p) /\ MonitorOK(p)
  BY <1>2 DEF Shape
<1>6. ASSUME NEW r, SetOp(o, r), r.pc = "idle" \/ r.pid = p
      PROVE  \A q \in Pids \ {p} : Conducted(q)' <=> Conducted(q)
  <2>1. \A x \in Operators : (x # o /\ ops'[x] = ops[x]) \/ (x = o /\ ops'[x] = r)
    BY <1>6 DEF SetOp, PMTypeOK
  <2>q. QED BY <1>2, <1>6, <2>1 DEF Conducted
<1>7. CASE ChildStays(o) \/ ChildFails(o)
  <2>1. UNCHANGED <<procs, info, mishaps>>
    BY <1>7 DEF ChildStays, ChildFails
  <2>2. SameDescent
    BY <2>1 DEF SameDescent, Pids
  <2>3. PICK r : SetOp(o, r) /\ (r = Idle \/ r = [ops[o] EXCEPT !.pc = "handshake"])
    BY <1>7 DEF ChildStays, ChildFails
  <2>4. ops'[o] = r /\ (r.pc = "idle" \/ r.pid = p)
    BY <1>2, <2>3, IdleOp DEF SetOp, PMTypeOK
  <2>5. OperatorOK(o)'
    <3>1. CASE r = Idle
      BY <2>4, <3>1, IdleOp DEF OperatorOK, Launches, Conducts, Launching
    <3>2. CASE r = [ops[o] EXCEPT !.pc = "handshake"]
      <4>1. r \in [pc : Launching, pid : Pids] /\ r.pid = p
        BY <1>2, <3>2 DEF Launching
      <4>q. QED BY <1>2, <2>1, <2>4, <4>1 DEF OperatorOK, Pids, Launching
    <3>q. QED BY <2>3, <3>1, <3>2
  <2>6. /\ ops' = [x \in Operators |-> ops'[x]]
        /\ \A x \in Operators : OperatorOK(x)'
    BY <2>2, <2>3, <2>5, OperatorMoves
  <2>7. DescentOK(p)' /\ MonitorOK(p)'
    BY <1>5, <2>1 DEF DescentOK, MonitorOK, LastSaved, Alive, Pids
  <2>8. Active(p)
    BY <1>4 DEF Active
  <2>9. ASSUME mishaps' = {} PROVE Recorded(p)'
    <3>1. CASE ChildStays(o)
      <4>1. r.pc = "handshake" /\ r.pid = p
        BY <1>2, <2>3, <2>4, <3>1, IdleOp DEF ChildStays, SetOp, PMTypeOK
      <4>2. Conducted(p)'
        BY <2>4, <4>1 DEF Conducted
      <4>q. QED BY <1>2, <2>1, <4>2 DEF Recorded
    <3>2. CASE ChildFails(o)
      BY <1>2, <2>1, <3>2 DEF ChildFails, Alive, Recorded
    <3>q. QED BY <1>7, <3>1, <3>2
  <2>10. info' \in Records /\ procs' = [procs EXCEPT ![p] = procs[p]]
    BY <1>3, <2>1 DEF PMTypeOK
  <2>11. \A q \in Pids \ {p} : Conducted(q)' <=> Conducted(q)
    BY <1>6, <2>3, <2>4
  <2>q. QED BY <1>2, <1>3, <2>1, <2>6, <2>7, <2>8, <2>9, <2>10, <2>11, PointStep
<1>8. CASE DetachedSaved(o)
  <2> DEFINE s == Append(procs[p].saves, [mon |-> NoPid, sp |-> p])
             np == [procs[p] EXCEPT !.saves = s]
  <2>1. SetOp(o, Idle) /\ UNCHANGED mishaps
    BY <1>8 DEF DetachedSaved
  <2>2. procs' = [procs EXCEPT ![p] = np]
    BY <1>2, <1>3, <1>8 DEF DetachedSaved, Save
  <2>3. info' = info \/ info' = NoInfo
    BY <1>8 DEF DetachedSaved, Save
  <2>4. /\ procs[p].saves \in Seq(Records) /\ [mon |-> NoPid, sp |-> p] \in Records
        /\ p \in Nat
    BY <1>2, <1>3, Table DEF Process, Records, NoPid
  <2>5. /\ s \in Seq(Records) /\ s # <<>>
        /\ \A i \in DOMAIN s : s[i] = [mon |-> NoPid, sp |-> p]
    <3>1. \A i \in DOMAIN procs[p].saves : procs[p].saves[i] = [mon |-> NoPid, sp |-> p]
      BY <1>2, <1>5 DEF DescentOK
    <3>2. /\ s \in Seq(Records) /\ Len(s) = Len(procs[p].saves) + 1 /\ Len(procs[p].saves) \in Nat
          /\ \A i \in 1..Len(procs[p].saves) : s[i] = procs[p].saves[i]
          /\ s[Len(procs[p].saves) + 1] = [mon |-> NoPid, sp |-> p]
          /\ DOMAIN s = 1..Len(s) /\ DOMAIN procs[p].saves = 1..Len(procs[p].saves)
      BY <2>4, AppendProperties
    <3> HIDE DEF s
    <3>q. QED BY <3>1, <3>2
  <2> HIDE DEF s
  <2>6. /\ np \in Process /\ np.kind = procs[p].kind /\ np.parent = procs[p].parent
        /\ np.alive = procs[p].alive /\ np.child = procs[p].child /\ np.saves = s
    BY <1>3, <2>5 DEF Process
  <2> HIDE DEF np
  <2>7. /\ procs'[p] = np /\ Pids' = Pids
        /\ \A q \in Pids \ {p} : procs'[q] = procs[q]
    BY <1>2, <1>3, <2>2 DEF Pids
  <2>8. SameDescent
    BY <2>6, <2>7 DEF SameDescent
  <2>9. ops'[o] = Idle
    BY <2>1 DEF SetOp, PMTypeOK
  <2>10. /\ ops' = [x \in Operators |-> ops'[x]]
         /\ \A x \in Operators : OperatorOK(x)'
    <3>1. OperatorOK(o)'
      BY <2>9, IdleOp DEF OperatorOK, Launches, Conducts, Launching
    <3>q. QED BY <2>1, <2>8, <3>1, OperatorMoves
  <2>11. DescentOK(p)' /\ MonitorOK(p)'
    BY <1>2, <2>5, <2>6, <2>7 DEF DescentOK, MonitorOK
  <2>12. Active(p) /\ Recorded(p)'
    BY <1>2, <1>4, <2>5, <2>6, <2>7 DEF Active, Recorded
  <2>13. info' \in Records
    BY <2>3 DEF PMTypeOK, NoInfo, NoPid, Records
  <2>14. \A q \in Pids \ {p} : Conducted(q)' <=> Conducted(q)
    BY <1>6, <2>1, IdleOp
  <2>q. QED BY <1>2, <2>1, <2>2, <2>6, <2>10, <2>11, <2>12, <2>13, <2>14, PointStep
<1>q. QED BY <1>7, <1>8

(* An operator is interrupted.                                             *)
LEMMA InterruptStep ==
  ASSUME PMInv, NEW o \in Operators, OperatorDies(o)
  PROVE  PMInv'
<1> USE DEF PMInv
<1>1. PICK mine \in SUBSET Pids :
        /\ procs' = [p \in Pids |-> IF p \in mine THEN [procs[p] EXCEPT !.saves = <<>>] ELSE procs[p]]
        /\ SetOp(o, Idle) /\ UNCHANGED info
        /\ Note("operator gone", mine # {} \/ ops[o].pc \in {"probation", "handshake"})
  BY DEF OperatorDies
<1>2. CASE mine = {} /\ ~Conducts(ops[o])
  <2>1. QuietOps
    BY <1>1, <1>2, QuietOp, IdleOp
  <2>2. UNCHANGED procs
    BY <1>1, <1>2, Table
  <2>3. mishaps' = {} => mishaps = {}
    BY <1>1 DEF Note
  <2>q. QED BY <1>1, <2>1, <2>2, <2>3, QuietStep
<1>3. CASE mine # {} \/ Conducts(ops[o])
  <2> DEFINE f == [p \in Pids |-> IF p \in mine THEN <<>> ELSE procs[p].saves]
  <2>1. \A p \in Pids : procs[p] \in Process /\ procs[p].saves \in Seq(Records)
    BY Table DEF Process
  <2>2. f \in [Pids -> Seq(Records)]
    <3>1. <<>> \in Seq(Records)
      OBVIOUS
    <3>q. QED BY <2>1, <3>1
  <2>3. procs' = [p \in Pids |-> [procs[p] EXCEPT !.saves = f[p]]]
    <3>1. ASSUME NEW p \in Pids PROVE procs'[p] = [procs[p] EXCEPT !.saves = f[p]]
      BY <1>1, <2>1 DEF Process
    <3>2. procs' = [p \in Pids |-> procs'[p]]
      BY <1>1
    <3> HIDE DEF f
    <3>q. QED BY <3>1, <3>2
  <2>4. \A p \in Pids : f[p] \in {procs[p].saves, <<>>}
    OBVIOUS
  <2> HIDE DEF f
  <2>5. SameDescent
    BY <2>1, <2>3 DEF SameDescent, Process, Pids
  <2>6. OperatorOK(o)'
    BY <1>1, IdleOp DEF OperatorOK, Launches, Conducts, SetOp, PMTypeOK, Launching
  <2>7. /\ ops' = [x \in Operators |-> ops'[x]]
        /\ \A x \in Operators : OperatorOK(x)'
    BY <1>1, <2>5, <2>6, OperatorMoves
  <2>8. PMTypeOK' /\ Shape'
    BY <1>1, <2>2, <2>3, <2>4, <2>7, SavesLost DEF PMTypeOK
  <2>9. mishaps' # {}
    BY <1>1, <1>3 DEF Note, Conducts
  <2>q. QED BY <2>8, <2>9
<1>q. QED BY <1>2, <1>3

(* The snapshot writer of a process has written a record.                  *)
LEMMA WrittenStep ==
  ASSUME PMInv, NEW p \in Pids, SaveWritten(p)
  PROVE  PMInv'
<1> USE DEF PMInv
<1> DEFINE s == procs[p].saves
           np == [procs[p] EXCEPT !.saves = Tail(s)]
<1>1. procs[p] \in Process /\ procs \in [Pids -> Process] /\ s \in Seq(Records) /\ s # <<>>
  BY Table DEF Process, SaveWritten
<1>2. /\ Tail(s) \in Seq(Records) /\ Len(Tail(s)) = Len(s) - 1 /\ Len(s) \in Nat \ {0}
      /\ \A i \in 1..Len(Tail(s)) : i + 1 \in 1..Len(s) /\ Tail(s)[i] = s[i + 1]
      /\ DOMAIN s = 1..Len(s) /\ DOMAIN Tail(s) = 1..Len(Tail(s))
      /\ Head(s) = s[1] /\ Head(s) \in Records
  BY <1>1, HeadTailProperties, LenProperties
<1>3. /\ np \in Process /\ np.kind = procs[p].kind /\ np.parent = procs[p].parent
      /\ np.alive = procs[p].alive /\ np.child = procs[p].child /\ np.pc = procs[p].pc
      /\ np.saves = Tail(s)
  BY <1>1, <1>2 DEF Process
<1>4. procs' = [procs EXCEPT ![p] = np] /\ UNCHANGED <<ops, mishaps>>
  BY <1>1 DEF SaveWritten
<1>5. info' = IF Len(s) = 1 THEN Head(s) ELSE NoInfo
  BY DEF SaveWritten
<1> HIDE DEF np
<1>6. /\ procs'[p] = np /\ Pids' = Pids
      /\ \A q \in Pids \ {p} : procs'[q] = procs[q]
  BY <1>1, <1>4 DEF Pids
<1>7. SameDescent /\ QuietOps
  BY <1>3, <1>4, <1>6, SameOps DEF SameDescent
<1>8. /\ \A x \in Operators : OperatorOK(x)'
      /\ \A q : Conducted(q)' <=> Conducted(q)
  BY <1>7, OperatorsKeep
<1>9. info' \in Records /\ ops' = [x \in Operators |-> ops'[x]]
  BY <1>2, <1>4, <1>5 DEF PMTypeOK, NoInfo, NoPid, Records
<1>10. procs[p].parent = NoPid /\ (procs[p].alive \/ procs[p].kind = "child")
  BY <1>1 DEF Shape, DescentOK, MonitorOK, Process
<1>11. DescentOK(p) /\ MonitorOK(p)
  BY DEF Shape
<1>12. DescentOK(p)'
  <2>1. procs[p].kind = "child" => \A i \in DOMAIN Tail(s) : Tail(s)[i] = [mon |-> NoPid, sp |-> p]
    BY <1>2, <1>10, <1>11 DEF DescentOK
  <2>q. QED BY <1>3, <1>6, <1>10, <2>1 DEF DescentOK
<1>13. Tail(s) # <<>> => Tail(s)[Len(Tail(s))] = s[Len(s)]
  <2>1. Tail(s) # <<>> => Len(Tail(s)) \in 1..Len(Tail(s))
    BY <1>2
  <2>q. QED BY <1>2, <2>1
<1>14. MonitorOK(p)'
  <2>1. procs'[p].saves # <<>> => LastSaved(p)' = LastSaved(p)
    BY <1>3, <1>6, <1>13 DEF LastSaved
  <2>2. s # <<>>
    BY <1>1
  <2>3. CASE procs[p].kind # "monitor"
    BY <1>3, <1>6, <2>3 DEF MonitorOK
  <2>4. CASE procs[p].kind = "monitor"
    <3>1. \A q \in Pids : procs'[q].parent = procs[q].parent /\ (procs'[q].alive <=> procs[q].alive)
      BY <1>3, <1>6
    <3>2. procs[p].alive
      BY <1>11, <2>2, <2>4 DEF MonitorOK
    <3>q. QED BY <1>3, <1>6, <1>11, <2>1, <2>2, <2>4, <3>1, <3>2 DEF MonitorOK, Alive
  <2>q. QED BY <2>3, <2>4
<1>15. Active(p)
  BY <1>1 DEF Active
<1>16. Recorded(p)'
  <2>1. CASE Tail(s) # <<>>
    BY <1>3, <1>6, <1>10, <2>1 DEF Recorded
  <2>2. CASE Tail(s) = <<>>
    <3>1. Len(s) = 1 /\ info' = s[1] /\ 1 \in DOMAIN s
      <4>1. Len(Tail(s)) = 0
        BY <1>2, <2>2, EmptySeq
      <4>2. Len(s) = 1
        BY <1>2, <4>1
      <4>q. QED BY <1>2, <1>5, <4>2
    <3>2. procs[p].kind = "monitor" /\ procs[p].pc \in Settled => info' = [mon |-> p, sp |-> procs[p].child]
      BY <1>1, <1>11, <3>1 DEF MonitorOK, LastSaved
    <3>3. procs[p].kind = "child" => info' = [mon |-> NoPid, sp |-> p]
      BY <1>10, <1>11, <3>1 DEF DescentOK
    <3>q. QED BY <1>3, <1>6, <1>10, <3>2, <3>3 DEF Recorded
  <2>q. QED BY <2>1, <2>2
<1> HIDE DEF s
<1>q. QED BY <1>3, <1>4, <1>8, <1>9, <1>10, <1>12, <1>14, <1>15, <1>16, PointStep

-----------------------------------------------------------------------------
(* The steps of a monitor.                                                 *)

(* It looks at its child and goes on to the next state.                    *)
LEMMA PcStep ==
  ASSUME PMInv, NEW m \in Pids, NEW pc \in {"handshake", "interval", "done"},
         procs[m].kind = "monitor", procs[m].alive, procs[m].pc # "boot",
         pc = "handshake" \/ (procs[m].pc = "watch" /\ ~Alive(procs[m].child)),
         procs' = [procs EXCEPT ![m].pc = pc], UNCHANGED <<info, ops, mishaps>>
  PROVE  PMInv'
<1> USE DEF PMInv
<1> DEFINE np == [procs[m] EXCEPT !.pc = pc]
<1>1. procs[m] \in Process /\ procs \in [Pids -> Process] /\ procs' = [procs EXCEPT ![m] = np]
  BY Table
<1>2. /\ np \in Process /\ np.kind = "monitor" /\ np.parent = procs[m].parent
      /\ np.alive = procs[m].alive /\ np.child = procs[m].child /\ np.pc = pc
      /\ np.saves = procs[m].saves
  BY <1>1 DEF Process, Settled
<1> HIDE DEF np
<1>3. /\ procs'[m] = np /\ Pids' = Pids
      /\ \A q \in Pids \ {m} : procs'[q] = procs[q]
  BY <1>1 DEF Pids
<1>4. SameDescent /\ QuietOps
  BY <1>2, <1>3, SameOps DEF SameDescent
<1>5. /\ \A x \in Operators : OperatorOK(x)'
      /\ \A q : Conducted(q)' <=> Conducted(q)
  BY <1>4, OperatorsKeep
<1>6. DescentOK(m) /\ MonitorOK(m)
  BY DEF Shape
<1>7. DescentOK(m)'
  BY <1>2, <1>3, <1>6 DEF DescentOK, MonitorOK
<1>8. MonitorOK(m)'
  <2>1. \A q \in Pids : procs'[q].parent = procs[q].parent /\ (procs'[q].alive <=> procs[q].alive)
    BY <1>2, <1>3
  <2>2. LastSaved(m)' = LastSaved(m)
    BY <1>2, <1>3 DEF LastSaved
  <2>q. QED BY <1>2, <1>3, <1>6, <2>1, <2>2 DEF MonitorOK, Alive, Settled
<1>9. Active(m)
  BY DEF Active
<1>10. ASSUME mishaps' = {} PROVE Recorded(m)'
  <2>1. Recorded(m) /\ procs[m].parent = NoPid
    BY <1>6, <1>10 DEF Clean, MonitorOK
  <2>q. QED BY <1>2, <1>3, <2>1 DEF Recorded, Settled
<1>11. info' \in Records /\ ops' = [x \in Operators |-> ops'[x]]
  BY DEF PMTypeOK
<1>q. QED BY <1>1, <1>2, <1>5, <1>7, <1>8, <1>9, <1>10, <1>11, PointStep

(* The child answered: its record is saved, or the monitor ends.           *)
LEMMA WatchStep ==
  ASSUME PMInv, NEW m \in Pids, Watch(m)
  PROVE  PMInv'
<1> USE DEF PMInv
<1>1. PICK pc \in {"watch", "deaf"}, c \in Pids :
        /\ c = procs[m].child
        /\ pc = "deaf" => ~Alive(c)
        /\ \/ /\ Save([procs EXCEPT ![m].pc = pc], m, [mon |-> m, sp |-> c])
              /\ UNCHANGED mishaps
              /\ ops' = ops \/ \E o : /\ ops[o].pc = "await" /\ ops[o].pid = m
                                      /\ SetOp(o, [ops[o] EXCEPT !.pc = "answered"])
           \/ /\ procs' = Kill([procs EXCEPT ![m].pc = pc], {m}) /\ info' = NoInfo
              /\ Note("answer unwanted", TRUE) /\ ops' = ops
  <2>1. MonitorAt(m, "handshake")
    BY DEF Watch
  <2>2. procs[m].child \in Pids
    BY <2>1 DEF MonitorAt, Monitors, Shape, MonitorOK
  <2>q. QED BY <2>2 DEF Watch
<1>2. procs[m].kind = "monitor" /\ procs[m].alive /\ procs[m].pc = "handshake"
  BY DEF Watch, MonitorAt, Monitors, Alive
<1>3. procs[m] \in Process /\ procs \in [Pids -> Process] /\ m \in Nat /\ c \in Nat
  BY Table
<1>4. DescentOK(m) /\ MonitorOK(m)
  BY DEF Shape
<1>5. procs[m].parent = NoPid /\ procs[c].parent = m
  BY <1>1, <1>2, <1>4 DEF MonitorOK
<1>6. CASE Save([procs EXCEPT ![m].pc = pc], m, [mon |-> m, sp |-> c]) /\ UNCHANGED mishaps
  <2> DEFINE s == Append(procs[m].saves, [mon |-> m, sp |-> c])
             np == [procs[m] EXCEPT !.pc = pc, !.saves = s]
  <2>1. [mon |-> m, sp |-> c] \in Records /\ procs[m].saves \in Seq(Records)
    BY <1>3 DEF Records, Process
  <2>2. s \in Seq(Records) /\ s # <<>> /\ s[Len(s)] = [mon |-> m, sp |-> c]
    BY <2>1, AppendProperties
  <2> HIDE DEF s
  <2>3. /\ np \in Process /\ np.kind = procs[m].kind /\ np.parent = procs[m].parent
        /\ np.alive = procs[m].alive /\ np.child = procs[m].child /\ np.pc = pc
        /\ np.saves = s
    BY <1>3, <2>2 DEF Process, Settled
  <2>4. procs' = [procs EXCEPT ![m] = np]
    BY <1>3, <1>6 DEF Save, s
  <2>5. info' = info \/ info' = NoInfo
    BY <1>6 DEF Save
  <2> HIDE DEF np
  <2>6. /\ procs'[m] = np /\ Pids' = Pids
        /\ \A q \in Pids \ {m} : procs'[q] = procs[q]
    BY <1>3, <2>4 DEF Pids
  <2>7. SameDescent
    BY <2>3, <2>6 DEF SameDescent
  <2>8. QuietOps
    <3>1. CASE ops' = ops
      BY <3>1, SameOps
    <3>2. CASE ops' # ops
      <4>1. PICK o : /\ ops[o].pc = "await" /\ ops[o].pid = m
                     /\ SetOp(o, [ops[o] EXCEPT !.pc = "answered"])
        BY <1>1, <1>6, <3>2, <2>4 DEF Note
      <4>2. o \in Operators
        BY <3>2, <4>1 DEF SetOp, PMTypeOK
      <4>3. ops[o] \in [pc : Launching, pid : Pids]
        BY <4>1, <4>2 DEF Shape, OperatorOK, Launching
      <4> DEFINE r == [ops[o] EXCEPT !.pc = "answered"]
      <4>4. r \in [pc : Launching, pid : Pids'] /\ r.pc = "answered"
        BY <2>6, <4>3 DEF Launching
      <4>5. /\ ops' = [x \in Operators |-> ops'[x]] /\ ops'[o] = r
            /\ \A x \in Operators \ {o} : ops'[x] = ops[x]
        BY <4>1, <4>2 DEF SetOp, PMTypeOK
      <4> HIDE DEF r
      <4>q. QED BY <4>1, <4>4, <4>5 DEF QuietOps, Conducts
    <3>q. QED BY <3>1, <3>2
  <2>9. /\ \A x \in Operators : OperatorOK(x)'
        /\ \A q : Conducted(q)' <=> Conducted(q)
    BY <2>7, <2>8, OperatorsKeep
  <2>10. DescentOK(m)'
    BY <1>2, <1>4, <1>5, <2>3, <2>6 DEF DescentOK
  <2>11. MonitorOK(m)'
    <3>1. \A q \in Pids : procs'[q].parent = procs[q].parent /\ (procs'[q].alive <=> procs[q].alive)
      BY <2>3, <2>6
    <3>2. LastSaved(m)' = [mon |-> m, sp |-> c]
      BY <2>2, <2>3, <2>6 DEF LastSaved
    <3>3. Alive(c)' <=> Alive(c)
      BY <2>6, <3>1 DEF Alive
    <3>q. QED BY <1>1, <1>2, <1>5, <2>3, <2>6, <3>1, <3>2, <3>3 DEF MonitorOK, Settled
  <2>12. Active(m) /\ Recorded(m)'
    BY <1>2, <1>5, <2>2, <2>3, <2>6 DEF Active, Recorded
  <2>13. info' \in Records /\ ops' = [x \in Operators |-> ops'[x]]
    BY <2>5, <2>8 DEF PMTypeOK, NoInfo, NoPid, Records, QuietOps
  <2>q. QED BY <1>2, <1>5, <1>6, <2>3, <2>4, <2>9, <2>10, <2>11, <2>12, <2>13, PointStep
<1>7. CASE /\ procs' = Kill([procs EXCEPT ![m].pc = pc], {m}) /\ info' = NoInfo
           /\ Note("answer unwanted", TRUE) /\ ops' = ops
  <2> DEFINE np == [procs[m] EXCEPT !.pc = pc, !.alive = FALSE, !.saves = <<>>]
  <2>1. <<>> \in Seq(Records)
    OBVIOUS
  <2>2. /\ np \in Process /\ np.kind = procs[m].kind /\ np.parent = procs[m].parent
        /\ ~np.alive /\ np.child = procs[m].child /\ np.pc = pc /\ np.saves = <<>>
    BY <1>3, <2>1 DEF Process, Settled
  <2>3. procs'[m] = np /\ \A q \in Pids \ {m} : procs'[q] = procs[q]
    BY <1>2, <1>3, <1>7 DEF Kill, Process
  <2>4. procs' = [q \in Pids |-> procs'[q]]
    BY <1>3, <1>7 DEF Kill
  <2> HIDE DEF np
  <2>5. procs' \in [Pids -> Process]
    BY <1>3, <2>2, <2>3, <2>4
  <2>6. QuietOps /\ info' \in Records
    BY <1>7, SameOps DEF NoInfo, NoPid, Records
  <2>7. PMTypeOK' /\ Pids' = Pids
    BY <2>5, <2>6, TypeKeeps
  <2>8. \A x \in Operators : OperatorOK(x)'
    <3>1. SameDescent
      BY <2>2, <2>3, <2>7 DEF SameDescent
    <3>q. QED BY <2>6, <3>1, OperatorsKeep
  <2>9. ASSUME NEW q \in Pids PROVE DescentOK(q)' /\ MonitorOK(q)'
    <3>1. DescentOK(q) /\ MonitorOK(q)
      BY DEF Shape
    <3>2. \A x \in Pids : procs'[x].parent = procs[x].parent /\ (procs'[x].alive => procs[x].alive)
      BY <2>2, <2>3
    <3>3. CASE q = m
      BY <1>1, <1>2, <1>5, <2>2, <2>3, <2>7, <3>2, <3>3 DEF DescentOK, MonitorOK, Alive, Settled
    <3>4. CASE q # m
      <4>1. DescentOK(q)'
        BY <2>2, <2>3, <2>7, <3>1, <3>4 DEF DescentOK
      <4>2. MonitorOK(q)'
        BY <2>3, <2>7, <3>1, <3>2, <3>4 DEF MonitorOK, Alive, LastSaved
      <4>q. QED BY <4>1, <4>2
    <3>q. QED BY <3>3, <3>4
  <2>10. mishaps' # {}
    BY <1>7 DEF Note
  <2>q. QED BY <2>7, <2>8, <2>9, <2>10 DEF Shape
<1>q. QED BY <1>1, <1>6, <1>7

LEMMA MonitorSteps ==
  ASSUME PMInv, NEW m \in Pids, MonitorStep(m)
  PROVE  PMInv'
<1> USE DEF PMInv
<1>1. PICK pc : MonitorAt(m, pc)
  BY DEF MonitorStep, FirstSpawn, Handshake, SpawnFails, Watch, ChildGone, Respawn, MonitorEnds
<1>2. procs[m].kind = "monitor" /\ procs[m].alive /\ MonitorOK(m) /\ procs[m] \in Process
  BY <1>1, Table DEF MonitorAt, Monitors, Alive, Shape
<1>3. CASE FirstSpawn(m)
  BY <1>2, <1>3, SpawnStep DEF FirstSpawn, MonitorAt
<1>4. CASE Respawn(m)
  <2>1. procs[m].retry + 1 \in Nat
    BY <1>2 DEF Process
  <2>q. QED BY <1>2, <1>4, <2>1, SpawnStep DEF Respawn, MonitorAt
<1>5. CASE Handshake(m)
  BY <1>2, <1>5, PcStep DEF Handshake, MonitorAt
<1>6. CASE ChildGone(m)
  <2>1. PICK x \in {"interval", "done"} : procs' = [procs EXCEPT ![m].pc = x]
    BY <1>6 DEF ChildGone
  <2>q. QED BY <1>2, <1>6, <2>1, PcStep DEF ChildGone, MonitorAt
<1>7. CASE SpawnFails(m) \/ MonitorEnds(m)
  <2>1. ~Alive(procs[m].child)
    BY <1>2, <1>7 DEF SpawnFails, MonitorEnds, MonitorAt, MonitorOK, Settled
  <2>2. procs' = Kill(procs, {m}) /\ UNCHANGED <<info, ops, mishaps>>
    BY <1>7 DEF SpawnFails, MonitorEnds
  <2>3. QuietOps
    BY <2>2, SameOps
  <2>q. QED BY <2>1, <2>2, <2>3, KillStep
<1>8. CASE Watch(m)
  BY <1>8, WatchStep
<1>q. QED BY <1>3, <1>4, <1>5, <1>6, <1>7, <1>8 DEF MonitorStep

LEMMA ExitStep ==
  ASSUME PMInv, NEW c \in Pids, ChildExits(c)
  PROVE  PMInv'
<1> USE DEF PMInv
<1>1. procs[c].kind # "monitor" /\ procs' = Kill(procs, {c}) /\ UNCHANGED <<info, ops, mishaps>>
  BY DEF ChildExits, LivingChildren, Living, Monitors
<1>2. QuietOps
  BY <1>1, SameOps
<1>q. QED BY <1>1, <1>2, KillStep

LEMMA MonitorDeath ==
  ASSUME PMInv, NEW m \in Pids, MonitorDies(m)
  PROVE  PMInv'
<1> USE DEF PMInv
<1>1. procs' = Kill(procs, {m}) /\ UNCHANGED <<info, ops>>
  BY DEF MonitorDies
<1>2. mishaps' = {} => mishaps = {} /\ (Alive(procs[m].child) => info.sp = procs[m].child)
  BY DEF MonitorDies, Note
<1>3. QuietOps
  BY <1>1, SameOps
<1>q. QED BY <1>1, <1>2, <1>3, KillStep

-----------------------------------------------------------------------------
LEMMA PMNextInv == PMInv /\ [PMNext]_pmVars => PMInv'
<1> SUFFICES ASSUME PMInv, [PMNext]_pmVars PROVE PMInv'
  OBVIOUS
<1> USE DEF PMInv
<1>1. CASE UNCHANGED pmVars
  <2>1. QuietOps /\ UNCHANGED <<procs, info, mishaps>>
    BY <1>1, SameOps DEF pmVars
  <2>q. QED BY <2>1, QuietStep
<1>2. ASSUME NEW o \in Operators, NEW mode \in Modes, StartCall(o, mode) PROVE PMInv'
  BY <1>2, CheckAndLaunchStep DEF StartCall
<1>3. ASSUME NEW o \in Operators, NEW call \in Calls, KillCall(o, call) PROVE PMInv'
  BY <1>3, KillCallStep
<1>4. ASSUME NEW o \in Operators, RemoveCall(o) PROVE PMInv'
  <2>1. QuietOps
    BY <1>4, SameOps DEF RemoveCall
  <2>q. QED BY <1>4, <2>1, RemoveDirStep DEF RemoveCall
<1>5. ASSUME NEW o \in Operators, OperatorStep(o) PROVE PMInv'
  <2>1. CASE MonitorAwaited(o) \/ ListTree(o) \/ KillGivesUp(o)
    BY <2>1, QuietCalls
  <2>2. CASE ChildStays(o) \/ ChildFails(o) \/ DetachedSaved(o)
    BY <2>2, DetachedLaunch
  <2>3. CASE SignalTree(o)
    BY <2>3, SignalStep
  <2>4. CASE KilledAll(o)
    <3>1. ~Conducts(ops[o])
      BY <2>4 DEF KilledAll, Conducts
    <3>q. QED BY <2>4, <3>1, FinishKillStep DEF KilledAll
  <2>5. CASE RestartCall(o)
    BY <2>5, CheckAndLaunchStep DEF RestartCall
  <2>q. QED BY <1>5, <2>1, <2>2, <2>3, <2>4, <2>5 DEF OperatorStep
<1>6. ASSUME NEW o \in Operators, OperatorDies(o) PROVE PMInv'
  BY <1>6, InterruptStep
<1>7. ASSUME NEW p \in Pids, SaveWritten(p) \/ MonitorStep(p) \/ MonitorDies(p) \/ ChildExits(p)
      PROVE  PMInv'
  BY <1>7, WrittenStep, MonitorSteps, MonitorDeath, ExitStep
<1>q. QED BY <1>1, <1>2, <1>3, <1>4, <1>5, <1>6, <1>7 DEF PMNext

(* The shape of the process table always, and without mishaps one launch   *)
(* whose record leads to all that lives of it.                             *)
THEOREM PMInvariance == PMSpec => []PMInv
<1>1. PMInit => PMInv
  BY PMInitInv
<1>2. PMInv /\ [PMNext]_pmVars => PMInv'
  BY PMNextInv
<1>q. QED BY <1>1, <1>2, PTL DEF PMSpec

(* What startProcess, killProc and the monitors do keeps every living      *)
(* process in sight of the snapshot, unless one of the mishaps occurred.   *)
THEOREM InSightAlways == PMSpec => []NoProcessOutOfSight
<1>1. PMInv => NoProcessOutOfSight
  BY LivingInSight DEF NoProcessOutOfSight
<1>q. QED BY <1>1, PMInvariance, PTL

LEMMA AtMostOne ==
  ASSUME NEW S, \A x, y \in S : x = y
  PROVE  Cardinality(S) <= 1
<1>1. CASE S = {}
  BY <1>1, FS_EmptySet
<1>2. CASE S # {}
  <2>1. PICK x : S = {x}
    BY <1>2
  <2>q. QED BY <2>1, FS_Singleton
<1>q. QED BY <1>1, <1>2

(* Of one id no two monitors and no two children run, but for the mishaps; *)
(* and a monitor never has two children that live.                         *)
THEOREM NeverTwiceAlways == PMSpec => []NeverTwice
<1>1. ASSUME PMInv PROVE NeverTwice
  <2> USE <1>1 DEF PMInv
  <2>1. ASSUME NEW x \in Living, NEW y \in Living, procs[x].parent # NoPid, procs[x].parent = procs[y].parent
        PROVE  x = y
    <3>1. DescentOK(x) /\ DescentOK(y) /\ procs[x].alive /\ procs[y].alive
      BY DEF Living, Shape
    <3>q. QED BY <2>1, <3>1 DEF DescentOK
  <2>2. \A m \in Monitors : Cardinality(Children(m) \cap Living) <= 1
    <3> TAKE m \in Monitors
    <3>1. m # NoPid
      BY Table DEF Monitors
    <3>2. \A x, y \in Children(m) \cap Living : x = y
      BY <2>1, <3>1 DEF Children
    <3>q. QED BY <3>2, AtMostOne
  <2>3. ASSUME mishaps = {} PROVE Cardinality(LivingChildren) <= 1 /\ Cardinality(Living \cap Monitors) <= 1
    <3>1. \A x, y \in Living : RootOf(x) = RootOf(y)
      BY <2>3 DEF Living, Clean, OneLaunch, Active
    <3>2. \A x \in Monitors : RootOf(x) = x
      BY DEF Monitors, Shape, MonitorOK, RootOf
    <3>3. \A x, y \in LivingChildren : x = y
      <4> TAKE x, y \in LivingChildren
      <4>1. x \in Living /\ y \in Living /\ procs[x].kind = "child" /\ procs[y].kind = "child"
        BY Table DEF LivingChildren, Living, Monitors, Process
      <4>2. DescentOK(x) /\ DescentOK(y) /\ RootOf(x) = RootOf(y)
        BY <3>1, <4>1 DEF Living, Shape
      <4>3. CASE procs[x].parent = NoPid /\ procs[y].parent = NoPid
        BY <4>2, <4>3 DEF RootOf
      <4>4. CASE procs[x].parent # NoPid /\ procs[y].parent # NoPid
        BY <2>1, <4>1, <4>2, <4>4 DEF RootOf
      <4>5. CASE procs[x].parent = NoPid /\ procs[y].parent # NoPid
        BY <4>1, <4>2, <4>5 DEF RootOf, DescentOK
      <4>6. CASE procs[x].parent # NoPid /\ procs[y].parent = NoPid
        BY <4>1, <4>2, <4>6 DEF RootOf, DescentOK
      <4>q. QED BY <4>3, <4>4, <4>5, <4>6
    <3>4. \A x, y \in Living \cap Monitors : x = y
      BY <3>1, <3>2
    <3>q. QED BY <3>3, <3>4, AtMostOne
  <2>q. QED BY <2>2, <2>3 DEF NeverTwice
<1>q. QED BY <1>1, PMInvariance, PTL
=============================================================================
