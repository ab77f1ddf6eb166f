----------------------------- MODULE StreamsProofs -----------------------------
(***************************************************************************)
(* What writes and reads files and streams.  Servers: any number of        *)
(* processes, ports and starts, and a start that nobody disturbed goes on  *)
(* with what it has seen.  The log: its files lose nothing and keep to     *)
(* their limits, and its follower prints in order.                         *)
(* Snapshots: whatever fails and dies, the last one confirmed is in a      *)
(* file.  The recorder's finder: a list that is up to date leads to the    *)
(* right answer.  http/tcp: a body is echoed whatever pieces it comes in.  *)
(***************************************************************************)
EXTENDS SocketServer, RollingLog, RollingSnapshot, HttpRecord, HttpOverTcp,
        FiniteSetTheorems, WellFoundedInduction, SequenceTheorems, TLAPS

LEMMA LeastOf ==
  ASSUME NEW S \in SUBSET Nat, S # {}
  PROVE  \E m \in S : \A n \in S : m <= n
<1>1. PICK m \in S : \A n \in S : ~ (<<n, m>> \in OpToRel(<, Nat))
  BY WFMin, NatLessThanWellFounded, Zenon
<1>2. \A n \in S : ~ (n < m)
  BY <1>1 DEF OpToRel
<1>q. QED BY <1>2

LEMMA MinIsLeast ==
  ASSUME NEW S \in SUBSET Nat, S # {}
  PROVE  Min(S) \in S /\ \A n \in S : Min(S) <= n
<1>1. \E m \in S : \A n \in S : m <= n
  BY LeastOf
<1>q. QED BY <1>1 DEF Min

-----------------------------------------------------------------------------
(* servers on a path or a port                                               *)

Steps == {"idle", "connect", "scan", "listen", "up", "failed"}

NetTypeOK ==
  /\ step \in [Processes -> Steps]
  /\ on \in [Processes -> {"path", "port"}]
  /\ port \in [Processes -> Nat]
  /\ disturbed \in [Processes -> BOOLEAN]

(* What an undisturbed start has seen is still so; one that looks for a port  *)
(* has been started to.                                                       *)
SeenHolds(p) ==
  /\ step[p] = "scan" => on[p] = "port"
  /\ step[p] = "connect" => on[p] = "path"
  /\ ~disturbed[p] =>
       /\ step[p] = "connect" => socketFile # NoServer
       /\ step[p] = "listen" /\ on[p] = "path" => socketFile = NoServer
       /\ step[p] = "listen" /\ on[p] = "port" => ~Taken(port[p])

FailsWithReason(p) ==
  step[p] = "failed" => disturbed[p] \/ (on[p] = "port" /\ port[p] = EndPort)

NetInv == NetTypeOK /\ \A p \in Processes : SeenHolds(p) /\ FailsWithReason(p)

(* What every step of p leaves of the others: those that do not start are as  *)
(* they were, and those that do are disturbed.                                *)
Bystanders(p) == \A q \in Processes \ {p} :
  /\ step'[q] = step[q] /\ on'[q] = on[q] /\ port'[q] = port[q]
  /\ disturbed'[q] = (disturbed[q] \/ Starting(q))

LEMMA NetInitInv == NetInit => NetInv
BY DEF NetInit, NetInv, NetTypeOK, Steps, SeenHolds, FailsWithReason

(* The others keep what the invariant says of them.                           *)
LEMMA BystandersKeep ==
  ASSUME NetInv, NetTypeOK', NEW p \in Processes, Bystanders(p),
         NEW q \in Processes \ {p}
  PROVE  SeenHolds(q)' /\ FailsWithReason(q)'
<1>1. CASE Starting(q)
  BY <1>1 DEF Bystanders, Starting, SeenHolds, FailsWithReason, NetInv, NetTypeOK
<1>2. CASE ~Starting(q)
  BY <1>2 DEF Bystanders, Starting, SeenHolds, FailsWithReason, NetInv, NetTypeOK
<1>q. QED BY <1>1, <1>2

LEMMA StepTypes ==
  ASSUME NetTypeOK, NEW p \in Processes, NEW s \in Steps, Step(p, s)
  PROVE  /\ step' \in [Processes -> Steps] /\ step'[p] = s
         /\ disturbed' \in [Processes -> BOOLEAN] /\ disturbed'[p] = disturbed[p]
         /\ \A q \in Processes \ {p} :
              step'[q] = step[q] /\ disturbed'[q] = (disturbed[q] \/ Starting(q))
BY DEF NetTypeOK, Step, Starting

(* A start begins with what it finds.                                         *)
LEMMA BeginStartKeeps ==
  ASSUME NetInv, NEW p \in Processes, StartOnPath(p) \/ StartOnPort(p)
  PROVE  NetInv'
<1>1. NetTypeOK'
  <2>1. PICK how \in {"path", "port"}, s \in Steps, n \in Nat : BeginStart(p, how, s, n)
    BY DEF StartOnPath, StartOnPort, Steps
  <2>2. disturbed' \in [Processes -> BOOLEAN]
    BY <2>1 DEF NetInv, NetTypeOK, BeginStart, Starting
  <2>q. QED BY <2>1, <2>2 DEF NetInv, NetTypeOK, BeginStart
<1>2. Bystanders(p)
  BY DEF NetInv, NetTypeOK, Bystanders, StartOnPath, StartOnPort, BeginStart
<1>3. SeenHolds(p)' /\ FailsWithReason(p)'
  BY DEF NetInv, NetTypeOK, StartOnPath, StartOnPort, BeginStart, SeenHolds, FailsWithReason
<1>q. QED BY <1>1, <1>2, <1>3, BystandersKeep DEF NetInv

(* The steps of a start on a path.                                            *)
LEMMA PathKeeps ==
  ASSUME NetInv, NEW p \in Processes,
         ConnectAnswered(p) \/ ConnectRefused(p) \/ ListenOnPath(p)
  PROVE  NetInv'
<1>1. PICK s \in {"listen", "up", "failed"} : Step(p, s)
  BY DEF ConnectAnswered, ConnectRefused, ListenOnPath, Unlink
<1>2. UNCHANGED <<on, port>>
  BY DEF ConnectAnswered, ConnectRefused, ListenOnPath
<1>3. NetTypeOK' /\ Bystanders(p) /\ disturbed'[p] = disturbed[p]
  BY <1>1, <1>2, StepTypes DEF NetInv, NetTypeOK, Bystanders, Steps
<1>4. SeenHolds(p)' /\ FailsWithReason(p)'
  <2>1. CASE step[p] = "connect" /\ Unlink(p)
    BY <2>1, <1>1, <1>2, <1>3, StepTypes DEF NetInv, NetTypeOK, Steps, SeenHolds, FailsWithReason, Unlink
  <2>2. CASE ListenOnPath(p)
    BY <2>2, <1>1, <1>2, <1>3, StepTypes
    DEF NetInv, NetTypeOK, Steps, SeenHolds, FailsWithReason, ListenOnPath
  <2>q. QED BY <2>1, <2>2 DEF ConnectAnswered, ConnectRefused
<1>q. QED BY <1>3, <1>4, BystandersKeep DEF NetInv

(* A port that is found free is free until somebody disturbs.                 *)
LEMMA PortKeeps ==
  ASSUME NetInv, NEW p \in Processes,
         CheckPort(p) \/ CheckTimesOut(p) \/ NoFreePort(p) \/ ListenOnPort(p)
  PROVE  NetInv'
<1>1. CASE CheckPort(p)
  <2>1. PICK s \in {"scan", "listen"} : Step(p, s)
    BY <1>1 DEF CheckPort
  <2>2. NetTypeOK' /\ Bystanders(p) /\ disturbed'[p] = disturbed[p] /\ on' = on
    BY <1>1, <2>1, StepTypes DEF CheckPort, NetInv, NetTypeOK, Bystanders, Steps
  <2>3. SeenHolds(p)' /\ FailsWithReason(p)'
    BY <1>1, <2>1, <2>2, StepTypes
    DEF CheckPort, NetInv, NetTypeOK, Steps, SeenHolds, FailsWithReason, Taken
  <2>q. QED BY <2>2, <2>3, BystandersKeep DEF NetInv
<1>2. CASE CheckTimesOut(p)
  <2>1. NetTypeOK' /\ Bystanders(p) /\ disturbed'[p]
    BY <1>2 DEF CheckTimesOut, NetInv, NetTypeOK, Bystanders, Steps, Starting
  <2>2. SeenHolds(p)' /\ FailsWithReason(p)'
    BY <1>2, <2>1 DEF CheckTimesOut, NetInv, NetTypeOK, SeenHolds, FailsWithReason
  <2>q. QED BY <2>1, <2>2, BystandersKeep DEF NetInv
<1>3. CASE NoFreePort(p) \/ ListenOnPort(p)
  <2>1. PICK s \in {"up", "failed"} : Step(p, s)
    BY <1>3 DEF NoFreePort, ListenOnPort
  <2>2. NetTypeOK' /\ Bystanders(p) /\ disturbed'[p] = disturbed[p] /\ UNCHANGED <<on, port>>
    BY <1>3, <2>1, StepTypes DEF NoFreePort, ListenOnPort, NetInv, NetTypeOK, Bystanders, Steps
  <2>3. SeenHolds(p)' /\ FailsWithReason(p)'
    BY <1>3, <2>1, <2>2, StepTypes
    DEF NoFreePort, ListenOnPort, NetInv, NetTypeOK, Steps, SeenHolds, FailsWithReason
  <2>q. QED BY <2>2, <2>3, BystandersKeep DEF NetInv
<1>q. QED BY <1>1, <1>2, <1>3

(* A server that goes disturbs all that are starting.                         *)
LEMMA LeaveKeeps ==
  ASSUME NetInv, NEW p \in Processes, Close(p) \/ Die(p)
  PROVE  NetInv'
<1>1. Step(p, "idle") /\ UNCHANGED <<on, port>>
  BY DEF Close, Die
<1>2. NetTypeOK' /\ Bystanders(p) /\ step'[p] = "idle"
  BY <1>1, StepTypes DEF NetInv, NetTypeOK, Bystanders, Steps
<1>3. SeenHolds(p)' /\ FailsWithReason(p)'
  BY <1>2 DEF SeenHolds, FailsWithReason
<1>q. QED BY <1>2, <1>3, BystandersKeep DEF NetInv

LEMMA NetStep == NetInv /\ [NetNext]_netVars => NetInv'
<1> SUFFICES ASSUME NetInv, [NetNext]_netVars PROVE NetInv'
  OBVIOUS
<1>1. CASE UNCHANGED netVars
  BY <1>1 DEF netVars, NetInv, NetTypeOK, SeenHolds, FailsWithReason, Taken
<1>2. CASE NetNext
  BY <1>2, BeginStartKeeps, PathKeeps, PortKeeps, LeaveKeeps DEF NetNext
<1>q. QED BY <1>1, <1>2

(* What an undisturbed start has seen holds until it is done, with any number *)
(* of processes starting, closing and dying (net/service/server.ts:74-102).   *)
THEOREM NetInvariance == NetSpec => []NetInv
BY NetInitInv, NetStep, PTL DEF NetSpec

(* A start fails only in a race or when all ports are taken: nothing a crash  *)
(* has left behind stops it, and neither does a server that is up             *)
(* (net/service/server.ts:80-92).                                             *)
THEOREM StartsFailOnlyInRaces == NetSpec => []StartFailsOnlyInRace
<1>1. NetInv => StartFailsOnlyInRace
  BY DEF NetInv, FailsWithReason, StartFailsOnlyInRace
<1>q. QED BY <1>1, NetInvariance, PTL

-----------------------------------------------------------------------------
(* the log and its follower                                                  *)

Jobs == WriteSizes \cup {End}

(* The active file has the last units, the chain a job where one is running.  *)
WriterInv ==
  /\ disk \in Nat /\ active \in Seq(Nat) /\ Len(active) <= disk
  /\ \A i \in 1..Len(active) : active[i] = disk - Len(active) + i
  /\ queue \in Seq(Jobs)
  /\ pc \in {"idle", "rotating", "retaining", "writing"}
  /\ pc # "idle" => queue # <<>> /\ Head(queue) \in WriteSizes

(* A follower that read the file it had measured has printed the beginning of *)
(* what is still the active file up to its position, or the end of one from   *)
(* before it; what it measured is there while the file is the same.           *)
Follower ==
  [pc : {"wait", "found", "first", "follow", "read", "failed"}, position : Nat, size : Nat,
   measured : Nat, last : Nat, file : Nat, steady : BOOLEAN]

FollowerInv ==
  /\ tail \in Follower /\ tail.last <= disk /\ tail.file <= disk
  /\ tail.pc \in {"wait", "found"} => tail.position = 0
  /\ tail.steady /\ active # <<>> =>
       IF active[1] = tail.file THEN tail.position = tail.last - tail.file + 1
       ELSE active[1] > tail.last
  /\ active # <<>> => tail.file <= active[1]
  /\ tail.pc \in {"first", "read"} =>
       /\ tail.position < tail.size /\ tail.measured \in 1..disk /\ tail.file <= tail.measured
       /\ active # <<>> => tail.measured <= active[1]
       /\ active # <<>> /\ active[1] = tail.measured => tail.size <= Len(active)

TailInv == WriterInv /\ FollowerInv

(* Units are added to the file in their order.                                *)
LEMMA UnitsAdded ==
  ASSUME WriterInv, NEW n \in Nat, active' = active \o Units(disk, n), disk' = disk + n
  PROVE  /\ disk' \in Nat /\ active' \in Seq(Nat) /\ Len(active') = Len(active) + n
         /\ Len(active') <= disk'
         /\ \A i \in 1..Len(active') : active'[i] = disk' - Len(active') + i
         /\ active' # <<>> => IF active # <<>> THEN active'[1] = active[1] ELSE active'[1] = disk + 1
<1> DEFINE u == Units(disk, n)
<1>1. u \in Seq(Nat) /\ Len(u) = n /\ \A i \in 1..n : u[i] = disk + i
  BY DEF WriterInv, Units
<1>a. active' = active \o u
  OBVIOUS
<1> HIDE DEF u
<1>2. disk \in Nat /\ active \in Seq(Nat) /\ Len(active) \in Nat
  BY DEF WriterInv
<1>3. /\ active' \in Seq(Nat) /\ Len(active') = Len(active) + n
      /\ \A i \in 1..Len(active) + n :
           active'[i] = IF i <= Len(active) THEN active[i] ELSE u[i - Len(active)]
  <2>1. /\ active \o u \in Seq(Nat) /\ Len(active \o u) = Len(active) + Len(u)
        /\ \A i \in 1..Len(active) + Len(u) :
             (active \o u)[i] = IF i <= Len(active) THEN active[i] ELSE u[i - Len(active)]
    BY <1>1, <1>2, ConcatProperties, Zenon
  <2>q. QED BY <1>1, <1>a, <2>1, Zenon
<1>4. \A i \in 1..Len(active') : active'[i] = disk' - Len(active') + i
  <2> TAKE i \in 1..Len(active')
  <2>1. CASE i <= Len(active)
    BY <1>2, <1>3, <2>1 DEF WriterInv
  <2>2. CASE i > Len(active)
    BY <1>1, <1>2, <1>3, <2>2
  <2>q. QED BY <1>2, <2>1, <2>2
<1>5. active' # <<>> => IF active # <<>> THEN active'[1] = active[1] ELSE active'[1] = disk + 1
  <2>1. CASE active # <<>>
    BY <1>2, <1>3, <2>1
  <2>2. CASE active = <<>> /\ active' # <<>>
    BY <1>2, <1>3, <1>4, <2>2
  <2>q. QED BY <2>1, <2>2
<1>6. disk' \in Nat /\ Len(active') <= disk'
  <2>1. Len(active) <= disk
    BY DEF WriterInv
  <2>q. QED BY <1>2, <1>3, <2>1
<1>q. QED BY <1>3, <1>4, <1>5, <1>6

LEMMA AddedKeepsFollowing ==
  ASSUME TailInv, NEW n \in Nat, active' = active \o Units(disk, n), disk' = disk + n, tail' = tail
  PROVE  FollowerInv'
<1>1. WriterInv /\ FollowerInv
  BY DEF TailInv
<1>2. /\ disk' \in Nat /\ disk' = disk + n /\ disk \in Nat /\ Len(active) \in Nat
      /\ Len(active') = Len(active) + n
      /\ active' # <<>> => IF active # <<>> THEN active'[1] = active[1] ELSE active'[1] = disk + 1
  BY <1>1, UnitsAdded DEF WriterInv
<1>3. /\ tail.last \in Nat /\ tail.file \in Nat /\ tail.last <= disk /\ tail.file <= disk
      /\ tail.position \in Nat /\ tail.size \in Nat /\ tail.measured \in Nat
  BY <1>1 DEF FollowerInv, Follower
<1>4. /\ tail \in Follower /\ tail.last <= disk' /\ tail.file <= disk'
      /\ tail.pc \in {"wait", "found"} => tail.position = 0
  BY <1>1, <1>2, <1>3 DEF FollowerInv
<1>5. /\ tail.steady /\ active' # <<>> =>
           IF active'[1] = tail.file THEN tail.position = tail.last - tail.file + 1
           ELSE active'[1] > tail.last
      /\ active' # <<>> => tail.file <= active'[1]
  <2>1. CASE active # <<>>
    BY <1>1, <1>2, <2>1 DEF FollowerInv
  <2>2. CASE active = <<>>
    BY <1>2, <1>3, <2>2
  <2>q. QED BY <2>1, <2>2
<1>6. tail.pc \in {"first", "read"} =>
        /\ tail.position < tail.size /\ tail.measured \in 1..disk' /\ tail.file <= tail.measured
        /\ active' # <<>> => tail.measured <= active'[1]
        /\ active' # <<>> /\ active'[1] = tail.measured => tail.size <= Len(active')
  <2> SUFFICES ASSUME tail.pc \in {"first", "read"}
               PROVE  /\ tail.position < tail.size /\ tail.measured \in 1..disk'
                      /\ tail.file <= tail.measured
                      /\ active' # <<>> => tail.measured <= active'[1]
                      /\ active' # <<>> /\ active'[1] = tail.measured => tail.size <= Len(active')
    OBVIOUS
  <2>1. /\ tail.position < tail.size /\ tail.measured \in 1..disk /\ tail.file <= tail.measured
        /\ active # <<>> => tail.measured <= active[1]
        /\ active # <<>> /\ active[1] = tail.measured => tail.size <= Len(active)
    BY <1>1 DEF FollowerInv
  <2>2. CASE active # <<>>
    BY <1>2, <1>3, <2>1, <2>2
  <2>3. CASE active = <<>>
    BY <1>2, <1>3, <2>1, <2>3
  <2>q. QED BY <2>2, <2>3
<1>q. QED BY <1>4, <1>5, <1>6 DEF FollowerInv

LEMMA QueueHead ==
  ASSUME NEW S, NEW q \in Seq(S), NEW x \in S
  PROVE  /\ Append(q, x) \in Seq(S)
         /\ q # <<>> => Append(q, x) # <<>> /\ Head(Append(q, x)) = Head(q)
OBVIOUS

LEMMA QueueGrows ==
  ASSUME TailInv, NEW x \in Jobs, queue' = Append(queue, x),
         UNCHANGED <<active, disk, pc, tail>>
  PROVE  TailInv'
<1>1. queue' \in Seq(Jobs) /\ (queue # <<>> => queue' # <<>> /\ Head(queue') = Head(queue))
  BY QueueHead DEF TailInv, WriterInv
<1>q. QED BY <1>1 DEF TailInv, WriterInv, FollowerInv

LEMMA QueueSteps ==
  ASSUME TailInv, StartWrite \/ FinishEnd \/ NextDay PROVE TailInv'
<1>1. UNCHANGED <<active, disk, tail>>
  BY DEF StartWrite, FinishEnd, NextDay
<1>2. FollowerInv'
  BY <1>1 DEF TailInv, FollowerInv
<1>3. CASE StartWrite
  <2>1. queue' = queue /\ queue # <<>> /\ pc' \in {"rotating", "writing"} /\ Head(queue) # End
    BY <1>3 DEF StartWrite
  <2>2. Head(queue) \in WriteSizes
    BY <2>1, HeadTailProperties DEF TailInv, WriterInv, Jobs
  <2>q. QED BY <1>1, <1>2, <2>1, <2>2 DEF TailInv, WriterInv
<1>4. CASE FinishEnd
  <2>1. pc' = "idle" /\ queue' \in Seq(Jobs)
    BY <1>4, HeadTailProperties DEF FinishEnd, TailInv, WriterInv
  <2>q. QED BY <1>1, <1>2, <2>1 DEF TailInv, WriterInv
<1>5. CASE NextDay
  BY <1>1, <1>2, <1>5 DEF NextDay, TailInv, WriterInv
<1>q. QED BY <1>3, <1>4, <1>5

LEMMA FlushKeeps == ASSUME TailInv, Flushed PROVE TailInv'
<1>1. /\ queue \in Seq(Jobs) /\ queue # <<>> /\ Head(queue) \in Nat
  BY LogAssumption DEF TailInv, WriterInv, Flushed
<1>2. pc' = "idle" /\ queue' \in Seq(Jobs)
  BY <1>1, HeadTailProperties DEF Flushed
<1>3. active' = active \o Units(disk, Head(queue)) /\ disk' = disk + Head(queue) /\ tail' = tail
  BY DEF Flushed
<1>4. WriterInv'
  BY <1>1, <1>2, <1>3, UnitsAdded DEF TailInv, WriterInv
<1>q. QED BY <1>1, <1>3, <1>4, AddedKeepsFollowing DEF TailInv

LEMMA CrashKeeps == ASSUME TailInv, Crash PROVE TailInv'
<1>1. PICK n \in 0..(IF pc = "writing" THEN Head(queue) ELSE 0) :
         active' = active \o Units(disk, n) /\ disk' = disk + n
  BY DEF Crash
<1>2. n \in Nat
  BY <1>1, LogAssumption DEF TailInv, WriterInv
<1>3. queue' = <<>> /\ pc' = "idle" /\ tail' = tail
  BY DEF Crash
<1>4. WriterInv'
  <2>1. WriterInv
    BY DEF TailInv
  <2>2. /\ disk' \in Nat /\ active' \in Seq(Nat) /\ Len(active') <= disk'
        /\ \A i \in 1..Len(active') : active'[i] = disk' - Len(active') + i
    BY <1>1, <1>2, <2>1, UnitsAdded
  <2>3. queue' \in Seq(Jobs)
    BY <1>3, EmptySeq
  <2>q. QED BY <1>3, <2>2, <2>3 DEF WriterInv
<1>q. QED BY <1>1, <1>2, <1>3, <1>4, AddedKeepsFollowing DEF TailInv

LEMMA RotateKeeps == ASSUME TailInv, Rename \/ DropOldest \/ Reopen PROVE TailInv'
<1>1. /\ active' \in {<<>>, active} /\ UNCHANGED <<queue, disk, tail>>
      /\ pc' \in {"retaining", "writing"} /\ pc # "idle"
  BY DEF Rename, DropOldest, Reopen, NoFile
<1>2. CASE active' = <<>>
  BY <1>1, <1>2 DEF TailInv, WriterInv, FollowerInv
<1>3. CASE active' = active
  BY <1>1, <1>3 DEF TailInv, WriterInv, FollowerInv
<1>q. QED BY <1>1, <1>2, <1>3

LEMMA LesserOf ==
  ASSUME NEW x \in Nat, NEW y \in Nat
  PROVE  Min({x, y}) = IF x <= y THEN x ELSE y
BY DEF Min

(* The numbers of the active file, and the follower's.                        *)
LEMMA FollowerNumbers ==
  ASSUME TailInv
  PROVE  /\ tail \in Follower /\ tail.position \in Nat /\ tail.size \in Nat /\ tail.measured \in Nat
         /\ tail.last \in Nat /\ tail.file \in Nat /\ tail.last <= disk /\ tail.file <= disk
         /\ disk \in Nat /\ active \in Seq(Nat) /\ Len(active) \in Nat /\ Len(active) <= disk
         /\ \A i \in 1..Len(active) : active[i] = disk - Len(active) + i
         /\ active # <<>> => Len(active) >= 1 /\ FirstUnit = active[1]
                             /\ active[1] = disk - Len(active) + 1
         /\ active = <<>> => FirstUnit = 0
BY DEF TailInv, WriterInv, FollowerInv, Follower, FirstUnit, NoFile

(* What is read now: the units from the position on, as far as there are any. *)
LEMMA WhatIsRead ==
  ASSUME TailInv, tail.pc \in {"first", "read"}
  PROVE  /\ ReadNow # <<>> => /\ active # <<>> /\ tail.position + 1 \in 1..Len(active)
                              /\ Last(ReadNow) \in 1..disk
         /\ active # <<>> /\ active[1] = tail.measured =>
              /\ tail.size <= Len(active) /\ ReadNow # <<>>
              /\ Last(ReadNow) = active[1] + tail.size - 1
<1> DEFINE k == IF tail.size <= Len(active) THEN tail.size ELSE Len(active)
           m == tail.position + 1
<1>1. tail.position < tail.size /\ (active # <<>> /\ active[1] = tail.measured => tail.size <= Len(active))
  BY DEF TailInv, FollowerInv
<1>n. /\ disk \in Nat /\ active \in Seq(Nat) /\ Len(active) \in Nat /\ Len(active) <= disk
      /\ tail.position \in Nat /\ tail.size \in Nat
      /\ \A i \in 1..Len(active) : active[i] = disk - Len(active) + i
  BY FollowerNumbers
<1>2. /\ ReadNow = SubSeq(active, m, k)
      /\ k \in Nat /\ k <= Len(active) /\ (tail.size <= Len(active) => k = tail.size)
      /\ m \in Nat /\ m >= 1 /\ m <= tail.size
  <2>1. Min({tail.size, Len(active)}) = k
    BY <1>n, LesserOf
  <2>2. ReadNow = SubSeq(active, m, k)
    BY <2>1 DEF ReadNow
  <2>q. QED BY <1>1, <1>n, <2>2
<1> HIDE DEF k, m
<1>3. ASSUME k < m PROVE ReadNow = <<>>
  BY <1>2, <1>3, SubSeqEmpty
<1>4. ASSUME m <= k
      PROVE  /\ active # <<>> /\ m \in 1..Len(active) /\ ReadNow # <<>>
             /\ Last(ReadNow) = active[k] /\ k \in 1..Len(active)
             /\ active[k] \in 1..disk /\ active[k] = active[1] + k - 1
  <2>1. k \in 1..Len(active) /\ m \in 1..Len(active) /\ 1 \in 1..Len(active) /\ Len(active) # 0
    BY <1>2, <1>4, <1>n
  <2>2. active # <<>>
    BY <2>1
  <2>3. active[k] = disk - Len(active) + k /\ active[1] = disk - Len(active) + 1
    BY <1>n, <2>1
  <2>4. active[k] \in 1..disk /\ active[k] = active[1] + k - 1
    BY <1>n, <1>2, <2>1, <2>3
  <2>5. m \in Int /\ k \in Int /\ (\A i \in m..k : active[i] \in Nat)
    BY <1>n, <1>2, <2>1
  <2>6. /\ Len(ReadNow) = k - m + 1
        /\ \A i \in 1..k - m + 1 : ReadNow[i] = active[m + i - 1]
    BY <1>2, <1>4, <2>5, SubSeqProperties
  <2>7. k - m + 1 \in 1..k - m + 1 /\ m + (k - m + 1) - 1 = k
    BY <1>2, <1>4
  <2>8. ReadNow # <<>> /\ Last(ReadNow) = active[k]
    BY <2>6, <2>7 DEF Last
  <2>q. QED BY <2>1, <2>2, <2>4, <2>8
<1>5. k < m \/ m <= k
  BY <1>2
<1>6. ASSUME active # <<>>, active[1] = tail.measured PROVE tail.size <= Len(active) /\ m <= k /\ k = tail.size
  BY <1>1, <1>2, <1>6
<1>7. ReadNow # <<>> => active # <<>> /\ m \in 1..Len(active) /\ Last(ReadNow) \in 1..disk
  BY <1>3, <1>4, <1>5
<1>q. QED BY <1>4, <1>6, <1>7 DEF m

(* What looking and reading leave the follower with.                          *)
LEMMA MeasuringKeeps ==
  ASSUME TailInv, NEW from \in Nat, from < Len(active), NEW doing \in {"first", "read"},
         FollowerStep(Measuring(doing, from)),
         tail.steady /\ active[1] = tail.file => from = tail.position
  PROVE  TailInv'
<1> DEFINE t == Measuring(doing, from)
<1>1. /\ tail' = t /\ UNCHANGED <<active, disk, queue, pc>>
  BY DEF FollowerStep, writerVars
<1>2. /\ active # <<>> /\ Len(active) \in Nat /\ active[1] \in 1..disk /\ FirstUnit = active[1]
      /\ FirstUnit \in Nat /\ tail \in Follower
  BY FollowerNumbers
<1>3. /\ t \in Follower /\ t.pc = doing /\ t.position = from /\ t.size = Len(active)
      /\ t.measured = active[1] /\ t.last = tail.last /\ t.file = tail.file /\ t.steady = tail.steady
  BY <1>2 DEF Measuring, Follower
<1>4. /\ tail.steady => IF active[1] = tail.file THEN tail.position = tail.last - tail.file + 1
                       ELSE active[1] > tail.last
      /\ tail.last <= disk /\ tail.file <= disk /\ tail.file <= active[1]
  BY <1>2 DEF TailInv, FollowerInv
<1> HIDE DEF t
<1>5. FollowerInv'
  BY <1>1, <1>2, <1>3, <1>4 DEF FollowerInv
<1>q. QED BY <1>1, <1>5 DEF TailInv, WriterInv

LEMMA FollowingKeeps ==
  ASSUME TailInv, NEW position \in Nat, FollowerStep(Following(position)),
         tail.steady /\ active # <<>> /\ active[1] = tail.file => position = tail.position
  PROVE  TailInv'
<1> DEFINE t == Following(position)
<1>1. /\ tail' = t /\ UNCHANGED <<active, disk, queue, pc>>
  BY DEF FollowerStep, writerVars
<1>2. /\ t \in Follower /\ t.pc = "follow" /\ t.position = position
      /\ t.last = tail.last /\ t.file = tail.file /\ t.steady = tail.steady
  BY FollowerNumbers DEF Following, Follower
<1> HIDE DEF t
<1>3. FollowerInv'
  BY <1>1, <1>2, FollowerNumbers DEF TailInv, FollowerInv
<1>q. QED BY <1>1, <1>3 DEF TailInv, WriterInv

LEMMA PhaseKeeps ==
  ASSUME TailInv, NEW doing \in {"found", "failed"}, FollowerStep([tail EXCEPT !.pc = doing]),
         doing = "found" => tail.pc = "wait"
  PROVE  TailInv'
<1>1. UNCHANGED <<active, disk, queue, pc>> /\ tail' = [tail EXCEPT !.pc = doing]
  BY DEF FollowerStep, writerVars
<1>2. FollowerInv'
  BY <1>1, FollowerNumbers DEF TailInv, FollowerInv, Follower
<1>q. QED BY <1>1, <1>2 DEF TailInv, WriterInv

\* While the file is the one printed last, it is no shorter than the position.
LEMMA ReadsOn ==
  ASSUME TailInv
  PROVE  /\ ReadFrom \in Nat
         /\ tail.steady /\ active # <<>> /\ active[1] = tail.file => ReadFrom = tail.position
<1>1. ReadFrom \in Nat
  BY FollowerNumbers DEF ReadFrom
<1>2. ASSUME tail.steady, active # <<>>, active[1] = tail.file PROVE ReadFrom = tail.position
  <2>1. tail.position = tail.last - tail.file + 1
    BY <1>2 DEF TailInv, FollowerInv
  <2>q. QED BY <1>2, <2>1, FollowerNumbers DEF ReadFrom
<1>q. QED BY <1>1, <1>2

LEMMA ReadKeeps == ASSUME TailInv, TailRead PROVE TailInv'
<1>1. /\ tail' = TailAt /\ UNCHANGED <<active, disk, queue, pc>> /\ tail.pc \in {"first", "read"}
  BY DEF TailRead, FollowerStep, writerVars
<1>2. tail.measured \in 1..disk
  BY <1>1 DEF TailInv, FollowerInv
<1> DEFINE last == IF ReadNow = <<>> THEN tail.last ELSE Last(ReadNow)
<1>3. last \in Nat /\ last <= disk
  BY <1>1, FollowerNumbers, WhatIsRead
<1>4. FirstUnit \in Nat /\ FirstUnit <= disk
  BY FollowerNumbers
<1>5. TailAt = [Following(tail.size) EXCEPT !.last = last, !.file = FirstUnit,
                                            !.steady = FirstUnit = tail.measured]
  BY FollowerNumbers DEF TailAt, Following, Follower
<1> HIDE DEF last
<1> DEFINE same == FirstUnit = tail.measured
<1>6. Following(tail.size) \in Follower /\ Following(tail.size).pc = "follow"
      /\ Following(tail.size).position = tail.size /\ same \in BOOLEAN
  BY FollowerNumbers DEF Following, Follower
<1>7. /\ TailAt \in Follower /\ TailAt.pc = "follow" /\ TailAt.position = tail.size
      /\ TailAt.last = last /\ TailAt.file = FirstUnit /\ (TailAt.steady <=> same)
  BY <1>3, <1>4, <1>5, <1>6 DEF Follower
<1>8. same => active # <<>> /\ FirstUnit = active[1] /\ last = active[1] + tail.size - 1
  BY <1>1, <1>2, FollowerNumbers, WhatIsRead DEF last
<1>9. FollowerInv'
  BY <1>1, <1>3, <1>4, <1>7, <1>8, FollowerNumbers DEF FollowerInv
<1>q. QED BY <1>1, <1>9 DEF TailInv, WriterInv

FollowerActs == TailFound \/ TailFirstStat \/ TailStat \/ TailRead \/ TailOpenFails

LEMMA FollowerKeeps == ASSUME TailInv, FollowerActs PROVE TailInv'
<1>1. CASE TailFound
  BY <1>1, PhaseKeeps DEF TailFound
<1>2. CASE TailFirstStat
  <2>1. CASE FollowerStep([tail EXCEPT !.pc = "failed"])
    BY <2>1, PhaseKeeps
  <2>2. CASE active = <<>> /\ FollowerStep(Following(0))
    BY <2>2, FollowingKeeps
  <2>3. CASE active # <<>> /\ tail.pc = "found" /\ FollowerStep(Measuring("first", 0))
    <3>1. 0 < Len(active)
      BY <2>3, FollowerNumbers
    <3>2. tail.steady /\ active[1] = tail.file => 0 = tail.position
      BY <2>3 DEF TailInv, FollowerInv
    <3>q. QED BY <2>3, <3>1, <3>2, MeasuringKeeps
  <2>q. QED BY <1>2, <2>1, <2>2, <2>3 DEF TailFirstStat, EmptyFile, NoFile
<1>3. CASE TailStat
  <2>1. CASE Len(active) > ReadFrom /\ FollowerStep(Measuring("read", ReadFrom))
    <3>1. active # <<>>
      BY <2>1, ReadsOn, FollowerNumbers
    <3>q. QED BY <2>1, <3>1, ReadsOn, MeasuringKeeps
  <2>2. CASE FollowerStep(Following(ReadFrom))
    BY <2>2, ReadsOn, FollowingKeeps
  <2>q. QED BY <1>3, <2>1, <2>2 DEF TailStat
<1>4. CASE TailRead
  BY <1>4, ReadKeeps
<1>5. CASE TailOpenFails
  <2>1. active = <<>> /\ tail.position \in Nat
    BY <1>5, FollowerNumbers DEF TailOpenFails, NoFile
  <2>2. CASE FollowerStep(Following(tail.position))
    BY <2>1, <2>2, FollowingKeeps
  <2>3. CASE FollowerStep([tail EXCEPT !.pc = "failed"])
    BY <2>3, PhaseKeeps
  <2>q. QED BY <1>5, <2>2, <2>3 DEF TailOpenFails
<1>q. QED BY <1>1, <1>2, <1>3, <1>4, <1>5 DEF FollowerActs

LEMMA TailInit == LogInit => TailInv
BY DEF LogInit, NoFile, TailInv, WriterInv, FollowerInv, Follower

LEMMA TailStep == TailInv /\ [LogNext]_logVars => TailInv'
<1> SUFFICES ASSUME TailInv, [LogNext]_logVars PROVE TailInv'
  OBVIOUS
<1>1. CASE UNCHANGED logVars
  BY <1>1 DEF logVars, writerVars, TailInv, WriterInv, FollowerInv
<1>2. CASE \E size \in WriteSizes : Write(size)
  BY <1>2, QueueGrows DEF Write, Jobs
<1>3. CASE CloseStream
  BY <1>3, QueueGrows DEF CloseStream, Jobs
<1>q. QED
  BY <1>1, <1>2, <1>3, QueueSteps, FlushKeeps, CrashKeeps, RotateKeeps, FollowerKeeps
  DEF LogNext, WriterStep, FollowerActs

(* What a follower prints next is later than all it has printed, and follows  *)
(* it while the file is the same, however often the writer rotates, dies and  *)
(* opens the file again (process-manager/operation/tail-file.ts); only after  *)
(* a rotation between its measuring and its reading may it repeat itself.     *)
THEOREM FollowerInOrder == LogSpec => TailInOrder
<1> DEFINE Ordered ==
      tail.pc \in {"first", "read"} /\ tail'.pc = "follow" /\ active # NoFile =>
        LET from == active[tail.position + 1]
        IN /\ active[1] = tail.measured => tail.size <= Len(active)
           /\ tail.steady /\ ReadNow # <<>> => from > tail.last
           /\ tail.steady /\ active[1] = tail.file => from = tail.last + 1
<1>1. TailInv => Ordered
  <2> SUFFICES ASSUME TailInv, tail.pc \in {"first", "read"}, active # <<>>
               PROVE  /\ active[1] = tail.measured => tail.size <= Len(active)
                      /\ tail.steady /\ ReadNow # <<>> => active[tail.position + 1] > tail.last
                      /\ tail.steady /\ active[1] = tail.file =>
                           active[tail.position + 1] = tail.last + 1
    BY DEF NoFile
  <2>1. /\ tail.position < tail.size
        /\ active[1] = tail.measured => tail.size <= Len(active)
        /\ tail.file <= tail.measured /\ tail.measured <= active[1] /\ tail.measured \in Nat
        /\ tail.steady => IF active[1] = tail.file THEN tail.position = tail.last - tail.file + 1
                          ELSE active[1] > tail.last
    BY FollowerNumbers DEF TailInv, FollowerInv
  <2>2. ReadNow # <<>> => tail.position + 1 \in 1..Len(active)
    BY WhatIsRead
  <2>3. ASSUME tail.steady, active[1] = tail.file
        PROVE  active[tail.position + 1] = tail.last + 1
    <3>1. tail.file = disk - Len(active) + 1 /\ tail.position = tail.last - tail.file + 1
      BY <2>1, <2>3, FollowerNumbers
    <3>2. tail.position + 1 \in 1..Len(active)
      <4>1. tail.measured = active[1]
        BY <2>1, <2>3, FollowerNumbers
      <4>q. QED BY <2>1, <4>1, FollowerNumbers
    <3>q. QED BY <3>1, <3>2, FollowerNumbers
  <2>4. ASSUME tail.steady, active[1] # tail.file, ReadNow # <<>>
        PROVE  active[tail.position + 1] > tail.last
    BY <2>1, <2>2, <2>4, FollowerNumbers
  <2>q. QED BY <2>1, <2>3, <2>4, FollowerNumbers
<1>2. TailInv /\ [LogNext]_logVars => [Ordered]_logVars
  BY <1>1
<1>3. LogSpec => [][Ordered]_logVars
  BY <1>2, TailInit, TailStep, PTL DEF LogSpec
<1>q. QED BY <1>3 DEF TailInOrder

-----------------------------------------------------------------------------
(* the files of the log                                                      *)

(* A run of units: its set, its ends.                                         *)
Runs == {Units(from, n) : from \in Nat, n \in Nat \ {0}}

LEMMA UnitsAre ==
  ASSUME NEW from \in Nat, NEW n \in Nat
  PROVE  /\ Units(from, n) \in Seq(Nat) /\ Len(Units(from, n)) = n
         /\ ToSet(Units(from, n)) = from + 1..from + n
         /\ n > 0 => Units(from, n)[1] = from + 1 /\ Last(Units(from, n)) = from + n
<1> DEFINE u == Units(from, n)
<1>1. u \in Seq(Nat) /\ Len(u) = n /\ DOMAIN u = 1..n /\ \A i \in 1..n : u[i] = from + i
  BY DEF Units
<1> HIDE DEF u
<1>2. ToSet(u) = from + 1..from + n
  <2>1. \A i \in 1..n : u[i] \in from + 1..from + n
    BY <1>1
  <2>2. ASSUME NEW v \in from + 1..from + n PROVE \E i \in 1..n : u[i] = v
    <3>1. v - from \in 1..n /\ u[v - from] = v
      BY <1>1
    <3>q. QED BY <3>1
  <2>3. ToSet(u) = {u[i] : i \in 1..n}
    BY <1>1 DEF ToSet
  <2>q. QED BY <2>1, <2>2, <2>3
<1>3. n > 0 => u[1] = from + 1 /\ Last(u) = from + n
  BY <1>1 DEF Last
<1>4. /\ u \in Seq(Nat) /\ Len(u) = n /\ ToSet(u) = from + 1..from + n
      /\ n > 0 => u[1] = from + 1 /\ Last(u) = from + n
  BY <1>1, <1>2, <1>3
<1>q. QED BY <1>4 DEF u

LEMMA RunsAre ==
  ASSUME NEW f \in Runs
  PROVE  /\ f \in Seq(Nat) /\ Len(f) \in Nat \ {0} /\ f # <<>> /\ f[1] \in Nat \ {0} /\ Last(f) \in Nat
         /\ f = Units(f[1] - 1, Len(f)) /\ Last(f) = f[1] - 1 + Len(f)
         /\ ToSet(f) = f[1]..Last(f)
<1>1. PICK from \in Nat, n \in Nat \ {0} : f = Units(from, n)
  BY DEF Runs
<1>2. /\ f \in Seq(Nat) /\ Len(f) = n /\ ToSet(f) = from + 1..from + n
      /\ f[1] = from + 1 /\ Last(f) = from + n
  <2>1. from \in Nat /\ n \in Nat /\ n > 0
    BY <1>1
  <2>q. QED BY <1>1, <2>1, UnitsAre
<1>3. f[1] - 1 = from /\ f # <<>>
  BY <1>1, <1>2
<1>q. QED BY <1>1, <1>2, <1>3

(* The files hold an end of the units up to `top', each unit in one of them.  *)
Stored(files) == UNION {ToSet(files[n]) : n \in DOMAIN files}
StoredUpTo(files, top) ==
  /\ IsFiniteSet(DOMAIN files)
  /\ \A n \in DOMAIN files : files[n] \in Runs
  /\ \A m, n \in DOMAIN files : m # n => ToSet(files[m]) \intersect ToSet(files[n]) = {}
  /\ \A u \in Stored(files) : u \in 1..top /\ u..top \subseteq Stored(files)

(* There is a name for every archive.                                         *)
LEMMA NameIsFree ==
  ASSUME NEW files, NEW d, IsFiniteSet(DOMAIN files)
  PROVE  AllocateArchive(files, d) \notin DOMAIN files
<1> DEFINE size == Cardinality(DOMAIN files)
           name(i) == [day |-> d, index |-> i]
           free == {i \in 0..size : name(i) \notin DOMAIN files}
<1>1. size \in Nat
  BY FS_CardinalityType
<1>2. free # {}
  <2>1. SUFFICES ASSUME \A i \in 0..size : name(i) \in DOMAIN files PROVE FALSE
    BY DEF free
  <2> DEFINE f == [i \in 0..size |-> name(i)]
  <2>2. f \in [0..size -> DOMAIN files]
    BY <2>1
  <2>3. IsFiniteSet(0..size) /\ Cardinality(0..size) = size + 1
    <3>1. 0 \in Int /\ size \in Int
      BY <1>1
    <3> HIDE DEF size
    <3>q. QED BY <1>1, <3>1, FS_Interval
  <2>4. Cardinality(DOMAIN files) < Cardinality(0..size)
    BY <1>1, <2>3
  <2> HIDE DEF f, size
  <2>5. PICK i, j \in 0..size : i # j /\ f[i] = f[j]
    BY <2>2, <2>3, <2>4, FS_PigeonHole
  <2>6. f[i] = name(i) /\ f[j] = name(j)
    BY <2>5 DEF f
  <2>7. name(i).index = i /\ name(j).index = j
    OBVIOUS
  <2>q. QED BY <2>5, <2>6, <2>7
<1>3. free \in SUBSET Nat
  BY <1>1
<1>4. PICK i \in free : \A j \in free : i <= j
  BY <1>2, <1>3, LeastOf
<1>5. \A k \in 0..i - 1 : name(k) \in DOMAIN files
  <2> TAKE k \in 0..i - 1
  <2>1. k \in 0..size /\ k < i
    BY <1>1, <1>4
  <2>q. QED BY <1>4, <2>1
<1>6. name(i) \in [day : {d}, index : 0..size] /\ name(i).index = i /\ name(i) \notin DOMAIN files
  BY <1>4
<1>7. \E n \in [day : {d}, index : 0..Cardinality(DOMAIN files)] :
         /\ n \notin DOMAIN files
         /\ \A k \in 0..(n.index - 1) : [day |-> d, index |-> k] \in DOMAIN files
  BY <1>5, <1>6
<1>q. QED BY <1>7 DEF AllocateArchive

(* A file that becomes an archive has the units behind those of the others.   *)
LEMMA ArchivedKeeps ==
  ASSUME NEW files, NEW top \in Nat, NEW len \in Nat \ {0}, NEW a, StoredUpTo(files, top),
         a \notin DOMAIN files
  PROVE  StoredUpTo(WithFile(files, a, Units(top, len)), top + len)
<1> DEFINE new == WithFile(files, a, Units(top, len))
<1>1. /\ DOMAIN new = DOMAIN files \cup {a} /\ new[a] = Units(top, len)
      /\ \A n \in DOMAIN files : new[n] = files[n]
  BY DEF WithFile
<1> HIDE DEF new
<1>2. Units(top, len) \in Runs /\ ToSet(new[a]) = top + 1..top + len
  BY <1>1, UnitsAre DEF Runs
<1>3. Stored(new) = Stored(files) \cup (top + 1..top + len)
  <2>1. ASSUME NEW u \in Stored(new) PROVE u \in Stored(files) \cup (top + 1..top + len)
    BY <1>1, <1>2, <2>1 DEF Stored
  <2>2. ASSUME NEW u \in Stored(files) PROVE u \in Stored(new)
    BY <1>1, <2>2 DEF Stored
  <2>3. ASSUME NEW u \in top + 1..top + len PROVE u \in Stored(new)
    BY <1>1, <1>2, <2>3 DEF Stored
  <2>q. QED BY <2>1, <2>2, <2>3
<1>4. \A u \in Stored(files) : u \in 1..top /\ u..top \subseteq Stored(files)
  BY DEF StoredUpTo
<1>5. \A n \in DOMAIN files : ToSet(new[n]) \intersect ToSet(new[a]) = {}
  <2>1. \A n \in DOMAIN files : ToSet(new[n]) \subseteq 1..top
    BY <1>1, <1>4 DEF Stored
  <2>2. (1..top) \intersect (top + 1..top + len) = {}
    OBVIOUS
  <2>q. QED BY <1>2, <2>1, <2>2
<1>6. \A m, n \in DOMAIN new : m # n => ToSet(new[m]) \intersect ToSet(new[n]) = {}
  BY <1>1, <1>5 DEF StoredUpTo
<1>7. \A n \in DOMAIN new : new[n] \in Runs
  BY <1>1, <1>2 DEF StoredUpTo
<1>8. IsFiniteSet(DOMAIN new)
  BY <1>1, FS_AddElement DEF StoredUpTo
<1>9. ASSUME NEW u \in Stored(new) PROVE u \in 1..top + len /\ u..top + len \subseteq Stored(new)
  <2>1. CASE u \in Stored(files)
    <3>1. u \in 1..top /\ u..top \subseteq Stored(files)
      BY <1>4, <2>1
    <3>2. \A v \in u..top + len : v \in u..top \/ v \in top + 1..top + len
      BY <3>1
    <3>q. QED BY <1>3, <3>1, <3>2
  <2>2. CASE u \in top + 1..top + len
    <3>1. \A v \in u..top + len : v \in top + 1..top + len
      BY <2>2
    <3>q. QED BY <1>3, <2>2, <3>1
  <2>q. QED BY <1>3, <2>1, <2>2
<1>10. StoredUpTo(new, top + len)
  BY <1>6, <1>7, <1>8, <1>9 DEF StoredUpTo
<1>q. QED BY <1>10 DEF new

(* The oldest file holds the first of the units that are stored.              *)
LEMMA DroppedKeeps ==
  ASSUME NEW files, NEW top \in Nat, NEW n \in DOMAIN files, StoredUpTo(files, top), Oldest(files, n)
  PROVE  StoredUpTo(Restrict(files, DOMAIN files \ {n}), top)
<1> DEFINE rest == Restrict(files, DOMAIN files \ {n})
<1>1. DOMAIN rest = DOMAIN files \ {n} /\ \A m \in DOMAIN files \ {n} : rest[m] = files[m]
  BY DEF Restrict
<1> HIDE DEF rest
<1>2. Stored(rest) \subseteq Stored(files)
  BY <1>1 DEF Stored
<1>3. \A m \in DOMAIN files : files[m] \in Runs
  BY DEF StoredUpTo
<1>4. ASSUME NEW u \in Stored(rest), NEW v \in u..top PROVE v \in Stored(rest)
  <2>1. PICK m \in DOMAIN files \ {n} : u \in ToSet(files[m])
    BY <1>1 DEF Stored
  <2>2. u \in 1..top /\ v \in Stored(files)
    BY <1>2, <1>4 DEF StoredUpTo
  <2>3. PICK k \in DOMAIN files : v \in ToSet(files[k])
    BY <2>2 DEF Stored
  <2>4. ASSUME k = n PROVE FALSE
    <3>1. /\ ToSet(files[m]) = files[m][1]..Last(files[m]) /\ ToSet(files[n]) = files[n][1]..Last(files[n])
          /\ files[m][1] \in Nat /\ Last(files[m]) \in Nat /\ files[n][1] \in Nat /\ Last(files[n]) \in Nat
      BY <1>3, RunsAre
    <3>2. Last(files[n]) <= Last(files[m])
      BY DEF Oldest
    <3>3. v \in ToSet(files[m])
      BY <1>4, <2>1, <2>2, <2>3, <2>4, <3>1, <3>2
    <3>q. QED BY <2>3, <2>4, <3>3 DEF StoredUpTo
  <2>q. QED BY <1>1, <2>3, <2>4 DEF Stored
<1>5. IsFiniteSet(DOMAIN rest)
  BY <1>1, FS_Subset DEF StoredUpTo
<1>6. \A u \in Stored(rest) : u \in 1..top
  BY <1>2 DEF StoredUpTo
<1>7. /\ \A m \in DOMAIN rest : rest[m] \in Runs
      /\ \A m, k \in DOMAIN rest : m # k => ToSet(rest[m]) \intersect ToSet(rest[k]) = {}
  BY <1>1 DEF StoredUpTo
<1>8. StoredUpTo(rest, top)
  BY <1>4, <1>5, <1>6, <1>7 DEF StoredUpTo
<1>q. QED BY <1>8 DEF rest

(* The archives end where the active file begins.  A stream knows the size of *)
(* its file, and a chunk is written to one that is not full.                  *)
FilesInv ==
  /\ StoredUpTo(archives, disk - Len(active))
  /\ stream \in [open : BOOLEAN, size : Nat]
  /\ stream.open => stream.size = Len(active)
  /\ pc \in {"rotating", "retaining"} => ~stream.open
  /\ pc = "retaining" => active = <<>> /\ ~settled
  /\ pc = "writing" => stream.open /\ Len(active) < MaxFileSize

Fits(f) == f = <<>> \/ \E size \in WriteSizes : Len(f) < MaxFileSize + size
Extra == IF pc = "retaining" THEN 1 ELSE 0
LimitsInv ==
  /\ crashes \in Nat
  /\ Fits(active) /\ \A n \in DOMAIN archives : Fits(archives[n])
  /\ settled => WithinLimits(archives)
  /\ Cardinality(DOMAIN archives) <= MaxFileCount + crashes + Extra

LogInv == TailInv /\ FilesInv /\ LimitsInv

LEMMA Appended ==
  ASSUME WriterInv, NEW n \in Nat, active' = active \o Units(disk, n), disk' = disk + n
  PROVE  /\ Len(active) \in Nat /\ Len(active') = Len(active) + n /\ disk' - Len(active') = disk - Len(active)
         /\ disk - Len(active) \in Nat /\ active \in Seq(Nat) /\ active' \in Seq(Nat)
<1>1. disk \in Nat /\ Len(active) \in Nat /\ Len(active) <= disk /\ active \in Seq(Nat)
  BY DEF WriterInv
<1>2. Len(active') = Len(active) + n /\ active' \in Seq(Nat)
  BY UnitsAdded
<1>q. QED BY <1>1, <1>2

(* The active file is the last units.                                         *)
LEMMA ActiveIsRun == ASSUME WriterInv PROVE active = Units(disk - Len(active), Len(active))
<1>1. /\ disk \in Nat /\ active \in Seq(Nat) /\ Len(active) \in Nat /\ Len(active) <= disk
      /\ \A i \in 1..Len(active) : active[i] = disk - Len(active) + i
  BY DEF WriterInv
<1>2. active = [i \in 1..Len(active) |-> active[i]]
  BY <1>1
<1>q. QED BY <1>1, <1>2 DEF Units

LEMMA NothingIsWithin == ASSUME NEW files, DOMAIN files = {} PROVE WithinLimits(files)
<1>1. TotalSize(files) = 0
  BY DEF TotalSize, MapThenSumSet, MapThenFoldSet
<1>2. Cardinality(DOMAIN files) = 0
  BY FS_EmptySet
<1>q. QED BY <1>1, <1>2, LogAssumption DEF WithinLimits

LEMMA LogInitInv == LogInit => LogInv
<1> SUFFICES ASSUME LogInit PROVE LogInv
  OBVIOUS
<1>1. TailInv
  BY TailInit
<1>2. /\ active = <<>> /\ archives = <<>> /\ disk = 0 /\ crashes = 0 /\ pc = "idle"
      /\ stream = [open |-> FALSE, size |-> 0] /\ settled = TRUE
  BY DEF LogInit, NoFile, Closed
<1>3. DOMAIN archives = {}
  BY <1>2
<1>4. StoredUpTo(archives, disk - Len(active))
  <2>1. IsFiniteSet(DOMAIN archives)
    BY <1>3, FS_EmptySet
  <2>q. QED BY <1>3, <2>1 DEF StoredUpTo, Stored
<1>5. FilesInv
  BY <1>2, <1>4 DEF FilesInv
<1>6. Cardinality(DOMAIN archives) = 0
  BY <1>3, FS_EmptySet
<1>7. WithinLimits(archives)
  BY <1>3, NothingIsWithin
<1>8. LimitsInv
  BY <1>2, <1>3, <1>6, <1>7, LogAssumption DEF LimitsInv, Fits, Extra
<1>q. QED BY <1>1, <1>5, <1>8 DEF LogInv

(* Steps that touch neither the files nor the stream, but may end a job or    *)
(* add one.                                                                   *)
LEMMA StepsAside ==
  ASSUME LogInv, UNCHANGED <<active, archives, disk, settled, crashes, stream, pc>>
  PROVE  FilesInv' /\ LimitsInv'
<1>1. FilesInv'
  BY DEF LogInv, FilesInv
<1>2. LimitsInv'
  BY DEF LogInv, LimitsInv, Extra, Fits
<1>q. QED BY <1>1, <1>2

LEMMA StartWriteLimits == ASSUME LogInv, StartWrite PROVE FilesInv' /\ LimitsInv'
<1>1. UNCHANGED <<active, archives, disk, settled, crashes>> /\ pc = "idle"
  BY DEF StartWrite
<1>2. active \in Seq(Nat) /\ Len(active) \in Nat
  BY DEF LogInv, TailInv, WriterInv
<1>3. Opened(stream).open /\ Opened(stream).size = Len(active) /\ Opened(stream) \in [open : BOOLEAN, size : Nat]
  BY <1>2 DEF Opened, LogInv, FilesInv
<1>4. \/ pc' = "rotating" /\ stream' = [open |-> FALSE, size |-> 0]
      \/ pc' = "writing" /\ stream' = Opened(stream) /\ Len(active) < MaxFileSize
  BY <1>2, <1>3, LogAssumption DEF StartWrite, Closed
<1>5. StoredUpTo(archives, disk - Len(active))'
  BY <1>1 DEF LogInv, FilesInv
<1>6. FilesInv'
  <2>1. Len(active') = Len(active)
    BY <1>1
  <2>2. CASE pc' = "rotating" /\ stream' = [open |-> FALSE, size |-> 0]
    BY <1>5, <2>2 DEF FilesInv
  <2>3. CASE pc' = "writing" /\ stream' = Opened(stream) /\ Len(active) < MaxFileSize
    <3> DEFINE s == Opened(stream)
    <3>1. s.open /\ s.size = Len(active) /\ s \in [open : BOOLEAN, size : Nat] /\ stream' = s
      BY <1>3, <2>3
    <3> HIDE DEF s
    <3>q. QED BY <1>5, <2>1, <2>3, <3>1 DEF FilesInv
  <2>q. QED BY <1>4, <2>2, <2>3
<1>7. LimitsInv'
  BY <1>1, <1>4 DEF LogInv, LimitsInv, Extra, Fits
<1>q. QED BY <1>6, <1>7

LEMMA RenameLimits == ASSUME LogInv, Rename PROVE FilesInv' /\ LimitsInv'
<1> DEFINE name == AllocateArchive(archives, day)
<1>1. /\ pc = "rotating" /\ pc' = "retaining" /\ active' = <<>> /\ settled' = FALSE
      /\ UNCHANGED <<stream, disk, crashes>>
      /\ archives' = IF active = <<>> THEN archives ELSE WithFile(archives, name, active)
  BY DEF Rename, NoFile
<1>2. /\ disk \in Nat /\ active \in Seq(Nat) /\ Len(active) \in Nat /\ Len(active) <= disk
      /\ active = Units(disk - Len(active), Len(active))
  BY ActiveIsRun DEF LogInv, TailInv, WriterInv
<1>3. /\ StoredUpTo(archives, disk - Len(active)) /\ ~stream.open /\ stream \in [open : BOOLEAN, size : Nat]
  BY <1>1 DEF LogInv, FilesInv
<1>4. IsFiniteSet(DOMAIN archives) /\ Cardinality(DOMAIN archives) \in Nat
  BY <1>3, FS_CardinalityType DEF StoredUpTo
<1>5. name \notin DOMAIN archives
  BY <1>4, NameIsFree
<1>6. Len(active') = 0
  BY <1>1
<1> HIDE DEF name
<1>7. StoredUpTo(archives', disk)
  <2>1. CASE active = <<>>
    <3>1. disk - Len(active) = disk
      BY <1>2, <2>1
    <3>q. QED BY <1>1, <1>3, <2>1, <3>1
  <2>2. CASE active # <<>>
    <3>1. Len(active) \in Nat \ {0} /\ disk - Len(active) \in Nat /\ disk - Len(active) + Len(active) = disk
      BY <1>2, <2>2
    <3>2. StoredUpTo(WithFile(archives, name, Units(disk - Len(active), Len(active))),
                     disk - Len(active) + Len(active))
      BY <1>3, <1>5, <3>1, ArchivedKeeps
    <3>q. QED BY <1>1, <1>2, <2>2, <3>1, <3>2
  <2>q. QED BY <2>1, <2>2
<1>8. FilesInv'
  <2>1. StoredUpTo(archives', disk' - Len(active'))
    BY <1>1, <1>2, <1>6, <1>7
  <2>q. QED BY <1>1, <1>3, <2>1 DEF FilesInv
<1>9. /\ \A n \in DOMAIN archives' : Fits(archives'[n])
      /\ Cardinality(DOMAIN archives') <= Cardinality(DOMAIN archives) + 1
  <2>1. CASE active = <<>>
    BY <1>1, <1>4, <2>1 DEF LogInv, LimitsInv
  <2>2. CASE active # <<>>
    <3>1. /\ DOMAIN archives' = DOMAIN archives \cup {name} /\ archives'[name] = active
          /\ \A n \in DOMAIN archives : archives'[n] = archives[n]
      BY <1>1, <1>5, <2>2 DEF WithFile
    <3>2. Cardinality(DOMAIN archives \cup {name}) = Cardinality(DOMAIN archives) + 1
      BY <1>4, <1>5, FS_AddElement
    <3>q. QED BY <1>4, <3>1, <3>2 DEF LogInv, LimitsInv
  <2>q. QED BY <2>1, <2>2
<1>10. LimitsInv'
  <2>1. Cardinality(DOMAIN archives) <= MaxFileCount + crashes
    BY <1>1, <1>4, LogAssumption DEF LogInv, LimitsInv, Extra
  <2>2. Cardinality(DOMAIN archives') \in Nat
    BY <1>7, FS_CardinalityType DEF StoredUpTo
  <2>3. Cardinality(DOMAIN archives') <= MaxFileCount + crashes' + Extra'
    BY <1>1, <1>4, <1>9, <2>1, <2>2, LogAssumption DEF LogInv, LimitsInv, Extra
  <2>q. QED BY <1>1, <1>9, <2>3 DEF LogInv, LimitsInv, Fits
<1>q. QED BY <1>8, <1>10

LEMMA DropLimits == ASSUME LogInv, DropOldest PROVE FilesInv' /\ LimitsInv'
<1>1. /\ pc = "retaining" /\ UNCHANGED <<active, pc, stream, disk, settled, crashes>>
      /\ \E n \in DOMAIN archives : /\ Oldest(archives, n)
                                    /\ archives' = Restrict(archives, DOMAIN archives \ {n})
  BY DEF DropOldest
<1>2. PICK n \in DOMAIN archives : /\ Oldest(archives, n)
                                   /\ archives' = Restrict(archives, DOMAIN archives \ {n})
  BY <1>1
<1>3. StoredUpTo(archives, disk - Len(active)) /\ ~settled /\ disk - Len(active) \in Nat
  BY <1>1 DEF LogInv, FilesInv, TailInv, WriterInv
<1>4. StoredUpTo(archives', disk - Len(active))
  BY <1>2, <1>3, DroppedKeeps
<1>5. StoredUpTo(archives', disk' - Len(active'))
  BY <1>1, <1>4
<1>6. FilesInv'
  BY <1>1, <1>5 DEF LogInv, FilesInv
<1>7. DOMAIN archives' = DOMAIN archives \ {n} /\ \A m \in DOMAIN archives' : archives'[m] = archives[m]
  BY <1>2 DEF Restrict
<1>8. Cardinality(DOMAIN archives') <= Cardinality(DOMAIN archives)
      /\ Cardinality(DOMAIN archives') \in Nat /\ Cardinality(DOMAIN archives) \in Nat
  <2>1. IsFiniteSet(DOMAIN archives) /\ DOMAIN archives' \subseteq DOMAIN archives
    BY <1>3, <1>7 DEF StoredUpTo
  <2>q. QED BY <2>1, FS_Subset, FS_CardinalityType
<1>9. Cardinality(DOMAIN archives') <= MaxFileCount + crashes' + Extra'
  BY <1>1, <1>8, LogAssumption DEF LogInv, LimitsInv, Extra
<1>10. LimitsInv'
  BY <1>1, <1>3, <1>7, <1>9 DEF LogInv, LimitsInv, Fits
<1>q. QED BY <1>6, <1>10

LEMMA ReopenLimits == ASSUME LogInv, Reopen PROVE FilesInv' /\ LimitsInv'
<1>1. /\ pc = "retaining" /\ pc' = "writing" /\ settled' = TRUE /\ stream' = [open |-> TRUE, size |-> 0]
      /\ UNCHANGED <<active, archives, disk, crashes>>
      /\ WithinLimits(archives) \/ DOMAIN archives = {}
  BY DEF Reopen
<1>2. active = <<>> /\ StoredUpTo(archives, disk - Len(active))
  BY <1>1 DEF LogInv, FilesInv
<1>3. FilesInv'
  <2>1. StoredUpTo(archives, disk - Len(active))'
    BY <1>1, <1>2
  <2>2. Len(active') = 0 /\ 0 < MaxFileSize
    BY <1>1, <1>2, LogAssumption
  <2>q. QED BY <1>1, <2>1, <2>2 DEF FilesInv
<1>4. WithinLimits(archives)
  BY <1>1, NothingIsWithin
<1>5. Cardinality(DOMAIN archives) \in Nat
  BY <1>2, FS_CardinalityType DEF StoredUpTo
<1>6. Cardinality(DOMAIN archives') <= MaxFileCount + crashes' + Extra'
  BY <1>1, <1>4, <1>5, LogAssumption DEF LogInv, LimitsInv, Extra, WithinLimits
<1>7. WithinLimits(archives)'
  BY <1>1, <1>4
<1>8. LimitsInv'
  BY <1>1, <1>6, <1>7 DEF LogInv, LimitsInv, Fits
<1>q. QED BY <1>3, <1>8

(* Units are added to a file that a stream is open for, a chunk of them or    *)
(* its beginning.                                                             *)
LEMMA AddedFits ==
  ASSUME LogInv, pc = "writing", NEW n \in 0..Head(queue),
         active' = active \o Units(disk, n), disk' = disk + n
  PROVE  Fits(active')
<1>1. Head(queue) \in WriteSizes /\ Head(queue) \in Nat /\ Len(active) < MaxFileSize
  BY LogAssumption DEF LogInv, TailInv, WriterInv, FilesInv
<1>2. Len(active') = Len(active) + n /\ Len(active) \in Nat
  BY <1>1, Appended DEF LogInv, TailInv
<1>3. Len(active') < MaxFileSize + Head(queue)
  BY <1>1, <1>2, LogAssumption
<1>q. QED BY <1>1, <1>3 DEF Fits

LEMMA FlushLimits == ASSUME LogInv, Flushed PROVE FilesInv' /\ LimitsInv'
<1>1. /\ pc = "writing" /\ pc' = "idle" /\ UNCHANGED <<archives, settled, crashes>>
      /\ active' = active \o Units(disk, Head(queue)) /\ disk' = disk + Head(queue)
      /\ stream' = [stream EXCEPT !.size = @ + Head(queue)]
  BY DEF Flushed
<1>2. Head(queue) \in Nat
  BY <1>1, LogAssumption DEF LogInv, TailInv, WriterInv
<1>3. /\ Len(active) \in Nat /\ Len(active') = Len(active) + Head(queue)
      /\ disk' - Len(active') = disk - Len(active)
  BY <1>1, <1>2, Appended DEF LogInv, TailInv
<1>4. stream \in [open : BOOLEAN, size : Nat] /\ (stream.open => stream.size = Len(active))
  BY DEF LogInv, FilesInv
<1>5. stream' \in [open : BOOLEAN, size : Nat] /\ (stream'.open => stream'.size = Len(active'))
  BY <1>1, <1>2, <1>3, <1>4
<1>6. StoredUpTo(archives', disk' - Len(active'))
  BY <1>1, <1>3 DEF LogInv, FilesInv
<1>7. FilesInv'
  BY <1>1, <1>5, <1>6 DEF FilesInv
<1>8. Fits(active')
  BY <1>1, <1>2, AddedFits
<1>9. LimitsInv'
  BY <1>1, <1>8 DEF LogInv, LimitsInv, Extra, Fits
<1>q. QED BY <1>7, <1>9

LEMMA CrashLimits == ASSUME LogInv, Crash PROVE FilesInv' /\ LimitsInv'
<1>1. PICK n \in 0..(IF pc = "writing" THEN Head(queue) ELSE 0) :
         active' = active \o Units(disk, n) /\ disk' = disk + n
  BY DEF Crash
<1>2. /\ pc' = "idle" /\ stream' = [open |-> FALSE, size |-> 0] /\ UNCHANGED <<archives, settled>>
      /\ crashes' = crashes + 1
  BY DEF Crash, Closed
<1>3. n \in Nat
  BY <1>1, LogAssumption DEF LogInv, TailInv, WriterInv
<1>4. /\ Len(active) \in Nat /\ Len(active') = Len(active) + n /\ active \in Seq(Nat) /\ active' \in Seq(Nat)
      /\ disk' - Len(active') = disk - Len(active)
  BY <1>1, <1>3, Appended DEF LogInv, TailInv
<1>5. StoredUpTo(archives', disk' - Len(active'))
  BY <1>2, <1>4 DEF LogInv, FilesInv
<1>6. FilesInv'
  BY <1>2, <1>5 DEF FilesInv
<1>7. Fits(active')
  <2>1. CASE pc = "writing"
    BY <1>1, <2>1, AddedFits
  <2>2. CASE pc # "writing"
    <3>1. Len(active') = Len(active)
      BY <1>1, <1>4, <2>2
    <3>2. active = <<>> => active' = <<>>
      BY <1>4, <3>1
    <3>q. QED BY <3>1, <3>2 DEF LogInv, LimitsInv, Fits
  <2>q. QED BY <2>1, <2>2
<1>8. Cardinality(DOMAIN archives) \in Nat
  BY <1>5, <1>2, FS_CardinalityType DEF StoredUpTo
<1>9. Cardinality(DOMAIN archives') <= MaxFileCount + crashes' + Extra'
  BY <1>2, <1>8, LogAssumption DEF LogInv, LimitsInv, Extra
<1>10. crashes' \in Nat
  BY <1>2 DEF LogInv, LimitsInv
<1>q. QED BY <1>2, <1>6, <1>7, <1>9, <1>10 DEF LogInv, LimitsInv, Fits

LEMMA FinishEndLimits == ASSUME LogInv, FinishEnd PROVE FilesInv' /\ LimitsInv'
<1>1. /\ pc = "idle" /\ stream' = [open |-> FALSE, size |-> 0]
      /\ UNCHANGED <<active, archives, disk, settled, crashes, pc>>
  BY DEF FinishEnd, Closed
<1>2. FilesInv'
  BY <1>1 DEF LogInv, FilesInv
<1>3. LimitsInv'
  BY <1>1 DEF LogInv, LimitsInv, Extra, Fits
<1>q. QED BY <1>2, <1>3

LEMMA LogStep == LogInv /\ [LogNext]_logVars => LogInv'
<1> SUFFICES ASSUME LogInv, [LogNext]_logVars PROVE LogInv'
  OBVIOUS
<1>1. TailInv'
  BY TailStep DEF LogInv
<1>2. CASE UNCHANGED logVars \/ (\E size \in WriteSizes : Write(size)) \/ CloseStream \/ NextDay
           \/ FollowerActs
  <2>1. UNCHANGED <<active, archives, disk, settled, crashes, stream, pc>>
    <3>1. FollowerActs => UNCHANGED writerVars
      BY DEF FollowerActs, FollowerStep, TailFound, TailFirstStat, TailStat, TailRead, TailOpenFails
    <3>q. QED BY <1>2, <3>1 DEF logVars, writerVars, Write, CloseStream, NextDay
  <2>q. QED BY <1>1, <2>1, StepsAside DEF LogInv
<1>3. CASE WriterStep \/ Crash
  <2>1. FilesInv' /\ LimitsInv'
    BY <1>3, StartWriteLimits, RenameLimits, DropLimits, ReopenLimits, FlushLimits, FinishEndLimits, CrashLimits
    DEF WriterStep
  <2>q. QED BY <1>1, <2>1 DEF LogInv
<1>q. QED BY <1>2, <1>3 DEF LogNext, FollowerActs

LEMMA LogInvariance == LogSpec => []LogInv
BY LogInitInv, LogStep, PTL DEF LogSpec

(* However often the writer rotates, is ended and dies, also between the      *)
(* calls of a rotation, the archives and the active file hold the last units  *)
(* that reached the disk, each once, in order and without a gap               *)
(* (utils/write/log.ts rotate, allocateArchivePath, enforceRetention).        *)
THEOREM LogIsKept == LogSpec => []KeptIsSuffix
<1>1. LogInv => KeptIsSuffix
  <2> SUFFICES ASSUME LogInv PROVE KeptIsSuffix
    OBVIOUS
  <2>1. /\ disk \in Nat /\ Len(active) \in Nat /\ Len(active) <= disk /\ disk - Len(active) \in Nat
        /\ active = Units(disk - Len(active), Len(active))
    BY ActiveIsRun DEF LogInv, TailInv, WriterInv
  <2>2. ToSet(active) = disk - Len(active) + 1..disk
    <3>1. ToSet(Units(disk - Len(active), Len(active))) = disk - Len(active) + 1..disk - Len(active) + Len(active)
      BY <2>1, UnitsAre
    <3>q. QED BY <2>1, <3>1
  <2>3. StoredUpTo(archives, disk - Len(active))
    BY DEF LogInv, FilesInv
  <2>4. Kept = Stored(archives) \cup ToSet(active)
    BY DEF Kept, Stored
  <2>5. \A n \in DOMAIN archives : archives[n] # <<>> /\ archives[n] = Units(archives[n][1] - 1, Len(archives[n]))
    BY <2>3, RunsAre DEF StoredUpTo
  <2>6. ASSUME NEW n \in DOMAIN archives PROVE ToSet(archives[n]) \intersect ToSet(active) = {}
    <3>1. ToSet(archives[n]) \subseteq 1..disk - Len(active)
      BY <2>3 DEF StoredUpTo, Stored
    <3>q. QED BY <2>1, <2>2, <3>1
  <2>7. ASSUME NEW u \in Kept PROVE u \in 1..disk /\ u..disk \subseteq Kept
    <3>1. CASE u \in Stored(archives)
      <4>1. u \in 1..disk - Len(active) /\ u..disk - Len(active) \subseteq Stored(archives)
        BY <2>3, <3>1 DEF StoredUpTo
      <4>2. \A v \in u..disk : v \in u..disk - Len(active) \/ v \in disk - Len(active) + 1..disk
        BY <2>1, <4>1
      <4>q. QED BY <2>1, <2>2, <2>4, <4>1, <4>2
    <3>2. CASE u \in ToSet(active)
      BY <2>1, <2>2, <2>4, <3>2
    <3>q. QED BY <2>4, <2>7, <3>1, <3>2
  <2>8. \A n \in DOMAIN archives :
          \A m \in DOMAIN archives \ {n} : ToSet(archives[n]) \intersect ToSet(archives[m]) = {}
    BY <2>3 DEF StoredUpTo
  <2>q. QED BY <2>1, <2>5, <2>6, <2>7, <2>8 DEF KeptIsSuffix
<1>q. QED BY <1>1, LogInvariance, PTL

(* No file exceeds maxFileSize by a whole chunk, not one either that a        *)
(* restarted writer goes on with; the archives are within both limits after   *)
(* every retention that came to its end, and each death adds one to their     *)
(* number at most (utils/write/log.ts ensureStreamAndMaybeRotate,             *)
(* enforceRetention).                                                         *)
THEOREM LogInLimits == LogSpec => []ArchivesInLimits
<1>1. LogInv => ArchivesInLimits
  BY DEF LogInv, LimitsInv, Fits, Extra, ArchivesInLimits
<1>q. QED BY <1>1, LogInvariance, PTL

-----------------------------------------------------------------------------
(* snapshots                                                                 *)

Snapshots == [number : 1..MaxSaves, whole : BOOLEAN]

(* A snapshot has one file.  The saves in the chain are later than all that   *)
(* have a file, but for the one that is being written.                        *)
SnapshotTypeOK ==
  /\ called \in 0..MaxSaves /\ confirmed \in 0..called /\ instant \in 0..MaxInstants
  /\ saving \in {"idle", "rolled", "opened", "written"}
  /\ latest \in Snapshots \cup {NoSnapshot}
  /\ DOMAIN rolled \subseteq RolledNames
  /\ rolled \in [DOMAIN rolled -> Snapshots]
  /\ jobs \subseteq 1..called

Numbered ==
  /\ \A j \in jobs : j > confirmed
  /\ \A n \in DOMAIN rolled : rolled[n].number <= called /\ rolled[n].number \notin jobs
  /\ \A m, n \in DOMAIN rolled : rolled[m].number = rolled[n].number => m = n
  /\ latest # NoSnapshot =>
       /\ latest.number <= called
       /\ latest.number \in jobs => saving \in {"opened", "written"}
       /\ \A n \in DOMAIN rolled : rolled[n].number # latest.number

OneSaving ==
  /\ saving # "idle" => jobs # {}
  /\ saving = "rolled" => latest = NoSnapshot
  /\ saving \in {"opened", "written"} => latest # NoSnapshot /\ latest.number = Min(jobs)
  /\ saving = "written" => latest.whole

SnapshotInv == SnapshotTypeOK /\ Numbered /\ OneSaving /\ LastSaveKept

LEMMA NoSnapshotApart == NoSnapshot \notin Snapshots
BY SnapshotAssumption DEF Snapshots

(* There is always a name that is free: as many as there may be snapshots.    *)
LEMMA FreeName ==
  ASSUME SnapshotTypeOK, Numbered
  PROVE  AllocateArchivePath \in RolledNames \ DOMAIN rolled
<1> DEFINE name(i) == [format |-> RollTimestampFmt, instant |-> instant, index |-> i]
           free == {i \in 0..MaxSaves : name(i) \notin DOMAIN rolled}
<1>1. free # {}
  <2>1. SUFFICES ASSUME \A i \in 0..MaxSaves : name(i) \in DOMAIN rolled PROVE FALSE
    BY DEF free
  <2> DEFINE f == [i \in 0..MaxSaves |-> rolled[name(i)].number]
  <2>2. f \in [0..MaxSaves -> 1..MaxSaves]
    BY <2>1 DEF SnapshotTypeOK, Snapshots
  <2>3. /\ IsFiniteSet(0..MaxSaves) /\ Cardinality(0..MaxSaves) = MaxSaves + 1
        /\ IsFiniteSet(1..MaxSaves) /\ Cardinality(1..MaxSaves) = MaxSaves
    <3>1. MaxSaves \in Nat
      BY SnapshotAssumption
    <3>2. 0 \in Int /\ 1 \in Int /\ MaxSaves \in Int
      BY <3>1
    <3>q. QED BY <3>1, <3>2, FS_Interval
  <2>4. Cardinality(1..MaxSaves) < Cardinality(0..MaxSaves)
    BY <2>3, SnapshotAssumption
  <2> HIDE DEF f
  <2>5. PICK i, j \in 0..MaxSaves : i # j /\ f[i] = f[j]
    BY <2>2, <2>3, <2>4, FS_PigeonHole
  <2>6. name(i) = name(j)
    BY <2>1, <2>5 DEF f, Numbered
  <2>q. QED BY <2>5, <2>6
<1>2. free \in SUBSET Nat
  BY SnapshotAssumption
<1>3. PICK i \in free : \A n \in free : i <= n
  BY <1>1, <1>2, LeastOf
<1>4. name(i) \in RolledNames
  BY <1>3 DEF SnapshotTypeOK, RolledNames
<1>5. \A k \in 0..i - 1 : [name(i) EXCEPT !.index = k] \in DOMAIN rolled
  <2> TAKE k \in 0..i - 1
  <2>1. k \in 0..MaxSaves /\ k < i
    BY <1>3, SnapshotAssumption
  <2>2. name(k) \in DOMAIN rolled
    BY <2>1, <1>3
  <2>q. QED BY <2>2
<1>6. \E n \in RolledNames :
         /\ n.instant = instant /\ n \notin DOMAIN rolled
         /\ \A k \in 0..n.index - 1 : [n EXCEPT !.index = k] \in DOMAIN rolled
  BY <1>3, <1>4, <1>5
<1>q. QED BY <1>6 DEF AllocateArchivePath

LEMMA SnapshotInitInv == SnapshotInit => SnapshotInv
BY SnapshotAssumption
DEF SnapshotInit, SnapshotInv, SnapshotTypeOK, Numbered, OneSaving, LastSaveKept

LEMMA CallSaveKeeps == SnapshotInv /\ CallSave => SnapshotInv'
<1> SUFFICES ASSUME SnapshotInv, CallSave PROVE SnapshotInv'
  OBVIOUS
<1> USE DEF SnapshotInv, CallSave
<1>1. SnapshotTypeOK'
  BY SnapshotAssumption DEF SnapshotTypeOK
<1>2. Numbered'
  BY SnapshotAssumption, NoSnapshotApart DEF SnapshotTypeOK, Numbered, Snapshots
<1>3. OneSaving'
  <2>1. jobs # {} => Min(jobs') = Min(jobs)
    <3>1. jobs \in SUBSET Nat /\ jobs' \in SUBSET Nat /\ jobs' # {}
      BY <1>1 DEF SnapshotTypeOK
    <3>2. ASSUME jobs # {} PROVE Min(jobs) = Min(jobs')
      <4>1. Min(jobs) \in jobs /\ \A n \in jobs : Min(jobs) <= n
        BY <3>1, <3>2, MinIsLeast
      <4>2. Min(jobs') \in jobs' /\ \A n \in jobs' : Min(jobs') <= n
        BY <3>1, MinIsLeast
      <4>3. \A n \in jobs : n < called + 1
        BY DEF SnapshotTypeOK
      <4>q. QED BY <3>1, <4>1, <4>2, <4>3 DEF SnapshotTypeOK
    <3>q. QED BY <3>2
  <2>q. QED BY <2>1 DEF OneSaving
<1>4. LastSaveKept'
  BY DEF LastSaveKept
<1>q. QED BY <1>1, <1>2, <1>3, <1>4

LEMMA RollExistingKeeps == SnapshotInv /\ RollExisting => SnapshotInv'
<1> SUFFICES ASSUME SnapshotInv, RollExisting PROVE SnapshotInv'
  OBVIOUS
<1> USE DEF SnapshotInv
<1>1. CASE latest = NoSnapshot
  BY <1>1 DEF RollExisting, SnapshotTypeOK, Numbered, OneSaving, LastSaveKept
<1>2. CASE latest # NoSnapshot
  <2> DEFINE name == AllocateArchivePath
  <2>1. name \in RolledNames /\ name \notin DOMAIN rolled
    BY FreeName
  <2> HIDE DEF name
  <2>2. /\ rolled' = [n \in DOMAIN rolled \cup {name} |-> IF n = name THEN latest ELSE rolled[n]]
        /\ latest' = NoSnapshot /\ saving' = "rolled" /\ jobs # {}
        /\ saving = "idle"
        /\ UNCHANGED <<jobs, called, confirmed, instant>>
    BY <1>2 DEF RollExisting, name
  <2>3. /\ DOMAIN rolled' = DOMAIN rolled \cup {name}
        /\ rolled'[name] = latest
        /\ \A n \in DOMAIN rolled : rolled'[n] = rolled[n]
    BY <2>1, <2>2
  <2>4. SnapshotTypeOK'
    BY <1>2, <2>1, <2>2, <2>3 DEF SnapshotTypeOK
  <2>5. Numbered'
    BY <1>2, <2>1, <2>2, <2>3 DEF SnapshotTypeOK, Numbered
  <2>6. OneSaving'
    BY <2>2 DEF OneSaving
  <2>7. LastSaveKept'
    BY <1>2, <2>1, <2>2, <2>3 DEF LastSaveKept
  <2>q. QED BY <2>4, <2>5, <2>6, <2>7
<1>q. QED BY <1>1, <1>2

LEMMA OpenFileKeeps == SnapshotInv /\ OpenFile => SnapshotInv'
<1> SUFFICES ASSUME SnapshotInv, OpenFile PROVE SnapshotInv'
  OBVIOUS
<1> USE DEF SnapshotInv, OpenFile
<1>1. jobs \in SUBSET Nat /\ jobs # {} /\ latest = NoSnapshot
  BY DEF SnapshotTypeOK, OneSaving
<1>2. Min(jobs) \in jobs
  BY <1>1, MinIsLeast
<1>3. SnapshotTypeOK'
  BY <1>2, SnapshotAssumption DEF SnapshotTypeOK, Snapshots
<1>4. Numbered' /\ OneSaving'
  <2>1. latest' # NoSnapshot /\ latest'.number = Min(jobs) /\ saving' = "opened" /\ jobs' = jobs
    <3>1. latest' \in Snapshots
      BY <1>2, SnapshotAssumption DEF SnapshotTypeOK, Snapshots
    <3>q. QED BY <3>1, NoSnapshotApart
  <2>2. Min(jobs) <= called /\ \A n \in DOMAIN rolled : rolled[n].number # Min(jobs)
    BY <1>2 DEF SnapshotTypeOK, Numbered
  <2>3. Numbered'
    BY <2>1, <2>2 DEF Numbered
  <2>q. QED BY <1>1, <2>1, <2>3 DEF OneSaving
<1>5. LastSaveKept'
  BY <1>1 DEF LastSaveKept
<1>q. QED BY <1>3, <1>4, <1>5

LEMMA WriteFileKeeps == SnapshotInv /\ WriteFile => SnapshotInv'
<1> SUFFICES ASSUME SnapshotInv, WriteFile PROVE SnapshotInv'
  OBVIOUS
<1> USE DEF SnapshotInv, WriteFile
<1>1. latest \in Snapshots /\ latest' \in Snapshots
  BY DEF SnapshotTypeOK, OneSaving, Snapshots
<1>2. latest'.number = latest.number /\ latest'.whole /\ latest' # NoSnapshot
  BY <1>1, NoSnapshotApart DEF Snapshots
<1>3. SnapshotTypeOK'
  BY <1>1 DEF SnapshotTypeOK
<1>4. Numbered' /\ OneSaving'
  BY <1>1, <1>2, NoSnapshotApart DEF SnapshotTypeOK, Numbered, OneSaving
<1>5. LastSaveKept'
  BY <1>2 DEF LastSaveKept
<1>q. QED BY <1>3, <1>4, <1>5

(* What is taken for a rolled file is named otherwise: none is removed.       *)
LEMMA SaveDoneKeeps == SnapshotInv /\ SaveDone => SnapshotInv'
<1> SUFFICES ASSUME SnapshotInv, SaveDone PROVE SnapshotInv'
  OBVIOUS
<1> USE DEF SnapshotInv
<1>1. Retained = DOMAIN rolled
  BY DEF Retained, Related, SnapshotTypeOK, RolledNames, RollTimestampFmt, ArchiveNamePattern
<1>2. rolled' = rolled
  BY <1>1 DEF SaveDone, SnapshotTypeOK
<1>3. jobs \in SUBSET Nat /\ jobs # {} /\ latest \in Snapshots /\ latest # NoSnapshot /\ latest.whole
  BY DEF SaveDone, SnapshotTypeOK, OneSaving
<1>4. latest.number \in jobs /\ \A j \in jobs : latest.number <= j
  BY <1>3, MinIsLeast DEF SaveDone, OneSaving
<1>5. SnapshotTypeOK'
  BY <1>2, <1>4 DEF SaveDone, SnapshotTypeOK
<1>6. Numbered'
  BY <1>2, <1>3, <1>4 DEF SaveDone, SnapshotTypeOK, Numbered
<1>7. OneSaving' /\ LastSaveKept'
  BY <1>3, <1>4 DEF SaveDone, OneSaving, LastSaveKept, SnapshotTypeOK
<1>q. QED BY <1>5, <1>6, <1>7

LEMMA FailKeeps == SnapshotInv /\ (SaveFails \/ WriterDies) => SnapshotInv'
<1> SUFFICES ASSUME SnapshotInv, SaveFails \/ WriterDies PROVE SnapshotInv'
  OBVIOUS
<1> USE DEF SnapshotInv
<1>1. saving' = "idle" /\ jobs' \subseteq jobs /\ UNCHANGED <<latest, rolled, called, confirmed, instant>>
  BY DEF SaveFails, WriterDies
<1>2. latest # NoSnapshot => latest.number \notin jobs'
  BY <1>1 DEF SaveFails, WriterDies, Numbered, OneSaving
<1>3. SnapshotTypeOK'
  BY <1>1 DEF SnapshotTypeOK
<1>4. Numbered' /\ OneSaving' /\ LastSaveKept'
  BY <1>1, <1>2 DEF Numbered, OneSaving, LastSaveKept
<1>q. QED BY <1>3, <1>4

LEMMA SnapshotStep == SnapshotInv /\ [SnapshotNext]_snapshotVars => SnapshotInv'
<1>1. SnapshotInv /\ UNCHANGED snapshotVars => SnapshotInv'
  BY DEF snapshotVars, SnapshotInv, SnapshotTypeOK, Numbered, OneSaving, LastSaveKept
<1>2. SnapshotInv /\ ClockTicks => SnapshotInv'
  BY SnapshotAssumption
  DEF ClockTicks, SnapshotInv, SnapshotTypeOK, Numbered, OneSaving, LastSaveKept
<1>q. QED
  BY <1>1, <1>2, CallSaveKeeps, RollExistingKeeps, OpenFileKeeps, WriteFileKeeps, SaveDoneKeeps,
     FailKeeps
  DEF SnapshotNext

(* Any number of saves, failing and dying as they may, leaves the last one    *)
(* that was confirmed, or a later one, whole in a file, whatever number of    *)
(* them comes within an instant: there is always a free name to roll to       *)
(* (utils/write/snapshot.ts:55-70, 132-155).                                  *)
THEOREM LastSaveIsKept == SnapshotSpec => []LastSaveKept
<1>1. SnapshotSpec => []SnapshotInv
  BY SnapshotInitInv, SnapshotStep, PTL DEF SnapshotSpec
<1>q. QED BY <1>1, PTL DEF SnapshotInv

-----------------------------------------------------------------------------
(* recorded requests                                                         *)

RecordTypeOK ==
  /\ DOMAIN records = RecordNames /\ records = [n \in RecordNames |-> records[n]]
  /\ changed \in BOOLEAN /\ unseen \in BOOLEAN
  /\ DOMAIN sending = Recorders /\ sending = [r \in Recorders |-> sending[r]]
  /\ \A r \in Recorders : sending[r] # NoRecord => sending[r].name \in RecordNames

(* Without an event on its way the list says what is in the files, but for    *)
(* those that no event tells of.                                              *)
ListedIsThere == ~changed /\ ~unseen => \A n \in RecordNames : listed[n] = Listing(n)

RecordInv == RecordTypeOK /\ ListedIsThere /\ FoundFits

LEMMA RecordInitInv == RecordInit => RecordInv
BY DEF RecordInit, RecordInv, RecordTypeOK, ListedIsThere, Listing, FoundFits

LEMMA WrittenKeeps ==
  ASSUME RecordTypeOK, NEW n \in RecordNames, NEW record, Written(n, record)
  PROVE  /\ DOMAIN records' = RecordNames /\ records' = [m \in RecordNames |-> records'[m]]
         /\ changed' \in BOOLEAN /\ unseen' \in BOOLEAN /\ (changed' \/ unseen')
BY DEF RecordTypeOK, Written, RecordNames

LEMMA SendKeeps ==
  ASSUME RecordInv, NEW r \in Recorders, NEW n \in RecordNames, NEW o, NEW d, Send(r, n, o, d)
  PROVE  RecordInv'
<1>1. \A x \in Recorders : sending'[x] = IF x = r THEN [request |-> MergeOptions(o, d), name |-> n]
                                        ELSE sending[x]
  BY DEF RecordInv, RecordTypeOK, Send
<1>2. DOMAIN sending' = Recorders /\ sending' = [x \in Recorders |-> sending'[x]]
  BY DEF RecordInv, RecordTypeOK, Send
<1>3. \A x \in Recorders : sending'[x] # NoRecord => sending'[x].name \in RecordNames
  BY <1>1 DEF RecordInv, RecordTypeOK
<1>q. QED
  BY <1>2, <1>3 DEF Send, RecordInv, RecordTypeOK, ListedIsThere, Listing, FoundFits

LEMMA AnswerKeeps ==
  ASSUME RecordInv, NEW r \in Recorders, Record(r) \/ RequestFails(r)
  PROVE  RecordInv'
<1>1. /\ DOMAIN sending' = Recorders /\ sending' = [x \in Recorders |-> sending'[x]]
      /\ \A x \in Recorders : sending'[x] # NoRecord => sending'[x].name \in RecordNames
  BY DEF RecordInv, RecordTypeOK, Record, RequestFails
<1>2. CASE Record(r)
  <2>1. sending[r].name \in RecordNames
    BY <1>2 DEF RecordInv, RecordTypeOK, Record
  <2>2. PICK record : Written(sending[r].name, record)
    BY <1>2 DEF Record
  <2>q. QED
    BY <1>1, <1>2, <2>1, <2>2, WrittenKeeps
    DEF Record, RecordInv, RecordTypeOK, ListedIsThere, FoundFits
<1>3. CASE RequestFails(r)
  BY <1>1, <1>3 DEF RequestFails, RecordInv, RecordTypeOK, ListedIsThere, Listing, FoundFits
<1>q. QED BY <1>2, <1>3

LEMMA EditKeeps ==
  ASSUME RecordInv, NEW n \in RecordNames, EditRecord(n)
  PROVE  RecordInv'
<1>1. PICK record : Written(n, record)
  BY DEF EditRecord
<1>q. QED
  BY <1>1, WrittenKeeps DEF EditRecord, RecordInv, RecordTypeOK, ListedIsThere, FoundFits

LEMMA ListKeeps == RecordInv /\ UpdateFileList => RecordInv'
BY DEF UpdateFileList, RecordInv, RecordTypeOK, ListedIsThere, Listing, FoundFits

LEMMA FindKeeps ==
  ASSUME RecordInv, NEW q, FindRecord(q)
  PROVE  RecordInv'
<1>1. PICK n \in RecordNames :
         /\ Matches(n, q)
         /\ found' = [request |-> q, settled |-> ~changed /\ ~unseen, record |-> records[n]]
  BY DEF FindRecord
<1>2. FoundFits'
  <2>1. SUFFICES ASSUME ~changed /\ ~unseen
                 PROVE  records[n] # NoRecord /\ ~records[n].ignore /\ records[n].request = q
    BY <1>1 DEF FoundFits
  <2>2. listed[n] = Listing(n) /\ listed[n] # NoRecord
    BY <2>1, <1>1 DEF RecordInv, ListedIsThere, Matches
  <2>3. records[n] # NoRecord
    BY <2>2 DEF Listing
  <2>4. listed[n].ignore = records[n].ignore /\ listed[n].request = records[n].request
    BY <2>2, <2>3 DEF Listing
  <2>q. QED BY <2>3, <2>4, <1>1 DEF Matches
<1>q. QED BY <1>2 DEF FindRecord, RecordInv, RecordTypeOK, ListedIsThere, Listing

LEMMA RecordStep == RecordInv /\ [RecordNext]_recordVars => RecordInv'
<1>1. RecordInv /\ UNCHANGED recordVars => RecordInv'
  BY DEF recordVars, RecordInv, RecordTypeOK, ListedIsThere, Listing, FoundFits
<1>q. QED BY <1>1, SendKeeps, AnswerKeeps, EditKeeps, ListKeeps, FindKeeps DEF RecordNext

(* Any number of recorders, files and edits: a finder whose list is up to     *)
(* date answers with a response that was recorded for the request it is       *)
(* asked (http-record/find.ts:122).                                           *)
THEOREM FoundAlwaysFits == RecordSpec => []FoundFits
<1>1. RecordSpec => []RecordInv
  BY RecordInitInv, RecordStep, PTL DEF RecordSpec
<1>q. QED BY <1>1, PTL DEF RecordInv

-----------------------------------------------------------------------------
(* http over tcp                                                             *)

LEMMA PrefixOf ==
  ASSUME NEW S, NEW s \in Seq(S), NEW n \in 0..Len(s)
  PROVE  /\ SubSeq(s, 1, n) \in Seq(S) /\ Len(SubSeq(s, 1, n)) = n
         /\ \A k \in 1..n : SubSeq(s, 1, n)[k] = s[k]
OBVIOUS
LEMMA SuffixOf ==
  ASSUME NEW S, NEW s \in Seq(S), NEW m \in 0..Len(s)
  PROVE  /\ SubSeq(s, m + 1, Len(s)) \in Seq(S) /\ Len(SubSeq(s, m + 1, Len(s))) = Len(s) - m
         /\ \A k \in 1..Len(s) - m : SubSeq(s, m + 1, Len(s))[k] = s[m + k]
OBVIOUS
LEMMA ConcatSplit ==
  ASSUME NEW S, NEW s \in Seq(S), NEW t \in Seq(S)
  PROVE  /\ SubSeq(s \o t, 1, Len(s)) = s
         /\ SubSeq(s \o t, Len(s) + 1, Len(s \o t)) = t
<1>1. /\ s \o t \in Seq(S) /\ Len(s \o t) = Len(s) + Len(t) /\ Len(s) \in Nat /\ Len(t) \in Nat
      /\ \A i \in 1..Len(s) + Len(t) : (s \o t)[i] = IF i <= Len(s) THEN s[i] ELSE t[i - Len(s)]
  BY ConcatProperties, LenProperties
<1>2. SubSeq(s \o t, 1, Len(s)) = s
  <2>1. Len(s) \in 0..Len(s \o t)
    BY <1>1
  <2>2. /\ SubSeq(s \o t, 1, Len(s)) \in Seq(S) /\ Len(SubSeq(s \o t, 1, Len(s))) = Len(s)
        /\ \A k \in 1..Len(s) : SubSeq(s \o t, 1, Len(s))[k] = (s \o t)[k]
    BY <1>1, <2>1, PrefixOf
  <2>q. QED BY <1>1, <2>2, SeqEqual
<1>3. SubSeq(s \o t, Len(s) + 1, Len(s \o t)) = t
  <2>1. Len(s) \in 0..Len(s \o t)
    BY <1>1
  <2>2. /\ SubSeq(s \o t, Len(s) + 1, Len(s \o t)) \in Seq(S)
        /\ Len(SubSeq(s \o t, Len(s) + 1, Len(s \o t))) = Len(t)
        /\ \A k \in 1..Len(t) : SubSeq(s \o t, Len(s) + 1, Len(s \o t))[k] = (s \o t)[Len(s) + k]
    BY <1>1, <2>1, SuffixOf
  <2>3. \A k \in 1..Len(t) : (s \o t)[Len(s) + k] = t[k]
    BY <1>1
  <2>q. QED BY <2>2, <2>3, SeqEqual
<1>q. QED BY <1>2, <1>3
LEMMA PartsOf ==
  ASSUME NEW S, NEW s \in Seq(S), NEW n \in 0..Len(s)
  PROVE  SubSeq(s, 1, n) \o SubSeq(s, n + 1, Len(s)) = s
<1>1. 1 \in 1..Len(s)+1 /\ n \in 1 - 1..Len(s) /\ Len(s) \in n..Len(s)
  OBVIOUS
<1>2. SubSeq(s, 1, n) \o SubSeq(s, n + 1, Len(s)) = SubSeq(s, 1, Len(s))
  BY <1>1, ConcatAdjacentSubSeq
<1>q. QED BY <1>2, SubSeqFull

Bytes == BodyBytes \cup {"CR", "LF", "first", "content-length", "200"}
Streams == Seq(Bytes)

Plain == request.valid /\ request.mode = "length" /\ request.declared = Len(request.body)

FirstLine == <<"first", "CR", "LF">>
LengthLine == <<"content-length", "CR", "LF">>
Full == <<"200">> \o CRLF \o CRLF \o request.body

(* What has come of the body when the header part has: all or nothing.        *)
Arrived(t) ==
  \/ t = <<>> /\ writes = PiecesOf(request)
  \/ t = request.body /\ writes = <<>>

Transit ==
  /\ phase = "first" =>
       /\ headers = {}
       /\ \/ writes = WritesOf(request) /\ wire = <<>>
          \/ \E t \in Streams : Arrived(t) /\ wire = FirstLine \o (LengthLine \o (CRLF \o t))
  /\ phase = "headers" =>
       \E t \in Streams :
         /\ Arrived(t)
         /\ \/ headers = {} /\ wire = LengthLine \o (CRLF \o t)
            \/ headers = {"content-length"} /\ wire = CRLF \o t
  /\ phase = "body" =>
       /\ headers = {"content-length"} /\ received \in Streams /\ wire \in Streams
       /\ count = Len(received) /\ count < Len(request.body)
       /\ \/ wire = <<>> /\ received = <<>> /\ writes = PiecesOf(request)
          \/ writes = <<>> /\ request.body = received \o wire
  /\ phase \in {"first", "headers"} => received = <<>> /\ count = 0

Answering ==
  /\ got \in Streams /\ answer \in Streams
  /\ answered => phase = "done" /\ (result = <<>> => got \o answer = Full)
  /\ ~answered => phase # "done" /\ answer = <<>> /\ got = <<>> /\ result = <<>>
  /\ result # <<>> => result = <<Full>>

EchoInv ==
  /\ request \in HttpRequests
  /\ Plain => phase \in {"first", "headers", "body", "done"} /\ Transit /\ Answering

LEMMA BodyIsStream == ASSUME request \in HttpRequests PROVE request.body \in Streams
<1>1. request.body \in Bodies
  BY DEF HttpRequests
<1>2. PICK n \in 0..MaxBody : request.body \in [1..n -> BodyBytes]
  BY <1>1 DEF Bodies
<1>q. QED BY <1>2, BodyAssumption DEF Streams, Bytes

LEMMA CrlfIsStream == CRLF \in Streams /\ Len(CRLF) = 2 /\ CRLF[1] = "CR" /\ CRLF[2] = "LF"
BY DEF CRLF, Streams, Bytes

LEMMA FirstHead == <<"first">> \o CRLF \o <<"content-length">> \o CRLF \o CRLF
                     = FirstLine \o (LengthLine \o CRLF)
BY DEF CRLF, FirstLine, LengthLine

LEMMA PairAt ==
  ASSUME NEW S, NEW s \in Seq(S), NEW i \in 2..Len(s)
  PROVE  SubSeq(s, i - 1, i) = <<s[i - 1], s[i]>>
<1>1. s[i - 1] \in S /\ s[i] \in S
  OBVIOUS
<1>2. /\ SubSeq(s, i - 1, i) \in Seq(S) /\ Len(SubSeq(s, i - 1, i)) = 2
      /\ SubSeq(s, i - 1, i)[1] = s[i - 1] /\ SubSeq(s, i - 1, i)[2] = s[i]
  OBVIOUS
<1>3. /\ <<s[i - 1], s[i]>> \in Seq(S) /\ Len(<<s[i - 1], s[i]>>) = 2
      /\ <<s[i - 1], s[i]>>[1] = s[i - 1] /\ <<s[i - 1], s[i]>>[2] = s[i]
  BY <1>1
<1> DEFINE p == SubSeq(s, i - 1, i)
           q == <<s[i - 1], s[i]>>
<1>4. p \in Seq(S) /\ q \in Seq(S) /\ Len(p) = Len(q) /\ Len(p) = 2
  BY <1>2, <1>3
<1>5. \A k \in 1..Len(p) : p[k] = q[k]
  <2> TAKE k \in 1..Len(p)
  <2>1. k = 1 \/ k = 2
    BY <1>4
  <2>q. QED BY <2>1, <1>2, <1>3
<1> HIDE DEF p, q
<1>6. p = q
  BY <1>4, <1>5, SeqEqual
<1>q. QED BY <1>6 DEF p, q

LEMMA OneAt ==
  ASSUME NEW S, NEW s \in Seq(S), 1 <= Len(s)
  PROVE  SubSeq(s, 1, 1) = <<s[1]>>
<1>1. s[1] \in S
  OBVIOUS
<1>2. SubSeq(s, 1, 1) \in Seq(S) /\ Len(SubSeq(s, 1, 1)) = 1 /\ SubSeq(s, 1, 1)[1] = s[1]
  OBVIOUS
<1>3. <<s[1]>> \in Seq(S) /\ Len(<<s[1]>>) = 1 /\ <<s[1]>>[1] = s[1]
  BY <1>1
<1> DEFINE p == SubSeq(s, 1, 1)
           q == <<s[1]>>
<1>4. p \in Seq(S) /\ q \in Seq(S) /\ Len(p) = Len(q) /\ Len(p) = 1
  BY <1>2, <1>3
<1>5. \A k \in 1..Len(p) : p[k] = q[k]
  BY <1>2, <1>3, <1>4
<1> HIDE DEF p, q
<1>6. p = q
  BY <1>4, <1>5, SeqEqual
<1>q. QED BY <1>6 DEF p, q

LEMMA LineEndsAre ==
  ASSUME wire \in Streams
  PROVE  LineEnds = {i \in 2..Len(wire) : wire[i - 1] = "CR" /\ wire[i] = "LF"}
<1> SUFFICES ASSUME NEW i \in 2..Len(wire)
             PROVE  SubSeq(wire, i - 1, i) = CRLF <=> wire[i - 1] = "CR" /\ wire[i] = "LF"
  BY DEF LineEnds
<1>1. SubSeq(wire, i - 1, i) = <<wire[i - 1], wire[i]>>
  BY PairAt DEF Streams
<1>q. QED BY <1>1 DEF CRLF

(* The bytes of a line and those behind it.                                   *)
LEMMA LineRead ==
  ASSUME NEW a \in Bytes, a # "CR", NEW t \in Streams, wire = <<a, "CR", "LF">> \o t,
         NEW i \in LineEnds, ReadsLine(i)
  PROVE  Line(i) = <<a>> /\ wire' = t
<1> DEFINE l == <<a, "CR", "LF">>
<1>1. l \in Streams /\ Len(l) = 3 /\ l[1] = a /\ l[2] = "CR" /\ l[3] = "LF"
  BY DEF Streams, Bytes
<1> HIDE DEF l
<1>2. /\ wire \in Streams /\ Len(wire) = 3 + Len(t) /\ Len(t) \in Nat
      /\ \A j \in 1..3 + Len(t) : wire[j] = IF j <= 3 THEN l[j] ELSE t[j - 3]
  <2>1. wire = l \o t
    BY DEF l
  <2>q. QED BY <1>1, <2>1, ConcatProperties, LenProperties DEF Streams
<1>3. 3 \in LineEnds /\ 2 \notin LineEnds
  <2>1. LineEnds = {j \in 2..Len(wire) : wire[j - 1] = "CR" /\ wire[j] = "LF"}
    BY <1>2, LineEndsAre
  <2>2. wire[1] = a /\ wire[2] = "CR" /\ wire[3] = "LF"
    BY <1>1, <1>2
  <2>q. QED BY <1>2, <2>1, <2>2
<1>4. i = 3
  BY <1>3 DEF LineEnds, ReadsLine
<1>5. Line(i) = <<a>>
  <2>1. SubSeq(wire, 1, 1) = <<wire[1]>>
    <3>1. wire \in Seq(Bytes) /\ 1 <= Len(wire)
      BY <1>2 DEF Streams
    <3>q. QED BY <3>1, OneAt
  <2>q. QED BY <1>1, <1>2, <1>4, <2>1 DEF Line
<1>6. wire' = t
  <2>1. SubSeq(wire, Len(l) + 1, Len(wire)) = t
    BY <1>1, ConcatSplit DEF Streams, l
  <2>q. QED BY <1>1, <1>4, <2>1 DEF ReadsLine
<1>q. QED BY <1>5, <1>6

(* An empty line.                                                             *)
LEMMA EmptyLineRead ==
  ASSUME NEW t \in Streams, wire = CRLF \o t, NEW i \in LineEnds, ReadsLine(i)
  PROVE  Line(i) = <<>> /\ wire' = t
<1>1. /\ wire \in Streams /\ Len(wire) = 2 + Len(t) /\ Len(t) \in Nat
      /\ \A j \in 1..2 + Len(t) : wire[j] = IF j <= 2 THEN CRLF[j] ELSE t[j - 2]
  <2> DEFINE l == CRLF
  <2>1. l \in Seq(Bytes) /\ Len(l) = 2 /\ t \in Seq(Bytes) /\ wire = l \o t
    BY CrlfIsStream DEF Streams
  <2> HIDE DEF l
  <2>2. /\ wire \in Seq(Bytes) /\ Len(wire) = 2 + Len(t) /\ Len(t) \in Nat
        /\ \A j \in 1..2 + Len(t) : wire[j] = IF j <= 2 THEN l[j] ELSE t[j - 2]
    <3>1. /\ l \o t \in Seq(Bytes) /\ Len(l \o t) = Len(l) + Len(t)
          /\ \A j \in 1..Len(l) + Len(t) : (l \o t)[j] = IF j <= Len(l) THEN l[j] ELSE t[j - Len(l)]
      BY <2>1, ConcatProperties
    <3>2. Len(t) \in Nat
      BY LenProperties, <2>1
    <3>q. QED BY <2>1, <3>1, <3>2
  <2>q. QED BY <2>2 DEF l, Streams
<1>2. 2 \in LineEnds
  <2>1. LineEnds = {j \in 2..Len(wire) : wire[j - 1] = "CR" /\ wire[j] = "LF"}
    BY <1>1, LineEndsAre
  <2>2. wire[1] = "CR" /\ wire[2] = "LF"
    BY <1>1, CrlfIsStream
  <2>q. QED BY <1>1, <2>1, <2>2
<1>3. i = 2
  BY <1>2 DEF LineEnds, ReadsLine
<1>4. Line(i) = <<>>
  BY <1>3, SubSeqEmpty DEF Line
<1>5. wire' = t
  <2>1. SubSeq(wire, Len(CRLF) + 1, Len(wire)) = t
    BY CrlfIsStream, ConcatSplit DEF Streams
  <2>q. QED BY CrlfIsStream, <1>3, <2>1 DEF ReadsLine
<1>q. QED BY <1>4, <1>5

LEMMA ConsParts ==
  ASSUME NEW S, NEW x \in S, NEW s \in Seq(S)
  PROVE  <<x>> \o s # <<>> /\ Head(<<x>> \o s) = x /\ Tail(<<x>> \o s) = s
<1> DEFINE p == <<x>> \o s
<1>1. <<x>> \in Seq(S) /\ Len(<<x>>) = 1 /\ <<x>>[1] = x
  OBVIOUS
<1>2. /\ p \in Seq(S) /\ Len(p) = 1 + Len(s) /\ Len(s) \in Nat
      /\ \A i \in 1..1 + Len(s) : p[i] = IF i <= 1 THEN <<x>>[i] ELSE s[i - 1]
  BY <1>1, ConcatProperties, LenProperties
<1> HIDE DEF p
<1>3. p # <<>> /\ Head(p) = x
  BY <1>1, <1>2
<1>4. Tail(p) = s
  <2>1. Tail(p) \in Seq(S) /\ Len(Tail(p)) = Len(s) /\ \A i \in 1..Len(s) : Tail(p)[i] = p[i + 1]
    BY <1>2, <1>3, HeadTailProperties
  <2>2. \A i \in 1..Len(s) : p[i + 1] = s[i]
    BY <1>2
  <2>q. QED BY <2>1, <2>2, SeqEqual
<1>q. QED BY <1>3, <1>4 DEF p

LEMMA OneWrite ==
  ASSUME NEW S, NEW x \in S
  PROVE  <<x>> \in Seq(S) /\ Head(<<x>>) = x /\ Tail(<<x>>) = <<>>
OBVIOUS

LEMMA LinesAreStreams == FirstLine \in Streams /\ LengthLine \in Streams /\ <<>> \in Streams
BY DEF FirstLine, LengthLine, Streams, Bytes

LEMMA Joined ==
  ASSUME NEW s \in Streams, NEW t \in Streams
  PROVE  s \o t \in Streams /\ s \o <<>> = s /\ <<>> \o s = s
BY ConcatProperties, ConcatEmptySeq DEF Streams

(* A body behind a header part is one behind its last line.                   *)
LEMMA BodyBehind ==
  ASSUME NEW b \in Streams
  PROVE  /\ (FirstLine \o (LengthLine \o CRLF)) \o b = FirstLine \o (LengthLine \o (CRLF \o b))
         /\ (LengthLine \o CRLF) \o b = LengthLine \o (CRLF \o b)
         /\ CRLF \o <<>> = CRLF
<1>1. (LengthLine \o CRLF) \o b = LengthLine \o (CRLF \o b)
  BY LinesAreStreams, CrlfIsStream, ConcatAssociative DEF Streams
<1>2. LengthLine \o CRLF \in Streams
  BY LinesAreStreams, CrlfIsStream, Joined
<1>3. (FirstLine \o (LengthLine \o CRLF)) \o b = FirstLine \o ((LengthLine \o CRLF) \o b)
  <2> DEFINE l == LengthLine \o CRLF
  <2>1. FirstLine \in Streams /\ l \in Streams
    BY <1>2, LinesAreStreams
  <2> HIDE DEF l
  <2>2. (FirstLine \o l) \o b = FirstLine \o (l \o b)
    BY <2>1, ConcatAssociative DEF Streams
  <2>q. QED BY <2>2 DEF l
<1>q. QED BY <1>1, <1>3, CrlfIsStream, Joined

LEMMA PlainWrites ==
  ASSUME request \in HttpRequests, Plain
  PROVE  /\ request.body = <<>> => PiecesOf(request) = <<>>
         /\ request.body # <<>> => PiecesOf(request) = <<request.body>>
         /\ WritesOf(request) = <<FirstLine \o (LengthLine \o CRLF)>> \o PiecesOf(request)
BY FirstHead DEF Plain, PiecesOf, WritesOf, HeaderLine

(* What is written, in either of the two writes.                              *)
LEMMA WriteAdds ==
  ASSUME request \in HttpRequests, Plain, ClientWrites
  PROVE  /\ writes = WritesOf(request) =>
              /\ wire' = wire \o (FirstLine \o (LengthLine \o CRLF))
              /\ writes' = PiecesOf(request)
         /\ writes = PiecesOf(request) => wire' = wire \o request.body /\ writes' = <<>>
<1>1. request.body \in Streams
  BY BodyIsStream
<1>2. FirstLine \o (LengthLine \o CRLF) \in Streams
  BY LinesAreStreams, CrlfIsStream, Joined
<1>3. PiecesOf(request) \in Seq(Streams)
  BY <1>1, OneWrite, PlainWrites, EmptySeq
<1>4. ASSUME writes = WritesOf(request)
      PROVE  /\ wire' = wire \o (FirstLine \o (LengthLine \o CRLF))
             /\ writes' = PiecesOf(request)
  <2> DEFINE h == FirstLine \o (LengthLine \o CRLF)
             q == PiecesOf(request)
  <2>1. h \in Streams /\ q \in Seq(Streams) /\ writes = <<h>> \o q
    BY <1>2, <1>3, <1>4, PlainWrites
  <2> HIDE DEF h, q
  <2>2. Head(writes) = h /\ Tail(writes) = q
    BY <2>1, ConsParts
  <2>q. QED BY <2>2 DEF ClientWrites, h, q
<1>5. ASSUME writes = PiecesOf(request)
      PROVE  wire' = wire \o request.body /\ writes' = <<>>
  <2>1. writes = <<request.body>>
    BY <1>5, PlainWrites DEF ClientWrites
  <2>q. QED BY <1>1, <2>1, OneWrite DEF ClientWrites
<1>q. QED BY <1>4, <1>5

LEMMA WriteKeeps == ASSUME EchoInv, ClientWrites PROVE EchoInv'
<1>1. request' = request /\ Plain' = Plain /\ PiecesOf(request)' = PiecesOf(request)
  BY DEF ClientWrites, Plain
<1> SUFFICES ASSUME Plain PROVE (Transit /\ Answering)'
  BY <1>1 DEF EchoInv, ClientWrites
<1> DEFINE b == request.body
<1>2. request \in HttpRequests /\ b \in Streams /\ Transit /\ Answering
  BY BodyIsStream DEF EchoInv
<1>3. Answering'
  BY <1>1, <1>2 DEF Answering, ClientWrites, Full
<1>4. UNCHANGED <<request, phase, headers, count, received>> /\ writes # <<>>
  BY DEF ClientWrites
<1>5. ASSUME NEW t \in Streams, Arrived(t)
      PROVE  /\ t = <<>> /\ writes' = <<>> /\ wire' = wire \o b /\ Arrived(b)'
             /\ \A u \in Streams : wire = u \o t => wire' = u \o b
  <2>1. t = <<>> /\ writes = PiecesOf(request)
    BY <1>4, <1>5 DEF Arrived
  <2>2. wire' = wire \o b /\ writes' = <<>>
    BY <1>2, <2>1, WriteAdds
  <2>q. QED BY <1>1, <2>1, <2>2, Joined DEF Arrived
<1>6. (phase = "first" =>
          /\ headers = {}
          /\ \E t \in Streams : Arrived(t) /\ wire = FirstLine \o (LengthLine \o (CRLF \o t)))'
  <2> SUFFICES ASSUME phase = "first"
               PROVE  \E t \in Streams :
                        Arrived(t)' /\ wire' = FirstLine \o (LengthLine \o (CRLF \o t))
    BY <1>2, <1>4 DEF Transit
  <2>1. CASE writes = WritesOf(request) /\ wire = <<>>
    <3>1. wire' = <<>> \o (FirstLine \o (LengthLine \o CRLF)) /\ writes' = PiecesOf(request)
      BY <1>2, <2>1, WriteAdds
    <3>2. wire' = FirstLine \o (LengthLine \o (CRLF \o <<>>))
      BY <3>1, LinesAreStreams, CrlfIsStream, Joined
    <3>q. QED BY <1>1, <3>1, <3>2, LinesAreStreams DEF Arrived
  <2>2. CASE \E t \in Streams : Arrived(t) /\ wire = FirstLine \o (LengthLine \o (CRLF \o t))
    <3>1. PICK t \in Streams : Arrived(t) /\ wire = FirstLine \o (LengthLine \o (CRLF \o t))
      BY <2>2
    <3>2. t = <<>> /\ wire' = wire \o b /\ writes' = <<>>
      BY <1>5, <3>1
    <3>3. wire' = FirstLine \o (LengthLine \o (CRLF \o b))
      BY <1>2, <3>1, <3>2, BodyBehind
    <3>q. QED BY <1>1, <1>2, <3>2, <3>3 DEF Arrived
  <2>q. QED BY <1>2, <2>1, <2>2 DEF Transit
<1>7. (phase = "headers" =>
         \E t \in Streams :
           /\ Arrived(t)
           /\ \/ headers = {} /\ wire = LengthLine \o (CRLF \o t)
              \/ headers = {"content-length"} /\ wire = CRLF \o t)'
  <2> SUFFICES ASSUME phase = "headers"
               PROVE  /\ Arrived(b)'
                      /\ \/ headers = {} /\ wire' = LengthLine \o (CRLF \o b)
                         \/ headers = {"content-length"} /\ wire' = CRLF \o b
    BY <1>2, <1>4
  <2>1. PICK t \in Streams :
           /\ Arrived(t)
           /\ \/ headers = {} /\ wire = LengthLine \o (CRLF \o t)
              \/ headers = {"content-length"} /\ wire = CRLF \o t
    BY <1>2 DEF Transit
  <2>2. t = <<>> /\ wire' = wire \o b /\ Arrived(b)'
    BY <1>5, <2>1
  <2>3. (LengthLine \o (CRLF \o <<>>)) \o b = LengthLine \o (CRLF \o b)
        /\ (CRLF \o <<>>) \o b = CRLF \o b
    BY <1>2, BodyBehind
  <2>q. QED BY <2>1, <2>2, <2>3
<1>8. (phase = "body" =>
         /\ headers = {"content-length"} /\ received \in Streams /\ wire \in Streams
         /\ count = Len(received) /\ count < Len(request.body)
         /\ writes = <<>> /\ request.body = received \o wire)'
  <2> SUFFICES ASSUME phase = "body"
               PROVE  wire' = b /\ writes' = <<>> /\ b = received \o b
    BY <1>1, <1>2, <1>4 DEF Transit
  <2>1. wire = <<>> /\ received = <<>> /\ writes = PiecesOf(request)
    BY <1>2, <1>4 DEF Transit
  <2>q. QED BY <1>2, <2>1, WriteAdds, Joined
<1>9. Transit'
  <2>1. (phase \in {"first", "headers"} => received = <<>> /\ count = 0)'
    BY <1>2, <1>4 DEF Transit
  <2>q. QED BY <1>6, <1>7, <1>8, <2>1 DEF Transit
<1>q. QED BY <1>3, <1>9

LEMMA FirstLineKeeps == ASSUME EchoInv, ParseFirstLine PROVE EchoInv'
<1>1. request' = request /\ Plain' = Plain /\ PiecesOf(request)' = PiecesOf(request)
  BY DEF ParseFirstLine, Plain
<1> SUFFICES ASSUME Plain PROVE phase' = "headers" /\ (Transit /\ Answering)'
  BY <1>1 DEF EchoInv
<1>2. Transit /\ Answering /\ phase = "first"
  BY DEF EchoInv, ParseFirstLine
<1>3. PICK i \in LineEnds :
         /\ ReadsLine(i)
         /\ IF Line(i) = <<"first">>
            THEN phase' = "headers" /\ UNCHANGED <<answer, answered>>
            ELSE Respond(<<>>)
  BY DEF ParseFirstLine
<1>4. UNCHANGED <<request, writes, headers, count, received, got, result>>
  BY DEF ParseFirstLine
<1>5. wire # <<>>
  BY <1>3 DEF LineEnds
<1>6. PICK t \in Streams : Arrived(t) /\ wire = FirstLine \o (LengthLine \o (CRLF \o t))
  BY <1>2, <1>5 DEF Transit
<1>7. LengthLine \o (CRLF \o t) \in Streams
  BY LinesAreStreams, CrlfIsStream, Joined
<1>8. Line(i) = <<"first">> /\ wire' = LengthLine \o (CRLF \o t)
  BY <1>3, <1>6, <1>7, LineRead DEF FirstLine, Bytes
<1>9. phase' = "headers" /\ UNCHANGED <<answer, answered>>
  BY <1>3, <1>8
<1>10. Transit'
  BY <1>1, <1>2, <1>4, <1>6, <1>8, <1>9 DEF Transit, Arrived
<1>11. Answering'
  BY <1>1, <1>2, <1>4, <1>9 DEF Answering, Full
<1>q. QED BY <1>9, <1>10, <1>11

LEMMA HeaderKeeps == ASSUME EchoInv, ParseHeader PROVE EchoInv'
<1>1. request' = request /\ Plain' = Plain /\ PiecesOf(request)' = PiecesOf(request)
  BY DEF ParseHeader, Plain
<1> SUFFICES ASSUME Plain
             PROVE  phase' \in {"headers", "body", "done"} /\ (Transit /\ Answering)'
  BY <1>1 DEF EchoInv
<1>2. request \in HttpRequests /\ request.body \in Streams /\ Transit /\ Answering
      /\ phase = "headers"
  BY BodyIsStream DEF EchoInv, ParseHeader
<1>3. PICK i \in LineEnds :
         /\ ReadsLine(i)
         /\ headers' = headers \cup ToSet(Line(i))
         /\ IF Line(i) # <<>>
            THEN UNCHANGED <<phase, answer, answered>>
            ELSE IF "transfer-encoding" \in headers \/ request.declared > 0
            THEN phase' = "body" /\ UNCHANGED <<answer, answered>>
            ELSE Respond(<<>>)
  BY DEF ParseHeader
<1>4. UNCHANGED <<request, writes, count, received, got, result>>
  BY DEF ParseHeader
<1>5. PICK t \in Streams :
         /\ Arrived(t)
         /\ \/ headers = {} /\ wire = LengthLine \o (CRLF \o t)
            \/ headers = {"content-length"} /\ wire = CRLF \o t
  BY <1>2 DEF Transit
<1>6. Arrived(t)' /\ received = <<>> /\ count = 0
  BY <1>1, <1>2, <1>4, <1>5 DEF Arrived, Transit
<1>7. CASE headers = {} /\ wire = LengthLine \o (CRLF \o t)
  <2>1. CRLF \o t \in Streams
    BY CrlfIsStream, Joined
  <2>2. Line(i) = <<"content-length">> /\ wire' = CRLF \o t
    BY <1>3, <1>7, <2>1, LineRead DEF LengthLine, Bytes
  <2>3. headers' = {"content-length"} /\ UNCHANGED <<phase, answer, answered>>
    BY <1>3, <1>7, <2>2 DEF ToSet
  <2>4. Transit'
    BY <1>2, <1>4, <1>6, <2>2, <2>3 DEF Transit
  <2>5. Answering'
    BY <1>1, <1>2, <1>4, <2>3 DEF Answering, Full
  <2>q. QED BY <1>2, <2>3, <2>4, <2>5
<1>8. CASE headers = {"content-length"} /\ wire = CRLF \o t
  <2>1. Line(i) = <<>> /\ wire' = t
    BY <1>3, <1>8, EmptyLineRead
  <2>2. headers' = {"content-length"}
    BY <1>3, <1>8, <2>1 DEF ToSet
  <2>3. Len(request.body) \in Nat /\ request.declared = Len(request.body)
        /\ Len(<<>>) = 0 /\ (Len(request.body) = 0 => request.body = <<>>)
    BY <1>2 DEF Plain, Streams
  <2>4. CASE request.declared > 0
    <3>1. phase' = "body" /\ UNCHANGED <<answer, answered>>
      BY <1>3, <2>1, <2>4
    <3>2. received' \in Streams /\ wire' \in Streams /\ count' = Len(received')
      BY <1>4, <1>6, <2>1, <2>3, LinesAreStreams
    <3>3. \/ wire' = <<>> /\ received' = <<>> /\ writes' = PiecesOf(request)
          \/ writes' = <<>> /\ request.body = received' \o wire'
      BY <1>1, <1>2, <1>4, <1>5, <1>6, <2>1, Joined DEF Arrived
    <3>4. Transit'
      BY <1>1, <1>4, <1>6, <2>2, <2>3, <2>4, <3>1, <3>2, <3>3 DEF Transit
    <3>5. Answering'
      BY <1>1, <1>2, <1>4, <3>1 DEF Answering, Full
    <3>q. QED BY <3>1, <3>4, <3>5
  <2>5. CASE ~(request.declared > 0)
    <3>1. request.body = <<>> /\ Respond(<<>>)
      BY <1>3, <1>8, <2>1, <2>3, <2>5
    <3>2. phase' = "done" /\ answered' /\ answer' = Full
      BY <3>1 DEF Respond, Full
    <3>3. answer' \in Streams /\ got = <<>> /\ result = <<>> /\ got \o answer' = Full
      <4>1. <<"200">> \in Streams
        BY DEF Streams, Bytes
      <4>2. Full \in Streams
        BY <1>2, <4>1, CrlfIsStream, Joined DEF Full
      <4>q. QED BY <1>2, <3>2, <4>2, Joined DEF Answering
    <3>4. Transit' /\ Answering'
      BY <1>1, <1>4, <3>2, <3>3, LinesAreStreams DEF Transit, Answering, Full
    <3>q. QED BY <3>2, <3>4
  <2>q. QED BY <2>4, <2>5
<1>q. QED BY <1>5, <1>7, <1>8

LEMMA ThreeJoined ==
  ASSUME NEW r \in Streams, NEW s \in Streams, NEW t \in Streams
  PROVE  (r \o s) \o t = r \o (s \o t) /\ r \o s \in Streams /\ Len(r \o s) = Len(r) + Len(s)
BY ConcatProperties, ConcatAssociative DEF Streams

LEMMA FullIsStream == ASSUME request \in HttpRequests PROVE Full \in Streams
<1>1. <<"200">> \in Streams
  BY DEF Streams, Bytes
<1>q. QED BY <1>1, BodyIsStream, CrlfIsStream, Joined DEF Full

LEMMA BodyKeeps ==
  ASSUME EchoInv, NEW n \in 1..Len(wire), HandleDataByContentLength(n) \/ HandleChunkedData(n)
  PROVE  EchoInv'
<1>1. request' = request /\ Plain' = Plain /\ PiecesOf(request)' = PiecesOf(request)
  BY DEF HandleDataByContentLength, HandleChunkedData, Plain
<1> SUFFICES ASSUME Plain
             PROVE  phase' \in {"body", "done"} /\ (Transit /\ Answering)'
  BY <1>1 DEF EchoInv
<1>2. request \in HttpRequests /\ request.body \in Streams /\ Transit /\ Answering
      /\ phase = "body" /\ request.declared = Len(request.body)
  BY BodyIsStream DEF EchoInv, HandleDataByContentLength, HandleChunkedData, Plain
<1>3. /\ headers = {"content-length"} /\ received \in Streams /\ wire \in Streams
      /\ count = Len(received) /\ wire # <<>>
      /\ writes = <<>> /\ request.body = received \o wire
  BY <1>2 DEF Transit, Streams
<1>4. HandleDataByContentLength(n)
  BY <1>3 DEF HandleChunkedData
<1> DEFINE data == SubSeq(wire, 1, n)
           left == SubSeq(wire, n + 1, Len(wire))
<1>5. /\ data \in Streams /\ Len(data) = n /\ left \in Streams /\ Len(left) = Len(wire) - n
      /\ data \o left = wire /\ n \in Nat
  BY <1>3, PrefixOf, SuffixOf, PartsOf DEF Streams
<1> HIDE DEF data, left
<1>6. /\ Len(received \o data) = count + n /\ received \o data \in Streams
      /\ (received \o data) \o left = request.body
      /\ Len(request.body) = count + Len(wire) /\ count \in Nat /\ Len(wire) \in Nat
  <2>1. received \o data \in Streams /\ Len(received \o data) = Len(received) + Len(data)
        /\ (received \o data) \o left = received \o (data \o left)
    <3>1. received \in Streams /\ data \in Streams /\ left \in Streams
      BY <1>3, <1>5
    <3>q. QED BY <3>1, ThreeJoined
  <2>2. Len(request.body) = Len(received) + Len(wire) /\ Len(received) \in Nat /\ Len(wire) \in Nat
    BY <1>3, ConcatProperties, LenProperties DEF Streams
  <2>q. QED BY <1>3, <1>5, <2>1, <2>2
<1>7. /\ UNCHANGED <<request, writes, headers, got, result>>
      /\ wire' = left /\ count' = count + n /\ PassOn(data, count' = request.declared)
  <2>1. /\ UNCHANGED <<request, writes, headers, got, result>>
        /\ wire' = left /\ count' = count + n
        /\ IF count' <= request.declared THEN PassOn(data, count' = request.declared)
           ELSE ServerCrashes
    BY <1>4 DEF HandleDataByContentLength, TakesChunk, Chunk, data, left
  <2>2. n <= Len(wire)
    BY <1>6
  <2>q. QED BY <1>2, <1>5, <1>6, <2>1, <2>2
<1>8. CASE count' = request.declared
  <2>1. Respond(received') /\ received' = received \o data
    BY <1>7, <1>8 DEF PassOn
  <2>2. left = <<>>
    BY <1>2, <1>5, <1>6, <1>7, <1>8 DEF Streams
  <2>3. received' = request.body
    BY <1>6, <2>1, <2>2, Joined
  <2>4. phase' = "done" /\ answered' /\ answer' = Full
    BY <2>1, <2>3 DEF Respond, Full
  <2>5. answer' \in Streams /\ got \o answer' = Full /\ result = <<>> /\ got \in Streams
    BY <1>2, <2>4, FullIsStream, Joined DEF Answering
  <2>q. QED BY <1>1, <1>7, <2>4, <2>5 DEF Transit, Answering, Full
<1>9. CASE count' # request.declared
  <2>1. received' = received \o data /\ UNCHANGED <<phase, answer, answered>>
    BY <1>7, <1>9 DEF PassOn
  <2>2. count' < Len(request.body)
    <3>1. n <= Len(wire) /\ n \in Nat /\ count \in Nat /\ Len(wire) \in Nat
      BY <1>5, <1>6
    <3>2. Len(request.body) = count + Len(wire) /\ count' = count + n /\ count' # Len(request.body)
      BY <1>2, <1>6, <1>7, <1>9
    <3>q. QED BY <3>1, <3>2
  <2>3. Transit'
    BY <1>1, <1>2, <1>3, <1>5, <1>6, <1>7, <2>1, <2>2 DEF Transit
  <2>4. Answering'
    BY <1>1, <1>2, <1>7, <2>1 DEF Answering, Full
  <2>q. QED BY <1>2, <2>1, <2>3, <2>4
<1>q. QED BY <1>8, <1>9

LEMMA CollectKeeps ==
  ASSUME EchoInv, NEW n \in 1..Len(answer), CollectAnswer(n) PROVE EchoInv'
<1>1. request' = request /\ Plain' = Plain /\ PiecesOf(request)' = PiecesOf(request)
  BY DEF CollectAnswer, Plain
<1> SUFFICES ASSUME Plain PROVE (Transit /\ Answering)'
  BY <1>1 DEF EchoInv, CollectAnswer
<1>2. Transit /\ Answering /\ answer \in Streams /\ got \in Streams
  BY DEF EchoInv, Answering
<1>3. Transit'
  BY <1>1, <1>2 DEF Transit, Arrived, CollectAnswer
<1> DEFINE some == SubSeq(answer, 1, n)
           left == SubSeq(answer, n + 1, Len(answer))
<1>4. some \in Streams /\ left \in Streams /\ some \o left = answer /\ answer # <<>>
  BY <1>2, PrefixOf, SuffixOf, PartsOf DEF Streams
<1>5. got' = got \o some /\ answer' = left /\ UNCHANGED <<answered, phase, result>> /\ result = <<>>
  BY DEF CollectAnswer
<1> HIDE DEF some, left
<1>6. got' \in Streams /\ answer' \in Streams /\ got' \o answer' = got \o answer
  BY <1>2, <1>4, <1>5, ThreeJoined
<1>7. answered
  BY <1>2, <1>4 DEF Answering
<1>8. Answering'
  BY <1>1, <1>2, <1>5, <1>6, <1>7 DEF Answering, Full
<1>q. QED BY <1>3, <1>8

LEMMA EndKeeps == ASSUME EchoInv, EndAnswer PROVE EchoInv'
<1>1. request' = request /\ Plain' = Plain /\ PiecesOf(request)' = PiecesOf(request)
  BY DEF EndAnswer, Plain
<1> SUFFICES ASSUME Plain PROVE (Transit /\ Answering)'
  BY <1>1 DEF EchoInv, EndAnswer
<1>2. Transit /\ Answering
  BY DEF EchoInv
<1>3. Transit'
  BY <1>1, <1>2 DEF Transit, Arrived, EndAnswer
<1>4. got = Full /\ result' = <<got>>
  BY <1>2, Joined DEF Answering, EndAnswer
<1>5. result' = <<Full>> /\ result' # <<>>
  BY <1>4
<1>q. QED BY <1>1, <1>2, <1>3, <1>5 DEF Answering, EndAnswer, Full

LEMMA EchoInit == HttpInit => EchoInv
BY LinesAreStreams DEF HttpInit, EchoInv, Transit, Answering

LEMMA EchoStep == EchoInv /\ [HttpNext]_httpVars => EchoInv'
<1>1. EchoInv /\ UNCHANGED httpVars => EchoInv'
  <2> SUFFICES ASSUME EchoInv, UNCHANGED httpVars PROVE EchoInv'
    OBVIOUS
  <2>1. /\ Plain' = Plain /\ PiecesOf(request)' = PiecesOf(request)
        /\ WritesOf(request)' = WritesOf(request) /\ Full' = Full
    BY DEF httpVars, Plain, Full
  <2>2. Transit => Transit'
    BY <2>1 DEF httpVars, Transit, Arrived
  <2>3. Answering => Answering'
    BY <2>1 DEF httpVars, Answering
  <2>q. QED BY <2>1, <2>2, <2>3 DEF httpVars, EchoInv
<1>q. QED
  BY <1>1, WriteKeeps, FirstLineKeeps, HeaderKeeps, BodyKeeps, CollectKeeps, EndKeeps DEF HttpNext

(* A body of any bytes, line ends among them, and of any length is echoed     *)
(* whole, wherever the stream is cut, as long as its length is the declared   *)
(* one (http/tcp/service/internal/http-incoming-message.ts).                  *)
THEOREM BodiesAreEchoed == HttpSpec => []EchoAsSent
<1>1. EchoInv => EchoAsSent
  <2> SUFFICES ASSUME EchoInv, Plain
               PROVE  phase # "crashed" /\ (result # <<>> => result[1] = Full)
    BY DEF Plain, EchoAsSent, Full
  <2>q. QED BY DEF EchoInv, Answering
<1>2. HttpSpec => []EchoInv
  BY EchoInit, EchoStep, PTL DEF HttpSpec
<1>q. QED BY <1>1, <1>2, PTL
=============================================================================
