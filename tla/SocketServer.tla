----------------------------- MODULE SocketServer -----------------------------
(***************************************************************************)
(* Starting servers (net/service/server.ts): several processes start one   *)
(* on a socket file they share, or on the first port that seems free.  A   *)
(* start that finds the file first tries to connect to it; whoever looks   *)
(* for a port tries each in turn (net/service/common.ts).  The answer to   *)
(* either may be out of date when it is used.                              *)
(***************************************************************************)
EXTENDS Naturals

CONSTANTS
  Processes,
  EndPort,     \* the port getAFreePort gives up at; it begins with 1
  MaxServerStarts,   \* bound on starts
  NoServer

VARIABLES
  step,       \* of each process: "idle", "connect", "scan", "listen", "up" or "failed"
  on,         \* what it starts on: "path" or "port"
  port,       \* the port it tries or has
  socketFile, \* the server the file is of, "stale" after a crash, or NoServer
  disturbed,  \* history: another process or a timeout came between its steps
  starts

netVars == <<step, on, port, socketFile, disturbed, starts>>

Starting(p) == step[p] \in {"connect", "scan", "listen"}

Taken(n) == \E q \in Processes : step[q] = "up" /\ on[q] = "port" /\ port[q] = n

\* p is at s next, and those that are starting too have been disturbed.
Step(p, s) ==
  /\ step' = [step EXCEPT ![p] = s]
  /\ disturbed' = [q \in Processes |-> disturbed[q] \/ (q # p /\ Starting(q))]

\* A start, which others may be in the middle of theirs for.
BeginStart(p, how, s, n) ==
  /\ step[p] \in {"idle", "failed"} /\ starts < MaxServerStarts
  /\ starts' = starts + 1
  /\ on' = [on EXCEPT ![p] = how]
  /\ port' = [port EXCEPT ![p] = n]
  /\ step' = [step EXCEPT ![p] = s]
  /\ disturbed' = [q \in Processes |-> IF q = p THEN FALSE ELSE disturbed[q] \/ Starting(q)]
  /\ UNCHANGED socketFile

-----------------------------------------------------------------------------
(* startSocketServer with a path.                                          *)
StartOnPath(p) ==
  BeginStart(p, "path", IF socketFile = NoServer THEN "listen" ELSE "connect", 0)

\* unlinkSync, which throws without the file.
Unlink(p) ==
  IF socketFile = NoServer
  THEN Step(p, "failed") /\ UNCHANGED socketFile
  ELSE Step(p, "listen") /\ socketFile' = NoServer

(* Another server answers: the error made of that is caught where a        *)
(* refused connection is, and the file removed as well.                    *)
ConnectAnswered(p) ==
  /\ step[p] = "connect" /\ socketFile \in Processes
  /\ Unlink(p)
  /\ UNCHANGED <<on, port, starts>>

\* Mutant: a file nobody listens on is left.
ConnectRefusedKeeps(p) ==
  /\ step[p] = "connect" /\ socketFile \notin Processes
  /\ Step(p, "listen")
  /\ UNCHANGED <<socketFile, on, port, starts>>

ConnectRefused(p) ==
  /\ step[p] = "connect" /\ socketFile \notin Processes
  /\ Unlink(p)
  /\ UNCHANGED <<on, port, starts>>

ListenOnPath(p) ==
  /\ step[p] = "listen" /\ on[p] = "path"
  /\ IF socketFile = NoServer
     THEN Step(p, "up") /\ socketFile' = p
     ELSE Step(p, "failed") /\ UNCHANGED socketFile
  /\ UNCHANGED <<on, port, starts>>

-----------------------------------------------------------------------------
(* startSocketServer without a port: getAFreePort.                         *)
StartOnPort(p) == BeginStart(p, "port", "scan", 1)

\* checkPort: a connection is made, refused or given up after 800 ms.
CheckPort(p) ==
  /\ step[p] = "scan" /\ port[p] < EndPort
  /\ IF Taken(port[p])
     THEN port' = [port EXCEPT ![p] = @ + 1] /\ Step(p, "scan")
     ELSE Step(p, "listen") /\ UNCHANGED port
  /\ UNCHANGED <<socketFile, on, starts>>

CheckTimesOut(p) ==
  /\ step[p] = "scan" /\ port[p] < EndPort
  /\ step' = [step EXCEPT ![p] = "listen"]
  /\ disturbed' = [q \in Processes |-> disturbed[q] \/ Starting(q)]
  /\ UNCHANGED <<socketFile, on, port, starts>>

NoFreePort(p) ==
  /\ step[p] = "scan" /\ port[p] = EndPort
  /\ Step(p, "failed")
  /\ UNCHANGED <<socketFile, on, port, starts>>

ListenOnPort(p) ==
  /\ step[p] = "listen" /\ on[p] = "port"
  /\ Step(p, IF Taken(port[p]) THEN "failed" ELSE "up")
  /\ UNCHANGED <<socketFile, on, port, starts>>

-----------------------------------------------------------------------------
(* A server that closes has its file removed, whosever it is by then; a    *)
(* process that dies leaves it.                                            *)
Close(p) ==
  /\ step[p] = "up"
  /\ Step(p, "idle")
  /\ socketFile' = IF on[p] = "path" THEN NoServer ELSE socketFile
  /\ UNCHANGED <<on, port, starts>>

Die(p) ==
  /\ step[p] # "idle"
  /\ Step(p, "idle")
  /\ socketFile' = IF socketFile = p THEN "stale" ELSE socketFile
  /\ UNCHANGED <<on, port, starts>>

NetInit ==
  /\ step = [p \in Processes |-> "idle"]
  /\ on = [p \in Processes |-> "path"]
  /\ port = [p \in Processes |-> 0]
  /\ socketFile = NoServer
  /\ disturbed = [p \in Processes |-> FALSE]
  /\ starts = 0

NetNext == \E p \in Processes :
  \/ StartOnPath(p) \/ ConnectAnswered(p) \/ ConnectRefused(p) \/ ListenOnPath(p)
  \/ StartOnPort(p) \/ CheckPort(p) \/ CheckTimesOut(p) \/ NoFreePort(p) \/ ListenOnPort(p)
  \/ Close(p) \/ Die(p)

NetSpec == NetInit /\ [][NetNext]_netVars

-----------------------------------------------------------------------------
(* A start fails only when another process or a timeout came between its   *)
(* steps, or all ports are taken: what a crash left behind never stops it, *)
(* nor does a server that is up (server.ts:82, common.ts:74).              *)
StartFailsOnlyInRace ==
  \A p \in Processes : step[p] = "failed" =>
    disturbed[p] \/ (on[p] = "port" /\ port[p] = EndPort)

(* server.ts:88 "Remove socket file if not in use": a server that is up    *)
(* keeps the file its clients connect to.                                  *)
FileOfServerKept == [][\A p \in Processes :
  step[p] = "up" /\ socketFile = p /\ step'[p] = "up" => socketFile' = p]_netVars
=============================================================================
