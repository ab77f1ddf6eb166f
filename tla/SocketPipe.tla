------------------------------- MODULE SocketPipe -------------------------------
(* Two sockets of one process tied together by pipeSocket                     *)
(* (lib/socks/server.ts): what is read from the one is written to the other,  *)
(* and every way either of them can finish closes both.                       *)
(*                                                                            *)
(* inbox[s] is what side s's peer has sent and the process has not yet read,  *)
(* wire[s] what the process has handed to the network for that peer.  A FIN   *)
(* is the last unit of a direction.  Before Piping a side has no listeners of *)
(* pipeSocket, and what happens to it then is said by the module that owns    *)
(* the sockets at that time.                                                  *)
EXTENDS Naturals, Sequences

CONSTANTS HighWater      \* how many writes a socket holds before its source is paused

Sides == {"client", "remote"}
Other(s) == IF s = "client" THEN "remote" ELSE "client"
FIN == <<"fin">>

VARIABLES inbox, wire,
          pending,       \* written and not yet handed to the network
          ended,         \* sides whose 'end' event has been emitted
          ending,        \* sides whose end() has been called
          finished,      \* sides that have sent their FIN
          destroyed,     \* sides that are destroyed
          closed,        \* sides whose 'close' event has been handled
          piping,        \* pipeSocket has been called
          grace          \* a half-open timer is armed

pipeVars == <<inbox, wire, pending, ended, ending, finished, destroyed, closed, piping, grace>>

PipeInit ==
  /\ inbox = [s \in Sides |-> <<>>] /\ wire = [s \in Sides |-> <<>>]
  /\ pending = [s \in Sides |-> <<>>]
  /\ ended = {} /\ ending = {} /\ finished = {} /\ destroyed = {} /\ closed = {}
  /\ piping = FALSE /\ grace = FALSE

(* Destroying a socket throws away what it has not yet handed over.           *)
Destroy(S) ==
  /\ destroyed' = destroyed \cup S
  /\ pending' = [s \in Sides |-> IF s \in S THEN <<>> ELSE pending[s]]

CloseBoth == Destroy(Sides)

HeadIs(s, u) == inbox[s] # <<>> /\ Head(inbox[s]) = u

\* Mutant: with a full destination the chunk is let through before what is queued.
ForwardFirst(s) ==
  LET o == Other(s) IN
  /\ piping /\ {s, o} \cap destroyed = {} /\ o \notin ending
  /\ inbox[s] # <<>> /\ Head(inbox[s]) # FIN
  /\ inbox' = [inbox EXCEPT ![s] = Tail(@)]
  /\ pending' = [pending EXCEPT ![o] = <<Head(inbox[s])>> \o @]
  /\ UNCHANGED <<wire, ended, ending, finished, destroyed, closed, piping, grace>>

(* A chunk of s goes to the other side, if that one has room; a write after   *)
(* end() is an error, and an error destroys both.                             *)
Forward(s) ==
  LET o == Other(s) IN
  /\ piping /\ {s, o} \cap destroyed = {}
  /\ inbox[s] # <<>> /\ Head(inbox[s]) # FIN
  /\ Len(pending[o]) < HighWater
  /\ inbox' = [inbox EXCEPT ![s] = Tail(@)]
  /\ IF o \in ending
     THEN CloseBoth
     ELSE /\ pending' = [pending EXCEPT ![o] = Append(@, Head(inbox[s]))]
          /\ UNCHANGED destroyed
  /\ UNCHANGED <<wire, ended, ending, finished, closed, piping, grace>>

\* Mutant: the half-open timer is not armed.
PeerEndedNoGrace(s) ==
  /\ piping /\ {s, Other(s)} \cap destroyed = {} /\ HeadIs(s, FIN)
  /\ inbox' = [inbox EXCEPT ![s] = <<>>]
  /\ ended' = ended \cup {s}
  /\ ending' = Sides
  /\ UNCHANGED <<wire, pending, finished, destroyed, closed, piping, grace>>

(* 'end': the peer will send no more.  Node ends the socket's own side, which *)
(* is not half-open, the listeners end the other one and arm a timer.         *)
PeerEnded(s) ==
  /\ piping /\ {s, Other(s)} \cap destroyed = {} /\ HeadIs(s, FIN)
  /\ inbox' = [inbox EXCEPT ![s] = <<>>]
  /\ ended' = ended \cup {s}
  /\ ending' = Sides
  /\ grace' = TRUE
  /\ UNCHANGED <<wire, pending, finished, destroyed, closed, piping>>

(* The network takes what has been written, as fast as the peer reads.        *)
Flush(s) ==
  /\ s \notin destroyed /\ pending[s] # <<>>
  /\ wire' = [wire EXCEPT ![s] = Append(@, Head(pending[s]))]
  /\ pending' = [pending EXCEPT ![s] = Tail(@)]
  /\ UNCHANGED <<inbox, ended, ending, finished, destroyed, closed, piping, grace>>

(* 'finish': all that was written is out, the FIN follows.  A socket that has *)
(* ended and finished destroys itself.                                        *)
Finish(s) ==
  /\ s \in ending \ (finished \cup destroyed) /\ pending[s] = <<>>
  /\ finished' = finished \cup {s}
  /\ wire' = [wire EXCEPT ![s] = Append(@, FIN)]
  /\ destroyed' = IF s \in ended THEN destroyed \cup {s} ELSE destroyed
  /\ UNCHANGED <<inbox, pending, ended, ending, closed, piping, grace>>

(* The pipeline from s has done its work: s has ended, the other finished.    *)
PipelineDone(s) ==
  /\ piping /\ s \in ended /\ Other(s) \in finished /\ destroyed # Sides
  /\ CloseBoth
  /\ UNCHANGED <<inbox, wire, ended, ending, finished, closed, piping, grace>>

(* 'close'.  Its listeners are there from pipeSocket on; a peer to which the  *)
(* destroyed socket had not sent a FIN sees the connection close.             *)
SocketClosed(s) ==
  /\ s \in destroyed \ closed
  /\ closed' = closed \cup {s}
  /\ IF piping THEN CloseBoth ELSE UNCHANGED <<destroyed, pending>>
  /\ UNCHANGED <<inbox, wire, ended, ending, finished, piping, grace>>

(* The half-open timer.                                                       *)
GraceOver ==
  /\ grace /\ destroyed # Sides
  /\ CloseBoth /\ grace' = FALSE
  /\ UNCHANGED <<inbox, wire, ended, ending, finished, closed, piping>>

(* The idle timer of either socket: nothing has moved for socketTimeout.      *)
IdleTimeout ==
  /\ piping /\ destroyed # Sides
  /\ CloseBoth
  /\ UNCHANGED <<inbox, wire, ended, ending, finished, closed, piping, grace>>

(* An error on either socket once the listeners are there.                    *)
PipeError(s) ==
  /\ piping /\ s \notin destroyed
  /\ CloseBoth
  /\ UNCHANGED <<inbox, wire, ended, ending, finished, closed, piping, grace>>

PipeNext ==
  \/ \E s \in Sides : Forward(s) \/ PeerEnded(s) \/ Flush(s) \/ Finish(s) \/ PipelineDone(s)
                      \/ SocketClosed(s) \/ PipeError(s)
  \/ GraceOver \/ IdleTimeout

(* Node's event loop runs what is due: events, timers.  Nothing makes a peer  *)
(* read, so Flush is not fair, and nothing makes it fail or go silent.        *)
PipeFairness ==
  /\ WF_pipeVars(GraceOver)
  /\ \A s \in Sides : /\ WF_pipeVars(SocketClosed(s)) /\ WF_pipeVars(PipelineDone(s))
                      /\ WF_pipeVars(Finish(s))
=============================================================================
