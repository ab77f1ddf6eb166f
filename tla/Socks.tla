---------------------------------- MODULE Socks ----------------------------------
(* One connection through a socks server (lib/socks): this library's client,  *)
(* the gateway that looks at the first chunk (utils/tcp-gateway), the         *)
(* negotiation of version 5 or 1, the connection to the target and the pipe.  *)
(*                                                                            *)
(* Every wait of the negotiation takes one chunk for one message.  The        *)
(* network cuts and joins as it likes, so a message is a sequence of units,   *)
(* as many as there are places where a cut makes a difference to its reader.  *)
EXTENDS SocketPipe, FiniteSets, SequencesExt

CONSTANTS Configs,       \* what client and server are configured with, see SocksInit
          TargetData, ClientData, \* how many chunks each end sends
          MaxFaults      \* how many ends leave or break

NoAuth == 0
UserPass == 2

(* Other methods are not implemented by either end.                           *)
ASSUME ConfigAssumption ==
  \A c \in Configs :
    /\ c.cm \in Seq({NoAuth, UserPass}) /\ c.creds \in {"right", "wrong"}
    /\ c.addr \in {"domain", "ipv6"} /\ c.route \in {"local", "v5", "v1"}
ASSUME DataAssumption == TargetData \in Nat /\ ClientData \in Nat

(* What a message's units are: the last one of a request, of a hello (version *)
(* 1) and of a response is the second byte of the port; the first one of a    *)
(* request or hello ends before the type of the address; a response's first   *)
(* unit is its version, its second one ends before the type of the address.   *)
Size == [methods |-> 2, method |-> 2, userpass |-> 2, auth |-> 2, request |-> 3, hello |-> 3,
         response |-> 4, upstream |-> 4, text |-> 2, data |-> 1]
Msg(kind, what) == [i \in 1..Size[kind] |-> <<kind, what, i>>]
ErrorText == Msg("text", "error")

MethodsMsg == Msg("methods", "first")
MethodMsg(m) == Msg("method", m)
UserPassMsg(password) == Msg("userpass", password)
AuthMsg == Msg("auth", "ok")
RequestMsg(addr) == Msg("request", addr)
HelloMsg(addr) == Msg("hello", addr)
ResponseMsg(state) == Msg("response", state)
UpstreamMsg(addr) == Msg("upstream", addr)   \* from the server behind this one

VARIABLES cfg, cpc, spc,
          mark,          \* units of the chunk the gateway has put back, 0 when there is none
          method,        \* the method the server has chosen
          reply,         \* what the server answers to the request
          remote,        \* "none", or "open" once the target was connected
          known,         \* info.socket2Remote is set
          got,           \* what the application of the client has received
          sent,          \* how many chunks each end has sent
          unheard,       \* how much of the target nobody listened for
          faults,
          harmed         \* history: a chunk was not exactly one message

socksVars == <<cfg, cpc, spc, mark, method, reply, remote, known, got, sent, unheard,
               faults, harmed>>
connectionVars == <<pipeVars, socksVars>>

SocksInit ==
  /\ PipeInit
  /\ cfg \in Configs
  /\ cpc = "start" /\ spc = "route" /\ mark = 0
  /\ method = NoAuth /\ reply = "none" /\ remote = "none" /\ known = FALSE
  /\ got = <<>> /\ sent = [s \in Sides |-> 0] /\ unheard = 0 /\ faults = 0 /\ harmed = FALSE

Write(s, units) == wire' = [wire EXCEPT ![s] = @ \o units]
Writable(s) == s \notin ending \cup destroyed

(* The units of the message a chunk begins with.                              *)
Lead(chunk) == Cardinality({i \in DOMAIN chunk : chunk[i][1] = chunk[1][1]})
Whole(chunk) == chunk # <<>> /\ chunk[1][3] = 1 /\ Lead(chunk) = Size[chunk[1][1]]
Exact(chunk) == Whole(chunk) /\ Lead(chunk) = Len(chunk)

(* A chunk of what is there; a FIN is not part of one, and what the gateway   *)
(* has put back is a chunk of its own.                                        *)
ChunkSizes(units, back) ==
  IF back > 0 THEN {back} ELSE 1..Cardinality({i \in DOMAIN units : units[i] # FIN})

\* Mutant: an IPv6 address is refused where it is parsed.
ParseTargetNoIPv6(missing) ==
  CASE missing = 0 /\ cfg.addr # "ipv6" -> "whole"
    [] missing = 1 /\ cfg.addr # "ipv6" -> "badPort"
    [] OTHER -> "throws"

(* bufferToTargeServiceInfo on a chunk that lacks `missing' units of its      *)
(* message: it throws when the type of the address or its end is not there,   *)
(* and reads a port that is not a number when only its last byte is missing.  *)
ParseTarget(missing) ==
  CASE missing = 0 -> "whole"
    [] missing = 1 /\ cfg.addr # "ipv6" -> "badPort"
    [] OTHER -> "throws"
-----------------------------------------------------------------------------
(* The client.                                                                *)

\* cfg.cm is sorted as negotiation sorts methodList: authorized methods first.
ClientStart ==
  /\ cpc = "start"
  /\ inbox' = [inbox EXCEPT !["client"] =
                 @ \o (IF cfg.version = 5 THEN MethodsMsg ELSE HelloMsg(cfg.addr))]
  /\ cpc' = IF cfg.version = 5 THEN "waitMethod" ELSE "waitResponse"
  /\ UNCHANGED <<wire, pending, ended, ending, finished, destroyed, closed, piping, grace,
                 cfg, spc, mark, method, reply, remote, known, got, sent, unheard, faults, harmed>>

(* Takes a chunk of n units off the client's stream.                          *)
ClientTakes(n) ==
  /\ n \in ChunkSizes(wire["client"], 0)
  /\ wire' = [wire EXCEPT !["client"] = SubSeq(@, n + 1, Len(@))]
  /\ harmed' = (harmed \/ ~Exact(SubSeq(wire["client"], 1, n)))
  /\ UNCHANGED <<pending, ended, ending, finished, destroyed, closed, piping, grace,
                 cfg, spc, mark, method, reply, remote, known, sent, unheard, faults>>

(* What the client of version 5 does with the chosen method: it gives its     *)
(* password, or asks for its target at once.                                  *)
AfterMethod(m) ==
  IF m = UserPass
  THEN /\ inbox' = [inbox EXCEPT !["client"] = @ \o UserPassMsg(cfg.creds)]
       /\ cpc' = "waitAuth"
  ELSE /\ inbox' = [inbox EXCEPT !["client"] = @ \o RequestMsg(cfg.addr)]
       /\ cpc' = "waitResponse"

ClientWaitMethod(n) ==
  LET chunk == SubSeq(wire["client"], 1, n) IN
  /\ cpc = "waitMethod" /\ ClientTakes(n)
  /\ IF Exact(chunk) /\ chunk[1][1] = "method"
     THEN AfterMethod(chunk[1][2])
     ELSE cpc' = "failed" /\ UNCHANGED inbox
  /\ UNCHANGED got

ClientWaitAuth(n) ==
  LET chunk == SubSeq(wire["client"], 1, n) IN
  /\ cpc = "waitAuth" /\ ClientTakes(n)
  /\ IF Exact(chunk) /\ chunk[1][1] = "auth"
     THEN /\ inbox' = [inbox EXCEPT !["client"] = @ \o RequestMsg(cfg.addr)]
          /\ cpc' = "waitResponse"
     ELSE cpc' = "failed" /\ UNCHANGED inbox
  /\ UNCHANGED got

\* Mutant: the reply field is not looked at.
ResponseOutcomeAny(chunk) ==
  IF chunk[1][1] # "response" \/ Lead(chunk) = 1 THEN "failed"
  ELSE IF ParseTarget(4 - Lead(chunk)) = "throws" THEN "crashed" ELSE "done"

(* The answer to the request: what follows it in its chunk is lost.           *)
ResponseOutcome(chunk) ==
  IF chunk[1][1] # "response" \/ Lead(chunk) = 1 \/ chunk[1][2] # "succeeded" THEN "failed"
  ELSE IF ParseTarget(4 - Lead(chunk)) = "throws" THEN "crashed" ELSE "done"

ClientWaitResponse(n) ==
  /\ cpc = "waitResponse" /\ ClientTakes(n)
  /\ cpc' = ResponseOutcome(SubSeq(wire["client"], 1, n))
  /\ UNCHANGED <<inbox, got>>

(* Waits with a timeout; the other ones of version 5 have none.  The socket   *)
(* is left as it is.                                                          *)
ClientTimeout ==
  /\ cpc = "waitMethod" \/ (cpc = "waitResponse" /\ cfg.version = 1)
  /\ cpc' = "failed"
  /\ UNCHANGED <<pipeVars, cfg, spc, mark, method, reply, remote, known, got, sent, unheard, faults, harmed>>

(* The application behind a negotiated socket reads and sends.                *)
ClientReads ==
  /\ cpc = "done" /\ wire["client"] # <<>> /\ Head(wire["client"]) # FIN
  /\ got' = Append(got, Head(wire["client"]))
  /\ wire' = [wire EXCEPT !["client"] = Tail(@)]
  /\ UNCHANGED <<inbox, pending, ended, ending, finished, destroyed, closed, piping, grace,
                 cfg, cpc, spc, mark, method, reply, remote, known, sent, unheard, faults, harmed>>
-----------------------------------------------------------------------------
(* The ends of the two connections.                                           *)

HasSentFin(s) == s \in ended \/ (inbox[s] # <<>> /\ Last(inbox[s]) = FIN)

EndSends(s, limit) ==
  /\ sent[s] < limit /\ s \notin destroyed /\ ~HasSentFin(s)
  /\ sent' = [sent EXCEPT ![s] = @ + 1]
  /\ inbox' = [inbox EXCEPT ![s] = Append(@, <<"data", sent[s] + 1, 1>>)]
  /\ UNCHANGED <<wire, pending, ended, ending, finished, destroyed, closed, piping, grace,
                 cfg, cpc, spc, mark, method, reply, remote, known, got, unheard, faults, harmed>>

ClientSends == cpc = "done" /\ EndSends("client", ClientData)
TargetSends == remote = "open" /\ EndSends("remote", TargetData)

Connected(s) == s = "client" \/ remote = "open"

(* An end closes its connection.                                              *)
EndLeaves(s) ==
  /\ Connected(s) /\ faults < MaxFaults /\ s \notin destroyed /\ ~HasSentFin(s)
  /\ faults' = faults + 1
  /\ inbox' = [inbox EXCEPT ![s] = Append(@, FIN)]
  /\ cpc' = IF s = "client" THEN "gone" ELSE cpc
  /\ UNCHANGED <<wire, pending, ended, ending, finished, destroyed, closed, piping, grace,
                 cfg, spc, mark, method, reply, remote, known, got, sent, unheard, harmed>>

(* Before the pipe stands nothing listens for 'end': Node ends the socket's   *)
(* own side too.                                                              *)
EndBeforePipe(s) ==
  /\ ~piping /\ s \notin destroyed /\ HeadIs(s, FIN)
  /\ inbox' = [inbox EXCEPT ![s] = <<>>]
  /\ ended' = ended \cup {s} /\ ending' = ending \cup {s}
  /\ UNCHANGED <<wire, pending, finished, destroyed, closed, piping, grace, socksVars>>

(* A connection breaks.  The target's socket still has the listener of        *)
(* connectFromLocal; the client's has none before the pipe, and an 'error'    *)
(* nobody listens for ends the process.                                       *)
ResetBeforePipe(s) ==
  /\ ~piping /\ Connected(s) /\ faults < MaxFaults /\ s \notin destroyed
  /\ faults' = faults + 1
  /\ inbox' = [inbox EXCEPT ![s] = <<>>]
  /\ Destroy({s})
  /\ cpc' = IF s = "client" THEN "gone" ELSE cpc
  /\ spc' = IF s = "client" THEN "crashed" ELSE spc
  /\ UNCHANGED <<wire, ended, ending, finished, closed, piping, grace,
                 cfg, mark, method, reply, remote, known, got, sent, unheard, harmed>>
-----------------------------------------------------------------------------
(* The server.                                                                *)

(* What handleSocksConnection's catch does: the error's text to the target,   *)
(* if its socket is known, and to the client, and their end.                  *)
ServerFails(failing) ==
  /\ spc' = failing
  /\ pending' = [s \in Sides |-> IF Writable(s) /\ (s = "client" \/ known)
                                 THEN pending[s] \o ErrorText ELSE pending[s]]
  /\ ending' = ending \cup {s \in Sides : Writable(s) /\ (s = "client" \/ known)}

(* Takes a chunk of n units off the server's stream.                          *)
ServerTakes(n) ==
  /\ "client" \notin destroyed
  /\ n \in ChunkSizes(inbox["client"], mark)
  /\ inbox' = [inbox EXCEPT !["client"] = SubSeq(@, n + 1, Len(@))]
  /\ mark' = 0
  /\ harmed' = (harmed \/ ~Exact(SubSeq(inbox["client"], 1, n)))

ServerSame == UNCHANGED <<ended, finished, destroyed, closed, piping, grace,
                          cfg, cpc, remote, known, got, sent, unheard, faults>>

(* getOneLineFromReader on what has come: up to a CRLF if there is one in it. *)
FirstLine(n) == IF cfg.crlf THEN 1 ELSE n

(* Nobody handles the protocol: an answer that says so, and the end.          *)
NoHandler == ServerFails("refused")

(* The gateway: the first chunk decides who handles the connection, and is    *)
(* put back.                                                                  *)
RouteConnection(n) ==
  /\ spc = "route" /\ "client" \notin destroyed
  /\ n \in ChunkSizes(inbox["client"], 0)
  /\ mark' = FirstLine(n)
  /\ IF cfg.version \in cfg.routes
     THEN /\ spc' = IF cfg.version = 5 THEN "waitMethod" ELSE "waitHello"
          /\ UNCHANGED <<pending, ending>>
     ELSE NoHandler
  /\ UNCHANGED <<inbox, wire, method, reply, harmed>> /\ ServerSame

(* The server of version 5 answers with the method and goes on with it.       *)
ReplyMethod(m) ==
  /\ method' = m
  /\ Write("client", MethodMsg(m))
  /\ spc' = IF m = UserPass THEN "waitUserPass" ELSE "waitRequest"

(* Where the client's methods are ones the server has; the first is taken.    *)
Common == {i \in DOMAIN cfg.cm : cfg.cm[i] \in cfg.sm}

ServerWaitMethod(n) ==
  LET chunk == SubSeq(inbox["client"], 1, n)
      first == CHOOSE i \in Common : \A j \in Common : i <= j IN
  /\ spc = "waitMethod" /\ ServerTakes(n) /\ ServerSame
  /\ IF Exact(chunk) /\ Common # {} /\ Writable("client")
     THEN ReplyMethod(cfg.cm[first]) /\ UNCHANGED <<pending, ending, reply>>
     ELSE ServerFails("failed") /\ UNCHANGED <<wire, method, reply>>

\* Mutant: a wrong password is answered but not refused.
ServerWaitUserPassLenient(n) ==
  /\ spc = "waitUserPass" /\ ServerTakes(n) /\ ServerSame
  /\ Write("client", AuthMsg)
  /\ spc' = "waitRequest"
  /\ UNCHANGED <<pending, ending, method, reply>>

ServerWaitUserPass(n) ==
  LET chunk == SubSeq(inbox["client"], 1, n) IN
  /\ spc = "waitUserPass" /\ ServerTakes(n) /\ ServerSame
  /\ IF Whole(chunk) /\ chunk[1][1] = "userpass" /\ chunk[1][2] = "right" /\ Writable("client")
     THEN /\ Write("client", AuthMsg)
          /\ spc' = "waitRequest"
          /\ UNCHANGED <<pending, ending>>
     ELSE ServerFails("failed") /\ UNCHANGED wire
  /\ UNCHANGED <<method, reply>>

(* What a request or hello leads to.  A parser that throws does so inside the *)
(* data listener, where nobody catches it.  The command is CONNECT: a client  *)
(* of this library sends no other (v5/client.ts:22, vc1/client.ts:18).        *)
AfterRequest(chunk) ==
  /\ CASE ParseTarget(3 - Lead(chunk)) = "throws" -> spc' = "crashed" /\ reply' = reply
       [] ParseTarget(3 - Lead(chunk)) = "badPort" -> spc' = "connecting" /\ reply' = "refused"
       [] OTHER -> spc' = "connecting" /\ reply' = "none"
  /\ UNCHANGED <<pending, ending>>

ServerWaitRequest(n) ==
  /\ spc = "waitRequest" /\ ServerTakes(n) /\ ServerSame
  /\ AfterRequest(SubSeq(inbox["client"], 1, n))
  /\ UNCHANGED <<wire, method>>

(* The server of version 1 compares what the hello says with its own.         *)
HelloAccepted == cfg.creds = "right"

ServerWaitHello(n) ==
  LET chunk == SubSeq(inbox["client"], 1, n) IN
  /\ spc = "waitHello" /\ ServerTakes(n) /\ ServerSame
  /\ IF HelloAccepted \/ ParseTarget(3 - Lead(chunk)) = "throws"
     THEN AfterRequest(chunk)
     ELSE ServerFails("failed") /\ UNCHANGED reply
  /\ UNCHANGED <<wire, method>>

(* serverWaitMethod and serverWaitNegotiationInfo do not wait for ever.       *)
ServerTimeout ==
  /\ spc \in {"waitMethod", "waitHello"}
  /\ ServerFails("failed")
  /\ UNCHANGED <<inbox, wire, mark, method, reply, harmed>> /\ ServerSame

(* Another socks server is configured for the target.                         *)
ThroughProxy == cfg.route # "local"

(* Directly: the name is looked up and the target connected to, or there is   *)
(* an answer that says why not; a port that is no number is refused.          *)
ConnectFromLocal ==
  /\ \/ reply # "refused" /\ remote' = "open" /\ reply' = "succeeded"
     \/ reply' = "refused" /\ UNCHANGED remote
  /\ spc' = "responding" /\ UNCHANGED <<inbox, pending, ending>>

(* Through another server: this one is its client.  A negotiation that fails  *)
(* is an error of the connection; one that does not has the other server      *)
(* connect to the target and answer, and the target may follow at once.       *)
ProxyRequestTarget ==
  \/ /\ reply # "refused"
     /\ remote' = "open" /\ reply' = "succeeded" /\ spc' = "waitUpstream"
     /\ inbox' = [inbox EXCEPT !["remote"] = UpstreamMsg(cfg.addr)]
     /\ UNCHANGED <<pending, ending>>
  \/ ServerFails("failed") /\ UNCHANGED <<inbox, reply, remote>>

ConnectTarget ==
  /\ spc = "connecting"
  /\ IF ThroughProxy THEN ProxyRequestTarget ELSE ConnectFromLocal
  /\ UNCHANGED <<wire, mark, method, harmed, ended, finished, destroyed, closed, piping, grace,
                 cfg, cpc, known, got, sent, unheard, faults>>

(* The answer of the other server, read as this library's client reads one:   *)
(* what follows it in its chunk is lost, what is cut off comes as data, and a *)
(* parser that throws does so where nobody catches it.                        *)
UpstreamResponse(n) ==
  LET chunk == SubSeq(inbox["remote"], 1, n)
      missing == Size["upstream"] - Lead(chunk) IN
  /\ spc = "waitUpstream" /\ "remote" \notin destroyed
  /\ n \in ChunkSizes(inbox["remote"], 0)
  /\ inbox' = [inbox EXCEPT !["remote"] = SubSeq(@, n + 1, Len(@))]
  /\ harmed' = (harmed \/ ~Exact(chunk))
  /\ IF Lead(chunk) = 1
     THEN ServerFails("failed")
     ELSE /\ spc' = IF ParseTarget(missing) = "throws" THEN "crashed" ELSE "responding"
          /\ UNCHANGED <<pending, ending>>
  /\ UNCHANGED <<wire, mark, method, reply>> /\ ServerSame

(* Its socket flows from the end of that negotiation on (client.ts:43), and   *)
(* until the answer to the own client has gone out nobody listens; version 1  *)
(* has wrapped it in a stream that does.                                      *)
UpstreamUnheard ==
  /\ spc = "responded" /\ cfg.route = "v5" /\ "remote" \notin destroyed
  /\ inbox["remote"] # <<>> /\ Head(inbox["remote"]) # FIN
  /\ inbox' = [inbox EXCEPT !["remote"] = Tail(@)]
  /\ unheard' = unheard + 1
  /\ UNCHANGED <<wire, pending, ended, ending, finished, destroyed, closed, piping, grace,
                 cfg, cpc, spc, mark, method, reply, remote, known, got, sent, faults, harmed>>

(* The answer to the client; only then does info know the target's socket.    *)
SendResponse ==
  /\ spc = "responding"
  /\ IF Writable("client")
     THEN /\ Write("client", ResponseMsg(reply))
          /\ known' = (remote = "open") /\ spc' = "responded"
          /\ UNCHANGED <<pending, ending>>
     ELSE ServerFails("failed") /\ UNCHANGED <<wire, known>>
  /\ UNCHANGED <<inbox, mark, method, reply, harmed, ended, finished, destroyed, closed, piping, grace,
                 cfg, cpc, remote, got, sent, unheard, faults>>

StartPipe ==
  /\ spc = "responded"
  /\ IF known /\ destroyed = {}
     THEN piping' = TRUE /\ spc' = "piping" /\ UNCHANGED <<pending, ending>>
     ELSE ServerFails("failed") /\ UNCHANGED piping
  /\ UNCHANGED <<inbox, wire, mark, method, reply, harmed, ended, finished, destroyed, closed, grace,
                 cfg, cpc, remote, known, got, sent, unheard, faults>>

-----------------------------------------------------------------------------
SocksNext ==
  \/ ClientStart \/ ClientTimeout \/ ClientReads \/ ClientSends \/ TargetSends
  \/ \E n \in 1..4 + TargetData : \/ ClientWaitMethod(n) \/ ClientWaitAuth(n) \/ ClientWaitResponse(n)
                                  \/ RouteConnection(n) \/ ServerWaitMethod(n) \/ ServerWaitUserPass(n)
                                  \/ ServerWaitRequest(n) \/ ServerWaitHello(n) \/ UpstreamResponse(n)
  \/ \E s \in Sides : EndLeaves(s) \/ EndBeforePipe(s) \/ ResetBeforePipe(s)
  \/ ServerTimeout \/ ConnectTarget \/ UpstreamUnheard \/ SendResponse \/ StartPipe
  \/ PipeNext /\ UNCHANGED socksVars

SocksSpec == SocksInit /\ [][SocksNext]_connectionVars /\ PipeFairness
-----------------------------------------------------------------------------
(* A client that takes its negotiation for successful has a server that did   *)
(* connect to the target, with a method both have (v5/client.ts, v5/server.ts,*)
(* vc1/client.ts, vc1/server.ts), however the messages were cut.              *)
AgreeOnTarget ==
  cpc = "done" => /\ remote = "open" /\ reply = "succeeded"
                  /\ cfg.version = 5 => /\ method \in cfg.sm
                                        /\ method \in {cfg.cm[i] : i \in DOMAIN cfg.cm}

(* No target is connected to for a client that has neither the password nor a *)
(* server that asks for none.                                                 *)
OnlyAuthenticated ==
  remote = "open" => cfg.creds = "right" \/ (cfg.version = 5 /\ NoAuth \in cfg.sm)

(* An exception nobody catches takes a cut message, or a connection that      *)
(* breaks, and never comes from the peer's configuration.                     *)
SocksCrashOnlyIfHarmed ==
  /\ cpc = "crashed" => harmed
  /\ spc = "crashed" => harmed \/ faults > 0

(* The data among units are an end's chunks in order, from the first one that *)
(* was not lost.                                                              *)
IsData(unit) == unit[1] = "data"
InOrder(units, lost) ==
  \A i \in DOMAIN units :
    IsData(units[i]) => units[i] = <<"data", lost + Cardinality({j \in 1..i : IsData(units[j])}), 1>>

(* As long as every chunk of the negotiations was one message, the client's   *)
(* application receives what the target sent in order and without a gap: from *)
(* its start, unless another server of version 5 is in between, where a       *)
(* beginning may be lost, and nothing but a beginning.  The target always     *)
(* receives what the client sent from its start.  The text of an error may    *)
(* reach either, but only when the pipe never stood.                          *)
RelayInOrder ==
  /\ ~harmed => InOrder(got, unheard)
  /\ unheard > 0 => cfg.route = "v5"
  /\ ~harmed /\ piping => \A i \in DOMAIN got : IsData(got[i])
  /\ InOrder(wire["remote"], 0)

(* Once one of two piped sockets has ended or gone, both are closed in the    *)
(* end, however slowly the peers read (server.ts:75-104).                     *)
BothClose == (piping /\ (ended # {} \/ destroyed # {})) ~> (destroyed = Sides)
=============================================================================
