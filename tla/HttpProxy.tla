-------------------------------- MODULE HttpProxy --------------------------------
(* One exchange through the proxy of lib/http-proxy: the client's request,    *)
(* the hooks that are awaited, the request to the target with its timers, the *)
(* redirects that are followed, the answer that is piped back or the upgraded *)
(* connection, and the list of statuses that other exchanges share.           *)
(*                                                                            *)
(* The target and the client may be slow, silent or gone at every step.       *)
EXTENDS Naturals, Sequences, SequencesExt

CONSTANTS
  Exchanges,       \* the exchanges considered, see ProxyConfig
  MaxStatus,     \* maxSize of preProxyReqHook
  MaxRedirects,  \* maxRedirects
  Chunks,        \* chunks of the target's body
  MaxOthers,     \* other requests that reach the status list (bound)
  MaxTime        \* the clock's last instant (bound)

ASSUME ProxyAssumption == MaxStatus \in Nat \ {0} /\ Chunks \in Nat

Hosts == {"A", "B"}
Codes == {301, 307}      \* a redirect that turns into a GET, one that keeps the method
Failures == {"ECONNREFUSED", "ECONNRESET"}
Malformed == "malformed" \* a Location that new URL does not take

(* mode: proxyHttpRequest without or with followRedirects, or                 *)
(* proxyWebSocketRequest.  originData: the body does not come from the        *)
(* request.  head: an upgrade whose first bytes came with the request.  busy: *)
(* other requests come meanwhile.                                             *)
ProxyConfig ==
  [mode : {"http", "redirect", "ws"}, timeout : BOOLEAN, proxyTimeout : BOOLEAN, originData : BOOLEAN,
   urlRewrite : BOOLEAN, hostRewrite : BOOLEAN, head : BOOLEAN, busy : BOOLEAN]

VARIABLES
  options, step, \* what the exchange is, and where it is
  client,        \* the client's connection: "open" or "gone"
  upload,        \* the request's body: "arriving", or "read" and its 'close' event past
  conn,          \* the connection to the target: "none", "open" or "closed"
  received,      \* body chunks that came from the target
  location,      \* the Location of the target's answer, "" without one
  out,           \* what has been given to the client's response
  headers,       \* the headers object of the request to the target
  hops,          \* the requests sent, in order
  tunnelEnded,   \* end() of the socket of a client that asked for an upgrade has been called
  listening,     \* and that socket has a listener for errors
  harm, crashed,
  now, began, others, statusList

exchangeVars == <<options, step, client, upload, conn, received, location, out, headers, hops,
                  tunnelEnded, listening>>
proxyVars == <<exchangeVars, harm, crashed, now, began, others, statusList>>

Init ==
  /\ options \in Exchanges
  /\ step = "preparing" /\ client = "open" /\ upload = "arriving" /\ conn = "none"
  /\ received = 0 /\ location = "" /\ out = <<>> /\ headers = {} /\ hops = <<>>
  /\ tunnelEnded = FALSE /\ listening = FALSE
  /\ harm = {} /\ crashed = FALSE
  /\ now = 0 /\ began = 0 /\ others = 0 /\ statusList = <<>>

----------------------------------------------------------------------------
(* The list of statuses, newest first.                                        *)

IdsInUse == {statusList[k].id : k \in DOMAIN statusList}

(* The time of the request, or the first numbered one that is free; the last  *)
(* number is taken free or not.                                               *)
\* Mutant: the first id is taken without a look at the list.
NewIdUnchecked(ts) == <<ts>>

NewId(ts) ==
  LET tried == <<<<ts>>>> \o [k \in 1..MaxStatus |-> <<ts, k>>]
      free == {k \in DOMAIN tried : tried[k] \notin IdsInUse}
  IN tried[IF free = {} THEN MaxStatus + 1 ELSE CHOOSE k \in free : \A l \in free : k <= l]

(* maxAge is not given by startProxyServer, so nothing is dropped by its age. *)
PreProxyReq(ts) ==
  LET kept == IF Len(statusList) > MaxStatus THEN Front(statusList) ELSE statusList
  IN statusList' = <<[ts |-> ts, id |-> NewId(ts)]>> \o kept

OtherRequest ==
  /\ options.busy /\ others < MaxOthers /\ ~crashed
  /\ others' = others + 1
  /\ PreProxyReq(now)
  /\ UNCHANGED <<exchangeVars, harm, crashed, now, began>>

Tick ==
  /\ options.busy /\ now < MaxTime
  /\ now' = now + 1
  /\ UNCHANGED <<exchangeVars, harm, crashed, began, others, statusList>>

statusVars == <<now, others, statusList>>

----------------------------------------------------------------------------
(* Beginning the exchange.                                                    *)

(* Where the request goes and the headers it has once the hooks are through.  *)
ProxyRequest ==
  [host |-> IF options.urlRewrite THEN "B" ELSE "A", method |-> "POST",
   headers |-> {"authorization", "content-type"}]

(* What is given to the client's response or socket.                          *)
ToClient(unit) == out' = IF client = "open" THEN Append(out, unit) ELSE out

(* The hooks have been awaited; the request to the target is made.  A head is *)
(* written to a request that has been ended: an error, which ends the socket, *)
(* though not the request.                                                    *)
Prepare ==
  LET headLate == options.mode = "ws" /\ options.head
  IN
  /\ step = "preparing" /\ ~crashed
  /\ step' = "requesting" /\ conn' = "open"
  /\ headers' = ProxyRequest.headers /\ hops' = <<ProxyRequest>>
  /\ PreProxyReq(began)
  /\ tunnelEnded' = headLate
  /\ IF headLate THEN ToClient(<<"end">>) /\ harm' = harm \cup {"cut"} ELSE UNCHANGED <<out, harm>>
  /\ UNCHANGED <<options, client, upload, received, location, listening, crashed, now, began,
                 others>>

(* Nobody awaits the handlers: a hook that throws, or options no request can  *)
(* be made of, is an unhandled rejection.                                     *)
PrepareFails ==
  /\ step = "preparing" /\ ~crashed
  /\ crashed' = TRUE /\ harm' = harm \cup {"hook"}
  /\ UNCHANGED <<exchangeVars, now, began, others, statusList>>

(* The body is piped to the target to its end; the request's 'close' event    *)
(* follows while the socket lives, and there is only one.                     *)
UploadRead ==
  /\ options.mode = "http" /\ ~options.originData /\ step # "preparing" /\ ~crashed
  /\ client = "open" /\ upload = "arriving"
  /\ upload' = "read"
  /\ UNCHANGED <<options, step, client, conn, received, location, out, headers, hops, tunnelEnded,
                 listening, harm, crashed, began, statusVars>>

----------------------------------------------------------------------------
(* The end of an exchange over http.                                          *)

Complete == out # <<>> /\ Last(out) \in {<<"error">>, <<"end">>}

\* Mutant: the request to the target is done with, so a failure of its answer ends the client's.
RequestErrorEndsAnswer(code) ==
  /\ conn' = "closed" /\ step' = "over"
  /\ ToClient(IF step = "requesting" THEN <<"error">> ELSE <<"end">>)
  /\ UNCHANGED <<tunnelEnded, harm>>

(* The request to the target fails: an answer with the status of the code,    *)
(* none for a reset when the client has left; an error after the response is  *)
(* not listened to, and a response that is cut leaves the client's open.  For *)
(* an upgrade any error ends the client's socket, if nothing did before: an   *)
(* answer that was being given there looks as if it were through.             *)
RequestError(code) ==
  /\ conn' = "closed"
  /\ step' = IF step = "requesting" THEN "over" ELSE step
  /\ \/ /\ options.mode = "ws"
        /\ tunnelEnded' = TRUE
        /\ IF tunnelEnded THEN UNCHANGED <<out, harm>>
                          ELSE ToClient(<<"end">>) /\ harm' = harm \cup {"cut"}
     \/ /\ options.mode # "ws" /\ UNCHANGED <<tunnelEnded, harm>>
        /\ IF step # "requesting" \/ (code = "ECONNRESET" /\ client = "gone")
           THEN UNCHANGED out ELSE ToClient(<<"error">>)

TargetFails(code) ==
  /\ conn = "open" /\ ~crashed /\ step # "tunnel"
  /\ RequestError(code)
  /\ UNCHANGED <<options, client, upload, received, location, headers, hops, listening, crashed,
                 began, statusVars>>

(* The target ends the connection within its answer: no error of the request, *)
(* and nobody ends what was piped from it.                                    *)
AnswerCut ==
  /\ step \in {"answering", "streaming"} /\ conn = "open" /\ ~crashed
  /\ conn' = "closed"
  /\ UNCHANGED <<options, step, client, upload, received, location, out, headers, hops,
                 tunnelEnded, listening, harm, crashed, began, statusVars>>

\* Mutant: the timer is off once the response is there.
ProxyTimeoutWhileRequesting ==
  /\ options.proxyTimeout /\ options.mode # "redirect" /\ conn = "open" /\ ~crashed /\ step = "requesting"
  /\ RequestError("")
  /\ UNCHANGED <<options, client, upload, received, location, headers, hops, listening, crashed,
                 began, statusVars>>

(* The timer of the request to the target, which requests that follow         *)
(* redirects do not have and an upgrade takes off.                            *)
ProxyTimeout ==
  /\ options.proxyTimeout /\ options.mode # "redirect" /\ conn = "open" /\ ~crashed
  /\ step \notin {"upgrading", "tunnel"}
  /\ RequestError("")
  /\ UNCHANGED <<options, client, upload, received, location, headers, hops, listening, crashed,
                 began, statusVars>>

(* The client leaves.  The handler notices while the request's only 'close'   *)
(* is still to come, and then drops the request to the target.                *)
ClientGone ==
  /\ client = "open" /\ ~crashed /\ options.mode # "ws"
  /\ client' = "gone"
  /\ IF options.mode = "http" /\ step # "preparing" /\ upload = "arriving" /\ conn = "open"
     THEN conn' = "closed" /\ step' = IF step = "requesting" THEN "over" ELSE step
     ELSE UNCHANGED <<conn, step>>
  /\ UNCHANGED <<options, upload, received, location, out, headers, hops, tunnelEnded, listening,
                 harm, crashed, began, statusVars>>

ClientLeaves == ClientGone
(* The socket's idle timer destroys it; there is no other listener.           *)
IncomingTimeout == options.timeout /\ ~Complete /\ ClientGone

----------------------------------------------------------------------------
(* The answer.                                                                *)

\* Mutant: each hop starts over from the headers the client sent.
KeptHeadersAnew(code, from, to) ==
  ProxyRequest.headers \ ((IF code = 301 THEN {"content-type"} ELSE {})
                          \cup (IF from # to THEN {"authorization"} ELSE {}))

(* The options of the next hop are a copy, their headers the same object:     *)
(* what is deleted stays deleted.                                             *)
KeptHeaders(code, from, to) ==
  headers \ ((IF code = 301 THEN {"content-type"} ELSE {})
             \cup (IF from # to THEN {"authorization"} ELSE {}))

FollowRedirect(code, to) ==
  LET last == Last(hops)
      next == [host |-> to, method |-> IF code = 301 THEN "GET" ELSE last.method,
               headers |-> KeptHeaders(code, last.host, to)]
  IN
  /\ options.mode = "redirect" /\ step = "requesting" /\ conn = "open" /\ ~crashed
  /\ headers' = next.headers
  /\ IF Len(hops) > MaxRedirects
     THEN conn' = "closed" /\ step' = "over" /\ ToClient(<<"error">>) /\ UNCHANGED hops
     ELSE hops' = Append(hops, next) /\ UNCHANGED <<conn, step, out>>
  /\ UNCHANGED <<options, client, upload, received, location, tunnelEnded, listening, harm,
                 crashed, began, statusVars>>

(* Where a redirect leads is worked out in the listener of the response.      *)
RedirectMalformed ==
  /\ options.mode = "redirect" /\ step = "requesting" /\ conn = "open" /\ ~crashed
  /\ crashed' = TRUE /\ harm' = harm \cup {"location"}
  /\ UNCHANGED <<exchangeVars, began, statusVars>>

(* The response comes; the hooks for it are awaited.                          *)
Response(to) ==
  /\ step = "requesting" /\ conn = "open" /\ ~crashed
  /\ options.mode = "redirect" => to = ""
  /\ step' = "answering" /\ location' = to
  /\ UNCHANGED <<options, client, upload, conn, received, out, headers, hops, tunnelEnded,
                 listening, harm, crashed, began, statusVars>>

(* hostRewrite = true: a redirect is sent back to the host the client used.   *)
RewriteLocation(to) == IF to # "" /\ options.hostRewrite THEN "proxy" ELSE to
RewriteFails == location = Malformed /\ options.hostRewrite
WrittenAfterEnd == options.mode = "ws" /\ tunnelEnded

Processed ==
  /\ step = "answering" /\ ~crashed /\ ~RewriteFails /\ ~WrittenAfterEnd
  /\ step' = "streaming"
  /\ ToClient(<<"head", RewriteLocation(location)>>)
  /\ UNCHANGED <<options, client, upload, conn, received, location, headers, hops, tunnelEnded,
                 listening, harm, crashed, began, statusVars>>

(* An answer that is no upgrade, for a socket that has been ended: the write  *)
(* is an error that nobody listens for.                                       *)
ProcessedLate ==
  /\ step = "answering" /\ ~crashed /\ ~RewriteFails /\ WrittenAfterEnd
  /\ crashed' = TRUE /\ harm' = harm \cup {"late"}
  /\ UNCHANGED <<exchangeVars, began, statusVars>>

(* A hook, or the rewriting of a Location, that throws: an error for the      *)
(* client and a response nobody reads; in a listener of the upgrade's request *)
(* it is an unhandled rejection.                                              *)
ProcessingFails ==
  /\ step \in {"answering", "upgrading"} /\ ~crashed
  /\ harm' = harm \cup {IF step = "answering" /\ RewriteFails THEN "location" ELSE "hook"}
  /\ IF options.mode = "ws"
     THEN crashed' = TRUE /\ UNCHANGED <<step, out>>
     ELSE step' = "over" /\ ToClient(<<"error">>) /\ UNCHANGED crashed
  /\ UNCHANGED <<options, client, upload, conn, received, location, headers, hops, tunnelEnded,
                 listening, began, statusVars>>

(* The body is piped while the client is there to take it.                    *)
Chunk ==
  /\ step = "streaming" /\ conn = "open" /\ client = "open" /\ received < Chunks /\ ~crashed
  /\ received' = received + 1 /\ ToClient(<<"chunk">>)
  /\ UNCHANGED <<options, step, client, upload, conn, location, headers, hops, tunnelEnded,
                 listening, harm, crashed, began, statusVars>>

(* The answer's end; one for a client that has left may still fit the buffers *)
BodyEnds ==
  /\ step = "streaming" /\ conn = "open" /\ ~crashed
  /\ received = Chunks \/ client = "gone"
  /\ conn' = "closed" /\ step' = "over" /\ ToClient(<<"end">>)
  /\ tunnelEnded' = (tunnelEnded \/ options.mode = "ws")
  /\ UNCHANGED <<options, client, upload, received, location, headers, hops, listening, harm,
                 crashed, began, statusVars>>

----------------------------------------------------------------------------
(* Upgraded connections.                                                      *)

\* Mutant: the client's socket has its listener only once the hooks are through.
UpgradeUnheard ==
  /\ options.mode = "ws" /\ step = "requesting" /\ conn = "open" /\ ~crashed
  /\ step' = "upgrading"
  /\ UNCHANGED <<options, client, upload, conn, received, location, out, headers, hops,
                 tunnelEnded, listening, harm, crashed, began, statusVars>>

(* The 'upgrade' event; the listeners of both sockets' errors are attached    *)
(* before the hooks are awaited.                                              *)
Upgrade ==
  /\ options.mode = "ws" /\ step = "requesting" /\ conn = "open" /\ ~crashed
  /\ step' = "upgrading" /\ listening' = TRUE
  /\ UNCHANGED <<options, client, upload, conn, received, location, out, headers, hops,
                 tunnelEnded, harm, crashed, began, statusVars>>

(* The sockets are joined; writing to one that has been ended is an error     *)
(* that ends the target's.                                                    *)
Tunnel ==
  /\ step = "upgrading" /\ ~crashed
  /\ IF tunnelEnded THEN step' = "over" /\ conn' = "closed" ELSE step' = "tunnel" /\ UNCHANGED conn
  /\ UNCHANGED <<options, client, upload, received, location, out, headers, hops, tunnelEnded,
                 listening, harm, crashed, began, statusVars>>

(* A reset of the client's upgraded socket: with no listener it is thrown.    *)
ClientResets ==
  /\ options.mode = "ws" /\ client = "open" /\ ~crashed
  /\ client' = "gone"
  /\ IF listening
     THEN conn' = "closed" /\ UNCHANGED <<crashed, harm>>
     ELSE /\ crashed' = TRUE /\ UNCHANGED conn
          /\ harm' = IF step \in {"upgrading", "tunnel"} THEN harm ELSE harm \cup {"early reset"}
  /\ UNCHANGED <<options, step, upload, received, location, out, headers, hops, tunnelEnded,
                 listening, began, statusVars>>

(* An end, or an error of the target's socket, passes through the tunnel.     *)
TunnelEnds ==
  /\ step = "tunnel" /\ conn = "open" /\ ~crashed
  /\ conn' = "closed" /\ tunnelEnded' = TRUE /\ step' = "over"
  /\ UNCHANGED <<options, client, upload, received, location, out, headers, hops, listening, harm,
                 crashed, began, statusVars>>

----------------------------------------------------------------------------
Next ==
  \/ Prepare \/ PrepareFails \/ UploadRead
  \/ ClientLeaves \/ IncomingTimeout \/ ProxyTimeout
  \/ \E code \in Failures : TargetFails(code)
  \/ AnswerCut
  \/ \E code \in Codes, to \in Hosts : FollowRedirect(code, to)
  \/ RedirectMalformed
  \/ \E to \in {"", "A", Malformed} : Response(to)
  \/ Processed \/ ProcessedLate \/ ProcessingFails \/ Chunk \/ BodyEnds
  \/ Upgrade \/ Tunnel \/ ClientResets \/ TunnelEnds
  \/ OtherRequest \/ Tick

(* Hooks return and timers fire; the client and the target owe nothing.       *)
Fairness ==
  /\ WF_proxyVars(Prepare) /\ WF_proxyVars(Processed) /\ WF_proxyVars(Tunnel)
  /\ WF_proxyVars(ProxyTimeout) /\ WF_proxyVars(IncomingTimeout)

Spec == Init /\ [][Next]_proxyVars /\ Fairness

----------------------------------------------------------------------------
(* Over http a client never takes a cut answer for a whole one: what it has   *)
(* been given is one error, or the target's answer from its head on, with all *)
(* its chunks if it has been ended, and its Location as hostRewrite promises. *)
(* A client that asked for an upgrade is given the answer of a target that    *)
(* refuses it in the same order and whole, unless its socket had to be ended  *)
(* for a failure of the request ("cut"): that end the client cannot tell.     *)
AnswerOfTarget ==
  LET head == <<"head", IF options.hostRewrite /\ location # "" THEN "proxy" ELSE location>>
      whole == <<head>> \o [k \in 1..Chunks |-> <<"chunk">>] \o <<<<"end">>>>
  IN \/ out = <<<<"error">>>> /\ options.mode # "ws"
     \/ IsPrefix(out, whole)
     \/ /\ options.mode = "ws" /\ "cut" \in harm
        /\ Last(out) = <<"end">> /\ (Len(out) > 1 => IsPrefix(Front(out), whole))

(* The credentials of the client go to no host but the one its request was    *)
(* meant for, however the redirects lead away and back.                       *)
NoSecretsAcross ==
  \A k \in DOMAIN hops :
    "authorization" \in hops[k].headers => \A j \in 1..k : hops[j].host = ProxyRequest.host

(* An id names one status, so that the page finds the one asked for; only the *)
(* last number may be taken twice, by more requests of one instant than there *)
(* are numbers.  And the list holds at most one status over its maximum.      *)
StatusesTold ==
  /\ Len(statusList) <= MaxStatus + 1
  /\ \A i, j \in DOMAIN statusList :
       i # j /\ statusList[i].id = statusList[j].id =>
         statusList[i].id = <<statusList[i].ts, MaxStatus>>

(* What takes the process down, besides hooks that throw: a redirect to       *)
(* follow with a malformed Location; and of a client that asked for an        *)
(* upgrade and has not got one, a reset, an answer for it after its socket    *)
(* was ended, or such a Location to rewrite.  Over http nothing else does,    *)
(* and an upgraded connection nothing that either end does.                   *)
ProxyCrashOnlyIfHarmed ==
  crashed =>
    \/ "hook" \in harm
    \/ options.mode = "redirect" /\ "location" \in harm
    \/ options.mode = "ws" /\ ~listening /\ harm \cap {"early reset", "late", "location"} # {}

(* With its timers a plain exchange lets go of both connections: whatever the *)
(* client and the target fail to do, the answer is complete or the client's   *)
(* connection is closed, and the one to the target is not kept.               *)
BothReleased ==
  options.mode = "http" /\ options.timeout /\ options.proxyTimeout =>
    /\ <>(crashed \/ Complete \/ client = "gone")
    /\ [](conn = "open" => <>(crashed \/ conn = "closed"))

(* proxyTimeout aborts the request to the target "if exceeded" (types.ts:14). *)
OutgoingTimeoutHolds ==
  options.proxyTimeout => [](conn = "open" /\ step = "requesting" => <>(crashed \/ step # "requesting"))
=============================================================================
