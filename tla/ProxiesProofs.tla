----------------------------- MODULE ProxiesProofs -----------------------------
(***************************************************************************)
(* The two proxies.  socks: however a client is configured and its         *)
(* messages are cut or joined, a target is connected to only for one that  *)
(* may, and both ends mean the same target; what ends a process; and what  *)
(* is relayed stays in order.                                              *)
(* http-proxy: whatever number of redirects is followed and in whatever    *)
(* order the events of an exchange come, where credentials go, what is     *)
(* told of it, what the client is given and what ends the process.         *)
(***************************************************************************)
EXTENDS Socks, HttpProxy, FiniteSetTheorems, FunctionTheorems, WellFoundedInduction, SequenceTheorems,
        TLAPS

LEMMA LeastOf ==
  ASSUME NEW S \in SUBSET Nat, S # {}
  PROVE  \E m \in S : \A n \in S : m <= n
<1>1. PICK m \in S : \A n \in S : ~ (<<n, m>> \in OpToRel(<, Nat))
  BY WFMin, NatLessThanWellFounded, Zenon
<1>2. \A n \in S : ~ (n < m)
  BY <1>1 DEF OpToRel
<1>q. QED BY <1>2

-----------------------------------------------------------------------------
(* socks                                                                     *)

MayConnect == cfg.creds = "right" \/ (cfg.version = 5 /\ NoAuth \in cfg.sm)

(* What can come from a client, with the password it is configured with, or    *)
(* from the target's side.                                                     *)
Kinds == {"methods", "request", "hello", "upstream", "data"}
Words == {"first", "domain", "ipv6"} \cup Nat
Units == {FIN} \cup {<<k, w, i>> : k \in Kinds, w \in Words, i \in Nat}
               \cup {<<"userpass", cfg.creds, i>> : i \in Nat}

Stream == inbox["client"]

AuthInv ==
  /\ cfg \in Configs
  /\ inbox \in [Sides -> Seq(Units)]
  /\ sent \in [Sides -> Nat]
  /\ spc \in {"waitMethod", "waitUserPass"} => cfg.version = 5
  /\ spc = "waitUserPass" => mark = 0
  /\ spc \in {"waitRequest", "connecting"} => MayConnect
  /\ remote = "open" => MayConnect

LEMMA AuthInit == SocksInit => AuthInv
BY DEF SocksInit, PipeInit, AuthInv, Sides

(* A step that leaves the configuration: what it puts into the client's       *)
(* stream are units of a client so configured.                                *)
LEMMA UnitsSame == ASSUME UNCHANGED cfg PROVE Units' = Units /\ MayConnect' = MayConnect
BY DEF Units, MayConnect

LEMMA ClientMessages ==
  ASSUME cfg \in Configs
  PROVE  /\ MethodsMsg \in Seq(Units) /\ UserPassMsg(cfg.creds) \in Seq(Units)
         /\ RequestMsg(cfg.addr) \in Seq(Units) /\ HelloMsg(cfg.addr) \in Seq(Units)
         /\ UpstreamMsg(cfg.addr) \in Seq(Units)
         /\ FIN \in Units /\ \A k \in Nat : <<"data", k, 1>> \in Units
<1>1. cfg.creds \in {"right", "wrong"} /\ cfg.addr \in {"domain", "ipv6"}
  BY ConfigAssumption
<1>2. /\ \A k \in Kinds, w \in Words, i \in Nat : <<k, w, i>> \in Units
      /\ \A i \in Nat : <<"userpass", cfg.creds, i>> \in Units
  BY DEF Units
<1>3. /\ {"methods", "request", "hello", "upstream", "data"} \subseteq Kinds
      /\ "first" \in Words /\ cfg.addr \in Words /\ Nat \subseteq Words
  BY <1>1 DEF Kinds, Words
<1>4. \A i \in Nat : /\ <<"methods", "first", i>> \in Units
                     /\ <<"request", cfg.addr, i>> \in Units /\ <<"hello", cfg.addr, i>> \in Units
                     /\ <<"upstream", cfg.addr, i>> \in Units
  BY <1>2, <1>3
<1>5. Size["methods"] = 2 /\ Size["userpass"] = 2 /\ Size["request"] = 3 /\ Size["hello"] = 3
      /\ Size["upstream"] = 4
  BY DEF Size
<1>6. ASSUME NEW kind, NEW what, Size[kind] \in Nat, \A i \in Nat : <<kind, what, i>> \in Units
      PROVE  Msg(kind, what) \in Seq(Units)
  BY <1>6 DEF Msg
<1>7. MethodsMsg \in Seq(Units) /\ UserPassMsg(cfg.creds) \in Seq(Units)
  <2>1. Size["methods"] \in Nat /\ Size["userpass"] \in Nat
    BY <1>5
  <2>2. Msg("methods", "first") \in Seq(Units)
    BY <1>4, <1>6, <2>1
  <2>3. Msg("userpass", cfg.creds) \in Seq(Units)
    BY <1>2, <1>6, <2>1
  <2>q. QED BY <2>2, <2>3 DEF MethodsMsg, UserPassMsg
<1>8. /\ RequestMsg(cfg.addr) \in Seq(Units) /\ HelloMsg(cfg.addr) \in Seq(Units)
      /\ UpstreamMsg(cfg.addr) \in Seq(Units)
  <2>1. Size["request"] \in Nat /\ Size["hello"] \in Nat /\ Size["upstream"] \in Nat
    BY <1>5
  <2>2. Msg("request", cfg.addr) \in Seq(Units)
    BY <1>4, <1>6, <2>1
  <2>3. Msg("hello", cfg.addr) \in Seq(Units)
    BY <1>4, <1>6, <2>1
  <2>4. Msg("upstream", cfg.addr) \in Seq(Units)
    BY <1>4, <1>6, <2>1
  <2>q. QED BY <2>2, <2>3, <2>4 DEF RequestMsg, HelloMsg, UpstreamMsg
<1>9. FIN \in Units /\ \A k \in Nat : <<"data", k, 1>> \in Units
  BY <1>2, <1>3 DEF Units
<1>q. QED BY <1>7, <1>8, <1>9

(* A method that both have and that asks for no password lets a client in.    *)
LEMMA FirstCommon ==
  ASSUME cfg \in Configs, Common # {}
  PROVE  LET first == CHOOSE i \in Common : \A j \in Common : i <= j
         IN  cfg.cm[first] \in cfg.sm \cap {NoAuth, UserPass}
<1>1. cfg.cm \in Seq({NoAuth, UserPass})
  BY ConfigAssumption
<1>2. Common \subseteq Nat
  BY <1>1 DEF Common
<1>3. (CHOOSE i \in Common : \A j \in Common : i <= j) \in Common
  BY <1>2, LeastOf
<1>4. \A i \in Common : cfg.cm[i] \in cfg.sm /\ cfg.cm[i] \in {NoAuth, UserPass}
  BY <1>1 DEF Common
<1>q. QED BY <1>3, <1>4

(* A chunk that is taken off a stream lies in it.                             *)
LEMMA ChunkInside ==
  ASSUME NEW S, NEW units \in Seq(S), NEW n \in ChunkSizes(units, 0)
  PROVE  n \in Nat /\ 1 <= n /\ n <= Len(units)
<1> DEFINE sizes == {i \in DOMAIN units : units[i] # FIN}
<1>0. Len(units) \in Nat /\ DOMAIN units = 1..Len(units)
  OBVIOUS
<1>1. IsFiniteSet(1..Len(units)) /\ Cardinality(1..Len(units)) = Len(units)
  BY <1>0, FS_Interval
<1>2. sizes \subseteq 1..Len(units)
  BY <1>0
<1>3. Cardinality(sizes) <= Len(units) /\ Cardinality(sizes) \in Nat
  BY <1>0, <1>1, <1>2, FS_Subset, FS_CardinalityType
<1>4. n \in 1..Cardinality(sizes)
  BY DEF ChunkSizes
<1>q. QED BY <1>0, <1>3, <1>4

-----------------------------------------------------------------------------
(* What the steps do to the parts of the invariant.                           *)
LEMMA AuthKept ==
  ASSUME AuthInv, UNCHANGED cfg, inbox' \in [Sides -> Seq(Units)], sent' \in [Sides -> Nat],
         spc' = spc \/ spc' \notin {"waitMethod", "waitUserPass", "waitRequest", "connecting"},
         UNCHANGED <<remote, mark>>
  PROVE  AuthInv'
BY UnitsSame DEF AuthInv

(* Reading a stream leaves of it what comes later.                            *)
LEMMA InboxShrinks ==
  ASSUME inbox \in [Sides -> Seq(Units)], NEW s \in Sides
  PROVE  /\ [inbox EXCEPT ![s] = <<>>] \in [Sides -> Seq(Units)]
         /\ inbox[s] # <<>> => [inbox EXCEPT ![s] = Tail(@)] \in [Sides -> Seq(Units)]
         /\ \A n \in Nat : [inbox EXCEPT ![s] = SubSeq(@, n + 1, Len(@))] \in [Sides -> Seq(Units)]
<1>1. inbox[s] \in Seq(Units) /\ Len(inbox[s]) \in Nat
  OBVIOUS
<1>2. \A n \in Nat : SubSeq(inbox[s], n + 1, Len(inbox[s])) \in Seq(Units)
  BY <1>1
<1>3. inbox[s] # <<>> => Tail(inbox[s]) \in Seq(Units)
  BY <1>1
<1>4. <<>> \in Seq(Units)
  OBVIOUS
<1>q. QED BY <1>2, <1>3, <1>4

LEMMA InboxGrows ==
  ASSUME inbox \in [Sides -> Seq(Units)], NEW s \in Sides
  PROVE  /\ \A m \in Seq(Units) : [inbox EXCEPT ![s] = @ \o m] \in [Sides -> Seq(Units)]
         /\ \A u \in Units : [inbox EXCEPT ![s] = Append(@, u)] \in [Sides -> Seq(Units)]
<1>1. inbox[s] \in Seq(Units)
  OBVIOUS
<1>2. \A m \in Seq(Units) : inbox[s] \o m \in Seq(Units)
  BY <1>1
<1>3. \A u \in Units : Append(inbox[s], u) \in Seq(Units)
  BY <1>1
<1>q. QED BY <1>2, <1>3

LEMMA ClientSteps ==
  ASSUME AuthInv,
         \/ ClientStart \/ ClientTimeout \/ ClientReads \/ ClientSends \/ TargetSends
         \/ \E n \in 1..4 + TargetData : ClientWaitMethod(n) \/ ClientWaitAuth(n) \/ ClientWaitResponse(n)
  PROVE  AuthInv'
<1>1. inbox \in [Sides -> Seq(Units)] /\ sent \in [Sides -> Nat] /\ "client" \in Sides /\ "remote" \in Sides
  BY DEF AuthInv, Sides
<1>2. UNCHANGED <<cfg, spc, remote, mark>>
  BY DEF ClientStart, ClientTimeout, ClientReads, ClientSends, TargetSends, EndSends, ClientWaitMethod,
         ClientWaitAuth, ClientWaitResponse, ClientTakes
<1>3. CASE ClientSends \/ TargetSends
  <2>1. PICK s \in Sides : /\ sent' = [sent EXCEPT ![s] = @ + 1]
                           /\ inbox' = [inbox EXCEPT ![s] = Append(@, <<"data", sent[s] + 1, 1>>)]
    BY <1>1, <1>3 DEF ClientSends, TargetSends, EndSends
  <2>2. sent' \in [Sides -> Nat] /\ sent[s] + 1 \in Nat
    BY <1>1, <2>1
  <2>3. <<"data", sent[s] + 1, 1>> \in Units
    BY <2>2, ClientMessages DEF AuthInv
  <2>4. inbox' \in [Sides -> Seq(Units)]
    BY <1>1, <2>1, <2>3, InboxGrows
  <2>q. QED BY <1>2, <2>2, <2>4, AuthKept
<1>4. CASE ~(ClientSends \/ TargetSends)
  <2>1. sent' = sent
    BY <1>4 DEF ClientStart, ClientTimeout, ClientReads, ClientWaitMethod, ClientWaitAuth, ClientWaitResponse,
                ClientTakes
  <2> DEFINE Sent == \E m \in {MethodsMsg, HelloMsg(cfg.addr), UserPassMsg(cfg.creds), RequestMsg(cfg.addr)} :
                        inbox' = [inbox EXCEPT !["client"] = @ \o m]
  <2>2. inbox' = inbox \/ Sent
    <3>1. CASE ClientStart
      BY <3>1 DEF ClientStart
    <3>2. CASE ClientTimeout \/ ClientReads
      BY <3>2 DEF ClientTimeout, pipeVars, ClientReads
    <3>3. ASSUME NEW n, ClientWaitMethod(n) PROVE inbox' = inbox \/ Sent
      BY <3>3 DEF ClientWaitMethod, AfterMethod
    <3>4. ASSUME NEW n, ClientWaitAuth(n) \/ ClientWaitResponse(n) PROVE inbox' = inbox \/ Sent
      BY <3>4 DEF ClientWaitAuth, ClientWaitResponse
    <3>q. QED BY <1>4, <3>1, <3>2, <3>3, <3>4
  <2>3. {MethodsMsg, HelloMsg(cfg.addr), UserPassMsg(cfg.creds), RequestMsg(cfg.addr)} \subseteq Seq(Units)
    BY ClientMessages DEF AuthInv
  <2>4. \A m \in Seq(Units) : [inbox EXCEPT !["client"] = @ \o m] \in [Sides -> Seq(Units)]
    BY <1>1, InboxGrows
  <2>5. inbox' \in [Sides -> Seq(Units)]
    BY <1>1, <2>2, <2>3, <2>4
  <2>q. QED BY <1>1, <1>2, <2>1, <2>5, AuthKept
<1>q. QED BY <1>3, <1>4

(* An end that leaves, ends or breaks, and the pipe, let nobody in.           *)
LEMMA EndSteps ==
  ASSUME AuthInv,
         \/ \E s \in Sides : EndLeaves(s) \/ EndBeforePipe(s) \/ ResetBeforePipe(s)
         \/ PipeNext /\ UNCHANGED socksVars
  PROVE  AuthInv'
<1>1. inbox \in [Sides -> Seq(Units)] /\ sent \in [Sides -> Nat] /\ FIN \in Units
  BY ClientMessages DEF AuthInv
<1>2. UNCHANGED <<cfg, sent, remote, mark>> /\ (spc' = spc \/ spc' = "crashed")
  BY DEF EndLeaves, EndBeforePipe, ResetBeforePipe, socksVars
<1>3. inbox' \in [Sides -> Seq(Units)]
  <2>1. ASSUME NEW s \in Sides, EndLeaves(s)
        PROVE  inbox' \in [Sides -> Seq(Units)]
    BY <1>1, <2>1, InboxGrows DEF EndLeaves
  <2>2. ASSUME NEW s \in Sides, EndBeforePipe(s) \/ ResetBeforePipe(s) \/ PeerEnded(s)
        PROVE  inbox' \in [Sides -> Seq(Units)]
    BY <1>1, <2>2, InboxShrinks DEF EndBeforePipe, ResetBeforePipe, PeerEnded
  <2>3. ASSUME NEW s \in Sides, Forward(s)
        PROVE  inbox' \in [Sides -> Seq(Units)]
    BY <1>1, <2>3, InboxShrinks DEF Forward
  <2>4. ASSUME NEW s \in Sides, Flush(s) \/ Finish(s) \/ PipelineDone(s) \/ SocketClosed(s) \/ PipeError(s)
        PROVE  inbox' = inbox
    BY <2>4 DEF Flush, Finish, PipelineDone, SocketClosed, PipeError
  <2>5. ASSUME GraceOver \/ IdleTimeout
        PROVE  inbox' = inbox
    BY <2>5 DEF GraceOver, IdleTimeout
  <2>q. QED BY <1>1, <2>1, <2>2, <2>3, <2>4, <2>5 DEF PipeNext
<1>q. QED BY <1>1, <1>2, <1>3, AuthKept

(* The server: a chunk is taken, and the phase changes as the message says.   *)
LEMMA ServerTakesKeeps ==
  ASSUME AuthInv, NEW n \in Nat, ServerTakes(n), ServerSame
  PROVE  /\ inbox' \in [Sides -> Seq(Units)] /\ UNCHANGED <<cfg, sent, remote>> /\ sent' \in [Sides -> Nat]
         /\ cfg' \in Configs /\ MayConnect' = MayConnect /\ Units' = Units /\ mark' = 0
<1>1. inbox \in [Sides -> Seq(Units)] /\ "client" \in Sides
  BY DEF AuthInv, Sides
<1>2. inbox' \in [Sides -> Seq(Units)]
  BY <1>1, InboxShrinks DEF ServerTakes
<1>q. QED BY <1>2, UnitsSame DEF ServerSame, ServerTakes, AuthInv

LEMMA ServerWaits ==
  ASSUME AuthInv, NEW n \in Nat,
         ServerWaitMethod(n) \/ ServerWaitUserPass(n) \/ ServerWaitRequest(n) \/ ServerWaitHello(n)
  PROVE  AuthInv'
<1>1. /\ inbox' \in [Sides -> Seq(Units)] /\ UNCHANGED <<cfg, sent, remote>> /\ sent' \in [Sides -> Nat]
      /\ cfg' \in Configs /\ MayConnect' = MayConnect /\ Units' = Units /\ mark' = 0
  BY ServerTakesKeeps DEF ServerWaitMethod, ServerWaitUserPass, ServerWaitRequest, ServerWaitHello
<1>2. CASE spc' \in {"failed", "crashed"}
  BY <1>1, <1>2 DEF AuthInv
<1>3. CASE ServerWaitMethod(n) /\ spc' # "failed"
  <2>1. PICK m \in cfg.sm \cap {NoAuth, UserPass} : ReplyMethod(m)
    BY <1>3, FirstCommon DEF ServerWaitMethod, ServerFails, AuthInv
  <2>2. cfg.version = 5
    BY <1>3 DEF ServerWaitMethod, AuthInv
  <2>3. spc' = "waitUserPass" \/ (spc' = "waitRequest" /\ NoAuth \in cfg.sm)
    BY <2>1 DEF ReplyMethod
  <2>q. QED BY <1>1, <2>2, <2>3 DEF AuthInv, MayConnect
<1>4. CASE ServerWaitUserPass(n) /\ spc' # "failed"
  <2> DEFINE chunk == SubSeq(inbox["client"], 1, n)
  <2>1. chunk # <<>> /\ chunk[1][1] = "userpass" /\ chunk[1][2] = "right" /\ spc' = "waitRequest"
    BY <1>4 DEF ServerWaitUserPass, ServerFails, Whole
  <2>2. inbox["client"] \in Seq(Units)
    BY DEF AuthInv, Sides
  <2>3. 1 <= n /\ n <= Len(inbox["client"])
    <3>1. n \in ChunkSizes(inbox["client"], 0)
      BY <1>4 DEF ServerWaitUserPass, ServerTakes, AuthInv
    <3>q. QED BY <2>2, <3>1, ChunkInside
  <2>4. chunk[1] \in Units
    BY <2>1, <2>2, <2>3
  <2>5. cfg.creds = "right"
    BY <2>1, <2>4 DEF Units, Kinds, FIN
  <2>q. QED BY <1>1, <2>1, <2>5 DEF AuthInv, MayConnect
<1>5. CASE ServerWaitRequest(n) /\ spc' # "crashed"
  <2>1. spc' = "connecting" /\ MayConnect
    BY <1>5 DEF ServerWaitRequest, AfterRequest, AuthInv
  <2>q. QED BY <1>1, <2>1 DEF AuthInv
<1>6. CASE ServerWaitHello(n) /\ spc' \notin {"failed", "crashed"}
  <2>1. spc' = "connecting" /\ HelloAccepted
    BY <1>6 DEF ServerWaitHello, AfterRequest, ServerFails
  <2>q. QED BY <1>1, <2>1 DEF AuthInv, MayConnect, HelloAccepted
<1>q. QED BY <1>2, <1>3, <1>4, <1>5, <1>6

LEMMA ServerSteps ==
  ASSUME AuthInv,
         \/ \E n \in 1..4 + TargetData : RouteConnection(n)
         \/ ServerTimeout \/ ConnectTarget \/ SendResponse \/ StartPipe
  PROVE  AuthInv'
<1>1. UNCHANGED <<cfg, sent>> /\ Units' = Units /\ MayConnect' = MayConnect
  BY UnitsSame DEF RouteConnection, ServerTimeout, ServerSame, ConnectTarget, SendResponse, StartPipe
<1>2. CASE ConnectTarget
  <2>1. MayConnect /\ spc' \in {"responding", "waitUpstream", "failed"}
    BY <1>2 DEF ConnectTarget, AuthInv, ProxyRequestTarget, ConnectFromLocal, ServerFails
  <2>2. inbox' = inbox \/ inbox' = [inbox EXCEPT !["remote"] = UpstreamMsg(cfg.addr)]
    BY <1>2 DEF ConnectTarget, ProxyRequestTarget, ConnectFromLocal
  <2>3. inbox' \in [Sides -> Seq(Units)]
    BY <2>2, ClientMessages DEF AuthInv
  <2>q. QED BY <1>1, <2>1, <2>3 DEF AuthInv
<1>3. CASE \E n \in 1..4 + TargetData : RouteConnection(n)
  <2>1. /\ UNCHANGED <<inbox, remote>>
        /\ spc' \in {"refused", "waitHello"} \/ (spc' = "waitMethod" /\ cfg.version = 5)
    BY <1>3 DEF RouteConnection, ServerSame, NoHandler, ServerFails
  <2>q. QED BY <1>1, <2>1 DEF AuthInv
<1>4. CASE ServerTimeout \/ SendResponse \/ StartPipe
  <2>1. UNCHANGED <<inbox, remote>> /\ spc' \in {"failed", "responded", "piping"}
    BY <1>4 DEF ServerTimeout, ServerSame, SendResponse, StartPipe, ServerFails
  <2>q. QED BY <1>1, <2>1 DEF AuthInv
<1>q. QED BY <1>2, <1>3, <1>4

(* What an upstream server sends is read, or falls to the ground.             *)
UpstreamSteps == (\E n \in 1..4 + TargetData : UpstreamResponse(n)) \/ UpstreamUnheard

LEMMA UpstreamShrinks ==
  ASSUME AuthInv, UpstreamSteps
  PROVE  /\ inbox' \in [Sides -> Seq(Units)]
         /\ \E n \in Nat : inbox' = [inbox EXCEPT !["remote"] = SubSeq(@, n + 1, Len(@))]
         /\ Stream' = Stream
<1>1. inbox \in [Sides -> Seq(Units)] /\ "remote" \in Sides /\ "client" \in Sides
  BY DEF AuthInv, Sides
<1>2. \E n \in Nat : inbox' = [inbox EXCEPT !["remote"] = SubSeq(@, n + 1, Len(@))]
  <2>1. CASE UpstreamUnheard
    <3>1. inbox["remote"] \in Seq(Units) /\ inbox["remote"] # <<>>
          /\ inbox' = [inbox EXCEPT !["remote"] = Tail(@)]
      BY <1>1, <2>1 DEF UpstreamUnheard
    <3>2. Tail(inbox["remote"]) = SubSeq(inbox["remote"], 1 + 1, Len(inbox["remote"]))
      BY <3>1
    <3>3. inbox' = [inbox EXCEPT !["remote"] = SubSeq(@, 1 + 1, Len(@))]
      BY <3>1, <3>2
    <3>q. QED BY <3>3
  <2>2. CASE \E n \in 1..4 + TargetData : UpstreamResponse(n)
    <3>1. PICK n \in 1..4 + TargetData : UpstreamResponse(n)
      BY <2>2
    <3>2. n \in Nat
      BY DataAssumption
    <3>q. QED BY <3>1, <3>2 DEF UpstreamResponse
  <2>q. QED BY <2>1, <2>2 DEF UpstreamSteps
<1>3. inbox' \in [Sides -> Seq(Units)]
  BY <1>1, <1>2, InboxShrinks
<1>q. QED BY <1>1, <1>2, <1>3 DEF Stream

LEMMA UpstreamAuth == ASSUME AuthInv, UpstreamSteps PROVE AuthInv'
<1>1. UNCHANGED <<cfg, sent, remote, mark>> /\ sent' \in [Sides -> Nat]
  BY DEF UpstreamSteps, UpstreamResponse, UpstreamUnheard, ServerSame, AuthInv
<1>2. spc' \in {"responding", "responded", "failed", "crashed"}
  BY DEF UpstreamSteps, UpstreamResponse, UpstreamUnheard, ServerFails
<1>3. inbox' \in [Sides -> Seq(Units)]
  BY UpstreamShrinks
<1>q. QED BY <1>1, <1>2, <1>3, AuthKept

LEMMA AuthStep == AuthInv /\ [SocksNext]_connectionVars => AuthInv'
<1> SUFFICES ASSUME AuthInv, [SocksNext]_connectionVars PROVE AuthInv'
  OBVIOUS
<1>1. CASE UNCHANGED connectionVars
  BY <1>1, UnitsSame DEF connectionVars, pipeVars, socksVars, AuthInv
<1>2. CASE SocksNext
  <2>1. \A n \in 1..4 + TargetData : n \in Nat
    BY DataAssumption
  <2>q. QED BY <1>2, <2>1, ClientSteps, EndSteps, ServerWaits, ServerSteps, UpstreamAuth
            DEF SocksNext, UpstreamSteps
<1>q. QED BY <1>1, <1>2

(* A target is connected to only for a client with the password, or of a      *)
(* server that asks for none, wherever the network cuts the messages          *)
(* (v5/communication.ts:42-64, v5/server.ts, vc1/server.ts).                  *)
THEOREM OnlyTheAuthenticated == SocksSpec => []OnlyAuthenticated
<1>1. AuthInv => OnlyAuthenticated
  BY DEF AuthInv, MayConnect, OnlyAuthenticated
<1>q. QED BY <1>1, AuthInit, AuthStep, PTL DEF SocksSpec

-----------------------------------------------------------------------------
(* Both ends of a negotiation that is over mean the same target.              *)

(* What a server may write: no answer that the target is connected before it  *)
(* is.                                                                        *)
Replies == {"none", "refused", "succeeded"}
Answers == {<<k, w, i>> : k \in {"method", "auth", "text", "response"},
                          w \in {NoAuth, UserPass, "ok", "error"} \cup Replies, i \in Nat}
Told == {u \in Units \cup Answers : u[1] = "response" /\ u[2] = "succeeded" => remote = "open"}

Chosen == cfg.version = 5 => /\ method \in cfg.sm
                             /\ method \in {cfg.cm[i] : i \in DOMAIN cfg.cm}

Negotiated == {"waitUpstream", "responding", "responded", "piping", "failed", "crashed"}

ServerAgrees ==
  /\ spc = "waitHello" => cfg.version # 5
  /\ spc \in {"waitUserPass", "waitRequest", "connecting"} => Chosen
  /\ remote = "open" <=> reply = "succeeded"
  /\ remote = "open" => spc \in Negotiated /\ Chosen

AgreeInv ==
  /\ AuthInv
  /\ reply \in Replies
  /\ wire \in [Sides -> Seq(Told)]
  /\ pending \in [Sides -> Seq(Told)]
  /\ ServerAgrees
  /\ cpc = "done" => remote = "open"

LEMMA AgreeInit == SocksInit => AgreeInv
BY AuthInit DEF SocksInit, PipeInit, AgreeInv, ServerAgrees, Sides, Replies

(* What may be written may be written after the target was connected.         *)
LEMMA ToldStays ==
  ASSUME UNCHANGED cfg, remote = "open" => remote' = "open"
  PROVE  /\ Told \subseteq Told'
         /\ \A s \in Seq(Told) : s \in Seq(Told')
         /\ \A f \in [Sides -> Seq(Told)] : f \in [Sides -> Seq(Told')]
<1>1. Units' = Units /\ Answers' = Answers
  BY UnitsSame DEF Answers
<1>2. Told \subseteq Told'
  BY <1>1 DEF Told
<1>3. \A s \in Seq(Told) : s \in Seq(Told')
  BY <1>2
<1>q. QED BY <1>2, <1>3

LEMMA ServerMessages ==
  ASSUME reply \in Replies, reply = "succeeded" => remote = "open"
  PROVE  /\ \A m \in {NoAuth, UserPass} : MethodMsg(m) \in Seq(Told)
         /\ AuthMsg \in Seq(Told) /\ ErrorText \in Seq(Told) /\ ResponseMsg(reply) \in Seq(Told)
         /\ FIN \in Told /\ Units \subseteq Told
<1>1. \A k \in {"method", "auth", "text"}, w \in {NoAuth, UserPass, "ok", "error"}, i \in Nat :
        <<k, w, i>> \in Told
  BY DEF Told, Answers
<1>2. \A i \in Nat : <<"response", reply, i>> \in Told
  BY DEF Told, Answers
<1>3. Size["method"] = 2 /\ Size["auth"] = 2 /\ Size["text"] = 2 /\ Size["response"] = 4
  BY DEF Size
<1>4. ASSUME NEW kind, NEW what, Size[kind] \in Nat, \A i \in Nat : <<kind, what, i>> \in Told
      PROVE  Msg(kind, what) \in Seq(Told)
  BY <1>4 DEF Msg
<1>5. \A m \in {NoAuth, UserPass} : MethodMsg(m) \in Seq(Told)
  BY <1>1, <1>3, <1>4 DEF MethodMsg
<1>6. AuthMsg \in Seq(Told)
  BY <1>1, <1>3, <1>4 DEF AuthMsg
<1>7. ErrorText \in Seq(Told)
  BY <1>1, <1>3, <1>4 DEF ErrorText
<1>8. ResponseMsg(reply) \in Seq(Told)
  BY <1>2, <1>3, <1>4 DEF ResponseMsg
<1>9. Units \subseteq Told
  BY DEF Told, Units, Kinds, FIN
<1>10. FIN \in Units
  BY DEF Units
<1>q. QED BY <1>5, <1>6, <1>7, <1>8, <1>9, <1>10

-----------------------------------------------------------------------------
(* A step of anyone but the server leaves what the server has agreed to.      *)
LEMMA AgreeKept ==
  ASSUME AgreeInv, AuthInv', UNCHANGED <<cfg, method, reply, remote>>,
         wire' \in [Sides -> Seq(Told)], pending' \in [Sides -> Seq(Told)],
         spc' = spc \/ spc' \in {"failed", "crashed", "refused"} \/ {spc, spc'} \subseteq Negotiated,
         remote = "open" => spc' \in Negotiated,
         cpc' = "done" => remote = "open"
  PROVE  AgreeInv'
<1>1. wire' \in [Sides -> Seq(Told')] /\ pending' \in [Sides -> Seq(Told')]
  BY ToldStays
<1>2. Chosen' = Chosen
  BY DEF Chosen
<1>3. ServerAgrees'
  BY <1>2 DEF AgreeInv, ServerAgrees, Negotiated
<1>q. QED BY <1>1, <1>3 DEF AgreeInv, Replies

(* A stream, shortened or with more that may be told.                         *)
LEMMA StreamsOf ==
  ASSUME NEW T, NEW f \in [Sides -> Seq(T)], NEW s \in Sides
  PROVE  /\ [f EXCEPT ![s] = <<>>] \in [Sides -> Seq(T)]
         /\ f[s] # <<>> => /\ Head(f[s]) \in T
                           /\ [f EXCEPT ![s] = Tail(@)] \in [Sides -> Seq(T)]
         /\ \A n \in Nat : [f EXCEPT ![s] = SubSeq(@, n + 1, Len(@))] \in [Sides -> Seq(T)]
         /\ \A m \in Seq(T) : [f EXCEPT ![s] = @ \o m] \in [Sides -> Seq(T)]
         /\ \A u \in T : [f EXCEPT ![s] = Append(@, u)] \in [Sides -> Seq(T)]
         /\ \A S : [x \in Sides |-> IF x \in S THEN <<>> ELSE f[x]] \in [Sides -> Seq(T)]
<1>1. f[s] \in Seq(T) /\ Len(f[s]) \in Nat
  OBVIOUS
<1>2. \A n \in Nat : SubSeq(f[s], n + 1, Len(f[s])) \in Seq(T)
  BY <1>1
<1>3. f[s] # <<>> => Head(f[s]) \in T /\ Tail(f[s]) \in Seq(T)
  BY <1>1
<1>4. \A m \in Seq(T) : f[s] \o m \in Seq(T)
  BY <1>1
<1>5. \A u \in T : Append(f[s], u) \in Seq(T)
  BY <1>1
<1>6. <<>> \in Seq(T)
  OBVIOUS
<1>7. [f EXCEPT ![s] = <<>>] \in [Sides -> Seq(T)]
  BY <1>6
<1>8. f[s] # <<>> => [f EXCEPT ![s] = Tail(@)] \in [Sides -> Seq(T)]
  BY <1>3
<1>9. \A n \in Nat : [f EXCEPT ![s] = SubSeq(@, n + 1, Len(@))] \in [Sides -> Seq(T)]
  BY <1>2
<1>10. \A m \in Seq(T) : [f EXCEPT ![s] = @ \o m] \in [Sides -> Seq(T)]
  BY <1>4
<1>11. \A u \in T : [f EXCEPT ![s] = Append(@, u)] \in [Sides -> Seq(T)]
  BY <1>5
<1>12. \A S : [x \in Sides |-> IF x \in S THEN <<>> ELSE f[x]] \in [Sides -> Seq(T)]
  BY <1>6
<1>q. QED BY <1>3, <1>7, <1>8, <1>9, <1>10, <1>11, <1>12

LEMMA ClientAgrees ==
  ASSUME AgreeInv, AuthInv',
         \/ ClientStart \/ ClientTimeout \/ ClientReads \/ ClientSends \/ TargetSends
         \/ \E n \in 1..4 + TargetData : ClientWaitMethod(n) \/ ClientWaitAuth(n) \/ ClientWaitResponse(n)
  PROVE  AgreeInv'
<1>1. UNCHANGED <<cfg, spc, method, reply, remote, pending>>
  BY DEF ClientStart, ClientTimeout, ClientReads, ClientSends, TargetSends, EndSends, ClientWaitMethod,
         ClientWaitAuth, ClientWaitResponse, ClientTakes, pipeVars
<1>2. wire \in [Sides -> Seq(Told)] /\ pending \in [Sides -> Seq(Told)] /\ "client" \in Sides
  BY DEF AgreeInv, Sides
<1>3. wire' \in [Sides -> Seq(Told)]
  <2>1. CASE ClientStart \/ ClientTimeout \/ ClientSends \/ TargetSends
    BY <1>2, <2>1 DEF ClientStart, ClientTimeout, ClientSends, TargetSends, EndSends, pipeVars
  <2>2. CASE ClientReads
    BY <1>2, <2>2, StreamsOf DEF ClientReads
  <2>3. ASSUME NEW n \in 1..4 + TargetData, ClientTakes(n) PROVE wire' \in [Sides -> Seq(Told)]
    <3>1. n \in Nat
      BY DataAssumption
    <3>q. QED BY <1>2, <2>3, <3>1, StreamsOf DEF ClientTakes
  <2>q. QED BY <2>1, <2>2, <2>3 DEF ClientWaitMethod, ClientWaitAuth, ClientWaitResponse
<1>4. cpc' = "done" => remote = "open"
  <2>1. CASE \E n \in 1..4 + TargetData : ClientWaitResponse(n)
    <3>1. PICK n \in 1..4 + TargetData : ClientWaitResponse(n)
      BY <2>1
    <3>2. n \in ChunkSizes(wire["client"], 0) /\ wire["client"] \in Seq(Told)
      BY <1>2, <3>1 DEF ClientWaitResponse, ClientTakes
    <3> DEFINE chunk == SubSeq(wire["client"], 1, n)
    <3>3. n \in Nat /\ 1 <= n /\ n <= Len(wire["client"])
      BY <3>2, ChunkInside
    <3>4. chunk[1] \in Told
      BY <3>2, <3>3
    <3>5. cpc' = "done" => chunk[1][1] = "response" /\ chunk[1][2] = "succeeded"
      BY <3>1 DEF ClientWaitResponse, ResponseOutcome
    <3>q. QED BY <3>4, <3>5 DEF Told
  <2>2. CASE ~(\E n \in 1..4 + TargetData : ClientWaitResponse(n))
    <3>1. cpc' = "done" => cpc = "done"
      BY <2>2 DEF ClientStart, ClientTimeout, ClientReads, ClientSends, TargetSends, EndSends, ClientWaitMethod,
                  ClientWaitAuth, AfterMethod
    <3>q. QED BY <3>1 DEF AgreeInv
  <2>q. QED BY <2>1, <2>2
<1>5. remote = "open" => spc' \in Negotiated
  BY <1>1 DEF AgreeInv, ServerAgrees
<1>6. spc' = spc /\ pending' \in [Sides -> Seq(Told)]
  BY <1>1, <1>2
<1>q. QED BY <1>1, <1>3, <1>4, <1>5, <1>6, AgreeKept

(* What is on its way to a peer: units one of them has sent, or the server's. *)
LEMMA PipeStreams ==
  ASSUME AgreeInv, \/ PipeNext
                   \/ \E s \in Sides : EndLeaves(s) \/ EndBeforePipe(s) \/ ResetBeforePipe(s)
  PROVE  wire' \in [Sides -> Seq(Told)] /\ pending' \in [Sides -> Seq(Told)]
<1>1. /\ wire \in [Sides -> Seq(Told)] /\ pending \in [Sides -> Seq(Told)]
      /\ inbox \in [Sides -> Seq(Units)] /\ \A s \in Sides : Other(s) \in Sides
  BY DEF AgreeInv, AuthInv, Sides, Other
<1>2. FIN \in Told /\ Units \subseteq Told
  BY ServerMessages DEF AgreeInv, ServerAgrees
<1>3. ASSUME NEW S, Destroy(S) PROVE pending' \in [Sides -> Seq(Told)]
  BY <1>1, <1>3, StreamsOf DEF Destroy, Sides
<1>4. ASSUME CloseBoth PROVE pending' \in [Sides -> Seq(Told)]
  BY <1>3, <1>4 DEF CloseBoth
<1>5. ASSUME NEW s \in Sides, Forward(s)
      PROVE  wire' \in [Sides -> Seq(Told)] /\ pending' \in [Sides -> Seq(Told)]
  <2>1. Head(inbox[s]) \in Told
    BY <1>1, <1>2, <1>5, StreamsOf DEF Forward
  <2>2. \/ CloseBoth
        \/ pending' = [pending EXCEPT ![Other(s)] = Append(@, Head(inbox[s]))]
    BY <1>5 DEF Forward
  <2>3. pending' \in [Sides -> Seq(Told)]
    <3>1. [pending EXCEPT ![Other(s)] = Append(@, Head(inbox[s]))] \in [Sides -> Seq(Told)]
      BY <1>1, <2>1, StreamsOf
    <3>q. QED BY <1>4, <2>2, <3>1
  <2>q. QED BY <1>1, <1>5, <2>3 DEF Forward
<1>6. ASSUME NEW s \in Sides, Flush(s)
      PROVE  wire' \in [Sides -> Seq(Told)] /\ pending' \in [Sides -> Seq(Told)]
  <2>1. /\ wire' = [wire EXCEPT ![s] = Append(@, Head(pending[s]))]
        /\ pending' = [pending EXCEPT ![s] = Tail(@)] /\ pending[s] # <<>>
    BY <1>6 DEF Flush
  <2>2. Head(pending[s]) \in Told /\ pending' \in [Sides -> Seq(Told)]
    BY <1>1, <2>1, StreamsOf
  <2>q. QED BY <1>1, <2>1, <2>2, StreamsOf
<1>7. ASSUME NEW s \in Sides, Finish(s)
      PROVE  wire' \in [Sides -> Seq(Told)] /\ pending' \in [Sides -> Seq(Told)]
  BY <1>1, <1>2, <1>7, StreamsOf DEF Finish
<1>8. ASSUME NEW s \in Sides, PeerEnded(s) \/ EndLeaves(s) \/ EndBeforePipe(s)
      PROVE  wire' \in [Sides -> Seq(Told)] /\ pending' \in [Sides -> Seq(Told)]
  BY <1>1, <1>8 DEF PeerEnded, EndLeaves, EndBeforePipe
<1>9. ASSUME NEW s \in Sides, PipelineDone(s) \/ PipeError(s)
      PROVE  wire' \in [Sides -> Seq(Told)] /\ pending' \in [Sides -> Seq(Told)]
  BY <1>1, <1>4, <1>9 DEF PipelineDone, PipeError
<1>10. ASSUME NEW s \in Sides, SocketClosed(s)
       PROVE  wire' \in [Sides -> Seq(Told)] /\ pending' \in [Sides -> Seq(Told)]
  BY <1>1, <1>4, <1>10 DEF SocketClosed
<1>11. ASSUME NEW s \in Sides, ResetBeforePipe(s)
       PROVE  wire' \in [Sides -> Seq(Told)] /\ pending' \in [Sides -> Seq(Told)]
  BY <1>1, <1>3, <1>11 DEF ResetBeforePipe
<1>12. ASSUME GraceOver \/ IdleTimeout
       PROVE  wire' \in [Sides -> Seq(Told)] /\ pending' \in [Sides -> Seq(Told)]
  BY <1>1, <1>4, <1>12 DEF GraceOver, IdleTimeout
<1>q. QED BY <1>5, <1>6, <1>7, <1>8, <1>9, <1>10, <1>11, <1>12 DEF PipeNext

LEMMA EndsAgree ==
  ASSUME AgreeInv, AuthInv',
         \/ \E s \in Sides : EndLeaves(s) \/ EndBeforePipe(s) \/ ResetBeforePipe(s)
         \/ PipeNext /\ UNCHANGED socksVars
  PROVE  AgreeInv'
<1>1. UNCHANGED <<cfg, method, reply, remote>> /\ (spc' = spc \/ spc' = "crashed")
      /\ (cpc' = cpc \/ cpc' = "gone")
  BY DEF EndLeaves, EndBeforePipe, ResetBeforePipe, socksVars
<1>2. wire' \in [Sides -> Seq(Told)] /\ pending' \in [Sides -> Seq(Told)]
  BY PipeStreams
<1>3. remote = "open" => spc' \in Negotiated
  BY <1>1 DEF AgreeInv, ServerAgrees, Negotiated
<1>4. cpc' = "done" => remote = "open"
  BY <1>1 DEF AgreeInv
<1>q. QED BY <1>1, <1>2, <1>3, <1>4, AgreeKept

(* Giving up: the text of the error may be told to anybody.                   *)
LEMMA FailureAgrees ==
  ASSUME AgreeInv, AuthInv', NEW failing \in {"failed", "refused"}, ServerFails(failing),
         failing = "refused" => remote # "open",
         UNCHANGED <<cfg, method, reply, remote, wire, cpc>>
  PROVE  AgreeInv'
<1>1. pending \in [Sides -> Seq(Told)] /\ wire \in [Sides -> Seq(Told)] /\ ErrorText \in Seq(Told)
  BY ServerMessages DEF AgreeInv, ServerAgrees
<1>2. \A s \in Sides : pending[s] \o ErrorText \in Seq(Told)
  BY <1>1
<1>3. pending' \in [Sides -> Seq(Told)]
  BY <1>1, <1>2 DEF ServerFails
<1>4. spc' = failing
  BY DEF ServerFails
<1>5. remote = "open" => spc' \in Negotiated
  BY <1>4 DEF Negotiated
<1>6. cpc' = "done" => remote = "open"
  BY DEF AgreeInv
<1>q. QED BY <1>1, <1>3, <1>4, <1>5, <1>6, AgreeKept

(* A step of the negotiation, before any target is connected to.              *)
LEMMA NegotiationAgrees ==
  ASSUME AgreeInv, AuthInv', UNCHANGED <<cfg, remote, pending, cpc>>, remote # "open",
         wire' \in [Sides -> Seq(Told)], reply' \in {"none", "refused"},
         spc' = "waitHello" => cfg.version # 5,
         spc' \in {"waitUserPass", "waitRequest", "connecting"} => Chosen'
  PROVE  AgreeInv'
<1>1. wire' \in [Sides -> Seq(Told')] /\ pending' \in [Sides -> Seq(Told')]
  BY ToldStays DEF AgreeInv
<1>2. ServerAgrees'
  BY DEF ServerAgrees
<1>q. QED BY <1>1, <1>2 DEF AgreeInv, Replies

LEMMA WaitsAgree ==
  ASSUME AgreeInv, AuthInv', NEW n \in Nat,
         ServerWaitMethod(n) \/ ServerWaitUserPass(n) \/ ServerWaitRequest(n) \/ ServerWaitHello(n)
  PROVE  AgreeInv'
<1>1. UNCHANGED <<cfg, remote, cpc>> /\ spc \in {"waitMethod", "waitUserPass", "waitRequest", "waitHello"}
  BY DEF ServerWaitMethod, ServerWaitUserPass, ServerWaitRequest, ServerWaitHello, ServerSame
<1>2. remote # "open" /\ reply \in {"none", "refused"}
  BY <1>1 DEF AgreeInv, ServerAgrees, Negotiated, Replies
<1>3. wire \in [Sides -> Seq(Told)] /\ "client" \in Sides
  BY DEF AgreeInv, Sides
<1>4. CASE ServerFails("failed") /\ UNCHANGED <<method, reply, wire>>
  BY <1>1, <1>4, FailureAgrees
<1>5. CASE ServerWaitMethod(n) /\ ~ServerFails("failed")
  <2> DEFINE first == CHOOSE i \in Common : \A j \in Common : i <= j
  <2>1. /\ Common # {} /\ ReplyMethod(cfg.cm[first]) /\ UNCHANGED <<pending, reply>>
    BY <1>5 DEF ServerWaitMethod
  <2>2. cfg.cm[first] \in cfg.sm \cap {NoAuth, UserPass} /\ first \in DOMAIN cfg.cm
    <3>1. cfg \in Configs
      BY DEF AgreeInv, AuthInv
    <3>2. cfg.cm \in Seq({NoAuth, UserPass})
      BY <3>1, ConfigAssumption
    <3>3. Common \subseteq Nat
      BY <3>2 DEF Common
    <3>4. first \in Common
      BY <2>1, <3>3, LeastOf
    <3>q. QED BY <2>1, <3>1, <3>4, FirstCommon DEF Common
  <2>3. wire' \in [Sides -> Seq(Told)]
    <3>1. MethodMsg(cfg.cm[first]) \in Seq(Told)
      BY <2>2, ServerMessages DEF AgreeInv, ServerAgrees
    <3>q. QED BY <1>3, <2>1, <3>1, StreamsOf DEF ReplyMethod, Write
  <2>4. Chosen'
    BY <1>1, <2>1, <2>2 DEF Chosen, ReplyMethod
  <2>5. spc' # "waitHello" /\ reply' \in {"none", "refused"} /\ pending' = pending
    BY <1>2, <2>1 DEF ReplyMethod
  <2>q. QED BY <1>1, <1>2, <2>3, <2>4, <2>5, NegotiationAgrees
<1>6. CASE ServerWaitUserPass(n) /\ ~ServerFails("failed")
  <2>1. /\ Write("client", AuthMsg) /\ spc' = "waitRequest" /\ UNCHANGED <<pending, method, reply>>
        /\ spc = "waitUserPass"
    BY <1>6 DEF ServerWaitUserPass
  <2>2. wire' \in [Sides -> Seq(Told)]
    <3>1. AuthMsg \in Seq(Told)
      BY ServerMessages DEF AgreeInv, ServerAgrees
    <3>q. QED BY <1>3, <2>1, <3>1, StreamsOf DEF Write
  <2>3. Chosen'
    BY <1>1, <2>1 DEF AgreeInv, ServerAgrees, Chosen
  <2>q. QED BY <1>1, <1>2, <2>1, <2>2, <2>3, NegotiationAgrees
<1>7. CASE (ServerWaitRequest(n) \/ ServerWaitHello(n)) /\ ~ServerFails("failed")
  <2>1. /\ UNCHANGED <<wire, method, pending>> /\ spc' \in {"crashed", "connecting"}
        /\ reply' \in {reply, "refused", "none"}
    BY <1>7 DEF ServerWaitRequest, ServerWaitHello, AfterRequest
  <2>2. Chosen'
    <3>1. Chosen
      BY <1>7 DEF AgreeInv, ServerAgrees, Chosen, ServerWaitRequest, ServerWaitHello
    <3>q. QED BY <1>1, <2>1, <3>1 DEF Chosen
  <2>3. wire' \in [Sides -> Seq(Told)] /\ reply' \in {"none", "refused"}
    BY <1>2, <1>3, <2>1
  <2>q. QED BY <1>1, <1>2, <2>1, <2>2, <2>3, NegotiationAgrees
<1>8. ASSUME ServerFails("failed") PROVE UNCHANGED <<method, reply, wire>>
  <2>1. spc' = "failed"
    BY <1>8 DEF ServerFails
  <2>2. CASE ServerWaitMethod(n)
    BY <2>1, <2>2 DEF ServerWaitMethod, ReplyMethod
  <2>3. CASE ServerWaitUserPass(n)
    BY <2>1, <2>3 DEF ServerWaitUserPass
  <2>4. CASE ServerWaitRequest(n)
    BY <2>1, <2>4 DEF ServerWaitRequest, AfterRequest
  <2>5. CASE ServerWaitHello(n)
    BY <2>1, <2>5 DEF ServerWaitHello, AfterRequest
  <2>q. QED BY <2>2, <2>3, <2>4, <2>5
<1>q. QED BY <1>4, <1>5, <1>6, <1>7, <1>8

LEMMA ServerConnects ==
  ASSUME AgreeInv, AuthInv', ConnectTarget PROVE AgreeInv'
<1>1. UNCHANGED <<cfg, wire, method, cpc>> /\ spc = "connecting"
  BY DEF ConnectTarget
<1>2. remote # "open" /\ reply # "succeeded" /\ Chosen /\ Chosen' /\ cpc # "done"
  BY <1>1 DEF AgreeInv, ServerAgrees, Negotiated, Chosen
<1>3. CASE ServerFails("failed") /\ UNCHANGED <<reply, remote>>
  BY <1>1, <1>3, FailureAgrees
<1>4. CASE reply' = "refused" /\ UNCHANGED <<remote, pending>> /\ spc' = "responding"
  <2>1. wire' \in [Sides -> Seq(Told)]
    BY <1>1 DEF AgreeInv
  <2>q. QED BY <1>1, <1>2, <1>4, <2>1, NegotiationAgrees
<1>5. CASE remote' = "open" /\ reply' = "succeeded" /\ UNCHANGED pending
           /\ spc' \in {"responding", "waitUpstream"}
  <2>1. wire' \in [Sides -> Seq(Told')] /\ pending' \in [Sides -> Seq(Told')]
    BY <1>1, <1>5, ToldStays DEF AgreeInv
  <2>q. QED BY <1>2, <1>5, <2>1 DEF AgreeInv, ServerAgrees, Negotiated, Replies
<1>q. QED BY <1>3, <1>4, <1>5 DEF ConnectTarget, ProxyRequestTarget, ConnectFromLocal

LEMMA ServerAnswers ==
  ASSUME AgreeInv, AuthInv', SendResponse \/ StartPipe PROVE AgreeInv'
<1>1. UNCHANGED <<cfg, method, reply, remote, cpc>> /\ spc \in {"responding", "responded"}
  BY DEF SendResponse, StartPipe
<1>2. wire \in [Sides -> Seq(Told)] /\ pending \in [Sides -> Seq(Told)] /\ "client" \in Sides
  BY DEF AgreeInv, Sides
<1>3. CASE ServerFails("failed") /\ UNCHANGED wire
  BY <1>1, <1>3, FailureAgrees
<1>4. CASE SendResponse /\ ~ServerFails("failed")
  <2>1. Write("client", ResponseMsg(reply)) /\ spc' = "responded" /\ UNCHANGED pending
    BY <1>4 DEF SendResponse
  <2>2. ResponseMsg(reply) \in Seq(Told)
    BY ServerMessages DEF AgreeInv, ServerAgrees
  <2>3. wire' \in [Sides -> Seq(Told)]
    BY <1>2, <2>1, <2>2, StreamsOf DEF Write
  <2>4. {spc, spc'} \subseteq Negotiated /\ (cpc' = "done" => remote = "open")
    BY <1>1, <1>4, <2>1 DEF Negotiated, AgreeInv
  <2>q. QED BY <1>1, <1>2, <2>1, <2>3, <2>4, AgreeKept
<1>5. CASE StartPipe /\ ~ServerFails("failed")
  <2>1. spc' = "piping" /\ UNCHANGED <<pending, wire>>
    BY <1>5 DEF StartPipe
  <2>2. {spc, spc'} \subseteq Negotiated /\ (cpc' = "done" => remote = "open")
    BY <1>1, <1>5, <2>1 DEF Negotiated, AgreeInv
  <2>q. QED BY <1>1, <1>2, <2>1, <2>2, AgreeKept
<1>6. ASSUME ServerFails("failed") PROVE wire' = wire
  <2>1. spc' = "failed"
    BY <1>6 DEF ServerFails
  <2>q. QED BY <2>1 DEF SendResponse, StartPipe
<1>q. QED BY <1>3, <1>4, <1>5, <1>6

(* The answer of another server, and what is lost behind it, change nothing   *)
(* that has been agreed on.                                                   *)
LEMMA UpstreamAgrees == ASSUME AgreeInv, AuthInv', UpstreamSteps PROVE AgreeInv'
<1>1. UNCHANGED <<cfg, method, reply, remote, wire, cpc>> /\ spc \in {"waitUpstream", "responded"}
  BY DEF UpstreamSteps, UpstreamResponse, UpstreamUnheard, ServerSame
<1>2. CASE ServerFails("failed")
  BY <1>1, <1>2, FailureAgrees
<1>3. CASE ~ServerFails("failed")
  <2>1. UNCHANGED pending /\ {spc, spc'} \subseteq Negotiated
    BY <1>1, <1>3 DEF UpstreamSteps, UpstreamResponse, UpstreamUnheard, Negotiated
  <2>2. wire' \in [Sides -> Seq(Told)] /\ pending' \in [Sides -> Seq(Told)]
        /\ (remote = "open" => spc' \in Negotiated) /\ (cpc' = "done" => remote = "open")
    BY <1>1, <2>1 DEF AgreeInv
  <2>q. QED BY <1>1, <2>1, <2>2, AgreeKept
<1>q. QED BY <1>2, <1>3

LEMMA RouteAgrees ==
  ASSUME AgreeInv, AuthInv', \/ ServerTimeout
                             \/ \E n \in 1..4 + TargetData : RouteConnection(n)
  PROVE  AgreeInv'
<1>1. /\ UNCHANGED <<cfg, wire, method, reply, remote, cpc>>
      /\ spc \in {"route", "waitMethod", "waitHello"}
  BY DEF ServerTimeout, RouteConnection, ServerSame
<1>2. remote # "open" /\ reply \in {"none", "refused"}
  BY <1>1 DEF AgreeInv, ServerAgrees, Negotiated, Replies
<1>3. CASE ServerFails("failed") \/ ServerFails("refused")
  BY <1>1, <1>2, <1>3, FailureAgrees
<1>4. CASE ~(ServerFails("failed") \/ ServerFails("refused"))
  <2>1. UNCHANGED pending /\ spc' = IF cfg.version = 5 THEN "waitMethod" ELSE "waitHello"
    BY <1>4 DEF ServerTimeout, RouteConnection, NoHandler
  <2>2. wire' \in [Sides -> Seq(Told)] /\ reply' \in {"none", "refused"}
    BY <1>1, <1>2 DEF AgreeInv
  <2>q. QED BY <1>1, <1>2, <2>1, <2>2, NegotiationAgrees
<1>q. QED BY <1>3, <1>4

LEMMA AgreeStep == AgreeInv /\ [SocksNext]_connectionVars => AgreeInv'
<1> SUFFICES ASSUME AgreeInv, [SocksNext]_connectionVars PROVE AgreeInv'
  OBVIOUS
<1>1. AuthInv'
  BY AuthStep DEF AgreeInv
<1>2. CASE UNCHANGED connectionVars
  <2>1. UNCHANGED <<cfg, method, reply, remote, wire, pending, spc, cpc>>
    BY <1>2 DEF connectionVars, pipeVars, socksVars
  <2>2. wire' \in [Sides -> Seq(Told)] /\ pending' \in [Sides -> Seq(Told)]
        /\ (remote = "open" => spc' \in Negotiated) /\ (cpc' = "done" => remote = "open")
    BY <2>1 DEF AgreeInv, ServerAgrees
  <2>q. QED BY <1>1, <2>1, <2>2, AgreeKept
<1>3. CASE SocksNext
  <2>1. \A n \in 1..4 + TargetData : n \in Nat
    BY DataAssumption
  <2>q. QED BY <1>1, <1>3, <2>1, ClientAgrees, EndsAgree, WaitsAgree, ServerConnects, ServerAnswers,
               RouteAgrees, UpstreamAgrees DEF SocksNext, UpstreamSteps
<1>q. QED BY <1>2, <1>3

(* A client that goes on as if it were connected is: the answer it has read   *)
(* was written after the target had been connected to, with a method both     *)
(* ends have (v5/client.ts, v5/server.ts, vc1/client.ts, vc1/server.ts).      *)
THEOREM BothAgreeOnTarget == SocksSpec => []AgreeOnTarget
<1>1. AgreeInv => AgreeOnTarget
  BY DEF AgreeInv, ServerAgrees, Chosen, AgreeOnTarget
<1>q. QED BY <1>1, AgreeInit, AgreeStep, PTL DEF SocksSpec

-----------------------------------------------------------------------------
(* As long as every chunk is one message, the ends take turns.                *)

(* A client's stream before its turn to send the next message, and with it:   *)
(* nothing or all of one message of a kind, and the FIN behind it.            *)
Holds(units, kind) ==
  \E len \in {0, Size[kind]} :
    /\ Len(units) \in {len, len + 1}
    /\ \A i \in 1..len : units[i][1] = kind
    /\ Len(units) = len + 1 => units[len + 1] = FIN

NothingSent == Stream = <<>>
NoFin == \A i \in DOMAIN Stream : Stream[i] # FIN

(* What the server has written so far.                                        *)
Heard == {FIN} \cup (IF spc \in {"waitUserPass", "waitRequest"}
                     THEN {<<"method", method, i>> : i \in Nat} ELSE {})
               \cup (IF spc = "waitRequest" THEN {<<"auth", "ok", i>> : i \in Nat} ELSE {})

(* The turns of the negotiation: which message may be there, in what phases   *)
(* its sender may be, and in which of these it has not sent it yet.           *)
TurnOf(kind, phases, silent) ==
  /\ cpc \in phases \cup {"failed", "gone"}
  /\ cpc \in silent => NothingSent
  /\ Holds(Stream, kind)

Turns ==
  /\ spc \in {"route", "waitMethod"} /\ cfg.version = 5 =>
       TurnOf("methods", {"start", "waitMethod"}, {"start"})
  /\ spc \in {"route", "waitHello"} /\ cfg.version # 5 =>
       TurnOf("hello", {"start", "waitResponse"}, {"start"})
  /\ spc = "waitUserPass" =>
       /\ TurnOf("userpass", {"waitMethod", "waitAuth"}, {"waitMethod"})
       /\ method = UserPass
  /\ spc = "waitRequest" =>
       /\ TurnOf("request", {"waitMethod", "waitAuth", "waitResponse"}, {"waitMethod", "waitAuth"})
       /\ cpc = "waitMethod" => method # UserPass

Negotiating == {"route", "waitMethod", "waitHello", "waitUserPass", "waitRequest"}

(* What holds however the messages are cut, and what does as long as each     *)
(* chunk was one.                                                             *)
TurnBase ==
  /\ faults \in Nat /\ mark \in Nat
  /\ cpc # "gone" => NoFin
  /\ spc \in {"route", "waitRequest"} => mark = 0
  /\ piping => spc = "piping"

PutBack == mark > 0 => "client" \in destroyed \/ (Stream # <<>> /\ Stream[1] # FIN)

InTurn ==
  ~harmed /\ spc \in Negotiating =>
    /\ wire["client"] \in Seq(Heard) /\ pending["client"] \in Seq(Heard)
    /\ PutBack
    /\ Turns

TurnInv == AgreeInv /\ TurnBase /\ InTurn /\ SocksCrashOnlyIfHarmed

LEMMA TurnInit == SocksInit => TurnInv
<1> SUFFICES ASSUME SocksInit PROVE TurnInv
  OBVIOUS
<1>1. AgreeInv
  BY AgreeInit
<1>2. /\ Stream = <<>> /\ wire["client"] = <<>> /\ pending["client"] = <<>> /\ mark = 0 /\ faults = 0
      /\ cpc = "start" /\ spc = "route" /\ ~piping
  BY DEF SocksInit, PipeInit, Sides, Stream
<1>3. Holds(Stream, "methods") /\ Holds(Stream, "hello")
  BY <1>2 DEF Holds
<1>4. Turns
  BY <1>2, <1>3 DEF Turns, TurnOf, NothingSent
<1>5. TurnBase /\ InTurn /\ SocksCrashOnlyIfHarmed
  BY <1>2, <1>4 DEF TurnBase, NoFin, InTurn, PutBack, SocksCrashOnlyIfHarmed
<1>q. QED BY <1>1, <1>5 DEF TurnInv

LEMMA Kinded ==
  /\ Size["methods"] = 2 /\ Size["userpass"] = 2 /\ Size["request"] = 3 /\ Size["hello"] = 3
BY DEF Size

LEMMA StreamType == ASSUME AuthInv PROVE Stream \in Seq(Units)
BY DEF AuthInv, Stream, Sides

LEMMA Single == ASSUME NEW T, NEW s \in Seq(T), Len(s) = 1 PROVE s = <<s[1]>>
<1>1. DOMAIN s = 1..1 /\ s = [i \in 1..1 |-> s[i]]
  OBVIOUS
<1>2. <<s[1]>> = [i \in 1..1 |-> s[i]]
  OBVIOUS
<1>q. QED BY <1>1, <1>2

(* A chunk that is one message is the one whose turn it is; behind it there   *)
(* is at most a FIN.                                                          *)
LEMMA TakesWhole ==
  ASSUME AuthInv, NEW kind, Size[kind] \in Nat \ {0}, Holds(Stream, kind), mark \in Nat, PutBack,
         "client" \notin destroyed,
         NEW n \in ChunkSizes(Stream, mark), Exact(SubSeq(Stream, 1, n))
  PROVE  /\ n = Size[kind] /\ n \in Nat /\ Stream # <<>>
         /\ SubSeq(Stream, 1, n)[1][1] = kind /\ Lead(SubSeq(Stream, 1, n)) = Size[kind]
         /\ \/ SubSeq(Stream, n + 1, Len(Stream)) = <<>>
            \/ SubSeq(Stream, n + 1, Len(Stream)) = <<FIN>>
<1> DEFINE q == Stream
           chunk == SubSeq(q, 1, n)
<1>1. q \in Seq(Units) /\ Len(q) \in Nat
  BY StreamType
<1> HIDE DEF q
<1>2. n \in Nat /\ 1 <= n /\ (\E i \in 1..Len(q) : q[i] # FIN)
  <2>1. CASE mark > 0
    <3>1. n = mark
      BY <2>1 DEF ChunkSizes
    <3>2. 1 \in 1..Len(q) /\ q[1] # FIN
      BY <1>1, <2>1 DEF PutBack, q
    <3>q. QED BY <2>1, <3>1, <3>2
  <2>2. CASE mark = 0
    <3>1. n \in ChunkSizes(q, 0)
      BY <2>2 DEF q
    <3>2. n \in Nat /\ 1 <= n
      BY <1>1, <3>1, ChunkInside
    <3>3. ASSUME \A i \in 1..Len(q) : q[i] = FIN PROVE FALSE
      <4>1. {i \in DOMAIN q : q[i] # FIN} = {}
        BY <1>1, <3>3
      <4>2. n \in 1..0
        BY <3>1, <4>1, FS_EmptySet DEF ChunkSizes
      <4>q. QED BY <4>2
    <3>q. QED BY <3>2, <3>3
  <2>q. QED BY <2>1, <2>2
<1>3. PICK len \in {0, Size[kind]} : /\ Len(q) \in {len, len + 1}
                                     /\ \A i \in 1..len : q[i][1] = kind
                                     /\ Len(q) = len + 1 => q[len + 1] = FIN
  BY DEF Holds, q
<1>4. len = Size[kind] /\ len \in Nat \ {0} /\ q[1][1] = kind
  BY <1>1, <1>2, <1>3
<1>5. Len(chunk) = n /\ chunk[1] = q[1]
  BY <1>1, <1>2
<1>6. Lead(chunk) = Size[kind] /\ Lead(chunk) = n
  BY <1>4, <1>5 DEF Exact, Whole, q
<1>7. SubSeq(q, n + 1, Len(q)) = <<>> \/ SubSeq(q, n + 1, Len(q)) = <<FIN>>
  <2>1. CASE Len(q) = len
    BY <1>1, <1>2, <1>4, <1>6, <2>1
  <2>2. CASE Len(q) = len + 1
    <3>1. n = len /\ q[n + 1] = FIN
      BY <1>3, <1>4, <1>6, <2>2
    <3>2. SubSeq(q, n + 1, n + 1) \in Seq(Units) /\ Len(SubSeq(q, n + 1, n + 1)) = 1
          /\ SubSeq(q, n + 1, n + 1)[1] = FIN
      BY <1>1, <1>2, <3>1, <2>2
    <3>3. SubSeq(q, n + 1, n + 1) = <<FIN>>
      BY <3>2, Single
    <3>q. QED BY <2>2, <3>1, <3>3
  <2>q. QED BY <1>3, <2>1, <2>2
<1>8. q # <<>>
  BY <1>1, <1>2
<1>q. QED BY <1>2, <1>4, <1>5, <1>6, <1>7, <1>8 DEF q

Messages == {"methods", "userpass", "request", "hello"}

LEMMA HoldsNothing ==
  ASSUME NEW units \in {<<>>, <<FIN>>}, NEW kind PROVE Holds(units, kind)
BY DEF Holds

LEMMA HoldsMessage ==
  ASSUME NEW kind \in Messages, NEW what
  PROVE  Holds(<<>> \o Msg(kind, what), kind) /\ Msg(kind, what) # <<>>
<1>1. Size[kind] \in Nat \ {0}
  BY Kinded DEF Messages
<1>2. <<>> \o Msg(kind, what) = Msg(kind, what) /\ Len(Msg(kind, what)) = Size[kind]
      /\ \A i \in 1..Size[kind] : Msg(kind, what)[i] = <<kind, what, i>>
  <2>1. Msg(kind, what) \in Seq({<<kind, what, i>> : i \in Nat})
    BY <1>1 DEF Msg
  <2>2. Len(Msg(kind, what)) = Size[kind]
        /\ \A i \in 1..Size[kind] : Msg(kind, what)[i] = <<kind, what, i>>
    BY <1>1 DEF Msg
  <2>3. <<>> \o Msg(kind, what) = Msg(kind, what)
    BY <2>1, ConcatEmptySeq
  <2>q. QED BY <2>2, <2>3
<1>3. Len(Msg(kind, what)) \in {Size[kind], Size[kind] + 1} /\ Len(Msg(kind, what)) # Size[kind] + 1
  BY <1>1, <1>2
<1>4. \A i \in 1..Size[kind] : Msg(kind, what)[i][1] = kind
  BY <1>2
<1>5. Msg(kind, what) # <<>>
  BY <1>1, <1>2
<1>q. QED BY <1>2, <1>3, <1>4, <1>5 DEF Holds

LEMMA HoldsFin ==
  ASSUME NEW units \in Seq(Units), NEW kind \in Messages, Holds(units, kind),
         units # <<>> => Last(units) # FIN
  PROVE  Holds(Append(units, FIN), kind)
<1>1. PICK len \in {0, Size[kind]} : /\ Len(units) \in {len, len + 1}
                                     /\ \A i \in 1..len : units[i][1] = kind
                                     /\ Len(units) = len + 1 => units[len + 1] = FIN
  BY DEF Holds
<1>2. len \in Nat
  BY Kinded DEF Messages
<1>3. Len(units) = len
  <2>1. ASSUME Len(units) = len + 1 PROVE FALSE
    <3>1. units # <<>> /\ Last(units) = units[len + 1]
      BY <1>2, <2>1 DEF Last
    <3>q. QED BY <1>1, <2>1, <3>1
  <2>q. QED BY <1>1, <2>1
<1>4. FIN \in Units
  BY DEF Units
<1>5. /\ Len(Append(units, FIN)) = len + 1 /\ Append(units, FIN)[len + 1] = FIN
      /\ \A i \in 1..len : Append(units, FIN)[i] = units[i]
  BY <1>2, <1>3, <1>4, AppendProperties
<1>q. QED BY <1>1, <1>2, <1>5 DEF Holds

-----------------------------------------------------------------------------
(* The client sends the message whose turn it is.                             *)
LEMMA Sending ==
  ASSUME AuthInv, NEW kind \in Messages, NEW what, Msg(kind, what) \in Seq(Units),
         inbox' = [inbox EXCEPT !["client"] = @ \o Msg(kind, what)]
  PROVE  /\ NoFin => NoFin'
         /\ NothingSent => Holds(Stream', kind)
         /\ Stream # <<>> => Stream' # <<>> /\ Stream'[1] = Stream[1]
<1> DEFINE m == Msg(kind, what)
<1>1. inbox \in [Sides -> Seq(Units)] /\ "client" \in Sides
  BY DEF AuthInv, Sides
<1>2. Stream' = Stream \o m /\ Stream \in Seq(Units)
  BY <1>1, StreamType DEF Stream
<1>3. Size[kind] \in Nat /\ DOMAIN m = 1..Size[kind] /\ \A i \in DOMAIN m : m[i] = <<kind, what, i>>
  BY Kinded DEF Messages, Msg
<1>4. kind # "fin"
  BY DEF Messages
<1>5. \A i \in DOMAIN m : m[i] # FIN
  BY <1>3, <1>4 DEF FIN
<1>6. m \in Seq(Units)
  OBVIOUS
<1> HIDE DEF m
<1>7. /\ Len(Stream \o m) = Len(Stream) + Len(m)
      /\ \A i \in 1..Len(Stream) + Len(m) :
           (Stream \o m)[i] = IF i <= Len(Stream) THEN Stream[i] ELSE m[i - Len(Stream)]
      /\ Stream \o m \in Seq(Units)
  BY <1>2, <1>6, ConcatProperties
<1>8. NoFin => NoFin'
  BY <1>2, <1>5, <1>6, <1>7 DEF NoFin
<1>9. Stream # <<>> => Stream' # <<>> /\ Stream'[1] = Stream[1]
  BY <1>2, <1>6, <1>7
<1>10. NothingSent => Holds(Stream', kind)
  BY <1>2, HoldsMessage DEF NothingSent, m
<1>q. QED BY <1>8, <1>9, <1>10

LEMMA SentMessages ==
  ASSUME AuthInv
  PROVE  /\ Msg("methods", "first") \in Seq(Units) /\ Msg("userpass", cfg.creds) \in Seq(Units)
         /\ Msg("request", cfg.addr) \in Seq(Units) /\ Msg("hello", cfg.addr) \in Seq(Units)
BY ClientMessages DEF AuthInv, MethodsMsg, UserPassMsg, RequestMsg, HelloMsg

(* Before a target is connected to nobody is done with the negotiation.       *)
LEMMA NobodyDone ==
  ASSUME AgreeInv, spc \in Negotiating
  PROVE  remote # "open" /\ cpc # "done" /\ (spc \in {"waitMethod", "waitUserPass"} => cfg.version = 5)
         /\ (spc = "waitHello" => cfg.version # 5)
BY DEF AgreeInv, AuthInv, ServerAgrees, Negotiated, Negotiating

LEMMA ClientStartTurns ==
  ASSUME TurnInv, AgreeInv', ClientStart PROVE TurnInv'
<1>1. UNCHANGED <<wire, pending, destroyed, piping, cfg, spc, mark, method, faults, harmed>>
      /\ cpc = "start"
  BY DEF ClientStart
<1>2. PICK kind \in {"methods", "hello"}, what \in {"first", cfg.addr} :
        /\ inbox' = [inbox EXCEPT !["client"] = @ \o Msg(kind, what)]
        /\ Msg(kind, what) \in Seq(Units)
        /\ cfg.version = 5 => kind = "methods" /\ cpc' = "waitMethod"
        /\ cfg.version # 5 => kind = "hello" /\ cpc' = "waitResponse"
  <2>1. CASE cfg.version = 5
    BY <2>1, SentMessages DEF ClientStart, MethodsMsg, TurnInv, AgreeInv
  <2>2. CASE cfg.version # 5
    BY <2>2, SentMessages DEF ClientStart, HelloMsg, TurnInv, AgreeInv
  <2>q. QED BY <2>1, <2>2
<1>3. /\ NoFin => NoFin'
      /\ NothingSent => Holds(Stream', kind)
      /\ Stream # <<>> => Stream' # <<>> /\ Stream'[1] = Stream[1]
  BY <1>2, Sending DEF Messages, TurnInv, AgreeInv
<1>4. TurnBase'
  BY <1>1, <1>3 DEF TurnInv, TurnBase
<1>5. ASSUME ~harmed', spc' \in Negotiating
      PROVE  wire'["client"] \in Seq(Heard') /\ pending'["client"] \in Seq(Heard') /\ PutBack' /\ Turns'
  <2>1. Heard' = Heard /\ ~harmed /\ spc \in Negotiating
    BY <1>1, <1>5 DEF Heard
  <2>2. wire["client"] \in Seq(Heard) /\ pending["client"] \in Seq(Heard) /\ PutBack /\ Turns
    BY <2>1 DEF TurnInv, InTurn
  <2>3. spc \in {"waitMethod", "waitUserPass"} => cfg.version = 5
    BY <2>1, NobodyDone DEF TurnInv
  <2>4. spc \in {"route", "waitMethod", "waitHello"} /\ NothingSent
    BY <1>1, <2>1, <2>2, <2>3, NobodyDone DEF Turns, TurnOf, Negotiating, TurnInv
  <2>5. PutBack'
    BY <1>1, <2>2, <2>4 DEF PutBack, NothingSent
  <2>6. Turns'
    <3>1. Holds(Stream, kind)'
      BY <1>3, <2>4 DEF Holds
    <3>q. QED BY <1>1, <1>2, <2>3, <2>4, <3>1 DEF Turns, TurnOf
  <2>q. QED BY <1>1, <2>1, <2>2, <2>5, <2>6
<1>6. SocksCrashOnlyIfHarmed'
  BY <1>1, <1>2 DEF TurnInv, SocksCrashOnlyIfHarmed
<1>q. QED BY <1>4, <1>5, <1>6 DEF TurnInv, InTurn

(* Steps that leave the client's stream, and its sender or take it out of its *)
(* turns.                                                                     *)
LEMMA QuietTurns ==
  ASSUME TurnInv, AgreeInv', UNCHANGED <<spc, cfg, mark, method, piping>>,
         Stream' = Stream, harmed => harmed', faults' \in Nat, faults' >= faults,
         cpc = "gone" => cpc' = "gone", cpc' \in {cpc, "failed", "gone", "done", "crashed"},
         cpc' = "crashed" => harmed', "client" \in destroyed => "client" \in destroyed',
         ~harmed' /\ spc \in Negotiating =>
           wire'["client"] \in Seq(Heard) /\ pending'["client"] \in Seq(Heard)
  PROVE  TurnInv'
<1>1. TurnBase'
  BY DEF TurnInv, TurnBase, NoFin
<1>2. ASSUME ~harmed', spc' \in Negotiating
      PROVE  wire'["client"] \in Seq(Heard') /\ pending'["client"] \in Seq(Heard') /\ PutBack' /\ Turns'
  <2>1. Heard' = Heard /\ ~harmed /\ spc \in Negotiating
    BY <1>2 DEF Heard
  <2>2. PutBack /\ Turns
    BY <2>1 DEF TurnInv, InTurn
  <2>3. cpc' # "done" /\ cpc' # "crashed" /\ cpc # "done"
    BY <1>2, <2>1, NobodyDone DEF TurnInv, AgreeInv, ServerAgrees, Negotiated, Negotiating
  <2>4. Turns'
    <3>1. ASSUME NEW kind, NEW phases, NEW silent, silent \cap {"failed", "gone"} = {},
                 TurnOf(kind, phases, silent)
          PROVE  /\ cpc' \in phases \cup {"failed", "gone"}
                 /\ cpc' \in silent => Stream' = <<>>
                 /\ Holds(Stream', kind)
      BY <2>3, <3>1 DEF TurnOf, NothingSent
    <3>q. QED BY <2>2, <2>3, <3>1 DEF Turns, TurnOf, NothingSent
  <2>q. QED BY <1>2, <2>1, <2>2, <2>4 DEF PutBack
<1>3. SocksCrashOnlyIfHarmed'
  BY DEF TurnInv, SocksCrashOnlyIfHarmed, TurnBase
<1>q. QED BY <1>1, <1>2, <1>3 DEF TurnInv, InTurn

(* A message sent at its turn.                                                *)
LEMMA SendingTurns ==
  ASSUME TurnInv, AgreeInv', NEW kind \in Messages, NEW what, Msg(kind, what) \in Seq(Units),
         inbox' = [inbox EXCEPT !["client"] = @ \o Msg(kind, what)],
         UNCHANGED <<pending, destroyed, piping, cfg, spc, mark, method, faults>>, harmed => harmed',
         cpc # "gone", cpc' \in {"waitAuth", "waitResponse"},
         ~harmed' /\ spc \in Negotiating =>
           /\ wire'["client"] \in Seq(Heard) /\ NothingSent
           /\ \/ spc = "waitUserPass" /\ kind = "userpass" /\ cpc' = "waitAuth"
              \/ spc = "waitRequest" /\ kind = "request" /\ cpc' = "waitResponse"
  PROVE  TurnInv'
<1>1. /\ NoFin => NoFin'
      /\ NothingSent => Holds(Stream', kind)
      /\ Stream # <<>> => Stream' # <<>> /\ Stream'[1] = Stream[1]
  BY Sending DEF TurnInv, AgreeInv
<1>2. TurnBase'
  BY <1>1 DEF TurnInv, TurnBase
<1>3. ASSUME ~harmed', spc' \in Negotiating
      PROVE  wire'["client"] \in Seq(Heard') /\ pending'["client"] \in Seq(Heard') /\ PutBack' /\ Turns'
  <2>1. Heard' = Heard /\ ~harmed /\ spc \in Negotiating
    BY <1>3 DEF Heard
  <2>2. pending["client"] \in Seq(Heard) /\ PutBack /\ Turns
    BY <2>1 DEF TurnInv, InTurn
  <2>3. PutBack'
    BY <1>3, <2>1, <2>2 DEF PutBack, NothingSent
  <2>4. Turns'
    <3>1. Holds(Stream, kind)'
      BY <1>1, <1>3, <2>1 DEF Holds
    <3>q. QED BY <1>3, <2>1, <2>2, <3>1 DEF Turns, TurnOf
  <2>q. QED BY <1>3, <2>1, <2>2, <2>3, <2>4
<1>4. SocksCrashOnlyIfHarmed'
  BY DEF TurnInv, SocksCrashOnlyIfHarmed
<1>q. QED BY <1>2, <1>3, <1>4 DEF TurnInv, InTurn

(* What a client of the negotiation reads is what the server has written.     *)
LEMMA ClientHears ==
  ASSUME TurnInv, NEW n, ClientTakes(n)
  PROVE  /\ UNCHANGED <<pending, destroyed, piping, cfg, spc, mark, method, faults>>
         /\ harmed => harmed'
         /\ ~harmed' => Exact(SubSeq(wire["client"], 1, n))
         /\ ~harmed' /\ spc \in Negotiating =>
              /\ wire'["client"] \in Seq(Heard) /\ pending["client"] \in Seq(Heard)
              /\ SubSeq(wire["client"], 1, n)[1] \in Heard
<1>1. wire \in [Sides -> Seq(Told)] /\ "client" \in Sides
  BY DEF TurnInv, AgreeInv, Sides
<1>2. wire'["client"] = SubSeq(wire["client"], n + 1, Len(wire["client"]))
      /\ n \in ChunkSizes(wire["client"], 0)
  BY <1>1 DEF ClientTakes
<1>3. n \in Nat /\ 1 <= n /\ n <= Len(wire["client"])
  <2>1. wire["client"] \in Seq(Told)
    BY <1>1
  <2>q. QED BY <1>2, <2>1, ChunkInside
<1>4. ASSUME ~harmed', spc \in Negotiating
      PROVE  /\ wire'["client"] \in Seq(Heard) /\ pending["client"] \in Seq(Heard)
             /\ SubSeq(wire["client"], 1, n)[1] \in Heard
  <2>1. wire["client"] \in Seq(Heard) /\ pending["client"] \in Seq(Heard)
    BY <1>4 DEF ClientTakes, TurnInv, InTurn
  <2>q. QED BY <1>2, <1>3, <2>1
<1>q. QED BY <1>4 DEF ClientTakes

LEMMA ClientWaitMethodTurns ==
  ASSUME TurnInv, AgreeInv', NEW n, ClientWaitMethod(n) PROVE TurnInv'
<1> DEFINE chunk == SubSeq(wire["client"], 1, n)
<1>1. cpc = "waitMethod" /\ ClientTakes(n)
  BY DEF ClientWaitMethod
<1>2. /\ UNCHANGED <<pending, destroyed, piping, cfg, spc, mark, method, faults>>
      /\ harmed => harmed'
      /\ ~harmed' /\ spc \in Negotiating =>
           /\ wire'["client"] \in Seq(Heard) /\ pending["client"] \in Seq(Heard)
           /\ chunk[1] \in Heard
  BY <1>1, ClientHears
<1>3. CASE cpc' = "failed" /\ UNCHANGED inbox
  <2>1. Stream' = Stream /\ faults' \in Nat /\ faults' >= faults
    BY <1>2, <1>3 DEF Stream, TurnInv, TurnBase
  <2>q. QED BY <1>1, <1>2, <1>3, <2>1, QuietTurns
<1>4. CASE chunk[1][1] = "method" /\ AfterMethod(chunk[1][2])
  <2>1. PICK kind \in {"userpass", "request"}, what \in {cfg.creds, cfg.addr} :
          /\ inbox' = [inbox EXCEPT !["client"] = @ \o Msg(kind, what)]
          /\ Msg(kind, what) \in Seq(Units)
          /\ chunk[1][2] = UserPass => kind = "userpass" /\ cpc' = "waitAuth"
          /\ chunk[1][2] # UserPass => kind = "request" /\ cpc' = "waitResponse"
    <3>1. CASE chunk[1][2] = UserPass
      BY <1>4, <3>1, SentMessages DEF AfterMethod, UserPassMsg, TurnInv, AgreeInv
    <3>2. CASE chunk[1][2] # UserPass
      BY <1>4, <3>2, SentMessages DEF AfterMethod, RequestMsg, TurnInv, AgreeInv
    <3>q. QED BY <3>1, <3>2
  <2> HIDE DEF chunk
  <2>2. ASSUME ~harmed', spc \in Negotiating
        PROVE  /\ wire'["client"] \in Seq(Heard) /\ NothingSent
               /\ \/ spc = "waitUserPass" /\ kind = "userpass" /\ cpc' = "waitAuth"
                  \/ spc = "waitRequest" /\ kind = "request" /\ cpc' = "waitResponse"
    <3>1. spc \in {"waitUserPass", "waitRequest"} /\ chunk[1][2] = method
      BY <1>2, <1>4, <2>2 DEF Heard, FIN
    <3>2. Turns
      BY <1>2, <2>2 DEF TurnInv, InTurn
    <3>q. QED BY <1>1, <1>2, <2>1, <2>2, <3>1, <3>2 DEF Turns, TurnOf
  <2>3. cpc' \in {"waitAuth", "waitResponse"} /\ cpc # "gone" /\ kind \in Messages
    BY <1>1, <2>1 DEF Messages
  <2>q. QED BY <1>2, <2>1, <2>2, <2>3, SendingTurns
<1>q. QED BY <1>3, <1>4 DEF ClientWaitMethod

LEMMA ClientWaitAuthTurns ==
  ASSUME TurnInv, AgreeInv', NEW n, ClientWaitAuth(n) PROVE TurnInv'
<1> DEFINE chunk == SubSeq(wire["client"], 1, n)
<1>1. cpc = "waitAuth" /\ ClientTakes(n)
  BY DEF ClientWaitAuth
<1>2. /\ UNCHANGED <<pending, destroyed, piping, cfg, spc, mark, method, faults>>
      /\ harmed => harmed'
      /\ ~harmed' /\ spc \in Negotiating =>
           /\ wire'["client"] \in Seq(Heard) /\ pending["client"] \in Seq(Heard)
           /\ chunk[1] \in Heard
  BY <1>1, ClientHears
<1>3. CASE cpc' = "failed" /\ UNCHANGED inbox
  <2>1. Stream' = Stream /\ faults' \in Nat /\ faults' >= faults
    BY <1>2, <1>3 DEF Stream, TurnInv, TurnBase
  <2>q. QED BY <1>1, <1>2, <1>3, <2>1, QuietTurns
<1>4. CASE chunk[1][1] = "auth" /\ cpc' = "waitResponse"
           /\ inbox' = [inbox EXCEPT !["client"] = @ \o RequestMsg(cfg.addr)]
  <2> HIDE DEF chunk
  <2>1. Msg("request", cfg.addr) \in Seq(Units) /\ RequestMsg(cfg.addr) = Msg("request", cfg.addr)
    BY SentMessages DEF TurnInv, AgreeInv, RequestMsg
  <2>2. ASSUME ~harmed', spc \in Negotiating
        PROVE  wire'["client"] \in Seq(Heard) /\ NothingSent /\ spc = "waitRequest"
    <3>1. spc = "waitRequest"
      BY <1>2, <1>4, <2>2 DEF Heard, FIN
    <3>2. Turns
      BY <1>2, <2>2 DEF TurnInv, InTurn
    <3>q. QED BY <1>1, <1>2, <2>2, <3>1, <3>2 DEF Turns, TurnOf
  <2>3. inbox' = [inbox EXCEPT !["client"] = @ \o Msg("request", cfg.addr)] /\ "request" \in Messages
        /\ cpc # "gone" /\ cpc' \in {"waitAuth", "waitResponse"}
    BY <1>1, <1>4, <2>1 DEF Messages
  <2>q. QED BY <1>2, <1>4, <2>1, <2>2, <2>3, SendingTurns
<1>q. QED BY <1>3, <1>4 DEF ClientWaitAuth

(* A whole answer is parsed; one that is not whole was cut.                   *)
LEMMA ClientWaitResponseTurns ==
  ASSUME TurnInv, AgreeInv', NEW n, ClientWaitResponse(n) PROVE TurnInv'
<1> DEFINE chunk == SubSeq(wire["client"], 1, n)
<1>1. cpc = "waitResponse" /\ ClientTakes(n) /\ UNCHANGED inbox /\ cpc' = ResponseOutcome(chunk)
  BY DEF ClientWaitResponse
<1>2. /\ UNCHANGED <<pending, destroyed, piping, cfg, spc, mark, method, faults>>
      /\ harmed => harmed'
      /\ ~harmed' => Exact(chunk)
      /\ ~harmed' /\ spc \in Negotiating =>
           /\ wire'["client"] \in Seq(Heard) /\ pending["client"] \in Seq(Heard)
  BY <1>1, ClientHears
<1> HIDE DEF chunk
<1>3. cpc' \in {"failed", "crashed", "done"}
  BY <1>1 DEF ResponseOutcome
<1>4. ASSUME cpc' = "crashed", ~harmed' PROVE FALSE
  <2>1. chunk[1][1] = "response" /\ ParseTarget(4 - Lead(chunk)) = "throws"
    BY <1>1, <1>4 DEF ResponseOutcome
  <2>2. Lead(chunk) = 4
    BY <1>2, <1>4, <2>1 DEF Exact, Whole, Size
  <2>3. 4 - Lead(chunk) = 0
    BY <2>2
  <2>q. QED BY <2>1, <2>3 DEF ParseTarget
<1>5. Stream' = Stream /\ faults' \in Nat /\ faults' >= faults
  BY <1>1, <1>2 DEF Stream, TurnInv, TurnBase
<1>q. QED BY <1>1, <1>2, <1>3, <1>4, <1>5, QuietTurns

LEMMA ClientRestTurns ==
  ASSUME TurnInv, AgreeInv', ClientTimeout \/ ClientReads \/ ClientSends \/ TargetSends
  PROVE  TurnInv'
<1>1. /\ UNCHANGED <<pending, destroyed, piping, cfg, spc, mark, method, faults, harmed>>
      /\ cpc' = cpc \/ (cpc # "gone" /\ cpc' = "failed")
  BY DEF ClientTimeout, ClientReads, ClientSends, TargetSends, EndSends, pipeVars
<1>2. faults' \in Nat /\ faults' >= faults
  BY <1>1 DEF TurnInv, TurnBase
<1>3. inbox \in [Sides -> Seq(Units)] /\ "client" \in Sides /\ "remote" \in Sides
  BY DEF TurnInv, AgreeInv, AuthInv, Sides
<1>4. ~harmed /\ spc \in Negotiating =>
        wire["client"] \in Seq(Heard) /\ pending["client"] \in Seq(Heard) /\ cpc # "done"
  BY NobodyDone DEF TurnInv, InTurn
<1>5. cpc' = "crashed" => harmed'
  BY <1>1 DEF TurnInv, SocksCrashOnlyIfHarmed
<1>6. CASE ClientTimeout \/ ClientReads \/ TargetSends
  <2>1. Stream' = Stream
    BY <1>3, <1>6 DEF ClientTimeout, ClientReads, TargetSends, EndSends, pipeVars, Stream
  <2>2. cpc # "done" => wire' = wire
    BY <1>6 DEF ClientTimeout, ClientReads, TargetSends, EndSends, pipeVars
  <2>q. QED BY <1>1, <1>2, <1>4, <1>5, <2>1, <2>2, QuietTurns
<1>7. CASE ClientSends
  <2>1. cpc = "done" /\ Stream' = Append(Stream, <<"data", sent["client"] + 1, 1>>)
    BY <1>3, <1>7 DEF ClientSends, EndSends, Stream
  <2>2. NoFin => NoFin'
    <3>1. Stream \in Seq(Units) /\ <<"data", sent["client"] + 1, 1>> \in Units
      <4>1. sent["client"] + 1 \in Nat
        BY <1>3 DEF TurnInv, AgreeInv, AuthInv
      <4>q. QED BY <4>1, StreamType, ClientMessages DEF TurnInv, AgreeInv, AuthInv
    <3>2. <<"data", sent["client"] + 1, 1>> # FIN
      BY DEF FIN
    <3>q. QED BY <2>1, <3>1, <3>2, AppendProperties DEF NoFin
  <2>3. TurnBase'
    BY <1>1, <1>2, <2>1, <2>2 DEF TurnInv, TurnBase
  <2>4. InTurn'
    <3>1. ~harmed' => spc' \notin Negotiating
      BY <1>1, <2>1, NobodyDone DEF TurnInv
    <3>q. QED BY <3>1 DEF InTurn
  <2>5. SocksCrashOnlyIfHarmed'
    BY <1>1, <1>5 DEF TurnInv, SocksCrashOnlyIfHarmed
  <2>q. QED BY <2>3, <2>4, <2>5 DEF TurnInv
<1>q. QED BY <1>6, <1>7

-----------------------------------------------------------------------------
(* An end that leaves sends its FIN behind all it has sent.                   *)
LEMMA EndLeavesTurns ==
  ASSUME TurnInv, AgreeInv', NEW s \in Sides, EndLeaves(s) PROVE TurnInv'
<1>1. /\ UNCHANGED <<wire, pending, destroyed, piping, cfg, spc, mark, method, harmed>>
      /\ faults' = faults + 1 /\ inbox' = [inbox EXCEPT ![s] = Append(@, FIN)]
      /\ inbox[s] # <<>> => Last(inbox[s]) # FIN
      /\ cpc' = IF s = "client" THEN "gone" ELSE cpc
  BY DEF EndLeaves, HasSentFin
<1>2. inbox \in [Sides -> Seq(Units)] /\ "client" \in Sides /\ Stream \in Seq(Units)
  BY StreamType DEF TurnInv, AgreeInv, AuthInv, Sides
<1>3. faults' \in Nat /\ faults' >= faults
  BY <1>1 DEF TurnInv, TurnBase
<1>4. CASE s # "client"
  <2>1. Stream' = Stream /\ cpc' = cpc
    BY <1>1, <1>2, <1>4 DEF Stream
  <2>2. cpc' = "crashed" => harmed'
    BY <1>1, <2>1 DEF TurnInv, SocksCrashOnlyIfHarmed
  <2>3. ~harmed /\ spc \in Negotiating =>
          wire["client"] \in Seq(Heard) /\ pending["client"] \in Seq(Heard)
    BY DEF TurnInv, InTurn
  <2>q. QED BY <1>1, <1>3, <2>1, <2>2, <2>3, QuietTurns
<1>5. CASE s = "client"
  <2>1. cpc' = "gone" /\ Stream' = Append(Stream, FIN) /\ (Stream # <<>> => Last(Stream) # FIN)
    BY <1>1, <1>2, <1>5 DEF Stream
  <2>2. \A kind \in Messages : Holds(Stream, kind) => Holds(Stream', kind)
    BY <1>2, <2>1, HoldsFin
  <2>3. Stream # <<>> => Stream' # <<>> /\ Stream'[1] = Stream[1]
    <3>1. FIN \in Units
      BY DEF Units
    <3>q. QED BY <1>2, <2>1, <3>1, AppendProperties
  <2>4. TurnBase'
    BY <1>1, <1>3, <2>1 DEF TurnInv, TurnBase
  <2>5. ASSUME ~harmed', spc' \in Negotiating
        PROVE  wire'["client"] \in Seq(Heard') /\ pending'["client"] \in Seq(Heard') /\ PutBack' /\ Turns'
    <3>1. Heard' = Heard /\ ~harmed /\ spc \in Negotiating
      BY <1>1, <2>5 DEF Heard
    <3>2. wire["client"] \in Seq(Heard) /\ pending["client"] \in Seq(Heard) /\ PutBack /\ Turns
      BY <3>1 DEF TurnInv, InTurn
    <3>3. PutBack'
      BY <1>1, <2>3, <3>2 DEF PutBack
    <3>4. ASSUME NEW kind \in Messages, NEW phases, NEW silent, TurnOf(kind, phases, silent)
          PROVE  Holds(Stream, kind)'
      BY <2>2, <3>4 DEF TurnOf, Holds
    <3>5. Turns'
      BY <1>1, <2>1, <3>2, <3>4 DEF Turns, TurnOf, Messages
    <3>q. QED BY <1>1, <3>1, <3>2, <3>3, <3>5
  <2>6. SocksCrashOnlyIfHarmed'
    BY <1>1, <1>3, <2>1 DEF TurnInv, SocksCrashOnlyIfHarmed, TurnBase
  <2>q. QED BY <2>4, <2>5, <2>6 DEF TurnInv, InTurn
<1>q. QED BY <1>4, <1>5

(* The client's FIN is read when it is all there is.                          *)
LEMMA EndBeforePipeTurns ==
  ASSUME TurnInv, AgreeInv', NEW s \in Sides, EndBeforePipe(s) PROVE TurnInv'
<1>1. /\ UNCHANGED <<wire, pending, destroyed, piping, cfg, spc, cpc, mark, method, harmed, faults>>
      /\ inbox' = [inbox EXCEPT ![s] = <<>>] /\ s \notin destroyed
      /\ inbox[s] # <<>> /\ Head(inbox[s]) = FIN
  BY DEF EndBeforePipe, HeadIs, socksVars
<1>2. inbox \in [Sides -> Seq(Units)] /\ "client" \in Sides /\ Stream \in Seq(Units)
  BY StreamType DEF TurnInv, AgreeInv, AuthInv, Sides
<1>3. CASE s # "client"
  <2>1. Stream' = Stream
    BY <1>1, <1>2, <1>3 DEF Stream
  <2>2. (cpc' = "crashed" => harmed') /\ faults' \in Nat /\ faults' >= faults
    BY <1>1 DEF TurnInv, SocksCrashOnlyIfHarmed, TurnBase
  <2>3. ~harmed /\ spc \in Negotiating =>
          wire["client"] \in Seq(Heard) /\ pending["client"] \in Seq(Heard)
    BY DEF TurnInv, InTurn
  <2>q. QED BY <1>1, <2>1, <2>2, <2>3, QuietTurns
<1>4. CASE s = "client"
  <2>1. Stream' = <<>> /\ Stream # <<>> /\ Stream[1] = FIN /\ "client" \notin destroyed
    BY <1>1, <1>2, <1>4 DEF Stream
  <2>2. TurnBase'
    BY <1>1, <2>1 DEF TurnInv, TurnBase, NoFin
  <2>3. ASSUME ~harmed', spc' \in Negotiating
        PROVE  wire'["client"] \in Seq(Heard') /\ pending'["client"] \in Seq(Heard') /\ PutBack' /\ Turns'
    <3>1. Heard' = Heard /\ ~harmed /\ spc \in Negotiating
      BY <1>1, <2>3 DEF Heard
    <3>2. wire["client"] \in Seq(Heard) /\ pending["client"] \in Seq(Heard) /\ PutBack /\ Turns
      BY <3>1 DEF TurnInv, InTurn
    <3>3. PutBack'
      BY <1>1, <2>1, <3>2 DEF PutBack
    <3>4. \A kind : Holds(Stream, kind)'
      BY <2>1, HoldsNothing DEF Holds
    <3>5. Turns'
      BY <1>1, <2>1, <3>2, <3>4 DEF Turns, TurnOf, NothingSent
    <3>q. QED BY <1>1, <3>1, <3>2, <3>3, <3>5
  <2>4. SocksCrashOnlyIfHarmed'
    BY <1>1 DEF TurnInv, SocksCrashOnlyIfHarmed
  <2>q. QED BY <2>2, <2>3, <2>4 DEF TurnInv, InTurn
<1>q. QED BY <1>3, <1>4

(* A client that breaks ends the server's process; no target is there yet to  *)
(* break while the ends negotiate.                                            *)
LEMMA ResetTurns ==
  ASSUME TurnInv, AgreeInv', NEW s \in Sides, ResetBeforePipe(s) PROVE TurnInv'
<1>1. /\ UNCHANGED <<piping, cfg, mark, method, harmed>> /\ faults' = faults + 1
      /\ inbox' = [inbox EXCEPT ![s] = <<>>] /\ ~piping
      /\ s = "client" => cpc' = "gone" /\ spc' = "crashed"
      /\ s # "client" => cpc' = cpc /\ spc' = spc /\ remote = "open"
  BY DEF ResetBeforePipe, Connected
<1>2. inbox \in [Sides -> Seq(Units)] /\ "client" \in Sides
  BY DEF TurnInv, AgreeInv, AuthInv, Sides
<1>3. s # "client" => Stream' = Stream
  BY <1>1, <1>2 DEF Stream
<1>4. faults' \in Nat /\ faults' > 0
  BY <1>1 DEF TurnInv, TurnBase
<1>5. TurnBase'
  BY <1>1, <1>3, <1>4 DEF TurnInv, TurnBase, NoFin
<1>6. InTurn'
  <2>1. spc' \notin Negotiating
    BY <1>1, NobodyDone DEF Negotiating, TurnInv
  <2>q. QED BY <2>1 DEF InTurn
<1>7. SocksCrashOnlyIfHarmed'
  BY <1>1, <1>4 DEF TurnInv, SocksCrashOnlyIfHarmed
<1>q. QED BY <1>5, <1>6, <1>7 DEF TurnInv

(* The pipe reads nothing while the ends negotiate; what is written may go.   *)
LEMMA PipeTurns ==
  ASSUME TurnInv, AgreeInv', PipeNext, UNCHANGED socksVars PROVE TurnInv'
<1>1. UNCHANGED <<cfg, spc, cpc, mark, method, harmed, faults>>
  BY DEF socksVars
<1>2. inbox \in [Sides -> Seq(Units)] /\ "client" \in Sides /\ \A s \in Sides : Other(s) \in Sides
  BY DEF TurnInv, AgreeInv, AuthInv, Sides, Other
<1>3. wire \in [Sides -> Seq(Told)] /\ pending \in [Sides -> Seq(Told)]
  BY DEF TurnInv, AgreeInv
<1>4. piping' = piping /\ destroyed \subseteq destroyed'
  <2>1. ASSUME NEW s \in Sides, Forward(s) \/ PeerEnded(s) \/ Flush(s) \/ Finish(s)
        PROVE  piping' = piping /\ destroyed \subseteq destroyed'
    BY <2>1 DEF Forward, PeerEnded, Flush, Finish, CloseBoth, Destroy
  <2>2. ASSUME NEW s \in Sides, PipelineDone(s) \/ SocketClosed(s) \/ PipeError(s)
        PROVE  piping' = piping /\ destroyed \subseteq destroyed'
    BY <2>2 DEF PipelineDone, SocketClosed, PipeError, CloseBoth, Destroy
  <2>3. ASSUME GraceOver \/ IdleTimeout
        PROVE  piping' = piping /\ destroyed \subseteq destroyed'
    BY <2>3 DEF GraceOver, IdleTimeout, CloseBoth, Destroy
  <2>q. QED BY <2>1, <2>2, <2>3 DEF PipeNext
<1>5. ASSUME ~piping
      PROVE  /\ inbox' = inbox
             /\ \A T : /\ FIN \in T /\ wire["client"] \in Seq(T) /\ pending["client"] \in Seq(T)
                       => wire'["client"] \in Seq(T) /\ pending'["client"] \in Seq(T)
  <2> SUFFICES ASSUME NEW T, FIN \in T, wire["client"] \in Seq(T), pending["client"] \in Seq(T)
               PROVE  inbox' = inbox /\ wire'["client"] \in Seq(T) /\ pending'["client"] \in Seq(T)
    <3>1. \E T : FIN \in T /\ wire["client"] \in Seq(T) /\ pending["client"] \in Seq(T)
      <4>1. FIN \in Told
        BY ServerMessages DEF TurnInv, AgreeInv, ServerAgrees
      <4>q. QED BY <1>2, <1>3, <4>1
    <3>q. QED BY <3>1
  <2>1. ASSUME CloseBoth PROVE pending'["client"] \in Seq(T)
    BY <1>2, <2>1 DEF CloseBoth, Destroy
  <2>2. ASSUME NEW s \in Sides, Flush(s)
        PROVE  inbox' = inbox /\ wire'["client"] \in Seq(T) /\ pending'["client"] \in Seq(T)
    <3>1. CASE s = "client"
      <4>1. /\ pending["client"] # <<>> /\ inbox' = inbox
            /\ wire'["client"] = Append(wire["client"], Head(pending["client"]))
            /\ pending'["client"] = Tail(pending["client"])
        BY <1>2, <1>3, <2>2, <3>1 DEF Flush
      <4>2. Head(pending["client"]) \in T /\ Tail(pending["client"]) \in Seq(T)
        BY <4>1
      <4>q. QED BY <4>1, <4>2
    <3>2. CASE s # "client"
      BY <1>2, <1>3, <2>2, <3>2 DEF Flush
    <3>q. QED BY <3>1, <3>2
  <2>3. ASSUME NEW s \in Sides, Finish(s)
        PROVE  inbox' = inbox /\ wire'["client"] \in Seq(T) /\ pending'["client"] \in Seq(T)
    <3>1. wire'["client"] = wire["client"] \/ wire'["client"] = Append(wire["client"], FIN)
      BY <1>2, <1>3, <2>3 DEF Finish
    <3>2. Append(wire["client"], FIN) \in Seq(T)
      OBVIOUS
    <3>q. QED BY <2>3, <3>1, <3>2 DEF Finish
  <2>4. ASSUME NEW s \in Sides, SocketClosed(s)
        PROVE  inbox' = inbox /\ wire'["client"] \in Seq(T) /\ pending'["client"] \in Seq(T)
    BY <1>5, <2>4 DEF SocketClosed
  <2>5. ASSUME GraceOver
        PROVE  inbox' = inbox /\ wire'["client"] \in Seq(T) /\ pending'["client"] \in Seq(T)
    BY <2>1, <2>5 DEF GraceOver
  <2>6. ASSUME NEW s \in Sides PROVE ~(Forward(s) \/ PeerEnded(s) \/ PipelineDone(s) \/ PipeError(s))
    BY <1>5 DEF Forward, PeerEnded, PipelineDone, PipeError
  <2>7. ~IdleTimeout
    BY <1>5 DEF IdleTimeout
  <2>q. QED BY <2>2, <2>3, <2>4, <2>5, <2>6, <2>7 DEF PipeNext
<1>6. CASE ~piping
  <2>1. Stream' = Stream
    BY <1>5, <1>6 DEF Stream
  <2>2. FIN \in Heard
    BY DEF Heard
  <2>3. ~harmed' /\ spc \in Negotiating =>
          wire'["client"] \in Seq(Heard) /\ pending'["client"] \in Seq(Heard)
    BY <1>1, <1>5, <1>6, <2>2 DEF TurnInv, InTurn
  <2>4. (cpc' = "crashed" => harmed') /\ faults' \in Nat /\ faults' >= faults
    BY <1>1 DEF TurnInv, SocksCrashOnlyIfHarmed, TurnBase
  <2>q. QED BY <1>1, <1>4, <2>1, <2>3, <2>4, QuietTurns
<1>7. CASE piping
  <2>1. spc' = "piping" /\ spc = "piping"
    BY <1>1, <1>7 DEF TurnInv, TurnBase
  <2>2. NoFin => NoFin'
    <3>1. inbox'["client"] = inbox["client"] \/ inbox'["client"] = <<>>
          \/ (inbox["client"] # <<>> /\ inbox'["client"] = Tail(inbox["client"]))
      <4>1. ASSUME NEW s \in Sides, Forward(s) \/ PeerEnded(s) \/ Flush(s) \/ Finish(s)
            PROVE  inbox'["client"] = inbox["client"] \/ inbox'["client"] = <<>>
                   \/ (inbox["client"] # <<>> /\ inbox'["client"] = Tail(inbox["client"]))
        BY <1>2, <4>1 DEF Forward, PeerEnded, Flush, Finish
      <4>2. ASSUME NEW s \in Sides, PipelineDone(s) \/ SocketClosed(s) \/ PipeError(s)
            PROVE  inbox' = inbox
        BY <4>2 DEF PipelineDone, SocketClosed, PipeError
      <4>3. ASSUME GraceOver \/ IdleTimeout PROVE inbox' = inbox
        BY <4>3 DEF GraceOver, IdleTimeout
      <4>q. QED BY <4>1, <4>2, <4>3 DEF PipeNext
    <3>2. inbox["client"] \in Seq(Units)
      BY <1>2
    <3>3. CASE inbox["client"] # <<>> /\ inbox'["client"] = Tail(inbox["client"])
      <4>1. /\ Len(Tail(inbox["client"])) = Len(inbox["client"]) - 1 /\ Tail(inbox["client"]) \in Seq(Units)
            /\ \A i \in 1..Len(Tail(inbox["client"])) : Tail(inbox["client"])[i] = inbox["client"][i + 1]
        BY <3>2, <3>3
      <4>q. QED BY <3>2, <3>3, <4>1 DEF NoFin, Stream
    <3>q. QED BY <3>1, <3>2, <3>3 DEF NoFin, Stream
  <2>3. TurnBase'
    BY <1>1, <1>4, <2>1, <2>2 DEF TurnInv, TurnBase
  <2>4. InTurn' /\ SocksCrashOnlyIfHarmed'
    BY <1>1, <2>1 DEF InTurn, Negotiating, TurnInv, SocksCrashOnlyIfHarmed
  <2>q. QED BY <2>3, <2>4 DEF TurnInv
<1>q. QED BY <1>6, <1>7 DEF TurnInv, TurnBase

-----------------------------------------------------------------------------
(* The server gives up the negotiation, or is through with it.                *)
LEMMA LeavingTurns ==
  ASSUME TurnInv, AgreeInv', spc' \notin Negotiating, spc' = "crashed" => harmed',
         UNCHANGED <<cpc, faults>>, harmed => harmed', mark' \in Nat, piping' => spc' = "piping",
         NoFin => NoFin'
  PROVE  TurnInv'
<1>1. TurnBase'
  BY DEF TurnInv, TurnBase, Negotiating
<1>2. InTurn' /\ SocksCrashOnlyIfHarmed'
  BY DEF InTurn, TurnInv, SocksCrashOnlyIfHarmed
<1>q. QED BY <1>1, <1>2 DEF TurnInv

(* What the server takes off the client's stream.                             *)
LEMMA ServerHears ==
  ASSUME TurnInv, NEW n \in Nat, ServerTakes(n), ServerSame
  PROVE  /\ UNCHANGED <<destroyed, piping, cfg, cpc, faults>> /\ mark' = 0
         /\ (harmed => harmed') /\ (NoFin => NoFin')
         /\ \A kind \in Messages : ~harmed' /\ Holds(Stream, kind) /\ PutBack =>
              /\ Stream # <<>> /\ Stream' \in {<<>>, <<FIN>>}
              /\ SubSeq(Stream, 1, n)[1][1] = kind /\ Lead(SubSeq(Stream, 1, n)) = Size[kind]
<1>1. inbox \in [Sides -> Seq(Units)] /\ "client" \in Sides /\ Stream \in Seq(Units) /\ AuthInv
      /\ mark \in Nat
  BY StreamType DEF TurnInv, AgreeInv, AuthInv, Sides, TurnBase
<1>2. /\ Stream' = SubSeq(Stream, n + 1, Len(Stream)) /\ mark' = 0 /\ "client" \notin destroyed
      /\ n \in ChunkSizes(Stream, mark) /\ (~harmed' => Exact(SubSeq(Stream, 1, n)))
      /\ harmed => harmed'
  BY <1>1 DEF ServerTakes, Stream
<1>3. UNCHANGED <<destroyed, piping, cfg, cpc, faults>>
  BY DEF ServerSame
<1>4. NoFin => NoFin'
  <2>1. /\ SubSeq(Stream, n + 1, Len(Stream)) \in Seq(Units)
        /\ \A i \in 1..Len(SubSeq(Stream, n + 1, Len(Stream))) :
             SubSeq(Stream, n + 1, Len(Stream))[i] = Stream[n + i] /\ n + i \in 1..Len(Stream)
    BY <1>1
  <2>q. QED BY <1>1, <1>2, <2>1 DEF NoFin
<1>5. ASSUME NEW kind \in Messages, ~harmed', Holds(Stream, kind), PutBack
      PROVE  /\ Stream # <<>> /\ Stream' \in {<<>>, <<FIN>>}
             /\ SubSeq(Stream, 1, n)[1][1] = kind /\ Lead(SubSeq(Stream, 1, n)) = Size[kind]
  <2>1. Size[kind] \in Nat \ {0}
    BY Kinded DEF Messages
  <2>2. Exact(SubSeq(Stream, 1, n)) /\ "client" \notin destroyed /\ n \in ChunkSizes(Stream, mark)
    BY <1>2, <1>5
  <2>3. /\ n = Size[kind] /\ n \in Nat /\ Stream # <<>>
        /\ SubSeq(Stream, 1, n)[1][1] = kind /\ Lead(SubSeq(Stream, 1, n)) = Size[kind]
        /\ \/ SubSeq(Stream, n + 1, Len(Stream)) = <<>>
           \/ SubSeq(Stream, n + 1, Len(Stream)) = <<FIN>>
    BY <1>1, <1>5, <2>1, <2>2, TakesWhole
  <2>q. QED BY <1>2, <2>3
<1>q. QED BY <1>2, <1>3, <1>4, <1>5

(* The next turn of the server: the client's message is out of its stream, and *)
(* the answer to it on the wire.                                              *)
LEMMA NextTurn ==
  ASSUME TurnInv, AgreeInv', UNCHANGED <<destroyed, piping, cfg, cpc, faults, pending>>, mark' = 0,
         harmed => harmed', NoFin => NoFin', spc \in Negotiating, spc' \in {"waitUserPass", "waitRequest"},
         ~harmed' => /\ Stream' \in {<<>>, <<FIN>>} /\ wire'["client"] \in Seq(Heard')
                     /\ Heard \subseteq Heard'
                     /\ spc' = "waitUserPass" =>
                          method' = UserPass /\ cpc \in {"waitMethod", "waitAuth", "failed", "gone"}
                     /\ spc' = "waitRequest" =>
                          /\ cpc \in {"waitMethod", "waitAuth", "waitResponse", "failed", "gone"}
                          /\ cpc = "waitMethod" => method' # UserPass
  PROVE  TurnInv'
<1>1. ~piping
  BY DEF TurnInv, TurnBase, Negotiating
<1>2. TurnBase'
  BY <1>1 DEF TurnInv, TurnBase
<1>3. ASSUME ~harmed'
      PROVE  wire'["client"] \in Seq(Heard') /\ pending'["client"] \in Seq(Heard') /\ PutBack' /\ Turns'
  <2>1. pending["client"] \in Seq(Heard)
    BY <1>3 DEF TurnInv, InTurn
  <2>2. pending'["client"] \in Seq(Heard')
    BY <1>3, <2>1
  <2>3. \A kind : Holds(Stream, kind)'
    BY <1>3, HoldsNothing DEF Holds
  <2>4. cpc # "gone" => Stream' = <<>>
    <3>1. ASSUME Stream' = <<FIN>> PROVE ~NoFin'
      BY <3>1 DEF NoFin
    <3>q. QED BY <1>3, <3>1 DEF TurnInv, TurnBase
  <2>5. Turns'
    BY <1>3, <2>3, <2>4 DEF Turns, TurnOf, NothingSent
  <2>q. QED BY <1>3, <2>2, <2>5 DEF PutBack
<1>4. SocksCrashOnlyIfHarmed'
  BY DEF TurnInv, SocksCrashOnlyIfHarmed
<1>q. QED BY <1>2, <1>3, <1>4 DEF TurnInv, InTurn

LEMMA RouteTurns ==
  ASSUME TurnInv, AgreeInv', NEW n \in Nat, RouteConnection(n) PROVE TurnInv'
<1>1. /\ UNCHANGED <<inbox, wire, destroyed, piping, cfg, cpc, faults, method, harmed>>
      /\ spc = "route" /\ n \in ChunkSizes(inbox["client"], 0) /\ mark' = FirstLine(n)
  BY DEF RouteConnection, ServerSame
<1>2. Stream' = Stream /\ Stream \in Seq(Units) /\ NoFin' = NoFin
  BY <1>1, StreamType DEF Stream, TurnInv, AgreeInv, NoFin
<1>3. mark' \in Nat
  BY <1>1 DEF FirstLine
<1>4. ~piping
  BY <1>1 DEF TurnInv, TurnBase
<1>5. CASE ServerFails("refused")
  <2>1. spc' = "refused"
    BY <1>5 DEF ServerFails
  <2>q. QED BY <1>1, <1>2, <1>3, <1>4, <2>1, LeavingTurns DEF Negotiating
<1>6. CASE ~ServerFails("refused")
  <2>1. UNCHANGED pending /\ spc' = IF cfg.version = 5 THEN "waitMethod" ELSE "waitHello"
    BY <1>6 DEF RouteConnection, NoHandler
  <2>2. TurnBase'
    BY <1>1, <1>2, <1>3, <1>4, <2>1 DEF TurnInv, TurnBase
  <2>3. ASSUME ~harmed'
        PROVE  wire'["client"] \in Seq(Heard') /\ pending'["client"] \in Seq(Heard') /\ PutBack' /\ Turns'
    <3>1. Heard' = {FIN} /\ Heard = {FIN}
      BY <1>1, <2>1 DEF Heard
    <3>2. wire["client"] \in Seq(Heard) /\ pending["client"] \in Seq(Heard) /\ Turns
      BY <1>1, <2>3 DEF TurnInv, InTurn, Negotiating
    <3>4. n \in ChunkSizes(Stream, 0)
      BY <1>1 DEF Stream
    <3>5. \E i \in 1..Len(Stream) : Stream[i] # FIN
      <4>1. ASSUME \A i \in 1..Len(Stream) : Stream[i] = FIN PROVE FALSE
        <5>1. {i \in DOMAIN Stream : Stream[i] # FIN} = {}
          BY <1>2, <4>1
        <5>2. n \in 1..0
          BY <3>4, <5>1, FS_EmptySet DEF ChunkSizes
        <5>q. QED BY <5>2
      <4>q. QED BY <4>1
    <3>6. Stream # <<>> /\ Stream[1] # FIN
      <4>1. PICK kind : kind \in {"methods", "hello"} /\ Holds(Stream, kind)
        BY <1>1, <3>2 DEF Turns, TurnOf
      <4>2. PICK len \in {0, Size[kind]} : /\ Len(Stream) \in {len, len + 1}
                                           /\ \A i \in 1..len : Stream[i][1] = kind
                                           /\ Len(Stream) = len + 1 => Stream[len + 1] = FIN
        BY <4>1 DEF Holds
      <4>3. len \in Nat \ {0}
        BY <1>2, <3>5, <4>1, <4>2, Kinded
      <4>4. Stream[1][1] = kind /\ kind # "fin"
        BY <4>1, <4>2, <4>3
      <4>q. QED BY <1>2, <3>5, <4>4 DEF FIN
    <3>7. PutBack'
      BY <1>2, <3>6 DEF PutBack
    <3>8. Turns'
      BY <1>1, <1>2, <2>1, <3>2 DEF Turns, TurnOf, NothingSent
    <3>q. QED BY <1>1, <2>1, <3>1, <3>2, <3>7, <3>8
  <2>4. SocksCrashOnlyIfHarmed'
    BY <1>1, <2>1 DEF TurnInv, SocksCrashOnlyIfHarmed
  <2>q. QED BY <2>2, <2>3, <2>4 DEF TurnInv, InTurn
<1>q. QED BY <1>5, <1>6

(* What every wait of the server for a message does first.                    *)
LEMMA WaitBegins ==
  ASSUME TurnInv, NEW n \in Nat, ServerTakes(n), ServerSame, spc \in Negotiating
  PROVE  /\ UNCHANGED <<destroyed, piping, cfg, cpc, faults>> /\ mark' = 0 /\ mark' \in Nat
         /\ (harmed => harmed') /\ (NoFin => NoFin') /\ ~piping /\ ~piping'
         /\ ~harmed' => ~harmed /\ PutBack /\ Turns
                        /\ wire["client"] \in Seq(Heard) /\ pending["client"] \in Seq(Heard)
<1>1. /\ UNCHANGED <<destroyed, piping, cfg, cpc, faults>> /\ mark' = 0
      /\ (harmed => harmed') /\ (NoFin => NoFin')
  BY ServerHears
<1>2. ~piping
  BY DEF TurnInv, TurnBase, Negotiating
<1>3. ~harmed => PutBack /\ Turns /\ wire["client"] \in Seq(Heard) /\ pending["client"] \in Seq(Heard)
  BY DEF TurnInv, InTurn
<1>q. QED BY <1>1, <1>2, <1>3

LEMMA WaitMethodTurns ==
  ASSUME TurnInv, AgreeInv', NEW n \in Nat, ServerWaitMethod(n) PROVE TurnInv'
<1>1. ServerTakes(n) /\ ServerSame /\ spc = "waitMethod" /\ spc \in Negotiating
  BY DEF ServerWaitMethod, Negotiating
<1>2. /\ UNCHANGED <<destroyed, piping, cfg, cpc, faults>> /\ mark' = 0 /\ mark' \in Nat
      /\ (harmed => harmed') /\ (NoFin => NoFin') /\ ~piping /\ ~piping'
      /\ ~harmed' => ~harmed /\ PutBack /\ Turns
                     /\ wire["client"] \in Seq(Heard) /\ pending["client"] \in Seq(Heard)
  BY <1>1, WaitBegins
<1>3. CASE ServerFails("failed")
  <2>1. spc' = "failed"
    BY <1>3 DEF ServerFails
  <2>q. QED BY <1>2, <2>1, LeavingTurns DEF Negotiating
<1>4. CASE ~ServerFails("failed")
  <2>1. PICK m : ReplyMethod(m) /\ UNCHANGED pending
    BY <1>4 DEF ServerWaitMethod
  <2>2. cfg.version = 5
    BY <1>1, NobodyDone DEF TurnInv
  <2>3. ASSUME ~harmed'
        PROVE  /\ Stream' \in {<<>>, <<FIN>>} /\ wire'["client"] \in Seq(Heard') /\ Heard \subseteq Heard'
               /\ cpc \in {"waitMethod", "failed", "gone"}
    <3>1. Turns /\ PutBack /\ wire["client"] \in Seq(Heard)
      BY <1>2, <2>3
    <3>2. cpc \in {"start", "waitMethod", "failed", "gone"} /\ (cpc = "start" => Stream = <<>>)
          /\ Holds(Stream, "methods")
      BY <1>1, <2>2, <3>1 DEF Turns, TurnOf, NothingSent
    <3>3. Stream # <<>> /\ Stream' \in {<<>>, <<FIN>>}
      BY <1>1, <2>3, <3>1, <3>2, ServerHears DEF Messages
    <3>4. Heard = {FIN} /\ Heard' = {FIN} \cup {<<"method", m, i>> : i \in Nat}
                                          \cup (IF spc' = "waitRequest"
                                                THEN {<<"auth", "ok", i>> : i \in Nat} ELSE {})
      BY <1>1, <2>1 DEF Heard, ReplyMethod
    <3>5. MethodMsg(m) \in Seq(Heard')
      <4>1. \A i \in Nat : <<"method", m, i>> \in Heard'
        BY <3>4
      <4>q. QED BY <4>1 DEF MethodMsg, Msg, Size
    <3>6. wire'["client"] = wire["client"] \o MethodMsg(m)
      BY <2>1 DEF ReplyMethod, Write, TurnInv, AgreeInv, Sides
    <3>7. wire["client"] \in Seq(Heard')
      BY <3>1, <3>4
    <3>q. QED BY <3>2, <3>3, <3>4, <3>5, <3>6, <3>7
  <2>4. /\ method' = m /\ spc' \in {"waitUserPass", "waitRequest"}
        /\ spc' = "waitUserPass" <=> m = UserPass
    BY <2>1 DEF ReplyMethod
  <2>q. QED BY <1>1, <1>2, <2>1, <2>3, <2>4, NextTurn
<1>q. QED BY <1>3, <1>4

LEMMA WaitUserPassTurns ==
  ASSUME TurnInv, AgreeInv', NEW n \in Nat, ServerWaitUserPass(n) PROVE TurnInv'
<1>1. ServerTakes(n) /\ ServerSame /\ spc = "waitUserPass" /\ spc \in Negotiating /\ method' = method
  BY DEF ServerWaitUserPass, Negotiating
<1>2. /\ UNCHANGED <<destroyed, piping, cfg, cpc, faults>> /\ mark' = 0 /\ mark' \in Nat
      /\ (harmed => harmed') /\ (NoFin => NoFin') /\ ~piping /\ ~piping'
      /\ ~harmed' => ~harmed /\ PutBack /\ Turns
                     /\ wire["client"] \in Seq(Heard) /\ pending["client"] \in Seq(Heard)
  BY <1>1, WaitBegins
<1>3. CASE ServerFails("failed")
  <2>1. spc' = "failed"
    BY <1>3 DEF ServerFails
  <2>q. QED BY <1>2, <2>1, LeavingTurns DEF Negotiating
<1>4. CASE ~ServerFails("failed")
  <2>1. Write("client", AuthMsg) /\ spc' = "waitRequest" /\ UNCHANGED pending
    BY <1>4 DEF ServerWaitUserPass
  <2>2. ASSUME ~harmed'
        PROVE  /\ Stream' \in {<<>>, <<FIN>>} /\ wire'["client"] \in Seq(Heard') /\ Heard \subseteq Heard'
               /\ cpc \in {"waitAuth", "failed", "gone"}
    <3>1. Turns /\ PutBack /\ wire["client"] \in Seq(Heard)
      BY <1>2, <2>2
    <3>2. cpc \in {"waitMethod", "waitAuth", "failed", "gone"} /\ (cpc = "waitMethod" => Stream = <<>>)
          /\ Holds(Stream, "userpass")
      BY <1>1, <3>1 DEF Turns, TurnOf, NothingSent
    <3>3. Stream # <<>> /\ Stream' \in {<<>>, <<FIN>>}
      BY <1>1, <2>2, <3>1, <3>2, ServerHears DEF Messages
    <3>4. /\ Heard = {FIN} \cup {<<"method", method, i>> : i \in Nat}
          /\ Heard' = Heard \cup {<<"auth", "ok", i>> : i \in Nat}
      BY <1>1, <2>1 DEF Heard
    <3>5. AuthMsg \in Seq(Heard')
      <4>1. \A i \in Nat : <<"auth", "ok", i>> \in Heard'
        BY <3>4
      <4>q. QED BY <4>1 DEF AuthMsg, Msg, Size
    <3>6. wire'["client"] = wire["client"] \o AuthMsg
      BY <2>1 DEF Write, TurnInv, AgreeInv, Sides
    <3>7. wire["client"] \in Seq(Heard') /\ Heard \subseteq Heard'
      BY <3>1, <3>4
    <3>q. QED BY <3>2, <3>3, <3>5, <3>6, <3>7
  <2>q. QED BY <1>1, <1>2, <2>1, <2>2, NextTurn
<1>q. QED BY <1>3, <1>4

(* A request or hello that is whole is parsed.                                *)
LEMMA WaitTargetTurns ==
  ASSUME TurnInv, AgreeInv', NEW n \in Nat, ServerWaitRequest(n) \/ ServerWaitHello(n) PROVE TurnInv'
<1> DEFINE chunk == SubSeq(Stream, 1, n)
<1>1. ServerTakes(n) /\ ServerSame /\ spc \in {"waitRequest", "waitHello"} /\ spc \in Negotiating
      /\ (AfterRequest(chunk) \/ ServerFails("failed"))
  BY DEF ServerWaitRequest, ServerWaitHello, Negotiating, Stream
<1>2. /\ UNCHANGED <<destroyed, piping, cfg, cpc, faults>> /\ mark' = 0 /\ mark' \in Nat
      /\ (harmed => harmed') /\ (NoFin => NoFin') /\ ~piping /\ ~piping'
      /\ ~harmed' => ~harmed /\ PutBack /\ Turns
                     /\ wire["client"] \in Seq(Heard) /\ pending["client"] \in Seq(Heard)
  BY <1>1, WaitBegins
<1>3. ~harmed' => Lead(chunk) = 3
  <2> SUFFICES ASSUME ~harmed' PROVE Lead(chunk) = 3
    OBVIOUS
  <2>1. Turns /\ PutBack
    BY <1>2
  <2>2. PICK kind \in {"request", "hello"} : Holds(Stream, kind)
    <3>1. CASE spc = "waitRequest"
      BY <2>1, <3>1 DEF Turns, TurnOf
    <3>2. CASE spc = "waitHello"
      <4>1. cfg.version # 5
        BY <1>1, <3>2, NobodyDone DEF TurnInv
      <4>q. QED BY <2>1, <3>2, <4>1 DEF Turns, TurnOf
    <3>q. QED BY <1>1, <3>1, <3>2
  <2>3. Lead(chunk) = Size[kind]
    BY <1>1, <2>1, <2>2, ServerHears DEF Messages
  <2>q. QED BY <2>2, <2>3, Kinded
<1> HIDE DEF chunk
<1>4. spc' \in {"failed", "crashed", "connecting"}
  BY <1>1 DEF ServerFails, AfterRequest
<1>5. ~harmed' => spc' # "crashed"
  <2>1. ASSUME Lead(chunk) = 3 PROVE ParseTarget(3 - Lead(chunk)) # "throws"
    <3>1. 3 - Lead(chunk) = 0
      BY <2>1
    <3>q. QED BY <3>1 DEF ParseTarget
  <2>q. QED BY <1>1, <1>3, <2>1 DEF AfterRequest, ServerFails
<1>q. QED BY <1>2, <1>4, <1>5, LeavingTurns DEF Negotiating

LEMMA ServerRestTurns ==
  ASSUME TurnInv, AgreeInv', ServerTimeout \/ ConnectTarget \/ SendResponse \/ StartPipe
  PROVE  TurnInv'
<1>1. UNCHANGED <<cpc, faults, harmed, mark>> /\ Stream' = Stream
  <2>1. UNCHANGED <<cpc, faults, harmed, mark>>
    BY DEF ServerTimeout, ConnectTarget, SendResponse, StartPipe, ServerSame
  <2>2. inbox' = inbox \/ inbox' = [inbox EXCEPT !["remote"] = UpstreamMsg(cfg.addr)]
    BY DEF ServerTimeout, ConnectTarget, SendResponse, StartPipe, ConnectFromLocal, ProxyRequestTarget
  <2>3. inbox \in [Sides -> Seq(Units)] /\ "client" \in Sides
    BY DEF TurnInv, AgreeInv, AuthInv, Sides
  <2>q. QED BY <2>1, <2>2, <2>3 DEF Stream
<1>2. spc' \in {"failed", "waitUpstream", "responding", "responded", "piping"}
  BY DEF ServerTimeout, ConnectTarget, SendResponse, StartPipe, ConnectFromLocal, ProxyRequestTarget, ServerFails
<1>3. piping' => spc' = "piping"
  <2>1. ~piping
    BY DEF TurnInv, TurnBase, ServerTimeout, ConnectTarget, SendResponse, StartPipe
  <2>2. CASE ServerTimeout \/ ConnectTarget \/ SendResponse
    BY <2>1, <2>2 DEF ServerTimeout, ServerSame, ConnectTarget, SendResponse
  <2>3. CASE StartPipe
    BY <2>1, <2>3 DEF StartPipe
  <2>q. QED BY <2>2, <2>3
<1>4. mark' \in Nat /\ NoFin' = NoFin
  BY <1>1 DEF TurnInv, TurnBase, NoFin
<1>q. QED BY <1>1, <1>2, <1>3, <1>4, LeavingTurns DEF Negotiating

(* What a server behind this one has answered lies before all that follows,   *)
(* as long as it is waited for.                                               *)
UpstreamAhead ==
  spc = "waitUpstream" /\ "remote" \notin destroyed =>
    /\ Len(inbox["remote"]) >= 4
    /\ \A i \in 1..4 : inbox["remote"][i] = <<"upstream", cfg.addr, i>>

LEMMA UpstreamIs ==
  /\ Size["upstream"] = 4
  /\ \A addr : /\ Len(UpstreamMsg(addr)) = 4
                /\ \A i \in 1..4 : UpstreamMsg(addr)[i] = <<"upstream", addr, i>>
<1>1. Size["upstream"] = 4
  BY DEF Size
<1>2. ASSUME NEW addr
      PROVE  /\ Len(UpstreamMsg(addr)) = 4
             /\ \A i \in 1..4 : UpstreamMsg(addr)[i] = <<"upstream", addr, i>>
  <2>1. UpstreamMsg(addr) = [i \in 1..4 |-> <<"upstream", addr, i>>]
    BY <1>1 DEF UpstreamMsg, Msg
  <2>q. QED BY <2>1
<1>q. QED BY <1>1, <1>2

(* As long as an answer is waited for the target's stream only grows, or it   *)
(* is gone.                                                                   *)
Payload(u) == u = FIN \/ IsData(u)
Grows == \/ UNCHANGED inbox["remote"]
         \/ \E u \in Units : Payload(u) /\ inbox'["remote"] = Append(inbox["remote"], u)

LEMMA UpstreamGrows ==
  ASSUME TurnInv, SocksNext, spc = "waitUpstream", spc' = spc, UpstreamAhead
  PROVE  /\ cfg' = cfg /\ destroyed \subseteq destroyed'
         /\ Grows \/ (inbox'["remote"] = <<>> /\ "remote" \in destroyed')
<1> DEFINE q == inbox["remote"]
<1>1. /\ ~piping /\ q \in Seq(Units) /\ inbox \in [Sides -> Seq(Units)] /\ AuthInv
      /\ "remote" \in Sides /\ "client" \in Sides /\ FIN \in Units
  BY ClientMessages DEF TurnInv, TurnBase, AgreeInv, AuthInv, Sides
<1>2. CASE \/ ClientStart \/ ClientTimeout \/ ClientReads \/ ClientSends \/ TargetSends
           \/ \E n \in 1..4 + TargetData : ClientWaitMethod(n) \/ ClientWaitAuth(n) \/ ClientWaitResponse(n)
  <2>1. UNCHANGED <<cfg, destroyed>>
    BY <1>2 DEF ClientStart, ClientTimeout, ClientReads, ClientSends, TargetSends, EndSends, ClientWaitMethod,
                ClientWaitAuth, ClientWaitResponse, ClientTakes, pipeVars
  <2>2. Grows
    <3>1. CASE ClientSends \/ TargetSends
      <4>1. PICK s \in Sides : inbox' = [inbox EXCEPT ![s] = Append(@, <<"data", sent[s] + 1, 1>>)]
        BY <1>1, <3>1 DEF ClientSends, TargetSends, EndSends
      <4>2. <<"data", sent[s] + 1, 1>> \in Units /\ Payload(<<"data", sent[s] + 1, 1>>)
        BY <1>1, ClientMessages DEF AuthInv, Payload, IsData
      <4>q. QED BY <1>1, <4>1, <4>2 DEF Grows
    <3>2. CASE ~(ClientSends \/ TargetSends)
      BY <1>1, <1>2, <3>2
         DEF ClientStart, ClientTimeout, ClientReads, ClientWaitMethod, AfterMethod, ClientWaitAuth,
             ClientWaitResponse, pipeVars, Grows
    <3>q. QED BY <3>1, <3>2
  <2>q. QED BY <2>1, <2>2
<1>3. CASE \E s \in Sides : EndLeaves(s) \/ EndBeforePipe(s) \/ ResetBeforePipe(s)
  <2>1. PICK s \in Sides : EndLeaves(s) \/ EndBeforePipe(s) \/ ResetBeforePipe(s)
    BY <1>3
  <2>2. UNCHANGED cfg /\ destroyed \subseteq destroyed'
    BY <2>1 DEF EndLeaves, EndBeforePipe, ResetBeforePipe, Destroy, socksVars
  <2>3. CASE EndLeaves(s)
    BY <1>1, <2>2, <2>3 DEF EndLeaves, Grows, Payload
  <2>4. CASE EndBeforePipe(s)
    <3>1. "remote" \notin destroyed => q[1] # FIN /\ q[1] = Head(q)
      BY <1>1 DEF UpstreamAhead, FIN
    <3>2. s # "remote"
      BY <2>4, <3>1 DEF EndBeforePipe, HeadIs
    <3>q. QED BY <1>1, <2>2, <2>4, <3>2 DEF EndBeforePipe, Grows
  <2>5. CASE ResetBeforePipe(s)
    <3>1. inbox' = [inbox EXCEPT ![s] = <<>>] /\ destroyed' = destroyed \cup {s}
      BY <2>5 DEF ResetBeforePipe, Destroy
    <3>q. QED BY <1>1, <2>2, <3>1 DEF Grows
  <2>q. QED BY <2>1, <2>3, <2>4, <2>5
<1>4. CASE PipeNext /\ UNCHANGED socksVars
  <2>1. UNCHANGED <<cfg, inbox>> /\ destroyed \subseteq destroyed'
    BY <1>1, <1>4 DEF PipeNext, Forward, PeerEnded, Flush, Finish, PipelineDone, SocketClosed, PipeError, GraceOver,
                      IdleTimeout, CloseBoth, Destroy, socksVars
  <2>q. QED BY <2>1 DEF Grows
<1>5. ASSUME NEW n PROVE ~(RouteConnection(n) \/ ServerWaitMethod(n) \/ ServerWaitUserPass(n)
                            \/ ServerWaitRequest(n) \/ ServerWaitHello(n) \/ UpstreamResponse(n))
  BY DEF RouteConnection, ServerWaitMethod, ServerWaitUserPass, ServerWaitRequest, ServerWaitHello,
         UpstreamResponse, ServerFails
<1>6. ~(ServerTimeout \/ ConnectTarget \/ UpstreamUnheard \/ SendResponse \/ StartPipe)
  BY DEF ServerTimeout, ConnectTarget, UpstreamUnheard, SendResponse, StartPipe
<1>q. QED BY <1>2, <1>3, <1>4, <1>5, <1>6 DEF SocksNext

LEMMA UpstreamStays ==
  ASSUME TurnInv, SocksNext, spc = "waitUpstream", spc' = spc, UpstreamAhead
  PROVE  UpstreamAhead'
<1> DEFINE q == inbox["remote"]
<1>1. q \in Seq(Units) /\ Len(q) \in Nat
  BY DEF TurnInv, AgreeInv, AuthInv, Sides
<1>2. CASE "remote" \in destroyed'
  BY <1>2 DEF UpstreamAhead
<1>3. CASE "remote" \notin destroyed'
  <2>1. Grows /\ cfg' = cfg /\ "remote" \notin destroyed
    BY <1>3, UpstreamGrows
  <2>2. Len(q) >= 4 /\ \A i \in 1..4 : q[i] = <<"upstream", cfg.addr, i>>
    BY <2>1 DEF UpstreamAhead
  <2>3. ASSUME NEW u \in Units, inbox'["remote"] = Append(q, u)
        PROVE  Len(inbox'["remote"]) >= 4 /\ \A i \in 1..4 : inbox'["remote"][i] = q[i]
    BY <1>1, <2>2, <2>3, AppendProperties
  <2>q. QED BY <2>1, <2>2, <2>3 DEF UpstreamAhead, Grows
<1>q. QED BY <1>2, <1>3

LEMMA UpstreamBegins ==
  ASSUME TurnInv, SocksNext, spc # "waitUpstream", spc' = "waitUpstream"
  PROVE  /\ inbox' = [inbox EXCEPT !["remote"] = UpstreamMsg(cfg.addr)] /\ cfg' = cfg
         /\ inbox'["remote"] = UpstreamMsg(cfg.addr)
<1>1. ConnectTarget
  <2>1. ASSUME NEW n PROVE ~(RouteConnection(n) \/ ServerWaitMethod(n) \/ ServerWaitUserPass(n)
                              \/ ServerWaitRequest(n) \/ ServerWaitHello(n) \/ UpstreamResponse(n))
    BY DEF RouteConnection, NoHandler, ServerWaitMethod, ReplyMethod, ServerWaitUserPass,
                ServerWaitRequest, ServerWaitHello, AfterRequest, UpstreamResponse, ServerFails
  <2>2. ASSUME NEW n PROVE ~(ClientWaitMethod(n) \/ ClientWaitAuth(n) \/ ClientWaitResponse(n))
    BY DEF ClientWaitMethod, ClientWaitAuth, ClientWaitResponse, ClientTakes
  <2>3. ~(ClientStart \/ ClientTimeout \/ ClientReads \/ ClientSends \/ TargetSends)
    BY DEF ClientStart, ClientTimeout, ClientReads, ClientSends, TargetSends, EndSends
  <2>4. ASSUME NEW s PROVE ~(EndLeaves(s) \/ EndBeforePipe(s) \/ ResetBeforePipe(s))
    BY DEF EndLeaves, EndBeforePipe, ResetBeforePipe, socksVars
  <2>5. ~(ServerTimeout \/ UpstreamUnheard \/ SendResponse \/ StartPipe)
    BY DEF ServerTimeout, UpstreamUnheard, SendResponse, StartPipe, ServerFails
  <2>q. QED BY <2>1, <2>2, <2>3, <2>4, <2>5 DEF SocksNext, socksVars
<1>2. inbox' = [inbox EXCEPT !["remote"] = UpstreamMsg(cfg.addr)] /\ cfg' = cfg
  BY <1>1 DEF ConnectTarget, ConnectFromLocal, ProxyRequestTarget, ServerFails
<1>3. inbox'["remote"] = UpstreamMsg(cfg.addr)
  BY <1>2 DEF TurnInv, AgreeInv, AuthInv, Sides
<1>q. QED BY <1>2, <1>3

LEMMA UpstreamAheadStep == TurnInv /\ UpstreamAhead /\ [SocksNext]_connectionVars => UpstreamAhead'
<1> SUFFICES ASSUME TurnInv, UpstreamAhead, [SocksNext]_connectionVars PROVE UpstreamAhead'
  OBVIOUS
<1>1. CASE UNCHANGED connectionVars
  BY <1>1 DEF connectionVars, pipeVars, socksVars, UpstreamAhead
<1>2. CASE SocksNext /\ spc = "waitUpstream" /\ spc' = spc
  BY <1>2, UpstreamStays
<1>3. CASE SocksNext /\ spc # "waitUpstream" /\ spc' = "waitUpstream"
  BY <1>3, UpstreamBegins, UpstreamIs DEF UpstreamAhead
<1>q. QED BY <1>1, <1>2, <1>3 DEF UpstreamAhead

LEMMA UpstreamAheadInit == SocksInit => UpstreamAhead
BY DEF SocksInit, UpstreamAhead

LEMMA UpstreamTurns ==
  ASSUME TurnInv, UpstreamAhead, AgreeInv', UpstreamSteps PROVE TurnInv'
<1>1. AuthInv /\ UNCHANGED <<cpc, faults, piping, mark>> /\ Stream' = Stream
  <2>1. AuthInv
    BY DEF TurnInv, AgreeInv
  <2>q. QED BY <2>1, UpstreamShrinks DEF UpstreamSteps, UpstreamResponse, UpstreamUnheard, ServerSame
<1>2. /\ spc' \in {"responding", "responded", "failed", "crashed"} /\ (harmed => harmed')
      /\ spc \in {"waitUpstream", "responded"}
  <2>1. ASSUME NEW n, UpstreamResponse(n)
        PROVE  spc' \in {"responding", "failed", "crashed"} /\ (harmed => harmed') /\ spc = "waitUpstream"
    BY <2>1 DEF UpstreamResponse, ServerFails
  <2>2. ASSUME UpstreamUnheard PROVE spc' = "responded" /\ harmed' = harmed /\ spc = "responded"
    BY <2>2 DEF UpstreamUnheard
  <2>q. QED BY <2>1, <2>2 DEF UpstreamSteps
<1>3. ASSUME spc' = "crashed", ~harmed' PROVE FALSE
  <2>1. PICK n \in 1..4 + TargetData : UpstreamResponse(n)
    BY <1>3 DEF UpstreamSteps, UpstreamUnheard
  <2> DEFINE chunk == SubSeq(inbox["remote"], 1, n)
  <2>2. Exact(chunk) /\ n \in ChunkSizes(inbox["remote"], 0)
        /\ ParseTarget(Size["upstream"] - Lead(chunk)) = "throws"
    BY <1>3, <2>1 DEF UpstreamResponse, ServerFails
  <2>3. chunk[1][1] = "upstream"
    <3>1. inbox["remote"] \in Seq(Units)
      BY <1>1 DEF AuthInv, Sides
    <3>2. n \in Nat /\ 1 <= n /\ n <= Len(inbox["remote"])
      BY <2>2, <3>1, ChunkInside
    <3>3. inbox["remote"][1] = <<"upstream", cfg.addr, 1>>
      BY <2>1 DEF UpstreamAhead, UpstreamResponse
    <3>q. QED BY <3>1, <3>2, <3>3
  <2> HIDE DEF chunk
  <2>4. Lead(chunk) = Size["upstream"]
    BY <2>2, <2>3 DEF Exact, Whole
  <2>5. Size["upstream"] - Lead(chunk) = 0
    BY <2>4, UpstreamIs
  <2>q. QED BY <2>2, <2>5 DEF ParseTarget
<1>4. mark' \in Nat /\ NoFin' = NoFin /\ (piping' => spc' = "piping")
  BY <1>1, <1>2 DEF TurnInv, TurnBase, NoFin
<1>q. QED BY <1>1, <1>2, <1>3, <1>4, LeavingTurns DEF Negotiating

LEMMA TurnStep == TurnInv /\ UpstreamAhead /\ [SocksNext]_connectionVars => TurnInv'
<1> SUFFICES ASSUME TurnInv, UpstreamAhead, [SocksNext]_connectionVars PROVE TurnInv'
  OBVIOUS
<1>1. AgreeInv'
  BY AgreeStep DEF TurnInv
<1>2. CASE UNCHANGED connectionVars
  <2>1. UNCHANGED <<spc, cfg, cpc, mark, method, piping, inbox, wire, pending, destroyed, harmed, faults>>
    BY <1>2 DEF connectionVars, pipeVars, socksVars
  <2>2. /\ Stream' = Stream /\ faults' \in Nat /\ faults' >= faults
        /\ cpc' = "crashed" => harmed'
        /\ ~harmed' /\ spc \in Negotiating =>
             wire'["client"] \in Seq(Heard) /\ pending'["client"] \in Seq(Heard)
    BY <2>1 DEF Stream, TurnInv, TurnBase, InTurn, SocksCrashOnlyIfHarmed
  <2>q. QED BY <1>1, <2>1, <2>2, QuietTurns
<1>3. CASE SocksNext
  <2>1. \A n \in 1..4 + TargetData : n \in Nat
    BY DataAssumption
  <2>q. QED
    BY <1>1, <1>3, <2>1, ClientStartTurns, ClientWaitMethodTurns, ClientWaitAuthTurns,
       ClientWaitResponseTurns, ClientRestTurns, EndLeavesTurns, EndBeforePipeTurns, ResetTurns,
       PipeTurns, RouteTurns, WaitMethodTurns, WaitUserPassTurns, WaitTargetTurns, ServerRestTurns,
       UpstreamTurns
    DEF SocksNext, UpstreamSteps
<1>q. QED BY <1>2, <1>3

(* Neither end's process is brought down by its peer's configuration or by    *)
(* the order of the messages: it takes a chunk that is not one message, or a  *)
(* connection that breaks (v5/communication.ts, the waits that take one chunk *)
(* for one message).                                                          *)
THEOREM SocksCrashHasCause == SocksSpec => []SocksCrashOnlyIfHarmed
<1>1. TurnInv => SocksCrashOnlyIfHarmed
  BY DEF TurnInv
<1>q. QED BY <1>1, TurnInit, TurnStep, UpstreamAheadInit, UpstreamAheadStep, PTL DEF SocksSpec

-----------------------------------------------------------------------------
(* The relay of socks: the chunks of either end stay in order through the     *)
(* negotiation, the bytes a wait has read ahead, and the two pipes.           *)

(* What a stream carries: an end's chunks from number a + 1 to b, in order,   *)
(* each once, among units that are none.                                      *)
ChunkNo(n) == <<"data", n, 1>>
NoData(units) == \A i \in 1..Len(units) : ~IsData(units[i])
Carries(units, a, b) ==
  /\ a \in Nat /\ b \in Nat /\ a <= b
  /\ \A i \in 1..Len(units) : IsData(units[i]) => \E n \in a + 1..b : units[i] = ChunkNo(n)
  /\ \A i, j \in 1..Len(units) : i < j /\ IsData(units[i]) /\ IsData(units[j]) => units[i][2] < units[j][2]
  /\ \A n \in a + 1..b : \E i \in 1..Len(units) : units[i] = ChunkNo(n)

LEMMA ChunkNoIsData == \A n : IsData(ChunkNo(n)) /\ ChunkNo(n)[2] = n
BY DEF IsData, ChunkNo

LEMMA CarriesNothing ==
  ASSUME NEW T, NEW units \in Seq(T), NoData(units)
  PROVE  \A a, b \in Nat : Carries(units, a, b) <=> a = b
<1>1. Len(units) \in Nat
  OBVIOUS
<1>2. ASSUME NEW a \in Nat PROVE Carries(units, a, a)
  BY <1>1 DEF Carries, NoData
<1>3. ASSUME NEW a \in Nat, NEW b \in Nat, Carries(units, a, b) PROVE a = b
  <2>1. ASSUME a < b PROVE FALSE
    <3>1. PICK i \in 1..Len(units) : units[i] = ChunkNo(a + 1)
      BY <1>3, <2>1 DEF Carries
    <3>q. QED BY <3>1, ChunkNoIsData DEF NoData
  <2>q. QED BY <1>3, <2>1 DEF Carries
<1>q. QED BY <1>2, <1>3

LEMMA CarriesNone == ASSUME NEW units, NEW a, Carries(units, a, a) PROVE NoData(units)
<1>1. \A i \in 1..Len(units) : IsData(units[i]) => \E n \in a + 1..a : units[i] = ChunkNo(n)
  BY DEF Carries
<1>2. a + 1..a = {}
  BY DEF Carries
<1>q. QED BY <1>1, <1>2 DEF NoData

LEMMA CarriesMore ==
  ASSUME NEW T, NEW units \in Seq(T), NEW u \in T, NEW a, NEW b, Carries(units, a, b)
  PROVE  /\ ~IsData(u) => Carries(Append(units, u), a, b)
         /\ u = ChunkNo(b + 1) => Carries(Append(units, u), a, b + 1)
<1> DEFINE more == Append(units, u)
<1>1. /\ Len(more) = Len(units) + 1 /\ Len(units) \in Nat /\ more[Len(units) + 1] = u
      /\ \A i \in 1..Len(units) : more[i] = units[i]
  BY AppendProperties
<1>2. /\ a \in Nat /\ b \in Nat /\ a <= b
      /\ \A i \in 1..Len(units) : IsData(units[i]) => \E n \in a + 1..b : units[i] = ChunkNo(n)
      /\ \A i, j \in 1..Len(units) : i < j /\ IsData(units[i]) /\ IsData(units[j]) => units[i][2] < units[j][2]
      /\ \A n \in a + 1..b : \E i \in 1..Len(units) : units[i] = ChunkNo(n)
  BY DEF Carries
<1> HIDE DEF more
<1>3. \A i \in 1..Len(more) : i \in 1..Len(units) \/ i = Len(units) + 1
  BY <1>1
<1>4. 1..Len(units) \subseteq 1..Len(more)
  BY <1>1
<1>5. ASSUME ~IsData(u) PROVE Carries(more, a, b)
  <2>1. \A i \in 1..Len(more) : IsData(more[i]) => i \in 1..Len(units) /\ more[i] = units[i]
    BY <1>1, <1>3, <1>5
  <2>q. QED BY <1>1, <1>2, <1>4, <2>1 DEF Carries
<1>6. ASSUME u = ChunkNo(b + 1) PROVE Carries(more, a, b + 1)
  <2>1. \A i \in 1..Len(more) : IsData(more[i]) => \E n \in a + 1..b + 1 : more[i] = ChunkNo(n)
    BY <1>1, <1>2, <1>3, <1>6
  <2>2. ASSUME NEW i \in 1..Len(more), NEW j \in 1..Len(more), i < j, IsData(more[i]), IsData(more[j])
        PROVE  more[i][2] < more[j][2]
    <3>1. i \in 1..Len(units) /\ more[i] = units[i]
      BY <1>1, <1>3, <2>2
    <3>2. CASE j \in 1..Len(units)
      BY <1>1, <1>2, <2>2, <3>1, <3>2
    <3>3. CASE j = Len(units) + 1
      <4>1. PICK n \in a + 1..b : units[i] = ChunkNo(n)
        BY <1>2, <2>2, <3>1
      <4>2. more[i][2] = n /\ more[j][2] = b + 1
        BY <1>1, <1>6, <3>1, <3>3, <4>1, ChunkNoIsData
      <4>q. QED BY <1>2, <4>2
    <3>q. QED BY <1>3, <3>2, <3>3
  <2>3. ASSUME NEW n \in a + 1..b + 1 PROVE \E i \in 1..Len(more) : more[i] = ChunkNo(n)
    <3>1. CASE n = b + 1
      <4>1. Len(units) + 1 \in 1..Len(more)
        BY <1>1
      <4>q. QED BY <1>1, <1>6, <3>1, <4>1
    <3>2. CASE n \in a + 1..b
      BY <1>1, <1>2, <1>4, <3>2
    <3>q. QED BY <1>2, <3>1, <3>2
  <2>q. QED BY <1>2, <2>1, <2>2, <2>3 DEF Carries
<1>q. QED BY <1>5, <1>6 DEF more

(* Without its first units, if there is no chunk among them.                  *)
LEMMA CarriesRest ==
  ASSUME NEW T, NEW units \in Seq(T), NEW k \in 0..Len(units), \A i \in 1..k : ~IsData(units[i]),
         NEW a, NEW b, Carries(units, a, b)
  PROVE  Carries(SubSeq(units, k + 1, Len(units)), a, b)
<1> DEFINE rest == SubSeq(units, k + 1, Len(units))
<1>1. /\ Len(rest) = Len(units) - k /\ Len(units) \in Nat /\ k \in Nat
      /\ \A i \in 1..Len(rest) : rest[i] = units[k + i]
  OBVIOUS
<1>2. /\ a \in Nat /\ b \in Nat /\ a <= b
      /\ \A i \in 1..Len(units) : IsData(units[i]) => \E n \in a + 1..b : units[i] = ChunkNo(n)
      /\ \A i, j \in 1..Len(units) : i < j /\ IsData(units[i]) /\ IsData(units[j]) => units[i][2] < units[j][2]
      /\ \A n \in a + 1..b : \E i \in 1..Len(units) : units[i] = ChunkNo(n)
  BY DEF Carries
<1> HIDE DEF rest
<1>3. \A i \in 1..Len(rest) : k + i \in 1..Len(units)
  BY <1>1
<1>4. \A i \in 1..Len(rest) : IsData(rest[i]) => \E n \in a + 1..b : rest[i] = ChunkNo(n)
  BY <1>1, <1>2, <1>3
<1>5. \A i, j \in 1..Len(rest) : i < j /\ IsData(rest[i]) /\ IsData(rest[j]) => rest[i][2] < rest[j][2]
  <2>1. ASSUME NEW i \in 1..Len(rest), NEW j \in 1..Len(rest), i < j, IsData(rest[i]), IsData(rest[j])
        PROVE  rest[i][2] < rest[j][2]
    <3>1. k + i \in 1..Len(units) /\ k + j \in 1..Len(units)
      BY <1>3, <2>1
    <3>2. rest[i] = units[k + i] /\ rest[j] = units[k + j]
      BY <1>1, <2>1
    <3>3. k + i < k + j
      <4>1. Len(rest) \in Nat
        BY <1>1
      <4>q. QED BY <1>1, <2>1, <4>1
    <3>q. QED BY <1>2, <2>1, <3>1, <3>2, <3>3
  <2>q. QED BY <2>1
<1>6. ASSUME NEW n \in a + 1..b PROVE \E i \in 1..Len(rest) : rest[i] = ChunkNo(n)
  <2>1. PICK i \in 1..Len(units) : units[i] = ChunkNo(n)
    BY <1>2
  <2>2. i > k
    BY <1>1, <2>1, ChunkNoIsData
  <2>3. i - k \in 1..Len(rest) /\ k + (i - k) = i
    BY <1>1, <2>2
  <2>q. QED BY <1>1, <2>1, <2>3
<1>q. QED BY <1>2, <1>4, <1>5, <1>6 DEF Carries, rest

(* The first chunk of a stream that begins with one is the next one.          *)
LEMMA CarriesFirst ==
  ASSUME NEW T, NEW units \in Seq(T), units # <<>>, IsData(units[1]), NEW a, NEW b, Carries(units, a, b)
  PROVE  units[1] = ChunkNo(a + 1) /\ Carries(SubSeq(units, 2, Len(units)), a + 1, b)
<1> DEFINE rest == SubSeq(units, 2, Len(units))
<1>1. /\ Len(rest) = Len(units) - 1 /\ Len(units) \in Nat \ {0}
      /\ \A i \in 1..Len(rest) : rest[i] = units[i + 1]
  <2>1. Len(units) \in Nat /\ Len(units) # 0
    BY EmptySeq
  <2>2. ASSUME NEW k \in 0..Len(units)
        PROVE  /\ Len(SubSeq(units, k + 1, Len(units))) = Len(units) - k
               /\ \A i \in 1..Len(units) - k : SubSeq(units, k + 1, Len(units))[i] = units[k + i]
    OBVIOUS
  <2>3. 1 \in 0..Len(units) /\ 1 + 1 = 2 /\ \A i \in 1..Len(units) - 1 : 1 + i = i + 1
    BY <2>1
  <2>4. /\ Len(rest) = Len(units) - 1
        /\ \A i \in 1..Len(units) - 1 : rest[i] = units[1 + i]
    BY <2>2, <2>3
  <2> HIDE DEF rest
  <2>q. QED BY <2>1, <2>3, <2>4
<1>2. /\ a \in Nat /\ b \in Nat /\ a <= b
      /\ \A i \in 1..Len(units) : IsData(units[i]) => \E n \in a + 1..b : units[i] = ChunkNo(n)
      /\ \A i, j \in 1..Len(units) : i < j /\ IsData(units[i]) /\ IsData(units[j]) => units[i][2] < units[j][2]
      /\ \A n \in a + 1..b : \E i \in 1..Len(units) : units[i] = ChunkNo(n)
  BY DEF Carries
<1> HIDE DEF rest
<1>3. PICK m \in a + 1..b : units[1] = ChunkNo(m)
  BY <1>1, <1>2
<1>4. \A i \in 1..Len(rest) : i + 1 \in 1..Len(units) /\ 1 < i + 1
  BY <1>1
<1>5. m = a + 1
  <2>1. ASSUME m # a + 1 PROVE FALSE
    <3>1. a + 1 \in a + 1..b
      BY <1>2, <1>3
    <3>2. PICK i \in 1..Len(units) : units[i] = ChunkNo(a + 1)
      BY <1>2, <3>1
    <3>3. i # 1
      BY <1>3, <2>1, <3>2, ChunkNoIsData
    <3>4. 1 < i /\ 1 \in 1..Len(units) /\ IsData(units[i])
      BY <1>1, <3>2, <3>3, ChunkNoIsData
    <3>5. units[1][2] < units[i][2]
      BY <1>2, <3>4
    <3>q. QED BY <1>2, <1>3, <3>2, <3>5, ChunkNoIsData
  <2>q. QED BY <2>1
<1>6. ASSUME NEW i \in 1..Len(rest), IsData(rest[i])
      PROVE  \E n \in a + 2..b : rest[i] = ChunkNo(n)
  <2>1. rest[i] = units[i + 1] /\ i + 1 \in 1..Len(units) /\ 1 < i + 1 /\ 1 \in 1..Len(units)
    BY <1>1, <1>4
  <2>2. PICK n \in a + 1..b : units[i + 1] = ChunkNo(n)
    BY <1>2, <1>6, <2>1
  <2>3. units[1][2] < units[i + 1][2]
    BY <1>2, <1>6, <2>1
  <2>4. a + 1 < n
    BY <1>3, <1>5, <2>2, <2>3, ChunkNoIsData
  <2>q. QED BY <1>2, <2>1, <2>2, <2>4
<1>7. \A i, j \in 1..Len(rest) : i < j /\ IsData(rest[i]) /\ IsData(rest[j]) => rest[i][2] < rest[j][2]
  <2>1. ASSUME NEW i \in 1..Len(rest), NEW j \in 1..Len(rest), i < j, IsData(rest[i]), IsData(rest[j])
        PROVE  rest[i][2] < rest[j][2]
    <3>1. i + 1 \in 1..Len(units) /\ j + 1 \in 1..Len(units) /\ i + 1 < j + 1
          /\ rest[i] = units[i + 1] /\ rest[j] = units[j + 1]
      BY <1>1, <1>4, <2>1
    <3>q. QED BY <1>2, <2>1, <3>1
  <2>q. QED BY <2>1
<1>8. ASSUME NEW n \in a + 2..b PROVE \E i \in 1..Len(rest) : rest[i] = ChunkNo(n)
  <2>1. n \in a + 1..b
    BY <1>2
  <2>2. PICK i \in 1..Len(units) : units[i] = ChunkNo(n)
    BY <1>2, <2>1
  <2>3. i # 1
    BY <1>2, <1>3, <1>5, <2>2, ChunkNoIsData
  <2>4. i - 1 \in 1..Len(rest) /\ (i - 1) + 1 = i
    BY <1>1, <2>3
  <2>5. rest[i - 1] = units[i]
    BY <1>1, <2>4
  <2>q. QED BY <2>2, <2>4, <2>5
<1>9. a + 1 \in Nat /\ a + 1 <= b /\ (a + 1) + 1 = a + 2
  BY <1>2, <1>3, <1>5
<1>q. QED BY <1>2, <1>3, <1>5, <1>6, <1>7, <1>8, <1>9 DEF Carries, rest
(* A stream's first unit goes to the end of the one in front of it.           *)
LEMMA CarriesHandedOn ==
  ASSUME NEW T, NEW front \in Seq(T), NEW back \in Seq(T), back # <<>>,
         NEW a, NEW b, NEW c, Carries(front, a, b), Carries(back, b, c)
  PROVE  \E m \in a..c : Carries(Append(front, Head(back)), a, m) /\ Carries(Tail(back), m, c)
<1>1. a \in Nat /\ b \in Nat /\ c \in Nat /\ a <= b /\ b <= c
  BY DEF Carries
<1>2. /\ Head(back) = back[1] /\ Head(back) \in T /\ Tail(back) = SubSeq(back, 2, Len(back))
      /\ Len(back) \in Nat \ {0}
  BY EmptySeq
<1>3. CASE IsData(back[1])
  <2>1. back[1] = ChunkNo(b + 1) /\ Carries(Tail(back), b + 1, c)
    BY <1>2, <1>3, CarriesFirst
  <2>2. Carries(Append(front, Head(back)), a, b + 1)
    BY <1>2, <2>1, CarriesMore
  <2>3. b + 1 \in a..c
    <3>1. b + 1 <= c
      BY <2>1 DEF Carries
    <3>q. QED BY <1>1, <3>1
  <2>q. QED BY <2>1, <2>2, <2>3
<1>4. CASE ~IsData(back[1])
  <2>1. Carries(Append(front, Head(back)), a, b)
    BY <1>2, <1>4, CarriesMore
  <2>2. 1 \in 0..Len(back) /\ \A i \in 1..1 : ~IsData(back[i])
    BY <1>2, <1>4
  <2>3. Carries(SubSeq(back, 1 + 1, Len(back)), b, c)
    BY <2>2, CarriesRest
  <2>4. 1 + 1 = 2 /\ b \in a..c
    BY <1>1
  <2>q. QED BY <1>2, <2>1, <2>3, <2>4
<1>q. QED BY <1>3, <1>4

(* More that is no chunk, behind what is there.                               *)
LEMMA CarriesJoined ==
  ASSUME NEW T, NEW units \in Seq(T), NEW m \in Seq(T), NoData(m), NEW a, NEW b, Carries(units, a, b)
  PROVE  Carries(units \o m, a, b)
<1> DEFINE more == units \o m
<1>1. /\ Len(more) = Len(units) + Len(m) /\ Len(units) \in Nat /\ Len(m) \in Nat
      /\ \A i \in 1..Len(more) : more[i] = IF i <= Len(units) THEN units[i] ELSE m[i - Len(units)]
  BY ConcatProperties
<1>2. /\ a \in Nat /\ b \in Nat /\ a <= b
      /\ \A i \in 1..Len(units) : IsData(units[i]) => \E n \in a + 1..b : units[i] = ChunkNo(n)
      /\ \A i, j \in 1..Len(units) : i < j /\ IsData(units[i]) /\ IsData(units[j]) => units[i][2] < units[j][2]
      /\ \A n \in a + 1..b : \E i \in 1..Len(units) : units[i] = ChunkNo(n)
  BY DEF Carries
<1> HIDE DEF more
<1>3. \A i \in 1..Len(units) : i \in 1..Len(more) /\ more[i] = units[i]
  BY <1>1
<1>4. ASSUME NEW i \in 1..Len(more), IsData(more[i]) PROVE i \in 1..Len(units)
  <2>1. ASSUME i > Len(units) PROVE FALSE
    <3>1. i - Len(units) \in 1..Len(m) /\ more[i] = m[i - Len(units)]
      BY <1>1, <2>1
    <3>q. QED BY <1>4, <3>1 DEF NoData
  <2>q. QED BY <1>1, <2>1
<1>5. \A i \in 1..Len(more) : IsData(more[i]) => \E n \in a + 1..b : more[i] = ChunkNo(n)
  BY <1>2, <1>3, <1>4
<1>6. \A i, j \in 1..Len(more) : i < j /\ IsData(more[i]) /\ IsData(more[j]) => more[i][2] < more[j][2]
  BY <1>2, <1>3, <1>4
<1>7. \A n \in a + 1..b : \E i \in 1..Len(more) : more[i] = ChunkNo(n)
  BY <1>2, <1>3
<1>q. QED BY <1>2, <1>5, <1>6, <1>7 DEF Carries, more

(* What carries an end's chunks has them in order: behind those that are not  *)
(* there lie as many up to one as its number says.                            *)
LEMMA CarriedInOrder ==
  ASSUME NEW T, NEW units \in Seq(T), NEW a, NEW b, Carries(units, a, b)
  PROVE  InOrder(units, a)
<1>1. /\ a \in Nat /\ b \in Nat /\ Len(units) \in Nat /\ DOMAIN units = 1..Len(units)
      /\ \A i \in 1..Len(units) : IsData(units[i]) => \E n \in a + 1..b : units[i] = ChunkNo(n)
      /\ \A i, j \in 1..Len(units) : i < j /\ IsData(units[i]) /\ IsData(units[j]) => units[i][2] < units[j][2]
      /\ \A n \in a + 1..b : \E i \in 1..Len(units) : units[i] = ChunkNo(n)
  BY DEF Carries
<1>2. SUFFICES ASSUME NEW i \in 1..Len(units), IsData(units[i])
               PROVE  units[i] = ChunkNo(a + Cardinality({j \in 1..i : IsData(units[j])}))
  BY <1>1 DEF InOrder, ChunkNo
<1>3. PICK k \in a + 1..b : units[i] = ChunkNo(k)
  BY <1>1, <1>2
<1> DEFINE there == {j \in 1..i : IsData(units[j])}
           number == [j \in there |-> units[j][2]]
<1>4. \A j \in there : j \in 1..Len(units) /\ j <= i /\ IsData(units[j])
  BY <1>1
<1>5. number \in Bijection(there, a + 1..k)
  <2>1. ASSUME NEW j \in there PROVE number[j] \in a + 1..k
    <3>1. PICK n \in a + 1..b : units[j] = ChunkNo(n)
      BY <1>1, <1>4
    <3>2. n <= k
      <4>1. CASE j = i
        BY <1>3, <3>1, <4>1, ChunkNoIsData
      <4>2. CASE j < i
        <5>1. units[j][2] < units[i][2]
          BY <1>1, <1>2, <1>4, <4>2
        <5>q. QED BY <1>3, <3>1, <5>1, ChunkNoIsData
      <4>q. QED BY <1>4, <4>1, <4>2
    <3>q. QED BY <3>1, <3>2, ChunkNoIsData
  <2>2. ASSUME NEW j \in there, NEW l \in there, j < l PROVE number[j] # number[l]
    <3>1. units[j][2] < units[l][2]
      BY <1>1, <1>4, <2>2
    <3>2. units[j][2] \in a + 1..k /\ units[l][2] \in a + 1..k
      BY <2>1
    <3>q. QED BY <3>1, <3>2
  <2>3. \A j, l \in there : number[j] = number[l] => j = l
    BY <2>2
  <2>4. ASSUME NEW n \in a + 1..k PROVE \E j \in there : number[j] = n
    <3>1. PICK j \in 1..Len(units) : units[j] = ChunkNo(n)
      BY <1>1
    <3>2. j <= i
      <4>1. ASSUME i < j PROVE FALSE
        <5>1. units[i][2] < units[j][2]
          BY <1>1, <1>2, <3>1, <4>1, ChunkNoIsData
        <5>q. QED BY <1>3, <3>1, <5>1, ChunkNoIsData
      <4>q. QED BY <4>1
    <3>3. j \in there
      BY <3>1, <3>2, ChunkNoIsData
    <3>q. QED BY <3>1, <3>3, ChunkNoIsData
  <2>5. number \in [there -> a + 1..k]
    BY <2>1
  <2>q. QED BY <2>3, <2>4, <2>5, Fun_IsBij
<1>6. IsFiniteSet(a + 1..k) /\ Cardinality(a + 1..k) = k - a
  <2>1. PICK l : l = a + 1
    OBVIOUS
  <2>2. l \in Int /\ k \in Int /\ k >= l /\ k - l + 1 = k - a
    BY <1>1, <1>3, <2>1
  <2>3. IsFiniteSet(l..k) /\ Cardinality(l..k) = k - l + 1
    BY <2>2, FS_Interval
  <2>q. QED BY <2>1, <2>2, <2>3
<1>7. Cardinality(there) = k - a
  <2>1. ExistsBijection(there, a + 1..k)
    BY <1>5, Fun_ExistsBij
  <2>2. IsFiniteSet(there)
    <3>1. IsFiniteSet(1..i)
      BY FS_Interval
    <3>q. QED BY <3>1, FS_Subset
  <2>q. QED BY <1>6, <2>1, <2>2, FS_Bijection
<1>q. QED BY <1>1, <1>3, <1>7

-----------------------------------------------------------------------------
(* What an end has sent is under way on two sockets: handed to the network,   *)
(* written, or not yet read, in this order.                                   *)
Intact == "client" \notin destroyed /\ "remote" \notin destroyed
Flow(s, r) ==
  \E p, q \in r..sent[s] : /\ Carries(wire[Other(s)], r, p) /\ Carries(pending[Other(s)], p, q)
                           /\ Intact => Carries(inbox[s], q, sent[s])

(* What the streams are: a FIN is the last unit of one, the target's side     *)
(* sends nothing but chunks behind the answer of a server in between, and     *)
(* nobody sends a chunk before there is a target.                             *)
Over == {"failed", "refused", "crashed"}
FinLast(units) == \A i \in 1..Len(units) : units[i] = FIN => i = Len(units)
FromTarget(units) == \A i \in 1..Len(units) : Payload(units[i]) \/ (spc = "waitUpstream" /\ i <= 4)
EndsInv ==
  /\ got \in Seq(Units \cup Answers)
  /\ ~harmed /\ spc \notin Over => FromTarget(inbox["remote"])
  /\ \A s \in Sides : FinLast(inbox[s])
  /\ remote # "open" => \A s \in Sides : sent[s] = 0
  /\ unheard \in Nat /\ (unheard > 0 => cfg.route = "v5")

Streams == /\ wire \in [Sides -> Seq(Told)] /\ pending \in [Sides -> Seq(Told)]
           /\ inbox \in [Sides -> Seq(Told)] /\ sent \in [Sides -> Nat]

LEMMA StreamsAre ==
  ASSUME AgreeInv
  PROVE  /\ Streams /\ Units \subseteq Told /\ FIN \in Told /\ ErrorText \in Seq(Told)
         /\ "client" \in Sides /\ "remote" \in Sides /\ \A s \in Sides : Other(s) \in Sides
         /\ \A s \in Sides : Other(s) # s /\ Other(Other(s)) = s
<1>1. Units \subseteq Told /\ FIN \in Told /\ ErrorText \in Seq(Told)
  BY ServerMessages DEF AgreeInv, ServerAgrees
<1>2. inbox \in [Sides -> Seq(Units)] /\ sent \in [Sides -> Nat]
  BY DEF AgreeInv, AuthInv
<1>3. \A q \in Seq(Units) : q \in Seq(Told)
  BY <1>1
<1>4. inbox \in [Sides -> Seq(Told)]
  BY <1>2, <1>3
<1>q. QED BY <1>1, <1>2, <1>4 DEF Streams, AgreeInv, Sides, Other

(* A message of the negotiation or of an error carries no chunk, nor does a   *)
(* FIN.                                                                       *)
LEMMA NoDataInMessages ==
  /\ \A kind \in DOMAIN Size \ {"data"} : \A what : NoData(Msg(kind, what))
  /\ ~IsData(FIN)
<1>1. DOMAIN Size = {"methods", "method", "userpass", "auth", "request", "hello", "response", "upstream", "text",
                     "data"}
      /\ \A kind \in DOMAIN Size : Size[kind] \in Nat
  BY DEF Size
<1>2. ASSUME NEW kind \in DOMAIN Size \ {"data"}, NEW what PROVE NoData(Msg(kind, what))
  <2>1. Msg(kind, what) \in Seq({<<kind, what, i>> : i \in Nat})
        /\ Len(Msg(kind, what)) = Size[kind]
        /\ \A i \in 1..Size[kind] : Msg(kind, what)[i] = <<kind, what, i>>
    BY <1>1 DEF Msg
  <2>q. QED BY <1>1, <2>1 DEF NoData, IsData
<1>q. QED BY <1>2 DEF IsData, FIN

(* A step after which each stream of a flow carries what it did before.       *)
Keeps(units, more) == \A a, b : Carries(units, a, b) => Carries(more, a, b)

LEMMA KeepsJoined ==
  ASSUME NEW T, NEW units \in Seq(T)
  PROVE  /\ Keeps(units, units)
         /\ \A m \in Seq(T) : NoData(m) => Keeps(units, units \o m)
         /\ \A u \in T : ~IsData(u) => Keeps(units, Append(units, u))
         /\ units # <<>> /\ ~IsData(units[1]) => Keeps(units, Tail(units))
         /\ FinLast(units) /\ units # <<>> /\ Head(units) = FIN => Keeps(units, <<>>)
<1>1. Keeps(units, units)
  BY DEF Keeps
<1>2. \A m \in Seq(T) : NoData(m) => Keeps(units, units \o m)
  BY CarriesJoined DEF Keeps
<1>3. \A u \in T : ~IsData(u) => Keeps(units, Append(units, u))
  BY CarriesMore DEF Keeps
<1>4. ASSUME units # <<>>, ~IsData(units[1]) PROVE Keeps(units, Tail(units))
  <2>1. 1 \in 0..Len(units) /\ (\A i \in 1..1 : ~IsData(units[i])) /\ 1 + 1 = 2
        /\ Tail(units) = SubSeq(units, 2, Len(units))
    BY <1>4, EmptySeq
  <2>2. \A a, b : Carries(units, a, b) => Carries(SubSeq(units, 1 + 1, Len(units)), a, b)
    BY <2>1, CarriesRest
  <2>q. QED BY <2>1, <2>2 DEF Keeps
<1>5. ASSUME FinLast(units), units # <<>>, Head(units) = FIN PROVE Keeps(units, <<>>)
  <2>1. Len(units) \in Nat /\ Len(units) # 0
    BY <1>5, EmptySeq
  <2>2. 1 \in 1..Len(units) /\ units[1] = FIN
    BY <1>5, <2>1
  <2>3. 1 = Len(units)
    BY <1>5, <2>2 DEF FinLast
  <2>4. Tail(units) = <<>>
    <3>1. Tail(units) \in Seq(T) /\ Len(Tail(units)) = 0
      BY <1>5, <2>3
    <3>q. QED BY <3>1, EmptySeq
  <2>5. ~IsData(units[1])
    BY <2>2, NoDataInMessages
  <2>q. QED BY <1>4, <1>5, <2>4, <2>5
<1>q. QED BY <1>1, <1>2, <1>3, <1>4, <1>5

LEMMA FlowKept ==
  ASSUME AgreeInv, AgreeInv', NEW s \in Sides, NEW r \in Nat, Flow(s, r), sent'[s] = sent[s],
         Keeps(wire[Other(s)], wire'[Other(s)]),
         \/ Keeps(pending[Other(s)], pending'[Other(s)])
         \/ ~Intact' /\ NoData(pending'[Other(s)]),
         Intact' => Intact /\ Keeps(inbox[s], inbox'[s])
  PROVE  Flow(s, r)'
<1>1. PICK p \in r..sent[s], q \in r..sent[s] :
             /\ Carries(wire[Other(s)], r, p) /\ Carries(pending[Other(s)], p, q)
             /\ Intact => Carries(inbox[s], q, sent[s])
  BY DEF Flow
<1>2. Carries(wire'[Other(s)], r, p)
  BY <1>1 DEF Keeps
<1>3. CASE Keeps(pending[Other(s)], pending'[Other(s)])
  <2>1. Carries(pending'[Other(s)], p, q) /\ (Intact' => Carries(inbox'[s], q, sent'[s]))
    BY <1>1, <1>3 DEF Keeps
  <2>q. QED BY <1>1, <1>2, <2>1 DEF Flow
<1>4. CASE ~Intact' /\ NoData(pending'[Other(s)])
  <2>1. pending'[Other(s)] \in Seq(Told') /\ p \in Nat
    BY StreamsAre DEF AgreeInv, Streams
  <2>2. Carries(pending'[Other(s)], p, p)
    BY <1>4, <2>1, CarriesNothing
  <2>q. QED BY <1>1, <1>2, <1>4, <2>2 DEF Flow
<1>q. QED BY <1>3, <1>4

-----------------------------------------------------------------------------
(* A unit goes on from one socket to the other, or from a socket to the       *)
(* network.                                                                   *)
LEMMA ForwardFlows ==
  ASSUME AgreeInv, AgreeInv', EndsInv, NEW s \in Sides, NEW r \in Nat, Flow(s, r), NEW e \in Sides,
         Forward(e), UNCHANGED sent
  PROVE  Flow(s, r)'
<1>1. /\ Streams /\ "client" \in Sides /\ "remote" \in Sides /\ Other(s) \in Sides /\ Other(e) \in Sides
      /\ Other(s) # s /\ Other(Other(s)) = s /\ Other(Other(e)) = e
  BY StreamsAre
<1>2. /\ {e, Other(e)} \cap destroyed = {} /\ inbox[e] # <<>> /\ UNCHANGED wire
      /\ inbox' = [inbox EXCEPT ![e] = Tail(@)]
      /\ \/ CloseBoth
         \/ /\ pending' = [pending EXCEPT ![Other(e)] = Append(@, Head(inbox[e]))]
            /\ UNCHANGED destroyed
  BY DEF Forward
<1>3. Keeps(wire[Other(s)], wire'[Other(s)])
  BY <1>2 DEF Keeps
<1>4. CASE CloseBoth
  <2>1. ~Intact' /\ pending'[Other(s)] = <<>>
    BY <1>1, <1>4 DEF CloseBoth, Destroy, Intact
  <2>2. NoData(pending'[Other(s)])
    BY <2>1 DEF NoData
  <2>q. QED BY <1>3, <2>1, <2>2, FlowKept
<1>5. CASE pending' = [pending EXCEPT ![Other(e)] = Append(@, Head(inbox[e]))] /\ UNCHANGED destroyed
  <2>1. Intact' = Intact
    BY <1>5 DEF Intact
  <2>2. CASE s # e
    <3>1. Other(s) # Other(e)
      BY <1>1, <2>2
    <3>2. pending'[Other(s)] = pending[Other(s)] /\ inbox'[s] = inbox[s]
      BY <1>1, <1>2, <1>5, <2>2, <3>1 DEF Streams
    <3>q. QED BY <1>3, <2>1, <3>2, FlowKept DEF Keeps
  <2>3. CASE s = e
    <3>1. /\ pending'[Other(s)] = Append(pending[Other(s)], Head(inbox[s])) /\ inbox'[s] = Tail(inbox[s])
          /\ inbox[s] # <<>> /\ inbox[s] \in Seq(Told) /\ pending[Other(s)] \in Seq(Told) /\ sent[s] \in Nat
      BY <1>1, <1>2, <1>5, <2>3 DEF Streams
    <3>2. Intact
      BY <1>2, <2>3 DEF Intact, Sides, Other
    <3>3. PICK p \in r..sent[s], q \in r..sent[s] :
             /\ Carries(wire[Other(s)], r, p) /\ Carries(pending[Other(s)], p, q)
             /\ Carries(inbox[s], q, sent[s])
      BY <3>2 DEF Flow
    <3>4. PICK m \in p..sent[s] : Carries(pending'[Other(s)], p, m) /\ Carries(inbox'[s], m, sent[s])
      BY <3>1, <3>3, CarriesHandedOn
    <3>5. m \in r..sent[s] /\ Carries(wire'[Other(s)], r, p) /\ sent' = sent
      BY <1>2, <3>1, <3>3
    <3>q. QED BY <3>3, <3>4, <3>5 DEF Flow
  <2>q. QED BY <2>2, <2>3
<1>q. QED BY <1>2, <1>4, <1>5

LEMMA FlushFlows ==
  ASSUME AgreeInv, AgreeInv', EndsInv, NEW s \in Sides, NEW r \in Nat, Flow(s, r), NEW e \in Sides,
         Flush(e), UNCHANGED sent
  PROVE  Flow(s, r)'
<1>1. /\ Streams /\ "client" \in Sides /\ "remote" \in Sides /\ Other(s) \in Sides
  BY StreamsAre
<1>2. /\ pending[e] # <<>> /\ wire' = [wire EXCEPT ![e] = Append(@, Head(pending[e]))]
      /\ pending' = [pending EXCEPT ![e] = Tail(@)] /\ UNCHANGED <<inbox, destroyed>>
  BY DEF Flush
<1>3. Intact' = Intact
  BY <1>2 DEF Intact
<1>4. CASE e # Other(s)
  <2>1. wire'[Other(s)] = wire[Other(s)] /\ pending'[Other(s)] = pending[Other(s)] /\ inbox'[s] = inbox[s]
    BY <1>1, <1>2, <1>4 DEF Streams
  <2>q. QED BY <1>3, <2>1, FlowKept DEF Keeps
<1>5. CASE e = Other(s)
  <2>1. /\ wire'[Other(s)] = Append(wire[Other(s)], Head(pending[Other(s)]))
        /\ pending'[Other(s)] = Tail(pending[Other(s)]) /\ pending[Other(s)] # <<>> /\ inbox' = inbox
        /\ wire[Other(s)] \in Seq(Told) /\ pending[Other(s)] \in Seq(Told) /\ sent[s] \in Nat
    BY <1>1, <1>2, <1>5 DEF Streams
  <2>2. PICK p \in r..sent[s], q \in r..sent[s] :
             /\ Carries(wire[Other(s)], r, p) /\ Carries(pending[Other(s)], p, q)
             /\ Intact => Carries(inbox[s], q, sent[s])
    BY DEF Flow
  <2>3. PICK m \in r..q : Carries(wire'[Other(s)], r, m) /\ Carries(pending'[Other(s)], m, q)
    BY <2>1, <2>2, CarriesHandedOn
  <2>4. m \in r..sent[s]
    BY <2>1, <2>2
  <2>q. QED BY <1>3, <2>1, <2>2, <2>3, <2>4 DEF Flow
<1>q. QED BY <1>4, <1>5

(* The other steps of the pipe.                                               *)
LEMMA PipeFlows ==
  ASSUME AgreeInv, AgreeInv', EndsInv, NEW s \in Sides, NEW r \in Nat, Flow(s, r), PipeNext, UNCHANGED sent
  PROVE  Flow(s, r)'
<1>1. /\ Streams /\ "client" \in Sides /\ "remote" \in Sides /\ Other(s) \in Sides /\ FIN \in Told
  BY StreamsAre
<1>2. /\ wire[Other(s)] \in Seq(Told) /\ inbox[s] \in Seq(Told) /\ pending[Other(s)] \in Seq(Told)
      /\ FinLast(inbox[s])
  BY <1>1 DEF Streams, EndsInv
<1>3. /\ Keeps(wire[Other(s)], wire[Other(s)]) /\ Keeps(inbox[s], inbox[s])
      /\ Keeps(pending[Other(s)], pending[Other(s)])
      /\ Keeps(wire[Other(s)], Append(wire[Other(s)], FIN))
      /\ inbox[s] # <<>> /\ Head(inbox[s]) = FIN => Keeps(inbox[s], <<>>)
  BY <1>1, <1>2, KeepsJoined, NoDataInMessages
<1>4. ASSUME CloseBoth, UNCHANGED <<wire, inbox>> PROVE Flow(s, r)'
  <2>1. ~Intact' /\ pending'[Other(s)] = <<>>
    BY <1>1, <1>4 DEF CloseBoth, Destroy, Intact
  <2>2. NoData(pending'[Other(s)])
    BY <2>1 DEF NoData
  <2>q. QED BY <1>3, <1>4, <2>1, <2>2, FlowKept
<1>5. ASSUME NEW e \in Sides, PeerEnded(e) PROVE Flow(s, r)'
  <2>1. Intact' = Intact /\ UNCHANGED <<wire, pending>> /\ inbox[e] # <<>> /\ Head(inbox[e]) = FIN
        /\ inbox' = [inbox EXCEPT ![e] = <<>>]
    BY <1>5 DEF PeerEnded, HeadIs, Intact
  <2>2. Keeps(inbox[s], inbox'[s])
    BY <1>1, <1>3, <2>1 DEF Streams
  <2>q. QED BY <1>3, <2>1, <2>2, FlowKept
<1>6. ASSUME NEW e \in Sides, Finish(e) PROVE Flow(s, r)'
  <2>1. UNCHANGED <<inbox, pending>> /\ (Intact' => Intact) /\ wire' = [wire EXCEPT ![e] = Append(@, FIN)]
    BY <1>6 DEF Finish, Intact
  <2>2. Keeps(wire[Other(s)], wire'[Other(s)])
    BY <1>1, <1>3, <2>1 DEF Streams
  <2>q. QED BY <1>3, <2>1, <2>2, FlowKept
<1>7. ASSUME NEW e \in Sides, PipelineDone(e) \/ PipeError(e) PROVE Flow(s, r)'
  BY <1>4, <1>7 DEF PipelineDone, PipeError
<1>8. ASSUME NEW e \in Sides, SocketClosed(e) PROVE Flow(s, r)'
  <2>1. CASE CloseBoth
    BY <1>4, <1>8, <2>1 DEF SocketClosed
  <2>2. CASE UNCHANGED <<destroyed, pending>>
    <3>1. Intact' = Intact /\ UNCHANGED <<wire, inbox>>
      BY <1>8, <2>2 DEF SocketClosed, Intact
    <3>q. QED BY <1>3, <2>2, <3>1, FlowKept
  <2>q. QED BY <1>8, <2>1, <2>2 DEF SocketClosed
<1>9. ASSUME GraceOver \/ IdleTimeout PROVE Flow(s, r)'
  BY <1>4, <1>9 DEF GraceOver, IdleTimeout
<1>q. QED BY <1>5, <1>6, <1>7, <1>8, <1>9, ForwardFlows, FlushFlows DEF PipeNext

(* What the ends do: a chunk is sent as the next one.                         *)
LEMMA EndsFlow ==
  ASSUME AgreeInv, AgreeInv', EndsInv, NEW s \in Sides, NEW r \in Nat, Flow(s, r), NEW e \in Sides,
         \/ \E limit : EndSends(e, limit)
         \/ EndLeaves(e) \/ EndBeforePipe(e) \/ ResetBeforePipe(e)
  PROVE  Flow(s, r)'
<1>1. /\ Streams /\ "client" \in Sides /\ "remote" \in Sides /\ Other(s) \in Sides /\ FIN \in Told
  BY StreamsAre
<1>2. /\ wire[Other(s)] \in Seq(Told) /\ inbox[s] \in Seq(Told) /\ pending[Other(s)] \in Seq(Told)
      /\ FinLast(inbox[s])
  BY <1>1 DEF Streams, EndsInv
<1>3. /\ Keeps(wire[Other(s)], wire[Other(s)]) /\ Keeps(inbox[s], inbox[s])
      /\ Keeps(pending[Other(s)], pending[Other(s)])
      /\ Keeps(inbox[s], Append(inbox[s], FIN))
      /\ inbox[s] # <<>> /\ Head(inbox[s]) = FIN => Keeps(inbox[s], <<>>)
  BY <1>1, <1>2, KeepsJoined, NoDataInMessages
<1>4. ASSUME NEW limit, EndSends(e, limit) PROVE Flow(s, r)'
  <2>1. /\ sent' = [sent EXCEPT ![e] = @ + 1] /\ UNCHANGED <<wire, pending, destroyed>>
        /\ inbox' = [inbox EXCEPT ![e] = Append(@, ChunkNo(sent[e] + 1))]
    BY <1>4 DEF EndSends, ChunkNo
  <2>2. Intact' = Intact
    BY <2>1 DEF Intact
  <2>3. CASE e # s
    <3>1. sent'[s] = sent[s] /\ inbox'[s] = inbox[s]
      BY <1>1, <2>1, <2>3 DEF Streams
    <3>q. QED BY <1>3, <2>1, <2>2, <3>1, FlowKept
  <2>4. CASE e = s
    <3>1. /\ sent'[s] = sent[s] + 1 /\ inbox'[s] = Append(inbox[s], ChunkNo(sent[s] + 1)) /\ sent[s] \in Nat
      BY <1>1, <2>1, <2>4 DEF Streams
    <3>2. ChunkNo(sent[s] + 1) \in Told
      <4>1. ChunkNo(sent[s] + 1) \in Units
        BY <3>1, ClientMessages DEF ChunkNo, AgreeInv, AuthInv
      <4>q. QED BY <4>1, StreamsAre
    <3>3. PICK p \in r..sent[s], q \in r..sent[s] :
             /\ Carries(wire[Other(s)], r, p) /\ Carries(pending[Other(s)], p, q)
             /\ Intact => Carries(inbox[s], q, sent[s])
      BY DEF Flow
    <3>4. Intact => Carries(inbox'[s], q, sent'[s])
      BY <1>2, <3>1, <3>2, <3>3, CarriesMore
    <3>5. p \in r..sent'[s] /\ q \in r..sent'[s]
      BY <3>1, <3>3
    <3>q. QED BY <2>1, <2>2, <3>3, <3>4, <3>5 DEF Flow
  <2>q. QED BY <2>3, <2>4
<1>5. CASE EndLeaves(e)
  <2>1. UNCHANGED <<wire, pending, destroyed, sent>> /\ inbox' = [inbox EXCEPT ![e] = Append(@, FIN)]
    BY <1>5 DEF EndLeaves
  <2>2. Intact' = Intact /\ Keeps(inbox[s], inbox'[s])
    BY <1>1, <1>3, <2>1 DEF Streams, Intact
  <2>q. QED BY <1>3, <2>1, <2>2, FlowKept
<1>6. CASE EndBeforePipe(e)
  <2>1. /\ UNCHANGED <<wire, pending, destroyed, sent>> /\ inbox' = [inbox EXCEPT ![e] = <<>>]
        /\ inbox[e] # <<>> /\ Head(inbox[e]) = FIN
    BY <1>6 DEF EndBeforePipe, HeadIs, socksVars
  <2>2. Intact' = Intact /\ Keeps(inbox[s], inbox'[s])
    BY <1>1, <1>3, <2>1 DEF Streams, Intact
  <2>q. QED BY <1>3, <2>1, <2>2, FlowKept
<1>7. CASE ResetBeforePipe(e)
  <2>1. UNCHANGED <<wire, sent>> /\ Destroy({e}) /\ ~Intact'
    BY <1>7 DEF ResetBeforePipe, Destroy, Intact, Sides
  <2>2. pending'[Other(s)] = <<>> \/ pending'[Other(s)] = pending[Other(s)]
    BY <1>1, <2>1 DEF Destroy
  <2>3. Keeps(pending[Other(s)], pending'[Other(s)]) \/ NoData(pending'[Other(s)])
    BY <1>3, <2>2 DEF NoData
  <2>q. QED BY <1>3, <2>1, <2>3, FlowKept
<1>q. QED BY <1>4, <1>5, <1>6, <1>7


(* What the server writes of itself carries no chunk.                         *)
LEMMA WritesFlow ==
  ASSUME AgreeInv, AgreeInv', EndsInv, NEW s \in Sides, NEW r \in Nat, Flow(s, r),
         UNCHANGED <<sent, destroyed>>, Intact => Keeps(inbox[s], inbox'[s]),
         \/ UNCHANGED wire
         \/ \E m \in Seq(Told) : NoData(m) /\ Write("client", m),
         UNCHANGED pending \/ \E failing : ServerFails(failing)
  PROVE  Flow(s, r)'
<1>1. /\ "client" \in Sides /\ "remote" \in Sides /\ Other(s) \in Sides /\ ErrorText \in Seq(Told)
      /\ NoData(ErrorText)
  BY StreamsAre, NoDataInMessages DEF ErrorText, Size
<1>2. Streams
  BY StreamsAre
<1>3. ASSUME NEW f \in [Sides -> Seq(Told)], NEW m \in Seq(Told), NoData(m), NEW x \in Sides
      PROVE  Keeps(f[x], f[x] \o m) /\ Keeps(f[x], f[x])
  BY <1>3, KeepsJoined
<1>4. Keeps(wire[Other(s)], wire'[Other(s)])
  <2>1. CASE UNCHANGED wire
    BY <2>1 DEF Keeps
  <2>2. ASSUME NEW m \in Seq(Told), NoData(m), Write("client", m) PROVE Keeps(wire[Other(s)], wire'[Other(s)])
    <3>1. wire'[Other(s)] = wire[Other(s)] \/ wire'[Other(s)] = wire[Other(s)] \o m
      BY <1>1, <1>2, <2>2 DEF Write, Streams
    <3>q. QED BY <1>1, <1>2, <1>3, <2>2, <3>1 DEF Streams
  <2>q. QED BY <2>1, <2>2
<1>5. Keeps(pending[Other(s)], pending'[Other(s)])
  <2>1. pending'[Other(s)] = pending[Other(s)] \/ pending'[Other(s)] = pending[Other(s)] \o ErrorText
    BY <1>1 DEF ServerFails
  <2>q. QED BY <1>1, <1>2, <1>3, <2>1 DEF Streams
<1>6. Intact' = Intact
  BY DEF Intact
<1>q. QED BY <1>4, <1>5, <1>6, FlowKept

(* The steps of the server.  While it still reads a message of the client     *)
(* there is no target, and no chunk on its way to one.                        *)
ServerActs(n) ==
  \/ RouteConnection(n) \/ ServerWaitMethod(n) \/ ServerWaitUserPass(n)
  \/ ServerWaitRequest(n) \/ ServerWaitHello(n)
  \/ ServerTimeout \/ ConnectTarget \/ SendResponse \/ StartPipe

(* The steps of the client, and how it is when it reads no more.              *)
Lost == {"failed", "gone", "crashed"}
ClientActs(n) ==
  \/ ClientStart \/ ClientTimeout \/ ClientReads
  \/ ClientWaitMethod(n) \/ ClientWaitAuth(n) \/ ClientWaitResponse(n)

LEMMA ServerWrites ==
  ASSUME AgreeInv, AgreeInv', NEW n, ServerActs(n)
  PROVE  /\ UNCHANGED <<sent, destroyed, got, unheard, cpc>>
         /\ harmed => harmed'
         /\ \/ UNCHANGED wire
            \/ \E m \in Seq(Told) : NoData(m) /\ Write("client", m)
         /\ UNCHANGED pending \/ \E failing : ServerFails(failing)
         /\ \/ UNCHANGED inbox
            \/ ServerTakes(n) /\ spc \in Negotiating
            \/ inbox' = [inbox EXCEPT !["remote"] = UpstreamMsg(cfg.addr)] /\ remote # "open"
<1>1. /\ \A m \in {NoAuth, UserPass} : MethodMsg(m) \in Seq(Told) /\ NoData(MethodMsg(m))
      /\ AuthMsg \in Seq(Told) /\ NoData(AuthMsg)
      /\ ResponseMsg(reply) \in Seq(Told) /\ NoData(ResponseMsg(reply))
  <2>1. /\ \A m \in {NoAuth, UserPass} : MethodMsg(m) \in Seq(Told)
        /\ AuthMsg \in Seq(Told) /\ ResponseMsg(reply) \in Seq(Told)
    BY ServerMessages DEF AgreeInv, ServerAgrees
  <2>2. \A what : NoData(Msg("method", what)) /\ NoData(Msg("auth", what)) /\ NoData(Msg("response", what))
    BY NoDataInMessages DEF Size
  <2>q. QED BY <2>1, <2>2 DEF MethodMsg, AuthMsg, ResponseMsg
<1>2. CASE RouteConnection(n)
  BY <1>2 DEF RouteConnection, ServerSame, NoHandler
<1>3. CASE ServerWaitMethod(n)
  <2>1. /\ UNCHANGED <<sent, destroyed, got, unheard, cpc>> /\ (harmed => harmed') /\ ServerTakes(n) /\ spc \in Negotiating
        /\ UNCHANGED pending \/ \E failing : ServerFails(failing)
    BY <1>3 DEF ServerWaitMethod, ServerSame, ServerTakes, Negotiating
  <2>2. CASE UNCHANGED wire
    BY <2>1, <2>2
  <2>3. CASE ~UNCHANGED wire
    <3>1. Common # {} /\ Write("client", MethodMsg(cfg.cm[CHOOSE i \in Common : \A j \in Common : i <= j]))
      BY <1>3, <2>3 DEF ServerWaitMethod, ReplyMethod
    <3>2. cfg.cm[CHOOSE i \in Common : \A j \in Common : i <= j] \in {NoAuth, UserPass}
      BY <3>1, FirstCommon DEF AgreeInv, AuthInv
    <3>q. QED BY <1>1, <2>1, <3>1, <3>2
  <2>q. QED BY <2>2, <2>3
<1>4. CASE ServerWaitUserPass(n)
  BY <1>1, <1>4 DEF ServerWaitUserPass, ServerSame, ServerTakes, Negotiating
<1>5. CASE ServerWaitRequest(n) \/ ServerWaitHello(n)
  BY <1>5 DEF ServerWaitRequest, ServerWaitHello, ServerSame, ServerTakes, AfterRequest, Negotiating
<1>6. CASE ServerTimeout
  BY <1>6 DEF ServerTimeout, ServerSame
<1>7. CASE ConnectTarget
  <2>1. /\ UNCHANGED <<sent, destroyed, got, unheard, cpc, harmed, wire>> /\ spc = "connecting"
        /\ UNCHANGED pending \/ ServerFails("failed")
    BY <1>7 DEF ConnectTarget, ProxyRequestTarget, ConnectFromLocal
  <2>2. UNCHANGED inbox \/ inbox' = [inbox EXCEPT !["remote"] = UpstreamMsg(cfg.addr)]
    BY <1>7 DEF ConnectTarget, ProxyRequestTarget, ConnectFromLocal
  <2>3. remote # "open"
    BY <2>1 DEF AgreeInv, ServerAgrees, Negotiated
  <2>q. QED BY <2>1, <2>2, <2>3
<1>8. CASE SendResponse
  <2>1. reply' = reply /\ UNCHANGED <<sent, destroyed, got, unheard, cpc, harmed, inbox>>
    BY <1>8 DEF SendResponse
  <2>q. QED BY <1>1, <1>8, <2>1 DEF SendResponse
<1>9. CASE StartPipe
  BY <1>9 DEF StartPipe
<1>q. QED BY <1>2, <1>3, <1>4, <1>5, <1>6, <1>7, <1>8, <1>9 DEF ServerActs

LEMMA ServerFlows ==
  ASSUME TurnInv, AgreeInv', EndsInv, NEW s \in Sides, NEW r \in Nat, Flow(s, r), NEW n, ServerActs(n)
  PROVE  Flow(s, r)'
<1>1. /\ UNCHANGED <<sent, destroyed>>
      /\ \/ UNCHANGED wire
         \/ \E m \in Seq(Told) : NoData(m) /\ Write("client", m)
      /\ UNCHANGED pending \/ \E failing : ServerFails(failing)
      /\ \/ UNCHANGED inbox
         \/ ServerTakes(n) /\ spc \in Negotiating
         \/ inbox' = [inbox EXCEPT !["remote"] = UpstreamMsg(cfg.addr)] /\ remote # "open"
  BY ServerWrites DEF TurnInv
<1>2. AgreeInv /\ Streams /\ "client" \in Sides /\ "remote" \in Sides
  BY StreamsAre DEF TurnInv
<1>3. CASE inbox'[s] = inbox[s]
  <2>1. inbox'[s] = inbox[s]
    BY <1>3
  <2>2. Keeps(inbox[s], inbox'[s])
    BY <2>1 DEF Keeps
  <2>q. QED BY <1>1, <1>2, <2>2, WritesFlow
<1>4. CASE ServerTakes(n) /\ spc \in Negotiating /\ s = "client"
  <2>1. sent["client"] = 0
    BY <1>4, NobodyDone DEF TurnInv, EndsInv
  <2>2. PICK p \in r..0, q \in r..0 :
             /\ Carries(wire[Other(s)], r, p) /\ Carries(pending[Other(s)], p, q)
             /\ Intact => Carries(inbox[s], q, 0)
    BY <1>4, <2>1 DEF Flow
  <2>3. r = 0 /\ p = 0 /\ q = 0
    OBVIOUS
  <2>4. inbox["client"] \in Seq(Told) /\ inbox'["client"] = SubSeq(inbox["client"], n + 1, Len(inbox["client"]))
    BY <1>2, <1>4 DEF Streams, ServerTakes
  <2>5. n \in Nat
    <3>1. inbox["client"] \in Seq(Told) /\ n \in ChunkSizes(inbox["client"], mark) /\ mark \in Nat
      BY <1>4, <2>4 DEF ServerTakes, TurnInv, TurnBase
    <3>2. CASE mark = 0
      BY <3>1, <3>2, ChunkInside
    <3>3. CASE mark > 0
      BY <3>1, <3>3 DEF ChunkSizes
    <3>q. QED BY <3>1, <3>2, <3>3
  <2>6. ASSUME Intact PROVE Keeps(inbox["client"], inbox'["client"])
    <3>1. NoData(inbox["client"])
      BY <1>4, <2>2, <2>3, <2>6, CarriesNone
    <3>3. /\ inbox'["client"] \in Seq(Told)
          /\ \A i \in 1..Len(inbox'["client"]) : /\ inbox'["client"][i] = inbox["client"][n + i]
                                                 /\ n + i \in 1..Len(inbox["client"])
      <4> DEFINE box == inbox["client"]
      <4>1. box \in Seq(Told) /\ n \in Nat
        BY <2>4, <2>5
      <4>2. SubSeq(box, n + 1, Len(box)) \in Seq(Told)
            /\ \A i \in 1..Len(SubSeq(box, n + 1, Len(box))) :
                 SubSeq(box, n + 1, Len(box))[i] = box[n + i] /\ n + i \in 1..Len(box)
        BY <4>1
      <4>q. QED BY <2>4, <4>2
    <3>4. NoData(inbox'["client"])
      BY <3>1, <3>3 DEF NoData
    <3>5. ASSUME NEW a, NEW b, Carries(inbox["client"], a, b) PROVE Carries(inbox'["client"], a, b)
      <4>1. a \in Nat /\ b \in Nat
        BY <3>5 DEF Carries
      <4>2. a = b
        BY <2>4, <3>1, <3>5, <4>1, CarriesNothing
      <4>q. QED BY <3>3, <3>4, <4>1, <4>2, CarriesNothing
    <3>q. QED BY <3>5 DEF Keeps
  <2>q. QED BY <1>1, <1>2, <1>4, <2>6, WritesFlow
<1>5. CASE inbox' = [inbox EXCEPT !["remote"] = UpstreamMsg(cfg.addr)] /\ remote # "open" /\ s = "remote"
  <2>1. sent["remote"] = 0 /\ inbox'["remote"] = UpstreamMsg(cfg.addr) /\ inbox["remote"] \in Seq(Told)
    BY <1>2, <1>5 DEF EndsInv, Streams
  <2>2. NoData(UpstreamMsg(cfg.addr)) /\ UpstreamMsg(cfg.addr) \in Seq(Units)
    <3>1. "upstream" \in DOMAIN Size \ {"data"} /\ AuthInv
      BY <1>2 DEF Size, AgreeInv
    <3>q. QED BY <3>1, NoDataInMessages, ClientMessages DEF UpstreamMsg, AuthInv
  <2>3. ASSUME Intact PROVE Keeps(inbox["remote"], inbox'["remote"])
    <3>1. PICK q : Carries(inbox["remote"], q, 0)
      BY <1>5, <2>1, <2>3 DEF Flow
    <3>2. NoData(inbox["remote"])
      <4>1. q = 0
        BY <3>1 DEF Carries
      <4>q. QED BY <3>1, <4>1, CarriesNone
    <3>3. ASSUME NEW a, NEW b, Carries(inbox["remote"], a, b) PROVE Carries(inbox'["remote"], a, b)
      <4>1. a \in Nat /\ b \in Nat
        BY <3>3 DEF Carries
      <4>2. a = b
        BY <2>1, <3>2, <3>3, <4>1, CarriesNothing
      <4>q. QED BY <2>1, <2>2, <4>1, <4>2, CarriesNothing
    <3>q. QED BY <3>3 DEF Keeps
  <2>q. QED BY <1>1, <1>2, <1>5, <2>3, WritesFlow
<1>6. \/ inbox'[s] = inbox[s]
      \/ ServerTakes(n) /\ spc \in Negotiating /\ s = "client"
      \/ inbox' = [inbox EXCEPT !["remote"] = UpstreamMsg(cfg.addr)] /\ remote # "open" /\ s = "remote"
  BY <1>1, <1>2 DEF ServerTakes, Streams, Sides
<1>q. QED BY <1>3, <1>4, <1>5, <1>6

-----------------------------------------------------------------------------
(* What may become of a stream in one step.                                   *)
Goes(s) ==
  \/ inbox'[s] \in {inbox[s], <<>>}
  \/ \E n \in Nat : inbox'[s] = SubSeq(inbox[s], n + 1, Len(inbox[s]))
  \/ \E u \in Told : /\ Payload(u) /\ inbox'[s] = Append(inbox[s], u)
                     /\ inbox[s] # <<>> => Last(inbox[s]) # FIN
  \/ s = "client" /\ cpc' # "gone"
  \/ s = "remote" /\ inbox'[s] = UpstreamMsg(cfg.addr) /\ spc' = "waitUpstream"

LEMMA InboxGoes ==
  ASSUME AgreeInv, TurnBase, NEW s \in Sides, SocksNext PROVE Goes(s)
<1>1. /\ Streams /\ "client" \in Sides /\ "remote" \in Sides /\ FIN \in Told /\ Units \subseteq Told
      /\ \A e \in Sides : Other(e) \in Sides
  BY StreamsAre
<1>2. ASSUME NEW e \in Sides, inbox' = [inbox EXCEPT ![e] = <<>>] PROVE Goes(s)
  BY <1>1, <1>2 DEF Goes, Streams
<1>3. ASSUME UNCHANGED inbox PROVE Goes(s)
  BY <1>3 DEF Goes
<1>4. ASSUME NEW e \in Sides, inbox[e] # <<>>, inbox' = [inbox EXCEPT ![e] = Tail(@)] PROVE Goes(s)
  <2>1. CASE s # e
    BY <1>1, <1>4, <2>1 DEF Goes, Streams
  <2>2. CASE s = e
    <3>1. inbox[s] \in Seq(Told) /\ inbox'[s] = Tail(inbox[s])
      BY <1>1, <1>4, <2>2 DEF Streams
    <3>2. inbox'[s] = SubSeq(inbox[s], 1 + 1, Len(inbox[s]))
      <4>1. 1 + 1 = 2
        OBVIOUS
      <4>2. Tail(inbox[s]) = SubSeq(inbox[s], 2, Len(inbox[s]))
        BY <3>1
      <4>q. QED BY <3>1, <4>1, <4>2
    <3>q. QED BY <3>2 DEF Goes
  <2>q. QED BY <2>1, <2>2
<1>5. ASSUME NEW e \in Sides, NEW u \in Told, Payload(u), ~HasSentFin(e), inbox' = [inbox EXCEPT ![e] = Append(@, u)]
      PROVE  Goes(s)
  BY <1>1, <1>5 DEF Goes, Streams, HasSentFin
<1>6. ASSUME NEW m, inbox' = [inbox EXCEPT !["client"] = m], cpc' # "gone" PROVE Goes(s)
  BY <1>1, <1>6 DEF Goes, Streams, Sides
<1>7. CASE ClientStart
  <2>1. cpc' # "gone"
    BY <1>7 DEF ClientStart
  <2>q. QED BY <1>6, <1>7, <2>1 DEF ClientStart
<1>8. ASSUME NEW n, ClientWaitMethod(n) \/ ClientWaitAuth(n) \/ ClientWaitResponse(n) PROVE Goes(s)
  <2>1. cpc' # "gone"
    BY <1>8 DEF ClientWaitMethod, ClientWaitAuth, ClientWaitResponse, ResponseOutcome, AfterMethod
  <2>2. UNCHANGED inbox \/ \E m : inbox' = [inbox EXCEPT !["client"] = m]
    BY <1>8 DEF ClientWaitMethod, ClientWaitAuth, ClientWaitResponse, AfterMethod
  <2>q. QED BY <1>3, <1>6, <2>1, <2>2
<1>9. CASE ClientTimeout \/ ClientReads
  BY <1>3, <1>9 DEF ClientTimeout, ClientReads, pipeVars
<1>10. ASSUME NEW e \in Sides, NEW limit, EndSends(e, limit) PROVE Goes(s)
  <2>1. ChunkNo(sent[e] + 1) \in Told /\ Payload(ChunkNo(sent[e] + 1))
    <3>1. sent[e] + 1 \in Nat
      BY <1>1 DEF Streams
    <3>2. ChunkNo(sent[e] + 1) \in Units
      BY <3>1, ClientMessages DEF ChunkNo, AgreeInv, AuthInv
    <3>q. QED BY <1>1, <3>2, ChunkNoIsData DEF Payload
  <2>2. inbox' = [inbox EXCEPT ![e] = Append(@, ChunkNo(sent[e] + 1))] /\ ~HasSentFin(e)
    BY <1>10 DEF EndSends, ChunkNo
  <2>q. QED BY <1>5, <2>1, <2>2
<1>11. ASSUME NEW e \in Sides, EndLeaves(e) \/ EndBeforePipe(e) \/ ResetBeforePipe(e) PROVE Goes(s)
  <2>1. CASE EndLeaves(e)
    <3>1. inbox' = [inbox EXCEPT ![e] = Append(@, FIN)] /\ ~HasSentFin(e) /\ Payload(FIN)
      BY <2>1 DEF EndLeaves, Payload
    <3>q. QED BY <1>1, <1>5, <3>1
  <2>2. CASE EndBeforePipe(e) \/ ResetBeforePipe(e)
    BY <1>2, <2>2 DEF EndBeforePipe, ResetBeforePipe
  <2>q. QED BY <1>11, <2>1, <2>2
<1>12. ASSUME NEW n \in Nat, ServerActs(n) PROVE Goes(s)
  <2>1. CASE UNCHANGED inbox
    BY <1>3, <2>1
  <2>2. CASE ServerTakes(n)
    <3>1. inbox' = [inbox EXCEPT !["client"] = SubSeq(@, n + 1, Len(@))]
      BY <2>2 DEF ServerTakes
    <3>2. inbox'[s] = inbox[s] \/ inbox'[s] = SubSeq(inbox[s], n + 1, Len(inbox[s]))
      BY <1>1, <3>1 DEF Streams
    <3>q. QED BY <3>2 DEF Goes
  <2>3. CASE inbox' = [inbox EXCEPT !["remote"] = UpstreamMsg(cfg.addr)] /\ spc' = "waitUpstream"
    BY <1>1, <2>3 DEF Goes, Streams, Sides
  <2>4. \/ UNCHANGED inbox \/ ServerTakes(n)
        \/ inbox' = [inbox EXCEPT !["remote"] = UpstreamMsg(cfg.addr)] /\ spc' = "waitUpstream"
    BY <1>12 DEF ServerActs, RouteConnection, ServerWaitMethod, ServerWaitUserPass, ServerWaitRequest,
                 ServerWaitHello, ServerTimeout, ConnectTarget, ConnectFromLocal, ProxyRequestTarget,
                 SendResponse, StartPipe
  <2>q. QED BY <2>1, <2>2, <2>3, <2>4
<1>13. ASSUME PipeNext PROVE Goes(s)
  <2>1. ASSUME NEW e \in Sides, Forward(e) PROVE Goes(s)
    BY <1>4, <2>1 DEF Forward
  <2>2. ASSUME NEW e \in Sides, PeerEnded(e) PROVE Goes(s)
    BY <1>2, <2>2 DEF PeerEnded
  <2>3. ASSUME NEW e \in Sides, Flush(e) \/ Finish(e) \/ PipelineDone(e) \/ SocketClosed(e) \/ PipeError(e)
        PROVE  Goes(s)
    BY <1>3, <2>3 DEF Flush, Finish, PipelineDone, SocketClosed, PipeError
  <2>4. ASSUME GraceOver \/ IdleTimeout PROVE Goes(s)
    BY <1>3, <2>4 DEF GraceOver, IdleTimeout
  <2>q. QED BY <1>13, <2>1, <2>2, <2>3, <2>4 DEF PipeNext
<1>14. \A n \in 1..4 + TargetData : n \in Nat
  BY DataAssumption
<1>15. ASSUME UpstreamSteps PROVE Goes(s)
  <2>1. PICK n \in Nat : inbox' = [inbox EXCEPT !["remote"] = SubSeq(@, n + 1, Len(@))]
    BY <1>15, UpstreamShrinks DEF AgreeInv
  <2>2. inbox'[s] = inbox[s] \/ inbox'[s] = SubSeq(inbox[s], n + 1, Len(inbox[s]))
    BY <1>1, <2>1 DEF Streams
  <2>q. QED BY <2>2 DEF Goes
<1>q. QED
  BY <1>1, <1>7, <1>8, <1>9, <1>10, <1>11, <1>12, <1>13, <1>14, <1>15
  DEF SocksNext, ClientSends, TargetSends, ServerActs, UpstreamSteps

(* A chunk that is exactly one message is made of its units only.             *)
LEMMA ExactIsOfOneKind ==
  ASSUME NEW T, NEW chunk \in Seq(T), Exact(chunk)
  PROVE  /\ \A i \in 1..Len(chunk) : chunk[i][1] = chunk[1][1]
         /\ Len(chunk) = Size[chunk[1][1]] /\ chunk # <<>>
<1> DEFINE same == {i \in DOMAIN chunk : chunk[i][1] = chunk[1][1]}
<1>0. DOMAIN chunk = 1..Len(chunk) /\ Len(chunk) \in Nat
  OBVIOUS
<1>1. IsFiniteSet(1..Len(chunk)) /\ Cardinality(1..Len(chunk)) = Len(chunk)
  BY <1>0, FS_Interval
<1>2. Cardinality(same) = Len(chunk) /\ Len(chunk) = Size[chunk[1][1]] /\ chunk # <<>>
  BY DEF Exact, Whole, Lead
<1>3. same \subseteq 1..Len(chunk)
  BY <1>0
<1>4. same = 1..Len(chunk)
  BY <1>1, <1>2, <1>3, FS_Subset
<1>q. QED BY <1>2, <1>4

(* Without harm the other server's answer is taken whole and by itself.       *)
LEMMA UpstreamLeaves ==
  ASSUME AgreeInv, UpstreamAhead, NEW n, UpstreamResponse(n), ~harmed'
  PROVE  /\ n = 4 /\ spc' = "responding" /\ UNCHANGED <<pending, ending>>
         /\ inbox["remote"] \in Seq(Told) /\ Len(inbox["remote"]) >= 4
         /\ \A i \in 1..4 : inbox["remote"][i] = <<"upstream", cfg.addr, i>>
         /\ inbox'["remote"] = SubSeq(inbox["remote"], 4 + 1, Len(inbox["remote"]))
<1> DEFINE q == inbox["remote"]
           chunk == SubSeq(q, 1, n)
<1>1. /\ q \in Seq(Told) /\ n \in ChunkSizes(q, 0) /\ Exact(chunk) /\ inbox'["remote"] = SubSeq(q, n + 1, Len(q))
      /\ spc = "waitUpstream" /\ "remote" \notin destroyed
  <2>1. Streams /\ "remote" \in Sides
    BY StreamsAre
  <2>q. QED BY <2>1 DEF UpstreamResponse, Streams
<1>2. Len(q) >= 4 /\ \A i \in 1..4 : q[i] = <<"upstream", cfg.addr, i>>
  BY <1>1 DEF UpstreamAhead
<1>3. n \in Nat /\ 1 <= n /\ n <= Len(q)
  BY <1>1, ChunkInside
<1>4. chunk \in Seq(Told) /\ Len(chunk) = n /\ chunk[1] = q[1]
  BY <1>1, <1>3
<1>5. chunk[1][1] = "upstream"
  <2> HIDE DEF chunk, q
  <2>1. 1 \in 1..4
    OBVIOUS
  <2>2. q[1] = <<"upstream", cfg.addr, 1>>
    BY <1>2, <2>1
  <2>q. QED BY <1>4, <2>2
<1>6. n = 4 /\ Lead(chunk) = 4
  <2> HIDE DEF chunk, q
  <2>1. Len(chunk) = Size[chunk[1][1]] /\ Lead(chunk) = Size[chunk[1][1]]
    BY <1>1, <1>4, ExactIsOfOneKind DEF Exact, Whole
  <2>q. QED BY <1>4, <1>5, <2>1, UpstreamIs
<1>7. ParseTarget(Size["upstream"] - Lead(chunk)) = "whole"
  <2>1. Size["upstream"] - Lead(chunk) = 0
    BY <1>6, UpstreamIs
  <2>q. QED BY <2>1 DEF ParseTarget
<1>8. spc' = "responding" /\ UNCHANGED <<pending, ending>>
  <2>1. Lead(chunk) # 1 /\ ParseTarget(Size["upstream"] - Lead(chunk)) # "throws"
    BY <1>6, <1>7
  <2>q. QED BY <2>1 DEF UpstreamResponse
<1>q. QED BY <1>1, <1>2, <1>6, <1>8

(* Nothing repairs a connection.                                              *)
LEMMA OverStays == ASSUME SocksNext PROVE (harmed => harmed') /\ (spc \in Over => spc' \in Over)
<1>1. ASSUME NEW n, ClientActs(n) PROVE (harmed => harmed') /\ spc' = spc
  <2>1. CASE ClientStart \/ ClientTimeout \/ ClientReads
    <3>1. UNCHANGED <<spc, harmed>>
      BY <2>1 DEF ClientStart, ClientTimeout, ClientReads, pipeVars
    <3>q. QED BY <3>1
  <2>2. CASE ClientWaitMethod(n) \/ ClientWaitAuth(n) \/ ClientWaitResponse(n)
    BY <2>2 DEF ClientWaitMethod, ClientWaitAuth, ClientWaitResponse, ClientTakes
  <2>q. QED BY <1>1, <2>1, <2>2 DEF ClientActs
<1>2. CASE ClientSends \/ TargetSends
  BY <1>2 DEF ClientSends, TargetSends, EndSends
<1>3. ASSUME NEW n, ServerActs(n) \/ UpstreamResponse(n) \/ UpstreamUnheard
      PROVE  (harmed => harmed') /\ spc \notin Over
  <2>1. CASE ServerTimeout \/ ConnectTarget \/ SendResponse \/ StartPipe \/ RouteConnection(n)
    BY <2>1 DEF ServerTimeout, ConnectTarget, SendResponse, StartPipe, RouteConnection, Over
  <2>2. CASE ServerWaitMethod(n) \/ ServerWaitUserPass(n) \/ ServerWaitRequest(n) \/ ServerWaitHello(n)
    BY <2>2 DEF ServerWaitMethod, ServerWaitUserPass, ServerWaitRequest, ServerWaitHello, ServerTakes, Over
  <2>3. CASE UpstreamResponse(n)
    BY <2>3 DEF UpstreamResponse, Over
  <2>4. CASE UpstreamUnheard
    BY <2>4 DEF UpstreamUnheard, Over
  <2>q. QED BY <1>3, <2>1, <2>2, <2>3, <2>4 DEF ServerActs
<1>4. ASSUME NEW e, EndLeaves(e) \/ EndBeforePipe(e) \/ ResetBeforePipe(e)
      PROVE  (harmed => harmed') /\ (spc \in Over => spc' \in Over)
  BY <1>4 DEF EndLeaves, EndBeforePipe, ResetBeforePipe, socksVars, Over
<1>5. CASE UNCHANGED socksVars
  BY <1>5 DEF socksVars
<1>q. QED BY <1>1, <1>2, <1>3, <1>4, <1>5 DEF SocksNext, ClientActs, ServerActs

LEMMA StreamStays ==
  ASSUME NEW T, NEW units \in Seq(T), FinLast(units)
  PROVE  /\ FinLast(<<>>)
         /\ \A n \in Nat : /\ FinLast(SubSeq(units, n + 1, Len(units)))
                           /\ \A i \in 1..Len(SubSeq(units, n + 1, Len(units))) :
                                \E j \in 1..Len(units) : SubSeq(units, n + 1, Len(units))[i] = units[j]
         /\ \A u \in T : (units # <<>> => Last(units) # FIN) => FinLast(Append(units, u))
<1>1. FinLast(<<>>)
  BY DEF FinLast
<1>2. ASSUME NEW n \in Nat
      PROVE  /\ FinLast(SubSeq(units, n + 1, Len(units)))
             /\ \A i \in 1..Len(SubSeq(units, n + 1, Len(units))) :
                  \E j \in 1..Len(units) : SubSeq(units, n + 1, Len(units))[i] = units[j]
  <2> DEFINE rest == SubSeq(units, n + 1, Len(units))
  <2>1. /\ \A i \in 1..Len(rest) : n + i \in 1..Len(units) /\ rest[i] = units[n + i]
        /\ Len(rest) \in Nat /\ Len(units) \in Nat /\ Len(rest) > 0 => Len(rest) = Len(units) - n
    OBVIOUS
  <2> HIDE DEF rest
  <2>2. FinLast(rest)
    <3>1. ASSUME NEW i \in 1..Len(rest), rest[i] = FIN PROVE i = Len(rest)
      <4>1. n + i = Len(units)
        BY <2>1, <3>1 DEF FinLast
      <4>q. QED BY <2>1, <4>1
    <3>q. QED BY <3>1 DEF FinLast
  <2>3. \A i \in 1..Len(rest) : \E j \in 1..Len(units) : rest[i] = units[j]
    BY <2>1
  <2>q. QED BY <2>2, <2>3 DEF rest
<1>3. ASSUME NEW u \in T, units # <<>> => Last(units) # FIN PROVE FinLast(Append(units, u))
  <2>1. /\ Len(Append(units, u)) = Len(units) + 1 /\ Len(units) \in Nat
        /\ \A i \in 1..Len(units) : Append(units, u)[i] = units[i]
    BY AppendProperties
  <2>2. \A i \in 1..Len(units) : units[i] # FIN
    <3>1. ASSUME NEW i \in 1..Len(units), units[i] = FIN PROVE FALSE
      <4>1. i = Len(units) /\ units # <<>>
        BY <2>1, <3>1 DEF FinLast
      <4>q. QED BY <1>3, <3>1, <4>1 DEF Last
    <3>q. QED BY <3>1
  <2>q. QED BY <2>1, <2>2 DEF FinLast
<1>q. QED BY <1>1, <1>2, <1>3

LEMMA EndsStep == ASSUME TurnInv, TurnInv', UpstreamAhead, EndsInv, SocksNext PROVE EndsInv'
<1>1. /\ AgreeInv /\ TurnBase /\ Streams /\ "client" \in Sides /\ "remote" \in Sides
      /\ inbox' \in [Sides -> Seq(Units')]
  BY StreamsAre DEF TurnInv, AgreeInv, AuthInv
<1>2. ASSUME NEW s \in Sides PROVE FinLast(inbox'[s])
  <2>1. Goes(s) /\ inbox[s] \in Seq(Told) /\ FinLast(inbox[s])
    BY <1>1, InboxGoes DEF Streams, EndsInv
  <2>2. CASE inbox'[s] \in {inbox[s], <<>>}
    BY <2>1, <2>2, StreamStays
  <2>3. ASSUME NEW n \in Nat, inbox'[s] = SubSeq(inbox[s], n + 1, Len(inbox[s])) PROVE FinLast(inbox'[s])
    BY <2>1, <2>3, StreamStays
  <2>4. ASSUME NEW u \in Told, inbox'[s] = Append(inbox[s], u), inbox[s] # <<>> => Last(inbox[s]) # FIN
        PROVE  FinLast(inbox'[s])
    BY <2>1, <2>4, StreamStays
  <2>5. CASE s = "client" /\ cpc' # "gone"
    <3>1. \A i \in DOMAIN inbox'["client"] : inbox'["client"][i] # FIN
      BY <2>5 DEF TurnInv, TurnBase, NoFin, Stream
    <3>2. DOMAIN inbox'["client"] = 1..Len(inbox'["client"])
      BY <1>1
    <3>q. QED BY <2>5, <3>1, <3>2 DEF FinLast
  <2>6. CASE inbox'[s] = UpstreamMsg(cfg.addr)
    BY <2>6, UpstreamIs DEF FinLast, FIN
  <2>q. QED BY <2>1, <2>2, <2>3, <2>4, <2>5, <2>6 DEF Goes
<1>3. /\ cfg' = cfg /\ (remote' # "open" => remote # "open" /\ sent' = sent)
      /\ (got' = got \/ ClientReads)
      /\ unheard' = unheard \/ (unheard' = unheard + 1 /\ cfg.route = "v5")
  <2>1. CASE ClientStart \/ ClientTimeout \/ ClientReads \/ TargetSends
    BY <1>1, <2>1 DEF ClientStart, ClientTimeout, ClientReads, TargetSends, EndSends, Streams
  <2>2. CASE ClientSends
    BY <1>1, <2>2 DEF ClientSends, EndSends, AgreeInv
  <2>3. ASSUME NEW n, ClientWaitMethod(n) \/ ClientWaitAuth(n) \/ ClientWaitResponse(n)
        PROVE  UNCHANGED <<cfg, remote, sent, got, unheard>>
    BY <2>3 DEF ClientWaitMethod, ClientWaitAuth, ClientWaitResponse, ClientTakes
  <2>4. ASSUME NEW n, ServerActs(n)
        PROVE  UNCHANGED <<cfg, sent, got, unheard>> /\ (remote' # "open" => remote # "open")
    BY <2>4 DEF ServerActs, RouteConnection, ServerWaitMethod, ServerWaitUserPass, ServerWaitRequest,
                ServerWaitHello, ServerTimeout, ConnectTarget, ConnectFromLocal, ProxyRequestTarget,
                SendResponse, StartPipe, ServerSame
  <2>5. ASSUME NEW e \in Sides, EndLeaves(e) \/ EndBeforePipe(e) \/ ResetBeforePipe(e)
        PROVE  UNCHANGED <<cfg, remote, sent, got, unheard>>
    BY <2>5 DEF EndLeaves, EndBeforePipe, ResetBeforePipe, socksVars
  <2>6. UNCHANGED socksVars => UNCHANGED <<cfg, remote, sent, got, unheard>>
    BY DEF socksVars
  <2>7. ASSUME NEW n, UpstreamResponse(n) \/ UpstreamUnheard
        PROVE  /\ UNCHANGED <<cfg, remote, sent, got>>
               /\ unheard' = unheard \/ (unheard' = unheard + 1 /\ cfg.route = "v5")
    BY <2>7 DEF UpstreamResponse, UpstreamUnheard, ServerSame
  <2>q. QED BY <2>1, <2>2, <2>3, <2>4, <2>5, <2>6, <2>7 DEF SocksNext, ServerActs
<1>4. got' \in Seq((Units \cup Answers)')
  <2>1. Units' = Units /\ Answers' = Answers
    BY <1>3, UnitsSame DEF Answers
  <2>2. CASE ClientReads
    <3>1. wire["client"] \in Seq(Told) /\ wire["client"] # <<>> /\ got' = Append(got, Head(wire["client"]))
      BY <1>1, <2>2 DEF ClientReads, Streams
    <3>2. Head(wire["client"]) \in Units \cup Answers
      BY <3>1 DEF Told
    <3>q. QED BY <2>1, <3>1, <3>2 DEF EndsInv
  <2>q. QED BY <1>3, <2>1, <2>2 DEF EndsInv
<1>5. ASSUME ~harmed', spc' \notin Over PROVE FromTarget(inbox["remote"])'
  <2> DEFINE box == inbox["remote"]
  <2>1. FromTarget(box) /\ box \in Seq(Told) /\ box \in Seq(Units) /\ FinLast(box)
    BY <1>1, <1>5, OverStays DEF EndsInv, Streams, AgreeInv, AuthInv
  <2>2. CASE spc # "waitUpstream" /\ spc' = "waitUpstream"
    BY <2>2, UpstreamBegins, UpstreamIs DEF FromTarget
  <2>3. ASSUME NEW u \in Told, Payload(u), inbox'["remote"] = Append(box, u), spc = "waitUpstream" => spc' = spc
        PROVE  FromTarget(inbox["remote"])'
    <3>1. /\ Len(inbox'["remote"]) = Len(box) + 1 /\ Len(box) \in Nat /\ inbox'["remote"][Len(box) + 1] = u
          /\ \A i \in 1..Len(box) : inbox'["remote"][i] = box[i]
      BY <2>1, <2>3, AppendProperties
    <3>q. QED BY <2>1, <2>3, <3>1 DEF FromTarget
  <2>4. CASE spc = "waitUpstream" /\ spc' = spc
    <3>1. Grows \/ inbox'["remote"] = <<>>
      BY <2>4, UpstreamGrows
    <3>2. ASSUME NEW u \in Units, Payload(u), inbox'["remote"] = Append(box, u) PROVE FromTarget(inbox["remote"])'
      BY <2>3, <2>4, <3>2, StreamsAre, <1>1
    <3>q. QED BY <2>1, <2>4, <3>1, <3>2 DEF Grows, FromTarget
  <2>5. CASE spc = "waitUpstream" /\ spc' # spc
    <3>1. PICK n \in 1..4 + TargetData : UpstreamResponse(n)
      <4>1. ASSUME NEW n, ClientActs(n) PROVE spc' = spc
        BY <4>1 DEF ClientActs, ClientStart, ClientTimeout, ClientReads, ClientWaitMethod, ClientWaitAuth,
                    ClientWaitResponse, ClientTakes
      <4>2. ClientSends \/ TargetSends => spc' = spc
        BY DEF ClientSends, TargetSends, EndSends
      <4>3. ASSUME NEW n PROVE ~ServerActs(n)
        BY <2>5 DEF ServerActs, RouteConnection, ServerWaitMethod, ServerWaitUserPass, ServerWaitRequest,
                    ServerWaitHello, ServerTimeout, ConnectTarget, SendResponse, StartPipe
      <4>4. ASSUME NEW e, EndLeaves(e) \/ EndBeforePipe(e) \/ ResetBeforePipe(e) PROVE spc' = spc
        BY <1>5, <4>4 DEF EndLeaves, EndBeforePipe, ResetBeforePipe, socksVars, Over
      <4>5. UNCHANGED socksVars \/ UpstreamUnheard => spc' = spc
        BY DEF socksVars, UpstreamUnheard
      <4>q. QED BY <2>5, <4>1, <4>2, <4>3, <4>4, <4>5 DEF SocksNext, ClientActs, ServerActs
    <3>2. inbox'["remote"] = SubSeq(box, 4 + 1, Len(box))
      BY <1>1, <1>5, <3>1, UpstreamLeaves
    <3>3. \A i \in 1..Len(SubSeq(box, 4 + 1, Len(box))) :
            SubSeq(box, 4 + 1, Len(box))[i] = box[4 + i] /\ 4 + i \in 1..Len(box)
      BY <2>1
    <3>4. ASSUME NEW i \in 1..Len(inbox'["remote"]) PROVE Payload(inbox'["remote"][i])
      <4>1. inbox'["remote"][i] = box[4 + i] /\ 4 + i \in 1..Len(box) /\ ~(4 + i <= 4)
        BY <3>2, <3>3
      <4>q. QED BY <2>1, <4>1 DEF FromTarget
    <3>q. QED BY <3>4 DEF FromTarget
  <2>6. CASE spc # "waitUpstream" /\ spc' # "waitUpstream"
    <3>1. Goes("remote") /\ \A i \in 1..Len(box) : Payload(box[i])
      BY <1>1, <2>1, <2>6, InboxGoes DEF FromTarget
    <3>2. CASE inbox'["remote"] \in {box, <<>>}
      BY <3>1, <3>2 DEF FromTarget
    <3>3. ASSUME NEW n \in Nat, inbox'["remote"] = SubSeq(box, n + 1, Len(box)) PROVE FromTarget(inbox["remote"])'
      BY <2>1, <3>1, <3>3, StreamStays DEF FromTarget
    <3>q. QED BY <2>3, <2>6, <3>1, <3>2, <3>3 DEF Goes
  <2>q. QED BY <2>2, <2>4, <2>5, <2>6
<1>q. QED BY <1>1, <1>2, <1>3, <1>4, <1>5 DEF EndsInv


-----------------------------------------------------------------------------
(* What the client reads of the negotiation, and what it sends.               *)
LEMMA ClientWrites ==
  ASSUME AgreeInv, NEW n, ClientActs(n)
  PROVE  /\ UNCHANGED <<pending, destroyed, sent, ending, piping, spc>> /\ wire'["remote"] = wire["remote"]
         /\ inbox'["remote"] = inbox["remote"] /\ (harmed => harmed') /\ cpc \notin Lost
         /\ \/ inbox'["client"] = inbox["client"]
            \/ \E m \in Seq(Told) : NoData(m) /\ inbox'["client"] = inbox["client"] \o m
<1>1. /\ Streams /\ "client" \in Sides /\ "remote" \in Sides /\ Units \subseteq Told
      /\ wire["remote"] \in Seq(Told)
  BY StreamsAre DEF Streams
<1>2. /\ \A kind \in {"methods", "userpass", "request", "hello"} : \A what : NoData(Msg(kind, what))
      /\ \A q \in Seq(Units) : q \in Seq(Told)
  BY <1>1, NoDataInMessages DEF Size
<1>3. /\ MethodsMsg \in Seq(Told) /\ UserPassMsg(cfg.creds) \in Seq(Told)
      /\ RequestMsg(cfg.addr) \in Seq(Told) /\ HelloMsg(cfg.addr) \in Seq(Told)
      /\ NoData(MethodsMsg) /\ NoData(UserPassMsg(cfg.creds))
      /\ NoData(RequestMsg(cfg.addr)) /\ NoData(HelloMsg(cfg.addr))
  <2>1. /\ MethodsMsg \in Seq(Units) /\ UserPassMsg(cfg.creds) \in Seq(Units)
        /\ RequestMsg(cfg.addr) \in Seq(Units) /\ HelloMsg(cfg.addr) \in Seq(Units)
    BY ClientMessages DEF AgreeInv, AuthInv
  <2>q. QED BY <1>2, <2>1 DEF MethodsMsg, UserPassMsg, RequestMsg, HelloMsg
<1>4. ASSUME NEW m \in Seq(Told), NoData(m), inbox' = [inbox EXCEPT !["client"] = @ \o m]
      PROVE  /\ inbox'["remote"] = inbox["remote"]
             /\ \E x \in Seq(Told) : NoData(x) /\ inbox'["client"] = inbox["client"] \o x
  BY <1>1, <1>4 DEF Streams
<1>5. /\ UNCHANGED <<pending, destroyed, sent, ending, piping, spc>> /\ wire'["remote"] = wire["remote"]
      /\ (harmed => harmed') /\ cpc \notin Lost
  <2>1. CASE ClientStart \/ ClientTimeout \/ ClientReads
    BY <1>1, <2>1 DEF ClientStart, ClientTimeout, ClientReads, pipeVars, Lost, Streams
  <2>2. CASE ClientWaitMethod(n) \/ ClientWaitAuth(n) \/ ClientWaitResponse(n)
    BY <1>1, <2>2 DEF ClientWaitMethod, ClientWaitAuth, ClientWaitResponse, ClientTakes, Lost, Streams
  <2>q. QED BY <2>1, <2>2 DEF ClientActs
<1>6. CASE UNCHANGED inbox
  BY <1>5, <1>6
<1>7. CASE ~UNCHANGED inbox
  <2>1. \/ inbox' = [inbox EXCEPT !["client"] = @ \o MethodsMsg]
        \/ inbox' = [inbox EXCEPT !["client"] = @ \o UserPassMsg(cfg.creds)]
        \/ inbox' = [inbox EXCEPT !["client"] = @ \o RequestMsg(cfg.addr)]
        \/ inbox' = [inbox EXCEPT !["client"] = @ \o HelloMsg(cfg.addr)]
    BY <1>7 DEF ClientActs, ClientStart, ClientTimeout, ClientReads, ClientWaitMethod, ClientWaitAuth,
                ClientWaitResponse, AfterMethod, pipeVars
  <2>q. QED BY <1>3, <1>4, <1>5, <2>1
<1>q. QED BY <1>6, <1>7

LEMMA ClientFlows ==
  ASSUME AgreeInv, AgreeInv', NEW s \in Sides, NEW r \in Nat, Flow(s, r), NEW n, ClientActs(n),
         s = "remote" => Keeps(wire["client"], wire'["client"])
  PROVE  Flow(s, r)'
<1>1. Streams /\ "client" \in Sides /\ "remote" \in Sides
  BY StreamsAre
<1>2. /\ UNCHANGED <<pending, destroyed, sent>> /\ wire'["remote"] = wire["remote"]
      /\ inbox'["remote"] = inbox["remote"]
      /\ \/ inbox'["client"] = inbox["client"]
         \/ \E m \in Seq(Told) : NoData(m) /\ inbox'["client"] = inbox["client"] \o m
  BY ClientWrites
<1>3. Keeps(inbox["client"], inbox'["client"])
  <2>1. inbox["client"] \in Seq(Told)
    BY <1>1 DEF Streams
  <2>q. QED BY <1>2, <2>1, KeepsJoined
<1>4. Keeps(inbox[s], inbox'[s]) /\ Keeps(wire[Other(s)], wire'[Other(s)])
  <2>1. Keeps(inbox["remote"], inbox'["remote"]) /\ Keeps(wire["remote"], wire'["remote"])
    BY <1>2 DEF Keeps
  <2>q. QED BY <1>3, <2>1 DEF Sides, Other
<1>5. Intact' = Intact /\ Keeps(pending[Other(s)], pending'[Other(s)])
  BY <1>2 DEF Intact, Keeps
<1>q. QED BY <1>2, <1>4, <1>5, FlowKept

(* A client that goes on after a wait has taken a message off its stream.     *)
LEMMA WaitKeeps ==
  ASSUME AgreeInv, NEW n, ClientWaitMethod(n) \/ ClientWaitAuth(n) \/ ClientWaitResponse(n),
         ~harmed', cpc' \notin Lost
  PROVE  /\ Keeps(wire["client"], wire'["client"]) /\ n \in 1..Len(wire["client"])
         /\ wire'["client"] = SubSeq(wire["client"], n + 1, Len(wire["client"]))
         /\ n = Size[wire["client"][1][1]]
<1> DEFINE q == wire["client"]
           chunk == SubSeq(q, 1, n)
<1>1. /\ ClientTakes(n) /\ chunk[1][1] \in {"method", "auth", "response"}
  BY DEF ClientWaitMethod, ClientWaitAuth, ClientWaitResponse, ResponseOutcome, Lost
<1>2. /\ q \in Seq(Told) /\ wire'["client"] = SubSeq(q, n + 1, Len(q)) /\ n \in ChunkSizes(q, 0) /\ Exact(chunk)
  <2>1. Streams /\ "client" \in Sides
    BY StreamsAre
  <2>q. QED BY <1>1, <2>1 DEF ClientTakes, Streams
<1> HIDE DEF q
<1>3. n \in Nat /\ 1 <= n /\ n <= Len(q)
  BY <1>2, ChunkInside
<1>4. chunk \in Seq(Told) /\ Len(chunk) = n /\ \A i \in 1..n : chunk[i] = q[i]
  BY <1>2, <1>3
<1>5. /\ \A i \in 1..n : q[i][1] = q[1][1]
      /\ n = Size[q[1][1]]
  <2>1. /\ \A i \in 1..Len(chunk) : chunk[i][1] = chunk[1][1]
        /\ Len(chunk) = Size[chunk[1][1]]
    BY <1>2, <1>4, ExactIsOfOneKind
  <2>q. QED BY <1>3, <1>4, <2>1
<1>6. \A i \in 1..n : ~IsData(q[i])
  BY <1>1, <1>3, <1>4, <1>5 DEF IsData
<1>7. n \in 0..Len(q) /\ n \in 1..Len(q)
  BY <1>2, <1>3
<1>8. Keeps(q, SubSeq(q, n + 1, Len(q)))
  BY <1>2, <1>6, <1>7, CarriesRest DEF Keeps
<1>q. QED BY <1>2, <1>5, <1>7, <1>8 DEF q

-----------------------------------------------------------------------------
(* Both ways.                                                                 *)
Up == Flow("client", 0)
Down == ~harmed => \E r \in Nat :
                     /\ Carries(got, unheard, r)
                     /\ cpc \notin Lost => Flow("remote", r)

LEMMA UpstreamFlows ==
  ASSUME AgreeInv, AgreeInv', EndsInv, NEW s \in Sides, NEW r \in Nat, Flow(s, r), UpstreamSteps,
         s = "remote" => Keeps(inbox["remote"], inbox'["remote"])
  PROVE  Flow(s, r)'
<1>1. /\ UNCHANGED <<sent, destroyed, wire>>
      /\ UNCHANGED pending \/ \E failing : ServerFails(failing)
  <2>1. ASSUME NEW n, UpstreamResponse(n)
        PROVE  /\ UNCHANGED <<sent, destroyed, wire>>
               /\ UNCHANGED pending \/ \E failing : ServerFails(failing)
    BY <2>1 DEF UpstreamResponse, ServerSame
  <2>2. UpstreamUnheard => UNCHANGED <<sent, destroyed, wire, pending>>
    BY DEF UpstreamUnheard
  <2>q. QED BY <2>1, <2>2 DEF UpstreamSteps
<1>2. Keeps(inbox[s], inbox'[s])
  <2>1. inbox'["client"] = inbox["client"]
    BY UpstreamShrinks DEF AgreeInv, Stream
  <2>2. Keeps(inbox["client"], inbox'["client"])
    BY <2>1 DEF Keeps
  <2>q. QED BY <2>2 DEF Sides
<1>q. QED BY <1>1, <1>2, WritesFlow

LEMMA UpStep ==
  ASSUME TurnInv, TurnInv', EndsInv, Up, SocksNext PROVE Up'
<1>1. AgreeInv /\ AgreeInv' /\ "client" \in Sides /\ "remote" \in Sides /\ 0 \in Nat
  BY StreamsAre DEF TurnInv
<1>2. ASSUME NEW n, ClientActs(n) PROVE Up'
  BY <1>1, <1>2, ClientFlows DEF Up
<1>3. ASSUME NEW n, ServerActs(n) PROVE Up'
  BY <1>1, <1>3, ServerFlows DEF Up
<1>4. ASSUME NEW e \in Sides,
             \/ \E limit : EndSends(e, limit)
             \/ EndLeaves(e) \/ EndBeforePipe(e) \/ ResetBeforePipe(e)
      PROVE  Up'
  BY <1>1, <1>4, EndsFlow DEF Up
<1>5. ASSUME PipeNext, UNCHANGED socksVars PROVE Up'
  BY <1>1, <1>5, PipeFlows DEF Up, socksVars
<1>6. ASSUME UpstreamSteps PROVE Up'
  BY <1>1, <1>6, UpstreamFlows DEF Up
<1>q. QED
  BY <1>1, <1>2, <1>3, <1>4, <1>5, <1>6
  DEF SocksNext, ClientActs, ServerActs, UpstreamSteps, ClientSends, TargetSends

-----------------------------------------------------------------------------
(* The answers of the negotiation: the client has read each of them before    *)
(* the next one, or a chunk, is behind it.                                    *)
AllData(units) == \A i \in 1..Len(units) : IsData(units[i])

(* What the server has answered and the client has not yet read.              *)
Due == IF spc \in {"waitUserPass", "waitRequest"} /\ cpc = "waitMethod" THEN MethodMsg(method)
       ELSE IF spc = "waitRequest" /\ cpc = "waitAuth" THEN AuthMsg
       ELSE IF spc \in {"responded", "piping"} /\ cpc = "waitResponse" THEN ResponseMsg(reply)
       ELSE <<>>

Begins(units, due) ==
  /\ Len(due) <= Len(units)
  /\ \A i \in 1..Len(due) : units[i] = due[i]
  /\ \A i \in 1..Len(units) : i > Len(due) => Payload(units[i])

Awaits ==
  /\ spc \in {"connecting", "waitUpstream", "responding"} => cpc = "waitResponse"
  /\ spc \in {"responded", "piping"} => cpc \in {"waitResponse", "done"}
  /\ ~piping => wire["client"] = Due /\ pending["client"] = <<>>
  /\ piping => Begins(wire["client"], Due) /\ AllData(pending["client"])

Answered ==
  ~harmed /\ spc \notin Over => /\ AllData(got) /\ (~piping => got = <<>>)
                                /\ cpc \notin Lost => Awaits

(* The server's side of the client ends or breaks before the pipe stands only *)
(* for a client that has left, or when the server has given up.               *)
Quiet ==
  /\ ~piping /\ "client" \in ending \cup destroyed => cpc = "gone" \/ spc \in Over
  /\ grace => piping

LEMMA QuietStep ==
  ASSUME TurnInv, Quiet, SocksNext PROVE Quiet'
<1>1. Streams /\ "client" \in Sides /\ AgreeInv
  BY StreamsAre DEF TurnInv
<1>2. ASSUME NEW n, ClientActs(n) PROVE Quiet'
  <2>1. UNCHANGED grace
    BY <1>2 DEF ClientActs, ClientStart, ClientTimeout, ClientReads, ClientWaitMethod, ClientWaitAuth,
                ClientWaitResponse, ClientTakes, pipeVars
  <2>q. QED BY <1>1, <1>2, <2>1, ClientWrites DEF Quiet, Lost
<1>3. ASSUME NEW n, ServerActs(n) PROVE Quiet'
  <2>1. UNCHANGED <<cpc, destroyed, grace>> /\ (piping => piping') /\ spc \notin Over
        /\ (UNCHANGED ending \/ ServerFails("failed") \/ ServerFails("refused"))
    BY <1>3 DEF ServerActs, RouteConnection, ServerWaitMethod, ServerWaitUserPass, ServerWaitRequest,
                ServerWaitHello, ServerTimeout, ConnectTarget, ConnectFromLocal, ProxyRequestTarget,
                SendResponse, StartPipe, ServerSame, NoHandler, AfterRequest, Over
  <2>2. ServerFails("failed") \/ ServerFails("refused") => spc' \in Over
    BY DEF ServerFails, Over
  <2>q. QED BY <2>1, <2>2 DEF Quiet
<1>4. ASSUME NEW e \in Sides, NEW limit, EndSends(e, limit) PROVE Quiet'
  BY <1>4 DEF EndSends, Quiet
<1>5. ASSUME NEW e \in Sides, EndLeaves(e) \/ ResetBeforePipe(e) PROVE Quiet'
  BY <1>5 DEF EndLeaves, ResetBeforePipe, Destroy, Quiet, Over
<1>6. ASSUME NEW e \in Sides, EndBeforePipe(e) PROVE Quiet'
  <2>1. /\ ~piping /\ inbox[e] # <<>> /\ Head(inbox[e]) = FIN /\ UNCHANGED <<piping, cpc, spc, destroyed, grace>>
        /\ ending' = ending \cup {e}
    BY <1>6 DEF EndBeforePipe, HeadIs, socksVars
  <2>2. CASE e = "client"
    <3>1. ~NoFin
      <4>1. Stream \in Seq(Told) /\ Stream # <<>> /\ Head(Stream) = FIN
        BY <1>1, <2>1, <2>2 DEF Stream, Streams
      <4>2. 1 \in DOMAIN Stream /\ Stream[1] = FIN
        BY <4>1
      <4>q. QED BY <4>2 DEF NoFin
    <3>2. cpc = "gone"
      BY <3>1 DEF TurnInv, TurnBase
    <3>q. QED BY <2>1, <3>2 DEF Quiet
  <2>3. CASE e # "client"
    BY <2>1, <2>3 DEF Quiet
  <2>q. QED BY <2>2, <2>3
<1>7. ASSUME PipeNext, UNCHANGED socksVars PROVE Quiet'
  <2>1. UNCHANGED <<cpc, spc>>
    BY <1>7 DEF socksVars
  <2>2. /\ piping' = piping /\ (grace' => grace \/ piping)
        /\ ~piping => UNCHANGED ending /\ destroyed' \subseteq destroyed \cup ending
    <3>1. CASE \E s \in Sides : Forward(s) \/ PeerEnded(s) \/ PipelineDone(s) \/ PipeError(s)
      BY <3>1 DEF Forward, PeerEnded, PipelineDone, PipeError
    <3>2. CASE \E s \in Sides : Flush(s) \/ Finish(s) \/ SocketClosed(s)
      BY <3>2 DEF Flush, Finish, SocketClosed
    <3>3. CASE GraceOver \/ IdleTimeout
      BY <3>3 DEF GraceOver, IdleTimeout, Quiet
    <3>q. QED BY <1>7, <3>1, <3>2, <3>3 DEF PipeNext
  <2>q. QED BY <2>1, <2>2 DEF Quiet
<1>8. ASSUME NEW n, UpstreamResponse(n) \/ UpstreamUnheard PROVE Quiet'
  <2>1. UNCHANGED <<cpc, destroyed, grace, piping>> /\ spc \notin Over
        /\ (UNCHANGED ending \/ ServerFails("failed"))
    BY <1>8 DEF UpstreamResponse, UpstreamUnheard, ServerSame, Over
  <2>2. UNCHANGED ending \/ spc' \in Over
    BY <2>1 DEF ServerFails, Over
  <2>q. QED BY <2>1, <2>2 DEF Quiet
<1>q. QED
  BY <1>1, <1>2, <1>3, <1>4, <1>5, <1>6, <1>7, <1>8
  DEF SocksNext, ClientActs, ServerActs, ClientSends, TargetSends, Sides

LEMMA AnswerLengths ==
  /\ \A m : Len(MethodMsg(m)) = 2 /\ MethodMsg(m)[1] = <<"method", m, 1>> /\ Size["method"] = 2
  /\ Len(AuthMsg) = 2 /\ AuthMsg[1] = <<"auth", "ok", 1>> /\ Size["auth"] = 2
  /\ \A r : Len(ResponseMsg(r)) = 4 /\ ResponseMsg(r)[1] = <<"response", r, 1>> /\ Size["response"] = 4
  /\ Len(<<>>) = 0
<1>1. Size["method"] = 2 /\ Size["auth"] = 2 /\ Size["response"] = 4
  BY DEF Size
<1>2. ASSUME NEW kind, NEW what, Size[kind] \in Nat \ {0}
      PROVE  Len(Msg(kind, what)) = Size[kind] /\ Msg(kind, what)[1] = <<kind, what, 1>>
  BY <1>2 DEF Msg
<1>3. \A what : /\ Len(Msg("method", what)) = 2 /\ Msg("method", what)[1] = <<"method", what, 1>>
                /\ Len(Msg("auth", what)) = 2 /\ Msg("auth", what)[1] = <<"auth", what, 1>>
                /\ Len(Msg("response", what)) = 4 /\ Msg("response", what)[1] = <<"response", what, 1>>
  <2>1. Size["method"] \in Nat \ {0} /\ Size["auth"] \in Nat \ {0} /\ Size["response"] \in Nat \ {0}
    BY <1>1
  <2>q. QED BY <1>1, <1>2, <2>1
<1>4. Len(<<>>) = 0
  OBVIOUS
<1>q. QED BY <1>1, <1>3, <1>4 DEF MethodMsg, AuthMsg, ResponseMsg

(* A wait of the client takes what is due, and all of it.                     *)
LEMMA TakesDue ==
  ASSUME TurnInv, NEW n, ClientWaitMethod(n) \/ ClientWaitAuth(n) \/ ClientWaitResponse(n),
         ~harmed', cpc' \notin Lost, spc \notin Over, Answered
  PROVE  /\ Awaits /\ Due # <<>> /\ n = Len(Due) /\ wire["client"][1] = Due[1]
         /\ wire["client"] \in Seq(Told) /\ n \in 1..Len(wire["client"])
         /\ wire'["client"] = SubSeq(wire["client"], n + 1, Len(wire["client"]))
<1>1. AgreeInv /\ Streams /\ "client" \in Sides
  BY StreamsAre DEF TurnInv
<1>2. ~harmed /\ cpc \in {"waitMethod", "waitAuth", "waitResponse"} /\ cpc \notin Lost
  BY DEF ClientWaitMethod, ClientWaitAuth, ClientWaitResponse, ClientTakes, Lost
<1>3. Awaits
  BY <1>2 DEF Answered
<1>4. /\ n \in 1..Len(wire["client"]) /\ n = Size[wire["client"][1][1]]
      /\ wire'["client"] = SubSeq(wire["client"], n + 1, Len(wire["client"]))
  BY <1>1, WaitKeeps
<1>5. wire["client"] \in Seq(Told) /\ Len(wire["client"]) \in Nat
  BY <1>1 DEF Streams
<1>6. Due # <<>> /\ wire["client"][1] = Due[1]
  <2>1. CASE ~piping
    BY <1>3, <1>4, <2>1, AnswerLengths DEF Awaits
  <2>2. CASE piping
    <3>1. spc = "piping"
      BY <2>2 DEF TurnInv, TurnBase
    <3>2. Due = ResponseMsg(reply)
      BY <1>2, <1>3, <3>1 DEF Awaits, Due
    <3>3. 1 \in 1..Len(Due)
      BY <3>2, AnswerLengths
    <3>q. QED BY <1>3, <2>2, <3>3, AnswerLengths DEF Awaits, Begins
  <2>q. QED BY <2>1, <2>2
<1>7. Size[Due[1][1]] = Len(Due)
  <2>1. Due = MethodMsg(method) \/ Due = AuthMsg \/ Due = ResponseMsg(reply)
    BY <1>6 DEF Due
  <2>2. CASE Due = MethodMsg(method)
    <3>1. Due[1][1] = "method" /\ Len(Due) = 2 /\ Size["method"] = 2
      BY <2>2, AnswerLengths
    <3>q. QED BY <3>1
  <2>3. CASE Due = AuthMsg
    <3>1. Due[1][1] = "auth" /\ Len(Due) = 2 /\ Size["auth"] = 2
      BY <2>3, AnswerLengths
    <3>q. QED BY <3>1
  <2>4. CASE Due = ResponseMsg(reply)
    <3>1. Due[1][1] = "response" /\ Len(Due) = 4 /\ Size["response"] = 4
      BY <2>4, AnswerLengths
    <3>q. QED BY <3>1
  <2>q. QED BY <2>1, <2>2, <2>3, <2>4
<1>q. QED BY <1>3, <1>4, <1>5, <1>6, <1>7


(* The client.                                                                *)
LEMMA ClientAnswered ==
  ASSUME TurnInv, EndsInv, Answered, NEW n, ClientActs(n) PROVE Answered'
<1>1. AgreeInv /\ Streams /\ "client" \in Sides
  BY StreamsAre DEF TurnInv
<1>2. /\ UNCHANGED <<pending, piping, spc>> /\ (harmed => harmed') /\ cpc \notin Lost
  BY <1>1, ClientWrites
<1>3. SUFFICES ASSUME ~harmed', spc \notin Over
               PROVE  AllData(got') /\ (~piping => got' = <<>>) /\ (cpc' \notin Lost => Awaits')
  BY <1>2 DEF Answered
<1>4. ~harmed /\ Awaits /\ AllData(got) /\ (piping => spc = "piping") /\ (~piping => got = <<>>)
  BY <1>2, <1>3 DEF Answered, TurnInv, TurnBase
<1>5. CASE ClientStart
  <2>1. cpc = "start" /\ cpc' \in {"waitMethod", "waitResponse"} /\ UNCHANGED <<wire, got, method, reply>>
        /\ (cfg.version = 5 <=> cpc' = "waitMethod")
    BY <1>5 DEF ClientStart
  <2>2. spc \notin {"connecting", "waitUpstream", "responding", "responded", "piping"} /\ ~piping
    BY <1>4, <2>1 DEF Awaits
  <2>3. spc \notin {"waitUserPass", "waitRequest"}
    BY <1>4, <2>1 DEF TurnInv, InTurn, Turns, TurnOf, Negotiating
  <2>4. Due = <<>> /\ Due' = <<>>
    BY <1>2, <2>1, <2>2, <2>3 DEF Due
  <2>q. QED BY <1>2, <1>4, <2>1, <2>2, <2>4 DEF Awaits
<1>6. CASE ClientTimeout
  BY <1>4, <1>6 DEF ClientTimeout, Lost
<1>7. CASE ClientReads
  <2>1. /\ cpc = "done" /\ wire["client"] # <<>> /\ Head(wire["client"]) # FIN /\ UNCHANGED <<cpc, method, reply>>
        /\ got' = Append(got, Head(wire["client"])) /\ wire' = [wire EXCEPT !["client"] = Tail(@)]
    BY <1>7 DEF ClientReads
  <2>2. Due = <<>> /\ Due' = <<>> /\ wire["client"] \in Seq(Told) /\ wire'["client"] = Tail(wire["client"])
    BY <1>1, <1>2, <2>1 DEF Due, Streams
  <2>3. piping
    BY <1>4, <2>1, <2>2 DEF Awaits
  <2>4. \A i \in 1..Len(wire["client"]) : Payload(wire["client"][i])
    BY <1>4, <2>2, <2>3, AnswerLengths DEF Awaits, Begins
  <2>5. /\ Len(Tail(wire["client"])) = Len(wire["client"]) - 1 /\ Len(wire["client"]) \in Nat \ {0}
        /\ \A i \in 1..Len(Tail(wire["client"])) : Tail(wire["client"])[i] = wire["client"][i + 1]
        /\ Head(wire["client"]) = wire["client"][1]
    BY <2>1, <2>2
  <2>6. IsData(Head(wire["client"]))
    <3>1. 1 \in 1..Len(wire["client"])
      BY <2>5
    <3>q. QED BY <2>1, <2>4, <2>5, <3>1 DEF Payload
  <2>7. AllData(got')
    <3>1. got \in Seq(Units \cup Answers) /\ Head(wire["client"]) \in Units \cup Answers
      BY <2>1, <2>2 DEF EndsInv, Told
    <3>2. /\ Len(got') = Len(got) + 1 /\ got'[Len(got) + 1] = Head(wire["client"]) /\ Len(got) \in Nat
          /\ \A i \in 1..Len(got) : got'[i] = got[i]
      BY <2>1, <3>1, AppendProperties
    <3>q. QED BY <1>4, <2>6, <3>2 DEF AllData
  <2>8. Begins(wire'["client"], Due')
    <3>1. /\ Len(wire'["client"]) \in Nat /\ Len(Due') = 0
          /\ \A i \in 1..Len(wire'["client"]) : /\ i + 1 \in 1..Len(wire["client"])
                                                /\ wire'["client"][i] = wire["client"][i + 1]
      BY <2>2, <2>5, AnswerLengths
    <3>q. QED BY <2>4, <3>1 DEF Begins
  <2>q. QED BY <1>2, <1>4, <2>1, <2>3, <2>7, <2>8 DEF Awaits
<1>8. CASE ClientWaitMethod(n) \/ ClientWaitAuth(n) \/ ClientWaitResponse(n)
  <2>1. got' = got /\ UNCHANGED <<method, reply>>
        /\ cpc \in {"waitMethod", "waitAuth", "waitResponse"}
    BY <1>8 DEF ClientWaitMethod, ClientWaitAuth, ClientWaitResponse, ClientTakes
  <2>2. SUFFICES ASSUME cpc' \notin Lost PROVE Awaits'
    BY <1>4, <2>1
  <2>3. /\ Due # <<>> /\ n = Len(Due) /\ wire["client"][1] = Due[1]
        /\ wire["client"] \in Seq(Told) /\ n \in 1..Len(wire["client"])
        /\ wire'["client"] = SubSeq(wire["client"], n + 1, Len(wire["client"]))
    BY <1>3, <1>8, <2>2, TakesDue
  <2>4. ~piping => wire'["client"] = <<>>
    BY <1>4, <2>3 DEF Awaits
  <2>5. Due' = <<>> /\ (cpc' = "done" \/ spc \in {"waitUserPass", "waitRequest"})
        /\ (spc \in {"responded", "piping"} => cpc' = "done")
    <3>1. CASE ClientWaitMethod(n)
      <4>1. cpc = "waitMethod" /\ cpc' \in {"waitAuth", "waitResponse"}
            /\ AfterMethod(SubSeq(wire["client"], 1, n)[1][2])
        BY <2>2, <3>1 DEF ClientWaitMethod, Lost, AfterMethod
      <4>2. spc \in {"waitUserPass", "waitRequest"} /\ Due = MethodMsg(method)
        BY <2>3, <4>1 DEF Due
      <4>3. SubSeq(wire["client"], 1, n)[1] = wire["client"][1]
        BY <2>3
      <4>4. SubSeq(wire["client"], 1, n)[1][2] = method
        <5>1. Due[1] = <<"method", method, 1>>
          BY <4>2, AnswerLengths
        <5>q. QED BY <2>3, <4>3, <5>1
      <4>5. spc = "waitRequest" => method # UserPass
        BY <1>4, <4>1 DEF TurnInv, InTurn, Turns, Negotiating
      <4>6. spc = "waitRequest" => cpc' = "waitResponse"
        BY <4>1, <4>4, <4>5 DEF AfterMethod
      <4>q. QED BY <1>2, <4>1, <4>2, <4>6 DEF Due
    <3>2. CASE ClientWaitAuth(n)
      <4>1. cpc = "waitAuth" /\ cpc' = "waitResponse"
        BY <2>2, <3>2 DEF ClientWaitAuth, Lost
      <4>2. spc = "waitRequest"
        BY <2>3, <4>1 DEF Due
      <4>q. QED BY <1>2, <4>1, <4>2 DEF Due
    <3>3. CASE ClientWaitResponse(n)
      <4>1. cpc' = "done"
        BY <2>2, <3>3 DEF ClientWaitResponse, ResponseOutcome, Lost
      <4>q. QED BY <4>1 DEF Due
    <3>q. QED BY <1>8, <3>1, <3>2, <3>3
  <2>6. piping => Begins(wire'["client"], <<>>)
    <3>1. SUFFICES ASSUME piping PROVE Begins(wire'["client"], <<>>)
      OBVIOUS
    <3>2. \A i \in 1..Len(wire["client"]) : i > n => Payload(wire["client"][i])
      BY <1>4, <2>3, <3>1 DEF Awaits, Begins
    <3>3. /\ Len(wire'["client"]) \in Nat
          /\ \A i \in 1..Len(wire'["client"]) : /\ n + i \in 1..Len(wire["client"]) /\ n + i > n
                                                /\ wire'["client"][i] = wire["client"][n + i]
      <4> DEFINE w == wire["client"]
      <4>1. w \in Seq(Told) /\ n \in 1..Len(w) /\ wire'["client"] = SubSeq(w, n + 1, Len(w))
        BY <2>3
      <4> HIDE DEF w
      <4>2. /\ Len(SubSeq(w, n + 1, Len(w))) \in Nat
            /\ \A i \in 1..Len(SubSeq(w, n + 1, Len(w))) :
                  /\ n + i \in 1..Len(w) /\ n + i > n
                  /\ SubSeq(w, n + 1, Len(w))[i] = w[n + i]
        BY <4>1
      <4>q. QED BY <4>1, <4>2 DEF w
    <3>q. QED BY <3>2, <3>3, AnswerLengths DEF Begins
  <2>7. spc \in {"waitUserPass", "waitRequest"} => ~piping
    BY <1>4
  <2>8. spc \notin {"connecting", "waitUpstream", "responding"}
    BY <2>3 DEF Due
  <2>q. QED BY <1>2, <1>4, <2>4, <2>5, <2>6, <2>8 DEF Awaits
<1>q. QED BY <1>5, <1>6, <1>7, <1>8 DEF ClientActs


(* The server: it answers a client that has read its last answer.             *)
LEMMA ServerAnswered ==
  ASSUME TurnInv, TurnInv', Answered, NEW n \in Nat, ServerActs(n) PROVE Answered'
<1>1. AgreeInv /\ Streams /\ "client" \in Sides
  BY StreamsAre DEF TurnInv
<1>2. UNCHANGED <<got, cpc>> /\ (harmed => harmed')
  BY <1>1, ServerWrites DEF TurnInv
<1>3. spc \notin Over
  BY DEF ServerActs, RouteConnection, ServerWaitMethod, ServerWaitUserPass, ServerWaitRequest,
         ServerWaitHello, ServerTimeout, ConnectTarget, SendResponse, StartPipe, Over
<1>0. piping => piping'
  BY DEF ServerActs, RouteConnection, ServerWaitMethod, ServerWaitUserPass, ServerWaitRequest,
         ServerWaitHello, ServerTimeout, ConnectTarget, SendResponse, StartPipe, ServerSame
<1>4. SUFFICES ASSUME ~harmed', spc' \notin Over, cpc \notin Lost PROVE Awaits'
  BY <1>2, <1>3, <1>0 DEF Answered
<1>5. ~harmed /\ Awaits /\ (piping => spc = "piping")
  BY <1>2, <1>3, <1>4 DEF Answered, TurnInv, TurnBase
<1>6. ASSUME ServerFails("failed") \/ ServerFails("refused") PROVE FALSE
  BY <1>4, <1>6 DEF ServerFails, Over
<1>7. ~piping /\ wire["client"] = Due /\ pending["client"] = <<>>
  <2>1. spc # "piping"
    BY DEF ServerActs, RouteConnection, ServerWaitMethod, ServerWaitUserPass, ServerWaitRequest,
           ServerWaitHello, ServerTimeout, ConnectTarget, SendResponse, StartPipe
  <2>q. QED BY <1>5, <2>1 DEF Awaits
<1>8. ASSUME NEW m, Write("client", m), wire["client"] = <<>>, m \in Seq(Told) PROVE wire'["client"] = m
  BY <1>1, <1>8 DEF Write, Streams
<1>9. /\ \A m \in {NoAuth, UserPass} : MethodMsg(m) \in Seq(Told)
      /\ AuthMsg \in Seq(Told) /\ ResponseMsg(reply) \in Seq(Told)
  BY <1>1, ServerMessages DEF AgreeInv, ServerAgrees
<1>10. CASE RouteConnection(n)
  <2>1. spc = "route" /\ spc' \in {"waitMethod", "waitHello"} /\ UNCHANGED <<pending, wire, piping, method, reply>>
    BY <1>6, <1>10 DEF RouteConnection, NoHandler, ServerSame
  <2>2. Due = <<>> /\ Due' = <<>>
    BY <2>1 DEF Due
  <2>q. QED BY <1>2, <1>7, <2>1, <2>2 DEF Awaits
<1>11. ASSUME NEW kind \in Messages, Holds(Stream, kind), ServerTakes(n), ServerSame, spc \in Negotiating
       PROVE  Stream # <<>>
  <2>1. PutBack
    BY <1>5, <1>11 DEF TurnInv, InTurn
  <2>q. QED BY <1>4, <1>11, <2>1, ServerHears
<1>12. CASE ServerWaitMethod(n)
  <2>1. spc = "waitMethod" /\ ServerTakes(n) /\ ServerSame /\ spc \in Negotiating
    BY <1>12 DEF ServerWaitMethod, Negotiating
  <2>2. cfg.version = 5 /\ cpc # "done" /\ UNCHANGED piping
    BY <1>1, <2>1, NobodyDone DEF ServerSame
  <2>3. cpc \in {"start", "waitMethod"} /\ (cpc = "start" => Stream = <<>>) /\ Holds(Stream, "methods")
    BY <1>4, <1>5, <2>1, <2>2 DEF TurnInv, InTurn, Turns, TurnOf, NothingSent, Lost
  <2>4. cpc = "waitMethod"
    BY <1>11, <2>1, <2>3 DEF Messages
  <2>5. Due = <<>>
    BY <2>1 DEF Due
  <2>6. PICK m \in {NoAuth, UserPass} : ReplyMethod(m) /\ UNCHANGED pending
    <3>1. Common # {} /\ UNCHANGED pending
          /\ ReplyMethod(cfg.cm[CHOOSE i \in Common : \A j \in Common : i <= j])
      BY <1>6, <1>12 DEF ServerWaitMethod
    <3>2. cfg.cm[CHOOSE i \in Common : \A j \in Common : i <= j] \in {NoAuth, UserPass}
      BY <1>1, <3>1, FirstCommon DEF AgreeInv, AuthInv
    <3>q. QED BY <3>1, <3>2
  <2>7. wire'["client"] = MethodMsg(m) /\ method' = m /\ spc' \in {"waitUserPass", "waitRequest"}
    BY <1>7, <1>8, <1>9, <2>5, <2>6 DEF ReplyMethod
  <2>8. Due' = MethodMsg(m)
    BY <1>2, <2>4, <2>7 DEF Due
  <2>q. QED BY <1>2, <1>7, <2>2, <2>6, <2>7, <2>8 DEF Awaits
<1>13. CASE ServerWaitUserPass(n)
  <2>1. spc = "waitUserPass" /\ ServerTakes(n) /\ ServerSame /\ spc \in Negotiating
    BY <1>13 DEF ServerWaitUserPass, Negotiating
  <2>2. UNCHANGED <<piping, pending>> /\ Write("client", AuthMsg) /\ spc' = "waitRequest"
    BY <1>6, <1>13 DEF ServerWaitUserPass, ServerSame
  <2>3. cpc \in {"waitMethod", "waitAuth"} /\ (cpc = "waitMethod" => Stream = <<>>) /\ Holds(Stream, "userpass")
    BY <1>4, <1>5, <2>1 DEF TurnInv, InTurn, Turns, TurnOf, NothingSent, Lost
  <2>4. cpc = "waitAuth"
    BY <1>11, <2>1, <2>3 DEF Messages
  <2>5. Due = <<>> /\ Due' = AuthMsg
    BY <1>2, <2>1, <2>2, <2>4 DEF Due
  <2>6. wire'["client"] = AuthMsg
    BY <1>7, <1>8, <1>9, <2>2, <2>5
  <2>q. QED BY <1>2, <1>7, <2>2, <2>5, <2>6 DEF Awaits
<1>14. CASE ServerWaitRequest(n) \/ ServerWaitHello(n)
  <2>1. spc \in {"waitRequest", "waitHello"} /\ ServerTakes(n) /\ ServerSame /\ spc \in Negotiating
    BY <1>14 DEF ServerWaitRequest, ServerWaitHello, Negotiating
  <2>2. UNCHANGED <<piping, pending, wire>> /\ spc' = "connecting"
    BY <1>4, <1>6, <1>14 DEF ServerWaitRequest, ServerWaitHello, ServerSame, AfterRequest, Over
  <2>3. PICK kind \in {"request", "hello"} :
          /\ cpc \in {"start", "waitMethod", "waitAuth", "waitResponse"}
          /\ cpc # "waitResponse" => Stream = <<>>
          /\ Holds(Stream, kind)
    <3>1. CASE spc = "waitRequest"
      BY <1>4, <1>5, <2>1, <3>1 DEF TurnInv, InTurn, Turns, TurnOf, NothingSent, Lost
    <3>2. CASE spc = "waitHello"
      <4>1. cfg.version # 5
        BY <1>1, <2>1, <3>2, NobodyDone
      <4>q. QED BY <1>4, <1>5, <2>1, <3>2, <4>1 DEF TurnInv, InTurn, Turns, TurnOf, NothingSent, Lost
    <3>q. QED BY <2>1, <3>1, <3>2
  <2>4. cpc = "waitResponse"
    BY <1>11, <2>1, <2>3 DEF Messages
  <2>5. Due = <<>> /\ Due' = <<>>
    BY <1>2, <2>1, <2>2, <2>4 DEF Due
  <2>q. QED BY <1>2, <1>7, <2>2, <2>4, <2>5 DEF Awaits
<1>15. CASE ServerTimeout
  BY <1>6, <1>15 DEF ServerTimeout
<1>16. CASE ConnectTarget
  <2>1. /\ spc = "connecting" /\ spc' \in {"responding", "waitUpstream"}
        /\ UNCHANGED <<piping, pending, wire>> /\ cpc = "waitResponse"
    BY <1>5, <1>6, <1>16 DEF ConnectTarget, ConnectFromLocal, ProxyRequestTarget, Awaits
  <2>2. Due = <<>> /\ Due' = <<>>
    BY <2>1 DEF Due
  <2>q. QED BY <1>2, <1>7, <2>1, <2>2 DEF Awaits
<1>17. CASE SendResponse
  <2>1. /\ spc = "responding" /\ spc' = "responded" /\ UNCHANGED <<piping, pending, reply>>
        /\ Write("client", ResponseMsg(reply))
    BY <1>6, <1>17 DEF SendResponse
  <2>2. cpc = "waitResponse" /\ Due = <<>>
    BY <1>5, <2>1 DEF Awaits, Due
  <2>3. wire'["client"] = ResponseMsg(reply) /\ Due' = ResponseMsg(reply)
    BY <1>2, <1>7, <1>8, <1>9, <2>1, <2>2 DEF Due
  <2>q. QED BY <1>2, <1>7, <2>1, <2>2, <2>3 DEF Awaits
<1>18. CASE StartPipe
  <2>1. spc = "responded" /\ spc' = "piping" /\ UNCHANGED <<pending, wire, reply, method>> /\ piping'
    BY <1>6, <1>18 DEF StartPipe
  <2>2. Due' = Due /\ wire'["client"] = Due /\ pending'["client"] = <<>>
    BY <1>2, <1>7, <2>1 DEF Due
  <2>3. Begins(Due, Due)
    <3>1. Len(Due) \in Nat
      BY AnswerLengths DEF Due
    <3>q. QED BY <3>1 DEF Begins
  <2>4. AllData(<<>>)
    BY DEF AllData
  <2>q. QED BY <1>2, <1>5, <2>1, <2>2, <2>3, <2>4 DEF Awaits
<1>q. QED BY <1>10, <1>12, <1>13, <1>14, <1>15, <1>16, <1>17, <1>18 DEF ServerActs

(* The server behind.                                                         *)
LEMMA UpstreamAnswered ==
  ASSUME TurnInv, UpstreamAhead, Answered, NEW n, UpstreamResponse(n) \/ UpstreamUnheard PROVE Answered'
<1>1. /\ UNCHANGED <<got, cpc, wire, method, reply, piping>> /\ (harmed => harmed') /\ spc \notin Over
  <2>1. CASE UpstreamResponse(n)
    <3>1. UNCHANGED <<got, cpc, wire, method, reply, piping>> /\ spc \notin Over
      BY <2>1 DEF UpstreamResponse, ServerSame, Over
    <3>2. harmed => harmed'
      BY <2>1 DEF UpstreamResponse
    <3>q. QED BY <3>1, <3>2
  <2>2. CASE UpstreamUnheard
    BY <2>2 DEF UpstreamUnheard, Over
  <2>q. QED BY <2>1, <2>2
<1>2. SUFFICES ASSUME ~harmed', spc' \notin Over
               PROVE  AllData(got) /\ (~piping => got = <<>>) /\ (cpc \notin Lost => Awaits')
  BY <1>1 DEF Answered
<1>3. AllData(got) /\ (~piping => got = <<>>) /\ (cpc \notin Lost => Awaits)
  BY <1>1, <1>2 DEF Answered
<1>4. CASE UpstreamResponse(n)
  <2>1. spc = "waitUpstream" /\ spc' = "responding" /\ UNCHANGED pending
    BY <1>2, <1>4, UpstreamLeaves DEF TurnInv, UpstreamResponse
  <2>2. ~piping /\ Due = <<>> /\ Due' = <<>>
    BY <2>1 DEF Due, TurnInv, TurnBase
  <2>q. QED BY <1>1, <1>3, <2>1, <2>2 DEF Awaits
<1>5. CASE UpstreamUnheard
  <2>1. UNCHANGED <<spc, pending>>
    BY <1>5 DEF UpstreamUnheard
  <2>2. Due' = Due
    BY <1>1, <2>1 DEF Due
  <2>q. QED BY <1>1, <1>3, <2>1, <2>2 DEF Awaits
<1>q. QED BY <1>4, <1>5

LEMMA BeginsMore ==
  ASSUME NEW T, NEW units \in Seq(T), NEW u \in T, Payload(u), NEW due, Len(due) \in Nat, Begins(units, due)
  PROVE  Begins(Append(units, u), due)
<1>1. /\ Len(Append(units, u)) = Len(units) + 1 /\ Len(units) \in Nat /\ Append(units, u)[Len(units) + 1] = u
      /\ \A i \in 1..Len(units) : Append(units, u)[i] = units[i]
  BY AppendProperties
<1>2. 1..Len(due) \subseteq 1..Len(units)
  BY <1>1 DEF Begins
<1>3. \A i \in 1..Len(units) + 1 : i \in 1..Len(units) \/ i = Len(units) + 1
  BY <1>1
<1>q. QED BY <1>1, <1>2, <1>3 DEF Begins

(* The ends and the pipe.                                                     *)
LEMMA OthersAnswered ==
  ASSUME TurnInv, EndsInv, Quiet, Answered,
         \/ \E e \in Sides : \/ \E limit : EndSends(e, limit)
                             \/ EndLeaves(e) \/ EndBeforePipe(e) \/ ResetBeforePipe(e)
         \/ PipeNext /\ UNCHANGED socksVars
  PROVE  Answered'
<1>1. AgreeInv /\ Streams /\ "client" \in Sides /\ "remote" \in Sides /\ Other("client") = "remote"
      /\ \A s \in Sides : Other(s) \in Sides /\ (Other(s) = "client" => s = "remote")
  <2>1. AgreeInv
    BY DEF TurnInv
  <2>q. QED BY <2>1, StreamsAre DEF Other
<1>2. ASSUME NEW e \in Sides,
             \/ \E limit : EndSends(e, limit)
             \/ EndLeaves(e) \/ EndBeforePipe(e) \/ ResetBeforePipe(e)
      PROVE  Answered'
  <2>1. /\ UNCHANGED <<got, harmed, wire, method, reply, piping>>
        /\ spc' = spc \/ spc' \in Over
        /\ cpc' = cpc \/ cpc' \in Lost
    BY <1>2 DEF EndSends, EndLeaves, EndBeforePipe, ResetBeforePipe, socksVars, Over, Lost
  <2>2. pending'["client"] = pending["client"] \/ cpc' \in Lost
    <3>1. CASE ResetBeforePipe(e)
      BY <1>1, <3>1 DEF ResetBeforePipe, Destroy, Lost, Sides
    <3>2. CASE ~ResetBeforePipe(e)
      BY <1>2, <3>2 DEF EndSends, EndLeaves, EndBeforePipe
    <3>q. QED BY <3>1, <3>2
  <2>3. CASE spc' = spc /\ cpc' = cpc /\ pending'["client"] = pending["client"]
    <3>1. Due' = Due
      BY <2>1, <2>3 DEF Due
    <3>q. QED BY <2>1, <2>3, <3>1 DEF Answered, Awaits
  <2>4. CASE cpc' \in Lost \/ spc' \in Over
    BY <2>1, <2>4 DEF Answered
  <2>q. QED BY <2>1, <2>2, <2>3, <2>4
<1>3. ASSUME PipeNext, UNCHANGED socksVars PROVE Answered'
  <2>1. UNCHANGED <<got, harmed, method, reply, spc, cpc>> /\ Due' = Due
    BY <1>3 DEF socksVars, Due
  <2>0. piping' = piping
    <3>1. CASE \E s \in Sides : Forward(s) \/ PeerEnded(s) \/ PipelineDone(s) \/ PipeError(s)
      BY <3>1 DEF Forward, PeerEnded, PipelineDone, PipeError
    <3>2. CASE \E s \in Sides : Flush(s) \/ Finish(s) \/ SocketClosed(s)
      BY <3>2 DEF Flush, Finish, SocketClosed
    <3>3. CASE GraceOver \/ IdleTimeout
      BY <3>3 DEF GraceOver, IdleTimeout
    <3>q. QED BY <1>3, <3>1, <3>2, <3>3 DEF PipeNext
  <2>2. SUFFICES ASSUME ~harmed, spc \notin Over, cpc \notin Lost, Awaits PROVE Awaits'
    BY <2>1, <2>0 DEF Answered
  <2>3. /\ wire["client"] \in Seq(Told) /\ pending["client"] \in Seq(Told) /\ inbox["remote"] \in Seq(Told)
        /\ Len(Due) \in Nat
    <3>1. Len(Due) \in Nat
      BY AnswerLengths DEF Due
    <3>q. QED BY <1>1, <2>1, <3>1 DEF Streams
  <2>4. ASSUME UNCHANGED <<piping, wire>>, pending'["client"] = pending["client"] \/ pending'["client"] = <<>>
        PROVE  Awaits'
    <3>1. AllData(<<>>)
      BY DEF AllData
    <3>q. QED BY <2>1, <2>2, <2>4, <3>1 DEF Awaits
  <2>5. ASSUME CloseBoth PROVE pending'["client"] = <<>>
    BY <1>1, <2>5 DEF CloseBoth, Destroy
  <2>6. ASSUME piping, piping', wire'["client"] \in {wire["client"], Append(wire["client"], FIN)},
               pending'["client"] = pending["client"]
        PROVE  Awaits'
    <3>1. Begins(Append(wire["client"], FIN), Due)
      BY <1>1, <2>2, <2>3, <2>6, StreamsAre, BeginsMore DEF Awaits, Payload
    <3>q. QED BY <2>1, <2>2, <2>6, <3>1 DEF Awaits
  <2>7. ASSUME NEW e \in Sides, Forward(e) PROVE Awaits'
    <3>1. /\ piping /\ piping' /\ UNCHANGED wire /\ inbox[e] # <<>> /\ Head(inbox[e]) # FIN
          /\ CloseBoth \/ pending' = [pending EXCEPT ![Other(e)] = Append(@, Head(inbox[e]))]
      BY <2>7 DEF Forward
    <3>2. CASE e = "client"
      <4>1. pending'["client"] = pending["client"] \/ pending'["client"] = <<>>
        BY <1>1, <2>5, <3>1, <3>2 DEF Streams
      <4>q. QED BY <2>4, <3>1, <4>1
    <3>3. CASE e = "remote"
      <4>1. pending'["client"] = <<>> \/ pending'["client"] = Append(pending["client"], Head(inbox["remote"]))
        BY <1>1, <2>5, <3>1, <3>3 DEF Streams, Other
      <4>2. IsData(Head(inbox["remote"])) /\ Head(inbox["remote"]) \in Told
        <5>1. 1 \in 1..Len(inbox["remote"]) /\ Head(inbox["remote"]) = inbox["remote"][1]
          BY <2>3, <3>1, <3>3
        <5>2. FromTarget(inbox["remote"]) /\ spc # "waitUpstream"
          BY <2>2, <3>1 DEF EndsInv, TurnInv, TurnBase
        <5>q. QED BY <2>3, <3>1, <3>3, <5>1, <5>2 DEF FromTarget, Payload
      <4>3. AllData(<<>>) /\ AllData(Append(pending["client"], Head(inbox["remote"])))
        <5>1. AllData(pending["client"])
          BY <2>2, <3>1 DEF Awaits
        <5>q. QED BY <2>3, <4>2, <5>1, AppendProperties DEF AllData
      <4>q. QED BY <2>1, <2>2, <3>1, <4>1, <4>3 DEF Awaits
    <3>q. QED BY <3>2, <3>3 DEF Sides
  <2>8. ASSUME NEW e \in Sides, Flush(e) PROVE Awaits'
    <3>1. /\ pending[e] # <<>> /\ wire' = [wire EXCEPT ![e] = Append(@, Head(pending[e]))]
          /\ pending' = [pending EXCEPT ![e] = Tail(@)] /\ UNCHANGED piping
      BY <2>8 DEF Flush
    <3>2. CASE e = "remote"
      <4>1. wire'["client"] = wire["client"] /\ pending'["client"] = pending["client"]
        BY <1>1, <3>1, <3>2 DEF Streams
      <4>q. QED BY <2>1, <2>2, <3>1, <4>1 DEF Awaits
    <3>3. CASE e = "client"
      <4>1. /\ wire'["client"] = Append(wire["client"], Head(pending["client"])) /\ pending["client"] # <<>>
            /\ pending'["client"] = Tail(pending["client"])
        BY <1>1, <3>1, <3>3 DEF Streams
      <4>2. piping /\ AllData(pending["client"]) /\ Begins(wire["client"], Due)
        BY <2>2, <4>1 DEF Awaits
      <4>3. /\ Head(pending["client"]) = pending["client"][1] /\ 1 \in 1..Len(pending["client"])
            /\ Head(pending["client"]) \in Told
            /\ \A i \in 1..Len(Tail(pending["client"])) :
                  Tail(pending["client"])[i] = pending["client"][i + 1] /\ i + 1 \in 1..Len(pending["client"])
        BY <2>3, <4>1
      <4>4. AllData(pending'["client"]) /\ Payload(Head(pending["client"]))
        BY <4>1, <4>2, <4>3 DEF AllData, Payload
      <4>5. Begins(wire'["client"], Due)
        BY <2>3, <4>1, <4>2, <4>3, <4>4, BeginsMore
      <4>q. QED BY <2>1, <2>2, <3>1, <4>2, <4>4, <4>5 DEF Awaits
    <3>q. QED BY <3>2, <3>3 DEF Sides
  <2>9. ASSUME NEW e \in Sides, Finish(e) PROVE Awaits'
    <3>1. e \in ending /\ wire' = [wire EXCEPT ![e] = Append(@, FIN)] /\ UNCHANGED <<pending, piping>>
      BY <2>9 DEF Finish
    <3>2. CASE e = "remote"
      <4>1. wire'["client"] = wire["client"]
        BY <1>1, <3>1, <3>2 DEF Streams
      <4>q. QED BY <2>1, <2>2, <3>1, <4>1 DEF Awaits
    <3>3. CASE e = "client"
      <4>1. piping
        BY <2>2, <3>1, <3>3 DEF Quiet, Lost
      <4>2. wire'["client"] = Append(wire["client"], FIN)
        BY <1>1, <3>1, <3>3 DEF Streams
      <4>q. QED BY <2>6, <3>1, <4>1, <4>2
    <3>q. QED BY <3>2, <3>3 DEF Sides
  <2>10. ASSUME NEW e \in Sides, PeerEnded(e) \/ PipelineDone(e) \/ SocketClosed(e) \/ PipeError(e) PROVE Awaits'
    <3>1. UNCHANGED <<piping, wire>> /\ (UNCHANGED pending \/ CloseBoth)
      BY <2>10 DEF PeerEnded, PipelineDone, SocketClosed, PipeError
    <3>q. QED BY <2>4, <2>5, <3>1
  <2>11. ASSUME GraceOver \/ IdleTimeout PROVE Awaits'
    BY <2>4, <2>5, <2>11 DEF GraceOver, IdleTimeout
  <2>q. QED BY <1>3, <2>7, <2>8, <2>9, <2>10, <2>11 DEF PipeNext
<1>q. QED BY <1>2, <1>3

(* What the target has sent, however the steps go.                            *)
Carried == \E r \in Nat : Carries(got, unheard, r) /\ (cpc \notin Lost => Flow("remote", r))

LEMMA UnheardFlows ==
  ASSUME TurnInv, TurnInv', EndsInv, Quiet, Answered, Carried, ~harmed, UpstreamUnheard PROVE Carried'
<1>1. /\ spc = "responded" /\ "remote" \notin destroyed /\ inbox["remote"] # <<>> /\ Head(inbox["remote"]) # FIN
      /\ inbox' = [inbox EXCEPT !["remote"] = Tail(@)] /\ unheard' = unheard + 1
      /\ UNCHANGED <<wire, pending, destroyed, cpc, got, sent>>
  BY DEF UpstreamUnheard
<1>2. /\ AgreeInv /\ Streams /\ "client" \in Sides /\ "remote" \in Sides /\ Other("remote") = "client"
      /\ unheard \in Nat /\ sent["remote"] \in Nat
  <2>1. AgreeInv
    BY DEF TurnInv
  <2>q. QED BY <2>1, StreamsAre DEF Streams, EndsInv, Other
<1>3. ~piping /\ got = <<>> /\ spc \notin Over /\ (cpc \notin Lost => Awaits)
  BY <1>1 DEF TurnInv, TurnBase, Answered, Over
<1>4. /\ NoData(<<>>) /\ <<>> \in Seq(Told)
      /\ \A a, b \in Nat : Carries(<<>>, a, b) <=> a = b
  <2>1. NoData(<<>>) /\ <<>> \in Seq(Told)
    BY DEF NoData
  <2>q. QED BY <2>1, CarriesNothing
<1>5. PICK r \in Nat : Carries(got, unheard, r) /\ (cpc \notin Lost => Flow("remote", r))
  BY DEF Carried
<1>6. r = unheard /\ r + 1 \in Nat /\ Carries(got', unheard', r + 1)
  BY <1>1, <1>2, <1>3, <1>4, <1>5
<1>7. ASSUME cpc \notin Lost PROVE Flow("remote", r + 1)'
  <2>1. Intact
    BY <1>1, <1>3, <1>7 DEF Intact, Quiet, Lost
  <2>2. PICK p \in r..sent["remote"], q \in r..sent["remote"] :
           /\ Carries(wire["client"], r, p) /\ Carries(pending["client"], p, q)
           /\ Carries(inbox["remote"], q, sent["remote"])
    BY <1>2, <1>5, <1>7, <2>1 DEF Flow
  <2>3. NoData(wire["client"]) /\ wire["client"] \in Seq(Told) /\ pending["client"] = <<>>
    <3>1. wire["client"] = Due /\ pending["client"] = <<>>
      BY <1>3, <1>7 DEF Awaits
    <3>2. NoData(ResponseMsg(reply))
      BY NoDataInMessages DEF ResponseMsg, Size
    <3>3. Due = ResponseMsg(reply) \/ Due = <<>>
      BY <1>1 DEF Due
    <3>q. QED BY <1>2, <1>4, <3>1, <3>2, <3>3 DEF Streams
  <2>4. p = r /\ q = r /\ Carries(wire["client"], r + 1, r + 1) /\ Carries(pending["client"], r + 1, r + 1)
    <3>1. p \in Nat /\ q \in Nat
      BY <1>2
    <3>2. \A a, b \in Nat : Carries(wire["client"], a, b) <=> a = b
      BY <2>3, CarriesNothing
    <3>q. QED BY <1>4, <1>6, <2>2, <2>3, <3>1, <3>2
  <2>5. inbox["remote"] \in Seq(Told) /\ IsData(inbox["remote"][1]) /\ inbox'["remote"] = Tail(inbox["remote"])
    <3>1. inbox["remote"] \in Seq(Told)
      BY <1>2 DEF Streams
    <3>2. 1 \in 1..Len(inbox["remote"]) /\ inbox["remote"][1] # FIN
      BY <1>1, <3>1
    <3>3. FromTarget(inbox["remote"]) /\ spc # "waitUpstream"
      BY <1>1, <1>3 DEF EndsInv
    <3>4. IsData(inbox["remote"][1])
      BY <3>2, <3>3 DEF FromTarget, Payload
    <3>5. inbox'["remote"] = Tail(inbox["remote"])
      BY <1>1, <1>2 DEF Streams
    <3>q. QED BY <3>1, <3>4, <3>5
  <2>6. Carries(inbox'["remote"], r + 1, sent["remote"])
    <3>1. Carries(SubSeq(inbox["remote"], 2, Len(inbox["remote"])), r + 1, sent["remote"])
      BY <1>1, <2>2, <2>4, <2>5, CarriesFirst
    <3>2. Tail(inbox["remote"]) = SubSeq(inbox["remote"], 2, Len(inbox["remote"]))
      BY <1>1, <2>5
    <3>q. QED BY <2>5, <3>1, <3>2
  <2>7. r + 1 \in r + 1..sent'["remote"]
    <3>1. r + 1 <= sent["remote"]
      BY <2>6 DEF Carries
    <3>q. QED BY <1>1, <1>2, <1>6, <3>1
  <2>q. QED BY <1>1, <1>2, <2>4, <2>6, <2>7 DEF Flow
<1>q. QED BY <1>1, <1>6, <1>7 DEF Carried

LEMMA DownStep ==
  ASSUME TurnInv, TurnInv', UpstreamAhead, EndsInv, Quiet, Answered, Down, SocksNext PROVE Down'
<1>1. AgreeInv /\ AgreeInv' /\ "client" \in Sides /\ "remote" \in Sides /\ Streams
  BY StreamsAre DEF TurnInv
<1>2. SUFFICES ASSUME ~harmed'
               PROVE  Carried'
  BY DEF Down, Carried
<1>3. ASSUME ~harmed, UNCHANGED <<got, unheard>>,
             cpc' \notin Lost => cpc \notin Lost,
             \A r \in Nat : Flow("remote", r) /\ cpc' \notin Lost => Flow("remote", r)'
      PROVE  Carried'
  <2>1. PICK r \in Nat : Carries(got, unheard, r) /\ (cpc \notin Lost => Flow("remote", r))
    BY <1>3 DEF Down
  <2>q. QED BY <1>3, <2>1 DEF Carried
<1>4. sent["remote"] \in Nat
  BY <1>1 DEF Streams
<1>5. CASE ClientReads
  <2>1. /\ got' = Append(got, Head(wire["client"])) /\ wire' = [wire EXCEPT !["client"] = Tail(@)]
        /\ UNCHANGED <<inbox, pending, sent, destroyed, unheard>> /\ cpc = "done" /\ wire["client"] # <<>> /\ ~harmed
    BY <1>2, <1>5 DEF ClientReads
  <2>2. PICK r \in Nat : Carries(got, unheard, r) /\ Flow("remote", r)
    BY <2>1 DEF Down, Lost
  <2>3. PICK p \in r..sent["remote"], q \in r..sent["remote"] :
           /\ Carries(wire["client"], r, p) /\ Carries(pending["client"], p, q)
           /\ Intact => Carries(inbox["remote"], q, sent["remote"])
    BY <2>2 DEF Flow, Other
  <2>4. got \in Seq(Units \cup Answers) /\ wire["client"] \in Seq(Units \cup Answers)
    <3>1. wire["client"] \in Seq(Told)
      BY <1>1 DEF Streams
    <3>2. Told \subseteq Units \cup Answers
      BY DEF Told
    <3>q. QED BY <3>1, <3>2 DEF EndsInv
  <2>5. PICK m \in unheard..p : Carries(got', unheard, m) /\ Carries(Tail(wire["client"]), m, p)
    BY <2>1, <2>2, <2>3, <2>4, CarriesHandedOn
  <2>6. wire'["client"] = Tail(wire["client"])
    BY <1>1, <2>1 DEF Streams
  <2>7. /\ m \in Nat /\ p \in m..sent'["remote"] /\ q \in m..sent'["remote"]
    <3>1. p <= q
      BY <2>3 DEF Carries
    <3>2. unheard \in Nat
      BY DEF EndsInv
    <3>q. QED BY <1>4, <2>1, <2>2, <2>3, <2>5, <3>1, <3>2
  <2>8. Flow("remote", m)'
    BY <2>1, <2>3, <2>5, <2>6, <2>7 DEF Flow, Other, Intact
  <2>q. QED BY <2>1, <2>5, <2>7, <2>8 DEF Carried
<1>6. ASSUME NEW n, ClientActs(n), ~ClientReads
      PROVE  Carried'
  <2>1. ~harmed /\ cpc \notin Lost
    BY <1>1, <1>2, <1>6, ClientWrites
  <2>2. UNCHANGED <<got, unheard>>
    BY <1>6 DEF ClientActs, ClientStart, ClientTimeout, ClientWaitMethod, ClientWaitAuth, ClientWaitResponse,
                ClientTakes
  <2>3. cpc' \notin Lost => Keeps(wire["client"], wire'["client"])
    <3>1. CASE ClientStart \/ ClientTimeout
      <4>1. UNCHANGED wire
        BY <3>1 DEF ClientStart, ClientTimeout, pipeVars
      <4>q. QED BY <4>1 DEF Keeps
    <3>2. CASE ClientWaitMethod(n) \/ ClientWaitAuth(n) \/ ClientWaitResponse(n)
      BY <1>1, <1>2, <3>2, WaitKeeps
    <3>q. QED BY <1>6, <3>1, <3>2 DEF ClientActs
  <2>4. \A r \in Nat : Flow("remote", r) /\ cpc' \notin Lost => Flow("remote", r)'
    BY <1>1, <1>6, <2>3, ClientFlows
  <2>q. QED BY <1>3, <2>1, <2>2, <2>4
<1>7. ASSUME NEW n, ServerActs(n)
      PROVE  Carried'
  <2>1. ~harmed /\ UNCHANGED <<got, unheard, cpc>>
    BY <1>1, <1>2, <1>7, ServerWrites
  <2>2. \A r \in Nat : Flow("remote", r) => Flow("remote", r)'
    BY <1>1, <1>7, ServerFlows
  <2>q. QED BY <1>3, <2>1, <2>2
<1>8. ASSUME NEW e \in Sides,
             \/ \E limit : EndSends(e, limit)
             \/ EndLeaves(e) \/ EndBeforePipe(e) \/ ResetBeforePipe(e)
      PROVE  Carried'
  <2>1. ~harmed /\ UNCHANGED <<got, unheard>> /\ (cpc' \notin Lost => cpc \notin Lost)
    BY <1>2, <1>8 DEF EndSends, EndLeaves, EndBeforePipe, ResetBeforePipe, socksVars, Lost
  <2>2. \A r \in Nat : Flow("remote", r) => Flow("remote", r)'
    BY <1>1, <1>8, EndsFlow
  <2>q. QED BY <1>3, <2>1, <2>2
<1>9. ASSUME PipeNext, UNCHANGED socksVars
      PROVE  Carried'
  <2>1. ~harmed /\ UNCHANGED <<got, unheard, cpc, sent>>
    BY <1>2, <1>9 DEF socksVars
  <2>2. \A r \in Nat : Flow("remote", r) => Flow("remote", r)'
    BY <1>1, <1>9, <2>1, PipeFlows
  <2>q. QED BY <1>3, <2>1, <2>2
<1>10. ASSUME NEW n, n \in 1..4 + TargetData, UpstreamResponse(n) PROVE Carried'
  <2>1. UNCHANGED <<got, unheard, cpc>> /\ ~harmed /\ UpstreamSteps
    BY <1>2, <1>10, OverStays DEF UpstreamResponse, ServerSame, UpstreamSteps
  <2>2. Keeps(inbox["remote"], inbox'["remote"])
    <3>1. /\ inbox["remote"] \in Seq(Told) /\ 4 \in 0..Len(inbox["remote"])
          /\ \A i \in 1..4 : ~IsData(inbox["remote"][i])
          /\ inbox'["remote"] = SubSeq(inbox["remote"], 4 + 1, Len(inbox["remote"]))
      BY <1>1, <1>2, <1>10, UpstreamLeaves DEF IsData
    <3>q. QED BY <3>1, CarriesRest DEF Keeps
  <2>3. \A r \in Nat : Flow("remote", r) => Flow("remote", r)'
    BY <1>1, <2>1, <2>2, UpstreamFlows
  <2>q. QED BY <1>3, <2>1, <2>3
<1>11. ASSUME UpstreamUnheard PROVE Carried'
  <2>1. ~harmed
    BY <1>2, OverStays
  <2>2. Carried
    BY <2>1 DEF Down, Carried
  <2>q. QED BY <1>11, <2>1, <2>2, UnheardFlows
<1>q. QED
  BY <1>1, <1>5, <1>6, <1>7, <1>8, <1>9, <1>10, <1>11
  DEF SocksNext, ClientActs, ServerActs, ClientSends, TargetSends

RelayInv == TurnInv /\ UpstreamAhead /\ EndsInv /\ Up /\ Down /\ Quiet /\ Answered

LEMMA RelayInit == SocksInit => RelayInv
<1> SUFFICES ASSUME SocksInit PROVE RelayInv
  OBVIOUS
<1>1. TurnInv /\ AgreeInv /\ Streams /\ "client" \in Sides /\ "remote" \in Sides
  <2>1. TurnInv /\ AgreeInv
    BY TurnInit DEF TurnInv
  <2>q. QED BY <2>1, StreamsAre
<1>2. /\ got = <<>> /\ inbox = [s \in Sides |-> <<>>] /\ wire = [s \in Sides |-> <<>>]
      /\ pending = [s \in Sides |-> <<>>] /\ sent = [s \in Sides |-> 0] /\ ending = {} /\ ~piping
      /\ spc = "route" /\ cpc = "start" /\ unheard = 0 /\ destroyed = {} /\ ~grace
  BY DEF SocksInit, PipeInit
<1>3. Carries(<<>>, 0, 0)
  BY DEF Carries
<1>4. \A s \in Sides : inbox[s] = <<>> /\ wire[s] = <<>> /\ pending[s] = <<>> /\ sent[s] = 0
  BY <1>2
<1>5. EndsInv
  BY <1>1, <1>2, <1>4 DEF EndsInv, FinLast, FromTarget
<1>6. \A s \in Sides : Flow(s, 0)
  <2>1. \A s \in Sides : Other(s) \in Sides
    BY DEF Sides, Other
  <2>q. QED BY <1>3, <1>4, <2>1 DEF Flow
<1>7. Up /\ Down
  BY <1>1, <1>2, <1>3, <1>4, <1>6 DEF Up, Down
<1>8. Quiet /\ Answered
  BY <1>1, <1>2, <1>4 DEF Quiet, Answered, AllData, Awaits, Due
<1>q. QED BY <1>1, <1>5, <1>7, <1>8, UpstreamAheadInit DEF RelayInv

LEMMA RelayStep == RelayInv /\ [SocksNext]_connectionVars => RelayInv'
<1> SUFFICES ASSUME RelayInv, [SocksNext]_connectionVars PROVE RelayInv'
  OBVIOUS
<1>1. TurnInv' /\ UpstreamAhead'
  BY TurnStep, UpstreamAheadStep DEF RelayInv
<1>2. CASE SocksNext
  <2>1. EndsInv' /\ Up' /\ Down' /\ Quiet'
    BY <1>1, <1>2, EndsStep, UpStep, DownStep, QuietStep DEF RelayInv
  <2>2. Answered'
    <3>1. \A n \in 1..4 + TargetData : n \in Nat
      BY DataAssumption
    <3>2. ASSUME NEW n \in Nat, ClientActs(n) PROVE Answered'
      BY <3>2, ClientAnswered DEF RelayInv
    <3>3. ASSUME NEW n \in Nat, ServerActs(n) PROVE Answered'
      BY <1>1, <3>3, ServerAnswered DEF RelayInv
    <3>4. ASSUME \/ \E e \in Sides : \/ \E limit : EndSends(e, limit)
                                     \/ EndLeaves(e) \/ EndBeforePipe(e) \/ ResetBeforePipe(e)
                 \/ PipeNext /\ UNCHANGED socksVars
          PROVE  Answered'
      BY <3>4, OthersAnswered DEF RelayInv
    <3>5. "client" \in Sides /\ "remote" \in Sides /\ 0 \in Nat
      BY DEF Sides
    <3>6. ASSUME NEW n, UpstreamResponse(n) \/ UpstreamUnheard PROVE Answered'
      BY <3>6, UpstreamAnswered DEF RelayInv
    <3>q. QED
      BY <1>2, <3>1, <3>2, <3>3, <3>4, <3>5, <3>6 DEF SocksNext, ClientActs, ServerActs, ClientSends, TargetSends
  <2>q. QED BY <1>1, <2>1, <2>2 DEF RelayInv
<1>3. CASE UNCHANGED connectionVars
  <2>1. UNCHANGED <<inbox, wire, pending, ending, destroyed, piping, cfg, cpc, spc, method, reply, remote, got, sent,
                  harmed, unheard, grace>>
    BY <1>3 DEF connectionVars, pipeVars, socksVars
  <2>2. EndsInv' /\ Quiet'
    BY <2>1, UnitsSame DEF RelayInv, EndsInv, FromTarget, Quiet, Answers
  <2>3. \A s, r : Flow(s, r)' <=> Flow(s, r)
    BY <2>1 DEF Flow, Intact
  <2>4. Up' /\ Down'
    BY <2>1, <2>3 DEF RelayInv, Up, Down
  <2>5. Due' = Due
    BY <2>1 DEF Due
  <2>6. Answered'
    BY <2>1, <2>5 DEF RelayInv, Answered, Awaits
  <2>q. QED BY <1>1, <2>2, <2>4, <2>6 DEF RelayInv
<1>q. QED BY <1>2, <1>3

LEMMA RelayFits == RelayInv => RelayInOrder
<1> SUFFICES ASSUME RelayInv PROVE RelayInOrder
  OBVIOUS
<1>1. AgreeInv /\ Streams /\ "remote" \in Sides
  <2>1. AgreeInv
    BY DEF RelayInv, TurnInv
  <2>q. QED BY <2>1, StreamsAre
<1>2. got \in Seq(Units \cup Answers) /\ wire["remote"] \in Seq(Told)
  BY <1>1 DEF RelayInv, EndsInv, Streams
<1>3. ~harmed => InOrder(got, unheard)
  BY <1>2, CarriedInOrder DEF RelayInv, Down
<1>4. InOrder(wire["remote"], 0)
  <2>1. PICK p : Carries(wire["remote"], 0, p)
    BY DEF RelayInv, Up, Flow, Other
  <2>q. QED BY <1>2, <2>1, CarriedInOrder
<1>5. ~harmed /\ piping => \A i \in DOMAIN got : IsData(got[i])
  <2>1. piping => spc \notin Over
    BY DEF RelayInv, TurnInv, TurnBase, Over
  <2>2. DOMAIN got = 1..Len(got)
    BY <1>2
  <2>q. QED BY <2>1, <2>2 DEF RelayInv, Answered, AllData
<1>6. unheard > 0 => cfg.route = "v5"
  BY DEF RelayInv, EndsInv
<1>q. QED BY <1>3, <1>4, <1>5, <1>6 DEF RelayInOrder

(* However the configurations are, however many chunks either end sends and   *)
(* whatever the network, the timers and the ends do in between: the target    *)
(* receives the client's chunks in order and from the first one; the client   *)
(* receives the target's in order and without a gap if the negotiations'      *)
(* messages came one by one, and from the first one unless a server of        *)
(* version 5 is behind this one, where a beginning that came before anybody   *)
(* listened is lost (client.ts:43, server.ts:142, pipeSocket, the waits of v5 *)
(* and vc1).                                                                  *)
THEOREM ChunksInOrder == SocksSpec => []RelayInOrder
BY RelayInit, RelayStep, RelayFits, PTL DEF SocksSpec

-----------------------------------------------------------------------------
(* http-proxy                                                                *)

Hop == [host : Hosts, method : {"POST", "GET"}, headers : SUBSET {"authorization", "content-type"}]

(* There is a hop while the request is under way, and the headers object has  *)
(* lost what its last hop has lost, or more.                                  *)
HopsInv ==
  /\ hops \in Seq(Hop)
  /\ headers \in SUBSET {"authorization", "content-type"}
  /\ conn = "open" => hops # <<>>
  /\ hops # <<>> => ("authorization" \in headers => "authorization" \in hops[Len(hops)].headers)

SecretsInv == HopsInv /\ NoSecretsAcross

LEMMA SecretsInit == Init => SecretsInv
<1> SUFFICES ASSUME Init PROVE SecretsInv
  OBVIOUS
<1>1. hops = <<>> /\ headers = {} /\ conn = "none"
  BY DEF Init
<1>2. hops \in Seq(Hop) /\ DOMAIN hops = {}
  BY <1>1
<1>q. QED BY <1>1, <1>2 DEF SecretsInv, HopsInv, NoSecretsAcross

(* The first hop is the request itself.                                       *)
LEMMA PrepareKeepsSecrets ==
  ASSUME SecretsInv, Prepare
  PROVE  SecretsInv'
<1>1. ProxyRequest \in Hop /\ ProxyRequest' = ProxyRequest
  <2>1. options' = options
    BY DEF Prepare
  <2>2. ProxyRequest' = ProxyRequest
    BY <2>1 DEF ProxyRequest
  <2>3. (IF options.urlRewrite THEN "B" ELSE "A") \in Hosts
    BY DEF Hosts
  <2>q. QED BY <2>2, <2>3 DEF ProxyRequest, Hop
<1>2. hops' = <<ProxyRequest>> /\ headers' = ProxyRequest.headers
  BY DEF Prepare
<1>3. HopsInv'
  BY <1>1, <1>2 DEF HopsInv, ProxyRequest
<1>4. NoSecretsAcross'
  BY <1>1, <1>2 DEF NoSecretsAcross
<1>q. QED BY <1>3, <1>4 DEF SecretsInv

(* Another hop carries credentials only if the one before it did and was to   *)
(* the same host: then all before it were to the host the request was for.    *)
LEMMA RedirectKeepsSecrets ==
  ASSUME SecretsInv, NEW code \in Codes, NEW to \in Hosts, FollowRedirect(code, to)
  PROVE  SecretsInv'
<1> DEFINE last == hops[Len(hops)]
           next == [host |-> to, method |-> IF code = 301 THEN "GET" ELSE last.method,
                    headers |-> KeptHeaders(code, last.host, to)]
<1>1. hops # <<>> /\ hops \in Seq(Hop) /\ Len(hops) \in Nat \ {0} /\ Last(hops) = last /\ last \in Hop
  BY DEF SecretsInv, HopsInv, FollowRedirect, Last
<1>2. /\ headers' = KeptHeaders(code, last.host, to)
      /\ hops' = hops \/ hops' = Append(hops, next)
      /\ options' = options
  BY <1>1 DEF FollowRedirect
<1>3. /\ KeptHeaders(code, last.host, to) \subseteq headers
      /\ "authorization" \in KeptHeaders(code, last.host, to) => to = last.host
  BY DEF KeptHeaders
<1>4. headers' \in SUBSET {"authorization", "content-type"}
  BY <1>2, <1>3 DEF SecretsInv, HopsInv
<1>5. ProxyRequest' = ProxyRequest
  BY <1>2 DEF ProxyRequest
<1>6. CASE hops' = hops
  <2>1. HopsInv'
    BY <1>1, <1>2, <1>3, <1>4, <1>6 DEF SecretsInv, HopsInv
  <2>2. NoSecretsAcross'
    BY <1>5, <1>6 DEF SecretsInv, NoSecretsAcross
  <2>q. QED BY <2>1, <2>2 DEF SecretsInv
<1>7. CASE hops' = Append(hops, next)
  <2>1. next \in Hop
    <3>1. (IF code = 301 THEN "GET" ELSE last.method) \in {"POST", "GET"}
      BY <1>1 DEF Hop
    <3>q. QED BY <1>2, <1>4, <3>1 DEF Hop
  <2>2. /\ hops' \in Seq(Hop) /\ Len(hops') = Len(hops) + 1 /\ hops'[Len(hops')] = next
        /\ \A k \in 1..Len(hops) : hops'[k] = hops[k]
    BY <1>1, <1>7, <2>1
  <2>3. HopsInv'
    BY <1>2, <1>4, <2>2 DEF HopsInv
  <2>4. ASSUME NEW k \in DOMAIN hops', "authorization" \in hops'[k].headers, NEW j \in 1..k
        PROVE  hops'[j].host = ProxyRequest.host
    <3>1. CASE k \in 1..Len(hops)
      BY <1>1, <2>2, <2>4, <3>1 DEF SecretsInv, NoSecretsAcross
    <3>2. CASE k = Len(hops) + 1
      <4>1. "authorization" \in headers /\ to = last.host
        BY <1>3, <2>2, <2>4, <3>2
      <4>2. "authorization" \in last.headers
        BY <1>1, <4>1 DEF SecretsInv, HopsInv
      <4>3. \A i \in 1..Len(hops) : hops[i].host = ProxyRequest.host
        BY <1>1, <4>2 DEF SecretsInv, NoSecretsAcross
      <4>q. QED BY <1>1, <2>2, <3>2, <4>1, <4>3
    <3>q. QED BY <1>1, <2>2, <3>1, <3>2
  <2>5. NoSecretsAcross'
    BY <1>5, <2>4 DEF NoSecretsAcross
  <2>q. QED BY <2>3, <2>5 DEF SecretsInv
<1>q. QED BY <1>2, <1>6, <1>7

(* No other step sends a request or touches the headers.                      *)
LEMMA OthersKeepSecrets ==
  ASSUME SecretsInv, UNCHANGED <<options, hops, headers>>, conn' = "open" => conn = "open"
  PROVE  SecretsInv'
<1>1. ProxyRequest' = ProxyRequest
  BY DEF ProxyRequest
<1>2. HopsInv'
  <2>1. hops' = hops /\ headers' = headers
    OBVIOUS
  <2>2. conn = "open" => hops # <<>>
    BY DEF SecretsInv, HopsInv
  <2>3. conn' = "open" => hops' # <<>>
    BY <2>1, <2>2
  <2>q. QED BY <2>1, <2>3 DEF SecretsInv, HopsInv
<1>3. NoSecretsAcross'
  BY <1>1 DEF SecretsInv, NoSecretsAcross
<1>q. QED BY <1>2, <1>3 DEF SecretsInv

LEMMA OthersLeaveHops ==
  ASSUME \/ PrepareFails \/ UploadRead \/ ClientLeaves \/ IncomingTimeout \/ ProxyTimeout
         \/ \E code \in Failures : TargetFails(code)
         \/ AnswerCut \/ RedirectMalformed
         \/ \E to \in {"", "A", Malformed} : Response(to)
         \/ Processed \/ ProcessedLate \/ ProcessingFails \/ Chunk \/ BodyEnds
         \/ Upgrade \/ Tunnel \/ ClientResets \/ TunnelEnds \/ OtherRequest \/ Tick
         \/ UNCHANGED proxyVars
  PROVE  UNCHANGED <<options, hops, headers>> /\ (conn' = "open" => conn = "open")
<1>1. CASE PrepareFails \/ OtherRequest \/ Tick \/ UNCHANGED proxyVars
  BY <1>1 DEF PrepareFails, OtherRequest, Tick, proxyVars, exchangeVars
<1>2. CASE UploadRead \/ ClientLeaves \/ IncomingTimeout
  BY <1>2 DEF UploadRead, ClientLeaves, IncomingTimeout, ClientGone
<1>3. CASE ProxyTimeout \/ \E code \in Failures : TargetFails(code)
  BY <1>3 DEF ProxyTimeout, TargetFails, RequestError
<1>4. CASE (\E to \in {"", "A", Malformed} : Response(to)) \/ Processed \/ ProcessingFails
  BY <1>4 DEF Response, Processed, ProcessingFails
<1>5. CASE Chunk \/ BodyEnds \/ AnswerCut
  BY <1>5 DEF Chunk, BodyEnds, AnswerCut
<1>6. CASE RedirectMalformed \/ ProcessedLate
  BY <1>6 DEF RedirectMalformed, ProcessedLate, exchangeVars
<1>7. CASE Upgrade \/ Tunnel \/ ClientResets \/ TunnelEnds
  BY <1>7 DEF Upgrade, Tunnel, ClientResets, TunnelEnds
<1>q. QED BY <1>1, <1>2, <1>3, <1>4, <1>5, <1>6, <1>7

LEMMA SecretsStep == SecretsInv /\ [Next]_proxyVars => SecretsInv'
<1> SUFFICES ASSUME SecretsInv, [Next]_proxyVars PROVE SecretsInv'
  OBVIOUS
<1>1. CASE Prepare
  BY <1>1, PrepareKeepsSecrets
<1>2. CASE \E code \in Codes, to \in Hosts : FollowRedirect(code, to)
  BY <1>2, RedirectKeepsSecrets
<1>3. CASE ~Prepare /\ ~(\E code \in Codes, to \in Hosts : FollowRedirect(code, to))
  BY <1>3, OthersLeaveHops, OthersKeepSecrets DEF Next
<1>q. QED BY <1>1, <1>2, <1>3

(* The client's credentials go to no host but the one its request was for,    *)
(* through any number of redirects (handlers/common.ts:243-279).              *)
THEOREM SecretsStay == Spec => []NoSecretsAcross
<1>1. SecretsInv => NoSecretsAcross
  BY DEF SecretsInv
<1>q. QED BY <1>1, SecretsInit, SecretsStep, PTL DEF Spec

----------------------------------------------------------------------------
(* Ids and the times they are made of.                                        *)
Ids(ts) == {<<ts>>} \cup {<<ts, k>> : k \in 1..MaxStatus}
Status == {s \in [ts : Nat, id : UNION {Ids(ts) : ts \in Nat}] : s.id \in Ids(s.ts)}

StatusInv ==
  /\ now \in Nat /\ began \in Nat
  /\ statusList \in Seq(Status)
  /\ StatusesTold

(* A new id is of its time and not in use, but for the last number.           *)
LEMMA NewIdIsNew ==
  ASSUME NEW ts \in Nat
  PROVE  /\ NewId(ts) \in Ids(ts)
         /\ NewId(ts) \notin IdsInUse \/ NewId(ts) = <<ts, MaxStatus>>
<1> DEFINE numbered == [k \in 1..MaxStatus |-> <<ts, k>>]
           tried == <<<<ts>>>> \o numbered
           free == {k \in DOMAIN tried : tried[k] \notin IdsInUse}
<1>1. MaxStatus \in Nat \ {0}
  BY ProxyAssumption
<1>2. /\ numbered \in Seq(Ids(ts)) /\ Len(numbered) = MaxStatus
      /\ <<<<ts>>>> \in Seq(Ids(ts)) /\ Len(<<<<ts>>>>) = 1
  BY <1>1 DEF Ids
<1>3. /\ tried \in Seq(Ids(ts)) /\ Len(tried) = MaxStatus + 1
      /\ DOMAIN tried = 1..MaxStatus + 1
      /\ tried[MaxStatus + 1] = <<ts, MaxStatus>>
  BY <1>1, <1>2
<1>4. \A k \in DOMAIN tried : tried[k] \in Ids(ts)
  BY <1>3, ElementOfSeq
<1> HIDE DEF tried
<1>5. CASE free = {}
  BY <1>1, <1>3, <1>4, <1>5 DEF NewId, tried
<1>6. CASE free # {}
  <2> DEFINE m == CHOOSE k \in free : \A l \in free : k <= l
  <2>1. free \subseteq Nat
    BY <1>1, <1>3
  <2>2. m \in free
    BY <1>6, <2>1, LeastOf
  <2>3. NewId(ts) = tried[m]
    BY <1>6 DEF NewId, tried
  <2>q. QED BY <1>4, <2>2, <2>3
<1>q. QED BY <1>5, <1>6

LEMMA StatusInit == Init => StatusInv
<1> SUFFICES ASSUME Init PROVE StatusInv
  OBVIOUS
<1>1. statusList = <<>> /\ now = 0 /\ began = 0
  BY DEF Init
<1>2. statusList \in Seq(Status) /\ DOMAIN statusList = {} /\ Len(statusList) = 0
  BY <1>1
<1>3. 0 <= MaxStatus + 1
  BY ProxyAssumption
<1>q. QED BY <1>1, <1>2, <1>3 DEF StatusInv, StatusesTold

(* A status goes to the front of a list that has lost its last.               *)
LEMMA PreProxyReqKeeps ==
  ASSUME StatusInv, NEW ts \in Nat, PreProxyReq(ts)
  PROVE  statusList' \in Seq(Status) /\ StatusesTold'
<1> DEFINE kept == IF Len(statusList) > MaxStatus THEN Front(statusList) ELSE statusList
           new == [ts |-> ts, id |-> NewId(ts)]
<1>0. MaxStatus \in Nat \ {0} /\ statusList \in Seq(Status) /\ Len(statusList) \in Nat
      /\ Len(statusList) <= MaxStatus + 1
  BY ProxyAssumption DEF StatusInv, StatusesTold
<1>1. /\ kept \in Seq(Status) /\ Len(kept) \in Nat
      /\ Len(kept) <= MaxStatus /\ Len(kept) <= Len(statusList)
      /\ \A k \in 1..Len(kept) : kept[k] = statusList[k]
  BY <1>0 DEF Front
<1>2. new \in Status
  BY NewIdIsNew DEF Status
<1> HIDE DEF kept, new
<1>3. statusList' = <<new>> \o kept
  BY DEF PreProxyReq, kept, new
<1>4. /\ statusList' \in Seq(Status) /\ Len(statusList') = Len(kept) + 1
      /\ DOMAIN statusList' = 1..Len(kept) + 1
      /\ statusList'[1] = new
      /\ \A k \in 2..Len(kept) + 1 : statusList'[k] = statusList[k - 1] /\ k - 1 \in DOMAIN statusList
  BY <1>0, <1>1, <1>2, <1>3
<1>5. \A i \in DOMAIN statusList : statusList[i].id = new.id => new.id = <<ts, MaxStatus>>
  BY NewIdIsNew DEF new, IdsInUse
<1>6. \A i \in DOMAIN statusList : statusList[i].id = <<ts, MaxStatus>> => statusList[i].ts = ts
  <2> SUFFICES ASSUME NEW i \in DOMAIN statusList, statusList[i].id = <<ts, MaxStatus>>
               PROVE  statusList[i].ts = ts
    OBVIOUS
  <2>1. statusList[i] \in Status
    BY <1>0
  <2>q. QED BY <2>1 DEF Status, Ids
<1>7. ASSUME NEW i \in DOMAIN statusList', NEW j \in DOMAIN statusList',
             i # j, statusList'[i].id = statusList'[j].id
      PROVE  statusList'[i].id = <<statusList'[i].ts, MaxStatus>>
  <2>1. CASE i = 1
    BY <1>4, <1>5, <1>7, <2>1 DEF new
  <2>2. CASE j = 1
    BY <1>4, <1>5, <1>6, <1>7, <2>2 DEF new
  <2>3. CASE i # 1 /\ j # 1
    <3>1. i - 1 \in DOMAIN statusList /\ j - 1 \in DOMAIN statusList /\ i - 1 # j - 1
          /\ statusList'[i] = statusList[i - 1] /\ statusList'[j] = statusList[j - 1]
      BY <1>1, <1>4, <1>7, <2>3
    <3>q. QED BY <1>7, <3>1 DEF StatusInv, StatusesTold
  <2>q. QED BY <2>1, <2>2, <2>3
<1>q. QED BY <1>0, <1>1, <1>4, <1>7 DEF StatusesTold

(* Other steps touch neither the list nor the times its ids are made of.      *)
LEMMA OthersLeaveList ==
  ASSUME \/ PrepareFails \/ UploadRead \/ ClientLeaves \/ IncomingTimeout \/ ProxyTimeout
         \/ \E code \in Failures : TargetFails(code)
         \/ \E code \in Codes, to \in Hosts : FollowRedirect(code, to)
         \/ AnswerCut \/ RedirectMalformed
         \/ \E to \in {"", "A", Malformed} : Response(to)
         \/ Processed \/ ProcessedLate \/ ProcessingFails \/ Chunk \/ BodyEnds
         \/ Upgrade \/ Tunnel \/ ClientResets \/ TunnelEnds \/ UNCHANGED proxyVars
  PROVE  UNCHANGED <<now, began, statusList>>
<1>1. CASE PrepareFails \/ UNCHANGED proxyVars
  BY <1>1 DEF PrepareFails, proxyVars
<1>2. CASE UploadRead \/ ClientLeaves \/ IncomingTimeout
  BY <1>2 DEF UploadRead, ClientLeaves, IncomingTimeout, ClientGone, statusVars
<1>3. CASE ProxyTimeout \/ \E code \in Failures : TargetFails(code)
  BY <1>3 DEF ProxyTimeout, TargetFails, statusVars
<1>4. CASE \E code \in Codes, to \in Hosts : FollowRedirect(code, to)
  BY <1>4 DEF FollowRedirect, statusVars
<1>5. CASE (\E to \in {"", "A", Malformed} : Response(to)) \/ Processed \/ ProcessingFails
  BY <1>5 DEF Response, Processed, ProcessingFails, statusVars
<1>6. CASE Chunk \/ BodyEnds \/ AnswerCut \/ RedirectMalformed \/ ProcessedLate
  BY <1>6 DEF Chunk, BodyEnds, AnswerCut, RedirectMalformed, ProcessedLate, statusVars
<1>7. CASE Upgrade \/ Tunnel \/ ClientResets \/ TunnelEnds
  BY <1>7 DEF Upgrade, Tunnel, ClientResets, TunnelEnds, statusVars
<1>q. QED BY <1>1, <1>2, <1>3, <1>4, <1>5, <1>6, <1>7

LEMMA StatusStep == StatusInv /\ [Next]_proxyVars => StatusInv'
<1> SUFFICES ASSUME StatusInv, [Next]_proxyVars PROVE StatusInv'
  OBVIOUS
<1>1. CASE Prepare \/ OtherRequest
  <2>1. PreProxyReq(began) \/ PreProxyReq(now)
    BY <1>1 DEF Prepare, OtherRequest
  <2>2. now' = now /\ began' = began
    BY <1>1 DEF Prepare, OtherRequest
  <2>q. QED BY <2>1, <2>2, PreProxyReqKeeps DEF StatusInv
<1>2. CASE Tick
  BY <1>2 DEF Tick, StatusInv, StatusesTold
<1>3. CASE UNCHANGED <<now, began, statusList>>
  BY <1>3 DEF StatusInv, StatusesTold
<1>q. QED BY <1>1, <1>2, <1>3, OthersLeaveList DEF Next

(* However many requests of one instant come, an id names one status but for  *)
(* the last number, and the list stays within its maximum and one             *)
(* (lib/http-proxy/utils.ts:12-54).                                           *)
THEOREM StatusesAreTold == Spec => []StatusesTold
<1>1. StatusInv => StatusesTold
  BY DEF StatusInv
<1>q. QED BY <1>1, StatusInit, StatusStep, PTL DEF Spec

----------------------------------------------------------------------------
(* The socket of a client is listened to exactly while it is upgraded, or has *)
(* been, so that a reset or a late answer before that has no listener.        *)
CrashInv ==
  /\ ProxyCrashOnlyIfHarmed
  /\ listening => step \in {"upgrading", "tunnel", "over"}
  /\ step \in {"upgrading", "tunnel"} => listening

(* The upgrade attaches the listeners and is undone by nothing; no step leads *)
(* from an upgraded connection back to an answer.                             *)
LEMMA ListeningStep ==
  ASSUME CrashInv, Next
  PROVE  /\ listening' => step' \in {"upgrading", "tunnel", "over"}
         /\ step' \in {"upgrading", "tunnel"} => listening'
<1>1. CASE Prepare \/ PrepareFails \/ UploadRead \/ OtherRequest \/ Tick
  BY <1>1 DEF Prepare, PrepareFails, UploadRead, OtherRequest, Tick, exchangeVars, CrashInv
<1>2. CASE ClientLeaves \/ IncomingTimeout
  BY <1>2 DEF ClientLeaves, IncomingTimeout, ClientGone, CrashInv
<1>3. CASE ProxyTimeout \/ \E code \in Failures : TargetFails(code)
  <2>1. PICK code : RequestError(code)
    BY <1>3 DEF ProxyTimeout, TargetFails
  <2>2. listening' = listening
    BY <1>3 DEF ProxyTimeout, TargetFails
  <2>3. step' = "over" \/ step' = step
    BY <2>1 DEF RequestError
  <2>q. QED BY <2>2, <2>3 DEF CrashInv
<1>4. CASE (\E code \in Codes, to \in Hosts : FollowRedirect(code, to)) \/ RedirectMalformed
  <2>1. (step' = "over" \/ step' = step) /\ listening' = listening
    <3>1. CASE \E code \in Codes, to \in Hosts : FollowRedirect(code, to)
      BY <3>1 DEF FollowRedirect
    <3>2. CASE RedirectMalformed
      BY <3>2 DEF RedirectMalformed, exchangeVars
    <3>q. QED BY <1>4, <3>1, <3>2
  <2>q. QED BY <2>1 DEF CrashInv
<1>5. CASE (\E to \in {"", "A", Malformed} : Response(to)) \/ Processed
  <2>1. /\ step = "requesting" \/ step = "answering"
        /\ step' = "answering" \/ step' = "streaming"
        /\ listening' = listening
    <3>1. CASE \E to \in {"", "A", Malformed} : Response(to)
      BY <3>1, Zenon DEF Response
    <3>2. CASE Processed
      BY <3>2 DEF Processed
    <3>q. QED BY <1>5, <3>1, <3>2
  <2>q. QED BY <2>1 DEF CrashInv
<1>6. CASE ProcessedLate \/ ProcessingFails
  BY <1>6 DEF ProcessedLate, ProcessingFails, exchangeVars, CrashInv
<1>7. CASE Chunk \/ BodyEnds \/ AnswerCut
  BY <1>7 DEF Chunk, BodyEnds, AnswerCut, CrashInv
<1>8. CASE Upgrade
  BY <1>8 DEF Upgrade
<1>9. CASE Tunnel \/ ClientResets \/ TunnelEnds
  <2>1. /\ listening' = listening
        /\ \/ step' = step
           \/ step \in {"upgrading", "tunnel"} /\ step' \in {"tunnel", "over"}
    BY <1>9 DEF Tunnel, ClientResets, TunnelEnds
  <2>q. QED BY <2>1 DEF CrashInv
<1>q. QED BY <1>1, <1>2, <1>3, <1>4, <1>5, <1>6, <1>7, <1>8, <1>9 DEF Next

(* A process that has ended takes no step of the exchange.                    *)
LEMMA CrashedStays ==
  ASSUME crashed, Next
  PROVE  UNCHANGED <<options, crashed, harm, listening>>
<1>1. ~(Prepare \/ PrepareFails \/ UploadRead \/ OtherRequest)
  BY DEF Prepare, PrepareFails, UploadRead, OtherRequest
<1>2. ~(ClientLeaves \/ IncomingTimeout \/ ProxyTimeout \/ \E code \in Failures : TargetFails(code))
  BY DEF ClientLeaves, IncomingTimeout, ClientGone, ProxyTimeout, TargetFails
<1>3. ~((\E code \in Codes, to \in Hosts : FollowRedirect(code, to)) \/ RedirectMalformed \/ AnswerCut)
  BY DEF FollowRedirect, RedirectMalformed, AnswerCut
<1>4. ~((\E to \in {"", "A", Malformed} : Response(to)) \/ Processed \/ ProcessedLate)
  BY DEF Response, Processed, ProcessedLate
<1>5. ~(ProcessingFails \/ Chunk \/ BodyEnds)
  BY DEF ProcessingFails, Chunk, BodyEnds
<1>6. ~(Upgrade \/ Tunnel \/ ClientResets \/ TunnelEnds)
  BY DEF Upgrade, Tunnel, ClientResets, TunnelEnds
<1>7. Tick
  BY <1>1, <1>2, <1>3, <1>4, <1>5, <1>6 DEF Next
<1>q. QED BY <1>7 DEF Tick, exchangeVars

Excused ==
  \/ "hook" \in harm
  \/ options.mode = "redirect" /\ "location" \in harm
  \/ options.mode = "ws" /\ ~listening /\ harm \cap {"early reset", "late", "location"} # {}

(* The steps that end the process, each with its cause.                       *)
LEMMA CrashStep == CrashInv /\ [Next]_proxyVars => CrashInv'
<1> SUFFICES ASSUME CrashInv, [Next]_proxyVars PROVE CrashInv'
  OBVIOUS
<1>0. (crashed => Excused) /\ (ProxyCrashOnlyIfHarmed' <=> (crashed' => Excused'))
  BY DEF CrashInv, ProxyCrashOnlyIfHarmed, Excused
<1>1. CASE UNCHANGED proxyVars
  BY <1>1 DEF CrashInv, ProxyCrashOnlyIfHarmed, proxyVars, exchangeVars
<1>2. CASE Next
  <2>1. ASSUME crashed PROVE Excused'
    <3>1. UNCHANGED <<options, harm, listening>>
      BY <2>1, <1>2, CrashedStays
    <3>2. Excused' = Excused
      BY <3>1 DEF Excused
    <3>q. QED BY <1>0, <2>1, <3>2
  <2>2. ASSUME PrepareFails \/ RedirectMalformed PROVE Excused'
    <3>1. CASE PrepareFails
      <4>1. "hook" \in harm'
        BY <3>1 DEF PrepareFails
      <4>q. QED BY <4>1 DEF Excused
    <3>2. CASE RedirectMalformed
      <4>1. options'.mode = "redirect" /\ "location" \in harm'
        BY <3>2 DEF RedirectMalformed, exchangeVars
      <4>q. QED BY <4>1 DEF Excused
    <3>q. QED BY <2>2, <3>1, <3>2
  <2>3. ASSUME ProcessedLate PROVE Excused'
    <3>1. options'.mode = "ws" /\ ~listening'
      BY <2>3 DEF ProcessedLate, WrittenAfterEnd, CrashInv, exchangeVars
    <3>2. harm' \cap {"early reset", "late", "location"} # {}
      BY <2>3 DEF ProcessedLate
    <3>q. QED BY <3>1, <3>2 DEF Excused
  <2>4. ASSUME ProcessingFails, crashed', ~crashed PROVE Excused'
    <3>1. options'.mode = "ws" /\ listening' = listening
      BY <2>4 DEF ProcessingFails
    <3>2. CASE "hook" \in harm'
      BY <3>2 DEF Excused
    <3>3. CASE "hook" \notin harm'
      <4>1. "location" \in harm' /\ step = "answering"
        BY <2>4, <3>3 DEF ProcessingFails
      <4>2. ~listening'
        BY <3>1, <4>1 DEF CrashInv
      <4>3. harm' \cap {"early reset", "late", "location"} # {}
        BY <4>1
      <4>q. QED BY <3>1, <4>2, <4>3 DEF Excused
    <3>q. QED BY <3>2, <3>3
  <2>5. ASSUME ClientResets, crashed', ~crashed PROVE Excused'
    <3>1. ~listening /\ listening' = listening /\ options'.mode = "ws"
      BY <2>5 DEF ClientResets
    <3>2. step \notin {"upgrading", "tunnel"}
      BY <3>1 DEF CrashInv
    <3>3. harm' \cap {"early reset", "late", "location"} # {}
      BY <2>5, <3>1, <3>2 DEF ClientResets
    <3>q. QED BY <3>1, <3>3 DEF Excused
  <2>6. ASSUME crashed' = crashed, ~crashed PROVE ~crashed'
    BY <2>6
  <2>7. \/ PrepareFails \/ RedirectMalformed \/ ProcessedLate \/ ProcessingFails \/ ClientResets
        \/ UNCHANGED crashed
    <3>1. CASE Prepare \/ UploadRead \/ OtherRequest \/ Tick
      BY <3>1 DEF Prepare, UploadRead, OtherRequest, Tick
    <3>2. CASE ClientLeaves \/ IncomingTimeout
      BY <3>2 DEF ClientLeaves, IncomingTimeout, ClientGone
    <3>3. CASE ProxyTimeout \/ \E code \in Failures : TargetFails(code)
      BY <3>3 DEF ProxyTimeout, TargetFails
    <3>4. CASE (\E code \in Codes, to \in Hosts : FollowRedirect(code, to)) \/ AnswerCut
      BY <3>4 DEF FollowRedirect, AnswerCut
    <3>5. CASE (\E to \in {"", "A", Malformed} : Response(to)) \/ Processed \/ Chunk \/ BodyEnds
      BY <3>5 DEF Response, Processed, Chunk, BodyEnds
    <3>6. CASE Upgrade \/ Tunnel \/ TunnelEnds
      BY <3>6 DEF Upgrade, Tunnel, TunnelEnds
    <3>q. QED BY <1>2, <3>1, <3>2, <3>3, <3>4, <3>5, <3>6 DEF Next
  <2>8. ProxyCrashOnlyIfHarmed'
    BY <1>0, <2>1, <2>2, <2>3, <2>4, <2>5, <2>6, <2>7
  <2>q. QED BY <1>2, <2>8, ListeningStep DEF CrashInv
<1>q. QED BY <1>1, <1>2

(* A hook that throws ends the process, and a malformed Location of a redirect *)
(* to follow; before an upgrade also a reset of the client, an answer that is  *)
(* written to its socket once that was ended, and such a Location to rewrite.  *)
(* Nothing else does: over http no failure of the target and nothing a client  *)
(* does, and nothing at all that either end of an upgraded connection does     *)
(* (handlers/common.ts:243-279, websocket.ts:8-80).                            *)
THEOREM CrashHasCause == Spec => []ProxyCrashOnlyIfHarmed
<1>1. Init => CrashInv
  <2> SUFFICES ASSUME Init PROVE CrashInv
    OBVIOUS
  <2>1. crashed = FALSE /\ listening = FALSE /\ step = "preparing"
    BY Zenon DEF Init
  <2>q. QED BY <2>1 DEF CrashInv, ProxyCrashOnlyIfHarmed
<1>2. CrashInv => ProxyCrashOnlyIfHarmed
  BY DEF CrashInv
<1>q. QED BY <1>1, <1>2, CrashStep, PTL DEF Spec

-----------------------------------------------------------------------------
(* The answer a client is given is the target's so far: its head and the      *)
(* chunks received, or those and the end.                                     *)
HeadOf == <<"head", IF options.hostRewrite /\ location # "" THEN "proxy" ELSE location>>
SoFar == [i \in 1..received + 1 |-> IF i = 1 THEN HeadOf ELSE <<"chunk">>]
WholeAnswer(head) == <<head>> \o [k \in 1..Chunks |-> <<"chunk">>] \o <<<<"end">>>>

(* Nothing has been given before the response's hooks are through; then it is *)
(* what has come, for a client that has not left meanwhile.  The socket of a  *)
(* client that asked for an upgrade may have been ended before its time, and  *)
(* is given nothing after that: it is written to no more, or the connection   *)
(* its answer came from is closed.                                            *)
EndedEarly == "cut" \in harm

EarlyEndInv ==
  /\ EndedEarly => options.mode = "ws" /\ tunnelEnded
  /\ step = "preparing" => conn # "open" /\ ~EndedEarly
  /\ options.mode = "ws" /\ (step = "over" \/ (step = "streaming" /\ EndedEarly)) => conn # "open"

GivenInv ==
  /\ received \in 0..Chunks
  /\ step = "preparing" => out = <<>>
  /\ step \notin {"streaming", "over"} =>
       received = 0 /\ (out = <<>> \/ (out = <<<<"end">>>> /\ EndedEarly))
  /\ step = "streaming" => \/ out = SoFar
                           \/ out = <<>> /\ client # "open"
                           \/ out = Append(SoFar, <<"end">>) /\ EndedEarly
  /\ step = "over" => \/ out \in {<<>>, SoFar, WholeAnswer(HeadOf)}
                      \/ out = <<<<"error">>>> /\ options.mode # "ws"
                      \/ out \in {<<<<"end">>>>, Append(SoFar, <<"end">>)} /\ EndedEarly

AnswerInv == EarlyEndInv /\ GivenInv

LEMMA WholeIs ==
  ASSUME NEW head
  PROVE  WholeAnswer(head) = [i \in 1..Chunks + 2 |-> IF i = 1 THEN head
                                                ELSE IF i = Chunks + 2 THEN <<"end">> ELSE <<"chunk">>]
<1>0. Chunks \in Nat
  BY ProxyAssumption
<1> DEFINE T == UNION {{head}, {<<"chunk">>, <<"end">>}}
           body == [k \in 1..Chunks |-> <<"chunk">>]
<1>1. <<head>> \in Seq(T) /\ body \in Seq(T) /\ <<<<"end">>>> \in Seq(T)
  BY <1>0
<1>2. Len(body) = Chunks /\ Len(<<head>>) = 1 /\ Len(<<<<"end">>>>) = 1
  BY <1>0
<1> HIDE DEF body
<1> DEFINE front == <<head>> \o body
<1>3. front \in Seq(T) /\ Len(front) = Chunks + 1
      /\ \A i \in 1..Chunks + 1 : front[i] = IF i = 1 THEN head ELSE body[i - 1]
  BY <1>0, <1>1, <1>2, ConcatProperties
<1>4. \A i \in 1..Chunks + 1 : i # 1 => front[i] = <<"chunk">>
  BY <1>0, <1>3 DEF body
<1>5. front[1] = head
  BY <1>0, <1>3
<1> HIDE DEF front, T
<1> DEFINE all == front \o <<<<"end">>>>
<1>6. all \in Seq(T) /\ Len(all) = Chunks + 2
      /\ \A i \in 1..Chunks + 2 : all[i] = IF i <= Chunks + 1 THEN front[i] ELSE <<"end">>
  BY <1>0, <1>1, <1>2, <1>3, ConcatProperties
<1>7. all = [i \in 1..Chunks + 2 |-> all[i]]
  BY <1>0, <1>6 
<1> HIDE DEF all
<1>8. \A i \in 1..Chunks + 2 : all[i] = IF i = 1 THEN head
                                                ELSE IF i = Chunks + 2 THEN <<"end">> ELSE <<"chunk">>
  BY <1>0, <1>4, <1>5, <1>6
<1>9. all = [i \in 1..Chunks + 2 |-> IF i = 1 THEN head
                                                ELSE IF i = Chunks + 2 THEN <<"end">> ELSE <<"chunk">>]
  BY <1>7, <1>8
<1>q. QED BY <1>9 DEF WholeAnswer, body, front, all

AnswerUnits == {HeadOf, <<"chunk">>, <<"end">>}

LEMMA EndAppended ==
  ASSUME NEW T, NEW s \in Seq(T), NEW x
  PROVE  Last(Append(s, x)) = x /\ Front(Append(s, x)) = s
<1>1. /\ Len(Append(s, x)) = Len(s) + 1 /\ Append(s, x)[Len(s) + 1] = x
      /\ \A i \in 1..Len(s) : Append(s, x)[i] = s[i]
  OBVIOUS
<1>2. SubSeq(Append(s, x), 1, Len(s)) = s
  BY <1>1
<1>q. QED BY <1>1, <1>2 DEF Last, Front

(* What has come so far begins the whole answer, and what was ended early is  *)
(* the end alone or after what had come.                                      *)
LEMMA AnswerFits == AnswerInv => AnswerOfTarget
<1> SUFFICES ASSUME AnswerInv PROVE AnswerOfTarget
  OBVIOUS
<1> DEFINE W == WholeAnswer(HeadOf)
<1>0. Chunks \in Nat /\ received \in 0..Chunks
  BY ProxyAssumption DEF AnswerInv, GivenInv
<1>1. /\ Len(W) = Chunks + 2 /\ DOMAIN W = 1..Chunks + 2
      /\ \A i \in 1..Chunks + 2 : W[i] = IF i = 1 THEN HeadOf
                                         ELSE IF i = Chunks + 2 THEN <<"end">> ELSE <<"chunk">>
      /\ W = [i \in 1..Len(W) |-> W[i]]
  BY <1>0, WholeIs
<1> HIDE DEF W
<1>2. ASSUME out = <<>> PROVE IsPrefix(out, W)
  BY <1>0, <1>1, <1>2 DEF IsPrefix
<1>3. ASSUME out = W PROVE IsPrefix(out, W)
  BY <1>0, <1>1, <1>3 DEF IsPrefix
<1>4. IsPrefix(SoFar, W) /\ SoFar \in Seq(AnswerUnits) /\ Len(SoFar) >= 1
  <2>1. /\ SoFar \in Seq(AnswerUnits) /\ Len(SoFar) = received + 1 /\ DOMAIN SoFar = 1..received + 1
        /\ \A i \in 1..received + 1 : SoFar[i] = IF i = 1 THEN HeadOf ELSE <<"chunk">>
    BY <1>0 DEF SoFar, AnswerUnits
  <2>2. \A i \in 1..received + 1 : SoFar[i] = W[i]
    BY <1>0, <1>1, <2>1
  <2>3. SubSeq(SoFar, 1, Len(SoFar)) = SubSeq(W, 1, Len(SoFar))
    BY <1>0, <1>1, <2>1, <2>2
  <2>q. QED BY <1>0, <1>1, <2>1, <2>3 DEF IsPrefix
<1>5. ASSUME out = <<<<"end">>>> PROVE Last(out) = <<"end">> /\ Len(out) = 1
  BY <1>5 DEF Last
<1>6. ASSUME out = Append(SoFar, <<"end">>) PROVE Last(out) = <<"end">> /\ IsPrefix(Front(out), W)
  <2>1. Last(out) = <<"end">> /\ Front(out) = SoFar
    BY <1>4, <1>6, EndAppended
  <2>q. QED BY <1>4, <2>1
<1>7. \/ out \in {<<>>, SoFar, W}
      \/ out = <<<<"error">>>> /\ options.mode # "ws"
      \/ out \in {<<<<"end">>>>, Append(SoFar, <<"end">>)} /\ EndedEarly
  BY DEF AnswerInv, GivenInv, W
<1>8. EndedEarly => options.mode = "ws" /\ "cut" \in harm
  BY DEF AnswerInv, EarlyEndInv, EndedEarly
<1>9. \/ out = <<<<"error">>>> /\ options.mode # "ws"
      \/ IsPrefix(out, W)
      \/ /\ options.mode = "ws" /\ "cut" \in harm
         /\ Last(out) = <<"end">> /\ (Len(out) > 1 => IsPrefix(Front(out), W))
  <2>1. CASE out \in {<<>>, SoFar, W}
    BY <1>2, <1>3, <1>4, <2>1
  <2>2. CASE out = <<<<"end">>>> /\ EndedEarly
    BY <1>5, <1>8, <2>2
  <2>3. CASE out = Append(SoFar, <<"end">>) /\ EndedEarly
    BY <1>6, <1>8, <2>3
  <2>q. QED BY <1>7, <2>1, <2>2, <2>3
<1>q. QED BY <1>9 DEF AnswerOfTarget, W, WholeAnswer, HeadOf

LEMMA AppendToEmpty == ASSUME NEW x PROVE Append(<<>>, x) = <<x>>
OBVIOUS

LEMMA AnswerInit == Init => AnswerInv
<1> SUFFICES ASSUME Init PROVE AnswerInv
  OBVIOUS
<1>1. step = "preparing" /\ out = <<>> /\ received = 0 /\ conn = "none" /\ harm = {}
  BY DEF Init
<1>2. received \in 0..Chunks
  BY <1>1, ProxyAssumption
<1>q. QED BY <1>1, <1>2 DEF AnswerInv, EarlyEndInv, GivenInv, EndedEarly

(* The head of the answer is what RewriteLocation makes of the target's.      *)
LEMMA ProcessedAnswers == ASSUME AnswerInv, Processed PROVE AnswerInv'
<1>0. ~EndedEarly /\ EndedEarly' = EndedEarly
  BY DEF AnswerInv, EarlyEndInv, EndedEarly, Processed, WrittenAfterEnd
<1>1. out = <<>> /\ received = 0 /\ step' = "streaming"
      /\ UNCHANGED <<received, client, location, options>>
  BY <1>0 DEF AnswerInv, GivenInv, Processed
<1>2. out' = IF client = "open" THEN <<HeadOf>> ELSE <<>>
  <2>1. ToClient(<<"head", RewriteLocation(location)>>)
    BY DEF Processed
  <2>2. <<"head", RewriteLocation(location)>> = HeadOf
    BY DEF RewriteLocation, HeadOf
  <2>3. out' = IF client = "open" THEN Append(<<>>, HeadOf) ELSE <<>>
    BY <1>1, <2>1, <2>2 DEF ToClient
  <2>q. QED BY <2>3, AppendToEmpty
<1>3. HeadOf' = HeadOf
  BY <1>1 DEF HeadOf
<1>4. SoFar' = <<HeadOf>>
  BY <1>1, <1>3 DEF SoFar
<1>5. client = "open" => out' = SoFar'
  BY <1>2, <1>4
<1>6. received' \in 0..Chunks
  BY <1>1, ProxyAssumption
<1>7. client = "open" \/ (out' = <<>> /\ client' # "open")
  BY <1>1, <1>2
<1>8. GivenInv'
  BY <1>1, <1>2, <1>5, <1>6, <1>7 DEF GivenInv
<1>9. EarlyEndInv'
  BY <1>0, <1>1 DEF EarlyEndInv
<1>q. QED BY <1>8, <1>9 DEF AnswerInv

(* A chunk is given only with what came before it.                            *)
LEMMA ChunkAnswers == ASSUME AnswerInv, Chunk PROVE AnswerInv'
<1>1. client = "open" /\ step = "streaming"
  BY DEF Chunk
<1>0. ~EndedEarly /\ EndedEarly' = EndedEarly
  BY <1>1 DEF AnswerInv, EarlyEndInv, EndedEarly, Chunk
<1>2. out = SoFar /\ received' = received + 1 /\ received + 1 \in 1..Chunks /\ received \in Nat
  BY <1>0, <1>1, ProxyAssumption DEF Chunk, AnswerInv, GivenInv
<1>3. out' = Append(SoFar, <<"chunk">>)
  BY <1>1, <1>2 DEF Chunk, ToClient
<1>4. HeadOf' = HeadOf
  BY DEF HeadOf, Chunk
<1>5. SoFar' = [i \in 1..received + 2 |-> IF i = 1 THEN HeadOf ELSE <<"chunk">>]
  BY <1>2, <1>4 DEF SoFar
<1>6. Append(SoFar, <<"chunk">>) = [i \in 1..received + 2 |-> IF i = 1 THEN HeadOf ELSE <<"chunk">>]
  BY <1>2 DEF SoFar
<1>7. out' = SoFar'
  BY <1>3, <1>5, <1>6
<1>8. received' \in 0..Chunks
  BY <1>2, ProxyAssumption
<1>9. step' = "streaming"
  BY <1>1 DEF Chunk
<1>10. GivenInv'
  BY <1>7, <1>8, <1>9 DEF GivenInv
<1>11. EarlyEndInv'
  BY <1>0, <1>9 DEF EarlyEndInv
<1>q. QED BY <1>10, <1>11 DEF AnswerInv

(* The end is given to a client that is there only when all has come.         *)
LEMMA BodyEndsAnswers == ASSUME AnswerInv, BodyEnds PROVE AnswerInv'
<1>1. step' = "over" /\ UNCHANGED <<received, location, options>> /\ step = "streaming"
      /\ conn = "open" /\ conn' = "closed"
  BY DEF BodyEnds
<1>0. ~EndedEarly /\ EndedEarly' = EndedEarly
  BY <1>1 DEF AnswerInv, EarlyEndInv, EndedEarly, BodyEnds
<1>2. HeadOf' = HeadOf /\ SoFar' = SoFar /\ WholeAnswer(HeadOf)' = WholeAnswer(HeadOf)
  BY <1>1 DEF HeadOf, SoFar, WholeAnswer
<1>3. ASSUME client # "open" PROVE out' \in {<<>>, SoFar}
  <2>1. out' = out
    BY <1>3 DEF BodyEnds, ToClient
  <2>q. QED BY <1>0, <1>1, <2>1 DEF AnswerInv, GivenInv
<1>4. ASSUME client = "open" PROVE out' \in {SoFar, WholeAnswer(HeadOf)}
  <2>1. received = Chunks /\ out = SoFar /\ Chunks \in Nat
    BY <1>0, <1>1, <1>4, ProxyAssumption DEF AnswerInv, GivenInv, BodyEnds
  <2>2. SoFar = [i \in 1..Chunks + 1 |-> IF i = 1 THEN HeadOf ELSE <<"chunk">>]
    BY <2>1 DEF SoFar
  <2>3. Append(SoFar, <<"end">>) =
          [i \in 1..Chunks + 2 |-> IF i = 1 THEN HeadOf
                                   ELSE IF i = Chunks + 2 THEN <<"end">> ELSE <<"chunk">>]
    BY <2>1, <2>2
  <2>4. Append(SoFar, <<"end">>) = WholeAnswer(HeadOf)
    BY <2>3, WholeIs
  <2>5. out' = Append(SoFar, <<"end">>) \/ out' = SoFar
    BY <2>1 DEF BodyEnds, ToClient
  <2>q. QED BY <2>4, <2>5
<1>5. received' \in 0..Chunks
  BY <1>1 DEF AnswerInv, GivenInv
<1>6. out' \in {<<>>, SoFar', WholeAnswer(HeadOf)'}
  BY <1>2, <1>3, <1>4
<1>7. GivenInv'
  BY <1>1, <1>5, <1>6 DEF GivenInv
<1>8. EarlyEndInv'
  BY <1>0, <1>1 DEF EarlyEndInv
<1>q. QED BY <1>7, <1>8 DEF AnswerInv

(* Whatever fails: an error as the only answer, or none, or what was given.   *)
LEMMA FailureAnswers ==
  ASSUME AnswerInv, UNCHANGED <<received, location, options>>, step' = "over",
         EndedEarly' = EndedEarly, tunnelEnded => tunnelEnded', options.mode = "ws" => conn' # "open",
         \/ out' = out
         \/ options.mode # "ws" /\ step \notin {"streaming", "over"} /\ out' = Append(out, <<"error">>)
  PROVE  AnswerInv'
<1>1. HeadOf' = HeadOf /\ SoFar' = SoFar /\ WholeAnswer(HeadOf)' = WholeAnswer(HeadOf)
  BY DEF HeadOf, SoFar, WholeAnswer
<1>2. EarlyEndInv'
  BY DEF AnswerInv, EarlyEndInv
<1>3. CASE out' = out
  <2>1. \/ out \in {<<>>, SoFar, WholeAnswer(HeadOf)}
        \/ out = <<<<"error">>>> /\ options.mode # "ws"
        \/ out \in {<<<<"end">>>>, Append(SoFar, <<"end">>)} /\ EndedEarly
    BY DEF AnswerInv, GivenInv
  <2>2. received' \in 0..Chunks
    BY DEF AnswerInv, GivenInv
  <2>3. Append(SoFar, <<"end">>)' = Append(SoFar, <<"end">>)
    BY <1>1
  <2>4. GivenInv'
    BY <1>1, <1>3, <2>1, <2>2, <2>3 DEF GivenInv
  <2>q. QED BY <1>2, <2>4 DEF AnswerInv
<1>4. CASE options.mode # "ws" /\ step \notin {"streaming", "over"} /\ out' = Append(out, <<"error">>)
  <2>1. out = <<>> /\ received \in 0..Chunks
    BY <1>4 DEF AnswerInv, GivenInv, EarlyEndInv
  <2>2. out' = <<<<"error">>>>
    BY <1>4, <2>1, AppendToEmpty
  <2>3. GivenInv'
    BY <1>4, <2>1, <2>2 DEF GivenInv
  <2>q. QED BY <1>2, <2>3 DEF AnswerInv
<1>q. QED BY <1>3, <1>4

(* A step between two phases before the head, or none between phases.         *)
LEMMA OthersAnswer ==
  ASSUME AnswerInv, UNCHANGED <<received, options, out>>, EndedEarly' = EndedEarly,
         tunnelEnded => tunnelEnded', conn' = "open" => conn = "open",
         client # "open" => client' # "open",
         \/ step' = step /\ UNCHANGED location
         \/ {step, step'} \cap {"streaming", "over"} = {} /\ step' # "preparing"
  PROVE  AnswerInv'
<1>1. CASE step' = step /\ UNCHANGED location
  <2>1. HeadOf' = HeadOf /\ SoFar' = SoFar /\ WholeAnswer(HeadOf)' = WholeAnswer(HeadOf)
    BY <1>1 DEF HeadOf, SoFar, WholeAnswer
  <2>2. Append(SoFar, <<"end">>)' = Append(SoFar, <<"end">>)
    BY <2>1
  <2>3. GivenInv'
    BY <1>1, <2>1, <2>2 DEF AnswerInv, GivenInv
  <2>4. EarlyEndInv'
    BY <1>1 DEF AnswerInv, EarlyEndInv
  <2>q. QED BY <2>3, <2>4 DEF AnswerInv
<1>2. CASE {step, step'} \cap {"streaming", "over"} = {} /\ step' # "preparing"
  <2>1. GivenInv'
    BY <1>2 DEF AnswerInv, GivenInv
  <2>2. EarlyEndInv'
    BY <1>2 DEF AnswerInv, EarlyEndInv
  <2>q. QED BY <2>1, <2>2 DEF AnswerInv
<1>q. QED BY <1>1, <1>2

(* The socket of a client that asked for an upgrade is ended: after nothing,  *)
(* or after what it has been given of an answer.                              *)
LEMMA EarlyEndAnswers ==
  ASSUME AnswerInv, UNCHANGED <<received, location, options, client>>,
         ToClient(<<"end">>), EndedEarly', ~EndedEarly, options.mode = "ws", tunnelEnded',
         step # "over", step' # "preparing", step' = "streaming" <=> step = "streaming",
         step' \in {"over", "streaming"} => conn' # "open"
  PROVE  AnswerInv'
<1>1. HeadOf' = HeadOf /\ SoFar' = SoFar
  BY DEF HeadOf, SoFar
<1>2. EarlyEndInv'
  BY DEF EarlyEndInv
<1>3. received' \in 0..Chunks
  BY DEF AnswerInv, GivenInv
<1>4. CASE step # "streaming"
  <2>1. out = <<>> /\ received = 0
    BY <1>4 DEF AnswerInv, GivenInv
  <2>2. out' = <<>> \/ out' = <<<<"end">>>>
    BY <2>1, AppendToEmpty DEF ToClient
  <2>3. GivenInv'
    BY <1>3, <1>4, <2>1, <2>2 DEF GivenInv
  <2>q. QED BY <1>2, <2>3 DEF AnswerInv
<1>5. CASE step = "streaming"
  <2>1. out = SoFar \/ (out = <<>> /\ client # "open")
    BY <1>5 DEF AnswerInv, GivenInv
  <2>2. \/ out' = SoFar
        \/ out' = <<>> /\ client' # "open"
        \/ out' = Append(SoFar, <<"end">>)
    BY <2>1 DEF ToClient
  <2>3. GivenInv'
    BY <1>1, <1>3, <1>5, <2>2 DEF GivenInv
  <2>q. QED BY <1>2, <2>3 DEF AnswerInv
<1>q. QED BY <1>4, <1>5

(* A head that comes with the request for an upgrade ends the client's socket. *)
LEMMA PrepareAnswers == ASSUME AnswerInv, Prepare PROVE AnswerInv'
<1>1. /\ UNCHANGED <<received, location, options, client>>
      /\ step = "preparing" /\ step' = "requesting" /\ out = <<>> /\ ~EndedEarly
  BY DEF Prepare, AnswerInv, GivenInv, EarlyEndInv
<1>2. CASE options.mode = "ws" /\ options.head
  <2>1. ToClient(<<"end">>) /\ tunnelEnded' /\ EndedEarly'
    BY <1>2 DEF Prepare, EndedEarly
  <2>q. QED BY <1>1, <1>2, <2>1, EarlyEndAnswers
<1>3. CASE ~(options.mode = "ws" /\ options.head)
  <2>1. out' = <<>> /\ EndedEarly' = EndedEarly
    BY <1>1, <1>3 DEF Prepare, EndedEarly
  <2>2. received' = 0 /\ received' \in 0..Chunks
    BY <1>1 DEF AnswerInv, GivenInv
  <2>3. GivenInv'
    BY <1>1, <2>1, <2>2 DEF GivenInv
  <2>4. EarlyEndInv'
    BY <1>1, <2>1 DEF EarlyEndInv
  <2>q. QED BY <2>3, <2>4 DEF AnswerInv
<1>q. QED BY <1>2, <1>3

(* The request to the target fails, for any reason.                           *)
LEMMA RequestErrorAnswers ==
  ASSUME AnswerInv, NEW code, RequestError(code), UNCHANGED <<received, location, options, client>>,
         conn = "open"
  PROVE  AnswerInv'
<1>1. conn' = "closed" /\ step # "preparing" /\ step' = IF step = "requesting" THEN "over" ELSE step
  BY DEF RequestError, AnswerInv, EarlyEndInv
<1>2. CASE options.mode = "ws" /\ ~tunnelEnded
  <2>1. ToClient(<<"end">>) /\ tunnelEnded' /\ EndedEarly'
    BY <1>2 DEF RequestError, EndedEarly
  <2>2. ~EndedEarly /\ step # "over"
    BY <1>2 DEF AnswerInv, EarlyEndInv
  <2>q. QED BY <1>1, <1>2, <2>1, <2>2, EarlyEndAnswers
<1>3. CASE ~(options.mode = "ws" /\ ~tunnelEnded)
  <2>1. EndedEarly' = EndedEarly /\ (tunnelEnded => tunnelEnded')
    BY <1>3 DEF RequestError, EndedEarly
  <2>2. CASE step = "requesting"
    <3>1. \/ out' = out
          \/ options.mode # "ws" /\ out' = Append(out, <<"error">>)
      BY <1>3 DEF RequestError, ToClient
    <3>q. QED BY <1>1, <2>1, <2>2, <3>1, FailureAnswers
  <2>3. CASE step # "requesting"
    <3>1. out' = out
      BY <1>3, <2>3 DEF RequestError
    <3>q. QED BY <1>1, <2>1, <2>3, <3>1, OthersAnswer
  <2>q. QED BY <2>2, <2>3
<1>q. QED BY <1>2, <1>3

LEMMA ClientGoneAnswers == ASSUME AnswerInv, ClientGone PROVE AnswerInv'
<1>1. UNCHANGED <<received, location, options, out, tunnelEnded>> /\ client' = "gone"
      /\ EndedEarly' = EndedEarly /\ options.mode # "ws"
  BY DEF ClientGone, EndedEarly
<1>2. (step' = step \/ step' = "over") /\ (conn' = "open" => conn = "open")
  BY DEF ClientGone
<1>q. QED BY <1>1, <1>2, FailureAnswers, OthersAnswer

LEMMA RedirectAnswers ==
  ASSUME AnswerInv, NEW code, NEW to, FollowRedirect(code, to) PROVE AnswerInv'
<1>1. UNCHANGED <<received, location, options, client, tunnelEnded>> /\ step = "requesting"
      /\ EndedEarly' = EndedEarly /\ options.mode # "ws"
  BY DEF FollowRedirect, EndedEarly
<1>2. conn' = "open" => conn = "open"
  BY DEF FollowRedirect
<1>3. \/ step' = step /\ out' = out
      \/ step' = "over" /\ (out' = out \/ out' = Append(out, <<"error">>))
  BY DEF FollowRedirect, ToClient
<1>q. QED BY <1>1, <1>2, <1>3, FailureAnswers, OthersAnswer

LEMMA ProcessingFailsAnswers == ASSUME AnswerInv, ProcessingFails PROVE AnswerInv'
<1>1. UNCHANGED <<received, location, options, client, tunnelEnded, conn>>
      /\ step \in {"answering", "upgrading"}
  BY DEF ProcessingFails
<1>2. EndedEarly' = EndedEarly
  BY DEF ProcessingFails, EndedEarly
<1>3. \/ step' = step /\ out' = out
      \/ step' = "over" /\ options.mode # "ws" /\ (out' = out \/ out' = Append(out, <<"error">>))
  BY DEF ProcessingFails, ToClient
<1>q. QED BY <1>1, <1>2, <1>3, FailureAnswers, OthersAnswer

(* An end of the process leaves the exchange as it was.                       *)
LEMMA CrashAnswers ==
  ASSUME AnswerInv, PrepareFails \/ RedirectMalformed \/ ProcessedLate PROVE AnswerInv'
<1>1. UNCHANGED exchangeVars
  BY DEF PrepareFails, RedirectMalformed, ProcessedLate
<1>2. EndedEarly' = EndedEarly
  BY DEF PrepareFails, RedirectMalformed, ProcessedLate, EndedEarly
<1>q. QED BY <1>1, <1>2, OthersAnswer DEF exchangeVars

(* Upgraded connections give no answer; one joined to a socket that has been  *)
(* ended is closed.                                                           *)
LEMMA UpgradedAnswers ==
  ASSUME AnswerInv, Upgrade \/ Tunnel \/ TunnelEnds \/ ClientResets PROVE AnswerInv'
<1>1. UNCHANGED <<received, options, out, location>> /\ (client # "open" => client' # "open")
      /\ (tunnelEnded => tunnelEnded') /\ (conn' = "open" => conn = "open")
  <2>1. CASE Upgrade
    BY <2>1 DEF Upgrade
  <2>2. CASE Tunnel
    BY <2>2 DEF Tunnel
  <2>3. CASE TunnelEnds
    BY <2>3 DEF TunnelEnds
  <2>4. CASE ClientResets
    BY <2>4 DEF ClientResets
  <2>q. QED BY <2>1, <2>2, <2>3, <2>4
<1>2. EndedEarly' = EndedEarly
  <2>1. CASE Upgrade \/ Tunnel \/ TunnelEnds
    <3>1. harm' = harm
      BY <2>1 DEF Upgrade, Tunnel, TunnelEnds
    <3>q. QED BY <3>1 DEF EndedEarly
  <2>2. CASE ClientResets
    <3>1. harm' = harm \/ harm' = harm \cup {"early reset"}
      BY <2>2 DEF ClientResets
    <3>2. "cut" \in harm' <=> "cut" \in harm
      BY <3>1
    <3>q. QED BY <3>2 DEF EndedEarly
  <2>q. QED BY <2>1, <2>2
<1>3. \/ step' = step
      \/ {step, step'} \cap {"streaming", "over"} = {} /\ step' # "preparing"
      \/ step' = "over" /\ conn' # "open"
  BY DEF Upgrade, Tunnel, TunnelEnds, ClientResets
<1>q. QED BY <1>1, <1>2, <1>3, FailureAnswers, OthersAnswer

LEMMA AnswerStep == AnswerInv /\ [Next]_proxyVars => AnswerInv'
<1> SUFFICES ASSUME AnswerInv, [Next]_proxyVars PROVE AnswerInv'
  OBVIOUS
<1>1. CASE UploadRead \/ OtherRequest \/ Tick \/ AnswerCut \/ UNCHANGED proxyVars
  <2>1. UNCHANGED <<received, options, out, client, location, step, tunnelEnded>>
        /\ (conn' = "open" => conn = "open")
    BY <1>1 DEF UploadRead, OtherRequest, Tick, AnswerCut, proxyVars, exchangeVars
  <2>2. EndedEarly' = EndedEarly
    BY <1>1 DEF UploadRead, OtherRequest, Tick, AnswerCut, proxyVars, EndedEarly
  <2>q. QED BY <2>1, <2>2, OthersAnswer
<1>2. CASE ClientLeaves \/ IncomingTimeout
  BY <1>2, ClientGoneAnswers DEF ClientLeaves, IncomingTimeout
<1>3. CASE ProxyTimeout
  <2>1. RequestError("") /\ UNCHANGED <<received, location, options, client>> /\ conn = "open"
    BY <1>3 DEF ProxyTimeout
  <2>q. QED BY <2>1, RequestErrorAnswers
<1>4. CASE \E code \in Failures : TargetFails(code)
  <2>1. PICK code \in Failures : TargetFails(code)
    BY <1>4
  <2>2. RequestError(code) /\ UNCHANGED <<received, location, options, client>> /\ conn = "open"
    BY <2>1 DEF TargetFails
  <2>q. QED BY <2>2, RequestErrorAnswers
<1>5. CASE \E code \in Codes, to \in Hosts : FollowRedirect(code, to)
  BY <1>5, RedirectAnswers
<1>6. CASE \E to \in {"", "A", Malformed} : Response(to)
  <2>1. UNCHANGED <<received, options, out, client, tunnelEnded, conn>>
        /\ {step, step'} \cap {"streaming", "over"} = {} /\ step' # "preparing"
    BY <1>6 DEF Response
  <2>2. EndedEarly' = EndedEarly
    BY <1>6, Zenon DEF Response, EndedEarly
  <2>q. QED BY <2>1, <2>2, OthersAnswer
<1>q. QED
  BY <1>1, <1>2, <1>3, <1>4, <1>5, <1>6, ProcessedAnswers, ProcessingFailsAnswers, PrepareAnswers,
     CrashAnswers, UpgradedAnswers, ChunkAnswers, BodyEndsAnswers DEF Next

(* However client, target and timers interfere, what a client has been given  *)
(* over http is one error or the beginning of the target's answer, and the    *)
(* end only after all of it; what one that asked for an upgrade has been      *)
(* given is the same but for an end that a failure of the request, or a head  *)
(* that came with it, made early, after which nothing is given                *)
(* (lib/http-proxy: the pipe of the answer and the requests' error handlers). *)
THEOREM AnswersAreOfTarget == Spec => []AnswerOfTarget
<1>1. Spec => []AnswerInv
  BY AnswerInit, AnswerStep, PTL DEF Spec
<1>q. QED BY <1>1, AnswerFits, PTL
=============================================================================
