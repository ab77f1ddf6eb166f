------------------------------- MODULE MCProxies -------------------------------
(* Instances of the two proxies: a connection through socks and an exchange   *)
(* through the http proxy.  A behaviour is one of theirs, `proxy' says whose; *)
(* the other stays as it is before its first step.                            *)
EXTENDS Socks, HttpProxy

(* Of socks: both versions, each order of methods a client sorts to, each set *)
(* a server has, either password; the address types that are parsed           *)
(* differently; a hello whose cipher holds a CRLF; a gateway without a        *)
(* handler for the version; a target reached directly or through another      *)
(* server of either version.                                                  *)
Addrs == {"domain", "ipv6"}
MCConfigs ==
  {[version |-> 5, cm |-> cm, creds |-> c, sm |-> sm, addr |-> a, crlf |-> FALSE,
    routes |-> {5}, route |-> r] :
     cm \in {<<NoAuth>>, <<UserPass>>, <<UserPass, NoAuth>>}, c \in {"right", "wrong"},
     sm \in {{NoAuth}, {UserPass}, {NoAuth, UserPass}}, a \in Addrs, r \in {"local", "v5", "v1"}}
  \cup {[version |-> 1, cm |-> <<>>, creds |-> c, sm |-> {}, addr |-> a, crlf |-> l,
         routes |-> rs, route |-> "local"] :
     c \in {"right", "wrong"}, a \in Addrs, l \in BOOLEAN, rs \in {{1, 5}, {5}}}

(* Of the http proxy: every mode with every combination of its timers and of  *)
(* the options that matter to it, and a plain exchange among others.          *)
Of(mode) == {c \in ProxyConfig : c.mode = mode /\ ~c.busy}
MCExchanges ==
  {c \in Of("http") : ~c.urlRewrite /\ ~c.head}
  \cup {c \in Of("redirect") : ~c.originData /\ ~c.head}
  \cup {c \in Of("ws") : ~c.urlRewrite /\ ~c.originData}
  \cup {c \in ProxyConfig : c.busy /\ c.mode = "http" /\ c.timeout /\ c.proxyTimeout
                            /\ ~c.urlRewrite /\ ~c.hostRewrite /\ ~c.head /\ ~c.originData}

VARIABLE proxy

mcVars == <<connectionVars, proxyVars, proxy>>

Upgraded == CHOOSE e \in Exchanges : e.mode = "ws"

MCInit ==
  \/ proxy = "socks" /\ SocksInit /\ options = Upgraded /\ Init
  \/ proxy = "http" /\ cfg \in {CHOOSE c \in Configs : TRUE} /\ SocksInit /\ Init

MCNext ==
  /\ \/ proxy = "socks" /\ SocksNext /\ UNCHANGED proxyVars
     \/ proxy = "http" /\ Next /\ UNCHANGED connectionVars
  /\ UNCHANGED proxy

(* The fairness of each; that of HttpProxy as long as it is the one.          *)
Http == proxy = "http"
MCFairness ==
  /\ PipeFairness
  /\ WF_proxyVars(Http /\ Prepare) /\ WF_proxyVars(Http /\ Processed)
  /\ WF_proxyVars(Http /\ Tunnel)
  /\ WF_proxyVars(Http /\ ProxyTimeout) /\ WF_proxyVars(Http /\ IncomingTimeout)

MCSpec == MCInit /\ [][MCNext]_mcVars /\ MCFairness
=============================================================================
