------------------------------ MODULE MCMemcached ------------------------------
(* Instances of the parts of memcached: the store, a connection of the server *)
(* and one of the client.  A behaviour is one of theirs, `part' says whose;   *)
(* the others stay as they are before their first step.                       *)
EXTENDS MemcachedStore, MemcachedServer, MemcachedClient

CONSTANT x

(* Of the store: a command carries one byte.                                  *)
MCDataBlocks == {<<b>> : b \in Blocks}

(* Of the server: no block, an empty one, one byte, two, a line end, and what *)
(* looks like a command line; every script of up to three commands.           *)
MCCommands == {NoBlock, <<>>, <<x>>, <<x, x>>, <<CR, LF>>, <<HEAD, CR, LF>>}
MCScripts == UNION {[1..n -> MCCommands] : n \in 0..3}

(* Of the client: blocks may be empty, be cut in the middle, look like framing.*)
MCValues == {<<>>, <<x, x>>, <<CR, LF>>}

VARIABLE part

mcVars == <<storeVars, serverVars, clientVars, part>>

MCInit ==
  /\ part \in {"store", "server", "client"}
  /\ StoreInit /\ ServerInit /\ ClientInit
  /\ part # "server" => script = <<>>

MCNext ==
  /\ \/ part = "store" /\ StoreNext /\ UNCHANGED <<serverVars, clientVars>>
     \/ part = "server" /\ ServerNext /\ UNCHANGED <<storeVars, clientVars>>
     \/ part = "client" /\ ClientNext /\ UNCHANGED <<storeVars, serverVars>>
  /\ UNCHANGED part

MCSpec == MCInit /\ [][MCNext]_mcVars /\ ServerFairness /\ ClientFairness
=============================================================================
