------------------------------- MODULE MCStreams -------------------------------
(* Instances of what writes and reads streams and files: the log and the      *)
(* snapshots of the process manager, the multipart parser, the client and     *)
(* server of http/tcp, the recorder of requests with its finder, and servers  *)
(* that start on a socket.  A behaviour is one of theirs, `running' says      *)
(* whose; the others stay as they are before their first step.                *)
EXTENDS RollingLog, RollingSnapshot, MultipartParser, HttpOverTcp, HttpRecord, SocketServer

(* Of the log: files are full with two units.                                 *)
MCWriteSizes == {1, 2}

(* Of the parser: one part with any data of up to three bytes or with one or  *)
(* two of the longer beginnings of a delimiter, and bodies of two parts.      *)
MCBoundaryStr == <<"-", "b">>
Header == [field |-> <<"n">>, value |-> <<"x">>]
Short == UNION {[1..n -> {CR, LF, HYPHEN, "b", "x"}] : n \in 0..3}
Lead(n) == SubSeq(<<CR, LF, HYPHEN, HYPHEN, HYPHEN, "b">>, 1, n)
FalseLeads ==
  {Lead(n) \o Lead(m) \o <<x>> : n \in 3..5, m \in {0, 1, 4}, x \in {CR, HYPHEN, "x"}}
MCMessages ==
  {<<[headers |-> <<Header>>, data |-> d]>> : d \in Short \union FalseLeads}
    \union {<<[headers |-> <<Header, Header>>, data |-> d], EmptyPart>> :
              d \in {<<>>, <<CR>>, <<"x", LF>>}}

VARIABLE running

mcVars == <<logVars, snapshotVars, parserVars, httpVars, recordVars, netVars, running>>

NoMessage == CHOOSE m \in Messages : TRUE
NoRequest == CHOOSE r \in HttpRequests : r.body = <<>>

MCInit ==
  /\ LogInit /\ SnapshotInit /\ RecordInit /\ NetInit
  /\ \/ running = "parser" /\ ParserInit /\ request = NoRequest /\ HttpInit
     \/ running = "http" /\ sent = NoMessage /\ ParserInit /\ HttpInit
     \/ /\ running \in {"log", "snapshot", "record", "servers"}
        /\ sent = NoMessage /\ ParserInit /\ request = NoRequest /\ HttpInit

MCNext ==
  /\ \/ /\ running = "log" /\ LogNext
        /\ UNCHANGED <<snapshotVars, parserVars, httpVars, recordVars, netVars>>
     \/ /\ running = "snapshot" /\ SnapshotNext
        /\ UNCHANGED <<logVars, parserVars, httpVars, recordVars, netVars>>
     \/ /\ running = "parser" /\ ParserNext
        /\ UNCHANGED <<logVars, snapshotVars, httpVars, recordVars, netVars>>
     \/ /\ running = "http" /\ HttpNext
        /\ UNCHANGED <<logVars, snapshotVars, parserVars, recordVars, netVars>>
     \/ /\ running = "record" /\ RecordNext
        /\ UNCHANGED <<logVars, snapshotVars, parserVars, httpVars, netVars>>
     \/ /\ running = "servers" /\ NetNext
        /\ UNCHANGED <<logVars, snapshotVars, parserVars, httpVars, recordVars>>
  /\ UNCHANGED running

MCSpec == MCInit /\ [][MCNext]_mcVars /\ LogFairness
=============================================================================
