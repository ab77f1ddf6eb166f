------------------------------ MODULE HttpOverTcp ------------------------------
(***************************************************************************)
(* HTTP over a plain socket (http/tcp): the client writes a request's      *)
(* header part and body on the connection (client/send.ts), the server     *)
(* reads the header part line by line and the body from the chunks that    *)
(* follow (service/internal/http-incoming-message.ts) and echoes it        *)
(* (server/server.ts); the client takes what comes until the end.          *)
(*                                                                         *)
(* A chunk is any piece of the bytes on the way: what was written together *)
(* may come apart and the other way round.  A line is a token for its text *)
(* and the two of its end; a chunk's size is one digit.                    *)
(***************************************************************************)
EXTENDS Integers, SequencesExt

CONSTANTS
  BodyBytes,      \* bytes of a body
  MaxBody     \* bound on its length

ASSUME BodyAssumption == MaxBody \in Nat

Bodies == UNION {[1..n -> BodyBytes] : n \in 0..MaxBody}
CRLF == <<"CR", "LF">>

\* What the caller asks to send; `declared' is his own content-length.
HttpRequests ==
  [mode : {"length"}, valid : BOOLEAN, declared : 0..MaxBody + 1, body : Bodies]
    \cup [mode : {"chunked"}, valid : BOOLEAN, declared : {0}, body : Bodies]

VARIABLES
  request,    \* the request of this behaviour
  writes,     \* what the client has yet to write
  wire,       \* bytes on their way to the server
  phase,      \* of the server: "first", "headers", "body", "done" or "crashed"
  headers,    \* the lines it parsed
  count,      \* receivedDataLength
  received,   \* the body it passed on
  answer,     \* bytes on their way to the client, or <<>>
  answered,   \* the server has ended the connection
  got,        \* bytes the client has collected
  result      \* <<what its call returned>>, <<>> before

httpVars == <<request, writes, wire, phase, headers, count, received,
              answer, answered, got, result>>

-----------------------------------------------------------------------------
(* The client.                                                             *)
HeaderLine(r) == IF r.mode = "chunked" THEN "transfer-encoding" ELSE "content-length"

\* sendHttpRequestByTcp writes a stream as size lines, data and line ends.
PiecesOf(r) ==
  IF r.mode = "chunked"
  THEN [i \in 1..3 * Len(r.body) |->
          CASE i % 3 = 1 -> <<"1">> \o CRLF
            [] i % 3 = 2 -> <<r.body[(i + 1) \div 3]>>
            [] OTHER     -> CRLF] \o <<<<"0">> \o CRLF, CRLF>>
  ELSE IF r.body = <<>> THEN <<>> ELSE <<r.body>>

WritesOf(r) ==
  <<<<IF r.valid THEN "first" ELSE "other">> \o CRLF \o <<HeaderLine(r)>> \o CRLF \o CRLF>>
    \o PiecesOf(r)

ClientWrites ==
  /\ writes # <<>>
  /\ wire' = wire \o Head(writes)
  /\ writes' = Tail(writes)
  /\ UNCHANGED <<request, phase, headers, count, received, answer, answered, got, result>>

-----------------------------------------------------------------------------
(* getOneLineFromReader: byte by byte until the line's end has come.       *)
LineEnds == {i \in 2..Len(wire) : SubSeq(wire, i - 1, i) = CRLF}

ReadsLine(i) ==
  /\ i \in LineEnds /\ \A j \in LineEnds : i <= j
  /\ wire' = SubSeq(wire, i + 1, Len(wire))

Line(i) == SubSeq(wire, 1, i - 2)

\* httpResponseInfoToBuffer and the end of the connection.
Respond(body) ==
  /\ phase' = "done"
  /\ answer' = <<"200">> \o CRLF \o CRLF \o body
  /\ answered' = TRUE

(* tryParseHttpRequestFirstLine: one that is no first line leaves no       *)
(* header part; the server answers all the same, with nothing.             *)
ParseFirstLine ==
  /\ phase = "first"
  /\ \E i \in LineEnds :
       /\ ReadsLine(i)
       /\ IF Line(i) = <<"first">>
          THEN phase' = "headers" /\ UNCHANGED <<answer, answered>>
          ELSE Respond(<<>>)
  /\ UNCHANGED <<request, writes, headers, count, received, got, result>>

(* tryParseHttpHeaders, up to the empty line, and parseBody.               *)
ParseHeader ==
  /\ phase = "headers"
  /\ \E i \in LineEnds :
       /\ ReadsLine(i)
       /\ headers' = headers \cup ToSet(Line(i))
       /\ IF Line(i) # <<>>
          THEN UNCHANGED <<phase, answer, answered>>
          ELSE IF "transfer-encoding" \in headers \/ request.declared > 0
          THEN phase' = "body" /\ UNCHANGED <<answer, answered>>
          ELSE Respond(<<>>)
  /\ UNCHANGED <<request, writes, count, received, got, result>>

\* An error thrown in a listener ends the process.
ServerCrashes == phase' = "crashed" /\ UNCHANGED <<received, answer, answered>>

Chunk(n) == SubSeq(wire, 1, n)
TakesChunk(n) == wire' = SubSeq(wire, n + 1, Len(wire))

PassOn(data, end) ==
  /\ received' = received \o data
  /\ IF end THEN Respond(received') ELSE UNCHANGED <<phase, answer, answered>>

\* Mutant: the end is noticed with the next chunk only.
HandleDataByContentLengthLate(n) ==
  /\ phase = "body" /\ "transfer-encoding" \notin headers
  /\ TakesChunk(n)
  /\ count' = count + n
  /\ IF count' < request.declared THEN PassOn(Chunk(n), FALSE) ELSE ServerCrashes
  /\ UNCHANGED <<request, writes, headers, got, result>>

(* _handleDataByContentLength                                              *)
HandleDataByContentLength(n) ==
  /\ phase = "body" /\ "transfer-encoding" \notin headers
  /\ TakesChunk(n)
  /\ count' = count + n
  /\ IF count' <= request.declared
     THEN PassOn(Chunk(n), count' = request.declared) ELSE ServerCrashes
  /\ UNCHANGED <<request, writes, headers, got, result>>

(* _handleChunkedData: a chunk has to begin with a size line and to hold   *)
(* all the data; of it, the first bytes of the chunk itself are passed on. *)
SizeOf(chunk) == IF Len(chunk) >= 3 /\ SubSeq(chunk, 2, 3) = CRLF
                 THEN CASE chunk[1] = "0" -> 0 [] chunk[1] = "1" -> 1 [] OTHER -> -1
                 ELSE -1

HandleChunkedData(n) ==
  /\ phase = "body" /\ "transfer-encoding" \in headers
  /\ TakesChunk(n)
  /\ LET size == SizeOf(Chunk(n)) IN
       IF size = -1 \/ n - 3 < size
       THEN ServerCrashes ELSE PassOn(SubSeq(Chunk(n), 1, size), size = 0)
  /\ UNCHANGED <<request, writes, headers, count, got, result>>

-----------------------------------------------------------------------------
(* getDataFromReadable: all the data until the end.                        *)
CollectAnswer(n) ==
  /\ result = <<>>
  /\ got' = got \o SubSeq(answer, 1, n)
  /\ answer' = SubSeq(answer, n + 1, Len(answer))
  /\ UNCHANGED <<request, writes, wire, phase, headers, count, received, answered, result>>

EndAnswer ==
  /\ result = <<>> /\ answered /\ answer = <<>>
  /\ result' = <<got>>
  /\ UNCHANGED <<request, writes, wire, phase, headers, count, received, answer, answered, got>>

HttpInit ==
  /\ request \in HttpRequests
  /\ writes = WritesOf(request)
  /\ wire = <<>> /\ phase = "first" /\ headers = {} /\ count = 0 /\ received = <<>>
  /\ answer = <<>> /\ answered = FALSE /\ got = <<>> /\ result = <<>>

HttpNext ==
  \/ ClientWrites \/ ParseFirstLine \/ ParseHeader \/ EndAnswer
  \/ \E n \in 1..Len(wire) : HandleDataByContentLength(n) \/ HandleChunkedData(n)
  \/ \E n \in 1..Len(answer) : CollectAnswer(n)

HttpSpec == HttpInit /\ [][HttpNext]_httpVars

-----------------------------------------------------------------------------
(* A request whose length is that of its body is echoed whole, wherever    *)
(* its header part and body are cut on the way (http-incoming-message.ts). *)
EchoAsSent ==
  request.valid /\ request.mode = "length" /\ request.declared = Len(request.body) =>
    /\ phase # "crashed"
    /\ result # <<>> => result[1] = <<"200">> \o CRLF \o CRLF \o request.body
=============================================================================
