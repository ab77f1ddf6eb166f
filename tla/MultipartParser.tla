--------------------------- MODULE MultipartParser ---------------------------
(***************************************************************************)
(* Parsing of a multipart/form-data body (lib/http-body-parser): the       *)
(* MultipartParser reads the body in the chunks TCP happens to deliver and *)
(* pushes events into a stream, and a second transform, which may wait     *)
(* while a part is saved, builds the parts from them later.  An event      *)
(* does not copy: it refers to the chunk or to the parser's lookbehind     *)
(* buffer, in which a possible delimiter is remembered.                    *)
(*                                                                         *)
(* Bytes are tokens: those of the delimiter, the ones the grammar of       *)
(* headers needs, and "x" for any other.  Buffers are indexed from 0.      *)
(***************************************************************************)
EXTENDS Integers, Sequences, FiniteSets, SequencesExt

CONSTANTS
  BoundaryStr,   \* the boundary of the content-type header
  Letters,       \* the letters header fields are made of
  Messages,      \* bodies that are sent: the parts of each
  MaxCuts,       \* bound: cuts of a body into chunks
  HighWater      \* objects the stream between the transforms holds before it pushes back

CR == "CR"  LF == "LF"  HYPHEN == "-"  COLON == ":"  SPACE == " "
Bytes == {CR, LF, HYPHEN, COLON, SPACE, "x"} \union Letters \union ToSet(BoundaryStr)

Boundary == <<CR, LF, HYPHEN, HYPHEN>> \o BoundaryStr
BoundaryLength == Len(Boundary)
At(buf, i) == buf[i + 1]
Slice(buf, start, end) == SubSeq(buf, start + 1, end)
Includes(buf, str) == \E i \in 0..(Len(buf) - Len(str)) : Slice(buf, i, i + Len(str)) = str

\* A client chooses a boundary that is in none of the parts; what it puts in a header has
\* no line end, and the spaces in front of a value do not belong to it.
Fields == Seq(Letters \union {HYPHEN}) \ {<<>>}
Values == {v \in Seq(Bytes \ {CR}) : v # <<>> => Head(v) # SPACE}
Datas == {d \in Seq(Bytes) : ~Includes(d, Boundary)}
Parts == [headers : Seq([field : Fields, value : Values]), data : Datas]
ASSUME ParserAssumption ==
  /\ BoundaryStr \in Seq(Bytes \ {CR})
  /\ Letters \cap {CR, LF, HYPHEN, COLON, SPACE} = {}
  /\ \A m \in Messages : m \in Seq(Parts) \ {<<>>}

-----------------------------------------------------------------------------
(* What a client sends: each part has headers [field, value] and data.     *)
HeaderBytes(h) == h.field \o <<COLON, SPACE>> \o h.value \o <<CR, LF>>
PartBytes(p) == FlattenSeq([i \in DOMAIN p.headers |-> HeaderBytes(p.headers[i])]) \o <<CR, LF>> \o p.data
Encode(parts) ==
  Tail(Tail(FlattenSeq([i \in DOMAIN parts |-> Boundary \o <<CR, LF>> \o PartBytes(parts[i])])))
    \o Boundary \o <<HYPHEN, HYPHEN, CR, LF>>

EmptyPart == [headers |-> <<>>, data |-> <<>>]   \* what is pushed if nothing follows partBegin

VARIABLES
  sent,      \* the parts of the body
  rest,      \* bytes of the body that have not arrived
  cuts,      \* chunks so far
  parser,    \* the fields of MultipartParser
  events,    \* pushed and not yet taken by the second transform
  part,      \* the FileParser of the second transform, with the header being read
  results,   \* parts it has pushed
  ended      \* "no", "flushed", "done" (push(null)), "refused" or "failed"

parserVars == <<sent, rest, cuts, parser, events, part, results, ended>>

NoMark == -1
NewParser == [index |-> 0, state |-> "START", flags |-> {},
              lookbehind |-> [i \in 0..BoundaryLength |-> "x"],
              headerField |-> NoMark, headerValue |-> NoMark, partData |-> NoMark]

-----------------------------------------------------------------------------
(* One turn of the loop of _transform.  p is the parser with i, the chunk,  *)
(* and what was pushed; err is done(this._endUnexpected()).                 *)
Fail(p) == [p EXCEPT !.err = TRUE]
Push(p, name) == [p EXCEPT !.out = Append(@, [name |-> name, from |-> "none", data |-> <<>>])]

\* _handleCallback with a buffer: nothing is pushed for an empty range.
PushSlice(p, name, start, end) ==
  IF start = end THEN p
  ELSE [p EXCEPT !.out = Append(@, [name |-> name, from |-> "chunk", data |-> Slice(p.chunk, start, end)])]

\* What lookbehind holds at the push is kept as data; what it holds when the event is
\* taken is what counts.
PushLookbehind(p, end) ==
  [p EXCEPT !.out = Append(@, [name |-> "partData", from |-> "lookbehind",
                               data |-> [i \in 1..end |-> p.lookbehind[i - 1]]])]

\* dataCallback(name, true)
EndMark(p, name) ==
  IF p[name] = NoMark THEN p
  ELSE [PushSlice(p, name, p[name], p.i) EXCEPT ![name] = NoMark]

\* dataCallback(name) at the end of a chunk
CarryMark(p, name) ==
  IF p[name] = NoMark THEN p
  ELSE [PushSlice(p, name, p[name], Len(p.chunk)) EXCEPT ![name] = 0]


StartBoundary(p, c) ==
  LET index == IF p.state = "START" THEN 0 ELSE p.index
      q == [p EXCEPT !.state = "START_BOUNDARY"]
  IN CASE index = BoundaryLength - 2 ->
            IF c = HYPHEN THEN [q EXCEPT !.flags = @ \union {"LAST"}, !.index = index + 1]
            ELSE IF c = CR THEN [q EXCEPT !.index = index + 1]
            ELSE Fail(q)
       [] index = BoundaryLength - 1 ->
            IF "LAST" \in p.flags /\ c = HYPHEN
              THEN [Push(q, "end") EXCEPT !.state = "END", !.flags = {}]
            ELSE IF "LAST" \notin p.flags /\ c = LF
              THEN [Push(q, "partBegin") EXCEPT !.index = 0, !.state = "HEADER_FIELD_START"]
            ELSE Fail(q)
       [] OTHER ->
            IF c = At(Boundary, index + 2) THEN [q EXCEPT !.index = index + 1]
            ELSE [q EXCEPT !.index = IF c = At(Boundary, 0) THEN -1 ELSE -2]

HeaderField(p, c) ==
  LET q == IF p.state = "HEADER_FIELD_START"
             THEN [p EXCEPT !.state = "HEADER_FIELD", !.headerField = p.i, !.index = 0] ELSE p
  IN CASE c = CR -> [q EXCEPT !.headerField = NoMark, !.state = "HEADERS_ALMOST_DONE"]
       [] c = HYPHEN -> [q EXCEPT !.index = @ + 1]
       [] c = COLON ->
            IF q.index = 0 THEN Fail(q)
            ELSE [EndMark(q, "headerField") EXCEPT !.index = @ + 1, !.state = "HEADER_VALUE_START"]
       [] c \in Letters -> [q EXCEPT !.index = @ + 1]
       [] OTHER -> Fail(q)

HeaderValue(p, c) ==
  IF p.state = "HEADER_VALUE_START" /\ c = SPACE THEN p
  ELSE LET q == IF p.state = "HEADER_VALUE_START"
                  THEN [p EXCEPT !.headerValue = p.i, !.state = "HEADER_VALUE"] ELSE p
       IN IF c = CR
            THEN [Push(EndMark(q, "headerValue"), "headerEnd") EXCEPT !.state = "HEADER_VALUE_ALMOST_DONE"]
            ELSE q

\* Boyer-Moore: from i on, the first place whose end a delimiter's byte could be at.
SkipTo(p) ==
  LET end == BoundaryLength - 1
      stops == {k \in 0..Len(p.chunk) :
                  LET j == p.i + end + k * BoundaryLength
                  IN j >= Len(p.chunk) \/ At(p.chunk, j) \in ToSet(Boundary)}
  IN p.i + BoundaryLength * (CHOOSE k \in stops : \A l \in stops : k <= l)

\* The byte c has been compared: go on with the match, or give up and take the bytes that
\* were held back as data; c is then looked at again.
Matched(p, c) == [p EXCEPT !.lookbehind[p.index - 1] = c]

\* Mutant: the byte that ended the match is not looked at again.
GivenUpNoReconsider(p, prevIndex) ==
  [PushLookbehind(p, prevIndex) EXCEPT !.partData = p.i]

GivenUp(p, prevIndex) ==
  [PushLookbehind(p, prevIndex) EXCEPT !.partData = p.i, !.i = @ - 1]

PartData(p0) ==
  LET p1 == IF p0.state = "PART_DATA_START"
              THEN [p0 EXCEPT !.state = "PART_DATA", !.partData = p0.i] ELSE p0
      prev == p1.index
      p == IF prev = 0 THEN [p1 EXCEPT !.i = SkipTo(p1)] ELSE p1
      c == IF p.i < Len(p.chunk) THEN At(p.chunk, p.i) ELSE "none"     \* buffer[i]
      settle(q) == IF q.index > 0 THEN Matched(q, c)
                   ELSE IF prev > 0 THEN GivenUp(q, prev) ELSE q
  IN CASE prev < BoundaryLength ->
            IF c = At(Boundary, prev)
              THEN settle([IF prev = 0 THEN EndMark(p, "partData") ELSE p EXCEPT !.index = prev + 1])
              ELSE settle([p EXCEPT !.index = 0])
       [] prev = BoundaryLength ->
            settle(CASE c = CR -> [p EXCEPT !.index = prev + 1, !.flags = @ \union {"PART"}]
                     [] c = HYPHEN -> [p EXCEPT !.index = prev + 1, !.flags = @ \union {"LAST"}]
                     [] OTHER -> [p EXCEPT !.index = 0])
       [] OTHER ->
            CASE "PART" \in p.flags /\ c = LF ->
                   [Push(Push(p, "partEnd"), "partBegin") EXCEPT
                      !.index = 0, !.flags = @ \ {"PART"}, !.state = "HEADER_FIELD_START"]
              [] "PART" \notin p.flags /\ "LAST" \in p.flags /\ c = HYPHEN ->
                   Matched([Push(Push(p, "partEnd"), "end") EXCEPT !.state = "END", !.flags = {}], c)
              [] OTHER -> settle([p EXCEPT !.index = 0])

Almost(p, c, name, state) ==
  IF c # LF THEN Fail(p)
  ELSE [IF name = "none" THEN p ELSE Push(p, name) EXCEPT !.state = state]

Turn(p) ==
  LET c == At(p.chunk, p.i)
      q == CASE p.state \in {"START", "START_BOUNDARY"} -> StartBoundary(p, c)
             [] p.state \in {"HEADER_FIELD_START", "HEADER_FIELD"} -> HeaderField(p, c)
             [] p.state \in {"HEADER_VALUE_START", "HEADER_VALUE"} -> HeaderValue(p, c)
             [] p.state = "HEADER_VALUE_ALMOST_DONE" -> Almost(p, c, "none", "HEADER_FIELD_START")
             [] p.state = "HEADERS_ALMOST_DONE" -> Almost(p, c, "headersEnd", "PART_DATA_START")
             [] p.state \in {"PART_DATA_START", "PART_DATA"} -> PartData(p)
             [] p.state = "END" -> p
  IN [q EXCEPT !.i = @ + 1]

\* No byte is looked at more than twice.
TurnIfAny(p) == IF p.err \/ p.i >= Len(p.chunk) THEN p ELSE Turn(p)
Loop(p) ==
  LET turns[n \in 0..2 * Len(p.chunk)] == IF n = 0 THEN p ELSE TurnIfAny(turns[n - 1])
  IN turns[2 * Len(p.chunk)]

Start(chunk) ==
  [index |-> parser.index, state |-> parser.state, flags |-> parser.flags,
   lookbehind |-> parser.lookbehind, headerField |-> parser.headerField,
   headerValue |-> parser.headerValue, partData |-> parser.partData,
   i |-> 0, chunk |-> chunk, out |-> <<>>, err |-> FALSE]

Saved(p) ==
  [index |-> p.index, state |-> p.state, flags |-> p.flags, lookbehind |-> p.lookbehind,
   headerField |-> p.headerField, headerValue |-> p.headerValue, partData |-> p.partData]

-----------------------------------------------------------------------------
(* _transform of a chunk.  done() is called at the end of it, and the next  *)
(* chunk is taken while the stream between the transforms has room.         *)
AtEndOfChunk(p) ==
  IF p.err THEN p ELSE CarryMark(CarryMark(CarryMark(p, "headerField"), "headerValue"), "partData")

Transform(n) ==
  /\ ended = "no" /\ Len(events) < HighWater
  /\ n \in 1..Len(rest) /\ (n = Len(rest) \/ cuts < MaxCuts)
  /\ \E p \in {AtEndOfChunk(Loop(Start(SubSeq(rest, 1, n))))} :
       /\ events' = events \o p.out
       /\ parser' = Saved(p)
       /\ ended' = IF p.err THEN "failed" ELSE "no"
  /\ rest' = SubSeq(rest, n + 1, Len(rest))
  /\ cuts' = cuts + 1
  /\ UNCHANGED <<sent, part, results>>

PushBoth(a, b) == <<[name |-> a, from |-> "none", data |-> <<>>], [name |-> b, from |-> "none", data |-> <<>>]>>

\* After a delimiter the last part is taken for complete.
EndsWithinData ==
  \/ parser.state = "HEADER_FIELD_START" /\ parser.index = 0
  \/ parser.state = "PART_DATA" /\ parser.index = BoundaryLength

\* The body ends, after its last byte or, truncated, before.
Flush ==
  /\ ended = "no"
  /\ events' = IF EndsWithinData THEN events \o PushBoth("partEnd", "end") ELSE events
  /\ ended' = IF EndsWithinData \/ parser.state = "END" THEN "flushed" ELSE "refused"
  /\ UNCHANGED <<sent, rest, cuts, parser, part, results>>

-----------------------------------------------------------------------------
(* The second transform takes the events one by one.                        *)
NewPart == [headers |-> <<>>, data |-> <<>>, field |-> <<>>, value |-> <<>>]

\* The bytes an event refers to, when it is taken.
Resolve(e) ==
  IF e.from = "lookbehind" THEN [i \in DOMAIN e.data |-> parser.lookbehind[i - 1]] ELSE e.data

Absorb(e) ==
  CASE e.name = "partBegin" -> NewPart
    [] e.name = "headerField" -> [part EXCEPT !.field = @ \o Resolve(e)]
    [] e.name = "headerValue" -> [part EXCEPT !.value = @ \o Resolve(e)]
    [] e.name = "headerEnd" ->
         [part EXCEPT !.headers = Append(@, [field |-> part.field, value |-> part.value]),
                      !.field = <<>>, !.value = <<>>]
    [] e.name = "partData" -> [part EXCEPT !.data = @ \o Resolve(e)]
    [] OTHER -> part

Consume ==
  /\ ended \in {"no", "flushed"} /\ events # <<>>
  /\ LET e == Head(events)
     IN /\ part' = Absorb(e)
        /\ results' = IF e.name = "partEnd"
                        THEN Append(results, [headers |-> part.headers, data |-> part.data]) ELSE results
        /\ ended' = IF e.name = "end" THEN "done" ELSE ended
  /\ events' = Tail(events)
  /\ UNCHANGED <<sent, rest, cuts, parser>>

-----------------------------------------------------------------------------
ParserInit ==
  /\ sent \in Messages
  /\ rest = Encode(sent) /\ cuts = 0
  /\ parser = NewParser /\ events = <<>>
  /\ part = NewPart /\ results = <<>> /\ ended = "no"

ParserNext == (\E n \in 1..Len(rest) : Transform(n)) \/ Flush \/ Consume

ParserSpec == ParserInit /\ [][ParserNext]_parserVars

-----------------------------------------------------------------------------
(* Properties *)

\* Wherever the body is cut into chunks, and however late the second transform runs, the
\* parts come out as they were sent, none torn: those of a body that ends early, after a
\* delimiter with an empty one as well, and all of one that arrives whole, which is never
\* refused.
PartsAsSent ==
  /\ \/ IsPrefix(results, sent)
     \/ /\ ended \in {"flushed", "done"} /\ rest # <<>> /\ Last(results) = EmptyPart
        /\ IsPrefix(Front(results), sent)
  /\ ended # "failed"
  /\ ended = "refused" => rest # <<>>
  /\ ended = "done" /\ rest = <<>> => results = sent
=============================================================================
