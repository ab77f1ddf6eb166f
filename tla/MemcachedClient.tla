---------------------------- MODULE MemcachedClient ----------------------------
(* The memcached client (lib/memcached/client): callers share one connection, *)
(* every call writes its command and appends a handler to the queue of the    *)
(* connection, and whatever arrives goes to the first handler.  A caller      *)
(* awaits its answer before it calls again; several callers overlap.          *)
(*                                                                            *)
(* The data callback runs to its end before the next chunk or call, so every  *)
(* turn of its loops is an action and calls and chunks wait for an empty      *)
(* buffer.  The server is external to this module: it answers the commands    *)
(* in order, with any values.  The identity of a HEAD token says which reply  *)
(* it belongs to and what its line says.                                      *)
EXTENDS MemcachedFraming

CONSTANTS Callers,
          Kinds,         \* what is called: "save", "get", "delete", "noreply"
          Values,        \* the data blocks a get may find
          STATUS,        \* the text of a save or delete reply
          MaxCalls       \* bound on the calls made

ASSUME ClientAssumption ==
  /\ Kinds \subseteq {"save", "get", "delete", "noreply"}
  /\ \A b \in Values : b \in Seq(Range(b))
  /\ MaxCalls \in Nat

VARIABLES requests,          \* the calls made: who called what
          waiting,           \* the request each caller awaits, or 0
          toServer,          \* requests the server has not answered
          fromServer,        \* tokens of replies under way
          sent,              \* what the server meant to answer to each request
          dataHandlerQueue,  \* requests whose handler is queued; 0: undefined
          clientBuffer,
          getState,          \* the first handler's own state, if it is a get's
          answers,           \* what each request was answered
          failure,           \* the exception that ended the process, or "none"
          misread            \* history: a chunk has held more than one reply or
                             \* begun in a line, or noreply has been used

clientVars == <<requests, waiting, toServer, fromServer, sent, dataHandlerQueue,
                clientBuffer, getState, answers, failure, misread>>

ReplyLine(r, line, bytes) == [reply |-> r, line |-> line, bytes |-> bytes]

\* A line END, or a line VALUE with its block and then END.
EndReply(r) == Line(ReplyLine(r, "END", 0))
ValueReply(r, b) ==
  LET id == ReplyLine(r, "VALUE", Len(b)) IN Line(id) \o Block(b, id) \o EndReply(r)
(* A status text; after a save CR and LF follow it, after a delete they do    *)
(* not.  The network may cut it in two.                                       *)
StatusReply(r, kind) ==
  LET id == ReplyLine(r, "STATUS", 0)
  IN  <<Token(STATUS, "head", id), Token(STATUS, "line", id)>>
        \o (IF kind = "save" THEN <<Token(CR, "line", id), Token(LF, "line", id)>> ELSE <<>>)

NewHandler == [awaited |-> 0, value |-> <<>>, results |-> <<>>, done |-> FALSE]

ClientInit ==
  /\ requests = <<>>
  /\ waiting = [c \in Callers |-> 0]
  /\ toServer = <<>>
  /\ fromServer = <<>>
  /\ sent = <<>>
  /\ dataHandlerQueue = <<>>
  /\ clientBuffer = <<>>
  /\ getState = NewHandler
  /\ answers = <<>>
  /\ failure = "none"
  /\ misread = FALSE

Idle == failure = "none" /\ clientBuffer = <<>>

(* A call writes its command and queues its handler in one go.  delete with   *)
(* noreply resolves at once, and queues an undefined handler.                 *)
Call(c, kind) ==
  LET r == Len(requests) + 1
  IN  /\ Idle /\ waiting[c] = 0 /\ r <= MaxCalls
      /\ requests' = Append(requests, [caller |-> c, kind |-> kind])
      /\ toServer' = Append(toServer, r)
      /\ answers' = Append(answers, <<>>)
      /\ dataHandlerQueue' = Append(dataHandlerQueue, IF kind = "noreply" THEN 0 ELSE r)
      /\ waiting' = [waiting EXCEPT ![c] = IF kind = "noreply" THEN 0 ELSE r]
      /\ misread' = (misread \/ kind = "noreply")
      /\ UNCHANGED <<fromServer, sent, clientBuffer, getState, failure>>

(* The server executes the next command and writes its reply.                 *)
ServerReply ==
  /\ toServer # <<>>
  /\ LET r == Head(toServer)
         kind == requests[r].kind
     IN  \/ /\ kind \in {"save", "delete"}
            /\ fromServer' = fromServer \o StatusReply(r, kind)
            /\ sent' = Append(sent, BytesOf(StatusReply(r, kind)))
         \/ /\ kind = "get"
            /\ \/ \E b \in Values : /\ fromServer' = fromServer \o ValueReply(r, b)
                                   /\ sent' = Append(sent, <<b>>)
               \/ fromServer' = fromServer \o EndReply(r) /\ sent' = Append(sent, <<>>)
         \/ kind = "noreply" /\ UNCHANGED fromServer /\ sent' = Append(sent, <<>>)
  /\ toServer' = Tail(toServer)
  /\ UNCHANGED <<requests, waiting, dataHandlerQueue, clientBuffer, getState, answers,
                 failure, misread>>

OneReply(n) == fromServer[n].id.reply = fromServer[1].id.reply

(* A chunk arrives.  If nobody waits for anything, the callback throws.       *)
ReceiveReply(n) ==
  /\ Idle
  /\ n \in 1..Len(fromServer)
  /\ clientBuffer' = SubSeq(fromServer, 1, n)
  /\ fromServer' = SubSeq(fromServer, n + 1, Len(fromServer))
  /\ failure' = IF dataHandlerQueue = <<>> THEN "no handler" ELSE "none"
  /\ misread' = (misread \/ ~HarmlessCut(fromServer, n) \/ ~OneReply(n))
  /\ UNCHANGED <<requests, waiting, toServer, sent, dataHandlerQueue, getState, answers>>

-----------------------------------------------------------------------------
Running(kinds) ==
  /\ failure = "none" /\ clientBuffer # <<>> /\ dataHandlerQueue # <<>>
  /\ Head(dataHandlerQueue) # 0
  /\ requests[Head(dataHandlerQueue)].kind \in kinds

\* Mutant: the handler that is done stays in the queue.
ResolveKept(answer) ==
  LET r == Head(dataHandlerQueue)
  IN  /\ answers' = [answers EXCEPT ![r] = answer]
      /\ waiting' = [waiting EXCEPT ![requests[r].caller] = 0]
      /\ getState' = NewHandler
      /\ UNCHANGED dataHandlerQueue

\* Mutant: the newest handler is taken for the one that is done.
ResolveLast(answer) ==
  LET r == Last(dataHandlerQueue)
  IN  /\ answers' = [answers EXCEPT ![r] = answer]
      /\ waiting' = [waiting EXCEPT ![requests[r].caller] = 0]
      /\ dataHandlerQueue' = Front(dataHandlerQueue)
      /\ getState' = NewHandler

(* The first handler is done: its caller goes on and the handler leaves.      *)
Resolve(answer) ==
  LET r == Head(dataHandlerQueue)
  IN  /\ answers' = [answers EXCEPT ![r] = answer]
      /\ waiting' = [waiting EXCEPT ![requests[r].caller] = 0]
      /\ dataHandlerQueue' = Tail(dataHandlerQueue)
      /\ getState' = NewHandler

(* A save or a delete takes the whole chunk for its answer.                   *)
HandleStatus ==
  /\ Running({"save", "delete"})
  /\ Resolve(BytesOf(clientBuffer))
  /\ clientBuffer' = <<>>
  /\ UNCHANGED <<requests, toServer, fromServer, sent, failure, misread>>

(* The handler of a get goes on until its buffer is empty, also after END: by *)
(* then it has resolved its caller, whose results are the same array still.   *)
ContinueGet(rest, state) ==
  /\ clientBuffer' = rest
  /\ IF rest = <<>> /\ state.done
     THEN Resolve(state.results)
     ELSE getState' = state /\ UNCHANGED <<waiting, dataHandlerQueue, answers>>
  /\ UNCHANGED <<requests, toServer, fromServer, sent, failure, misread>>

(* The state of the handler after more of a block of so many bytes.           *)
WithBlock(bytes, taken) ==
  IF Len(taken.value) = bytes
  THEN [getState EXCEPT !.awaited = 0, !.value = <<>>,
                        !.results = Append(@, taken.value)]
  ELSE [getState EXCEPT !.awaited = bytes, !.value = taken.value]

HandleGetLine ==
  /\ Running({"get"}) /\ getState.awaited = 0
  /\ StartsWithLine(clientBuffer)
  /\ LET head == clientBuffer[1].id
         rest == AfterLine(clientBuffer)
         taken == IF head.bytes = 0 THEN [value |-> <<>>, rest |-> rest]
                                    ELSE TakeBlock(<<>>, head.bytes, rest)
     IN  \/ head.line = "END" /\ ContinueGet(rest, [getState EXCEPT !.done = TRUE])
         \/ head.line = "VALUE" /\ ContinueGet(taken.rest, WithBlock(head.bytes, taken))

HandleGetBlock ==
  /\ Running({"get"}) /\ getState.awaited # 0
  /\ LET taken == TakeBlock(getState.value, getState.awaited, clientBuffer)
     IN  ContinueGet(taken.rest, WithBlock(getState.awaited, taken))

(* parseFirstLine throws in the handler of a get.                             *)
HandleThrows ==
  /\ Running({"get"}) /\ getState.awaited = 0
  /\ ~StartsWithLine(clientBuffer)
  /\ failure' = "parse"
  /\ UNCHANGED <<requests, waiting, toServer, fromServer, sent, dataHandlerQueue,
                 clientBuffer, getState, answers, misread>>

(* The first handler is undefined, and calling it throws.                     *)
HandleUndefined ==
  /\ failure = "none" /\ clientBuffer # <<>> /\ dataHandlerQueue # <<>>
  /\ Head(dataHandlerQueue) = 0
  /\ failure' = "undefined handler"
  /\ UNCHANGED <<requests, waiting, toServer, fromServer, sent, dataHandlerQueue,
                 clientBuffer, getState, answers, misread>>

Handle == HandleStatus \/ HandleGetLine \/ HandleGetBlock \/ HandleThrows \/ HandleUndefined

Receive == \E n \in 1..Len(fromServer) : ReceiveReply(n)

ClientNext ==
  \/ \E c \in Callers, kind \in Kinds : Call(c, kind)
  \/ ServerReply
  \/ Receive
  \/ Handle

ClientSpec == ClientInit /\ [][ClientNext]_clientVars

(* The server answers, the network delivers, the event loop runs callbacks.   *)
ClientFairness ==
  WF_clientVars(ServerReply) /\ WF_clientVars(Receive) /\ WF_clientVars(Handle)

FairClientSpec == ClientSpec /\ ClientFairness

-----------------------------------------------------------------------------
Ids == 1..Len(requests)

IsAnswered(r) == requests[r].kind # "noreply" /\ waiting[requests[r].caller] # r

(* Unless the network joins or tears replies and no noreply is used, whoever  *)
(* is answered has got what the server answered to its request, all of it and *)
(* nothing else: the queue has the order of the replies, for any number of    *)
(* callers and wherever blocks are cut.                                       *)
OwnAnswers ==
  ~misread => \A r \in Ids : IsAnswered(r) => r <= Len(sent) /\ answers[r] = sent[r]

\* A get was answered with an item of no bytes.
EmptyBlockFound == \E r \in 1..Len(sent) : requests[r].kind = "get" /\ sent[r] = <<<<>>>>

(* Nobody who calls waits for ever, unless replies were joined or torn, a     *)
(* noreply was used, or a get found an empty block: its CR LF is taken for a  *)
(* line, which throws.                                                        *)
AllAnswered == <>(misread \/ EmptyBlockFound) \/ \A c \in Callers : []<>(waiting[c] = 0)

(* <bytes> may be zero (README.md:61-62): those who get such a block go on as *)
(* well.                                                                      *)
EmptyBlocksAnswered == <>misread \/ \A c \in Callers : []<>(waiting[c] = 0)

=============================================================================
