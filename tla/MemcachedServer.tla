---------------------------- MODULE MemcachedServer ----------------------------
(* One connection of the memcached server (lib/memcached/server/index.ts):    *)
(* commands arrive as a stream of bytes that the network cuts where it likes, *)
(* and onData puts them together again.  onData runs to its end before the    *)
(* next chunk is handed to it; each turn of its loop is an action, and a      *)
(* chunk is delivered only when the loop has emptied the buffer.              *)
(*                                                                            *)
(* What the commands do is MemcachedStore's subject; here they are recorded   *)
(* in the order and with the data blocks they are executed with.              *)
EXTENDS MemcachedFraming

CONSTANT Scripts         \* what a client may send: sequences of commands

(* A command has its data block, or NoBlock when it is a get or a delete.     *)
NoBlock == <<"none">>

ASSUME ScriptAssumption ==
  \A s \in Scripts : s \in Seq(Range(s)) /\ \A i \in DOMAIN s : s[i] \in Seq(Range(s[i]))

VARIABLES script,        \* what the client sends in this behaviour
          stream,        \* the tokens the network still has
          cachedBuffer,
          commandInfo,   \* the command whose block is awaited, or 0
          value,         \* what the awaited block already has
          executed,      \* the commands handed to the store
          crashed,       \* an exception left onData: the process is gone
          harmed         \* history: a chunk has begun in the middle of a line or
                         \* of the line end of a block, or a block was empty

serverVars == <<script, stream, cachedBuffer, commandInfo, value, executed, crashed, harmed>>

Wire(i) == IF script[i] = NoBlock THEN Line(i) ELSE Line(i) \o Block(script[i], i)

(* <bytes> of the command line; lines without it leave it undefined, and      *)
(* tryConsumeData takes that for 0.                                           *)
BytesOfCommand(i) == IF script[i] = NoBlock THEN 0 ELSE Len(script[i])

ServerInit ==
  /\ script \in Scripts
  /\ stream = FlattenSeq([i \in DOMAIN script |-> Wire(i)])
  /\ cachedBuffer = <<>>
  /\ commandInfo = 0
  /\ value = <<>>
  /\ executed = <<>>
  /\ crashed = FALSE
  /\ harmed = \E i \in DOMAIN script : script[i] = <<>>

(* The network hands over a chunk; nothing is left over from the last one.    *)
ReceiveChunk(n) ==
  /\ ~crashed /\ cachedBuffer = <<>>
  /\ n \in 1..Len(stream)
  /\ cachedBuffer' = SubSeq(stream, 1, n)
  /\ stream' = SubSeq(stream, n + 1, Len(stream))
  /\ harmed' = (harmed \/ ~HarmlessCut(stream, n))
  /\ UNCHANGED <<script, commandInfo, value, executed, crashed>>

\* Mutant: the command is executed with whatever part of its block is there.
ContinueCommandEarly(i, taken) ==
  /\ cachedBuffer' = taken.rest
  /\ executed' = Append(executed, [id |-> i, block |-> taken.value])
  /\ commandInfo' = 0 /\ value' = <<>>

\* Mutant: the command is executed only when another byte has come.
ContinueCommandLate(i, taken) ==
  /\ cachedBuffer' = taken.rest
  /\ IF Len(taken.value) = BytesOfCommand(i) /\ taken.rest # <<>>
     THEN /\ executed' = Append(executed, [id |-> i, block |-> taken.value])
          /\ commandInfo' = 0 /\ value' = <<>>
     ELSE /\ commandInfo' = i /\ value' = taken.value
          /\ UNCHANGED executed

(* Goes on with what TakeBlock made of the buffer: the command is executed    *)
(* as soon as its block has all its bytes, and awaited otherwise.             *)
ContinueCommand(i, taken) ==
  /\ cachedBuffer' = taken.rest
  /\ IF Len(taken.value) = BytesOfCommand(i)
     THEN /\ executed' = Append(executed, [id |-> i, block |-> taken.value])
          /\ commandInfo' = 0 /\ value' = <<>>
     ELSE /\ commandInfo' = i /\ value' = taken.value
          /\ UNCHANGED executed

(* A command line is parsed.  Without a block, or with one of no bytes,       *)
(* nothing of what follows is touched.                                        *)
ParseCommandLine ==
  /\ ~crashed /\ cachedBuffer # <<>> /\ commandInfo = 0
  /\ StartsWithLine(cachedBuffer)
  /\ LET i == cachedBuffer[1].id
         rest == AfterLine(cachedBuffer)
     IN  ContinueCommand(i, IF BytesOfCommand(i) = 0 THEN [value |-> <<>>, rest |-> rest]
                                                     ELSE TakeBlock(<<>>, BytesOfCommand(i), rest))
  /\ UNCHANGED <<script, stream, crashed, harmed>>

(* What is in the buffer is no command line: parseFirstLine throws, nobody    *)
(* catches it, and the process ends.                                          *)
ParseThrows ==
  /\ ~crashed /\ cachedBuffer # <<>> /\ commandInfo = 0
  /\ ~StartsWithLine(cachedBuffer)
  /\ crashed' = TRUE
  /\ UNCHANGED <<script, stream, cachedBuffer, commandInfo, value, executed, harmed>>

ConsumeBlock ==
  /\ ~crashed /\ cachedBuffer # <<>> /\ commandInfo # 0
  /\ ContinueCommand(commandInfo, TakeBlock(value, BytesOfCommand(commandInfo), cachedBuffer))
  /\ UNCHANGED <<script, stream, crashed, harmed>>

OnData == ParseCommandLine \/ ParseThrows \/ ConsumeBlock

ServerNext == (\E n \in 1..Len(stream) : ReceiveChunk(n)) \/ OnData

ServerSpec == ServerInit /\ [][ServerNext]_serverVars

(* The network delivers what was sent, and the event loop runs its callbacks. *)
ServerFairness == WF_serverVars(ServerNext)

FairServerSpec == ServerSpec /\ ServerFairness

-----------------------------------------------------------------------------
BlockOf(i) == IF script[i] = NoBlock THEN <<>> ELSE script[i]

(* However the stream is cut, what is executed is what was sent: the same     *)
(* commands in the same order, each with its own whole data block, even where *)
(* a block holds line ends or looks like a command.                           *)
ExecutedAsSent ==
  /\ Len(executed) <= Len(script)
  /\ \A j \in DOMAIN executed : executed[j] = [id |-> j, block |-> BlockOf(j)]

(* The server never stops half way: it executes all that was sent, or its     *)
(* process has ended.                                                         *)
AllExecutedOrCrashed == <>(crashed \/ Len(executed) = Len(script))

(* Only two things end the process: a chunk that begins in a line or in the   *)
(* CR LF behind a block, and an empty block.  Every other way to cut the      *)
(* stream, inside a block above all, is put together again.                   *)
CrashOnlyIfHarmed == crashed => harmed
=============================================================================
