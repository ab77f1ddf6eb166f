# TLA+ models of lib-node

lib-node is a collection of Node.js utilities in three layers: functions over one native module (`fs/`, `net/`,
`http/`, `stream/`, `child-process/`, `process/` ...), utilities over several of them (`utils/`), and feature
libraries (`lib/`). What is hard to test is in the feature libraries and the stateful utilities: programs that keep
state on disk, in other processes and in connections, and that go on after awaits, broken connections and restarts.
They are what is modelled here. Paths below are relative to the repository's root (`src/` in `PROJECT.json`).

Contents: 1 the system, 2 the modules, 3 the runs, 4 the proofs, 5 where code and documents disagree,
6 what is not modelled, 7 what could come next.

## 1 The system

| component | state it keeps | operations | what is hard | what makes it correct |
|---|---|---|---|---|
| assets-management: diff (`lib/assets-management/service/diff-meta.ts`) | two metas, the five lists | `diffMetaForSyncUp` | equal contents under several paths; an await in the loop | the lists turn one directory into the other, with least transfer |
| assets-management: push and pull (`tcp-protocol/`) | files of both sides, their persisted metas | connect, diff, send, move, copy, delete, record | cut transfers, stops between a file and its meta item, edits, metas taken before they are aligned | the meta never vouches for a content the disk lacks; success means synced; repeated pushes converge |
| assets-management: backup (`operation/assets-backup.ts`) | files of two directories, the target's meta | add, copy, move, delete, record | order of the lists, stops, edits | no entry misses its source; meta and disk agree; the target becomes the source |
| assets-management: operations, dedupe (`operation/assets-operation.ts`, `assets-dedupe.ts`) | files, meta, the folder of deleted files | add, import, copy, move, delete, dedupe | several files that are sources and targets of one another, overwrite, stops | meta and disk agree; no content is lost that was not to go |
| assets-management: meta (`service/assets-meta.ts`, `file-meta-handler.ts`) | a tree of items, its file | insert, update, remove, find, save, reopen | directories that come and go with their items | the tree is a map from path to item |
| memcached: store (`lib/memcached/server/store.ts`) | items, `totalSize` | the storage commands, gets, delete, expiry | outdated items, sizes, concurrent cas | replies carry what they announce, nothing outdated revives |
| memcached: connection (`server/index.ts`, `service/convert.ts`, `service/syntax.ts`) | buffer, awaited block | data handler | chunks cut anywhere | executed as sent, or the process ends for one of the known causes |
| memcached: client (`client/`) | queue of handlers, buffer | calls, data handler | answers without ids, cut and joined, of empty blocks | own answers, whole values, nobody waits for ever |
| process-manager (`lib/process-manager/`, `child-process/spawn.ts`) | processes, `info/index.json` | start, kill, restart, remove; monitor with retries | no daemon and no lock: operators, monitor and operating system interleave; any of them may die | every process stays in sight, none runs twice, exits are retried, calls return |
| rolling log (`utils/write/log.ts`), followed by `process-manager/operation/tail-file.ts` | active file, archives, write queue; position of the follower | write, rotate, prune, end; follow | rotation within the queue, death and restart of the writer, two limits, a file renamed below its reader | the files hold the end of what was written, without a gap, within the limits; the follower sees units in order, none twice unless a rotation falls into its read |
| rolling snapshot (`utils/write/snapshot.ts`) | current file, archives, queue of saves | save, roll, retain | the file is missing or incomplete during a save; death in between | the last confirmed snapshot is whole somewhere |
| http-body-parser: multipart (`lib/http-body-parser/parser/multipart/`) | automaton, marks, lookbehind, events, part | transform, flush, build parts | a delimiter or a false start of one cut between chunks; a buffer passed on by reference | parts come out as sent |
| http over tcp (`http/tcp/`) | head and body so far | send, parse, echo, collect | heads and bodies cut and joined anywhere | the echo is what was sent |
| http-record (`lib/http-record/`) | recorded files, the list in memory, a watch | record, update the list, find | a list that lags behind its files, and reads them later | what is found fits the request |
| net: socket server (`net/service/server.ts`, `common.ts`) | socket file, ports | start on a path or port, close | probe, removal and bind are separate; what a crash left behind | a start fails only in a race; the file of a live server stays |
| socks (`lib/socks/`), tcp-gateway (`utils/tcp-gateway/`) | two sockets, phase of the negotiation | route, negotiate v5 and vc1, connect, answer, pipe | each wait takes one chunk for one message; ends, errors and timers of two sockets | both ends agree on the target, nobody is let in unauthenticated, the relay keeps the order, both sockets close |
| http-proxy (`lib/http-proxy/`) | request, response, target's connection, status list | hooks, proxy, follow redirects, upgrade | timeouts against late answers and clients that leave; listeners attached only on upgrade; headers shared by the hops | over http a cut answer never looks whole, secrets stay with their host, statuses are told apart, both connections are released |
| cache, sub-repo, cookies, keygrip, fs, crypto, transform, path, log, readline, config, scripts | none, a single promise, or the command line's | | | not modelled, section 6 |

How they interact: push, pull and backup call the diff and then apply its lists, each in an order of its own; they and
the operations persist the same kind of meta, which is the tree. The memcached connection feeds the store, the client
talks to any memcached server. The process manager spawns with `child-process/spawn.ts`, records through the rolling
snapshot, logs through the rolling log and shows that log with the follower. The multipart parser is the middle of a
`pipeline` of request, parser, part builder and cache writer (`lib/http-body-parser/index.ts:59-63`). The tcp gateway
hands a connection to one of the socks versions, whose server hands its two sockets to `pipeSocket`; a socks server may
itself be the client of another one. The recorder uses the http client, the proxy its redirects.

## 2 The modules

| module | models | checked by | proved in |
|---|---|---|---|
| `AssetDiff` | `diffMetaForSyncUp` | with those that extend it | `AssetDiffProofs` |
| `AssetsPush` (extends `AssetDiff`) | the push command, client and server | `MCAssetsPush`, `MCClientServer` | `AssetsPushProofs` |
| `AssetsBackup` (extends `AssetDiff`) | `backupAssets` | `MCAssetsLocal` | `AssetsLocalProofs` |
| `AssetsPull` (extends `AssetsBackup`) | the pull command | `MCAssetsLocal` | `AssetsLocalProofs` |
| `AssetsOperations` (extends `AssetsPull`) | add, import, copy, move, delete, dedupe | `MCAssetsLocal` | `AssetsLocalProofs` |
| `AssetItems` | what a meta promises: a map from path to item (abstract) | as a property of `AssetTree` | |
| `AssetTree` | the tree that holds the items, and its file | `MCAssetsLocal` | `AssetsLocalProofs` |
| `MemcachedStore` | the store and its commands | `MCClientServer`, `MCMemcached` | `MemcachedProofs` |
| `MemcachedFraming` | `parseFirstLine`, `tryConsumeData` | with the next two | `MemcachedProofs` |
| `MemcachedServer` (extends `MemcachedFraming`) | one connection of the server | `MCClientServer`, `MCMemcached` | `MemcachedProofs` |
| `MemcachedClient` (extends `MemcachedFraming`) | one connection shared by callers | `MCClientServer`, `MCMemcached` | `MemcachedProofs` |
| `ProcessManager` | operators, monitor, children and snapshot of one id | itself | `ProcessManagerProofs` |
| `RollingLog` | the log writer, its archives, a follower | `MCStreams` | `StreamsProofs` |
| `RollingSnapshot` | the snapshot writer | `MCStreams` and itself | `StreamsProofs` |
| `MultipartParser` | the parser and the builder of parts | `MCStreams` | `MultipartProofs` |
| `HttpOverTcp` | client and echo server of `http/tcp` | `MCStreams` | `StreamsProofs` |
| `HttpRecord` | recorder and finder | `MCStreams` | `StreamsProofs` |
| `SocketServer` | servers that start, close and die on a path or port | `MCStreams` and itself | `StreamsProofs` |
| `SocketPipe` | `pipeSocket` and the sockets it joins | with `Socks` | |
| `Socks` (extends `SocketPipe`) | gateway, negotiation, connection, answer, pipe | `MCProxies` | `ProxiesProofs` |
| `HttpProxy` | one exchange and the status list | `MCProxies` | `ProxiesProofs` |

Common conventions. What runs between two awaits, or within one event callback, is one action. Names of variables
and operators are the code's where TLA+ allows. Operators whose comment begins with "Mutant:" are deliberate mistakes
in the definition that follows them; nothing uses them, they serve to show that a property notices the mistake.
`PROJECT.json` maps every definition to the lines it stands for.

The MC modules put components side by side: a behaviour is one of a component's, and a variable (`part`, `running`,
`proxy`) that is chosen at the start and never changes says whose; the variables of the others rest in one initial
state. So one run checks several components over their whole state spaces, without their product. Where components do
interact their modules extend one another and the behaviours are joint ones: diff with push, pull and backup, the
commands on one directory and its meta, negotiation and pipe, framing and connection, log and follower.

**AssetDiff.** A meta maps a path to a content (its sha1) or `None`. `BeginDiff` computes the path sets,
`ScanPath(p)` is one iteration of the loop over the paths only the source has (each awaits, hence a step each, in any
order), `FinishDiff` the statements after it. `rank` is the order of the target's list, in which `find` and `[0]` look;
it is arbitrary.

**AssetsPush.** `Connect(confirm, accept)` is the handshake, the alignment of either side's meta with its disk
(`AlignedMeta`: an item whose date and size match is believed), and the start of the diff. Either side may refuse: the
client's user (`confirm`) or the server's operator (`accept`); his meta then stays as it is and the session goes on with
it. `ReadDiff` and `Abandon` are the operator's answer; `ReceiveStart`/`ReceiveEnd` a file's truncation and its arrival,
`CannotSend` a file the client's meta lists and its disk lacks; `MoveFile`, `CopyFile`, `DeleteFile` the file changes,
each followed by `RecordMeta`, the meta item for it, and of a move by `ForgetMoved`, the second save, for the path it
came from; `FinishPhase` goes to the next list in the order of `server.ts` (receive, move, copy, delete). `Fault` is a
broken connection or a stop of the server at any step: a file that was arriving becomes `Torn`. `EditClient`/`EditServer`
change files between sessions. `stamped` are the items whose recorded date and size match the file: those the alignment
does not read. `accurate` (both metas said what the disks held when the session began), `copyUsed` and `refused` (some
session ran on a meta known to be out of date) are history variables that properties use as conditions.

**AssetsBackup, AssetsPull, AssetsOperations.** The commands on one directory with the files `disk` and the meta
`meta`. `Start` to `RecordMeta` are `backupAssets`, with the lists in the order of `assets-backup.ts` and both paths
of a modified entry in the target directory, as there; an entry is a change of the disk and then of the meta. `Stop`
may come at any step, `EditSource`, `EditTarget` and `Align` between commands. A pull takes the server's meta as it
was before its alignment (`ServerView`), receives, and only then records what it received, moves, copies and deletes
(`NextPullPhase`); a source that is gone is passed over (`Skip`). The operations go file by file through
`AssertTarget` (a target in the way is removed, or the operation throws), `CheckSource`, the file change and its
record; `RemoveFile` removes, or for a dedupe moves the first of each sha1 into the bin, and the items go at the end.
`Transfers` are the pairs `collectInternalTransferPairs` can give: a directory onto itself, beside itself or into
itself.

**AssetItems, AssetTree.** `AssetItems` is the promise of `types/meta-handler.ts`: put, drop, find and list by path.
`AssetTree` is how it is kept: `Found` walks down the tree, `Insert` brings the directories that lack, `Remove` takes a
parent along that it leaves empty but none above it, every change is saved, and `Reopen` reads the file. `Promised ==
INSTANCE AssetItems WITH items <- ItemsOf` is the refinement, `KeepsItems` its claim.

**MemcachedStore.** Commands are executed one by one, for any client. `record` and `totalSize` are the store's;
`fetched` remembers what a client last got, for cas; `extended` marks an item that was appended or prepended to, whose
`bytes` the code leaves behind. Expiry is an action. `purge` has no action: it changes nothing.

**MemcachedFraming, MemcachedServer, MemcachedClient.** A byte stream is a sequence of tokens; a line's text is one
token, since only whether it is whole matters. The network cuts the stream anywhere. The handler's loop is an action
per turn, and a chunk is delivered when the buffer is empty, because the handler does not await. `harmed` records that a
cut of the kind the code does not survive has happened; sections 3 and 5 say which ones. A block may be empty: the
framing takes nothing for it, so that its line end is read as a line, which throws on either side.

**ProcessManager.** `procs` is the process table (a pid is a place in it and is never reused), `info` what the
snapshot file says, `saves` of a process the snapshot writer's queue, written by `SaveWritten`. An operator's call
goes through its awaits: `StartCall` checks and launches, `MonitorAwaited`/`ChildStays`/`ChildFails`/`DetachedSaved`
end the waits of the two launch modes, `KillCall`, `ListTree`, `SignalTree`, `KilledAll`/`KillGivesUp` are `killProc`,
`RestartCall` and `RemoveCall` the other two calls. The monitor's `FirstSpawn`, `Handshake`, `SpawnFails`, `Watch`,
`ChildGone`, `Respawn`, `MonitorEnds` are the steps of `monitored.ts`. `OperatorDies`, `MonitorDies` and `ChildExits`
happen at any time, also between a spawn and the save of its record. `mishaps` names the sequences after which the
code does lose sight of a process.

**RollingLog.** A file is the sequence of the numbers of the units it holds, so that losing, doubling or reordering
shows. `queue` is the promise chain; a job of it is `StartWrite`, then, if the file is full, `Rename`, a `DropOldest`
for each round of `enforceRetention`, and `Reopen`, then `Flushed`; or `FinishEnd`, the job of `CloseStream`. The
calls of a rotation are steps of their own, since the process can die between any two of them (`Crash`); the next
write starts a new one. `settled` remembers whether the last retention was cut short. The follower finds the file
(`TailFound`), measures it (`TailFirstStat`, then `TailStat` at each look) and reads as far as it measured
(`TailRead`, or `TailOpenFails` when the file is gone): the writer may rename and reopen between any two of these.
Only open and read are one step, since a file that is open stays the same file whatever happens to its name.
`tail.steady` remembers whether the file read was the one measured.

**RollingSnapshot.** `jobs` is the promise chain of saves. A save renames the file that is there (`RollExisting`),
opens a new one (`OpenFile`), writes it (`WriteFile`), prunes and calls back (`SaveDone`); it may fail, and the writer may
die, between any two. The clock may stand still, so that names collide.

**MultipartParser.** `Turn` is one turn of the byte loop with the same states, index, flags, marks and lookbehind
as the code; `Loop` runs it over a chunk, `Transform` is `_transform`, `Flush` is `_flush`, `Consume` takes one event in
the second transform, whenever that gets to it. An event from the lookbehind buffer is resolved when it is taken, as
a reference is. `Encode` is the client, external; what it can send is `Parts`.

**HttpOverTcp.** Bytes are tokens, a line's text one of them. `ClientWrites` puts a write on the wire, `ParseFirstLine`
and `ParseHeader` take a line when its end is there, `HandleDataByContentLength(n)` and `HandleChunkedData(n)` a chunk of
any size, `CollectAnswer` and `EndAnswer` are the client's.

**HttpRecord.** `Send`, `Record` and `RequestFails` are a recorded request, `EditRecord` somebody's hand in a file,
`UpdateFileList` the reaction to an event of the watch (of the directory itself, not of those below it), `FindRecord`
a search in the list followed by a read of the file. `unseen` and `settled` say whether the list can know.

**SocketServer.** Each process goes through the steps of `startSocketServer`: probe of the path, removal of the file,
listen; or the scan for a free port with its probe and that probe's timeout, listen. `disturbed` records that another
process or a timeout came in between.

**SocketPipe, Socks.** A direction is a sequence of units; a message has as many as there are places where a cut
matters to its reader, and every wait takes any prefix of what has come. `SocketPipe` has Node's sockets as
`pipeSocket` uses them: data with back-pressure, 'end', 'finish', 'close', errors, and the two timers. `Socks` has the
gateway (`RouteConnection`, which puts the chunk back), the clients' and servers' waits of version 5 and vc1,
`ConnectTarget`/`ProxyRequestTarget` to the target or through another server, whose answer (`UpstreamResponse`) is cut
and joined like every other message, and after which nobody listens to the target until the server's own answer is
written (`UpstreamUnheard`: what comes in between is lost and counted in `unheard`), `SendResponse`, `StartPipe`, what
an end or a reset does before the pipe has its listeners, and `ServerFails`, the catch of `handleSocksConnection`.
`harmed` says that a chunk was not exactly one message.

**HttpProxy.** `Prepare` is what is awaited before the request to the target (the client that asks for an upgrade may
have sent its head only by then), `Response`/`Processed` its answer and the hooks for it, `Chunk`/`BodyEnds` the pipe
back, `FollowRedirect` a hop (with the headers object all hops share) and `RedirectMalformed` a Location that is none,
`Upgrade`/`Tunnel`/`TunnelEnds` an upgraded connection; `listening` says whether the client's raw socket has its error
listener, `tunnelEnded` whether it was ended. `ClientGone`, `TargetFails`, `AnswerCut` (a reset within the body),
`ProxyTimeout`, `IncomingTimeout`, `PrepareFails`, `ProcessingFails`, `RewriteFails`, `ProcessedLate` (an answer for a
client whose socket was ended meanwhile, `WrittenAfterEnd`) and `ClientResets` are what goes wrong, at any step.
`PreProxyReq` is the list of statuses, into which other requests of the same instant write as well.

## 3 The runs

| run | bounds | shows |
|---|---|---|
| `push` | 3 paths, 2 contents and `Torn`, all list orders, 1 edit, 1 fault, refusals on either side; symmetry | `DiffReproducesSource`: the finished lists give the source. `MetaVouchesForDisk`: an item the server will trust unread has the sha1 of the file. `SuccessMeansSynced` |
| `push_report` | as `push`, no edits or faults | a disagreement of section 5 |
| `local` | commands: 3 paths of which two have one basename, 2 contents, any two directories and list orders, 1 edit or stop, 1 pull, 1 operation; symmetry. Tree: 4 files, 2 directories in one another, 2 infos | backup: `AccurateBackupEndsRight`, `BackupReproducesSource`; pull: `PullReproducesSource`; operations: `OperationEndsRight`, `NothingLost`; tree: `KeepsItems` |
| `client_server` | store: 2 keys, commands of a byte while the total is below 3. Server: all scripts of up to 3 commands of 6 kinds of blocks, all cuts. Client: 2 callers, 3 calls of 4 kinds, blocks that are empty, of two bytes, or a line end, all cuts. Pushes: 2 paths, 2 contents, 1 edit, 1 fault | store: `AnnouncedBytesPresent`, `OnlySetOrAddRevives`; server: `ExecutedAsSent`, `CrashOnlyIfHarmed`, `AllExecutedOrCrashed`; client: `OwnAnswers`, `AllAnswered`; pushes: `EventuallySynced`: pushing again and again converges |
| `memcached_cas` | 2 clients, 1 key | a disagreement of section 5 |
| `memcached_empty` | 1 call of 4 kinds | a disagreement of section 5 |
| `procman` | 2 operators, 2 calls, 2 of them launching, 1 retry | `NoProcessOutOfSight`, `NeverTwice`, `ExitIsRetried`, `CallsReturn` |
| `streams` | log: 8 units in chunks of 1 and 2, 2 dates, 1 death, file size 2, 2 archives of 5 units. Snapshots: 4 saves, 2 instants. Multipart: every content of up to 3 bytes of 5 kinds, long and doubled false starts of a delimiter, bodies of 2 parts and 2 headers, 2 cuts anywhere, truncation anywhere, 3 pending events. Http over tcp: bodies of up to 3 bytes, every declared length, both modes, all cuts. Record: 2 recorders, 2 answers, 1 edit, 1 file in the directory and 1 below. Servers: 3 processes, 2 ports, 4 starts | log: `KeptIsSuffix`, `ArchivesInLimits`, `QueueDrains`, follower: `TailInOrder`; `LastSaveKept`; `PartsAsSent`; `EchoAsSent`; `FoundFits`; `StartFailsOnlyInRace` |
| `snapshot_retention`, `socket_path` | 3 saves of at most 2 files; 2 processes, 2 starts | two disagreements of section 5 |
| `proxies` | socks: every configuration of `MCConfigs` (both versions, orders of methods, passwords, address types, direct and chained), all cuts, 2 chunks from the target and 1 from the client, 1 end that leaves or breaks, buffers of 1. Http proxy: every mode with its options, bodies of 2 chunks, 3 redirects over 2 hosts, 4 other requests over 2 instants, a list of 2 | socks: `AgreeOnTarget`, `OnlyAuthenticated`, `SocksCrashOnlyIfHarmed`, `RelayInOrder`, `BothClose`; http proxy: `AnswerOfTarget`, `NoSecretsAcross`, `StatusesTold`, `ProxyCrashOnlyIfHarmed`, `BothReleased` |
| `proxy_timeout` | redirects, 1 chunk | a disagreement of section 5 |

Why the bounds are enough. Three paths are what it takes for a content to be moved and copied at once and for two
paths of the target to compete for it; one edit and one fault produce each kind of stale item, and a second fault
finds the same kinds. Two paths with one basename collide in the bin of a dedupe. Commands of different kinds meet in
the directory and its meta only, and a behaviour begins in any state of both, so one command per behaviour suffices.
Two nested directories are a parent that goes and one above it that stays. A store total of 3 holds an item that was
appended to next to another. Three memcached commands make a block end before, in and after the line that follows it.
Two operators are what a race takes; one retry distinguishes none, allowed and exhausted. Eight units fill, rotate,
exceed both limits, go over a change of date and a restart, and rotate again after a death that cut a retention short.
Four saves at one instant take a name that is taken twice. A delimiter of six bytes with two cuts is split in three,
which is more than any state of the parser remembers. Two starts race for a path; a third process takes a port in
between. One failing end at any step of a negotiation, and a chunk each way on its way at that moment, are every case
`pipeSocket` tells apart. Three hops lead away from a host, back, and to the limit. A list of two statuses is full,
over-full and trimmed within four requests.

Conditions in the properties. They say when the promise is made, and each is reached and left in the runs. `copyUsed`
and `refused` exclude pushes that copy, or go on after a refused alignment; a pull asks for no copies either; section
5 says what happens there. `accurate` says that a command started from metas that matched the disks. `extended` splits
`AnnouncedBytesPresent`: exact for an item as it was stored, not too many for one that was extended, of which
`lib/memcached/README.md:60` promises more than the code keeps. `AllAnswered` leaves out the get that finds an empty
block (`EmptyBlockFound`), which `memcached_empty` shows waiting for ever. `harmed` excludes the cuts and joins that
the memcached connections and the socks negotiation do not survive. `mishaps` is empty unless one of six named
sequences occurred: a start during another launch, an operator that died between launch and record, a monitor that
died with a living child it had not recorded, an answer that came when the operator had given up, a removal while a
save was queued, and a respawn during a kill. In each of them the code really does lose a process; the property says
that nothing else does. `disturbed` says that another server or a timeout came between the steps of a start. `settled`
says that the finder has had every event it will get, and of the log that its last retention came to the end.
`TailInOrder` promises that nothing but units is printed of a read whose file is the one measured, and asks for
`steady`, that the read before it was such a one, to promise order and, within one file, that nothing is missed.
`unheard` counts what the code drops of a target behind another server of version 5: `RelayInOrder` says that it is a
beginning and happens on no other route. `harm` names what can end the proxy's process: a hook that throws; a
malformed Location, where it is followed or rewritten; and, for a client that asked for an upgrade and has none yet, a
reset ("early reset") and an answer written after its socket was ended ("late"). It also names the end such a client's
socket gets for a failed request ("cut"), since `AnswerOfTarget` grants it nothing but a prefix.

Fairness. `FairSpec` of `AssetsPush` (in the run `PushFairness`): a session that has begun goes on unless something breaks it (sockets and timers
of a live process), the user pushes again, and user and operator do not refuse for ever. `PMSpec`: the event loops
together do not stand still; nothing is assumed of exits, calls or interruptions. `LogFairness`: promises settle while
the process lives. `ServerFairness`, `ClientFairness`: the network delivers, the server answers, callbacks run.
`PipeFairness`: the half-open timer fires, events of a socket are emitted; neither peer has to read, send or go, so
that `BothClose` rests on the code's timers alone. `MCFairness` (`Fairness` of `HttpProxy`): hooks return and the two
timers fire if they are set; the client and the target owe nothing. `CHECK_DEADLOCK FALSE` is set where a behaviour
ends: all commands executed, all calls made, the body read, the connections closed.

## 4 The proofs

For every value of the constants, checked by TLAPS. Each rests on an inductive invariant, since what a property says of
the end does not follow from itself a step earlier; each of them is preserved by one lemma per action. A component that
is checked next to others in an MC module is proved about on its own: its specification, its variables.

**`AssetDiffProofs`.** `DiffCore` says of every moment of the loop what the lists say at its end: a path not yet
scanned is in no list, a scanned one is in exactly the list its content calls for (`ScanInv`), moves never share a
source, and the last statements computed what their definitions say (`ResultInv`). `DiffInv` adds the types; `DiffCore`
alone is what a pull needs, whose files may be incomplete. From it: `DiffInvariance`, `DiffTypeCorrect`,
`DiffReproduces`, and, of the formulas stated there, `MovesAreDisjoint` and `TransferIsMinimal`. Assumption:
`NoneAssumption`, `None` is neither path nor content.

**`AssetsPushProofs`.** `PushInv` is `TypeOK`, `DiffInv`, and three parts: `SessionInv` relates the phase, the entry
in hand, the lists and what the client's meta said; `TrustInv` is `MetaVouchesForDisk` with what holds while an entry
is between its file change and its item; `ProgressInv` says, for each phase and path, what the disk already has in
common with the source: this is what makes `SuccessMeansSynced` inductive. From it: `PushInvariance`,
`PushTypeCorrect`, `PushMetaVouches`, `PushSucceeds`. Assumptions: `NoneAssumption`, `TornAssumption` (`Torn` is a
content), `BoundAssumption`.

**`AssetsLocalProofs`.** The commands on one directory, in three layers and then together.
- Backup: `Effect(H)` is the target the diff saw with the entries of the paths in `H` applied. `BackupInv` says that
  the disk is `Effect(Handled)` and that the meta is one entry behind it while an item is to be recorded
  (`BackupProgress`), with types, `DiffInv` and the shape of a session. An entry then finds its source because no other
  entry has taken it; the effect of all entries is the source where nothing was modified. From it: `BackupInvariance`,
  `AccurateBackupsEndRight`, `BackupsReproduceSource`.
- Operations: `OpProgress` names, for every phase, the file or two in which the meta and the disk differ; `OpKeeps` says
  that a content the directory held is still in it or saved in the bin. Together `OpInv`, from which
  `OperationsEndRight` and `NothingIsLost`, the latter at every step, also of an operation that throws or is stopped.
- Pull: `PullInv` says that the files are `PullEffect(FilesDone)`, `Torn` where one is arriving, and that the meta is
  `PullEffect(ItemsDone)`: the files of a phase come before its items, so the two sets part and meet again. From it:
  `PullsReproduceSource`.
- The commands of one behaviour are of one kind: `LocalInv` says that the invariant of that kind holds, and all three
  before the first command (`LocalInvariance`). What is proved of backups therefore holds of those that are run next to
  the other commands (`BackupsAmongCommands`).

- Tree: `TreeInv`: a directory is in the tree with everything above it, a file outside it has no item, and the file
  holds what is in memory. Then what is found and listed is what the nodes say, and each operation is the one
  `AssetItems` promises, or changes nothing: `TreeInvariance`, and the refinement `TreeKeepsItems`.

Assumptions: `NoneAssumption`, `TornAssumption` (of `AssetsPull`: `Torn` is no path, content or `None`),
`BoundAssumption`; of the tree `PathAssumption`, what paths are.

**`MemcachedProofs`.** Messages of different lengths that run into one stream, cut anywhere. `Layout` is the lemma the
two connections share: where each message begins and ends in a concatenation. `FlattenSeq` is a recursive function, and
what it computes is obtained without induction on data, from the first place at which it would not be a layout.
- Store: `StoreInv` is type correctness with `AnnouncedBytesPresent`, exact unless `extended`; `StoreRevivesNothing`
  is an action property from it. Assumptions: `StoreAssumption`, `NothingAssumption`.
- Server: in `ServerInv` the buffer and the stream are the end of what was sent (`Undone`), what was executed is what
  was consumed, line by line and block by block (`Caught`), and without harm the next chunk begins a line or a
  block (`Unharmed`). From it: `ServerInvariance`, `CommandsExecutedAsSent`, `ServerCrashHasCause`.
  Assumptions: `ByteAssumption` (the three tokens differ), `ScriptAssumption` (scripts and blocks are sequences).
- Client: `Books` keeps the queue of handlers, the callers that wait and the answers the server owes or has sent in one
  order. `Written` lays out the replies in one stream and says how far the first handler is in its reply when the
  stream has been read up to the buffer: it has not begun (`Begun`), is in a block (`InBlock`), has it (`HasBlock`), or
  stands before an empty one (`Stuck`). Both hold unless replies were joined or torn, which `misread` records. From it:
  `ClientInvariance`, `EachGetsItsOwnAnswer`. Assumptions: `ByteAssumption`, `ClientAssumption`.

**`ProcessManagerProofs`.** `PMInv` has two halves. `Shape` holds whatever happens: where each operator is in its call
and what it knows (`OperatorOK`), who launched whom and what a monitor knows of its child (`DescentOK`). `Clean` holds
as long as no mishap occurred: what is active (lives, has a save queued, or is in the hands of an operator) descends
from one launch (`OneLaunch`), and the record, a queued save or that operator leads to whatever lives (`Recorded`).
From it: `PMInvariance`, `InSightAlways`, `NeverTwiceAlways`, for any number of operators, calls, launches and
retries. Assumption: `BoundsAssumption`.

**`StreamsProofs`.**
- Socket server: `NetInv` says that what a start has seen of its path or port stays so until somebody disturbs it; every
  step of a process either leaves the path and ports alone or disturbs all starts under way (`Bystanders`). From it:
  `NetInvariance`, `StartsFailOnlyInRaces`. No assumption.
- Log and follower: `WriterInv` says that the active file has the last units, `FollowerInv` that what the follower
  last printed comes before the units from its position on, and the size it measured says how far the file goes while
  it is the one measured. From them the action property `FollowerInOrder`.
- Log and its files: `FilesInv` says that the archives are runs of units, each unit in one of them, that end where the
  active file begins (`StoredUpTo`), that a stream knows the size of its file, and that a chunk is only written to a
  file below its limit; `LimitsInv` bounds the files, and their number by the deaths so far. The file that goes in a
  round of the retention holds the first units that are stored, and there is always a name to archive to, fewer names
  being taken than are tried. From them, with `TailInv`, as `LogInv`: `LogIsKept`, `LogInLimits`.
  Assumption: `LogAssumption`.
- Snapshot: jobs are numbered in order and at most one is in progress, and there is always a name to roll to, since
  fewer files than names exist (`Numbered`, `OneSaving`; `SnapshotInv`). From it: `LastSaveIsKept`, for any number of
  saves. Assumption: `SnapshotAssumption` (bounds, and `NoSnapshot` is no snapshot).
- Http-record: while no event is on its way, and no change raised none, the list says what is in the files
  (`ListedIsThere`); so `FoundAlwaysFits`. No assumption.
- Http over tcp: `EchoInv` says that head, body so far, buffer and stream make up the message, on both ways; so
  `BodiesAreEchoed`, for bodies of any bytes and length. Assumption: `BodyAssumption`.

**`MultipartProofs`.** The body has a layout (`BodyLayout`): where its delimiters, headers and data are. `Stands` says for
each state of the parser what it knows at a place of the body: how much of a delimiter, header or data lies behind it,
what is marked in the chunk, and that the bytes that may begin a delimiter are in the lookbehind buffer. It also says
what the second transform will have built when it has taken every event pushed so far (`View`); `Leads` gives its
states on the way there, each of them `Sound`. `ParserInv` puts this together with what has not arrived. Its step has
four parts.
- A turn (`TurnGoes`) keeps `Stands`, one lemma per kind of place. Within the data: the search in steps of the delimiter's
  length cannot pass the delimiter (`SkipToIs`), and since the delimiter's first byte is its only CR, bytes that look like
  one are the one behind the data or are given up in time (`NoOther`).
- A turn looks at a byte for the first or the second time, so the turns are enough for the chunk (`LoopStays`). What
  the loop computes for every chunk is had without induction over data, from the first turn that would not keep `Stays`.
- At the end of a chunk the marked bytes are pushed and the mark stands at the beginning of the next one (`ChunkEnds`).
- An event that refers to the lookbehind buffer is taken later: the places it refers to held a beginning of the
  delimiter, and what is written there afterwards is the same (`Held`, `Keeps`), so the event still says what it said.

From it: `PartsComeAsSent`. A body that ends early stands before its last byte (`Inside`), so it is refused or
its last part is an empty one; a whole one stands at the end. Assumption: `ParserAssumption`, what a client sends: no
part's data contains the delimiter, the boundary and a value no CR, a value does not begin with a space, and fields
are letters and hyphens and not empty (the parser refuses other fields).

**`ProxiesProofs`.**
- Socks: `AuthInv` (phases after the authentication are reached only by those who may; the client's stream never holds
  another password) gives `OnlyTheAuthenticated`. `AgreeInv` relates what the server has chosen, answered and dialled
  to the client's phase and the messages on their way, and gives `BothAgreeOnTarget`, even where messages are joined.
  `TurnInv` says that without harm at most one message is on its way and whose turn it is, so that no parser meets
  anything but its message: `SocksCrashHasCause`. `RelayInv` follows the chunks of either end through what has not
  been read, what is held back and what has been handed on: each of these queues carries an interval of the chunk
  numbers, in order, and the next queue the interval before it (`Carries`, `Flow`, `Up`, `Down`). It needs the whole
  negotiation: that there is no chunk among its messages before the pipe stands, and nothing of it left behind them
  (`Quiet`, `Answered`), so that the bytes a wait has put back are the beginning of the stream. Behind another server
  the answer of that one is ahead of the chunks until it is taken (`UpstreamAhead`), and the interval of what the
  client gets begins after the `unheard` ones. From it: `ChunksInOrder`. Assumptions: `ConfigAssumption` (methods and
  kinds of address there are), `DataAssumption`.
- Http proxy: `SecretsInv`, the headers object has lost at least what the last hop had lost, so what was once dropped
  never comes back: `SecretsStay`. `StatusInv`, an id is made of its status's time, and the number taken is the least
  free one, which the well-foundedness of `<` provides: `StatusesAreTold`. `AnswerInv`, nothing is given before the
  hooks are through, then what has come of the target so far, in order, and an end only after all of it (`GivenInv`),
  but for the early end of a client that asked for an upgrade, after which nothing of the target follows (`EarlyEndInv`):
  `AnswersAreOfTarget`. `CrashInv`, the client's socket is listened to from the upgrade on and not before:
  `CrashHasCause`. Assumption: `ProxyAssumption` (the list has room for one).

Only model-checked: liveness (`EventuallySynced`, `AllExecutedOrCrashed`, `AllAnswered`, `ExitIsRetried`, `CallsReturn`,
`QueueDrains`, `BothClose`, `BothReleased`). Fairness and `ENABLED` are beyond the prover.

## 5 Where code and documents disagree

Shown by a run (`PROJECT.json`, findings): the client reports the server's error frame as success (`push_report`); cas
overwrites concurrent updates (`memcached_cas`); the caller that gets an empty block is never answered
(`memcached_empty`); old snapshots are never removed (`snapshot_retention`); a second server takes the path of one
that is up (`socket_path`); requests that follow redirects have no timeout (`proxy_timeout`).

Met while modelling; the models follow the code, but where it says otherwise:

- Push: files are overwritten as they arrive, then moved, then copied, although `diff-meta.ts:122` wants copies first: a
  copy's source may be gone or replaced. Whoever refuses the alignment of his meta goes on with the one that is known to
  be wrong (`client.ts:34`). Pull: the same, and a source that is missing is passed over with "Pull
  completed successfully".
- Backup: a modified file is copied within the target onto itself (`assets-backup.ts:111` with 68-96), so it is never
  backed up; this is why `BackupReproducesSource` asks for `modified = {}`.
- Operations: copy and move onto itself with overwrite remove the file and then throw; overwrite removes the target
  before the source is looked at; the import of a folder ignores `targetRelativeDir` (`assets-operation.ts:108-184`) and
  addAssets does not hand it `addDuplicates`. Dedupe goes by the meta, which may be out of date.
- Meta: a file and a directory that replace each other under one name lose items, since `applyDiffForMetaSyncup` adds
  before it deletes (not in the model of the tree, whose paths are one or the other); `createOrUpdateItem` ignores the
  previous info; the old index files are matched with a pattern that does not fit the names that are written
  (`service/assets-meta.ts:432-478`); the meta file is renamed away before it is written anew.
- Memcached server: `append` puts data in front and `prepend` behind (`store.ts:69`, README:31); both leave `bytes` as
  it was (68), so a `gets` announces less than the block it sends (README:60); `totalSize` drifts (15); `replace`
  stores nothing (54, README:28); a successful cas is answered EXISTS (84, `common.ts:47`); an empty block or a CRLF
  cut from its block throws (`convert.ts:41`, 84); `noreply` is ignored by the storage commands; a delete reply has no
  CRLF (`syntax.ts:252`); `purge` does nothing (`store.ts:139-154`).
- Memcached client: replies that arrive together are dropped but for the first (`syntax.ts:220`); delete with noreply
  queues an undefined handler (`index.ts:126`); data without a handler throws (`connection.ts:20`).
- Process manager: an exit during the handshake is not retried, since the listener is attached after the await
  (`monitored.ts:118-132`), although README:8 promises automatic retry; a spawn that fails ends the monitor
  (`monitored.ts:153`) although `docs/design.md:12` says it is retried; a monitor that is killed between spawn and
  save (`monitored.ts:118-122`) leaves a child nothing knows of, beside which a later start launches a second one;
  `startProcess` may return null, as the save is not awaited (`monitored.ts:122`).
- Rolling log: `maxFileCount` "including the active file" (`utils/write/types.ts`) is exceeded by one.
- Follower: a rotation is only noticed when the new file is smaller than the old position (`tail-file.ts:131-132`). One
  that falls between measuring and reading (180-197) makes a short read whose rest is printed as NUL bytes, and leaves
  the position of the old file, after which units may be printed again.
- Multipart: a header character of several bytes that is cut between chunks is decoded in two pieces
  (`multipart/index.ts:22,24`); `part.end()` that rejects is not handled (67); a body that ends right after a
  delimiter and its CRLF gains an empty part (`parser.ts:82-83`); content that contains the delimiter followed by CR
  without LF leaves a flag set (266-285) and the end delimiter is then missed.
- Http over tcp: chunked bodies are taken for whole chunks of the stream and throw in a listener when they are not; so
  does more data than content-length announces; `EchoAsSent` speaks of the rest. The CRLF matcher is shared by all
  readers of the module.
- Http-record: the default options override the specific ones; `fullPath` (`types.ts:21`) and the query of
  `requestCompare` are not used; files below the directory raise no event; the watch is set up only if the directory
  exists at the start; a file that is deleted makes the finder throw; `compareHttpRequestOptions` compares its options
  with themselves.
- Net: closing the first of two servers removes the file of the second; a port whose probe takes 800 ms counts as free;
  the probing connection is never closed; one-chat takes each chunk for a payload.
- Socks: an error while the answer is sent leaves the target's socket open (`server.ts:186`), contrary to the comment
  at `server.ts:106`; `::1.2.3.4` is refused contrary to the comment of its parser (`service/utils.ts:167-202`); the
  text of an error reaches the client or the target as data; the waits of version 5 past the first one have no
  timeout; a parser that throws does so in a data listener; behind another server of version 5 the first bytes of the
  target are lost, those that arrive with that server's answer (`v5/communication.ts:336-352`) and those that come
  before the pipe stands (`client.ts:43`, `server.ts:142`); a slow peer is cut off by the half-open timer.
- Http proxy: a malformed Location throws where redirects are followed (`common.ts:258`) and where it is rewritten on
  the way to a client that asked for an upgrade; such a client's socket has no error listener before the upgrade
  (`websocket.ts:55-56`), so its reset, or an answer written after a failed request has ended it (35, 43, 49), ends
  the process; an answer to it that is not an upgrade and is cut by a timeout or a reset ends as if it were whole
  (33-44). A client that leaves after its body was read is not noticed, as there is one 'close' event; a request that
  follows redirects never sends its body; the status list holds one more than its maximum.
- Cache: a fetch that fails returns outdated data; each waiter clears `pending`; the arguments are ignored.

## 6 What is not modelled

- Pure conversions and wrappers (fs, path, crypto, transform, log, readline, config, cookies, keygrip): no state, nothing
  to interleave. sub-repo, scripts and exec: a sequence of external commands. `utils/cache.ts`: one value and one promise
  in one process; what is odd about it is in section 5.
- Several push clients at once, each with its own copy of the meta; the comparison of a directory with itself
  (`isSameDir`); names that get a short id in them; index files and what is printed.
- Errors of the file system other than a stop of the process (but for the snapshots, whose writes may fail); reuse of
  pids; the map of memcached connections; the cluster script.
- Transfer encodings and saved files of multipart parts; several messages on one connection of `http/tcp`; the readers of
  a line or of n bytes where they stand alone; one-chat.
- The ECHO command of the socks server (`server.ts:166-182`): no client of this library sends it.
- Text forms of addresses and the xor of vc1; the rewriting of bodies by the proxy's hooks and its status page.
- The product of components that only meet in node's event loop: they share no state.

## 7 What could come next

1. Several push clients at once; an abstract directory that push, pull and backup synchronise, implemented by each.
2. `MemcachedServer` on top of `MemcachedStore`; a multipart parser whose body comes from `HttpOverTcp`'s cuts.
3. `utils/cache.ts` against a register with an age.
