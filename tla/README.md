# LingFlow in TLA+

LingFlow is a Go server for AI chat over WebSockets.  A client connects to
`/chat/{uuid}`; the server limits connections per address, keeps every
connection alive with heartbeats, answers chat messages with an LLM and a
"skill" (a Markdown prompt kept in S3 and cached in memory), can create new
skills on command, and records what happens as events.  The modules here model
the parts of it that have state several goroutines share, and the way from the
start of the process to its end.

## Inventory

| Component | State | Operations | Interacts with |
| --- | --- | --- | --- |
| Connection manager, `connections/wss.go` | `connections` (identifier -> connection, nonce, last activity, ticker), `ipConnectionCount`, two mutexes | AddConnection, RemoveConnection, BroadcastMessage, SendMessage, UpdateLastActive, handlePing/handlePong, sendPing, heartbeat loop per connection, idle monitor, read loop | event store (appends), chat handler (calls from the read loop; its goroutines call SendMessage back) |
| Upgrade, origin, authentication, `wss.go`, `auth_handler.go` | none | accept or refuse a request | creates the connection attempt |
| Event store, `events/store.go` | `streams`, `events`, one RW mutex | Append, LoadStream, LoadAll | written by the connection manager and the command handler |
| Command handler, bus, `handler.go`, `bus.go` | `handlers` | Handle, Subscribe, Publish | load - decide - append - publish |
| Aggregate, projection, `aggregate.go`, `chat_projection.go` | connected flag, counters | ApplyEvent, Rebuild, HandleConnect/Disconnect/SendMessage | replay of a stream |
| Skill creation, `skill_creator.go` | none of its own | 14-step `#create_skill` pipeline; rate limiter (never called) | S3 loader, LLM, registry |
| S3 skill loader, `s3_skill_loader.go` | cached client; the bucket | exists, list, load, load all, upload, delete | S3 |
| Skill registry, `skill_registry.go` | `skills`, `metadataIndex`, one RW mutex | Register, Unregister, Reload, Get, List, Retrieve | filled by server start and pipelines, read by chats |
| Chat handler, `chat_handler.go` | none; the locals of its goroutines | validate, one goroutine per user message: select a skill, announce it, execute, answer or report an error; acknowledge or echo other frames | registry, executor, connection manager |
| Skill executor, `skill_executor.go` | none | look a skill up or retrieve one, prompt, three attempts with backoff; validation of frames | registry, LLM client |
| LLM client, `llm.go` | which service was built | Generate, by Bedrock or by a mock | Bedrock |
| Configuration, `config_loader.go`, `aws_util.go` | the process environment | load a `.env` file, an S3 object or a secret; decide whether this is AWS | read by everything that starts |
| Server, `main.go`, `server.go` | the process | resolve the runtime, check TLS, build the LLM client, load skills, listen, shut down | everything |
| Lambda adapter, logging, models, demo client | none | I/O | |

What is hard, per component, and what makes it correct:

* **Connection manager.** Every goroutine that works for a connection finds it
  by identifier, and an identifier can be connected again while its first
  connection is still served. A count is kept in one map under one mutex and the
  entry it belongs to in another map under another; timeouts and failed
  broadcasts delete entries other goroutines rely on; nothing ties an identifier
  to one address. Correct means: the limit holds, every entry is served and
  watched, an open connection is reachable, a closed one is cleaned up, pings
  get resolved, recorded sessions are legal.
* **Event sourcing.**  Load, decide, append and publish are four steps without a
  lock across them, each can find its context cancelled, and a command names its
  session twice without a comparison.  Correct means:
  versions are gapless, an answer says what is in the log, histories are legal,
  a projection fed by the bus is the one a replay gives.
* **Skill creation.**  Up to 14 steps over an object store with no transaction,
  with a context the client can cancel, replies that can be lost, a process
  that can restart, and a registry rebuilt from reads that are no snapshot.
  Correct means: existing skills survive, a success is true, the registry serves
  what is stored, a name has one owner.
* **Chat streaming.**  A request takes up to four critical sections of the
  registry, and a reload may come between any two of them; it outlives the
  connection it came from, whose context it still uses; each of three attempts
  may fail; its messages share a socket with broadcasts and pings.  Correct
  means: what is announced, given to the LLM and answered fits together, errors
  have a reason, and every request ends.
* **Retrieval.**  Scores over a map in random order, a threshold, a hand-written
  insertion sort and a cut, with ties.  Correct means: the best skills, best
  first.
* **Configuration and start.**  Three sources, any of which can fail before,
  during or after it has set part of the environment the next decision reads.
  Correct means: a source that was settled on is in effect as a whole, and the
  start ends.

`PROJECT.json` lists every component and every hazard at its line.

## Modules

| Module | What it is |
| --- | --- |
| `ConnectionManager` | the connection manager with its goroutines |
| `AdmissionControl` | what the per-address limit promises, abstractly |
| `ConnectionManagerProofs` | theorems about `ConnectionManager` |
| `EventSourcing` | event store, command handler, bus, aggregate, projection |
| `SessionObject` | a chat session with atomic commands, abstractly |
| `EventSourcingProofs` | theorems about `EventSourcing` |
| `SkillCreation` | `#create_skill` pipelines, bucket and registry |
| `SkillCatalog` | what creating skills promises, abstractly |
| `SkillCreationProofs` | theorems about `SkillCreation` |
| `SkillRetrieval` | scoring, threshold, sort and cut as functions, and what they promise |
| `SkillRetrievalProofs` | theorems about `SkillRetrieval`: the functions keep the promise |
| `ChatStream` | how a chat message is answered; extends `SkillRetrieval` |
| `RequestReply` | what answering promises, abstractly |
| `ConfigLoader` | the loading of the configuration |
| `Server` | the process: composes `ConfigLoader` and `ChatStream` |
| `ServerProofs` | theorems about `Server` |
| `Induction` | what a loop computes after any number of rounds; used by the proofs |
| `MC...` | instances for TLC |

### ConnectionManager

An element of `Conns` is one upgraded WebSocket with its HTTP handler goroutine
and its `connectionState`.  An action is one critical section or one call
outside a lock.  `handler` is the handler's program counter, `heartbeat` that of
`startConnectionHeartbeat`; `pendingTimeouts` counts the goroutines the monitor
has spawned for an identifier and that have not run.  Time is not counted:
`activity` says who set `lastActiveAt` last, or that this was more than the
timeout ago, and any timer may fire whenever it is set.  `stream` keeps only
the connect and disconnect events; other events are appended and never read.

| Code | Actions |
| --- | --- |
| AddConnection, two critical sections; refusal | `Admit`, `Register`; `Reject` |
| read loop; a write to all | `ReceiveMessage`, `ReceiveForBroadcast`, `ReadError`; `Broadcast` |
| handlePong, before and after its lookup | `ReceivePong`, `MatchPong` |
| deferred RemoveConnection and Close | `RemoveEntry` then `RecordDisconnected`, or `RemoveAbsent` |
| heartbeat loop, sendPing, handleHeartbeatTimeout | `HeartbeatStart`, `HeartbeatTick`, `SendPing`, `HeartbeatExpire`, `HeartbeatDrop` |
| idle monitor and what it spawns | `CheckHeartbeatTimeouts`, `MonitorDrop` |

`SendPing` includes the critical section and not the write: a failed write is
logged and changes nothing.  `SendMessageToConnection` likewise changes none of
these variables.  What gorilla/websocket does when two of these writes overlap is
left to `Server` (`WritesOverlap`).  The data race between `handlePong` and `sendPing` on
`pingNonce` is a single step here: the nonce is replaced only after it has been
cleared, so both orders are steps of the model.

The limit.  README.md:112 of the repository promises at most
`WSS_MAX_CONNECTIONS_PER_IP` connections of one address.  The code keeps that
promise of the entries of its map only (`EntryLimit`): whoever is about to be
added or is an entry has a slot of its own (`IpCountCovers`), because every
decrement takes an entry of the very address it decrements.  Of the connections
that are served (`IpLimit`) it is false, and `CMAddressLimit` shows how: a
client at address a comes back from address b, its older handler finds the new
entry when it leaves and gives back the slot of b, and somebody else is let in
at b, where the first client is still served; its own slot of a is never given
back.

### EventSourcing

`step` is the program counter of each call of `Handle`.  An event is reduced to
session, command, type and version.  A command has two sessions: `AggregateOf`,
the AggregateID whose stream is loaded and decided from (handler.go:32), and
`SessionOf`, the ConnectionIdentifier of its payload, whose stream the event goes
to (aggregate.go:67, 96, 124); `NewCommand` (command.go:51) takes both and nothing
compares them.  A stream is kept under the name of its session: `ChatStreamID`
(chat_events.go:52) puts one fixed prefix before the name, whichever of the two it
is, so equal streams are equal names.  No repository code subscribes to the bus or
calls the command handler in production (`server.go` creates the store only);
the subscribers of the model are a projection per session and a handler that may
fail.  For sessions in `SerialSessions` a caller waits for a call that names the
session to return; elsewhere calls overlap.  The histories of serial sessions are
legal if no command writes to them under another AggregateID
(`SerialHistoryLegal`); for the others the code does not promise it.

### SkillCreation

A pipeline is one `tryHandleCreateSkillCommand`.  Its context is that of the
WebSocket request and is cancelled when the handler returns (`ClientLeaves`);
from then on every call fails.  A write that fails for its caller may have been
carried out (`Write`).  With `Faults`, S3 calls may fail at any time.
`LoadAllSkills` is one listing and one action per object, in key order.
`Restart` ends the pipelines under way and loads the registry again.  The
checks that come first (name, description, patterns, permission) are one choice
between going on and refusing.

### SkillRetrieval

Texts are sequences of tokens and `Overlaps` says which tokens contain each
other.  All scores of one query have the same denominator, so they are compared
as integers (points); logarithms are in thousandths, exact enough for the
instance, whose only close scores are equal.  The logarithms are a table,
`LogWeight`, of which the theorems only use that it has an entry for every
frequency and that the entries are numbers.  The two maps the code iterates over
make the result a set: `Retrievals` is the set of lists `RetrieveSkills` can
return.  The two loops over skills, `AboveThreshold` and `SortResults`, are
recursive functions over the rounds, as is the loop over the query,
`PossiblePoints`.  `IsBestMatches` is the reference definition; it does not
mention sorting.  A query without tokens gets nothing, whatever the skills
score, so it is a case of its own.  Ties are left open as the code leaves them:
skill-system-spec/spec.md:163-167 of the repository orders equal scores by a
priority, which no struct of the code has.

### ChatStream

`stage` is the program counter of `processUserChatStream` and of the executor it
calls; `via` is the connection whose read loop started it, `chosen` the skill
selected and announced, `given` the one whose instructions are in the LLM
request.

| Code | Actions |
| --- | --- |
| upgrade and AddConnection; end of a handler and its RemoveConnection | `Connect`; `Leave` |
| handleHeartbeatTimeout | `TimeOut` |
| HandleUserChatWithStreaming | `ReceiveChat` |
| HandleIncomingMessage and the broadcast of its reply | `ReceiveOther` |
| skill selection, by name, by retrieval, fetch of the best | `SelectNamed`, `SelectByWords`, `FetchTop` |
| thinking messages, choice of the executor's entry | `Announce` |
| ExecuteWithSkill | `LookUp` |
| Execute, RetrieveBestSkill | `Retrieve`, `FetchBest` |
| one round of RetryWithBackoff | `Generate`, `GenerateFails` |
| sendResponse, sendError | `Respond`, `ReportError` |
| Registry.Reload | `Reload` |

Connections are those of `ConnectionManager` without heartbeats and slots:
`Leave` deletes whatever entry the identifier has, a timeout or a failed
broadcast takes an entry away and leaves the handler to notice.  A send is
logged when it fails and changes nothing, so its outcome is not kept.  A
`#create_skill` message belongs to `SkillCreation`; here it shows as a reload.
The early returns of `processUserChatStream` for unreadable or empty data cannot
be reached, `ValidateWSMessage` has checked both; nor can `handleUserChat` and
`handleHeartbeat` of `HandleIncomingMessage`, whose frames are taken before.

### ConfigLoader

`env` keeps who set a variable.  One action is the reading of a source (`Fetch`,
which fails or does not), one round of the injection loop (`Inject`,
`InjectFails`), in any order because it is a loop over a map, or the end of it.
That a failed injection leaves its part behind is in the model as in the code, and
so is what each source takes for a variable that is there already (`Skipped`):
godotenv leaves it alone even when it is empty, the other two only when it has a
value.

### Server

`phase` is how far `main` is.  While it is "serving" or "stopping", the actions of
`ChatStream` are steps of the process; `Accept` needs the listener and the others
do not, since `Shutdown` leaves upgraded connections alone.  What the
configuration decides is decided by it here: the runtime (`Run`), TLS, mock or
Bedrock, whether there is a loader to create or reload skills with.
`WritesOverlap` is the panic of gorilla/websocket when two goroutines write to
one socket at a time, which nothing in the code prevents; it ends the process,
unless it hits the goroutine of a read loop, where net/http recovers it and only
that connection ends.  A signal before `signal.NotifyContext` (main.go:26) kills.
One before the listener cancels the context of the calls and is found by the
`select` of the listener: "aborting" is the loading of skills after that, and a
signal during the construction of the LLM client is taken to come right after it.

## Runs

| Run | Instance | What it shows |
| --- | --- | --- |
| `CMReconnect` | 3 connections, 2 of one identifier from 2 addresses that may hold 1 each | types, `EntryLimit`, `IpCountCovers`, `EntriesAreServed`, `WatchedWhileRegistered`, `OpenIsRegistered`, `SessionHistoryLegal`, `RegisteredIsConnected`, refinement of `AdmissionControl` |
| `CMLiveness` | 2 connections of one identifier, monitor at work | `ClosedIsCleaned`, `PingIsResolved` under `Fairness` |
| `CMAddressLimit` | the same | the limit of the documentation fails for an identifier that moves |
| `CMSlotLeak`, `CMActiveDropped`, `CMHeartbeatLeak` | 2 connections | three statements of the documentation that fail |
| `EventSourcing` | 3 commands on a serial session, 1 addressed to it that writes to another, 2 concurrent ones | log consistency, truthful answers, legal histories, projections, refinement of `SessionObject` |
| `SkillCreation` | 3 pipelines over 2 names, faults, restarts | `ExistingKept`, `SuccessIsStored`, `RegistryServesStored`, refinement of `SkillCatalog` |
| `SCRollback`, `SCSameName`, `SCStaleReload` | 2 pipelines, no S3 faults | three statements of the documentation that fail |
| `Server` | 3 environments and sources; 2 connections with a request each, 3 skills, 1 reload | types, `SkillHonoured`, `ErrorsAreEarned`, `RetrievedAreBest`, `LoadedSourceComplete`, refinement of `RequestReply`; `StartupEnds` and `RequestsAnswered` under fairness |

Bounds, and why they are enough:

* Three connections are what the interesting races need: one that is replaced,
  one that replaces it from another address, and a third at that address which is
  let in on a slot given back or is refused.  The limit is 1, so it is met by one
  attempt and exceeded by the next.  No two attempts are interchangeable, hence
  no symmetry.
* `MaxPendingTimeouts`, the only bound of a guard, is 0 in `CMReconnect`, which
  leaves the idle monitor out, `BecomeIdle` included (it is at work in
  `CMLiveness`, with 1, and in `CMActiveDropped`): a monitor's drop is the `Drop`
  of `HeartbeatDrop`, from another goroutine.  The theorems hold for every value
  of it.
* In `EventSourcing` the three commands of the serial session can be handled in
  any order, each possibly rejected; the message that is addressed to it and
  written elsewhere is decided from every history they can make.
* `CMReconnect` ends when every attempt has been used; that and finished
  commands and pipelines are why the runs do not check deadlock.
* Two serial pipelines of one name are a creation and a retry of it; the third
  makes the reload of one overlap the writes of another.  Either name may have a
  skill at the start.  The pipelines that share a name are interchangeable,
  hence the symmetry.

* `Server`: requests meet only in the registry and in the process they share, so
  two of them, one that names a skill (and another in its header) and one that
  leaves the choice to the retrieval, take every path through the stages.  With
  three skills, one above the others, two tied for the second of `MaxResults` = 2
  places and one below the threshold for the other query, the sort, the cut and
  the threshold all decide something.  The second catalog lacks two of the
  skills, so one reload (`MaxReloads`, a bound of a guard) takes a chosen skill
  away at every stage.  `MaxAttempts` is the code's 3, `Threshold` its 0.3.
  The environments are a developer's machine, a Lambda whose S3 object brings the
  name of a secret along, and a machine with the placeholders of the sample file.
  The first has an empty variable that the `.env` file defines and leaves alone,
  the second one that its sources fill;
  between them they reach every phase, mock and Bedrock, and a server on Lambda
  with and without TLS.  It is checked without deadlock detection because a
  process may end.

Fairness (`FairSpec` of `ConnectionManager`): goroutines that can run do, and timers fire.  Nothing is
assumed of clients: a read fails for certain only when the server has closed
the socket, pongs may never come, and new attempts and messages may stop.  In
particular no fairness is assumed of `Broadcast` failing, of `BecomeIdle` or of
the monitor being quicker than anybody.

Fairness (`FairSpec` of `Server`): weak fairness of the start up to the LLM
client and of each request (`Process`).  It is justified by what bounds each of
their steps: AWS calls of the configuration have a timeout (config_loader.go:170,
256), `NewLLMService` makes no remote call, a Bedrock call has a timeout
(llm.go:142), the backoff is a sleep, a write has a deadline (wss.go:542), and no
lock is held across a call without one.  The first `LoadAllSkills` is another
matter: its S3 calls (s3_skill_loader.go:215, 314) use the context of `main`, which
has no deadline, and the HTTP client of the SDK has no timeout for a whole
request.  Loading the skills is therefore fair only where nothing is read, without
a bucket, or where a signal has cancelled the context.  `StartupEnds` says what is
left: whatever fails, the start ends or waits for S3 (`AwaitsS3`), and a signal
gets it out of there.  Nothing is assumed of clients, signals and reloads, nor that
any call succeeds.  `RequestsAnswered` yields to the end of the process, which does
not wait for requests (server.go:409), and says nothing of the delivery of an
answer.

### What the failing statements mean

* `IpLimit`: the counter that is decremented belongs to the address of the entry
  found and not to that of the handler that leaves; see the section on
  `ConnectionManager`.
* `SlotsReleased`: an entry removed by a timeout or a failed broadcast keeps its
  slot of the address taken for ever; after `MaxPerIP` of them nobody behind that
  address can connect.
* `TimeoutSparesActive`: the monitor's goroutine does not look at the activity
  again.  Between the check and the drop the client may have been heard or
  have reconnected.
* `HeartbeatEnds`: a stopped ticker delivers nothing, so the heartbeat goroutine
  of a removed connection never wakes to find that it is gone.
* `RollbackOnFailure`: the cleanup runs with the cancelled context; a failed
  second upload has no cleanup at all.
* `OneReservation`: check and reservation are two calls, the second without a
  condition.
* `SuccessIsRegistered`: whoever reloads last wins, with the older list.

Further differences from the documentation, without a run: two concurrent
commands on one session decide from the same load and are both stored, so that a
connected session connects again, against the invariant at aggregate.go:55; a
session that is written to under another AggregateID can be illegal likewise; a
session taken out by a timeout records no disconnect
(`README.md:101` promises all of them); the streams of a shared identifier
contain two connects in a row; the rate limit that `README.md:108` and
`docs/skills.html` describe is never called; `loadAWSConfig` announces an error
when every source fails (config_loader.go:76-77) and returns none, so
`LoadConfig` never fails and the exit in main.go:19-24 is never taken; a
request that was announced without a skill may be answered with one, because
`Execute` retrieves again (skill_executor.go:290), even for a client that named a
skill the registry does not have.

## Proofs

`ConnectionManagerProofs` proves, for every finite set of attempts, any
identifiers and addresses, every limit and every bound on pending timeouts:

* `TypeCorrect` - `TypeOK` is inductive by itself.
* `EntriesServed` - `EntriesAreServed` is inductive with `TypeOK`: only
  `Register` adds an entry, its handler is then "reading", and a handler leaves
  the serving phases only through a removal that clears what the identifier
  leads to.
* `RegisteredIsWatched` - needs in addition that an attempt not yet registered
  has no heartbeat and no ticker, so that `Register` meets a fresh one, and that
  a ticker of an entry is stopped only together with its removal.
* `CounterCovers`, `LimitKept` - `IpCountCovers` is the inductive invariant, with
  `EntriesAreServed`, and `LimitKept` (`EntryLimit`) follows from it.  What is
  counted (`Counted`) is let in or in the map, so the entry that `RemoveEntry`
  takes out is of the address it decrements, whoever leaves; an entry that is
  replaced or dropped only makes the count an overestimate.  Cardinalities are
  followed by lemmas on adding and removing one.  There is no hypothesis on
  identifiers and addresses.
* `AdmissionImplemented` - `admitted` of `AdmissionControl` is `Counted`.  Initial
  states map to initial states, and each step to `Enter`, `Refuse`, `Leave` or a
  stutter: a registration that replaces an entry, a drop and a removal are all
  `Leave`; `Enter` takes its guard from `IpCountCovers`.
* `OpenRegistered`, `HistoryLegal`, `RegisteredConnected` - for an identifier
  nobody shares (`Alone`): the stream and the entry are tied to the phase of the
  one handler.

The proofs of this module rest on `ConstantsAssumption` alone, which TLC
evaluates in every run.

`SkillCreationProofs` proves, for any pipelines, names and existing skills, from
`PipelinesAssumption` alone:

* `TypeCorrect` - `TypeOK` is inductive by itself.
* `ExistingIsKept` - also for commands of one name that overlap.  `ExistingKept`
  speaks of one step, and needs that whoever may write has read a 404 before
  (`Unguarded`), which no other pipeline can undo: nobody ever writes `Original`.
* `SuccessStays` - needs that pipelines of a serial name do not overlap
  (`OneAtATime`) and, for each phase, what its own pipeline finds in the bucket
  (`OwnContent`).  A writer meets only what it reserved, so a committed pipeline
  of the same name would contradict it.
* `RegistryIsRight` - a listing under way must be right as the registry is
  (`AllServing`).  It survives a write because the writer finds no skill there:
  for a serial name by `OwnContent`, for an existing skill by `Unguarded`.
* `CatalogImplemented` - reservations and cleanups map to stutters, an upload to
  `Create`; its guard, a free name, is `OwnContent`.

`ServerProofs` proves, for any requests, connections, skills, texts, sources and
environments, from `RetrievalAssumption`, `ChatAssumption`, `ConfigAssumption` and
`ServerAssumption`, that `Inv` is inductive (`Invariance`), and from it:

* `TypeCorrect` - `TypeOK` is a part of `Inv`, but not inductive without it: that
  `attempts` stays within `MaxAttempts` needs that a request still generating has
  one left, and that an injection visits only keys its source has needs
  `ConfigInv`.
* `LoadedIsComplete` - while a source is injected, what has been visited of it is
  in effect (`Injected`, by what `Skipped` and `InEffect` have in common), and what
  is in effect stays so; nothing comes from the
  secret before its turn (`SecretsLast`), because a source that fails is never
  followed by itself or an earlier one (`NextSourceIsLater`).
* `SkillsHonoured`, `ErrorsEarned` - `RequestInv` says for each stage what the
  goroutine may rely on whoever moves next; a step of another request, a reload or
  a client keeps it (`BystanderKeepsInv`, `OtherRequest`), and while the server
  starts there is no request it could concern (`Idle`), which is what the choice of
  the LLM and the loading of skills need.
* `RequestsImplemented` - `ReceiveChat` maps to `Accept`, `Announce` to `Announce`,
  `Respond` to `Answer`, whose guard is `SkillHonoured`, `ReportError` to
  `Refuse`, and everything else to a stutter.

* `RetrievalsAreBest` - the two actions that retrieve read the registry of their
  own step (`RetrieveSkillsReads`), and what they read it with is `Retrievals`, of
  which `SkillRetrievalProofs` says the rest.

`SkillRetrievalProofs` proves from `RetrievalAssumption` that the functions compute
what `IsBestMatches` asks for, for every query, registry, text and order of the
index (`RetrievalIsBest`):

* scores are numbers (`PointsType`), so that any two skills compare;
* a round of the insertion sort finds a place (`InsertPlace`: the least position
  with only smaller scores behind it), puts the result there and moves nothing
  else (`InsertElements`), and therefore keeps the order and loses nobody
  (`InsertKeepsOrder`);
* the invariant of the outer loop is that after round i the list is sorted and
  holds the first i results; that of the loop over the index is that it holds
  those of the first i skills that reach the threshold, none twice;
* an order of the registry lists every skill once (`IndexIsComplete`, by counting),
  so a skill missing in the answer was either below the threshold or behind
  `MaxResults` others, all of them at least as good.

`EventSourcingProofs` proves, for any commands, sessions and interleaving, from
`CommandsAssumption` alone:

* `RebuildAppend` - replay is incremental; with it, what a decision was made from
  and what a projection holds can be compared with what the log says.
* `Invariance` - `IInv` is inductive.  Besides the properties below it says that
  each call that has appended is in its stream once and in the log once
  (`CallsInLog`), that calls that name a serial session do not overlap
  (`OneAtATime`), and what a projection holds while one event is stored and not yet published
  (`ProjectionFollows`).  `LogIsConsistent` alone would be inductive; the legality
  of histories is not, without `OneAtATime`: an append is legal because nothing
  was appended since the load, to a session whose own stream was loaded.
* `TypeCorrect`, `LogConsistent`, `AnswersMatch`, `SerialHistoriesLegal`,
  `ProjectionsAgree` - parts or consequences of `IInv`.
* `ObjectImplemented` - loads and publications map to stutters, a rejection or an
  append of a serial caller to the atomic command, which looks at one session and
  changes another if the two names of the command differ; the guard of the command
  is that the load still tells the state of the stream it read, because callers
  wait for every call that names it.

`Induction` is what the last two rest on.  The library's induction theorems take a
predicate as an operator, which none of the installed provers can instantiate, so
induction is stated here over sets: a set that holds 0 and the successor of all it
holds is `Nat` (`SetInduction`, from the well-foundedness of the naturals).  From it
follow that a loop has a run (`RunExists`), that a recursive function which makes
the rounds of a loop is that run (`LoopIsRun`), and the rule for loop invariants
(`LoopRule`).  `Rebuild`, `PossiblePoints`, `SortResults` and `AboveThreshold` are
recursive functions to be used with it.

Only model-checked: liveness (`ClosedIsCleaned`, `PingIsResolved`, `StartupEnds`,
`RequestsAnswered`), since the prover has no rule for fairness and ENABLED.  Every
other property of a passing run is a theorem.  The properties of the failing runs
are refuted by TLC.

## Plan

Done: `ConnectionManager`, `AdmissionControl` and their proofs; `EventSourcing`,
`SessionObject`; `SkillCreation`, `SkillCatalog` and their proofs;
`SkillRetrieval`, `ChatStream`, `RequestReply`, `ConfigLoader`, `Server` and the
proofs of `Server`; the proofs of `EventSourcing` and of `SkillRetrieval`.

Left: the safety half of the liveness properties, that is, measures which every
step of the startup and of a request decreases.

## Not modelled

* Origin and token checks, and the path of an identifier: decisions about one
  request without state; their outcome is whether there is a connection attempt.
* The Lambda adapter, logging, the CloudWatch notifier, the data types and the
  demo client: no state the server's behaviour depends on.
* The rate limiter of `skill_creator.go`: no code path calls it.
* `OnConnectionReady`, which pushes the list of skills to a new client and
  changes nothing, and the registry's listings.
* The patterns of the injection filter, the wording of prompts and messages, and
  Bedrock's wire format: what can come out of them is a choice in the models.
