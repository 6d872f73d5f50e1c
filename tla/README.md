# hackmode in TLA+

Specifications of the stateful and concurrent parts of hackmode, their TLC
models, and TLAPS proofs. Paths below are relative to the repository (`src/`
in `PROJECT.json`), where the hazards are listed too.

- [The system](#the-system): components, state, operations, interactions
- [Modules](#modules): what each models and how it corresponds to the code
- [Runs](#runs): what each shows, its bounds, its fairness
- [Findings](#findings): what the code does against what it says
- [Proofs](#proofs)
- [Not modelled](#not-modelled) and [Plan](#plan)

## The system

hackmode keeps the evidence of security assessments, one Tek9 (LMDB) database
per operation, in a Common Lisp process. Other processes feed it: a mitmproxy
addon that spools HTTP traffic, provider tools, and Python wireless
collectors that publish to RabbitMQ. Accepted documents go to a StarIntel
server.

| component | state it keeps | operations | interacts with |
|---|---|---|---|
| durable outbox (`hackmode-core/outbox.lisp`, `outbox-actor.lisp`) | named Tek9 database of entries with state, attempts, next attempt | enqueue, drain, mark sending/acknowledged/quarantined/retry/failed | StarIntel server by HTTP; an actor serialises drains |
| assets and views (`assets.lisp`, `investigation-views.lisp`) | canonical assets; materialized views | discover, record, query, ensure, rebuild, maintain | event bus; Tek9 views |
| providers (`providers.lisp`, `provider-actor.lisp`) | persistence lock, supervisor mailbox, worker actors, futures | dispatch, invoke, complete, run synchronously | assets; Sento actors |
| IPX capture (`tools/ipx/mitmproxy-addon.py`, `capture-replay.lisp`) | append-only spool file; exchanges, quarantines and checkpoints in the execution graph | response hook, replay | a file read while it is written |
| capture service (`capture-provider.lisp`) | process state and restart count | start, exit, stop | mitmdump process |
| execution graph (`hackmode-database/execution-graph.lisp`, `replay.lisp`, `db.lisp`) | graph nodes with stable ids | replay-safe persist, fetch | everything above |
| knowledge bases (`operational-kb.lisp`, `long-term-kb.lisp`, `global-kb.lisp`, `kb-seed-import.lisp`, `effective-operational-kb.lisp`) | an operational graph per operation, a long-term and a global graph | assert, retract, seed, promote, export, effective read | the expert asserts; promotion reads the operational graph, export the long-term graph |
| expert (`hackmode-core/expert/`) | immutable plan, loop, budget and selection values | plan, select, decide, consume | knowledge bases, external Prolog |
| operations (`operations.lisp`, `database.lisp`) | registry of operations, current operation, `*db*`, working directory | new, use | callers that read `*db*` once, actors bound to a database |
| wireless actor runtime (`tools/wireless/.../actor.py`) | lifecycle state, bounded mailbox, Pykka thread, events | start, stop, tell, join | asyncio loop, Pykka |
| Kismet poller (`kismet/actors.py`, `cli.py`) | cursor, seen ids, sink mailbox | poll, emit, publish, interrupt | Kismet REST API, the publisher |
| WiGLE (`wigle/`, `cli.py`) | cursor and last netid of the paging, actor and sink mailboxes, failures | paged search, bluetooth, detail, map to documents, publish | WiGLE API, actor runtime, the publisher |
| transport (`transport.py`, `manifests.py`) | connection, channel and its confirm mode; the handle of the JSONL file | validate, publish with retries, close, announce actor manifests | RabbitMQ, a file |
| Starlang graph, providers for DNS and recon, Emacs client | registries; buffers | register, parse, display | core |

What is hard in it, and what correctness means there:

- **Outbox.** Crashes and failing writes between counting an attempt, sending
  it and storing its outcome; replies lost or late. Nothing may be called
  acknowledged that was not accepted, nothing may wait for ever, an outcome
  must be final.
- **Replay.** A reader follows a file that another process is writing; a
  crash separates a record from its checkpoint; several replays overlap.
  No complete frame may be lost below a checkpoint, no merged frame may count
  as an exchange, each complete frame must be consumed.
- **Discovery.** Provider workers, synchronous callers and tools discover the
  same asset at once; failures come between storing, viewing and announcing
  it. Events must follow the store, at most once; futures must resolve.
- **Operations.** A change of operations is a row of steps that may fail, while
  other threads hold the old database. The open database must be that of the
  current operation, what is recorded must be labelled for the store it goes
  to, and nothing may be reported stored that is not.
- **Capture service.** A process may end while nobody looks, its end may be
  noted late or twice, and a stopper may signal. The service must keep hold of
  its process, and a stop must be final.
- **Knowledge bases.** Claims move between three graphs with no references
  between them; retractions, promotions, exports and replays come in any
  order. What is exported must be traceable, what is retracted must stay so.
- **Wireless runtime.** A lifecycle whose steps are separated by awaits, with
  a thread beside the loop. No task may sleep through its event; stopped must
  mean drained.
- **Publisher.** A publish is four exchanges with the broker, each of which may
  fail, and is tried again; a connection may be lost between two publishes.
  Only valid documents may reach the broker, and a publish that returns must
  have left its document there.
- **WiGLE.** A generator of pages, an actor that waits for its sink, a thread
  that publishes: a page, a result or a publish may fail, pages are limited.
  A command that ends without an error must have stored what it received, and
  must end. What its mapping makes of a result must pass the boundary.
- **Kismet.** Two requests and a mailbox stand between the server and the
  broker; any may fail, the operator may interrupt. Nothing may be lost
  without a report.

## Modules

Each module's header states its abstractions; comments over the actions name
the function they model. `PROJECT.json` maps every definition to its lines.

**`Outbox.tla`** models `enqueue-starintel-json` and `drain-outbox`. `store`
is the named database and the only thing of the process that a `Crash` keeps.
An enqueue is `EnqueueMiss` (the fetch found nothing) and `EnqueuePut`. A
drain takes one snapshot and one NOW (`StartDrain`), then for each due entry
in creation order, up to LIMIT: `MarkSending`, `Post`, `Reply`, `Settle`.
`SettleFault` and `Recover` are the path where the put of an outcome signals
inside `handler-case`, after the entry was changed in memory; `AbortDrain` is a
failing put anywhere else. The server acts on a request on its own
(`ServerAccept`), perhaps after the drainer gave up waiting. **`DeliveryLedger.tla`**
is what the outbox promises: a submitted document is delivered, rejected or
abandoned once, and delivered only if accepted.

**`IPXReplay.tla`** models `IPXSpoolAddon.response` and
`replay-ipx-http-spool`. A record is two cells of the file, the second with
the newline; `WriteHead`, `WriteTail`, `LoseTail` write or lose them. A replay
is `Begin` (latest checkpoint), `Verify` (size and prefix fingerprint),
`Open`, then `ReadFrame`, `FindQuarantine`, `PutQuarantine`, `PutExchange`,
`PutCheckpoint`. Stable ids make a second, different record a conflict that
ends the replay. A fingerprint is the prefix itself: hashes do not collide.
The checkpoint re-reads the spool by path, as the code does.

**`AssetDiscovery.tla`** models `discover-asset` (fetch, put, ensure views,
rebuild, apply, publish, each a step), `persist-provider-output` with
`*provider-persistence-lock*`, `dispatch-capability`, the worker and the
supervisor's `:complete`, `run-capability`, and typed queries that register
views. Callers are the supervisor, synchronous callers, and direct callers
(the recon-dns tools by `record-recon-asset`), who take no lock.

**`OperationSwitch.tla`** models `new-operation` and `use-operation`, the latter
one step for each thing it changes (`Select` to `ChangeDirectory`, `UseFails`
where it makes directories or opens the store), beside `record-recon-asset`
and the supervisor's `:complete`, which reach a store by `discover-asset` from
a database they looked at earlier: `CheckOpen`, `BindOperation`, `Fetch`,
`Put`, `MaintainViews`, and `ClosedUnderCall` where that database was closed
meanwhile. A database object is a number, the last one made is `*db*`; a closed
one stays closed and an access through it signals, which is what the code
expects of Tek9. A caller takes the operation of an asset from
`*current-operation*` (`bind-asset-operation`), not from its database. The
registry and the stores survive `Restart`. The views, the lock and the event of
a discovery are `AssetDiscovery`'s; here they are one step.

**`CaptureService.tla`** models `launch-capture-process`,
`note-capture-process-exit` and `stop-capture-service` on one service, from
the moment `start-capture-service` has returned it: `Degrade` or the end of the
budget, `Launch`, the runner (`Spawn` or `SpawnFails`), `Spawned`; `Stop`,
`Terminate`, `StopEnds`. The callers are not in the repository. A watcher notes
the exit of a process some time after it (`Exit`, `NoteExit`), perhaps again
(`Duplicate`), and does not say which process it was: the function is not told.
Unless `Overlaps`, calls follow one another, but that an exit may be noted out
of the stopper, for which the code has `:stopping`.

**`KnowledgeBase.tla`** models the persist functions of `db.lisp:150-401`.
Each runs in one Tek9 write transaction and is one action. Any record that a
constructor can build may arrive at any time: the caller may hold a source it
read long ago. A claim stands for expert, version, evidence, key and value,
which a promotion copies and compares; a ground for what it does not. Ids are
nested as in the code: an export id contains its promotion's, which contains
its assertion's.

**`MailboxActor.tla`** models `ActorRef` and `Actor` with its `_MailboxActor`.
An action is what the loop runs between two awaits; the Pykka thread is
`Take` and `ThreadResumes`. `asyncio.Event.set` resumes all waiting tasks even
if the event is cleared again. `DeliveryCancelled` kills the thread without
`on_stop`, as an exception out of `on_receive` does in Pykka.

**`KismetPoller.tla`** models `_poll_once`, the sink, `RabbitPublisher.publish`
and the command's loop. A document is named by what its `_id` is made of. One
SSID per access point; a document that fails schema validation in `publish`
behaves as `Unroutable`, which by `DevicesPassBoundary` does not happen; the
publisher is that of `RabbitPublisher.tla` with its attempts only. The two actors'
mailboxes are queues here: that a mailbox delivers in order and that stop
comes after earlier messages is what `MailboxActor` is about.

**`WirelessDocuments.tla`** has no state: it is what the mappings of WiGLE
results and Kismet devices return (`network_document`, `host_document`,
`network_documents`, `station_document`, `observed_at_station_relations`,
`map_encryption` and the conversions of numbers, times and addresses), the ids,
and whether `SchemaBoundary.validate` takes a document: the contracts of
`transport.py:89-126` field by field. A JSON value is a tag and what the code
looks at; an id is the tuple of its parts. The envelope is built by
`build_envelope` alone and always valid, so only `data` is checked. `Maps` says
which results `network_document` returns of at all: not without a netid, with a
digit that `int()` refuses, or with a time that `astimezone` takes out of the
years 1 to 9999. What `strftime("%Y")` writes of a year before 1000 depends on
the interpreter: since gh-120713 (CPython 3.13, and late in 3.12) it has four
digits on Linux, before it had fewer. `pyproject.toml` allows both
(`requires-python = ">=3.12"`), so the constant `PadsYears` says which one runs
the tools. The run has an interpreter that does not pad; the theorems hold of both.

**`RabbitPublisher.tla`** models `RabbitPublisher`, `JsonlPublisher` and the
`ValidatingPublisher` before both. `Publish` validates and chooses the sink;
then `Connect`, `OpenChannel`, `DeclareExchange`, `ConfirmDelivery` and
`Confirmed` are the exchanges of `_connect` and `basic_publish`, each of which
`AttemptFails` may end, with or without a copy of the document at the broker:
`_reset`, and the next attempt or the error. `ConnectionDrops` happens at any
time, `ChannelDrops` between calls; `"lost"` is a connection whose `is_open`
does not know yet. A channel
that is not in confirm mode returns at once, which is what `Confirmed` says of
one. **`PublishContract.tla`** is what a caller is promised: only valid
documents are taken, only during their call, and a return means taken.

**`WirelessCommand.tla`** extends the publisher with the commands of `cli.py`.
`Request`, `PageDone`, `Exhausted` are `_paginate`; WiGLE holds a sequence of
items, of which a cursor or the netid of an item names a position, and a full
page may come with or without `searchAfter`. `NextResult`, `TellHost`,
`TellNetwork`, `WaitForSpace` are `WigleActor._search`, which keeps the event
loop but where it waits for space (`LoopFree`); `Handle` and `Handled` are the
sink around a publish in a thread; `JoinWigle` to `StopSink` are
`WigleActorSystem._run` and `ActorSystem.stop`. `PublishDirectly` to
`DirectEnds` are `bluetooth`, `detail` and `manifests`, which publish on the
loop itself. `Announce` is the publication of the actors' manifests by
`ActorSystem.start`. That a mailbox delivers in order is again
`MailboxActor`'s business.

`MC*.tla` give model values. A definition whose comment begins with "Mutant
of" is never used by the specification: it is a plausible bug, kept beside
the definition it distorts, for which some property fails.

## Runs

All runs take `tlc -config X.cfg MCX`. Symmetry is used in `MCKnowledge` and
`MCOperations`, whose properties are not liveness properties.

| run | distinct states | bounds | why they are enough |
|---|---|---|---|
| `outbox_solo` | 245,307 | 2 documents, 1 producer, 1 drainer, 2 attempts, LIMIT 1, 1 crash, 1 failing write, clock to 2 | two documents compete for a LIMIT of one; two attempts give a retry and a failure; backoff grows and is capped; the crash and the fault can meet in one entry |
| `ipx_replay` | 55,111 | 2 flows of which one is undecodable, 2 replays, 2 files, 1 crash | a record cut in the middle followed by the other record gives a merged frame; the replays may overlap at each step |
| `mailbox` | 30,918 | 3 clients, capacity 2, 3 starts, 4 tells, 1 cancellation, no overlapping start | a full mailbox with a waiting teller, a joiner and a stopper at once, and restarts |
| `kismet` | 549,704 | an access point and its client, 2 publish attempts, clock to 3, 2 runs | the smallest relation; a document may be new, repeated or skipped; the second run sees what the first left |
| `discovery` | 48,286 | 2 assets, 2 jobs, 1 synchronous and 1 direct caller, 1 failure, 1 crash | one asset is shared by all callers; one job has an invalid second output |
| `knowledge` | 68,086 (up to symmetry) | 2 operations, 2 names, 2 runs, 1 claim, 2 grounds, 6 records | an export needs three records, its retraction a fourth; two runs already give two contents for an id, since run and claim are copied and compared together |
| `wireless_command` | 234,788 | 4 offers of 2 to 5 items, pages of 2, 2 pages, mailbox of 2, 2 publish attempts; about 1,800 results and 3,000 devices for the mappings | the offers have a full and a short last page, an item that is no object at the end of a page and elsewhere, a result without netid, one with a time in the year 1 (refused, as `PadsYears` is FALSE here), one whose time overflows, and more items than the pages hold; a host and a network fill the mailbox, so that the search waits; a second attempt meets the channel the first one left |
| `operations` | 1,481,326 (up to symmetry) | 2 operations, 2 directories, 1 asset, 1 recording thread and the supervisor, 2 creations, 3 changes, 1 failing change, 1 restart | three changes go away and come back, so that a caller can meet its own operation again; a failure between them leaves operation and database apart; both operations may have one directory |
| `capture` | 270 | budget of 2 restarts, 1 exit noted twice, 1 stopper that signals | the budget is used up and exceeded; the second notice may meet any later process and each step of a launch or a stop. The state space is whole: nothing else is bounded |

What the properties say:

- `outbox_solo`. `AckImpliesAccepted`: no acknowledgement without acceptance.
  `AttemptsPaidByInterruptions`: attempts exceed the maximum by at most one
  per crash or failing write. `TerminalIsFinal`: outcomes are never touched
  again. `LedgerSpec`: refinement of `DeliveryLedger`. `EventuallySettled`:
  every durable entry ends, no state is a trap and LIMIT starves nobody.
- `ipx_replay`. `ExchangesAreFrames`: an exchange is one whole record at its
  offsets. `Accounted`: each valid record below a checkpoint is an exchange,
  whatever was quarantined while it was half written, and each other frame
  there has a quarantine at its offset. (That the quarantine has the frame's
  bytes is false, see the observations below.) `EveryFrameConsumed`: the latest
  checkpoint passes each complete frame, in spite of the crash and of
  replays that conflict with each other.
- `mailbox`. `SignalsTrusted`: the two events say what the counter says and the
  counter what is queued or running (`SignalsAgree`), and nobody waits for what
  is already so (`NoLostWakeup`). `StoppedMeansDrained`. `EveryStopReturns`: but for actors
  killed by a cancelled delivery, where the code hangs (hazard
  `actor.py:231`).
- `kismet`. `NoSilentLoss`: a document marked as seen is at the broker, on its
  way, or a failure was reported; so a run that ends without a report has
  published all it emitted. `RelationsAfterNodes`. `DeltaEmitted`: what the
  server lists at the cursor is emitted or the run ends.
- `wireless_command`. `ExitIsTruthful`: a command that reports no failure has
  stored every document of every result it received, flushed to the file if that
  is the sink (`CleanExit`), and unless it warned of `max_pages`, it has received
  every result (`CompleteOrWarned`). `CommandEnds`: it ends, whatever fails.
  `ContractSpec`: see [Proofs](#proofs). `MappingsHold`: whatever is published
  next, the mappings against the boundary (`ResultsPassBoundary`: the
  documents of a result that maps pass it, but where years are not padded
  the networks with a time before the year 1000; `DevicesPassBoundary`) and
  against the table of securities (`SecurityAsTabled`), over the given fields.
  The run has `PadsYears` FALSE, as only then is there a result that the boundary
  refuses; it passes with TRUE as well. They are facts about
  `WirelessDocuments` and stated where its documents are published, in
  `RabbitPublisher`.
- `discovery`. `EventsFollowStore`: store and views precede the event
  (`PublishedIsStored`), and exactly failures and crashes lose an event, for good
  (`UnpublishedIsBroken`).
  `ViewsFollow`: a stored asset without a row is being handled or had a
  failure; this includes the window in which a registered view is not yet
  rebuilt. `PublishedOnce`: for assets only jobs find.
  `FuturesResolve`.
- `operations`. `OperationsInStep`: outside of a change of operations that is
  under way or has failed, the one open database is the current operation's, and
  the process is in its directory (`InStep`); whoever is about to write to a
  store took the operation of that store, though it read the two at different
  times (`LabelledForStore`); a job whose store was closed under it does not
  report success (`SucceededIsStored`). `KeptInStep`: an asset goes to the legacy
  hook alone only without an operation or during a change.
- `capture`. `KeepsHold`: no more live processes are out of the service's reach
  than exits were noted twice and stoppers signalled (`OrphansPaid`), and a
  running service has the process it launched last, alive or with its notice
  under way (`RunningIsWatched`). `StopIsFinal`: what is noted after a stop
  changes nothing. `Recovers`: a running service whose process has ended runs
  another, has failed, or is stopped.
- `knowledge`. `ClaimsTraceable`, `ReadsSucceed`, `NeverResurrected`,
  `RetractionCloses`: see [Proofs](#proofs). `TypeOK` includes that a stable
  id names one record in each store.

**Fairness.** `Outbox`: weak fairness of each drainer's steps and of time.
Nothing in the repository drains periodically; clients ask for drains
(`drain-outbox-async`), and the assumption is that they keep asking. No
fairness of the server, of enqueues, of faults or crashes. `IPXReplay`: replays
are run again and again, by the operator; none of the proxy. `AssetDiscovery`:
providers return and actor threads run. `MailboxActor`: threads, hooks and
handlers go on; nobody is assumed to call anything. `KismetPoller`: the loop
and the threads go on; the HTTP client has a timeout, so requests end, by an
answer or `RequestFails`; no publish is assumed to succeed.
`WirelessCommand`: the same of the client, the search, the sink, the publisher
and the command; none of the broker, and none of the interrupt. A publish ends
because its attempts do. `CaptureService`: exits are noted in the end, and calls
that have begun go on; no process ends and nobody stops the service by fairness.

**Deadlock** is checked in the outbox, IPX and operations runs. It is off where clients
use up a bounded number of calls (mailbox, kismet, discovery, knowledge), a command ends (wireless) or a service is
stopped (capture): there the system really stops.

## Findings

Each run below expects a violation of one property, quoted from a comment or a
document of the repository; `PROJECT.json` gives the lines.

- `outbox_attempts`: a crash after `mark-outbox-sending` makes an entry be sent
  more often than `*outbox-max-attempts*`, against its docstring. The limit is
  tested only after a reply.
- `ipx_twice`: a flow whose response hook fires twice (a replay in mitmproxy or
  mitmweb re-runs the hooks of the same flow) gives two records with one exchange
  id; the conflict escapes before a checkpoint and every later replay ends there.
  `mitmdump` as the capture service starts it does not replay by itself.
- `kismet_skipped`: the cursor is read after the devices, so a device last
  seen between the two requests is never asked for again.

Observations without a run of their own, as the runs are kept few:

- `discover-asset` outside the provider path publishes an asset twice when it
  races, against "exactly once" in its docstring (`assets.lisp:182`). In
  `AssetDiscovery`, `PublishedOnce` fails without its exception for
  `DirectAsset`.
- Once a page carried `searchAfter`, `_paginate` never looks at the netid of a
  last result again; after a later full page without a cursor it requests the
  same page until `max_pages`, against its comment (`wigle/client.py:28-29`). Its
  ids are the same, so StarIntel sees duplicates and not other documents, and the
  command warns.
- `use-operation` sets `*current-operation*` first; if the directory cannot be
  made, the old database stays open under the new operation's name, and
  `operation-status` reports it as its own, until a change succeeds. In
  `OperationSwitch`, `InStep` fails without `failed` in `Divided`.
- `new-operation` without a path takes the working directory, which
  `use-operation` has changed to that of the operation before; the two share a
  store, so a query returns the assets of both (`assets.lisp:219` says
  operation-local) and what one of them knows is never discovered for the other.
- `CaptureService` with `Overlaps = TRUE` violates `StopIsFinal`: on another
  thread, an exit passes the test for `:stopping`, the stop completes, and a
  process is launched. The code has no lock, and no threads of its own.
- `MailboxActor` with `Overlaps = TRUE` violates `StoppedMeansDrained`:
  `start()` is let through while `post_stop` is awaited, and ends as a STOPPED
  actor with a live thread. It needs a `post_stop` that suspends; the actors
  in the repository use the default, which does not.
- The supervisor keeps its database: after the first change of operations all
  its jobs fail, until it is started anew. `SucceededIsStored` says that they
  do not succeed falsely.
- A frame quarantined as truncated that then grows by the record of another flow
  is malformed. A checkpoint passes it, but since a quarantine stands at its
  offset (`capture-replay.lisp:98`), it gets none of its own, against "Complete
  malformed frames are quarantined" (`capture-replay.lisp:193`): length and
  reason are those of its beginning. In `IPXReplay`, `Accounted` fails if its
  last line adds `q.end = f[2]`.
- Where `strftime("%Y")` does not pad, the boundary refuses a network with a
  time before the year 1000, whose host was published before it.
  `ResultsPassBoundary` says exactly when. (WiGLE has times like 0001-01-01.)
  On any interpreter a time that an offset takes out of the years 1 to 9999, or
  a number like "²", raises out of `network_document` and ends the search.
- The table of `wigle/mapping.py:15` gives `open` for no encryption with any
  flag; the code gives `wep` when the flag is set, as the next row says.
- `ActorSystem.start` sends manifests to the broker of the environment even
  with `--jsonl`, without the boundary and without a retry, and fails if it is
  not there; `main` does not close the publisher when `manifests` fails;
  `_wigle_search` does not close its HTTP client.

## Proofs

TLC checks the instances above; the theorems hold for all constants that
satisfy the module's `ASSUME` and, where named, the hypothesis `Solo` or
`~Overlaps`. Every safety property a passing run checks, invariant or action
property, is a theorem; each inductive invariant was an invariant of its run
before it was proved.

**`OutboxProofs.tla`**, for any number of producers and drainers:
`TypeCorrect`, and `AcknowledgedOnlyIfAccepted`. The latter is not inductive
alone: an acknowledgement is made in a drainer's memory first. `AckInv` adds
that every copy a drainer holds is vouched for, and that an `"ok"` reply in
hand is for an accepted document. `BackoffType` bounds the backoff; powers of
two are in Nat by counting the subsets of `1..n`, as the library's induction
theorems need an operator parameter.

There too, under `Solo` (at most one producer and one
drainer, the actor): `SoloInvariant`, whose conjuncts say that a planned put is
of a document the store lacks, that the copies of a running drain are the
stored entries, that the entry in hand is SENDING, that attempts are paid for,
and that what is on the wire is known. From it: `AttemptsArePaid`,
`AttemptsAtMostMaxUndisturbed` (the documented maximum, without interruptions),
`TerminalStaysFinal`, and `OutboxImplementsLedger`, where `StepEffects` reduces
every step to a change of at most one entry. `Solo` cannot be dropped: two
drains work on stale copies (`outbox.lisp:256`), two producers overwrite
each other (`outbox.lisp:122`).

**`KnowledgeProofs.tla`**, for any sets of operations, names, runs, claims and
grounds: `IInv` is `TypeOK`, `PromotionsTraceable`, `ClaimsTraceable` and
`ReadsSucceed`. `PromotionsTraceable` (each promotion agrees with a stored
assertion) is needed because an export looks only at its promotion. The
argument is that no graph loses a record (`Grows`, from the lemma
`PersistedInserts`), so a source found once stays. `RetractedStaysHidden` and
`RetractionIsClosing` are action properties from the same invariant.

**`WirelessProofs.tla`** has three parts. *The publisher*, for any documents, results and number of
attempts: `PublisherTypeCorrect` (with at most one copy of a document for each
attempt), `ConfirmedSends` and `ContractKept`, the refinement of
`PublishContract`. `ConfirmedSends` is not inductive: `PlainIsSetUp` adds that a
channel which is not in confirm mode is one that this very attempt is setting
up, which holds because every failed exchange resets the connection. The
refinement needs both it (a return means a confirm) and that an invalid
document never gets past `Publish`.

*The mappings*, for any `Results` and `Devices`:
`SecurityFollowsTable` goes from the table of one word to the securities a set
of words names, to what is left of them after the code has struck the weak
ones, to what the order of preference takes; `ResultsPass` and `DevicesPass`
give each conversion the kind of its result and check each field of a document
against its contract; `MappingsKept` joins the three. `ResultsPass` holds of
either interpreter: its assumptions are `YearsAreNumbers`, that a year is 0 to
10000 (datetime's and the two an offset may lead to), and `PadsYearsOrNot`, that
`PadsYears` is TRUE or FALSE.

*A command*, for whatever WiGLE holds, any page size, number of pages, capacity
of the mailbox and number of attempts: `CommandTypeCorrect`, `ExitsTruthfully`
and `CommandKeepsContract`. `ExitIsTruthful` speaks of the last state only;
`CommandInv` says what leads there. `Paging`: all objects before the cursor, the
netid and the end of the page at hand were received, these stand at multiples
of the page size, and a generator that is over has warned or met a last page
(`Ended`). `Delivered`: without a failure so far, each item received is still to
be yielded or has all its documents at the sink or in its mailbox; a document
leaves the mailbox only by a return of `publish`, which `ReturnedIsTaken` says
means taken. `SearchFlow` and `DirectFlow` say where the parts of a command are
when it matters: the call under way is for the head of the mailbox, joining
found the actor idle and the mailbox empty, and an idle actor without a failure
has yielded everything. The exception in `CompleteOrWarned` is exact: if the
last item of the last page were an object, it would have been delivered, so it
had a netid, and a netid `network_document` takes is one `_paginate` goes on
from (`NetidIsString`). `CommandKeepsContract` needs that every step of a
command is a step of its publisher or leaves it alone (`StepIsPublishers`). The
assumptions say that offers and actors are sequences, that sizes are positive,
and that what the mappings make of an offered result is a document.

**`OperationProofs.tla`**, for any operations, directories, assets, threads and
bounds: `StaysInStep`, `LabelsFollowStores`, `JobsAreTruthful`,
`RecordedIsKept` and `OperationTypeCorrect`; `GoesTogether` joins the first three. `IInv` adds to `InStep` what each
step of `use-operation` has done before it (`SwitchProgress`), among it that
never more than `*db*` is open; that nobody holds the database which was made
but not yet opened, and that the calls on an open one have its operation
(`CallsFollow`); and that the supervisor's call has stored its asset when it
comes to the views (`JobProgress`). `SucceededIsStored` needs `StoresGrow`: a put
replaces a record by one of the same asset.

**`CaptureProofs.tla`**, for any budget, number of double notices and of
failing stoppers: `CaptureTypeCorrect` (so there are never more launches than the
budget and one), and for calls that follow one another, as `~Overlaps` says,
`ProcessIsHeld` and `StoppedForGood`. `OrphansPaid` is not inductive: an exit
noted twice takes a live process away only later, perhaps by way of the honest
notice of another one. `AstrayPaid` bounds the processes that live or have a
notice under way and are not the service's own; a notice of a stranger then
exchanges one of them for the process it drops.

The same module has the replay of the spool, for any flows, files, replays,
bounds and interruptions: `ReplayTypeCorrect`, `ExchangesComeWhole` and
`CheckpointsAccount`. `Accounted` speaks of a checkpoint only while its prefix
stands for the file; `CheckpointsPass`, which is inductive, says of every
checkpoint that each valid record of the prefix it was made of has its exchange
and each other frame a quarantine where it starts, whatever file is at the path
now. The frames of a prefix are the
frames of every file that continues it, so neither writes nor the re-reading of
the spool for the checkpoint disturb it. `ReplaysFollow` gives a running
replay the facts its next step needs: it reads the current file, it stands where
a frame starts, the frames before are passed, and the frame at hand is one of
the file and, if the replay is about to quarantine it as malformed, no valid
record. That a scan finds the next newline, and so the very frame and no later
one, needs that a set of positions has a least element, which is taken from the
library's well-founded ordering of finite sets rather than by induction.

**`KismetProofs.tla`**, for any devices, access points, attempts and runs:
`TypeCorrect`, `NothingLost` and `RelationsLast`. That no document is twice in
the mailbox is a part of `TypeOK` that needs the rest: what is queued was marked
as seen (`MailIsSeen`), and nothing seen is emitted. `NothingSkipped` says that
an emission has all the documents of its poll to do or done; `LinkedBefore` that
without a failure the documents a queued relation links are at the broker or
ahead of it, from which the action property follows when the head is published.
`Quiet` says that between two polls, and so where a run may be started again,
nothing is under way.

**`MailboxProofs.tla`**, for any numbers of clients, starts, tells and
cancellations and any capacity: `TypeCorrect` and `CountCorrect` without further
hypotheses, `SignalsHold` and `StopDrains` for `~Overlaps`. The invariant has two
halves. `Counted` has the arithmetic: the counter is the number of places whose
message is not done, or more once a delivery was cancelled. The places are a set
(`Places`, `Undone`) counted by `Cardinality`, so that every step adds or takes
at most one. `Ordered` has the lifecycle: which hooks may run in which state,
that a stop is the last message of its inbox, that only the current start has a
live thread, and that who waits for space waits at a full mailbox. It is the second half that needs `~Overlaps`,
as the observation on `MailboxActor` shows.

**`DiscoveryProofs.tla`**, for any assets, jobs, outputs, callers and bounds:
`TypeCorrect`, `EventsFollow`, `RowsFollowStore` and `JobsPublishOnce`. The
invariant is stated over where each caller is and the asset it is at (`Place`,
`Aim`): `CallsKnow` has what a caller knows at each step, and that a caller who
is not direct holds the lock from the look-up to the row; `Once` has that
whoever is about to store an asset of jobs found it absent, and that one caller
at a time is between storing and publishing it. One lemma for each kind of step
(`Stores`, `Applies`, `BreaksOff`, ...) keeps what is shared; one for each action
reduces it to such a step and adds the types. `DiscoveryAssumption`
says that no caller is the word for a free lock.

No module declares a RECURSIVE operator, and no theorem rests on an induction
over data: the prover has no way to instantiate the induction theorems.

Only model-checked: liveness (`EventuallySettled`, `EveryFrameConsumed`,
`EveryStopReturns`, `DeltaEmitted`, `FuturesResolve`, `CommandEnds`, `Recovers`),
which is out of the prover's reach, and that the runs of the findings fail.

## Not modelled

Inside modelled components: asset removal and the legacy hook; the outbox view
by ingest state, which nothing maintains; replacing the spool during a replay;
several capture sources and their rotation; several producers or drainers in
the outbox run; `start()` overlapping an end in the passing mailbox run;
tell cycles between actors. Of the wireless commands: parsing of arguments and
of targets (`run_target`), the parameters of a query, the StarIntel collector,
an interrupt of a command that publishes directly, the death of the process
with lines in the buffer of the file, and floats that are not finite. Of the base schema, only the fields the
wireless tools set.

Of the Kismet poller: its wait for space in the mailbox of the sink (1000
messages). Of the views: that two callers may both find a view missing and both
add it (`investigation-views.lisp:88-92`); to look and to add are one step here.
Of operations: a failing close or change of directory, and the outbox actor, which keeps its database
as the supervisor does. Of the capture service: checking its arguments, and the
command line of mitmdump.

Components: the expert, tool executions, visual
evidence and Starlang are planned below. Parsers of tool output,
document formatting, settings, the Emacs client, legacy
scripts, registry data and prompts keep no state with properties of their own.
Tek9, Sento, Pykka, asyncio, mitmproxy, Kismet, RabbitMQ and the StarIntel
server are modelled only by how the code uses them.

## Plan

Built so far, in the order of importance: `Outbox` with its ledger and proofs,
`IPXReplay`, `MailboxActor`, `KismetPoller`, `AssetDiscovery` and `KnowledgeBase`, `WirelessDocuments`, `RabbitPublisher` and `WirelessCommand`
with their contract, `OperationSwitch` and `CaptureService`, all with their
proofs. Next:

1. `ExpertRun`: loop decisions, non-progress threshold, escalation and return,
   budget admission and exhaustion, stop conditions of the playbook, plan
   advance and selection (`expert/loop`, `budget`, `budget-loop`, `plan`,
   `selection`). Abstract specification: a run that never spends more than its
   limits and stops when told. Bounds: threshold 2, two budgets of two units.
   Theorems: budgets are never overdrawn; a decision to stop has a declared
   reason; strategy and count agree.
2. `ExecutionGraph`: tool call and result, outcome promotion, and the
   single-successor rule of source rotation (`db.lisp:17-41`), as an instance
   of the replay-safe persistence that `KnowledgeBase` states.
3. A composition of the outbox and the views by ingest state.
4. `IPXReplay` with a file replaced during a replay.
5. Proofs: with each of these components, its invariant and the refinement it
   states.

Runs stay few: one passing run for each component, and few findings have one.
