# Formal models of waforge

TLA+ modules, TLC configurations and TLAPS proofs for waforge (`src/src`, a NestJS process that runs
one WhatsApp engine, whatsapp-web.js or Baileys, per session and offers it over HTTP, webhooks, plugins
and queues) and for the pages of its dashboard (`src/dashboard/src`). The models follow the code; where
a comment or a document says something else, a run shows the difference ("Divergences").

Contents: the system, its parts and their hazards; the modules and how their actions correspond to
the code; the runs, their bounds and the fairness they assume; the divergences; the proofs; what is only
model-checked; what is not modelled; what is left to do.

## The system

| Component | State it keeps | Operations | Talks to | What is hard, and what must hold |
|---|---|---|---|---|
| Session service (`modules/session/session.service.ts`) | the session row; per id: `engines`, `stoppingSessions`, `initializingSessions`, `reconnectStates` (attempts, timer), `sessionErrors` | start, stop, forceKill, delete, reconnect timer, engine callbacks, boot, shutdown | adapters (callbacks back), database, hooks | every operation has several awaits, nothing serialises stop and delete against start and reconnect; no engine may be orphaned, a stopped session stays down, the row tells the truth, the cap holds |
| Engine adapters, lifecycle (`engine/adapters/*.adapter.ts`) | status, client or socket, teardown flag, QR being rendered, (Baileys) own reconnect timer | initialize, disconnect, destroy, forceDestroy, events | session service | late events of a client being destroyed; teardown during preparation |
| Engine adapters, operations | client, cache of contact ids, (Baileys) stores of messages, chats, contacts | about 90 operations of `IWhatsAppEngine` | the libraries | the engine goes away before any await, a page is detached unnoticed, a contact migrates to a private id; an operation does what it answers, once |
| Baileys: incoming messages, message store, identities | media limiter, raw messages per session, pairs of private id and phone with cache and table | upserts, history, put, pairs, contacts | session service, database | puts that are not awaited, upserts that overlap, gates on time stamps |
| Concurrency limiter (`common/utils/concurrency-limiter.ts`) | `active`, `waiters` | run | media downloads | slot hand-over, full queue, no overtaking |
| Ingress pipeline (`modules/integration/*`, `modules/queue/processors/ingress.processor.ts`) | `ingress_events` (dedup), jobs in Redis, dead letters, promise chains per conversation | webhook request, job attempt, redrive | plugins' workers, BullMQ, database | crash between persisting and enqueueing, Redis outage, dispatch timeouts, redrives that overlap |
| Conversation mapping, handover, plugin instances | rows; sessions and configuration a plugin is bound to | upsert, handover, provisioning, binding at boot | ingress, plugins | read-modify-write, two owners of one conversation, the running binding against the rows |
| Message service and message callbacks | message row (PENDING, SENT, ...), reactions | send, acknowledge, react, revoke, store inbound and history | session service, hooks | acknowledgement before the id is stored, duplicate inbound events, monotone status |
| Bulk messages | batch row, executor and canceller copies of it, in-flight set | create, execute, cancel, boot | message service | two writers save whole copies; crash anywhere |
| Webhooks | jobs, failure rows | dispatch, retry, record | BullMQ, HTTP | retries, crash after the request, fallback without Redis |
| Hooks (`core/hooks`) | handler arrays | register, unregister, execute | plugins | handlers change while a chain awaits |
| Plugins and sandbox (`core/plugins`, `modules/plugins`) | plugin map, registry file, directory and backup, worker per plugin, pending calls | install, configure, enable, disable, update, uninstall, calls and capability calls | hooks, ingress, search | a worker crashes at any await; timeouts race answers |
| Data schema, backup and restore | tables, migrations; rows | boot, revert; export, import | everything that writes | databases that `synchronize` built; writers during a restore |
| Infrastructure (`modules/infra`, `modules/docker`) | `data/.env.generated`, containers, the form of the page | save, restart, boot | Docker, dashboard | saved against running configuration, a form seeded from two answers |
| Files (`common/storage`) | disk and bucket | export, import, probe | infra controller | the choice of the store changes in the middle of a job |
| Automations (AI reply, group clean-up) | small memories with expiry | handle a message | hooks, engine | runs overlap, answers arrive late |
| Events gateway (`modules/events`, `useWebSocket.ts`) | sockets per key, rooms, the socket of a page and its attempts | connect, subscribe, unsubscribe, evict a key | auth, every emitter | the key is looked up while the socket goes, or while a later request is handled; no socket escapes an eviction |
| Dashboard: sessions page, chat thread | list, modal, polls; cache of the thread | buttons, polls, socket events | gateway, HTTP | answers overtake each other and the socket |
| Dashboard: webhooks, templates, keys, instances | cached queries, forms, the question that is open, a secret shown once | open, type, submit, confirm, cancel | HTTP | a handler acts on the form that is open when its answer comes; nothing typed is lost, no secret goes unseen |
| Dashboard and server: settings of a plugin (`Plugins.tsx`, `redact-config.ts`) | base and override per session, what the page shows of them, forms | edit, save, clear, refetch | plugins service | masked secrets are put back by content or position; a save stores what its form said |
| Rate limiting, authentication, groups, contacts, labels, templates, search, statistics, MCP | rows or none | one call to one resource each | | little or no interaction; not modelled |

`PROJECT.json` lists every component with what is and is not modelled of it, and the hazards of the
code (40), each at its line with the properties that cover it.

## Modules

Every component has a module with its state as variables, one action per piece of code between two
awaits (both the server and the page are single event loops, so that is the unit of interleaving), and
history variables only where a property needs to remember something. Faults are switched by a constant
set (`BulkFaults`, `InfraFaults`, ...) and remembered in a variable when a property excuses what
follows from them. Bounds are constants named `Max...` and appear in guards only.

Composition. `IngressPipeline` extends `KeyedLock` and its runs are the jobs; `KeyedLock` implements
`FifoLock`; `DataSchema` and `Backup` share `DataTables`. Parts of the system that share no state are
checked in one run by a composite module with a variable `part` that picks the part a behaviour is about:
`MCServices`, `MCPlatform`, `MCDashboard`, `MCApplication`. The parts a behaviour is not about start in one
of their states and never move; `MCPlatform` and `MCDashboard` give TLC a VIEW that hides them. `MCSessions`
has `SessionLifecycle` in four settings, three of them by INSTANCE (`Cap`, which is `SessionCap`; `Failing`; `Serial`).

### ConcurrencyLimiter

`active` and `waiters` are the counter and the queue of the class; `pc` is where each caller is:
idle, parked in the queue, woken (its promise is resolved and its continuation not yet run), running.
`Enter`, `Park`, `Refuse` are the three branches of `run()`, `Resume` the continuation after the
await, `HandOver` and `Release` the two branches of its `finally`. Between a hand-over and the
continuation of the waiter a newcomer may call `run()`: that gap is why the code does not decrement.

### SessionLifecycle

An action is the code between two awaits of one call. `task[t]` is a call in flight and the await it
stands at (`pc`), `sess[s]` gathers what the service keeps per id, `eng[e]` is the state inside an
adapter, `proc` the process.

| Code | Actions |
|---|---|
| `start()` | `Request`, `StartRejected`, `StartReserved`, `StartHookDone`, then the shared part below, `GuardTornDown`, `StartReaped` |
| `initializeEngine()` | `InitializeEngine` (register, write INITIALIZING), `BeginInitialize`, `Launched`, `InitResolved`, `InitRejected`, `InitTimedOut`, `TimeoutTornDown` |
| post-init guards, catch blocks of `start()` and `executeReconnect()` | `InitResolved`, `Guard`, `GuardTornDown`, `Catch` (in `InitRejected`, `Thrown`), `StartReaped` |
| `executeReconnect()` | `ReconnectSuppressed`, `ReconnectFires`, `Reinitialize`, the shared part |
| `stop()`, `forceKill()`, `delete()` | `TearDown`, `TornDownDone`, `DropRows`, `Purged` |
| engine callbacks | `OnStateChanged`, `OnReady`, `OnDisconnected`, `OnError` inside the engine events `QrRendered`, `Authenticated`, `Ready`, `Disconnected`, `AuthCleared`, `Failed`, `Dropped`, `Detached` |
| `ShutdownService`, `onModuleDestroy()`, `onModuleInit()` | `Drain`, `Destroy`, `Restart` |

Abstractions. The text of a reason is whether there is one. Hooks, webhooks and gateway events
leave this state alone; only their awaits remain. An UPDATE takes effect when it is issued. `stop()` and
`forceKill()` differ in how the adapter tears down, which the model does not tell apart. A teardown
with nothing to wait for still takes a step of its own, which adds interleavings. A wwjs client
that is being destroyed no longer becomes ready; it may still report a disconnect or a failure, and
a QR code being rendered still arrives. The stuck-authentication recovery (90 s) is taken to come
after the deadline of the initialization (60 s by default). `engineFactory.create()` does not fail. An
instance nobody refers to may be reused under the same name, because `isLiveEngine()` mutes it.

`SessionCap` extends it by one history variable: `late`, the sessions whose place was taken by a reconnect, which
does not count, since a start was last admitted, which does (`Admits`).

### KeyedLock, FifoLock

`KeyedAsyncLock`: `tails` is its map; the promise chain is `prev` (what a run is chained to) and
`stage` (chained, running, settled and not yet cleaned up). `LockCall` is the synchronous part of
`run()`, `LockStart` the `then(fn)`, `LockSettle` the end of `fn`, `LockCleanup` the `finally` callback that
drops the map entry if the run is still the tail. `line` is a history variable, the calls in order.
`FifoLock` is what the file promises: a queue per key, one inside, served in order, without promises,
tails or clean-up.

### IngressPipeline

A delivery is a record of the plugin instance and the id its provider gave it, which is the unique key
of `ingress_events`. `call[c]` is an HTTP request (of a provider or an operator) at one of its awaits,
`job` what Redis has under a job id, `row` the dead letters, `recorded` the deduplication rows, `acked`
the deliveries a provider regards as delivered. The lock is `KeyedLock` itself, its runs being the jobs.

| Code | Actions |
|---|---|
| `IngressService.handle()` | `Request`, `Refused`, `Record` or `Duplicate`, `Respond` |
| `IngressEnqueueService.enqueue()` | `Add`, `AddFails`, `InlineSucceeds`, `InlineFails` |
| its wiring in `IntegrationModule` | `SaveInline` |
| `RedriveService.redriveInstance()` | `Redrive`, `NextRow`, the steps of `enqueue()`, `Retire`, `RedriveDone` |
| `IngressProcessor.process()` | `PickUp`, `Dispatch`, `DispatchSucceeds`, `DispatchFails`, `DeadLetter`, `Rethrown`, `Cleanup` |
| process death and boot | `Crash` |

External, modelled from its use: BullMQ ignores an `add()` whose job id it still has, gives an attempt
after a failure until `attempts` are made, and gives the jobs of a dead worker to the next. `Faults` says what
may go wrong: `crash`, `redis` (`add()` rejects, with or without having stored the job), `db` (the save of
a dead letter or the update of a replayed one rejects), `late` (a dispatch is given up after 5 s and
its handler finishes all the same). A dispatch may fail at any time, which is no fault. `hit` remembers
which faults happened, so that a property can say what it excuses. `RowsLeft` is the one bound in a
guard: a dispatch that would need a new dead letter fails only while an id is left for it.

Abstractions. Checks before the deduplication have one outcome, `Refused`. The payload of a delivery is
its identity. A failed attempt whose successor waits for its backoff is a waiting job. Retention (rows
older than the configured days), the eviction of finished jobs after hours and the stalled-job limit are left
out: within the time the model covers they do not act.

### Messages: MessageLog, BulkBatch, WebhookDelivery

`MessageLog`: a message is a WhatsApp id; `row[m]` is what is stored under it, `draft[m]` the row of a
send that has no id yet, `send`, `recv`, `hist` where the code handling it stands, `acks` and
`reactionChains` the callbacks under way. `Senders` says for each of the kinds of send whether it
drafts, asks the gate and how it fails.

| Code | Actions |
|---|---|
| `sendText()`, `sendImage()`, ..., `forward()`, a bulk item | `Gate`, `SaveDraft`, `EngineAccepts`, `EngineRejects`, `FailSend`, `PersistSent` |
| `onMessageAck`, `advanceAck()` | `AckArrives`, `AckApplied`, `AckRetries` |
| `onMessageRevoked`, `onMessageReaction`, `applyReaction()` | `Revoke`, `ReactionArrives`, `ReactionReads`, `ReactionWrites` |
| `onMessage` | `Fires`, `HookAnswered`, `Inserted` |
| `persistHistoryMessages()` | `HistoryReads`, `HistoryInserts` |
| `isLiveEngine()` turning false; `delete()` of the session | `Retire`, `DropMessages` |

`BulkBatch`: executor and cancellation each load a copy of the row and save all of it; the copies
(`exec[b].copy`, `canceller[b].copy`) and the row (`batch[b]`) are kept apart. `CreateBatch`,
`BatchInserted`; `CancelBatch`, `CancelSaved`; the steps of `executeBatch()` under `Executes`; `Crash` is
the end of the process and `onApplicationBootstrap()` of the next.

`WebhookDelivery`: `sender[d]` is `dispatch()` and the direct delivery (`Dispatch`, `BeforeAnswered`,
`Added`, `Post`, `Touches`), `job[d]` the queued one (`JobStarts`, `JobPosts`, `JobTouches`, `JobFails`,
`JobEnds`); BullMQ runs a job of a dead worker again, once (`Stalled`). `cause[d]` remembers what
excuses a delivery: a plugin cancelled it, a payload that cannot be serialised, a fault.

### Plugins: HookManager, SandboxHost, PluginLifecycle

`HookManager`: the arrays of handlers and the chains that iterate over them in place; a chain stands at
the handler it awaits. `FireInside` and `FireFromWorker` are the events a handler causes, with the guard
against re-entry through `AsyncLocalStorage` and through the events the host knows to be in flight.

`SandboxHost`: the calls between the program and one worker. A call is entered in a map, posted, and
settled by the answer (`Hears`), its timer (`TimesOut`) or the end of the worker (`Exit`); capability calls
of the worker are admitted up to a limit and may outlive it (`WorkerAsks`, `CapArrives`, `CapEnds`).

`PluginLifecycle`: the operations of `plugins.service.ts`, serialised per plugin, with the loader, the
registry, the directory with its backup, and the worker. `op[p]` is the operation in progress and the
await it stands at.

| Code | Actions |
|---|---|
| `install()`, `uninstall()`, `updatePackage()`, `updatePluginConfig()` and its siblings | `Install`, `Uninstall`, `Update`, `Configure` |
| `enablePlugin()`, `enableSandboxed()` | `Enable`, `EnableStep`, `EnableFails`, `EnableGivesUp` |
| `disablePlugin()`, `unloadPlugin()`, `uninstallPlugin()` | `Disable`, `Kill`, `Disabled`, `Uninstalled` |
| `updatePackageInner()` | `Swap` (`Swaps`, `SwapFails`, `SwapRefused`), `Rollback` (`Restores`, `RollbackRefused`) |
| `onHookSubscribe()`, `onSearchProviderRegister()`, `onWorkerExit()` | `Subscribe`, `OffersSearch`, `Exits` |
| the end of the process and `loadPluginsFromDirectory()` of the next | `Killed` |

Every step that writes, moves, removes or reads files may throw: inside the `try` of `updatePackageInner()` that
leads to its rollback (`SwapFails`), and in the two statements before it, in the catch itself, in `uninstall()`, in the
clean-up of a failed `install()` and at boot it ends the operation with what is on the disk by then (`SwapRefused`,
`RollbackRefused`, the second branches of `Uninstalled` and `Install`, `Killed`). "broken" is a directory that is there and cannot
be loaded, partly removed or partly written. `refused` remembers the plugins this happened to, until they are
loaded again. The orderly disabling of `onModuleDestroy()` is left out: the process ends in `Killed`, which assumes less.

### Data: DataTables, DataSchema, Backup

`DataTables` has the tables, columns, keys and rules of deletion of the entities. `DataSchema` has every
migration that changes more than an index as a function of schemas, with its guards, in both
directions; TypeORM runs the pending ones in one transaction (`BootDatabase`), on a database that is
empty, of any older release, or built by `synchronize`, possibly with rows that a new key forbids
(`RowsCollide`); `Revert` undoes the last. `Backup` exports table by table (`ExportReads`) and imports in
one transaction (`ImportClears`, `ImportInserts`, `ImportEnds`) while clients write; on SQLite they share
its connection and so its transaction, on Postgres they see what is committed and wait for locked rows.

### Engines: EngineOperations, BaileysInbound, BaileysStore, BaileysIdentity

`EngineOperations`: `Plans` gives for both adapters and every operation the sequence of its checks,
look-ups and effects as the source has them; a request goes through it step by step, and before each step
the engine may be torn down, reconnect, lose its page, or the contact may migrate. `acts[r]` counts what
WhatsApp did.

`BaileysInbound`: batches, history and own sends, the gate on the time of the connection, the media
limiter and the preview of the chat. `BaileysStore`: overlapping `put()`s, each an upsert, a query and
a delete. `BaileysIdentity`: pairs of private id and phone per session, the shared table and its cache.

### Infrastructure: InfraConfig, FileStore

`InfraConfig`: `file` is the saved configuration, `running` what the process booted with, `containers`
what Docker runs, `page` the form. `saveConfig()` is `ApiSaves` and `SavesForm` (through `Merged`), the
effects of the page `StatusArrives` and `ConfigArrives`, the restart `RequestsRestart`, `Exits`, `Boots`.
`FileStore`: every file of an export or an import asks anew which store to use.

### Integrations and automations: Conversations, PluginInstances, Automations

`Conversations`: `upsert()` (`Find`, `Insert`, `Refind`, `Update`), `handover.set` (`GetRow`, `SetState`)
and the gate of incoming messages. `PluginInstances`: the calls of the controller step by step
(`CallStep`), the sessions and configuration the plugin runs with, the boot (`StartUp`) that derives them
anew. `Automations`: the replies of a language model and the removal of group messages with the time
of the last reply, the messages handled and the administrators as caches with expiry.

### Dashboard: LiveChat, SessionsPage, EventsGateway, ListPages, PluginSettings

`LiveChat`: the thread of a chat between three sources: the fetch (rows and history), the events of the
socket, the page's own sends; messages have a different key in each until the send is stored.
`SessionsPage`: the list, the modal with its poll, handlers that go on with the list of the moment of
the click, the socket.

`EventsGateway`: `socketOf` is the socket of the page with its attempts to reconnect, `links[k]` the server's
side of a socket and how far the look-up of its key is, `tracked` the map of sockets by key, `rooms` what it
has joined, `frames` the requests on their way or waiting for a look-up. All sockets use one key.

| Code | Actions |
|---|---|
| `useWebSocket()` | `OpensSocket`, `ServerHears`, `AttemptFails`, `TransportLost`, `Unmounted`, `SendsFrame` |
| `handleConnection()`, `handleDisconnect()`, `evictApiKey()` | `LooksUp`, `AcceptsKey`, `RejectsKey`, `HandleDisconnect`, `EvictApiKey` |
| `handleSubscribe()`, `handleUnsubscribe()` | `TakeSubscribe`, `Refuse`, `Join`, `Leave` |

`ListPages`: one module for the four pages that show a list, since they differ in a few places only, which
`listKind` tells apart: whether a button is off while its call runs (`Busy`), whether a form that was closed
keeps what it said (`OpenNew`, `Cancel`), whether a question closes before its call (`Confirms`), and
whether a secret is shown once (`Mints`). `entries` is the server's table, `listed` the data of the query,
`calls` the calls under way. `SubmitsForm`, `Confirms`, `ServesCall` and `CallAnswered` are a handler from the
click to its last statement; `Invalidates`, `RefetchesList`, `ListArrives` and `QueryFails` the cached query.

`PluginSettings`: a config has a secret, a text, and rows with a secret each; `base` is the one of all
sessions and `override` that of one. `ShownConfig` masks (`redactSecretConfig`), `ServesSave` restores
(`RestoreSecretConfig`, with `Counterpart` for the rows) and merges; `configForms` are the form of the base and
of the override, filled from what the page shows (`SeededForm`) and saved as a whole or as what differs
(`SparseSessionOverride`). `OthersSave` is another user.

## Runs

| Run | Bounds | Shows |
|---|---|---|
| Sessions | 2 sessions, 2 engines, 2 calls, Baileys, failing statements and restarts (calls overlap on one of the sessions); as part "cap", starts, stops and reconnects of both under a cap of 1, without QR codes, which take no place; as part "failing", starts and stops without reconnects; as part "serial", one call at a time on one of them, wwjs (1.8 million states in all) | one reservation per start (`ReservationHeldOnce`), a stopped session stays down (`StoppedStaysDown`) and its row is not overwritten (`StopIsFinal`), no start exceeds the cap, reconnected sessions counted, and a session whose start failed for good says why (`StartsAreAccounted`), and, when calls do not overlap, that no engine is orphaned, a delete leaves nothing and no row claims what is not there (`SerialIsClean`); `SessionOrphan` shows what overlapping calls do |
| SessionLiveness | 1 session, 2 overlapping calls, 1 attempt, Baileys; and one call at a time, wwjs (`FairSessions`) | reservations are returned, stops take effect |
| IngressFaults | 1 delivery, 2 requests, 1 dead letter, 2 attempts, every fault | nothing recorded is lost unless the process died or a dead letter could not be saved, and what is queued survives even a crash (`NothingIsLost`); `HandledOnce` while no fault excuses more |
| IngressOrder | 2 deliveries of a conversation, 1 request, 2 workers, 2 attempts, 2 dead letters, early acknowledgement | the pipeline's lock is a FIFO lock and keeps its map small; dead letters are written once; every recorded delivery is settled |
| Services | 5 callers, 2 slots, 2 places; 3 items saved every 2; 2 calls, 2 capability calls, limit 1; 1 plugin, 2 versions, 2 settings, 3 workers, 1 restart; 0, 1 or 3 retries, 2 crashes | limiter, bulk batch, sandbox, plugin life and webhooks: what each promises, and that everything ends |
| Application | 2 messages, 1 slot; 3 stored messages, limit 1; 2 files, 2 jobs; 2 inbox messages; 2 owners, 2 chats; 2 cards, 3 steps | incoming messages, the stores, automations, conversations, the sessions page |
| Platform | 1 message with 2 reactions and 2 acknowledgements; 2 plugins, 2 chains; 2 operations; every release on both dialects; 3 tables, 2 sessions; 1 service, 2 switches, 2 saves; 1 private id, 2 phones; 2 instances, 2 calls | messages, hooks, operations, identities, schema, backup, infrastructure, instances |
| Dashboard | 3 messages, 1 gap, 1 text; 2 sockets, 1 session, 2 requests, 1 eviction, 1 attempt to reconnect; the 4 pages with 2 rows, 3 texts, 2 calls, 1 fault; 2 rows with secrets, 3 names, 3 edits or saves, the last a save | the thread, the live events, the pages that show a list, and settings stored as they were meant |

Why these bounds. The hazards are races of two operations on one thing (session, batch, delivery,
conversation, row), so two actors on one thing are the interesting case, and a third (a timer, a
crash, a fault) is always there as well. Two engines are the old one and its successor, three workers the
old one, the updated one and the one of the rollback. One reconnect attempt reaches the last attempt and
the exhausted state; two attempts of a job the first and the final one; a cadence of 2 in 3 items a save in
the middle and items after it. What is proved is proved for every value of these constants. Deadlock is
unchecked where the system really may stop: after a delete of the last session, when a bounded number
of clicks, saves or messages is used up.

A run of several settings or parts chooses one in its first state, and its next-state relation is a disjunction
of theirs. That each one's actions really occur is seen with `tlc -coverage 1`, which counts them by line.

### Fairness

Liveness is checked under the fairness that the code's timers justify, never under more.

* Limiter: continuations run, and the work given to `run()` ends (both users have deadlines).
* Sessions: weak fairness of every task, since awaited hooks and teardowns are bounded by timers of 10 s
  (`teardownEngineSafely`), initializations by their deadline, statements by the database. That the engine answers
  an initialization is not owed; that a wwjs launch, once begun, reaches its client is, because the adapter
  waits for it. Engine events, callers, timers and the process owe nothing.
* Ingress: weak fairness of requests and attempts (dispatches end after 5 s). `PickUp` has strong fairness:
  it is disabled whenever the workers are all busy, and BullMQ hands out jobs in order. Providers,
  operators and faults get none.
* Bulk: the steps of the executor. Sandbox: timers, and messages and verbs on the program's side; the
  worker owes nothing. Plugins: every step of an operation (each call to a worker is timed) and the exit
  of a worker told to terminate; crashes owe nothing. Webhooks: requests time out, BullMQ works.
* Incoming messages: downloads have a deadline. Files: probe and job. Automations: the model has a deadline,
  the delay is a timer. Sessions page: the poll's timer, answers.
* Platform and Dashboard state no liveness: their parts either end with a request or wait for an operator or a user.

## Divergences

Each is a run whose property a comment or document states and TLC refutes.

* `SessionOrphan`: a stop that arrives before the adapter has a client tears nothing down, and the
  engine that starts afterwards is in no map.
* `InfraUnseen`: the form of the infrastructure page always sends its initial engine type; every save on a
  deployment that runs Baileys switches it to whatsapp-web.js at the next restart.
* `IngressCrash`: a crash between the deduplication row and the enqueue; the provider's retry is
  answered "duplicate" and nothing reads the row again.
* `IngressSharedIds`: the queue is shared by the plugin instances and its job id is the bare delivery id. Two
  providers that number alike make the second delivery vanish, acknowledged. (`IngressFaults` and
  `IngressOrder` use ids that differ.)

### Also met while modelling

Behaviours of the code that are reachable in the models, or were left out of them for the reason given,
and have no run of their own.

* Sessions. A second disconnect at the last attempt writes FAILED and leaves the timer armed
  (`scheduleReconnect`); the catch block of `start()` looks the engine up by id and may reap one that a
  reconnect registered meanwhile; a start is admitted while a stop awaits its teardown when the teardown
  makes the initialization reject; a start during the hook of a delete outlives the row; `onError` cancels
  the reconnect state that the catch block of `executeReconnect()` needs, so a rejected reconnect is not
  retried; a QR code rendered after the teardown sets the adapter (not the row) to QR_READY; a reconnect
  timer armed before the drain window fires in it; a session whose page detached is DISCONNECTED with its
  engine registered; a delete whose transaction fails forgets the reason of a failed session; a reconnect takes
  its place without counting, so there may be more engines than MAX_CONCURRENT_SESSIONS allows, which
  `docs/03-system-architecture.md` 1485 excludes: `StartsRespectCap` excuses exactly the places that reconnects took since a
  start was last admitted, and `CapRespected` fails in part "cap".
* Ingress. A crash between the dead letter and the rethrow of the last attempt writes a second dead
  letter, whose replay handles the delivery again; `add()` rejecting after Redis stored the job dispatches
  twice; without the queue two overlapping redrives do; the inline fallback dispatches outside the lock; the
  lock ends with the dispatch's timeout, not with the handler in the worker.
* Messages. The history path inserts without asking again whether the engine is live; a duplicate of a
  live message that history stored is never announced; a save that outlasts the single retry of an
  acknowledgement (750 ms) loses it (excused as "slow"). A batch cancelled before the executor's loop is
  overwritten; a PENDING batch is orphaned by a crash.
* Plugins. A configuration change during an enable does not reach the new worker; a crash in the middle of
  the swap of an update leaves the plugin in its backup only; ids made from `Date.now()` collide. A bad update does
  not always leave the plugin as it was, against `plugins.service.ts` 390-393: removing the old backup and
  renaming the directory (422-423) throw outside the `try`, when the plugin is unloaded, and its files stay where
  they are, or in the backup; an update then answers 404 and, while the directory is there, an install 409, until a restart loads
  it. Failing to remove the backup (435) rolls a successful update back, possibly to a backup that is damaged;
  the removal and the renaming of the rollback (444-445) throw out of the catch, and a failing reload (447) is
  swallowed. An uninstall whose `rmSync` throws (`plugin-loader.service.ts` 501-503) has forgotten the plugin and left its
  directory, which the next boot loads again. `RuntimeMatchesDisk` and `UpdateKeepsPlugin` name these plugins
  (`refused`); of every other plugin they hold whichever step failed.
* Instances and conversations. Disabling, moving or removing one of two instances of a session clears the binding
  of the other, even if the one was disabled before, although `scope-binding.service.ts` 84-88 takes care of that for
  "all sessions"; binding a concrete scope takes the wildcard away; both until the next boot; a PATCH racing a DELETE
  resurrects the row; the gate of the handover fails open on a database error.
* Infrastructure. A payload with only one of `queue` and `redis` switches the other off
  (`infra.controller.ts` 717, against 644-646); a late answer overwrites edits; a crash between save and
  restart can leave a configuration whose database was never started.
* Files. A corrupt archive ends the process; an archive error leaves an export unanswered; an import after
  a restart during which the bucket is down writes to the disk and answers "s3"; the choice of the store
  changes within a job.
* Engines. The header of the capability matrix counts an operation as unsupported that its table
  supports; a call on a client that a teardown took away ends in a TypeError; messages sent while the link
  was down arrive as 'append' with older stamps and are dropped; two overlapping puts may evict the newer; two
  upserts of one message that reach the database in the wrong order leave its row with the older time, and it is
  evicted too early (`TooLate`).
* Automations. Two sessions with replies on can answer each other without end; "not an administrator" is
  cached for five minutes.
* Dashboard. The answer of a fetch overwrites newer live events, so ticks regress (against
  `chatMessages.ts` 61); events between a reconnect's fetch and its subscription are missed; handlers of
  the sessions page write back the list of the moment of the click; the poll of one session shows its QR
  code in the modal of another, which `Sessions.tsx` 253-254 excludes.
* Events. A socket that goes while its key is looked up is put in the map of its key afterwards and stays there
  until the next eviction (`deserted`); an unsubscribe does not wait for the look-up of an earlier subscribe,
  whose rooms are then joined after all (`overtaken`).
* Lists. A webhook is made twice by two clicks, since its button stays on; what is typed into a form while its
  own call is under way is cleared with it (`moved`); the next minted secret replaces one not yet closed
  (`together`); an answer that is lost leaves the page behind until the next read.
* Settings. `redact-config.ts` 114-118 says that a masked secret is never bound to another row. It is when a row
  is renamed to the name of another, or one row is removed and one added (the list is as long as before, and the
  row in its place lends its secret): `Calm` states which edits are safe. The first override of the rows of a
  session loses the secrets of rows that were left masked; rows of an override that differ from the base in
  their secrets only are taken for unchanged and dropped. `updateConfig()` answers a file that
  cannot be written with `{success: false}` and status 200: the page shows it as saved, and so it is until the
  next restart, which the model does not reach.
* Backup. A restore that is rolled back on SQLite takes along what other clients were told is saved; the
  export is a sequence of SELECTs in no transaction; the import drops `chatName`.

## Proofs

Eight modules of proofs, checked by TLAPS for every value of the constants, under the named assumptions
only (`CallsAssumption`, `MaxAssumption`, `SetsAssumption`, `ConfigAssumption`, `LockAssumption`,
`IngressAssumption`, `BulkAssumption`, `LogAssumption`, `DeliveryAssumption`, `SandboxAssumption`,
`PluginAssumption`, `SettingsAssumption`, and those of the parts of `MCApplication`,
`MCPlatform` and `MCDashboard`), which
TLC evaluates in the runs. They ask that the sets of actors be finite, bounds be numbers, and "none", "nothing" or `None` name
nothing else.

| Module | Theorem | Says |
|---|---|---|
| ServiceProofs, limiter | `LimiterTypeCorrect`, `LimiterStaysExact`, `LimiterIsFair` | slots are conserved, the queue is exactly the parked, no slot idles while somebody waits; no overtaking |
| SessionLifecycleProofs | `SessionTypeCorrect`, `ReservationIsHeldOnce`, `StopIsNotUndone`, `StoppedRowStands`, `StartsStayWithinCap`, `CapHoldsWithoutReconnects` | types; one holder per reservation; a stopped session without a call in flight has no engine, and its row does not move until somebody calls again; no start takes a place above the cap, whatever reconnects took before it; without automatic reconnects the cap holds |
| IngressPipelineProofs, lock | `LockExcludes`, `LockIsOrdered`, `LockMapIsTrimmed`, `LockImplementsFifo` | the promise chain is a FIFO lock |
| IngressPipelineProofs, pipeline | `IngressTypeCorrect`, `PipeImplementsLock`, `ConversationsExclude`, `ConversationsInOrder`, `ConversationsAreFifo`, `LockMapStaysTrimmed`, `DeliveriesSurvive`, `NothingIsHandledTwice`, `FinalAttemptWritesOnce` | every behaviour of the pipeline is one of the lock, and of the FIFO lock; nothing recorded is lost; nothing is handled twice; one dead letter per exhausted job |
| ServiceProofs, batches | `BulkStaysAccounted`, `BatchStaysTrue` | no item is sent twice, counts add up, COMPLETED and CANCELLED mean it, slots are exact |
| MessageLogProofs | `LogStaysKept`, `LogStaysTrue`, `DeliveryOnlyAdvances` | acknowledgements and reactions reach the row, a message is announced once, the status never goes back |
| ServiceProofs, webhooks | `DeliveryStaysSound`, `VerdictStaysTrue` | no silent loss, one verdict, a failure row means lost, attempts bounded |
| ServiceProofs, plugins | `SandboxTypeCorrect`, `SandboxStaysExact`, `AnswersStand`, `PluginsTypeCorrect`, `RuntimeAgrees`, `UpdatesKeepThePlugin` | types; counters of the sandbox are exact, a dead worker owes nothing, and no late answer changes what a caller was told; an enabled plugin is its one live worker and its hooks; an update never loses the plugin |
| ServiceProofs, together | `ServicesTypeCorrect` | the types of all services of the run `Services` |
| ApplicationProofs | `ConversationsStayWithTheirOwner`, `WhatIsKeptStays`, `IncomingStaysHandled`, `PageStaysSound`, `ApplicationTypeCorrect` | a handover is not undone and a conflict is real; the newest messages are never evicted and what was exported or imported is complete; a live message is announced once, and the automations keep to their limits; the sessions page shows what happened, but for lists that crossed newer events and a modal that another session's poll wrote to; types |
| PlatformProofs | `EngineStaysTrue`, `InfraStaysTrue`, `IntegrationsStaySound`, `ChainsStaySound`, `PlatformTypeCorrect` | an operation did what it answered, and the cache of identities is what the table keeps; what is saved is what boots, and a restore is all or nothing; enabled instances are bound, and only they; a chain whose lists nobody edits meanwhile runs each handler once and in order, and no handler fires the event it handles while its lineage is known; types |
| DashboardProofs | `GatewayStaysTrue`, `ListsStaySound`, `SettingsStayKept`, `ThreadStaysTrue` | a socket is in the rooms its page wants, unless a request overtook a look-up or the socket left during one; a list shows what there is, and what is typed is somewhere, unless its form was closed under it; settings are stored as they were meant after edits that are `Calm`; the thread of a chat shows each message once, with a tick WhatsApp has reported, and in the end that of the database |
| DashboardProofs, together | `DashboardTypeCorrect`, `LiveStaysTrue` | the types and the promises of the four parts of the run `Dashboard` |

How they go. None of the checked properties is inductive; each proof strengthens it to an invariant that says
what every actor knows at every await, and shows that one step of one actor keeps it, with a frame lemma
for the others (`OthersStayKept`, `OthersStayAccounted`, `OthersStand`, ...).

* Limiter: to the types is added that the queue has no duplicates and holds exactly the parked callers, so
  that a hand-over wakes somebody who is parked.
* Sessions: `TaskShape` says which fields a call at each await has, so that `eng[task[t].e]` is an engine;
  `StopPending` says that an engine registered for a stopped session has a call in flight that will remove
  it: the stop, a start or reconnect on its way to the post-init guard, or a guard that has seen the mark. For the cap,
  `PlacesMove`: who has a place after a step had it before, was admitted by a start that counted, or is reconnecting and so
  in `late`; an engine comes within the place its reservation holds. Without reconnects nobody is ever in `late`.
* Lock: the map and the chain are tied to the line of each key: the tail is the last of the line, every
  run is chained to its predecessor, who is not first is chained.
* Pipeline. `PipeInv`: what each request, row and job must know, and that only active jobs are in the
  lock. For losses, `MatchInv` (a job has the delivery its id stands for) and `HeldInv` (whoever holds a delivery:
  handled, pending, an open letter that was never replayed, a request in flight). For repetitions, `TokenInv`:
  while no fault excuses it, each delivery has at most one token among requests before `add()`, jobs that are not
  exhausted, and letters not yet replayed, and handling keeps the token. For letters, `LetterInv` counts those of
  a delivery against its exhausted jobs. `DeliveriesSurvive` and its kin assume that different
  deliveries have different ids; `IngressSharedIds` shows that they need it.
* Batches. `Accounted`: the copy of the executor counts exactly what was sent, at each await in its own
  way (`Counting`, `Deciding`), the row never claims more (`Claiming`), the canceller's copy neither
  (`Cancelling`), and a cancellation that was heeded stays (`Heeding`); `early` and `mishap` are the
  histories the properties excuse.
* Messages. `Kept`: where a row came from, what is impossible before the id is known, when a draft is
  pending, and for acknowledgements and reactions that whatever was asked is shown by the row or still
  under way with somebody.
* Webhooks. `Sound` splits the requests made between sender and job (`Measured`) and follows the verdict
  through both (`Undecided`, `Accepted`, `Answered`).
* Sandbox. The map of calls, the counters of events in flight and of capability calls, and the wire: what
  the worker still has to hear.
* Plugins. `LifeInv` says for each stage of an operation whether the worker runs, is dying or has crashed
  (`Runs`, `Dying`, `Crashed`, `Asleep`), that the search goes to somebody living, that every worker has an
  owner, and what memory, registry, directory and backup have in common (`Disk`), but for the plugins in `refused`.
* Conversations. `ConversationInv`: who waits for the database knows what was written since it read
  (`Knows`): an upsert whose provider id belongs to another chat carries that in `clash`, one that looks a second
  time finds a row or carries it. The gate reads the row changed last, which exists because a finite set of numbers has a
  greatest member (`Greatest`, by well-founded induction over the subsets). The proof found the history of
  conflicts too weak where one ends before it is reported; `Clashes` now remembers it.
* Message store. A put that is about to delete has a cutoff that is old: the limit's worth of messages are
  newer (`CutoffIsOld`, kept by every later put), unless a logout, the end of the session or a late upsert came between;
  and whatever is beyond the limit has somebody on its way to evict it (`SomebodyEvicts`).
* Files. `JobIsOnTrack`: what a job has left to do and what it has done make up what it was asked for, while
  its store stayed the same and nothing failed.
* Incoming messages. `TimesHold` (what a customer sent and the adapter ignored was sent before the connection
  opened), `QueueHolds` (the queue holds the parked messages, once each, and is empty while a slot is free),
  `PreviewHolds`. Automations: `RepliesHold`, `RunsHold` and `AdminsHold` relate the times in the memories
  to the runs that await something.
* Sessions page. `CallHolds` says how far the list a call took along, or will answer with, can be from the server's
  and from the list shown, but for the sessions it crossed; `NewsIsTrue` that the last event on its way about a
  session has the server's status; `StatusIsKnown` that a row that is behind has an event or a handler
  coming that will write it; `ModalHolds` that every call for the modal is for the session the modal names.
* Infrastructure. `DatabaseIsKept`: while nothing excuses the absence of the database, what a form nobody touched
  says of it is what runs or what the file says, and the container a saved file needs is among those started.
* Backup. `Halfway`: in the transaction, what is not yet cleared has its table on the list of what is left to
  clear, and later the rows are those of the export inserted so far and those a client wrote; they are closed under
  the rules of deletion (`Closed`). `KeptRows` says how far the committed rows can be from the old ones, or the new.
* Identities. `WritesAgree`: unless a person moved or a load failed, the writes on their way carry the pair in the
  cache, and without any the table has it. `KnownIsCached`: whatever was learned, stored or is being written is in the
  cache.
* Operations. `SoundTable` says of every plan of both adapters where it acts and whether it can, plan by plan and
  then for the tables joined; `Counted` that WhatsApp acted on a request if and only if it is past its effect, and what
  its answer tells; `Routed` where a request may be going.
* Instances. `KnowsItsRow` says for each await of a call what its copy has in common with the row when no
  other call is about it; `EnabledAreBound` and `BoundOnlyIfAsked` relate rows and binding, but for what a call under
  way is about to change.
* Hooks. `RunsAs`: a chain nobody edited stands somewhere in its list and has called what is before; `Marked`: the
  events it is inside of are in flight, once each; `IsList`: a list is in order of priority, without repetitions.
  The filters of the code are `Picked`, which is defined without recursion. Its lemma (`PickedIs`, in
  `SubsequenceProofs`, which the hooks, the backup and the thread of a chat share) needs an
  induction on numbers that the library's theorems cannot give, since they take an operator: it comes from the
  well-founded order instead (`LeastOf`, `SetInduction`).
* Live events. `Heeded`: taken together, the rooms a socket is in and the requests on their way, in the order of their
  numbers, are what its page wants (`WillAdd`, `WillKeep`), unless one was refused; `FramesInOrder` that the server takes
  the requests of a socket in that order, however long a look-up of the key takes.
* Lists. Who answers for each text that was typed (`TextIsOwned`): a form, a call, a row, or nobody any more, and at most
  one of them may still make a row of it. `ReadsAgree`: what a read brings is what the server has, but for what is behind.
* Settings. For every form the invariant says what each of its rows comes from and what the page last saw there
  (`RowsFrom`, `Views`); `BaseIsMeant` and `OverrideIsMeant` are then the theorem about the algorithm: restoring
  (`RestoreIs`) what was masked (`RedactIs`) by the signature of a row or by its place gives each row the secret meant.
* Thread of a chat. `ThreadHolds` says what may be shown of a message: at most one bubble for each of its keys, a
  placeholder only while its send is awaited or has failed, and the bubble of WhatsApp's key once its announcement is
  read. For the ticks, `Agrees` compares two futures: where the tick ends once the page has read what is on its way
  (`Ending`), and where the row ends once the acknowledgements that came before it have been tried again (`Final`). The
  failure of a message wins only if it comes before its delivery, so the order of the first acknowledgements is part
  of it (`FailsFirst`). `ReadHolds` says that what a fetch has read is still so, but for messages touched `since`.

What the attempts changed in the models. Every instance existed and was enabled when the process started: with
any rows at the start, `EnabledIsBound` failed for two instances of one session, one of them disabled, which is
what the code does ("Also met") and what the property now names (`Robs`). A call that must list the siblings of
its instance ends its old session's binding before it does (`List`), as the code has it. `SUBSET Scopes \cup {{"all"}}` was
missing its parentheses. Two guards of a CASE overlapped. `SelectSeq` in hooks, backup and
the thread of a chat became `Picked`. The constants now
say that nobody is called "unknown". What `SchemaTypeOK` said of columns and keys is a claim about the migrations and
went to `SchemaIsCurrent`.

## Only model-checked

* Liveness (`EverythingEnds`, `ApplicationEnds`, `StartReturns`, `StopTakesEffect`, `AcceptedIsSettled`): the
  prover has no rules for fairness or ENABLED that would reach it.
* `SchemaIsCurrent`: a migration is a fold over tables and columns. Its constants are fixed by the entities and
  the two dialects, so the run `Platform` goes through every case there is.
* `SerialIsClean` holds only when calls do not overlap. `StartsAreAccounted` states the cap, which is
  proved (`StartsStayWithinCap`), of the instance `Cap`, and the reason of a failure of the instance `Failing`.

## Not modelled

See the components marked `not_modelled` in `PROJECT.json`, each with its reason. Authentication,
rate limiting and the content modules are request-response wrappers around one resource or one atomic
script: no state of theirs is seen by two actors between two awaits. Within the modelled components,
conversions of payloads, formatting, and the pages of the dashboard that show the answer of a single
request are left out.

## What is left

* The catalogue and the activation of plugins on their page, the creation of containers.
* What the recursion of the migrations computes, and liveness, are out of the prover's reach.
