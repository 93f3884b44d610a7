# Personel: formal models

Personel is an employee-monitoring platform: an agent on every endpoint (Rust) collects
events, a gateway (Go) takes them over a gRPC stream and puts them on NATS JetStream, an
enricher (Go) moves them into ClickHouse, and an admin API (Go, Postgres) controls who may
watch, command or erase what, and logs it in a hash-chained audit log.

This directory holds TLA+ modules of the parts whose correctness depends on interleaving,
failure and order, the TLC configurations that check them on small instances, and proofs
that TLAPS checks for every value of the constants. Definitions are translated from the
code; `PROJECT.json` gives for each one the lines it stands for.

Contents: 1 the system, 2 the modules, 3 the runs and their bounds, 4 fairness, 5 proofs,
6 departures of the code from its documents, 7 what is not modelled, 8 plan, 9 how to run.

## 1. The system

```
collectors -> queue (SQLite) -> stream client ==gRPC==> gateway -> JetStream -> enricher -> ClickHouse
   agent                         ^        |                |  \                   (dedup, DLQ, batcher)
                                 |        v                |   heartbeat monitor -> agent.health
                        live view router <- NATS <- admin API (live view, commands, audit, dsr, ...)
                                                       |
                                                   Postgres, MinIO (WORM), Vault
```

| part | state | operations | talks to | what is hard |
|---|---|---|---|---|
| agent event queue | table `event_queue`, eviction counters | enqueue, enqueue_with_pressure, three evictions, dequeue, ack, nack, VACUUM | collectors and uploader, one SQLite pool | calls are several statements and transactions with no lock around them |
| agent transport | batch counter of the stream | connect, batch tick, ack | queue; gateway by gRPC | broken streams; acks of one stream and rows of another |
| agent updater | install dir, `.staging`, `.extracted`, moves due at boot | extract, cut over, roll back, defer | file system, scheduler of tasks | a stop half way through a write or between two renames; two tasks |
| gateway intake | token buckets of endpoints and tenants | rate limit, publish, answer | JetStream | a publish that times out and succeeds; a bucket that another stream's end drops |
| connection authentication | deny list | check of a certificate | Vault, Postgres | the list and the row disagree; a check between two writes of a revocation |
| stream registry, router | endpoint -> channel; channels | register, unregister, look up, send | stream handlers; JetStream consumer shared by gateways | two streams of one endpoint at once |
| heartbeat monitor | endpoint -> last seen, bye, state | connect, heartbeat, bye, disconnect, sweep | stream handlers; NATS | sweep works on a snapshot; late handlers; restarts |
| enricher | dedup cache, batcher's buffers | fetch, decode, dedup, enrich, add, flush, ack, NAK, DLQ | JetStream, ClickHouse | acks before inserts, redelivery, several goroutines, shutdown |
| dead letter replay | none; it works on the stream | page, replay, delete | JetStream, audit log | two operators; a page that moves; a publish whose answer is lost |
| live view service | a session's row, audit entries, commands, evidence | request, approve, reject, end, terminate, agent's report | Postgres, audit log, NATS | each call reads, audits, writes and publishes with nothing held between |
| live view recorder | sessions in memory, chunks in MinIO | upload, play, export | MinIO, Vault, Postgres | racing first chunks, restarts between chunks, a put whose answer is lost |
| data subject requests, legal holds, destruction reports | requests, holds, four stores, reports | submit, answer, extend, erase, hold, nightly job, report | Postgres, ClickHouse, MinIO, Vault, evidence | an answer, a hold and the job between the steps of an erasure |
| audit chain | entries linked by hashes, entries of older releases, checkpoints | append; the script's queries; RunForTenant and its checkpoints | every service of the API | appends race each other, the script and the verifier |
| audit stream | subscribers' channels | publish, subscribe, close | appends; browsers | a publish to a channel that closes; a slow browser |
| evidence locker, collectors | objects, rows, packs, key version | record, index, pack | Vault, MinIO, Postgres | two systems without a transaction; a label that does not follow the key |
| enrollment, refresh | tokens, rows, serials, deny list | token, enroll, refresh, revoke, delete | Vault, Postgres | one token twice; a revocation during a refresh |
| keystroke content (DLP), policies | row, keys, bundles | enable, bootstrap, push | audit log, NATS, evidence | two transitions at once; what was signed, stored and sent |
| endpoint commands | rows of `endpoint_commands` | issue, bulk, acknowledge | NATS, audit log | audit fails after publication; duplicate and racing reports |
| compliance pages, consents, settings | documents, a tenant's columns, consents | publish, set, consent, acknowledge | Postgres, MinIO, audit log | last write wins; versions counted at once |
| backup targets, integrations | targets, runs, credentials | create, update, delete, run | Vault, Postgres | a row written back as it was read |
| roles and routes | none; a token is a snapshot | the gates of every route | Keycloak | several gates that narrow one another; a role lost while its token lives |
| rate limiter of the API | tenant -> bucket | take, refill, sweep | every request | a bucket dropped and made again, full |
| people, acknowledgements, keys, presets | one row each | create, change, disable, acknowledge, revoke | audit log | entry and write in an order that differs from service to service |
| tickets, licence | ticket's row and the provider's; file and server's word | change, webhook; refresh, online check | external provider and server | both sides change; a server that cannot be reached |
| scores, incidents, classification | a day's signals, incidents | score, open, resolve, uptime | reports | order and boundaries of the formulas |
| reports, trends, pages, export | none; ClickHouse, Postgres, MinIO | aggregate, compare, page, export | console | windows, half-open days, a page of five statements |
| flags, metadata, OCR gate, search | caches | evaluate, set, look up, page | Postgres, a service, OpenSearch | two readers that fetch at once; documents that come between pages |

Parts that are thin wrappers (adapters, forms, user interfaces, code generation) are listed in `PROJECT.json` under
`components` with the reason they are left out. `hazards` there lists what is hard to test, at its line, with the property
that covers it.

What makes each part correct, in the words of its properties:

* queue: a Critical event leaves only by an ack; a High one is evicted for a Critical one
  only; what the uploader holds is not evicted; eviction is in order and stops in time; the
  counters lag behind by the reports of calls that are about to add theirs, and by nothing else; the limit is overrun by at most one event per concurrent caller.
* upload and enricher: a hop forgets an event only when the next has it (`Handover`) or for
  a named reason; nothing is stored twice within a life of the process; what meets no fault
  arrives.
* dead letters: what a replay answers and logs is what became of the letter.
* buckets: nobody gets more than a burst and the rate, whatever is dropped and made again.
* live view: no agent starts without a second person's audited approval (or an admin's own
  request); the evidence names that person; the state machine of `state.go` is left only by a
  lost update.
* recording: no chunk has two writers in a life, a gap is never passed over, an exported recording is whole.
* rights: nothing held is erased, a closed request keeps its date and its evidence, no deadline is forgotten.
* router: no pointer to a handler that has returned; no start after its stop; what is sent arrives.
* heartbeats: no live endpoint is called silent; an old clean close excuses no new silence;
  a dark endpoint is reported; one that came back is online for good.
* audit: an entry follows an earlier one of its tenant, the numbers keep the order of time, two entries follow one only if
  their appends overlapped, and the script passes no fork and fails no tenant without one. Of the entries older releases left: no
  alarm without a cause, no checkpoint over what was damaged before it was read, nor over what was not read. A subscriber sees each entry of its own tenant at most
  once and no handler stays behind its browser.
* evidence: rows, objects, entries and packs vouch for each other and for the report.
* identity: a serial, a token and a row name one agent; one that was revoked stays out.
* DLP: the row, the bundles and their evidence each show one version whole, a stored key never changes.
* commands: what the stream took is logged or closed; the bulk entry is true; one final entry
  per command; a delivered command settles.
* updater: Ok means the package is installed; a refusal or failure leaves what was there; no binary is lost, none is
  put in place cut off; the agent is replaced last.
* pages, connections, people, tickets: the row and the log tell one story, what was answered stands, and a row leaves the
  table of its states only over a write that came in between.
* licence: it is what the last refresh found when that was made, however long ago, and the server's word counts while it is fresh.
* roles: what the matrix reserves is served to nobody else, whichever of a route's gates would let them through, but for the
  exceptions that `Access` names, each of which is shown to be real.
* judgements, reports, lookups: each agrees with a reference definition over every small input.

## 2. The modules

A component has a module of its own. Components that do not meet share a run: its host module (`MC...`) EXTENDS one and
INSTANCEs the others, a behaviour picks one part at the start, and the others stand still. This adds up state spaces instead of
multiplying them. `Enricher` and `EndpointCommand` are run by themselves.

| module | models | notes |
|---|---|---|
| `QueueRows` | the SQL of `personel-queue/src/queue.rs` | operators on a table (a function from ids to rows), shared by the next two |
| `AgentQueue` | every call of the queue, split where it lets go of the database | `pc[p]` is where a thread's call stands, `scan[p]` the list evict_inner walks, `up` the dequeue |
| `EventUpload` | `personel-transport/src/client.rs`, `grpcserver/stream.go`, the publish | `uplink` and `downlink` are the stream; the queue is its table only |
| `Handover` | abstract specification of a hop: accept, deliver, forget, shed | implemented by `EventUpload` and `Enricher` (property `HandsOver`, `INSTANCE Handover WITH ...`) |
| `DedupCache` | `enricher/dedup.go` | `seen` is the map, `order` the eviction list |
| `Enricher` | `enricher/consumer.go`, `dlq.go`, `clickhouse/batcher.go`, the end of `cmd/enricher/main.go` | the dedup cache is a set with a `Forget` step, which is what `DedupCache` may do to a hash; a worker's `at` is its next statement |
| `DlqReplay` | `api/internal/pipeline` | operators' pages and replays, letter by letter |
| `StreamRouter` | `gateway/internal/liveview/router.go`, the handler's loop in `stream.go` | one endpoint, several streams and gateways |
| `HeartbeatMonitor` | `gateway/internal/heartbeat/monitor.go` and its callers | time in ticks of the sweep; thresholds are constants |
| `StreamLimiter`, `TenantLimiter` | `grpcserver/ratelimit.go`, `httpserver/tenant_ratelimit.go` | buckets of whole tokens, time in ticks |
| `LiveView` | `liveview/service.go`, `store.go`, `state.go`, one session | `calls[c].at` is the next statement of a handler; the row is read when the call begins |
| `Recording` | `livrec-service`: upload, playback, export | a life of the process ends with its sessions; the retention job runs over the empty list of a stub and has no step |
| `DataRights` | `dsr`, `legalhold`, `destruction` | handlers, the nightly job and an erasure, store by store |
| `AuditChain` | `append_event` as the migrations leave it (0029 over `init.sql`'s), `infra/scripts/verify-audit-chain.sh`, `audit/verifier.go` | `events` is what this commit writes, `legacy` what releases before 0029 left; a hash is the place of its entry |
| `AuditStream` | `audit/stream.go`, `stream_handler.go` | a subscriber is a bounded channel and a handler that drains it |
| `EvidenceLocker` | `evidence`, the collectors, `vault`'s signature | objects, rows, entries and packs |
| `Identity` | `endpoint/agent_enroll.go`, `refresh.go`, `service.go`, the gateway's check | a certificate is its serial; Vault is external |
| `DlpControl` | `dlpstate`, `policy` | one row, keys per endpoint, bundles by version |
| `EndpointCommand` | `endpoint/commands.go`, `commands_store.go` | rows, audit entries, stream and posted reports of each command |
| `UpdateSwap` | `personel-updater/src/swap.rs`, the extraction of `package.rs`, the task in `client.rs` | each rename is a step, writing a file two; a file is the version it came from, or cut off |
| `Compliance`, `Connectors` | `kvkk`, `transparency`, `settings`; `backup`, `integrations` | calls split between read, entry, write |
| `Access` | `auth/rbac.go`, the routes of `httpserver/server.go`, the services' checks | a route has a set of gates; a token keeps the roles of its issue |
| `Directory`, `Tickets`, `Licence` | `user`, `apikey` and the like; `tickets`; `licence` | one row of each |
| `Judgements` | `scoring`, `statuspage`, `enricher`'s classification and rules | pure operators against reference definitions, and the day they are made on |
| `Reports` | `reports`, `trends`, `user`'s pages, `export` | queries as operators on the events, the page and the export as steps |
| `Lookups` | `featureflags`, `search`, the OCR gate, the metadata cache | caches with readers that fetch at once |
| `MCLimits` | host of `AgentQueue`, `Access`, `TenantLimiter`, `StreamLimiter`, `Judgements`, `Reports`, `Lookups` | |
| `MCUploads` | host of `EventUpload`, `Recording` | |
| `MCPipeline` | host of `DedupCache`, `DlqReplay`, `Directory`, `Tickets`, `Licence` | |
| `MCStreams` | host of `StreamRouter`, `HeartbeatMonitor`, `AuditStream` | |
| `MCRequests` | host of `LiveView`, `DataRights` | |
| `MCEvidence` | host of `AuditChain`, `EvidenceLocker` | |
| `MCControl` | host of `Identity`, `DlpControl` | |
| `MCAdmin` | host of `UpdateSwap`, `Compliance`, `Connectors` | |
| `*Proofs` | theorems of the module of that name | see section 5 |

One component feeds the next: what `EventUpload` stores is what `Enricher` fetches, and both implement the one contract
`Handover`, so an event that leaves the agent's table is in ClickHouse, in the DLQ or has one of the named causes of loss; what
the DLQ keeps is what `DlqReplay` reads. The events `AgentQueue` may evict during a dequeue enter `EventUpload` as
`UploadTickFails`. What `DedupCache` may forget enters `Enricher` as `Forget`. What `StreamLimiter` refuses enters
`EventUpload` as a rejected batch.

How state and actions correspond to the code: a VARIABLE is a table, a map, a channel, a
bucket or the local state of a call; variables marked *history* exist for properties only.
An action is a stretch of code between two points where another actor can run: a SQL
statement or transaction, a mutex section, a file-system call, a NATS or HTTP round trip. Early
returns and error paths are disjuncts or actions of their own (`...Fails`).
A definition marked *Mutant* is a plausible bug, used to show that a property depends on the
code; it is no part of the model.

## 3. Runs and bounds

Ten runs pass, one per host or module; two more show a disagreement between the code and what the repository says of it.
Every bound named below the table is the value of a constant in the run's `.cfg`.

| run | distinct states | properties | shows |
|---|---|---|---|
| `limits` | 777 000 | `LimitsTrue`, `LeavesByRight`, `EvictsInOrder`, `ReservedKept` | what may leave the queue, in which order, and how far the counters may lag; who gets through which bucket and which door; that judgements, reports and lookups agree with their reference definitions |
| `uploads` | 312 000 | `LossHasCause`, `AtMostOnce`, `RecordingTrue`, `HandsOver`, `EventuallyStored` | a loss has a cause, nothing twice, `Handover`, delivery; chunks, gaps and exports |
| `upload_reuse` (violation) |  | `NoLoss` | the ack of batch 1 of a new stream deletes rows of batch 1 of the broken one |
| `enricher` | 330 000 | `AtMostOnce`, `HandsOver`, `EventuallyStored` | once per life of the process, `Handover`, delivery |
| `pipeline` | 1 710 000 | `OrderBounded`, `ForgetsOnTime`, `DlqTrue`, `DirectoryTrue`, `VendorsTrue` | bounds on memory and age in the cache; what replays answer; what rows, logs, providers and licences say |
| `streams` | 394 000 | `RouterTrue`, `StreamTrue`, `SilenceTrue`, `SentArrives`, `Told`, `Gone` | registry, order, delivery; no false alarm and no silence unreported; subscribers |
| `requests` | 286 000 | `DualControl`, `RecordsTrue`, `Concludes`, `FollowsTable`, `RightsKept` | dual control, evidence, the state table, calls finish; nothing held is erased, deadlines come |
| `evidence` | 1 009 000 | `EntriesTrue`, `VerifierTrue`, `LockerTrue` | entries and the script over them; the verifier over what older releases left; rows, objects, entries and packs |
| `audit_fork` (violation) |  | `Chained` | with `init.sql`'s function two entries follow one |
| `command` | 508 000 | `CommandsTrue`, `Settled` | rows, log and stream agree; commands settle |
| `admin` | 620 000 | `ComplianceTrue`, `ConnectorsTrue`, `SwapTrue` | extraction, update, rollback, losses, cut-off files, order; pages and connections |
| `control` | 1 859 000 | `IdentityTrue`, `DlpTrue`, `RevokedStaysOut` | one token, one serial, one row; revoked stays out; one version whole |

Bounds, and why they are enough:

* `limits`, queue: two producers, since every race is between one caller and another or the uploader;
  three events of priorities Critical, High and Low in two sizes (with a hard limit of 3 and
  a high-water mark of 2, one event can need one or two evictions, and both evictions happen); Normal
  differs from Low only in its order, which Low/High exercise for the general order.
  One nack, as a second is the first again. The threads are symmetric; no liveness is checked.
* `limits`, buckets: two tenants, a burst of four requests of cost two at rate 1, an idle time of four ticks in six, so that a
  bucket is spent, dropped by the other tenant's call, and made again; two streams of one endpoint with batches of one to three
  against bursts of two and three, and three buckets made in turn.
* `limits`, roles: eight sets of roles to begin with, a token's life of two and one change in it, at every route.
* `limits`, judgements: two or three values of each signal, so that every threshold is met from both sides; two incidents in
  six ticks with a window of three. Reports: at most three of eleven possible raw events over days of two instants and a span of four, windows of
  one to three days, seven days of trend with metrics 0, 1 and 3, two exporters and one failure. Lookups: two readers and
  one setter, lives of two ticks in three, five documents, two of one instant, in pages of up to three and a result window of three.
* `uploads`, events: four of two priorities, two to a batch, so that two batches are under way;
  two breaks, so that a third stream can meet rows of the first and the second; one
  refusal and one failed dequeue. `upload_reuse` needs three events of one priority and one break.
* `uploads`, recording: one session of three chunks, two requests at once, so that first chunks race and a later one overtakes; one reader, one restart (two lives).
* `enricher`: two goroutines and two messages of two events; the messages cover every way through
  the code (two tables, heartbeats, drop, an event without meta in front of a good one,
  a garbled message). One fault of any kind, in every place. Two independent faults are not
  explored; a shutdown, however, makes every later flush fail without using the fault.
* `pipeline`: three hashes and a capacity of two force eviction, eight ticks are four times the life of a hash; two letters, two
  operators and three calls over pages of one and a scan of two, less than the three entries there can be, so that a page ends at its scan; two callers
  and one fault on each row; three licence files of which two are signed, six ticks, in which a licence passes its end and its two ticks of
  grace with a refresh or without one, and two until the server's word is stale.
* `streams`: two streams at two gateways (or one) and a channel of one, so that it fills; three commands, of which one has the
  API's fields, and two losses. *InOrder* is about each gateway by itself: two gateways that share the durable consumer do swap commands.
  Heartbeats: one gateway, two streams that overlap; thresholds 3 < 4 < 5 < 6 keep the order of
  the real ones (90 s, 5 min, 15 min, 2 h) and the keepalive of two ticks is below the first; one abort, one failed publication,
  one restart. With two gateways `NoFalseAlarm` is false (section 6). Audit stream: two requests, two
  browsers of which one asks for changes only, two tenants, three entries.
* `requests`: an operator, an IT manager, an admin and a DPO, so that every role acts and a requester
  can meet two other approvers; four calls, three of them at once, in every order, one failing step. Rights: one request of one person,
  one hold, two handlers next to the nightly job, a deadline two days off and at risk one day before it, three operations.
* `evidence`: a behaviour is of the appends and the script, of the verifier, or of the locker. Appends: two connections, two tenants, four entries, so that
  an append can begin after a fork; one fault. Verifier: up to three entries of older releases, of either tenant, in batches of two, and three nights,
  so that a run starts from a checkpoint that a run from a checkpoint wrote, and one needs two queries; it appends one entry of its own at most, and a run
  does not last past midnight (the job starts at 02:30; `VerifierHolds` does without either bound). One fault of any kind. `audit_fork`: one tenant and four
  entries. Locker: two recorders, two months, two reports, two versions of the key and one pack.
* `command`: a bulk operation over a wipe, whose endpoint is not connected, and another command whose
  endpoint is; each report posted twice, two posts under way at once; one failing step.
* `admin`: a partial package followed by a full one, two notifications in two tasks, three failing
  calls of the file system (a third makes the second rollback fail) and two stops (one leaves a file cut off, the next comes in the update after it);
  or two callers with three calls on three columns, or on two targets.
* `control`: two tokens, two requests at once and three serials, so that an agent is enrolled, refreshed and enrolled again; two
  endpoints and three calls.

CHECK_DEADLOCK is off where the bounds let the system come to rest (all calls made, all
commands published); in `uploads` polling keeps it going and deadlock is checked.

Every property of a passing run has a mutant in `PROJECT.json` that makes TLC violate it.
The type invariant of a module is a conjunct of one of these invariants (for `LiveView` and
`DedupCache` it is proved instead, section 5).

## 4. Fairness

Liveness is checked under fairness of what the code's own scheduling provides, never of
faults, of people, or of publications by others. In a host the fairness of a part is its own, while it is the part that runs.

* `EventUpload` (weak): `run_bidi` reconnects in a loop, the batch ticker and the inbound arm of the
  `select!` are polled for ever, the gateway's handler answers each message it has read. Only the
  successful tick and the successful publish are fair: their failures are bounded.
* `Enricher` (weak): goroutines run, `Run` fetches in a loop, the batcher's ticker fires, `main` goes on to its end
  once told to stop and is started again.
* `LiveView`, `EndpointCommand` (weak): an HTTP handler's goroutine runs to its end. The agent carries out what it
  receives, and the gateway posts its results; nothing is assumed of `timeout` reports, which no code posts.
* `DataRights`: weak for midnight, strong for the two UPDATEs of the nightly job, which a failing night skips and a later one makes.
* `StreamRouter` (weak): goroutines run; an agent with a stream keeps sending heartbeats, which is what wakes a
  handler blocked in `Recv`.
* `HeartbeatMonitor` (weak): time passes, the ticker fires, the server's keepalive ends dead streams, a
  connected agent sends heartbeats.
* `AuditStream` (weak): a request that appends goes on to publish, and the handler of a browser that is gone ends.

## 5. Proofs

Eight modules hold theorems; TLAPS checks every one to the last leaf. What a run checks on a small instance, a theorem with the
property in brackets states for every value of the constants.

| theorem | for every | argument |
|---|---|---|
| `AgentQueueProofs`: `CriticalSafe`, `HighSafe`, `EvictsPendingOnly`, and of them `LeavesOnlyByRight` [`LeavesByRight`] | number of threads, limits, sizes | what a scan may name |
| `AgentQueueProofs`: `EvictsLowestFirst` [`EvictsInOrder`] | rows, sizes, limits | sums over parts of the table |
| `AgentQueueProofs`: `QueueHolds` (`Accounted`, the queue's part of `LimitsTrue`) | threads, limits, sizes | counting rows; sums over calls |
| `AgentQueueProofs`: `TenantsHold`, `StreamsHold` (`TenantBounded`, `StreamBounded`, parts of `LimitsTrue`) | tenants, streams, batch sizes, rates, bursts, idle time | what was got and what the buckets could still give |
| `AgentQueueProofs`: `ReservedHolds` [`ReservedKept`] | life of a token, roles held, changes | a token's roles by the age of what was taken; one gate per reserved route, within the matrix or a named exception |
| `UploadProofs`: `LossCauses` [`LossHasCause`], `NeverTwice` [`AtMostOnce`], `UploadHandsOver` [`HandsOver`] | number of events and faults | batch numbers tied to rows |
| `UploadProofs`: `RecordingHolds` [`RecordingTrue`] | sessions, requests, readers, chunks, restarts | the index a session has reached |
| `UploadProofs`: `SwapHolds` [`SwapTrue`] | packages, tasks, failures, stops | where each binary is, and from what, at a task's step |
| `UploadProofs`: `ComplianceHolds` [`ComplianceTrue`], `ConnectorsHold` [`ConnectorsTrue`] | calls at once, columns, targets | what a call has behind it |
| `EnricherProofs`: `OncePerLife` [`AtMostOnce`], `EnricherHandsOver` [`HandsOver`] | messages, goroutines, batch size, faults | counting copies; following an event |
| `EnricherProofs`: `LookupsHold` (`LookupsTrue`, a part of `LimitsTrue`) | goroutines, administrators, times to live, documents, windows, pages | since when what is held was true; how many newer documents are before one not shown |
| `EnricherProofs`: `ExportsHold` (`ExportTrue`, a part of `LimitsTrue`) | exports at once, failures, seconds | who put what is under a key |
| `DedupCacheProofs`: `Typed`, `NothingStranded`, `MemoryBound` [`OrderBounded`], `OnTime` [`ForgetsOnTime`] | keys, capacity, TTL | surplus places; sorted list |
| `DedupCacheProofs`: `DlqHolds` [`DlqTrue`] | messages, replays at once, entries, page and scan size | the entries no replay is about to delete |
| `DedupCacheProofs`: `DirectoryHolds` [`DirectoryTrue`] | calls at once, failures | replaying a log with one entry more |
| `DedupCacheProofs`: `VendorsHold` [`VendorsTrue`] | callers, webhooks, failures; licences, ends, grace | the load and the entry a call carries; when a file was judged |
| `LiveViewProofs`: `Typed`, `NoSingleControl` [`DualControl`], `OnlyLostUpdates` [`FollowsTable`] | users, roles, calls, failures | what a call under way may rely on |
| `LiveViewProofs`: `RightsHold` [`RecordsTrue`], `RightsRespected` [`RightsKept`] | requests, persons, holds, handlers | how far an erasure is |
| `LiveViewProofs`: `JudgementsHold` (`JudgementsTrue`, a part of `LimitsTrue`) | window, signals' levels, incidents, events, globs | partial sums; each formula against a day with one signal more |
| `StreamProofs`: `RouterHolds` [`RouterTrue`] | gateways, streams, commands, losses, capacity | a map entry belongs to its gateway |
| `StreamProofs`: `StreamHolds` [`StreamTrue`] | callers, browsers, capacity, entries | an entry is on its way until Publish has passed the stream |
| `StreamProofs`: `SilenceHolds` [`SilenceTrue`] | streams, faults, thresholds | no record is older than the silence |
| `AuditChainProofs`: `EntriesHold` [`EntriesTrue`] | connections, tenants, entries, faults | the numbers below an entry's are all taken before it |
| `AuditChainProofs`: `VerifierHolds` [`VerifierTrue`] | tenants, entries of older releases, nights, batch size, faults | the entry a number is anchored at |
| `AuditChainProofs`: `LockerHolds` [`LockerTrue`] | requests, months, reports, key versions, packs | following an audit entry |
| `EndpointProofs`: `OneIdentity` [`IdentityTrue`], `StaysOut` [`RevokedStaysOut`] | tokens, requests at once, serials | following a serial |
| `EndpointProofs`: `CommandsHold` [`CommandsTrue`] | commands, copies of a report, reports at once, failures | following a command |
| `EndpointProofs`: `DlpHolds` [`DlpTrue`] | endpoints, calls at once, failures | what a call carries |

None of these properties is inductive by itself. In each module `IInv` (`Control`, `Read` and `Names` in `LiveViewProofs`,
`EntriesInv` and `VerifierInv` in `AuditChainProofs`, `ECInv` for the commands, `AInv` for the audit stream, `HInv` for the heartbeat monitor, `RqInv` for the data subject requests, `RInv` for the recorder, `LkInv` for the evidence locker, `DqInv` for the dead letters, `DirInv`, `DeskInv` and `LicInv` for people, ticket and licence, `DlpInv` for keystroke content, `SwapInv` for the update, `PageInv` and `WireInv` for the pages and the connections, `QInv` for the counters and the limit of the queue) is the strengthening; one lemma per action shows that a step keeps it, and the theorem combines them.

* **Queue.** `LeavesByRight` is an action property, false of arbitrary states: `evict_inner` deletes by id
  without asking for the priority. The invariant adds to the types that every id on a thread's list is, if still in
  the table, a Low or Normal row (ids are never reused, priorities never change) and that only a Critical
  event reaches the aggressive eviction. Assumptions: the limits and bounds are natural numbers. `EvictsLowestFirst` and the bound in `QueueHolds` speak of sums over
  rows, which `MapThenSumSet` takes in an order of its own. That the order does not matter is proved by a least counterexample instead of induction:
  a set of parts of a finite set has a least one (`LeastPart`, from the library's `WFMin`), so every part has a sum that grows by any one row's
  size (`Adds`), and the fold is that sum (`BytesAdd`). With `QInv` each statement keeps the account: what an eviction deletes is in the report of its call until that has added it to the counters, which is after the
  commit, or `legacy` says that evict_inner ran; and the call that passes the check found that its event fits, while each other one that has passed waits with one event (`FitsPass`).
  Assumption: `CallersAssumption` (finitely many threads and sizes, at least one of each).
* **Roles and routes.** A role of the token is the person's still, or was taken away so lately that its age and what is left of the token are
  together no more than a token's life (`TokenOK`); when the age reaches that life the token has ended. Apart from the state, every reserved route has
  a gate or a check that lets by none but the roles the matrix grants it to and those of its named exception, if it has one (`ReservedGuarded`): a gate of its own, which `Under` keeps beside the group's,
  or the group's. Assumption: `LifeAssumption` (a token lives for a tick at least).
* **Buckets.** What was got alone is no invariant; what was got and what the buckets would hold by now is (`Bounded`, `TenantShare`): a
  request moves tokens from the one to the other, a second brings both sides of the bound the rate, and a sweep takes full buckets only. The
  endpoint has as many buckets as streams ended, and once more, and a batch may hold any of them; partial sums of what they could give stand for a sum
  over the sequence (`Sums`). Assumptions: natural numbers, and `Cost <= Burst`, a burst of one request at least, which the code does not check
  (section 6).
* **Upload.** A lost event is one whose row an ack deleted. The invariant follows a batch number: rows in flight on
  this stream have numbers up to `seq`, so a new batch shares its number with rows left by an earlier stream only
  (`OwnNumbers`, also after a failed dequeue, which uses its number up); the rows with the number of a message on its
  way are those of the message, or left over (`UplinkRows`); those with the number of an ack are stored, refused or
  left over (`DownlinkRows`), so deleting them loses nothing else. `NeverTwice` adds that a row which was sent is never pending
  again and that two messages on the way share no row; `Handover` follows from both, step by step.
* **Recorder.** A request that puts has an index its session has passed and that nobody else has or had in this life (`Requests`). `Lived` bounds
  what this life has put and answered by the index the session has reached, `Complete` says that nothing below it is
  missing but what is being put or what failed. Assumption: `RecordingAssumption` (one chunk, one life at least).
* **Enricher.** `Counted`: for each event, its copies in ClickHouse, in a goroutine's hand and in the batcher are no more
  than one if the cache has seen it, and one for each fault that lets it through again (crash, stop, forgotten hash; the
  stop under way has not let anything through yet). `Followed`: what the cache has seen, what a goroutine has passed
  in its message, and what JetStream has forgotten is stored, parked, dropped, under way, or lost to a named fault; so every
  step is `Deliver`, `Shed`, `Forget` or `Accept` of `Handover` or a stutter. Assumption: `EnricherAssumption` (a batch size of one or more,
  messages within the bounds).
* **Dedup.** `Evictable` is needed to bound the list: an eviction takes the head of the list, and only because
  the map's hashes are all on it does the map stay below the list's length. `Surplus` counts the places that
  recording a stale hash again leaves behind. `OnTime` is about a cache in which no stale hash was recorded again: the list is then in the
  order of time, and a sweep that stops at the first fresh hash has taken all stale ones. The keys may be infinite.
* **Dead letters.** Two replays may have published the same entry, and each deletes it after. So the invariant speaks of the entries no
  replay is about to delete: every message that could not be decoded and is not lost is waiting or has one (`FirmKept`). A replay publishes at most
  once (`SentOK`), so `Counted` bounds the copies of a message by the number of replays. `Walked` says that a walk has shown every
  entry up to its cursor, and that a page begins at the least one behind it. Assumption: `DlqAssumption` (a page holds one entry or more).
* **People.** `DirInv` says of a call that writes by an entry that it has that entry in the log (`Stands`). While calls do not overlap and none
  fails, one call is at work (`OneAtWork`), and until it ends the log may be one entry ahead of the row, or one behind it (`RowTold`, `PresetTold`, `KeyTold`).
  `Replayed` is a recursive function; that it exists and that one entry more makes one step more (`ReplayGrows`) follow by a least counterexample.
* **Tickets and licence.** A caller past its load carries a change that the table allows from the state which the write it saw last gave the row,
  and past its entry it has in the log an entry that no write was made on and no other caller has (`Carried`). So a write along no edge of the
  table comes over one that is later than its load. A licence is what the last refresh found when that was made (`Judged`), with no bound on how long ago, and
  a word from the cache, while the clock stands, is the last one kept (`LastWord`). Assumption: `VendorAssumption` (what ends has a time, and no
  file has the name of a file's absence).
* **Live view.** `DualControl` alone is not inductive: a call that has passed its checks writes later. `Control`
  says what such a call may rely on (`Held`): an approval under way is by an approver who is not the requester, and
  the requester never changes as there is one INSERT (`OneRequest`, `Unopened`, `Asked`). `Stages` says which
  operation is at which step. `Names` follows `approver_id` through the reads that end in evidence: until an agent reports its start,
  who is named there approved and is not the requester. `Read` says which state a call has seen; with it every write
  is along an edge of the table or on a row that is no longer as read. Assumptions: `RoleAssumption` (roles are sets of users, the
  system actor is none) and `BoundAssumption`.
* **Data subject requests.** `RunOK` says what a handler under way may rely on: that the entry it is about to name is in the log and is its own
  answer's (`Cites`; the log only grows), which of a person's stores its erasure has emptied, in the order of the steps, and that the
  holds it found are on others (`Erasing`; a hold placed later is not among them). `RowOK` ties a row to the log and the stores. Assumption:
  `RightsAssumption` (each request is by a person).
* **Router.** An entry of a gateway's map is a stream of that gateway whose handler runs (`Entries`, `Targets`). For the order,
  what a gateway has fetched is younger than what it put into any channel, which is younger than what the agent got through it.
* **Audit stream.** An entry is on its way to a stream from its commit until `Publish` has passed the stream, which keeps the lock
  (`Publishing`). What a stream has got is no longer on its way, so it is not sent twice (`Shown`); what an open stream is owed, the
  entries it may see since it began that are not on their way, grows by one with a delivery, and so does what it holds or
  counts as dropped (`Accounted`). No reader of the lock is left when a channel is closed, so none has it on its list.
* **Heartbeat monitor.** A record is at most one tick older than the silence (`GapBound`), so a state's threshold has passed when the
  sweep names it. What marks a record as ended cleanly, or soon will (a stream the agent closed whose handler does not know yet), is
  recent: its clean close is no longer ago than the keepalive and the record's own age (`Ages`, `Excused`). Assumptions: the thresholds
  are in the order of the defaults and beyond one tick (`HealthAssumption`), which the code does not check; one gateway (with two it is false, section 6).
* **Audit.** Without a lock two appends may follow one entry (`audit_fork`), so the invariant cannot be a chain. It is that an entry, committed or about to be
  (`Fits`), follows an earlier one of its tenant with the number after it, that every smaller number was taken before it, and that its number is above those of all that
  was committed when its append began. So a chain without two equal numbers is one where each entry follows the one before it, in whatever order a query
  lists them (`OrderTells`): the script's second query tells of a fork what its first one has seen (`Seen`). `VerifierHolds`, of the entries older releases left:
  what a run holds of a batch is what the log held, but for damage that came later (`BatchTrue`); the number and the hash it has reached are those of
  one entry, but for a spent checkpoint (`AnchorsTrue`), so without damage and neighbours the next row fits; and a batch that was not full is the rest
  (`RestTrue`). An earlier proof showed that a run with nothing to read leaves a checkpoint with the number 0 and the old
  head's hash, from which the next run reports an intact log (`spent`); with two nights no run of TLC had met it.
* **Evidence.** A request under way, a row and a pack are each tied to the log, the bucket and the rows (`RequestOK`, `ItemOK`, `PackOK`),
  which only grow. Of one audit entry there is one request or one row (`OneEach`), as a new entry's number is nobody's yet.
  A signature's label is 1 whatever version made it (`Labelled`), so what the first version signed verifies ever after, and nothing else does.
  Assumption: `LockerAssumption` (the key has a version).
* **Keystroke content.** A push carries a version as it was, past its entry that entry and past the stream the bundle; a transition past its entry
  the entry of its own action (`Carries`). The policy's row is the newest version while it is there; versions, log and bundles only grow.
  Assumption: `DlpAssumption` (the bound is a number).
* **Update.** While a task's update has run with no other beside it, the binaries are as found while the package is extracted, each that is written of its version
  (`Unpacked`); from then on each is where the task's step and place in the order say (`Forward`): behind the task in place or put off, at it between two renames, before it as found. So a
  file is cut off in .extracted only, and what is put in place has passed the pre-flight (`Sound`). Once the task rolls back, a backup is one of this update or the one
  it found (`Back`), and the second call of the rollback finds what the first one left. What is installed, kept or lost follows. An earlier proof
  showed that `Restored` held only because a run had two failures: a third makes the second rollback fail as well, and then nothing is
  restored. The task logs that error (`rollback failed`), and such an update ends as "unrestored", of which `NothingLost` and `NoneCutOff` still speak.
* **Pages and connections.** A request past the log has its entry there, past the bucket its document (`Asked`); an id that stands as a consent
  or was revoked is of no request any more (`Spent`), so a new consent is not one that was revoked. A request of the connections that writes has
  its entry there, and what was answered when it came is answered still (`Proper`, `Past`); an update writes the config it brought, or keeps what the row
  has when it writes, so no config that a later answered request replaced comes back. Assumption of all three: `AdminAssumption`
  (packages of known binaries, columns that the settings have, natural bounds).
* **Lookups.** What a goroutine has read was true at an instant since it began, and what is kept was true no longer before it was
  stored than a read takes (`ReaderOK`, `EntryOK`); with the entry's time that is `NeverTooOld`. For a search, a document not yet shown, alone
  at its instant, has at least as many newer documents in the window as the pages so far hold (`OnTheWay`), and those only grow; its place is that number
  and one (`Placed`, by counting an injection), so the next page shows it or passes it by as little. The proof asked what the order of two
  documents of one instant is, which the model had made up: `buildQuery` sorts by the time alone. The model now lets their order differ from page to
  page, and without `Alone` TLC finds a finished walk that missed one. Assumption: `LookupsAssumption` (positive times to live and pages, a default
  window within the cap, typed documents).
* **Exports.** What is under a key was put there by an export of that key, which waits for its link, has it or failed to get it
  (`Stored`), and an export that waits has a file under its key (`FilesOK`). The key names the tenant, the report and the second, so a later export can
  take an earlier one's place only where all three agree. Assumption: instants are integers.
* **Judgements.** Of the state little is needed: signals are at their levels, an incident ends no earlier than it began and no later than today, an event
  is one its judgement may be given (`SignalsOK`, `UpOK`, `EventOK`). The rest is about the operators, and the formulas hold of every day, not of the levels
  a run has. Sums are recursive functions: a function of partial sums exists and is theirs (`SumIs`, by a least counterexample), which makes a sum of seven
  weights seven additions and lets the days covered be counted against the downtime incident by incident (`SumCovers`). `RiskRises` follows weight
  by weight (`CostsGrow`); the sort by what one insertion does to an ordered sequence and to its sum (`InsertIs`, `SortedIs`, `TrimIs`); `DayTrue` from what more work or
  more distraction does to a rounded quotient (`ScoredFalls`), and the clamp hides no penalty because the penalties never
  exceed 45 points (`PointsAre`). For a glob, the places of the text from which the rest of the pattern matches are those that a cut of the rest can begin
  at (`FromStep`, `GlobIs`). Assumption: `JudgeAssumption` (each signal has its levels, in order; globs and hosts are sequences of letters).
* **Commands.** `EndpointProofs` holds both parts of `internal/endpoint`; so the names of `EndpointCommand` that both would have begin with `EC`.
  Where the call that issues a command stands says whether the stream and the log can have it (`Placed`); of a command the
  stream did not take there is no report (`Untouched`). Unless two of its reports raced, one report at a time is between its check and
  its write, one final report is written or logged, and while there is one the row is final and no report is about to write it
  (`Orderly`). Assumption: `CommandAssumption` (sets of commands, bounds).
* **Identity.** A serial that is signed and not yet written is nobody's, and stays so until the run that has it writes it; the
  serial a refresh has read is at most its own row's, and no row's once the new one is written. Vault's secret lets one run per
  token past the login. A token names at most one row because its naming rows are a finite set with an injection into the runs past it.

Only model-checked, and why:

* Liveness (`EventuallyStored`, `SentArrives`, `Settled`, `Told`, `Gone`, `Concludes`): the prover handles neither
  fairness nor ENABLED.
* The other reports of `LimitsTrue`: the reports on raw events, the windows' parsers, the trend and the person's page (`EventsTrue`, `WindowsTrue`,
  `TrendTrue`, `PageTrue` of `Reports`). They compare sums over sets that the library folds and rows that it sorts, and the trend multiplies such sums. The library's induction
  theorems take an operator, which the provers cannot instantiate. (Where a proof needed induction all the same, over rows, incidents, factors, letters or sequence numbers, it
  is by a least counterexample.)
* `Chained` is false of the code (`audit_fork`); `EntriesHold` is about what is left of it.

## 6. Departures of the code from its documents

Two are findings with a run of their own (`upload_reuse`, `audit_fork`). The others were met while modelling; each model
follows the code, and the property that would be false of it states the weaker fact that holds, naming the exception.
Paths are those of the repository.

**agent event queue**

* `apps/agent/crates/personel-queue/src/queue.rs:531`: evict_inner selects pending rows in one statement and deletes each by id in another, with no status test, so a row dequeued in between is deleted while in flight (the exception DeletedById of InFlightLeavesByAck); its contract (apps/agent/crates/personel-queue/src/queue.rs:492) says: "1. Pending low-priority (priority=3) events, oldest first."
* `apps/agent/crates/personel-queue/src/queue.rs:382`: dequeue_batch re-reads its rows after COMMIT; when an eviction took one of them query_row fails, the call returns an error and the other rows stay in flight under a batch id the caller never got (action DequeueFails); the doc (apps/agent/crates/personel-queue/src/queue.rs:338) says: "Marks fetched rows as `in_flight` and assigns `batch_id` so the caller can atomically ack or retry the batch."
* `apps/agent/crates/personel-queue/src/queue.rs:504`: evict_inner, the only eviction the agent runs, updates no eviction counter (the inequality of EvictionsAccounted once enqueue was called); the doc of the counter (apps/agent/crates/personel-queue/src/queue.rs:134) says: "Lifetime count of Low-priority events evicted under capacity pressure."
* `apps/agent/crates/personel-queue/src/queue.rs:669`: the eviction counters are added to one by one after the COMMIT of the eviction, so a reader in between finds rows gone that no counter shows yet (what Evicted adds to the counters: the reports of calls under way); the comment (apps/agent/crates/personel-queue/src/queue.rs:669) calls them best-effort observability, while the struct's (apps/agent/crates/personel-queue/src/queue.rs:134) promises the count of what was evicted
* `apps/agent/crates/personel-queue/src/queue.rs:815`: enqueue_with_pressure checks and inserts on separate connections with no transaction around them, so concurrent callers both pass the check and exceed the limit (by what PendingBounded allows); the doc (apps/agent/crates/personel-queue/src/queue.rs:716) says: "If after eviction the new event would still exceed `hard_limit_bytes` AND it is NOT [`Priority::Critical`], reject"
* `apps/agent/crates/personel-queue/src/queue.rs:793`: the recheck after the aggressive eviction refuses the Critical event when another thread inserted an event of any priority in between (second disjunct of RecheckHardLimit); the doc (apps/agent/crates/personel-queue/src/queue.rs:724) says: "If even the aggressive eviction can't make room (i.e. all remaining pending rows are themselves Critical), return [`AgentError::QueueCriticalOnlyOverflow`]"

**agent transport**

* `apps/agent/crates/personel-transport/src/client.rs:482`: handle_server_message deletes the rows of a batch whatever its rejected count; the gateway's Publish (apps/gateway/internal/nats/publisher.go:81) says of a failed publish: "the caller should use to NACK/retry or reject the batch", and ack_batch (apps/agent/crates/personel-queue/src/queue.rs:407) says: "Acknowledges a successfully uploaded batch, removing the rows." (the refused events of LossHasCause)
* `apps/agent/crates/personel-transport/src/client.rs:234`: nothing returns the rows of a broken stream to pending: nack_batch (apps/agent/crates/personel-queue/src/queue.rs:422) says: "Marks an in-flight batch as pending again (for retry on transport error).", and no code calls it (the leftover and stranded events of EventuallyStored)

**enricher dedup cache**

* `apps/gateway/internal/enricher/dedup.go:138`: a stale entry that is recorded again is appended to the list without leaving its old place, so the list is longer than the map (by what OrderBounded allows); the field's comment (apps/gateway/internal/enricher/dedup.go:60) says: "FIFO eviction order; len == len(seen)"
* `apps/gateway/internal/enricher/dedup.go:134`: evicting a hash that is on the list twice leaves a second place behind, whose eviction later frees nothing, and the map outgrows its capacity; the package comment (apps/gateway/internal/enricher/dedup.go:22) says: "A bounded map (default 100k)"
* `apps/gateway/internal/enricher/dedup.go:211`: the sweep stops at the first fresh hash, and a hash recorded again is fresh at its old place in front of older ones (the premise of LateOnlyAfterReinsert); sweepLoop (apps/gateway/internal/enricher/dedup.go:177) says: "the worst-case staleness is 1.5 * TTL."

**enricher consumer**

* `apps/gateway/internal/enricher/consumer.go:329`: the hash of an event is recorded before its insert; when the insert fails the message is NAKed, and its redelivery skips the event as a duplicate and acks; apps/gateway/internal/enricher/consumer.go:21 says: "It uses explicit manual ACK (at-least-once delivery)."
* `apps/gateway/internal/enricher/consumer.go:254`: the message is acked when its rows are in the batcher's memory, up to FlushInterval before they are inserted; apps/gateway/internal/enricher/consumer.go:21 says: "It uses explicit manual ACK (at-least-once delivery)."
* `apps/gateway/internal/enricher/consumer.go:159`: Run returns without waiting for its goroutines, whose flushes fail on the cancelled context or whose rows come after main's final flush; apps/gateway/internal/enricher/consumer.go:21 says: "It uses explicit manual ACK (at-least-once delivery)."
* `apps/gateway/internal/enricher/dlq.go:221`: nothing writes the nats-retry-count header, so the count is 0 on every delivery and the DLQ branch is never taken; apps/gateway/internal/enricher/consumer.go:200 says: "retries OR on any decode error, it parks the message in the DLQ and", and apps/gateway/internal/enricher/dlq.go:13 says: "the gateway publisher increments it on every"

**pipeline replay**

* `apps/gateway/internal/enricher/consumer.go:220`: a message that was not decoded is parked without a tenant, and a replay of one tenant's operator refuses it: only the DPO, over all tenants, can list and replay what is parked; and because nothing sets the header nats-retry-count nothing else is ever parked
* `apps/api/internal/pipeline/backends.go:227`: an entry behind the first 5000 of the stream is found by no replay ("DLQ entry not found"), nor by a page, because every call of List reads the stream from its start: as the scan of the pipeline run shows, while apps/api/internal/pipeline/backends.go:92
* `apps/gateway/internal/enricher/consumer.go:265`: a message the dead letter stream does not take is acked all the same; Kept excepts it
* `apps/api/internal/pipeline/backends.go:66`: an answer that is lost is an error although the message is there, and a second replay publishes it twice (Enricher says what becomes of the copy)
* `apps/api/internal/pipeline/service.go:235`: a replay from ClickHouse publishes nothing; it is left out of the model
* `apps/api/internal/pipeline/backends.go:149`: List counts the entries its cursor passes over, and starts every call at the first of the stream, so an entry behind the first maxScan is on no page; apps/api/internal/pipeline/backends.go:92 says: "5000 is comfortable for a healthy DLQ; operators who need more can page."

**live view service**

* `apps/api/internal/liveview/store.go:168`: SetState writes the state whatever the row holds by then, so an approval and a rejection that both read REQUESTED both go through, and a DENIED session becomes APPROVED and is started; apps/api/internal/liveview/state.go:22 says: "IsTerminal returns true if no further transitions are possible."
* `apps/api/internal/liveview/service.go:240`: provisionLiveKit does not look at the row again: a session terminated after the approval's write gets its stop command before its start command, and the agent streams; docs/architecture/live-view-protocol.md:12 says: "6. **Revocable**: HR can terminate any live session."
* `apps/api/internal/liveview/service.go:407`: terminateSession writes the terminator to approver_id, and AgentStarted sets ACTIVE whatever the row holds, so a session its requester ended can be ended again with the requester as approver in the evidence; apps/api/internal/liveview/service.go:413 says: "completed privileged access ceremony: HR-approved, time-bounded,"
* `apps/api/internal/liveview/service.go:178`: an admin's own session is inserted as APPROVED and its approval audited afterwards; apps/api/internal/liveview/service.go:4 says: "Every transition is audited FIRST."
* `apps/api/internal/liveview/service.go:206`: a session whose room cannot be created goes to FAILED with no audit entry; apps/api/internal/liveview/service.go:4 says: "Every transition is audited FIRST."
* `apps/api/internal/liveview/store.go:57`: the INSERT has no approver_id, so an admin's own session has none in the row, and emitSessionEvidence skips it; apps/api/internal/liveview/service.go:201 says: "already persisted with ApproverID set.", and apps/api/test/integration/liveview_test.go:175 requires it: "require.NotNil(t, reloaded.ApproverID)"
* `apps/api/internal/liveview/service.go:390`: terminateSession's entry carries only the reason; apps/api/internal/liveview/service.go:92 says: "for such a session carries `admin_bypass=true` in its details so"
* `apps/api/internal/liveview/state.go:43`: no code fires the expire event and ApprovalTimeout is never read; docs/architecture/live-view-protocol.md:23 says: "REQUESTED --> EXPIRED: 10 min no decision"
* `apps/api/internal/liveview/state.go:45`: no code fires agent_fail and nothing times an approved session out; docs/architecture/live-view-protocol.md:123 says: "Request stays APPROVED for 60 s; then FAILED. Audited."

**live view recorder**

* `apps/livrec-service/internal/playback/handler.go:167`: the keys are sorted as text, so chunk-10 is sent before chunk-2 in every recording of more than ten chunks (and an export, which opens each chunk with its place in this list, ends with an error for all of them); apps/livrec-service/internal/playback/handler.go:166 says: "Sort to guarantee chunk order in the stream."
* `apps/livrec-service/internal/upload/session.go:88`: a failed put leaves the index moved on and the session in its error state for good, and nothing ever takes it out of the map; apps/livrec-service/internal/upload/session.go:27 says: "StateError — unrecoverable error; no further chunks accepted."; one lost answer of MinIO ends a recording
* `apps/livrec-service/internal/upload/handler.go:36`: sessions live in the process, so after a restart the next chunk of a running recording is refused and only chunk 0 is taken, over the old chunk 0; apps/livrec-service/internal/upload/session.go:4 says: "persistence is handled by the caller"
* `apps/livrec-service/internal/upload/session.go:99`: nothing calls Complete, Archive or SessionStore.Remove: no recording is ever completed and the map only grows; apps/livrec-service/internal/upload/handler.go:59 says: "Remove deletes a session from the store (called on completion or error)."
* `apps/livrec-service/cmd/livrec/main.go:196`: the wired expirer lists nothing and its MarkDestroyed writes nothing, so the daily job finds no recording and none is ever destroyed or marked as destroyed (the job itself, apps/livrec-service/internal/retention/ttl.go:80, is therefore not modelled; were an expirer wired, its check for a hold would still always answer no, apps/livrec-service/internal/retention/legal_hold.go:38); apps/livrec-service/internal/retention/ttl.go:5 says: "A daily job scans Postgres for sessions"
* `apps/livrec-service/cmd/livrec/main.go:179`: the wired store of playback has no row for any session, so every playback ends with 'recording not found'; the model lets a row be found or not, as the interface allows; apps/livrec-service/internal/playback/handler.go:115 says: "Look up recording metadata"
* `apps/livrec-service/internal/export/forensic.go:189`: the manifest is marshalled again, with two more fields, after it was signed, so the signature is not of the manifest in the package; apps/livrec-service/internal/export/manifest.go:8 says: "signature.sig = sign(SHA256(recording.webm || manifest.json || chain.json))"
* `apps/livrec-service/internal/export/forensic.go:194`: a package is handed over with a placeholder for its signature when Vault fails; apps/livrec-service/internal/export/forensic.go:193 says: "production must fail."
* `apps/livrec-service/cmd/livrec/main.go:188`: the wired provider returns neither a row nor an error, and the handler reads the row: an export panics (and is answered 500); apps/livrec-service/internal/export/forensic.go:43 says: "RecordingMetaProvider looks up recording metadata by session ID."

**data subject requests**

* `apps/api/internal/dsr/store.go:154`: neither Respond nor Reject asks for the row's state, and a fulfilment asks once, at its start: a request is resolved after it was rejected and the other way round, and an erasure that runs while its request is rejected ends with it resolved
* `apps/api/internal/dsr/fulfillment.go:492`: the column user_id does not exist in silence_acknowledgements (migration 008), and a failed statement aborts the transaction, so every erasure ends with an error after its blobs and events are gone; apps/api/internal/dsr/fulfillment.go:492 says: "Non-fatal: the table may not exist in Phase 1 dev setups."; so the constant AckHasUser is FALSE for the migrations of this commit, and the run takes TRUE so that what follows is checked too
* `apps/api/internal/dsr/fulfillment.go:459`: there is no such state; apps/api/internal/dsr/fulfillment.go:459 says: "abort and leave the DSR in_progress so the DPO can re-drive"
* `apps/api/internal/dsr/fulfillment.go:410`: the holds are asked for once, before the first store: one placed while the erasure runs stops nothing of it (what RightsKept says is of the holds it found); apps/api/internal/dsr/fulfillment.go:22 says: "FulfillErasureRequest additionally short-circuits on any active legal hold that mentions the subject"
* `apps/api/internal/dsr/fulfillment.go:169`: cmd/api wires no FulfillmentService, and HoldsByUser has no implementation in the tree; the model takes the lookup to answer the active holds of the person
* `apps/api/internal/vault/client.go:506`: an answer that is lost is an error although the key is gone; apps/api/internal/vault/client.go:503 says: "A non-nil error means the crypto-erase did NOT happen"

**destruction reports**

* `apps/api/internal/destruction/generator.go:148`: a second Generate of a period replaces the PDF under the same name before its row is refused, so the stored signature is of a PDF that is gone (SignatureHolds, in the module, does not hold)
* `apps/api/internal/destruction/generator.go:277`: nothing schedules a report, a query of the manifest that fails leaves its section out, and the label names the month the period ends in

**legal holds**

* `apps/api/internal/legalhold/store.go:30`: the day a hold expires is stored and never looked at

**gateway stream registry and live view router**

* `apps/gateway/internal/liveview/router.go:47`: Unregister deletes by endpoint, so the handler of a broken stream that ends after the agent has reconnected takes the new stream out of the registry until the next reconnect; apps/gateway/internal/liveview/router.go:17 says: "Router maintains a registry of active gRPC send channels, one per"
* `apps/gateway/internal/liveview/router.go:120`: every gateway pulls from one durable consumer and acks whatever came of the command, so one without the stream loses it and nobody is told; apps/gateway/internal/liveview/router.go:53 says: "gateway instance (admin-api should retry on another gateway instance or"
* `apps/api/internal/nats/publisher.go:72`: the API marshals LiveViewStartCommand, which has neither command_type nor endpoint_id and calls the token agent_token, so every command falls to "unknown command type" and is acked; apps/gateway/internal/liveview/router.go:73 says: "liveViewCommand is the JSON body expected from admin-api on the"

**gateway heartbeat monitor**

* `apps/gateway/internal/heartbeat/monitor.go:42`: each gateway keeps its own map and never drops a record, so an endpoint that reconnects to another gateway goes degraded, offline and offline_extended at the first while it sends heartbeats; docs/security/threat-model.md:90 says: "After **3 missed expected heartbeats** (approximately 90 s), the endpoint transitions to `degraded`."
* `apps/gateway/internal/heartbeat/monitor.go:145`: RecordDisconnect names the endpoint, not the stream, so the handler of an older broken stream clears the bye of the newer one and a clean shutdown is reported as suspected_suspend; docs/security/threat-model.md:91 says: "The classification uses the last `Heartbeat` + the presence/absence of a graceful `Bye`."
* `apps/gateway/internal/heartbeat/monitor.go:77`: the map lives in the process, so a gateway that restarts forgets an endpoint that is offline and never calls it offline_extended; docs/security/threat-model.md:90 says: "After **2 hours**, transitions to `offline_extended`."
* `apps/gateway/internal/heartbeat/monitor.go:210`: the new state is written although its publication failed, so no later sweep publishes it; docs/security/threat-model.md:91 says: "**Audit entries** on every transition"
* `apps/gateway/internal/heartbeat/monitor.go:121`: a connection or a heartbeat sets the state to online and publishes nothing, and the sweep then sees no change; docs/security/threat-model.md:91 says: "**Audit entries** on every transition"

**audit stream broker**

* `apps/api/internal/audit/stream_handler.go:168`: no frame of type close is sent; apps/api/internal/audit/stream_handler.go:10 says: "A final text frame with {"type":"close","dropped":N} is sent before disconnect"
* `apps/api/internal/audit/stream.go:164`: entries left in the channel at the end are neither written nor counted as dropped
* `apps/api/internal/audit/recorder.go:105`: two requests that commit one after the other may publish the other way round, so a stream need not show the order of the chain

**audit chain**

* `apps/api/internal/postgres/migrations/0029_audit_append_event_legacy_overload.up.sql:40`: the overload replaces the append_event of apps/api/internal/postgres/migrations/004_audit_log.up.sql:54 (same arguments) before any Recorder exists (apps/api/cmd/api/main.go:112) and writes audit.audit_events; RunForTenant reads audit.audit_log, which stays as it was, and attests a chain nobody writes; infra/compose/postgres/init.sql:243 says of audit_events: "this table is not used by the live API code."
* `infra/scripts/verify-audit-chain.sh:84`: the script compares the stored prev_hash with the stored row_hash and computes no hash, so an entry whose content was altered passes; infra/scripts/verify-audit-chain.sh:5 says: "Verifies hash chain integrity. Alerts on any tampering."
* `infra/scripts/verify-audit-chain.sh:60`: --since and --until filter by created_at, a column that audit.audit_events does not have (infra/compose/postgres/init.sql:249), so with them the first query fails and the script ends without an attestation; infra/scripts/verify-audit-chain.sh:12 says: "Only verify entries with created_at >= <date>"
* `infra/scripts/verify-audit-chain.sh:115`: nothing writes audit.checkpoints (RunForTenant writes audit.audit_checkpoint), so there is never a checkpoint to be stale; the script says: "No checkpoints found (expected on new installation)"
* `infra/compose/postgres/init.sql:275`: the partitions end with 2026 and nothing in the repository adds the next: an append after that fails, and with it every operation that logs first; infra/compose/postgres/init.sql:265 says: "Create monthly partitions for current year (extend in upgrade.sh)"
* `apps/api/internal/postgres/migrations/004_audit_log.up.sql:76`: the entries of older releases are linked to the newest one of all tenants, while RunForTenant reads one tenant's and compares neighbours, so it reports a broken chain where two tenants alternate; apps/api/test/integration/audit_verifier_test.go:122 says: "verifier must successfully verify the chain it just saw get written"
* `apps/api/internal/audit/verifier.go:116`: a run without new entries, which is every run after the first now that audit_log does not grow, writes a checkpoint with last_id 0 and the old head hash, so the next one starts at the first entry with the head's hash and reports a broken chain on a log nobody touched; docs/security/runbooks/admin-audit-immutability.md:175 says: "Asserts `row.prev_hash == previous_row.hash`."
* `apps/api/internal/audit/verifier.go:179`: rows.Err is not asked after the loop, so a read that fails half way counts as the end and a checkpoint is written; docs/security/runbooks/admin-audit-immutability.md:172 says: "SELECTs every row from `audit.audit_log` in id order."
* `apps/api/cmd/api/main.go:498`: the job logs the error and runs the tenant again the next night; docs/security/runbooks/admin-audit-immutability.md:178 says: "On failure, emits `audit.chain_broken` alert priority 0, halts further verifier runs until resolved"
* `apps/api/internal/audit/verifier.go:280`: nothing calls CrossValidateWORM: the unit runs `personel-api audit worm-verify` (infra/systemd/personel-worm-verifier.service:38), which main does not parse, and no process writes a second check of the copies in the WORM bucket; apps/api/internal/audit/verifier.go:271 says: "Called nightly by personel-worm-verifier.timer at 04:00 local"

**evidence locker**

* `apps/api/cmd/api/main.go:336`: a nil *RecorderImpl is handed to four services as an interface, which is then not nil: their check passes, and Record panics after the entry was written; apps/api/cmd/api/main.go:337 says: "When evidenceRecorder is nil they still write audit entries; the SOC 2 evidence emission is the only thing skipped"
* `apps/api/internal/evidence/store.go:140`: no job lists the bucket, so an object whose row failed stays unindexed; apps/api/internal/evidence/store.go:139 says: "A reconciliation job is expected to rebuild the row from the bucket listing"
* `apps/api/internal/evidence/handlers.go:160`: when the list fails the answer is empty, and when the signature fails zip.Writer is closed and the ZIP is well formed but without a manifest; apps/api/internal/evidence/handlers.go:161 says: "the client sees a truncated ZIP", and that the error is returned to be logged: it is dropped
* `apps/api/internal/evidence/handlers.go:207`: no collector makes an item of CC7.1, whose coverage is a gap in every month
* `apps/api/internal/vault/client.go:132`: the prefix is cut by its length, so from version 10 of the key on no signature can be decoded, and every item and pack fails
* `apps/api/internal/vault/client.go:142`: Vault's API client decodes numbers as json.Number, so the assertion to float64 never holds and every signature is labelled v1; Verify rebuilds vault:v1: from the label, so nothing that was signed after the key's first rotation verifies; apps/api/internal/vault/client.go:151 says the history "is what makes this viable for the 5-year evidence retention window", and apps/api/internal/evidence/verify_test.go:91 tests it with a signer of its own
* `apps/api/internal/evidence/types.go:186`: an item is an object and a row, in two systems; apps/api/internal/evidence/types.go:186 says: "persisting the item to Postgres within a single transaction"
* `apps/api/internal/backup/handlers.go:26`: a tenant named in the body is kept; apps/api/internal/backup/handlers.go:26 says: "Force the tenant to the caller's principal tenant"

**endpoint enrollment and refresh**

* `apps/api/internal/endpoint/agent_enroll.go:257`: nothing looks at how many rows the UPDATE changed, so two endpoints of one token are kept apart by Vault's single use alone; apps/api/internal/endpoint/agent_enroll.go:17 says: "enrollment_tokens row is marked used" (also in AgentEnroll, where a token whose login worked and whose signing failed is dead while its row says it is unused)
* `apps/api/internal/endpoint/service.go:243`: only the row is written: nothing is revoked in Vault, nobody writes kv/pki/deny-list or publishes pki.v1.revoke, and open streams stay open; apps/api/internal/endpoint/service.go:242 says: "Revoke revokes an endpoint's certificate." and apps/gateway/internal/vault/client.go:110 says: "The authoritative source is Vault KV; the Admin API owns writes there."
* `apps/api/internal/endpoint/refresh.go:281`: the row is asked for by its id alone: a refresh under way while its endpoint is revoked hands out a fresh certificate (which the gateway refuses), and two at once leave one certificate that is never revoked; apps/api/internal/endpoint/refresh.go:86 says: "Endpoint exists AND belongs to the caller's tenant AND is_active"
* `apps/api/internal/endpoint/service.go:276`: the row of an enrolled endpoint cannot go, because its token's row refers to it (no ON DELETE), after the deletion was audited; apps/api/internal/endpoint/service.go:263 says: "Delete removes an endpoint record."
* `apps/gateway/internal/vault/client.go:67`: the list is replaced by what Vault has, which is nothing: serials that AddToDenyList put there are gone, and the row's flag alone refuses them from then on

**DLP state**

* `apps/api/internal/dlpstate/service.go:286`: the entry is written, and the row's UPDATE fails or is overtaken by another transition's, so the row need not show the last transition that was logged (TransitionAtomic, in the module, does not hold); apps/api/internal/dlpstate/service.go:205 says: "Transition performs an atomic DLP state transition"
* `apps/api/internal/dlpstate/service.go:248`: a transition is made from any state: a late enable-failed turns off what enable-complete turned on, and of the states of the type enabling, disabling and error are never written
* `apps/api/internal/dlpstate/service.go:270`: every transition passes an empty tenant, which append_event's cast to uuid refuses, so none gets past its entry and UpdateState is not reached as the code stands; the model lets the entry succeed or fail, so what follows it is checked for the day a tenant is passed
* `apps/api/internal/dlpstate/store.go:139`: of two bootstraps at once the second's key is dropped, and it is counted and logged as bootstrapped all the same

**policy service**

* `apps/api/internal/policy/store.go:40`: the id is a ULID, which the column policies.id, a UUID (apps/api/internal/postgres/migrations/003_policies.up.sql:5), does not take: no policy is created through the API, and the rows of the model are those that stand there by other means or once the id fits
* `apps/api/internal/policy/validator.go:90`: dlp_enabled is what the policy's own rules claim; nothing compares it with dlp_state
* `apps/api/internal/policy/publisher.go:74`: nobody subscribes to the subject, so a pushed bundle reaches no agent; and two pushes publish in any order, the older version last
* `apps/api/internal/policy/service.go:176`: the item names one control; apps/api/internal/policy/service.go:176 says: "SOC 2 CC7.1 / CC8.1 evidence"

**endpoint commands**

* `apps/api/internal/endpoint/commands_store.go:99`: UpdateState does not ask for the state the row has by then, and Acknowledge read it before: a receipt that read the row together with the completion overwrites it, and completed becomes acknowledged; apps/api/internal/endpoint/commands.go:407 says: "flip state backwards or write duplicate audit rows."
* `apps/api/internal/endpoint/commands.go:425`: only the final states make Acknowledge a no-op, so the same receipt posted twice is logged twice; apps/api/internal/endpoint/commands.go:407 says: "flip state backwards or write duplicate audit rows."
* `apps/api/internal/endpoint/commands.go:289`: the command is on the stream when its entry fails, so a report can be written over the failed state: the row says acknowledged or completed and no entry names the command's issue; apps/api/internal/endpoint/commands.go:201 says: "admin sees the failure and no silent drift exists."
* `apps/api/internal/endpoint/commands.go:221`: the hold is read once, before the row is created: a hold placed before the publication does not stop the wipe; apps/api/internal/endpoint/commands.go:18 says: "Wipe is refused if the endpoint is under an active legal hold"
* `apps/api/internal/endpoint/commands.go:269`: a command that could not be published has a row and no audit entry when the bulk entry is written; apps/api/internal/endpoint/commands.go:326 says: "Each individual command row already has its own per-kind audit entry"
* `apps/api/internal/endpoint/commands.go:162`: Publish goes through JetStream, and no stream of apps/gateway/internal/nats/streams.go:33 and the lines after it captures endpoints.command.>, so every issue ends in ErrPublishFailed; apps/api/internal/endpoint/commands.go:5 and the line after it: "completed / failed / timeout), publishes a NATS message on"
* `apps/api/internal/endpoint/commands.go:269`: the error of the write that marks the row failed is dropped (it uses the request's context, like the audit entry): the row stays pending and nothing ever times it out; apps/api/internal/endpoint/commands.go:192 says: "so the admin sees a coherent failure rather than a stuck pending"

**agent updater**

* `apps/agent/crates/personel-updater/src/swap.rs:186`: a success leaves its backups in .staging, and rollback_update moves back every backup it finds, also of stages the failing update never reached: those go back two versions while the others go back one; apps/agent/crates/personel-updater/src/swap.rs:26 says of the tree after a failed stage: "back, producing either a fully-OLD or fully-NEW tree. Half-and-half is" (not reachable, the next line goes on).
* `apps/agent/crates/personel-updater/src/swap.rs:260`: nothing takes a deferred move back: a later stage fails, everything is rolled back, and the next boot still puts the one new binary into the old tree; apps/agent/crates/personel-updater/src/swap.rs:26 says of the tree after a failed stage: "back, producing either a fully-OLD or fully-NEW tree. Half-and-half is" (not reachable, the next line goes on).
* `apps/agent/crates/personel-updater/src/swap.rs:109`: which stages are done is known to the process only, and nothing looks at .staging when it starts again: a stop between two renames leaves the mixed tree, or no binary at that name; apps/agent/crates/personel-updater/src/swap.rs:26 says of the tree after a failed stage: "back, producing either a fully-OLD or fully-NEW tree. Half-and-half is" (not reachable, the next line goes on).
* `apps/agent/crates/personel-updater/src/swap.rs:230`: after a stop between the two renames of a binary its backup is the only copy, and the next attempt removes it as stale before anything replaces it; apps/agent/crates/personel-updater/src/swap.rs:23 and the line after it say: "before each `MoveFileExW` we capture the CURRENT" binary.
* `apps/agent/crates/personel-transport/src/client.rs:528`: every UpdateNotify spawns a task with no lock, and the tasks share .extracted and .staging: one clears the backups the other needs, or takes the extracted files from it; apps/agent/crates/personel-updater/src/swap.rs:26 says of the tree after a failed stage: "back, producing either a fully-OLD or fully-NEW tree. Half-and-half is" (not reachable, the next line goes on).
* `apps/agent/crates/personel-updater/src/package.rs:298`: an extraction that fails or stops half way leaves .extracted mixed, with a file that is cut off, and nothing cleans it (apps/agent/crates/personel-updater/src/swap.rs:164 offers rollback_update for that case, which the task does not call); the move that an earlier update put off to the next boot then installs the file that is cut off; apps/agent/crates/personel-updater/src/swap.rs:26 says of the tree after a failed stage: "back, producing either a fully-OLD or fully-NEW tree. Half-and-half is" (not reachable, the next line goes on).
* `apps/agent/crates/personel-updater/src/swap.rs:233`: a binary that was not there before has no backup, and rollback_update leaves the new one in place; apps/agent/crates/personel-updater/src/swap.rs:26 says of the tree after a failed stage: "back, producing either a fully-OLD or fully-NEW tree. Half-and-half is" (not reachable, the next line goes on).
* `apps/agent/crates/personel-updater/src/swap.rs:135`: sc stop and start do not make the move that waits for the boot, so the restarted agent is the old one beside the new watchdog; apps/agent/crates/personel-updater/src/swap.rs:51 says: "restart path produces a consistent NEW-on-both-halves state."

**compliance pages and consents**

* `apps/api/internal/kvkk/service.go:534`: the entry is written first, so of a consent and a revocation at once the log may have one order and the row the other; apps/api/internal/kvkk/types.go:17 says that the audit log is the timeline of a consent
* `apps/api/internal/kvkk/service.go:546`: a revocation of nothing is in the log as a revocation, and is answered in error
* `apps/api/internal/kvkk/service.go:180`: what stood before is read before the entry is written: of two publishers at once both log the same previous version, and so do the papers and the settings
* `apps/api/internal/kvkk/service.go:276`: a put or an UPDATE that fails leaves an entry, and after the UPDATE an object, that name a paper nobody has
* `apps/api/internal/transparency/acknowledgement.go:54`: of two first acknowledgements at once both are logged and both answered, the second with its own entry and not the row's; apps/api/internal/transparency/acknowledgement.go:94 says: "the existing audit_id is returned with AlreadyDone=true"
* `apps/api/internal/transparency/acknowledgement.go:46`: every error of the query counts as no row, so a person who acknowledged is logged as acknowledging again

**backup targets and integrations**

* `apps/api/internal/backup/targets.go:335`: every column is written, from the row as it was read, so of two updates at once the second takes back what the first changed; apps/api/internal/backup/targets.go:333 says: "so we only touch supplied fields"
* `apps/api/internal/vault/client.go:252`: the API client gives the version as json.Number, so the assertion to float64 never holds and the version stored beside a ciphertext is 1 whatever the key's; nothing reads it (the ciphertext names its own), so the model leaves it out; apps/api/internal/vault/client.go:226 says: "key_version is the integer N so callers can persist it alongside the" ciphertext (the DLP bootstrap has the same assertion, apps/api/internal/dlpstate/service.go:123)
* `apps/api/internal/backup/targets.go:372`: a row that was deleted in between is not missed: the update, or the second deletion, is logged and answered as done
* `apps/api/internal/integrations/service.go:239`: what is not there is removed, logged and answered as removed
* `apps/api/internal/backup/targets.go:408`: nothing in the repository scans for runs, so a run stays "running"; its comment names an out-of-API cron that picks them up
* `apps/api/internal/integrations/handler.go:76`: a config is shown with its secrets masked and stored as it is sent, so a form that sends back what it was shown stores the mask

**rate limiters**

* `apps/gateway/internal/grpcserver/ratelimit.go:91`: buckets of tenants are never dropped, and those of endpoints only by the end of a stream; apps/gateway/internal/grpcserver/ratelimit.go:15 says: "evicts them after inactivity" via a simple GC sweep
* `apps/gateway/internal/grpcserver/ratelimit.go:91`: the end of an old stream drops the bucket the endpoint's new stream uses, whose next batch finds a full one
* `apps/gateway/internal/grpcserver/ratelimit.go:51`: when the tenant's bucket refuses, the endpoint's tokens are spent all the same
* `apps/api/internal/httpserver/tenant_ratelimit.go:141`: with a configured burst of 0 a tenant's first request in every idleTTL is let through and leaves less than no tokens

**roles and routes**

* `apps/api/internal/httpserver/server.go:301`: a gate added with `With()` comes after its group's, so it can only narrow it. apps/api/internal/httpserver/server.go:301 says "we override with With() here": the group apps/api/internal/httpserver/server.go:281 admits admin and dpo only, so an it_manager or it_operator is refused at wipe, deactivate, bulk, commands and refresh-token
* `apps/api/internal/httpserver/server.go:346`: "we widen with With()": /policies/preview stands under the group's {admin} gate, so a manager, dpo or auditor is refused there
* `apps/api/internal/httpserver/server.go:480`: /reports/ch names hr and investigator, whom the gate of /reports refuses
* `apps/api/internal/httpserver/server.go:765`: the route is mounted under /v1/mobile, whose gate lacks dlp-admin, and the scripts call it under /v1/system (infra/scripts/dlp-enable.sh:109): nobody but who holds both dlp-admin and one of the six roles is served, at another path than documented
* `apps/api/internal/httpserver/server.go:776`: "Readable by all authenticated roles": it_operator and it_manager are not named, employee and dlp-admin are refused by the group
* `apps/api/internal/auth/rbac.go:110`: rule 5 says "Live view approval requires HR role"; can() grants it to it_manager and admin (apps/api/internal/auth/rbac.go:94)
* `apps/api/internal/auth/rbac.go:102`: Can is "the sole entry-point" and "no handler may hardcode role comparisons outside this function". The gates do, and these routes are served more widely than the matrix has them: /search/audit and /audit/stream to admin and investigator (apps/api/internal/httpserver/server.go:536, apps/api/internal/audit/stream_handler.go:254); every /dsr route but the erasure, and the list and generation of destruction reports, to admin; acknowledging a silence to admin and manager; /me to admin and dpo; the DSR queue, pending sessions and silences of /mobile to roles that may not read them elsewhere. POST /dsr and five routes of /live-view (list, get, sessions, session, end) have no gate and no check. `Widened` and `Unguarded` are exactly these (`ExceptionsReal`, which TLC evaluates), and `ReservedKept` asks every other route the matrix has a resource for
* `apps/api/internal/auth/oidc.go:130`: what a token says holds until it ends: neither users.is_active nor Keycloak is asked again, and an audit stream outlives the token it was opened with

**people, acknowledgements and keys**

* `apps/api/internal/transparency/acknowledgement.go:94`: "the existing audit_id is returned": of two first calls that overlap the second's INSERT does nothing, and it answers its own entry (apps/api/internal/transparency/acknowledgement.go:71); and apps/api/internal/transparency/acknowledgement.go:46 takes any error of the query for "not found", so a call whose look-up fails does the same
* `apps/api/internal/user/service.go:156`: an update of a name or address has no audit entry; nor has the update of a tenant, and that of a new tenant is in the chain of the zero tenant
* `apps/api/internal/user/service.go:114`: ChangeRole, Disable and Delete answer success when no row was there, after an entry that says it was done
* `apps/api/internal/tenant/screenshot_handler.go:61`: the preset is written before its entry, and a failed entry is a warning
* `apps/api/internal/apikey/store.go:136`: `$2` is compared with a uuid and with '' in one statement: PostgreSQL types it as uuid, '' is none, and the statement is never prepared. No key can be revoked by the API
* `apps/api/internal/apikey/service.go:97`: apps/api/internal/apikey/handlers.go:73 says "the service layer guarantees it runs" of the entry: it is written after the key, a failure is logged only, and a key without a tenant passes "" as a uuid, which fails each time

**tickets**

* `apps/api/internal/tickets/service.go:413`: canTransition also takes open to resolved, in_progress to rejected and rejected back to open (apps/api/internal/tickets/service.go:428); the comment says: "open → rejected (terminal)" and "Any other transition is illegal." The model and TicketsTrue have the table of the code
* `apps/api/internal/tickets/service.go:369`: a webhook's change is written whether or not its entry could be, is not asked of canTransition, sets no stamp and can move a closed ticket; the package says every mutation writes an audit entry first
* `apps/api/internal/tickets/service.go:281`: the state is checked when it is loaded and overwritten later without a condition: of two overlapping changes one can reopen a ticket the other closed, and a reopened ticket keeps resolved_at and closed_at
* `apps/api/internal/tickets/providers.go:64`: the adapters are stubs that give no number, so no webhook finds a row

**licence**

* `apps/api/internal/license/license.go:387`: a refresh that fails keeps the old claims, by which CheckCapacity and HasFeature go on; RequireWritable reports a file that does not verify as ErrExpired
* `apps/api/internal/license/license.go:217`: the licence of a machine that may run without a file lasts until the next refresh, which finds the file missing
* `apps/api/internal/license/license.go:233`: main.go builds no licence and no ticker, so nothing refreshes it after the start but a call of RefreshHandler, and a licence goes on being valid for as long as nobody calls; apps/api/internal/license/license.go:145 says: "Call Refresh periodically (24h ticker) to re-read the file"
* `apps/api/internal/license/online.go:95`: the server's refusal (4xx) is answered and not kept: when the server cannot be reached afterwards the older "valid" is answered again for a week

**scores and enricher values**

* `apps/api/internal/scoring/risk.go:86`: the comment scales the capped counts by 0.01 and everything by 100, which makes a full off-hours day 2000 points; the code adds 30 for the anomaly, 20 for the off-hours and the capped counts as they are
* `apps/api/internal/statuspage/service.go:306`: the comment counts outages by their status, the query by severity P1 and P2; an incident still open counts nothing, and two at once count twice
* `apps/api/internal/statuspage/service.go:201`: a component down for the whole week that is up again shows 100, and so does every component when the query fails
* `apps/gateway/internal/enricher/ml_client.go:70`: an answer below the threshold is said to fall through to the regex rules; the code answers unknown, also where the rules are 90 sure
* `apps/gateway/internal/enricher/classifier.go:46`: a guess from part of the name is 0.65 sure, below the 0.70 threshold, and is still answered as work
* `apps/gateway/internal/enricher/enrich.go:179`: the first slot that is there is used, also when it is private and a later one public
* `apps/gateway/internal/enricher/sensitivity.go:60`: an empty host hides the address behind it, so no glob is tried

**reports**

* `apps/api/internal/clickhouse/aggregations.go:53`: a code that only begins with 60 or 81 (600, 815) is taken for a missing table: the report of a failing ClickHouse is then an empty 200
* `apps/api/internal/reports/queries.go:90`: the table read is `events`; what the gateway writes and the other reports read is `events_raw`, and no script makes the first
* `apps/api/internal/reports/queries.go:165`: the endpoints that were asked for are not in the query
* `apps/api/internal/reports/handlers.go:17`: a bound that does not parse, an order upside down and a window of years are all answered; the reports beside it refuse each
* `apps/api/internal/reports/queries.go:131`: 101 rows asked for make 10, in the ClickHouse reports 100
* `apps/api/internal/reports/scoring_handlers.go:179`: seven rows, not days: where a day has no row the mean reaches further back
* `apps/api/internal/reports/scoring_handlers.go:316`: the risk score of anybody is that of no signals at all
* `apps/api/internal/user/employees_overview.go:116`: the sum of the last seven days is of eight; the page of one person takes seven
* `apps/api/internal/reports/trends.go:233`: the mean of a window that is part of its own baseline is held against the spread of single days: of 30 days a window of six or more, the default of seven among them, can never be an anomaly
* `apps/api/internal/reports/trends_store.go:56`: %q quotes the path with double quotes, which makes it a column: every trend of a JSON metric is an error
* `apps/api/internal/reports/export.go:276`: the key is of the second: a second export of the kind within it replaces the file behind the first link

**lookups**

* `apps/api/internal/featureflags/service.go:155`: a rollout of 0 is said to be off for everyone; the code answers the flag's default, which may be on
* `apps/api/internal/featureflags/service.go:251`: the entry carries no tenant, which append_event refuses, so that neither Set nor Delete gets as far as the row; `old` in it need not be what the row's change replaces; IsEnabled has no callers
* `apps/api/internal/featureflags/service.go:358`: a slow reader stores the row it read before the change after the invalidation, and other API instances keep theirs: a change is seen everywhere only when the cache's time is over
* `apps/gateway/internal/enricher/ocr_gate.go:123`: a refused or failed request keeps the last value, for as long as it fails; the token is always empty, and NewOCRGate has no callers
* `apps/api/internal/search/client.go:247`: a page up to 1000 is accepted, but what lies beyond OpenSearch's 10 000 hits comes back as a 500
* `apps/api/internal/search/client.go:234`: the order is by the time alone, so that documents of one instant have none of their own: from one page to the next they may change places, and a walk shows one twice and another never
* `apps/api/internal/search/client.go:349`: a hit that does not decode is left out and still counted in the total
* `apps/api/internal/search/service.go:172`: a beginning without an end is not held to the 90 days; and a window with no end moves on between two pages of the same search

* **Not wired.** `run_version_checker` is called by nothing; `update.tar.gz` is never deleted. In production
  nothing calls the live view's `AgentStarted`, nothing fires `expire`, `agent_fail` or `agent_decline`, and the LiveKit token minter is a stub; `EndSession`
  asks for no role. `worm-verify`, which a runbook names, does not exist. `FulfillmentService` is not built in `main.go`.
* **Shutdown.** `Serve` of the gateway (`apps/gateway/internal/grpcserver/server.go`, on `ctx.Done()`) waits for every stream without a limit before `main`
  reaches its own `GracefulStop`, which has one. `main` of the API ends when `ListenAndServe` returns, which is when `Shutdown` begins and not when the requests are drained.
* **Not wired either.** `main.go` builds neither the licence, the tickets, the SIEM senders nor the status page, gives the report exporter no engine, and nothing calls
  `UpdatePolicyCache`, `NewOCRGate` or `NewMLClassifierClient`. The entries of flags and of the status page have no tenant, which `append_event` refuses.


## 7. Not modelled

Besides the components `PROJECT.json` lists as `not_modelled`: the contents of messages, tokens and documents; cryptography
(a signature is taken to hold, a hash to have no collisions); SQLite and Postgres errors within a statement
(an UPDATE that fails between BEGIN IMMEDIATE and COMMIT in `queue.rs` returns with the transaction open);
clocks that jump (time is one tick at a time); ties that only binary fractions break in a score; the API's bucket per address. JetStream, ClickHouse,
Postgres, MinIO, Keycloak, Vault, OpenSearch and the file system are external: a publish, insert or rename either happens, fails, or happens and
reports failure, where the code can meet that. Deployment files are modelled only where the code depends on
them (`init.sql`'s function and the nightly script that reads what it writes).

About a quarter of the implementation's lines have nothing to model: code that protoc generated (9 000 lines), the load and end-to-end
harness in `apps/qa` (7 000), and wiring, configuration and metrics.

## 8. Plan

The queue, the upload, the enricher, the live view, the router, the chain, the identity of agents and their commands are modelled and proved about;
what remains, the most important first:

1. The reports that section 5 lists as model-checked only.
2. **The watchdog** and SQLite errors in the queue: the one hazard without a property in `PROJECT.json`, and

* `apps/agent/crates/personel-watchdog/src/health_monitor.rs:114`: After a restart the monitor waits for a connection with no time limit: an agent that hangs before it connects is never reported. The watchdog is not modelled.

## 9. How to run

From this directory, with TLC and TLAPS installed:

```
tlc -workers 2 -config Limits.cfg MCLimits     # each run: PROJECT.json, "runs"
tlapm EnricherProofs.tla                       # and the other seven *Proofs modules
```

The longest runs take about three minutes with two workers, the longest proof (`LiveViewProofs`) about six with two threads.
