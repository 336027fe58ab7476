# A formal model of Nanotrace

Nanotrace takes telemetry events over HTTP, carries them through Kafka and
materializes them into ClickHouse serving tables, which the query API, the alert
worker and the UI read. This directory holds TLA+ modules of the parts of that
pipeline where processes, failing calls and restarts interleave and of the functions
that derive, find and count what it stores, the TLC configurations that check them,
and proofs of the properties that carry the pipeline, checked by TLAPS.

    tlasany M.tla                            parse a module
    tlc -workers 2 -config MCNormalizer.cfg MCNormalizer
    tlapm NormalizerProofs.tla               check proofs

`PROJECT.json` lists components, runs, the source lines of every definition
("map"), the hazards of the code with the properties that cover them, and for each
property a plausible bug (a mutant) that breaks it.

## 1. Inventory of the system

| Component | State it keeps | Operations | Module |
|---|---|---|---|
| Ingest API, `apps/server/src/http.rs`, `crates/ingest` | none of its own; the Kafka raw topic | one acknowledged append for each body; index and text rows of an event | `Normalizer!Publish`; `EventQueries!KvIndexRows`, `SearchTexts` |
| Normalizer, `apps/normalizer` | managed-definition cache, consumer position | receive, five sends, definitions, commit | `Normalizer` |
| Sidecar, `apps/sidecar` | disk spool, bounded channel, batch | HTTP and UDP intake, replay, batch, post, recover | `Sidecar` |
| Serving materializers, `tools/lakehouse-rebuild` | the serving tables, `lakehouse_commits`, `serving_watermarks`, `materialization_versions` | Tableflow consumer, incremental pass, rebuild; the rows each definition derives | `ServingMaterializer`; `ServingTables` with `Extraction`, `Reports` |
| Backfill queue, `apps/server/src/materializations.rs` and the queued executor of `tools/lakehouse-rebuild` | `materialization_jobs`, `materialization_chunks` | create, list, claim, execute, complete, publish, fail, refresh | `BackfillQueue` |
| Alert worker and notifier, `apps/alerts` | dedupe map, `alert_events`, `alert_notifications` | match, record, commit; poll, post, update; parse the rules | `Alerts`; `AlertRules` |
| Lakehouse catalog, `crates/lakehouse` | catalog pointer, table versions, commit records | append once, compact, set properties | `LakehouseCatalog`, `EventTable` |
| Read API, `crates/read`, `apps/query` | none | plan, check freshness, query, page, count groups | `EventList`, `EventQueries`; `Definitions!ReadCatalog`; `ServingTables!StateRead`, `FunnelRead`; `ServingMaterializer!Fresh` |
| Definitions, `apps/server/src/definitions.rs` | versioned definition rows, `materialization_watermarks` | validate, create, delete, seed, backfill by SQL | `Definitions`; `DefinitionConfig`, `BackfillSql` |
| Accounts, `crates/auth` | Postgres tables; the key cache of each server process | organizations, members, sessions, logins, invitations; create, revoke, cache keys | `Accounts`, `ApiKeys` |
| Web UI, `apps/ui` | the pages it has loaded | open, next and previous page, all pages again | `EventList!Open`, `FetchNext`, `FetchPrevious`, `RefetchFirst` |
| SDK clients, load test, deployment | - | - | not modelled (section 5) |

How they interact: an SDK posts to the ingest API directly or to a sidecar on the same host.
The API answers when Kafka has acknowledged the raw body. Normalizers, one consumer group,
turn raw messages into a Tableflow topic (events for the tables), a normalized topic (events
for the alerts), an invalid topic and invalid rows, and insert the definitions they
discover. The lakehouse writer appends batches of events to an Iceberg table whose versions
a catalog publishes. The Tableflow materializer, or the incremental one from lakehouse
commit records, writes the serving tables and then the watermarks reads are judged by. What
the tables derive is told by definitions, versioned rows that users, the normalizer and the
server's seed write. Backfills of history are SQL statements of the server or a queue in
ClickHouse tables: the server inserts, any number of executors claim. The query API plans
each request over the tables that can answer it. The alert worker consumes the normalized
topic; the notifier shares only the table `alert_notifications` with it. Every request of
the server is authorized from the sessions and memberships in Postgres or from a cache of
API keys that each process keeps.

What is hard, and to what property it leads:

- Three consumers (normalizer, Tableflow materializer, alert worker) have the same loop:
  receive, process, commit on success, and *log and go on* on an error. Which messages
  can a committed offset pass? `OffsetContract` states it; all three implement it.
- ClickHouse gives no transaction across statements, so every sequence of inserts has
  states between, and a crash or an error can leave any of them. A call that fails may
  have taken effect. Each await of the code is therefore a step of the models, and each
  failing call has both outcomes.
- Executors, and the worker and the notifier, write rows that the other read earlier:
  claims, job progress and notification rows are blind writes.
- The sidecar's tasks share the spool directory and a bounded channel. The process can
  end between two renames.
- Requests on one organization run beside each other in Postgres transactions: what a
  statement has found may be gone when a later one uses it, unless its row is locked.
  The cache of keys is replaced in two steps, and replacements overlap.
- What decides the end of retries is counted by one process from what it read earlier.
- The local catalog publishes a table version by replacing a pointer file. Appends do not
  compare it before they write, compaction compares it some steps before.
- A definition is read by a request, by a pass of the materializer and by the planner of a
  query, each at its own time, while newer rows of it are inserted and merged away.
- The rows of one table come from two programs in two languages (SQL and Rust), what the
  server accepts is parsed by two others, and the answer to one question comes from
  whichever of several tables the planner takes.

Each component is correct when: nothing accepted or committed is lost except where it
was reported (normalizer, sidecar, alerts, lakehouse); what is reported finished is finished
(backfill, watermarks, proofs of an index); retries are bounded and not given up early
(backfill, alerts); waiting work is answered while processes are restarted; an organization
keeps an admin, an invitation admits once, and every process comes to know which keys are
active; a deleted definition stays deleted; tables filled by different ways agree, and a
query means the same whichever of them it reads.

## 2. The modules

**`OffsetContract`** is the abstract specification of a consumer: messages are published,
effects accumulate, and a commit passes only messages that are settled or abandoned (an
attempt to process them returned an error). `Normalizer`, `ServingMaterializer` and
`Alerts` instantiate it, each with its own notion of settled, and check
`Contract!Spec` as the property `ImplementsContract`.

**`Normalizer`**: `Receive` is `consumer.recv` and the head of `process_message`.
`ProduceTableflow`, `InsertInvalidRows`, `ProduceNormalized`, `ProduceInvalid`,
`EnsureManagedDefinitions` are its awaited calls in the order of the code, `CommitMessage`
the commit. `Skip` is the error path: logged, next message. `Crash`, `CommitFails` (which
ends `main`), `Restart` and `Rebalance` are the life of a consumer in a group: after a
rebalance the former owner may still be in a message and may still commit, and that can
move the offset back. `Normalize` stands for `normalize_json_batch`: what counts of a body
is whether it has valid events, invalid ones, and which definitions they carry. The
variables `skipped` and `faults` are history.

**`Sidecar`**: intake over HTTP and UDP (`Submit`, `PersistEvent`, `AnswerSpooled`,
`QueueDatagramEvent`), the replayer (`ListReady`, `Take`, `Enqueue`), the batcher and sender
(`Receive`, `PushCarried`, `Tick`, `Post`, `GiveUp`, `SettleFile`), `Exit` and `Restart`.
The variable `file` is the extension of an event's file; a write and a rename are two steps.
`spool` is chosen in the initial state, so one run covers the sidecar with and
without its spool.

**`BackfillQueue`**: `InsertJob` and `InsertChunks` are the two inserts of
`create_backfill`. An executor goes through `List`, `Claim`, `Execute`, `Complete`,
`PublishVersion`, `PublishWatermark`, `Fail`, `ReadProgress`, `RefreshJob`. `listed` keeps
the attempt as the listing read it; `Claimed` overwrites whatever the row has become.
`Expire` is the passing of `leased_until`. `updatable`, chosen in the initial state, says
whether ClickHouse accepts the executors' ALTER TABLE UPDATEs: they set `status` and
`updated_at`, which schema.sql has in the sorting key and as the version, so that the tables
it creates refuse them (`Refused`). `lost` is history: the chunks an executor was interrupted at.

**`ServingMaterializer`**: three writers, `tableflow`, `incremental` and `rebuild`, select a
snapshot each in its way (`ReceiveBatch`; `ReadCommits`, `ReadWatermarks`,
`SelectCommit`; `StartRebuild`, `RebuildCommit`) and share the writing steps `InsertRows`
(table by table), `RecordCommit`, `AdvanceWatermarks`, `PublishVersions`. A row is a
snapshot and the namespace of its deduplication token, so inserting it again under the
same token changes nothing. `Deployments` says which writers run together and with which
settings: `from`, the sequence number below which a process leaves commits out
(`NANOTRACE_REBUILD_FROM_SEQUENCE`); `derived` and `RebuildRaw`, what a rebuild inserts, and so
which watermarks it moves (`RebuildTargets`); `remembered`, the commits whose deduplication
tokens ClickHouse still has from an earlier release (`Deduplicated`).

**`Alerts`**: `Receive` takes a message and `Evaluate` evaluates it match by match, each at the
time `evaluate_alert` reads the clock (`Suppressed`, `Pruned` are its look into the dedupe
map and `prune_dedupe`; `EvaluationFails` leaves what earlier matches entered there),
`FinishMatching` ends that, `RecordAlerts` and
`RecordNotifications` are its inserts, `CommitMessage` its commit. The notifier is `Poll`,
`Post`, `InsertUpdates`. `Supersedes` is which of two rows of a notification `FINAL` leaves.

**`Accounts`**: a request is a record `req[r]` with the step it is at and what earlier
statements gave it; each operation of `AuthStore` is a first step (`StartMember`, `Claim`,
...) and the steps after it. A row lock is not a variable: `MembersLocked`, `OrgLocked`,
`InviteLocked`, `SessionLocked` read from the steps who holds one, because a lock lasts
from a statement to the commit. What a transaction writes appears in its last step.
`lapsed` and `admitted` are history: organizations whose last admin accepted a lesser
role, and acceptances.

**`ApiKeys`**: the changes of `nanotrace_api_keys` by handlers, and
`refresh_api_key_cache` as `QueryKeys` and `StoreKeys`, run by `connect`, by every change
and by each process' refresher. Only one of two overlapping refreshes stores last, with
the older rows or not.

**`EventTable`** is what the lakehouse promises: a batch is appended at most once and whole,
it stays readable, and its writer is answered after that.

**`LakehouseCatalog`**: processes append a source batch or compact. `op[p]` is the operation a
process is in: what it loaded, and the files it has still to write, each staged under its
temporary name and then renamed. `catalog` is chosen in the initial state, local or REST.
A table version is its location, properties and sequence of snapshots. `overlapped` is
history: whether two operations of a local catalog ran beside each other, which nothing in
the code excludes or survives. It checks that the files implement `EventTable` until then.

**`Definitions`**: the table as the sequence of its physical rows, of which the newest
stands for a definition (`Stands`); `Merge` drops one row that a newer one supersedes. A request of the API reads, then inserts
(`Create`, `InsertCreated`, ...), and reads the clock twice for the time and the version of
its row (`StampDeleted` is the second reading of a deletion). The seed replaces the
default of an earlier release (`EarlierSeed`). The normalizer inserts managed definitions its cache does
not know (`EnsureManaged`); a pass of the materializer lists commits, loads the definitions,
inserts events and derived rows under a token, records the commit and moves the watermark;
a backfill fills each output and then marks its window (`FillOutput`, `MarkFilled`); a query
looks up the paths (`ReadPaths`), whether an index is proven or fresh (`ReadProven`,
`ReadFresh`) and runs.

**`EventData`, `Extraction`, `Reports`** are the pure part of the materializer: JSON values,
paths, texts and numbers, a definition's matcher and its expressions; the rows of one event
for each kind of definition, of which field rows two definitions may give (`Twin`); and what
the events of a file give together (reports, traces,
funnels, cohorts, retention). **`BackfillSql`** has the server's INSERT ... SELECT statements
for the same tables, **`DefinitionConfig`** the server's validation, **`AlertRules`** the alert
worker's parser. No text is written `NoText`, the empty string, as in the code.

**`ServingTables`** composes these: `Create` is the request the server accepts, `Load` a file
derived by one of two materializers (a namespace of tokens), `Backfill` and
`BackfillCurrent` the two inserts of a backfill by SQL, `Merge` ClickHouse replacing rows of
one key. A load takes the field definitions in any order (`FieldOrders`), since the query
that reads them has none. `StateRead` and `FunnelRead` are the structured reads. `RecordOf` is the row that
`create` inserts. Its specification is `TablesSpec`.

`SameReading` says when `BackfillMatchesStream` speaks of a definition and an event: every
path the definition names leads to the same value in a JSON tree and in a ClickHouse
subcolumn, nothing or a scalar that has a text (`Plain`); what a predicate compares with has
a text (`Textual`), since SQL compares texts, where the empty one stands for every value
without one; and the definition does not mix the flat form with outputs. The two programs
differ outside of this, and what they differ in is listed in section 3.

**`EventList`** is a list of events paged by the UI: `EventsPage` answers a request at a cursor
in the order of times and identifiers, and `Open`, `FetchNext`, `FetchPrevious` load the pages
while `Load` brings files and `Promote` indexes. `RefetchFirst`, `RefetchNext` and `RefetchEnd`
ask for all the pages again, as the list does in live mode and after a definition was
created, and replace them. Which events a request selects under a set of
promoted indexes is a parameter, `Selects`: the pages are right whatever it is.

**`EventQueries`** gives it a value: `KvIndexRows` and `SearchTexts` are the rows the ingest crate
derives from an event; `FacetsHold`, `GroupsQuery`, `SummaryQuery`, `LatestQuery` are the queries
the planner composes for what `promoted` lets it use. Its properties state the
meaning of a facet on the JSON of an event, without tables (`Means`, `ElementMeans`). The
planner takes an index by the definition's name, so `Faithful` says for which paths the index
is that of the path.

An `MC` module gives a specification its constants; a `.cfg` file, the bounds. Constants whose
elements are records or sets go through `Normal` of `MCValues`, which is the identity: TLC's
workers share such elements, and `Normal` has them compared, and so in their normal form,
before that.

## 3. The runs

| Run | Checks | Shows |
|---|---|---|
| `normalizer` | `CommittedIsAccounted`, `TopicsFollowDurableRecords`, `ImplementsContract`, `EveryMessageIsAnswered` | two workers, three messages, two faults: no offset passes an unanswered message, alerts never see an event the tables will not get |
| `sidecar` | `ClaimsAreExclusive`, `AnswersAreTrue`, `DuplicatesHaveFaults`, `SpooledIsDelivered` | three events, two faults, with and without a spool: answers are true, no file is in two batches, a spooled event is delivered |
| `backfill_queue` | types, `FinishedIsWritten`, `RetriesEndInTime`, `WaitingChunkIsSettled` | two executors on two chunks of two files with two faults: nothing unwritten is reported, and where the tables accept the claims, what fails costs no chunk but the one it interrupts |
| `materializer` | `WatermarkIsEarned`, `WatermarkCoversTheLakehouse`, `ImplementsContract`, `CommitsAreCaughtUp` | either the Tableflow consumer, or the incremental loop beside a rebuild of everything or of the raw events of later commits, with tables added by a release |
| `alerts` | `NotificationsFollowAlerts`, `PostsAreCounted`, `ShortWindowsHold`, `ImplementsContract`, `NotificationsAreAnswered` | two rules that share the dedupe map, two messages, two faults |
| `accounts` | types, `AdminsRemain`, `InvitationsAdmitOnce`, `AcceptanceIsTimely` | three requests of any kind on an organization: demotions and removals leave an admin, acceptances are single and in time |
| `api_keys` | `CachesConverge` | overlapping refreshes of two processes through failures and crashes: each cache comes to be the active keys |
| `lakehouse` | `AcceptedRowsStay`, `RowsAppearOnce`, `RecordsFollowTheTable`, `ImplementsEventTable` | two processes append and compact with either catalog through interruptions |
| `definitions` | `CoveredWindowIsIndexed`, `PromotedReadsAreComplete`, `DeletionIsFinal` | requests, a normalizer, a pass and a query over one table of definitions: what a proof says of an index stays true, reads through it are complete, deletion is final |
| `serving_tables` | `AcceptedIsUnderstood`, `BackfillMatchesStream`, `CurrentAgreesWithHistory`, `FunnelsAreExact` | definitions of every kind, two of one field among them, files loaded in any order beside a backfill and merges |
| `event_queries` | `PagesAreTheResult`, `FiltersMeanTheirFacets`, `GroupsListTheirEvents` | twenty-three queries over six definitions; lists paged and asked for again while files arrive and indexes are promoted |

Types are a property of a run only where they are cheap to check there: those of all modules
with proofs are theorems for all constants, and those of `ApiKeys` hold on the instance of its
run. The three
modules of pure functions over JSON have no type invariant: their values are rows and
records of many shapes, and the properties compare them.

One run shows where the program does not do what its source says:

| Run | Source | Behaviour |
|---|---|---|
| `accounts_admin` | crates/auth/src/lib.rs:1002, an organization must have at least one admin | the only admin accepts an invitation as a viewer, which replaces the role |

The models show more disagreements, which are not kept as runs. In each case the
property of the run above says what does hold.

- *Offsets and leases.* A failed message is passed by the commit of the next one
  (engineering-spec.md:308). An expired lease of a running chunk is never looked at
  (design.html:294), so a chunk whose executor is interrupted between its claim and its
  watermark is not settled: `WaitingChunkIsSettled` leaves out these chunks (`lost`), and
  no others. With the tables of deploy/clickhouse/schema.sql no chunk is ever claimed:
  ClickHouse refuses to update columns of the sorting key (`status`, schema.sql:877, 910) and
  the version (`updated_at`, 875, 906), which each of the queue's four updates sets
  (tools/lakehouse-rebuild main.rs:2776, 2793, 2815, 2842). `WaitingChunkIsSettled` is about
  tables that accept them. A chunk whose last attempt was claimed from a stale listing stays
  in `retry` without attempts. The job of design.html:293 stays running with all chunks completed when
  the stale report of two executors is written last; a job whose chunks' insert failed stays
  pending without chunks.
- *Watermarks.* Sequence numbers of Tableflow batches and lakehouse commits share a
  watermark, so that one batch makes an empty table look current (invariants.md:168). A rebuild
  with raw events inserts them a second time under another token (invariants.md:110). An
  incremental writer that ends between watermarks and publications never publishes. A process
  that is told to begin at a later commit (`NANOTRACE_REBUILD_FROM_SEQUENCE`) moves the
  watermarks over the earlier ones, and a rebuild without derived tables moves that of the
  events: the properties leave out the commits that are left out (`LeftOut`). A rebuild with
  neither raw events nor derived tables would move the events' watermark and write nothing;
  `DeploymentsAssumption` excludes it. The deduplication token of a watermark insert does not
  name the tables (tools/lakehouse-rebuild main.rs:3740): where ClickHouse remembers tokens, a
  table that a release adds gets the rows of old commits and no watermark for them, until a
  later commit gives it one.
- *Local catalog.* The check of the pointer and its write are two steps: of two operations
  that run beside each other the later may put a table in place without the commit of the
  earlier one, whose rows are then unreadable, and two writers of one JSON file share its
  temporary. The properties of `LakehouseCatalog` hold until two operations of a local
  catalog overlap (`overlapped`).
- *Alerts.* A failed insert leaves its dedupe entry: the next match is suppressed and no alert
  exists (invariants.md:204). A reprocessed message writes a pending row over a delivered
  notification (invariants.md:206).
- *Definitions.* A cold cache of the normalizer inserts a managed definition with `enabled =
  1` over what a user changed. A pass that loaded the definitions before one was created
  writes its commits without that definition's rows, also where a backfill has already
  marked the window; and of two definitions of one name each field value is indexed for one.
  `CoveredWindowIsIndexed` leaves out these definitions (`missed`), by identifier and
  version. A backfill of a state that ends between its two inserts leaves the current values
  behind the history until the next one; `CurrentAgreesWithHistory` leaves out its
  definition (`unfilled`). Rows of a file that is loaded under a second namespace count
  twice in the aggregating tables (invariants.md:115).
- *Stream and backfill.* SQL and the materializer read some events differently, and
  `BackfillMatchesStream` leaves these out (`SameReading`): a path through a missing part,
  which the materializer takes from the root again; objects, arrays, `null` and empty texts
  at a path; numbers whose text SQL writes otherwise; `is_error` of other texts than `true`,
  `false`, `1`, `0`; predicates that compare with a value that has no text. Further, the
  default of a field's value is used by SQL only; a measure that has a `path` beside
  outputs, none of them for `event_measures`, gets rows of the path from the materializer
  only; a flat definition's `match` is ignored by SQL; a flat measure whose dimension is
  missing gets a dimension with an empty value from SQL and none from the materializer. Of
  two definitions that give one field value of an event the materializer writes the row of
  the first only (main.rs:4972) and SQL one for each: the property compares what is indexed
  and, for the definition at hand, that its rows of the stream are rows of the backfill.
- *Queries.* The planner takes the index of a definition for the path of the definition's
  *name* (crates/read/src/lib.rs:1600, 2891), and the server accepts a name other than the path,
  a `match` and defaults (definitions.rs:1302). A facet on such a name is answered from the
  index once the definition is promoted and from the event before, and need not be answered
  alike; so is one on a field that two definitions give and one of them is promoted for.
  `FiltersMeanTheirFacets` and `GroupsListTheirEvents` are about paths whose index is that of the
  path (`Faithful`). A path with `-` is looked up with `.` in its place. A definition is
  promoted also where only the tables are fresh (1623), and its index may lack the history
  that was loaded before it: `PromotedReadsAreComplete` is about promotions that a watermark
  proves. A list asked for again ends at the first page that is not full, which may be
  the one on top of those loaded upward: what was below it is gone until the list is opened
  again (`CutOff`). A cursor of a time alone skips further events of that time
  (crates/read/src/lib.rs:3503); the cursors of the UI carry the identifier as well. An index
  of texts takes `"1"` and `true` for one value where `event_kv_index` tells them apart. The
  ingest crate numbers nested arrays otherwise than the planner asks
  (crates/ingest/src/lib.rs:793, crates/read/src/lib.rs:3131). Groups of `signal` and
  `is_error` are derived by the rollup for events that do not carry them. An event beyond
  the row limit of `event_kv_index` is missed by facets. The properties name these as what
  they leave out.

### Bounds

Two faults are what the properties of the pipeline need to be broken in the interesting
way: one to interrupt, one to interrupt the repair (a crash after a failed call, a failed
restore after a failed post, a second executor ending). A fault is any failing call, crash,
exit or unforced rebalance; a history counter `faults` bounds them. Beyond it:

- `normalizer`: one partition with three messages, because the offset rule compares
  neighbours of one partition, and two workers because a partition has one owner and at most
  one former owner at work matters. The proofs lift both.
- `sidecar`: three events with sizes that make a batch of two overflow by bytes and fill by
  count; a queue of two, so that a body of two fits or not.
- `backfill_queue`: two executors for every race of two; two attempts so that the last one
  is not the first; two chunks so that a job has a sibling; two files so that an
  execution can end half done.
- `materializer`: two tables, one of which may be new; two commits, one of which may be
  history; three deployments, the last with a rebuild from the second commit on;
  `OffsetSpan = 4` in place of 2^48 keeps the sequence numbers of the instance apart
  exactly as the program's are.
- `alerts`: a rule with a window and one without one, whose pruning touches the other's
  entries at `MaxDedupeKeys = 1`; one key, two messages of up to two matches, and one tick.
  Windows are in ticks; `MinRetention` stands for the 60 seconds of the code.
- `accounts`: one organization that exists and one that may be founded, two users with a
  session each (or two of one), so that each of two admins can demote the other; one
  invitation of either; three requests, so that two race while a third changes what one of
  them relies on. Requests, users and sessions are symmetric. The proofs lift all of it.
- `api_keys`: two handlers of one server, so that their refreshes overlap with each other
  and with the refresher's, and a server that only refreshes; one key, because refreshes
  replace all.
- `lakehouse`: two processes, because what two operations do to each other is all of the
  concurrency; three batches, one of two files (`RowsPerChunk = 2`), one of one row and one
  that does not parse; three operations, so that a repeated append or a compaction follows two;
  one interruption, which leaves a snapshot without its record or a temporary file behind.
- `definitions`: one slug, so that requests meet on it; two requests and one worker; two
  commits at two times and a window that leaves out the first or the second, either of which
  may precede the definition; a clock of two, for equal and for newer rows; three rows,
  which is a definition, its deletion and one more, or, beside the default of an earlier
  release, a definition and its deletion; one fault.
- `serving_tables`: six events in three files, two of which share a minute, chosen for the
  types, missing values, nested paths and foreign tenants the readers differ in; requests of every
  kind, well formed and not, of which two are accepted; two loads and one backfill, for every
  order of the three. The two namespaces are symmetric.
- `event_queries`: three files with events of equal times, `MaxKvRows = 8` in place of 2048 so
  that one event exceeds it, and lists of three pages, one in the middle with one to each
  side. The definitions are two of one field, one for a field of another name than
  its path, one named like a path it does not read, one with a matcher and one with a default.
  All queries are asked; nine of them are followed as lists, through the promotions of two
  definitions (`FollowedLists`), since the pages depend on a plan only by what it selects.

CHECK_DEADLOCK is off: the bounds on messages, time, operations and faults end each
behaviour.

### Fairness

Weak fairness is assumed of each process' loop as a whole (a process that can take a step
takes one) and of restarts: the containers run with `--restart unless-stopped`
(deploy/pulumi/nanotrace/index.ts:1846), and each loop polls again after an error. It is
never assumed of a call's success: what succeeds in the end does so because the faults are
bounded, and so a liveness property says that the program recovers once the faults stop.
Of the sidecar's tasks, each task and the flush ticker are fair; of the backfill queue,
time (leases lapse); of the alerts, only the notifier, and nothing is assumed of the
worker. Of the key caches, each started request and each refresher
(`spawn_api_key_cache_refresher` ticks for ever). `Accounts`, `LakehouseCatalog`,
`Definitions`, `ServingTables` and `EventQueries` have safety and refinement properties only:
their processes serve requests, and nothing waits on them.
No strong fairness is used.

## 4. The proofs

Eight modules prove, for every value of the constants, any number of partitions, messages,
faults, workers, chunks, (finitely many) executors, organizations, users, sessions, invitations,
requests, tables, commits, batches, definitions, events and rules:

| Module | Theorem | States |
|---|---|---|
| `NormalizerProofs` | `TypeCorrect` | the types |
| | `CacheBacked` | a remembered definition has its row |
| | `TopicsFollow` | alerts and invalid topic follow the durable records |
| | `CommitsAreAccounted` | an offset passes only answered messages |
| | `NormalizerImplementsContract` | every step is a step of `OffsetContract` or a stutter |
| `BackfillQueueProofs` | `TypeCorrect` | the types |
| | `CompletedChunksAreWritten`, `CompletedJobsAreWritten`, `FinishedStaysWritten` | what is reported finished is in the table |
| | `FailuresAreExhausted`, `AttemptsStayBounded`, `RetriesEnd` | a chunk or job fails only after `MaxAttempts` claims, and blind claims exceed them by at most one for each further executor |
| `AccountsProofs` | `TypeCorrect` | the types |
| | `AdminsStay` | members' changes beside each other leave an admin |
| | `AcceptedOnce` | an invitation admits once, the subject it names |
| | `AcceptancesAreTimely` | an acceptance commits for a pending invitation of a live organization |
| `ServingMaterializerProofs` | `TypeCorrect` | the types |
| | `WatermarksAreEarned` | a watermark is a snapshot whose rows the table has |
| | `WatermarksCoverTheLakehouse` | where only the lakehouse is materialized, a table has every commit up to its watermark that no process was told to leave out |
| | `FreshReadsAreComplete` | there, a read that passes the freshness check finds every recorded commit that was not left out |
| | `MaterializerImplementsContract` | every step is a step of `OffsetContract` or a stutter |
| the same, about `ServingTables` | `AcceptedHasRules` | what the server accepts the materializer and the alert worker understand |
| | `BackfillIsLikeTheStream` | whatever other definitions there are and in which order, a backfill by SQL and the materializer derive the same rows of an event both read alike; of a field row that several definitions give, the materializer keeps one |
| | `CurrentFollowsHistory` | the current state of an entity is a newest one of its history |
| `SidecarProofs` | `TypeCorrect` | the types |
| | `AnswersStayTrue` | an accepted event was received, is kept, or its loss was reported or came with an exit; a refused body is not forwarded |
| | `OneOwner` | an event waits in one place in memory only, with a spool only under its claim |
| | `DuplicatesAreCounted` | the ingest API receives an event once and once more for every fault |
| `AlertsProofs` | `TypeCorrect` | the types |
| | `NotificationsFollow` | a notification's alert is recorded |
| | `GivenUpIsExhausted`, `PostsCount` | a failed notification was posted `MaxAttempts` times, and every duplicate post has a fault |
| | `OneAlertPerBucket` | a window that pruning always keeps raises one alert per key and bucket |
| | `AlertsImplementContract` | every step is a step of `OffsetContract` or a stutter |
| `LakehouseCatalogProofs` | `TypeCorrect` | the types |
| | `AcceptedStay` | rows of an answered commit stay readable, always with a REST catalog, and with the local one until two operations overlap |
| | `NoRowTwice` | until then, a batch committed again adds no second copy |
| | `RecordsNameSnapshots` | until then, a commit record names a snapshot of the table |
| | `LakehouseImplementsEventTable` | until then, every step is a step of `EventTable` or a stutter |
| `DefinitionsProofs` | `TypeCorrect` | the types |
| | `DeletedStays` | a deleted definition stays deleted |
| | `WatermarksHold` | what a materialization watermark says stays true |
| | `PromotionsAreComplete` | a query through a proven index finds every event |
| the same, about `EventList` | `PagesFollow` | the pages of a list, loaded one by one or asked for again, are its result, in order, without an event twice and without a hole |

The assumptions are the named `ASSUME`s of the modules: kinds of messages, lines and outputs,
sizes and bounds that are natural numbers, at least one attempt, values that stand for
nothing, finite sets of executors and of partitions. Of data they say what JSON and the code
give: files and the lists of an output are sequences, the data of an event is an object, its
time a natural number (`FilesAssumption`, `ListsAssumption`), numbers have texts of their own
that are no other scalar's (`NumbersAssumption`), a page asks for at least one event
(`RequestsAssumption`, the clamp of `events_query`), and an identifier with a time names one
event (`EventsAssumption`). TLC evaluates them on the instances.

*Normalizer.* That an offset passes only answered messages is not inductive: it rests on
what lies between the committed offset and the worker. The strengthening is `WorkDone`,
what a worker has done by each step for its message, and `FetchedIsAccounted`, every
message behind a fetch position, or behind a message in process, is answered or is the one
in process. The second conjunct survives a rebalance: the former owner's message keeps its
own account, whoever owns the partition. That a settled message stays settled
(`SettledGrows`) is the frame for all steps, since effects are only ever added. The
refinement follows: the commit step is `Contract!Commit` by the same account, and the rest
are `Process` or `Publish`.

*Backfill queue.* A completed chunk is written because `WorkIsDone` ties each executor's
program counter to the parts it has inserted, and the output only grows. A completed job
is harder, because the status is computed in one step and written in another, and what it
was computed from may have changed: `ReportIsTrue` states what a report implies of the
*output* (and of the attempts, for a failed one), which cannot change back, rather than of
the chunk rows, which can. `ClaimsAreCounted` relates the attempt an executor remembers to
the row's. The bound on attempts is a budget argument: a row at `MaxAttempts` or above can
only be claimed by executors that listed it before, each holds it at most once
(`ListedOnce`), and each further claim uses up one of these holders (`AttemptBudget`,
with the finite-set theorems on cardinality).

*Accounts.* `AdminsRemain` rests on what a transaction has checked being true until it
writes (`WritesAreSafe`): its subject is a member and the last admin stays. Another change
of the organization would break that, and the lock excludes it (`OneWriter`). An
acceptance is not excluded: it inserts a row the lock does not cover. `RowWritten` shows
why that is harmless, the row was nobody's before, so no admin is lost by it. That nothing
is written to an organization not founded (`NoMembers`) makes a founding harmless as well.
For invitations, `ClaimsHold` and `OneClaim` say the same of a conditional update: what it
found stays, and it is the only one, until the commit. `Kept` is the frame of all other
actions.

*Serving materializers.* A watermark is earned because `WorkDone` ties a writer's step to the
tables it has written for the snapshot in hand, and rows are only added. That a watermark
covers *every earlier* commit is about order: a pass works through the commits as it listed
them (`PassInOrder`, `WorkInOrder`), leaves out a table only where the watermark it read says
so (`MarksCovered`), and watermarks only grow (`WatermarkCovered`); another writer may have
moved the watermark since it was read, always to a covered commit. `LakehouseOnly` is the
conjunction of these, and it needs that no Tableflow consumer runs beside them, as the
sequence numbers of the two are not comparable. The contract needs what the consumer has
received and answered: `MessageInHand`, `Received`.

*Sidecar.* With a spool, an event of an answered body stays in a file until it is settled
(`Spooled`), and a file is settled only for a batch that was received or given up
(`SettledBatch`). Without one, every submitted event is in exactly one place: the queue, the
batch, the request that is refused, or gone with a reason (`Unspooled`). An exit moves what
is in memory to what was lost; the two halves are kept apart because a sidecar runs with
or without a spool for good.

`OneOwner` is about memory and disk together: `Separate` says that queue, listing, hands and
batch hold different events, `Claims` that what is in memory has its file renamed to
`.inflight` and what is listed has not, `Requests` and `Numbered` that a request in
process, or still to come, brings events nobody has seen, `Alone` what a sidecar
without a spool, or one that is down, does not have. A claim is given up only by the batch that carries it, and then nothing
in memory owns the file. `DuplicatesAreCounted` needs a budget: an event that can still be
posted (`Live`) was received at most once for each fault so far, so the post that follows
is the one that is free.

*Alerts.* `AlertsFirst` and `PostsCounted` extend what is claimed of the rows of the table to
the rows in flight, the batch of the notifier and the message of the worker, since either is
inserted over whatever the table has become. The attempts a row carries never exceed its posts.
That duplicates have faults is again a budget, `PaidFor`: for every notification, what was
received and what may still be received without a further fault, that is whether the worker
may still raise it (`Expected`, `Raising`) and whether the notifier may still post or retry it
(`Posting`, `Retrying`), never exceed one and the faults. A rejoin or a crash pays for
evaluating a message again, a failing post for the retry. `RaisedAreHeld` says why pruning
does not break short windows: an alert raised in the current bucket has its entry in the
dedupe map, and the entry's age is less than the window, which is what `prune_dedupe` keeps
for every rule. The contract rests on `WorkIsDone`: what is behind the process is settled or
skipped, and each match evaluated so far was suppressed or is what the worker is to insert;
`StepKeepsEffects` is the frame, as in the normalizer.

*Lakehouse.* The invariant has three layers. `TypeInv` says what each kind of file and
operation holds. `RestInv` is about the catalog service, which compares before it replaces:
its versions only append to each other, so what an operation once found or put there, and
every answered batch, is in the current one. `SoloInv` is about the local files and holds
until two operations overlap: then at most one operation is under way, what it loaded is
still the published table, and the records on disk name its snapshots except for the last
one while its record is being written. A published version is followed only by one that
extends it (`Contained`), which gives `AcceptedStay` and `NoRowTwice`; `SoloEffects`
classifies every step by what it does to the readable batches, which is the refinement.

*Definitions.* `TableFits` relates rows to identifiers: the identifier of a user's definition
holds the time of its creation, so its live rows all have that time, and the row that deletes
it is no older. A merge that drops superseded rows cannot bring one of them back, and only a
create of the same name that gets the identifier of the same millisecond is as new. For the
indexes, `MarkFits` says
that every mark is true now. A mark can only become false when a commit is served
whose pass did not derive the definition; `PassFits` states that a pass knows all active
definitions but those in `missed`, and `HeldBefore` that a definition that becomes active
during a pass is either new, and then in `missed`, or a twin of one that was deleted, and
then in `missed` as well. `FillFits` is the backfill's half: what it has filled stays filled.
`QueryFits` carries the marks a query has read to its answer.

*Serving tables.* That accepted definitions have rules and that the two fills agree rest on
`AllAccepted`, every stored definition is the record of an accepted request. From it `Sound`
says what validation leaves of expressions, and one lemma for each output target finds its
rule. For the fills, one lemma says that a path read alike gives the same text, number and
truth in both languages, one that a predicate does, and then rows are compared rule by rule:
field rows, measure rows with and without dimensions (`KeptAt`: the cells that have a text,
in the order of the output, are the ones SQL selects), cube points and states. The start of
the bucket is left out, since SQL rounds to five minutes and the materializer to one.

`CurrentFollowsHistory` is about both tables through every order of loads, fills and merges.
`Shape` numbers the rows and keeps times finite; `Told` is the inductive part: every history
row is derived from a stored definition and a loaded event (`Owned`), an insert that has one
row of a key has all of them (`Whole`, so that a merge that keeps one insert of a key loses
no row but copies, `HistoryStays`), what is current is in the history, and every history
row has a current one of its entity that is as new, or is still to be filled by the backfill
between its two inserts. A merge keeps a newest row (`NewestStays`), and a fill takes a newest
one (`LatestThere`). The theorem has a hypothesis, `Consistent`, because without it the code
does not keep the property. The key of the history is the event's identifier and time, without the
value: where two events share both, or where SQL and the materializer read one event's state
differently, a merge of the history drops a row that the current states still show. So
`Consistent` says that the identifiers of loaded events are unique and that the two fills get
the same states from each. Both hold in every state of the run.

*Pages.* The order of times and identifiers is total on the events of a file set, and the place
of an event in it is the number of events before it, so `InOrder` lists a finite set without
gaps or copies. `PageOfResult` says what a page is: events of the result on its side of the cursor,
sorted, and if one of those is missing the page is full and all of it lies nearer to the
cursor. A page below the last one, and one above the first, keeps the pages in order and
leaves no hole for an event that is *owed*: stored when the list was opened and selected under
the catalog of every page. An event that arrived later, or that a newly promoted index tells
otherwise, is not owed.

Only model-checked: the liveness properties (the prover has neither fairness nor ENABLED),
`FunnelsAreExact` (a fold over the events of an entity), `FiltersMeanTheirFacets` and
`GroupsListTheirEvents` (recursion over JSON trees): what these functions compute for every
input needs induction over data, which the prover cannot instantiate. Every other safety
property of the runs is a theorem.

## 5. What is not modelled

- SDK clients: the queue of one process in front of the API, with a timer and a list of errors,
  without retries or storage. What outlives a process is the sidecar's.
- Ingest API: routing, authorization headers, body limits and metrics.
- Read API: reads of measures, reports, cohorts, retention and metrics, trace trees, overviews,
  the HTTP service.
- Serving materializers: the truncating refill (`NANOTRACE_REBUILD_TRUNCATE`, after which
  watermarks stay and reads find the empty tables fresh), the once mode, the maintenance
  commands.
- Lakehouse: expiry of snapshots and removal of orphan files, the bytes of Parquet and Avro,
  object stores.
- Alerts: the refresh of the rules while the worker runs, and the evaluation of a matcher on
  an event. One alert that does not parse stops the refresh for every tenant:
  `AlertRules!LoadAlertRules` does so, and `AcceptedIsUnderstood` names the only way the server
  lets one in.
- Definitions: listing, the report of the latest backfills, error texts.
- Definition rows in `Normalizer` are a set of keys; versions and `enabled` are in
  `Definitions`.
- Accounts: magic links, OAuth states, names and slugs, scopes, audit rows, the users'
  rows. Two logins of a new user at once may found two organizations, and the last of two
  overlapping refreshes may serve an archived organization's key until the next; the
  modules have both behaviours, and no property excludes them.
- Kafka, ClickHouse, Postgres, the REST catalog, webhooks and the remote ingest API are
  external and modelled from how the code uses them: durable appends, statements that take
  effect at once or fail with or without effect, posts that may be received without an answer.
- The load test and the deployment keep no state the pipeline relies on; the rest of the UI
  presents query results.
- Payload bytes, SQL text, metrics and logging.

## 6. What is left

In the order of what it would add: `LakehouseCatalog` with the expiry of snapshots; reads of
measures and metrics against the rollups of `ServingTables`; the refresh of the alert rules in
`Alerts`; a composition of `Normalizer`, the Tableflow writer and `Alerts` over shared topics,
which `TopicsFollowDurableRecords` and the contract now stand for.
