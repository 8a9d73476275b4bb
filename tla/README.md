# Verification of domain-graph

This directory holds a TLA+ development of the Python package `domain_graph`: specifications of its
stateful components, TLC configurations that check them on small instances, and proofs checked by
TLAPS. Names of operators follow the names in the code; `PROJECT.json` gives, for every definition,
the lines it models.

- Parse: `tlasany M.tla`; check: `tlc -config X.cfg M`; prove: `tlapm M.tla`.
- A definition `X_Y` (`Rollback_NodesOnly`, `Limit_SubjectOnly`, ...) is `X` with the bug `Y`. No
  specification uses one. Each property of a passing run names such a bug, in `PROJECT.json`
  under `mutants`, that the run finds when the bug replaces the definition.

## 1. The system

domain-graph keeps a graph of records (requirements, designs, code, issues, commits) and typed
relations between them, each with its provenance and approval status. It has three entrances:
imports write the graph, queries of people and agents read it, checks of pull requests read it too.

```
 input files, issue tracker                  GitHub sync job
        | load_inputs()                             | publish()
        |                                  SYNC-* directories
        |                                           | load_github_snapshots()
        +------------------+------------------------+
                           | records
                    normalize_inputs()
                           |
           InMemoryGraph.ingest() | Neo4jStore.ingest()
                           |
        +------------------+-----------------------------+
 query repository                              consistency repository
        |                                                |
 QueryService.trace()                         ConsistencyService.check()
        |                                                |
 GraphQueryApi, McpToolService.call()            report of a pull request
        |
 audit sinks                    operations: migrations, shutdown, secrets, health
```

| Component | State | Operations | Module |
| --- | --- | --- | --- |
| `normalize_inputs` and the promise of a store | none / the graph | `ingest` | `EvidenceGraph` |
| `InMemoryGraph` (`ingest.py`) | `nodes`, `edges` | `ingest`; `trace` in `TraceQuery` | `InMemoryGraph` |
| `Neo4jStore` (`neo4j_store.py`, `neo4j_statements`) | the database | `ingest` | `Neo4jStore` |
| `AtomicSnapshotPublisher` (`github_sync.py`), loader (`github_import.py`) | directories | `publish`, `load_github_snapshots` | `SnapshotPublisher`, `Imports` |
| `load_inputs`, `load_issue_trackers`, `load_github_snapshots` | the files | the three loads, each followed by `ingest` | `Imports` |
| `QueryService`, page tokens, `InMemoryQueryRepository` | none of its own; the cursor is in the token | `trace` | `TraceQuery` |
| `query.trace` of the demo, `Neo4jQueryRepository.paths` | none | what they find in the same graph | `TraceQuery` (of the second, the search only) |
| `McpToolService`, `Authenticator`, `RateLimiter`, audit | the limiter's queues, the sinks | `call` | `AgentAccess` |
| `GraphQueryApi` (`api.py`) | none | `handle` | `AgentAccess` |
| `ConsistencyService`, its two repositories, audit | none; the baseline is the caller's | `check` | `Consistency` |
| `MigrationRunner`, `GracefulShutdown` (`operations.py`) | `history`, `started`, the store's connection | `run`, `shutdown` | `MigrationRunner`, `Operations` |
| `classify_response` and the sync audit, `mcp_server.py`, `pr_review_report.py`, `HealthState`, secrets, backup catalogue, `src/*.ts`, `deploy/validate_manifest.py` | none | translation, validation | not modelled (section 5) |

The behaviours that are hard to test, each listed in `PROJECT.json` under `hazards` with its line:

- **partial failure**: an `ingest()` or an audit that fails between two of its writes;
- **stale checks**: `Neo4jStore` compares with what is committed and writes later; a token is
  checked before the limiter and the query; a destination directory is tested before the rename;
- **interleaving**: imports that share the database, sync jobs that share a sync id, agent calls
  that share the limiter, threads that shut one process down;
- **retries and crashes**: the driver runs `work()` again; a job dies between file and rename, or
  between `apply()` and the record of a migration, or with the files it has read;
- **audit that fails**: an event is stored but not acknowledged, the sink times out, or the event of a
  failure fails too;
- **what one part accepts and the next refuses**: `publish()` lets values through at which the loader
  raises; a service without a page secret ends a reading with a page that is truncated;
- **files that change under the import**: a manifest and its exported file replaced one after the
  other, documents that an export refers to and that come later, syncs that refer to older ones;
- **long sequences**: pages of one reading with batches in between; reports, baselines and a
  growing graph; releases of migrations.

## 2. The modules

`EvidenceGraph` is the abstract store. `InMemoryGraph` and `Neo4jStore` extend its definitions of
batches and are shown to implement its `Spec`. `TraceQuery` and `Consistency` compose it with a
reader, and `Imports` with the files that feed it: they extend it too, and their graph changes by
its `Accept` steps only, which the refinement justifies (a call of either store is, to a reader
between calls, one `Accept` or nothing). `Operations` composes `MigrationRunner` with the shutdown of
its process. `SnapshotPublisher` and `AgentAccess` stand alone.

### EvidenceGraph

A batch is a *set* of records: a repeated equal record changes nothing, and the order of the list
decides only which of several errors is reported. `Node` and `Edge` stand for what
`normalize_inputs()` makes of a record and a relation. `SelfConflicting`, `IdsOf`, `KeysOf`, `NodeOf`
and `EdgeOf` are `normalize_inputs()`. `Accept` and `Reject` are the two ways in which an `ingest()`
ends; `accepted` is a history variable.

### InMemoryGraph

`ingest()` step by step: `IngestBegin` (copies taken), `PutNode`/`RefuseNode` and
`PutEdge`/`RefuseEdge` for each turn of the two loops, `Rollback` for the `except` clause,
`IngestReturn`. `pc`, `batch`, `todo_*` and `old_*` are the locals of the call. One call runs at a
time: the class has no lock and the repository uses it from one thread.

### Neo4jStore

Several workers run `ingest()` on one database. A call is a transaction in phases: check nodes,
check edges, write nodes, write edges, count targets, commit. `new_nodes`/`new_edges` are the writes
of an open transaction, which are also its locks. `MergedNode` is the `CASE` logic of the `MERGE`
statement of a node, field by field; `StoredEdge` what `payload.update()` sends for a relation.
`Interrupt` is a transient error or a lost deadlock: the driver starts `work()` again, at most
`MaxAttempts` times. `Crash` is the death of a process.

*External, assumed of Neo4j and its driver:* read committed; a `MERGE ... SET` statement is atomic
and locks what it wrote until its transaction ends; the unique constraints exist; a rollback undoes
everything; `execute_write()` retries transient errors; a deadlock is detected and one of its
transactions interrupted. The `CREATE CONSTRAINT` statements that `neo4j_statements()` puts in front
of the `MERGE` statements are taken as no-ops: a server that refuses schema and data changes in one
transaction would refuse every call.

The refinement looks at what the check of a node compares (`Compared`) and leaves the provenance of
nodes out: a second document with the same record is accepted and replaces where the record is said
to come from, which the abstract store would refuse. It holds under two conditions that name what the
code does not do: `OneWriter` (with two, a check can be stale) and `PlainBatches`: a relation is as
certain as its provenance (else the store keeps another confidence than it was given), no batch holds
one record from two documents, and all records of an id have the optional fields or none has (else
a field that nobody repeats stays, unseen by the check).

The shape of what is stored is stated too: `Mixed` is a node whose optional field and provenance may
be of other batches, `Stored` an edge as `neo4j_statements()` flattens it. `InferenceAssumption` says
of the input what `_validate()` enforces and `NoInferenceApproved` proves of the loaders: an inferred
node is only proposed. `SentinelAssumption` keeps `Absent` out of all of these.

### SnapshotPublisher

`publish()` from the test of the destination to the `fsync` of the parent, one action per call of
the file system, for several jobs; `Fail` may strike before any of them and undoes nothing, as the
`except` clause says. The loader reads manifest and snapshot of each directory in separate steps.
A snapshot stands for its digest. `publish()` looks at the ids, the URL, the approval, the keys of the
payload and its titles, and at nothing else; the loader is stricter. `Fields` are the `retrieved_at` and
`sync_mode` that are given, `ValidFields` those that the loader takes, and `ValidSnapshot` the payloads
whose states, dates, URLs, SHAs and references it takes; the others are published too, and
`LoadManifest` and `LoadSnapshot` fail at them. *External:* `rename()` is atomic, and fails on a
directory that is not empty.

### Imports

The three loaders, the files they read and the job that gives what they return to `ingest()`.
`documents`, `manifests`, `originals` and `published` are the directories: people write a document over
an older one, and a manifest and its exported file in two steps; syncs are published in the order of
their ids. `Load(l)` reads a whole directory into `loaded`, or `Refuse(l)` raises for one bad file;
`Ingest` hands `loaded` over, and files may have changed in between. A manifest and its original are read at
one moment, though the code opens one after the other: were they replaced in between, the digest refuses
them, or they are the pair that the manifest was written for. `Valid` is the approval logic of
`_validate()`: defaults, the legacy `approved` field, what a relation takes from its record, and that an
inference is proposed. `ExportSound` and `ExportRecords` are `load_issue_tracker()`, with `digest =
m.digest` for the comparison of `sourceRevision`; `SnapshotSound` and `SnapshotRecords` are
`load_github_snapshot()`: which links become relations, with which ids (`CommitId` is the cut to sixteen
digits) and which provenance. `wellFormed` is every check of a format; `content` the title, type and
attributes. `Crash` is the death of the job between load and `ingest()`. *External:* the people, and a
job that runs one import at a time. It does not import GitHub snapshots before there is one. Of its
constants the module assumes that a document lies in one of the four directories
(`DirectoryAssumption`), that digests name files (`RowsAssumption`) and that `Batch` contains what the
loaders return (`LoaderAssumption`). `load_github_snapshot()` of a single directory is the body of the
loop over a root and has no action of its own: with it the run takes five minutes.

### TraceQuery

One action per outcome of `trace()`, in the order of the code: forbidden, invalid token, not registered,
over the limit, or a page (`Deliver`). `Walks` is the queue of the breadth-first search of `paths()`:
simple paths, cut at the target and at the depth; `Longer` is one more hop of it. There are finitely many
ids and keys (`GraphAssumption`), so that a page, cut from the sorted keys, exists and the demo's search
ends; `Absent` is no id. `Rank` stands for the order of the key strings. A client starts a reading,
follows its own token, or offers one that is another's, or its own with another request (`Borrow`).
`secret` says whether the service was made with a page secret, which the constructor defaults to `None`
(`tests/test_mcp.py:29` makes it so): without one no page has a token, `truncated` says that a page was
full, and what lies beyond it cannot be reached. The variables `asked`, `wanted`, `pages`, `cursor` and
`truncated` are the client's and a history of what it saw. A signature cannot be forged: tokens in the
model are those the service signed. A forged one fails like an expired one. `Fault` is an expired
principal or a repository that raises.

Three parts of the repository search one graph for paths: `QueryService` over
`InMemoryQueryRepository` (`Relations`), the demo (`Found` is `InMemoryGraph.trace()`, `DemoStatus` is
`query.trace()`) and the Cypher of `Neo4jQueryRepository` (`Rows`: paths that may visit a record twice,
but use no relation twice, and whose records must be approved too). `Around` and `LongerRows` are one
round of the last two. `BackendsAgree` compares what they say in every reachable graph, asked for all
approved paths between two records (`Between`).

### AgentAccess

The two doors to the query service. `call()` of the MCP service in the steps between which other calls,
the clock and the audit sink can move: authenticate, admit (parse, scope, limiter), read, audit of the
query service, audit of the call. `handle()` of the HTTP API: parse, read, audit of the query service;
its middleware has authenticated the caller and there is no limiter. What the query finds is left open,
because `TraceQuery` says it. `limited` (the calls that came to the limiter and what it said), `readAt`
and `log` are history variables. `RateLimiter.allow()` is one step; `Popped` is how often its loop calls
`popleft()`, and what remains is a tail of the queue. The clock is discrete, and a window has some
length. A bearer is what the verifier says of a token: whether it is sound, its tenant, its scopes,
whether its projects lie within the deployment policy (`inPolicy`), its expiry. *External:* the verifier
of tokens, the middleware, and the sink, which is there or not; while it is not, it may store an event and
raise all the same, and what it raises is a `TimeoutError` or something else (`TraceAudit`) and may be a
`ValueError`, which `handle()` takes for a bad request (`Escaped`).

### Consistency

`Findings(scope)` is `_rules()` on `snapshot(scope)`, `Diffed` is `_diff()`, `Report` is `check()` with
its early returns and its limit. `Outcomes` adds what a repository that raises gives, and what the same
request comes to over `Neo4jConsistencyRepository` (`Neo4jReport`). `Ending` is the rest of `check()`: the
audit of a report inside the `try`, and the audit of a failure in the `finally` clause. A sink stores an
event, raises, or does both (`Sink`); when it raises a `TimeoutError` over a report, the check fails with
`query_timeout`, else with `service_unavailable` (`Code`). `Check` is one call; `CheckAndKeep` is a CI job
that keeps the report it gets for the next comparison. `base` is the base revision of a request, which is
part of every fingerprint.

A record has a kind and one of three qualities: complete and approved, approved with incomplete
provenance, proposed. `conflicting_evidence` needs two relations with one key, which this graph
cannot hold, and `relation_direction_or_type_conflict` is never emitted by the code.

### MigrationRunner and Operations

`MigrationRunner` is `run()` as a job that may die between any two steps and is run again, with a
release that keeps all earlier migrations and may add lower ones. *External:* the host passes the
history on and runs one job at a time; `sound` says for which versions the last `apply()` was verified,
and the history variable `attempts` lists every call of `apply()` with its run, the release of that run
and whether the version was recorded then. `InOrderAndOnce` is about pairs of these calls, of one
run or of two with crashes and larger releases between them.

`Operations` puts the job into a process with `GracefulShutdown`: any number of threads (or signal
handlers) go through `shutdown()` one statement at a time, so that two can pass the test of `started`
before one sets it, and each callback may raise. `close()` closes the store, after which `apply()`
and `verify()` can only fail. `NewProcess` is the end of a process at any moment, and the next one.

## 3. What the runs check

### Passing runs

| Run | States | What it shows |
| --- | --- | --- |
| `in_memory` | 9,777 | `Progress`, `NeverDangling`, `ImplementsEvidenceGraph` |
| `neo4j_writers` | 209,576 | `OnlyCommittedContent`, `CommittedIdsPresent`, `AgreeingBatchesHold`, `ApprovedNeverDemoted`, `CallsEnd` |
| `neo4j_one_writer` | 4,014 | `ImplementsEvidenceGraph` |
| `publisher` | 2,144,614 | `OnlyWholeVisible`, `WriteOnce`, `LoaderConsistent`, `SuccessMeansPublished` |
| `imports` | 28,112 | `InferredStaysProposed`, `ManifestVouches`, `SyncsSelfContained`, `Converges` |
| `trace` | 37,893 | `PagesComplete`, `PagesInOrder`, `PagesEntitled`, `BackendsAgree`, `PagingEnds` |
| `access` | 5,282,474 | `LimitsAsConfigured`, `ReadsAreEntitled`, `AnswersAreAudited` |
| `consistency` | 9,884 | `ChecksMissNothing`, `OldFindingsStayOld`, `ReportsAreAudited`, `EvidenceDecides` |
| `migrations` | 944,676 | `RecordedIsVerified`, `InOrderAndOnce`, `ShutdownCompletes`, of `Operations` |

Each run also checks the type invariant of its module (`neo4j_one_writer` leaves that to
`neo4j_writers`). Deadlock is checked everywhere.

### Bounds, and why they are enough

- `in_memory`: three ids, all batches of one or two of five records. They include a batch that
  contradicts itself, one that contradicts an earlier one in a node and in a relation, a relation
  whose target is missing, in the batch, or in an earlier batch, and failures after some writes.
- `neo4j_writers`: two workers, two ids, two attempts. Two transactions are what a stale check, a
  lock conflict and a deadlock take; a third adds only longer waits. `neo4j_one_writer` has one
  worker and a record that two documents bring, without the optional field in either (`PlainBatches`).
- `publisher`: two jobs on one sync id: directories of different ids do not touch each other. Two
  payloads, two approvals and two choices of the fields that `publish()` does not look at give equal
  payloads, different ones, and equal ones with different manifests; the loader refuses one of the
  payloads and one choice of fields. `Job`, `Snapshot` and the rest are not bounded otherwise; the model is finite.
- `imports`: a requirement, a design whose inferred relation is wrongly approved and can be corrected,
  an export of one issue in two versions (other rows, another approval), and three syncs: the second
  has a commit whose parent only the first holds, the third repeats that parent, so that the
  directory can no longer be imported. Twelve ids. All snapshots are well formed; a bad one would
  keep the directory out of the graph like the third one does.
- `trace`: three records in four batches, one of which only proposes a record that an approved
  relation leads through; up to four relations, pages of one and two, a limit of three so that it is
  exceeded. `MaxTime = 2` and `TokenLife = 1`: a token is used at once, at its last moment, and
  too late; `MaxReadings = 1` gives each of the two clients one reading. The service has a page secret
  in one half of the initial states and none in the other.
- `access`: ten requests at the two doors, two calls at once, three in all (`MaxCalls`), caps of one
  per subject and tool and two per tenant, `Window = 2` on a clock up to `MaxTime = 2`: three queues of
  subjects and tools can be within their caps and exceed the tenant's together, and a window passes. One
  bearer's token expires on the way, one is of another tenant, and one is for a project outside the policy.
- `consistency`: three records of three kinds in ten batches, requests of the whole graph against
  two bases and of two scopes, `MaxFindings = 3`, which is exceeded.
- `migrations`: three versions, releases of any shape, `MaxRuns = 4` runs, two threads: two are
  what a race for `started` takes, and in four runs a release fails, is completed, gets a lower version
  and is run once more.

No symmetry is used: the liveness properties rule it out, and the state spaces are small.

### Fairness

- `Neo4jStore`: strong fairness of each worker's own steps, because a lock is given to a waiting
  transaction in turn, and weak fairness of the interruption of a worker that is in a deadlock,
  because the database detects it. No fairness makes a transient error or a crash happen.
- `Imports`: weak fairness of `Ingest \/ Crash`, which end a started import one way or the other, and
  strong fairness of `Load(l)` and `IngestOf(l)` for each loader: whoever runs the import job starts
  each of the three again and again, and it does not die each time. People and syncs are not fair;
  `Converges` is about files that agree from some moment on.
- `Operations`: weak fairness of a thread inside `shutdown()`: its steps wait for nothing, because the
  callbacks return or raise. Nothing makes anyone call `shutdown()`, and the job is not fair.
- `TraceQuery`: weak fairness of `Follow`, a client that keeps asking. `PagingEnds` is about such a
  client; it also says when a reading may end otherwise.

The other modules state safety only and assume no fairness.

### Where the code and its documents disagree

Each of these runs checks one statement and finds it violated; `PROJECT.json` quotes the statement.

| Run | Statement | What happens |
| --- | --- | --- |
| `neo4j_reingest` | the same input can be processed again (README, policy 4) | a relation less certain than its provenance is stored with the provenance's confidence and then refused for ever |
| `neo4j_contested` | an AI inference never replaces what a human approved (issue-7) | two imports that both found no relation: the second `MERGE` overwrites the first |
| `neo4j_omitted` | no relation is silently omitted (comment in `neo4j_store.py`) | the target is committed between the `MERGE` of the relation and the count of targets |

What else was met while modelling, and is modelled as the code does it, without a run of its own:

- The provenance of a node is not compared by `Neo4jStore` (it is nested under `provenance`), so a
  second document with the same record replaces it. Optional fields that a record lacks are not
  compared either.
- After a stale check a node can keep the title of one batch and get the provenance of another.
- A last page that is exactly full carries a token; the page after it is empty, and with a target
  it says `evidence_insufficient`.
- A scoped consistency check does not see implementers outside its scope, and may report a
  requirement that the whole graph clears. Findings about two relations of one owner share a
  fingerprint. A scope of records that are only proposed is `not_registered` unless candidates are
  asked for. When the base revision moves, every finding of the baseline is open again.
- An event of success can stand beside a check, or a call, that failed: the sink stored it and raised.
  `failure_threshold` of a consistency request is parsed and then used by nothing,
  and the search of up to six hops for an implementation (issue-3:54) does not exist: the rules look at the
  relations of a record itself.
- `Neo4jConsistencyRepository` never lets a check come to `ok`: without a tenant it is forbidden, it has
  no `exists()` for a scope, and without a scope it selects no records. Its list of relations is always
  empty.
- Refused calls count in the limiter, so a client that keeps retrying stays refused; the token bucket of
  issue-4:147-149 would refill meanwhile. The half of `LimitsAsConfigured` that is about refusals says what
  the code does. `ReadsAreEntitled` takes any earlier pass of the same caller for the limiter's consent.
  `get_provenance` does not look at the expiry of the token again, so `ReadsAreEntitled` asks that
  of traces only. `invalid_page_token` reaches an agent as `service_unavailable`, and so do arguments
  of a nested type that is not expected, which HTTP calls `invalid_request`.
- HTTP requests that are refused before `trace()` leave no event (issue-9:269 wants the audit of errors),
  and when the sink is away an HTTP caller gets `internal_error`, or `invalid_request` if the sink raised
  a `ValueError`, in place of `service_unavailable`. The queues of the limiter are never emptied of
  subjects that stay away.
- `publish()` compares payloads only: publishing the same payload as `approved` leaves a `proposed`
  manifest in place and returns as usual. A job that loses the race to an equal payload gets an
  `OSError`; one that fails in the last `fsync` raises although it has published.
- `publish()` does not look at `retrieved_at`, `sync_mode` or the values of a snapshot's fields. A directory
  with one that the loader refuses is published whole, every load of the root fails from then on, and
  a retry with the right `retrieved_at` returns as if it had worked. `LoaderConsistent` says that a
  load fails for this reason only.
- A `QueryService` without a page secret answers a reading that is longer than a page with `truncated` and no
  token. The relations beyond are lost to the client: `PagesComplete` excuses exactly such readings.
- `InMemoryQueryRepository.paths()` tests the approval of relations only, and leads through records
  that are merely proposed; issue-9:254-255 and the Cypher of the Neo4j repository test the records too.
- Two syncs that hold the same issue, pull request or commit have different provenance for it, so
  that one root with both is refused for ever (issue-6:143-147 asks for the refusal). An edited document
  is refused for ever too, once the earlier text is in the graph.
- A document and an export that refer to each other are two batches, and neither can get in first. An
  assignee who is also a requirement makes two relations with one key, and the export is refused.
- Rows of `Neo4jQueryRepository.paths()` are paths, but `QueryService` reads them as relations: their
  keys are all `None|None|None`, their relations null, and the second page is empty. `BackendsAgree`
  therefore compares whether there is evidence, not the relations. A search for a record from itself
  is left out too: the demo says `ok`, the service `evidence_insufficient`; and without a target the
  service says `ok` where the demo wants a relation.
- A second `shutdown()` returns while the first is still closing, and two threads that meet at the test
  of `started` both call the callbacks. When `stop_accepting()` raises, nothing ever closes the store;
  `ShutdownCompletes` leaves such a process out.

## 4. What is proved

Every type invariant and every safety property that a passing run checks is a theorem, and so are both
refinements and all action properties. Two theorems have hypotheses on the constants, which the code
does not ensure and the runs meet: `OneWriterImplements` and `BackendsAgreeWithinDepth`.

`EvidenceGraphProofs` and `InMemoryProofs` hold for every set of ids, relation types, nodes,
edges and batches. The assumptions are `AbsentAssumption` (the sentinel is no node and no edge) and
`BatchAssumption` (batches are sets of records). Finiteness is assumed where queries need it, of ids and keys.

`EvidenceGraphProofs`:

- `TypeCorrect`: `TypeOK`.
- `RegisteredForever`: `NothingOverwritten`, from the guards of `Accept`.
- `NoDanglingRelation`: `EndpointsRegistered`; a relation gets its ends with its batch or found them.
- `AcceptedForever`: `AcceptedBatchesHold`, by induction with `RegisteredForever`'s step lemma
  `StepKeeps`: what a batch stored is registered, and what is registered does not change.

`InMemoryProofs`, of the store:

- `InMemoryInvariant`: `InMemoryTypeOK /\ Progress` is inductive. `Progress` is the strengthening
  that everything else needs: it says that the dictionaries are the copies `old_nodes`/`old_edges`
  overwritten by what the loops have passed, that the passed entries did not clash, and that between
  calls copies and dictionaries agree. Without it, nothing relates the restored copies to the graph.
- `Refinement`: `InMemorySpec => ImplementsEvidenceGraph`, with `old_nodes`/`old_edges` for the
  abstract graph. Only `IngestUnsound`, `Rollback` and `IngestReturn` are abstract steps; every other
  action stutters. The lemma `SameOperators` carries the operators on batches across the instance.
- `InMemoryTypeCorrect`: its first conjunct.
- `BatchesHold`: `TakenBatchesHold` (what a returned call stored is still there), by the refinement from
  `AcceptedForever`. No run checks it beside the refinement that implies it.
- `AlwaysAnchored`: `NeverDangling` in every intermediate state, from the invariant of the abstract
  store for the copies and from `Progress` for what the running call has added.

`InMemoryProofs`, of the queries (`TraceSpec`), for any clients, requests, page sizes, limits and clocks:

- `TraceTypeCorrect`, `NoRelationLost`, `NoRelationTwice`, `DeliveredIsEntitled`: `TraceTypeOK`,
  `PagesComplete`, `PagesInOrder`, `PagesEntitled`. None of the three is inductive: what the next page
  will hold depends on the token the client has in hand. `Reading(c)` is what ties them together: the
  token is the client's own and for the request it is reading, everything delivered is not above its key,
  everything wanted that is not above its key is delivered, and both are still on the paths of the present
  graph. `PageOfRest` says what a page is: at most so many, above the token, and with nothing left out
  below its last key; `TokenOfPage` that a token names that key, and that there is none only when nothing
  is left, or when the page is full and the service has no page secret. `RelationsStay` is the step of the
  graph: a batch takes no relation off a path (`WalksGrow`, with the store's `StepKeeps`).
- `GraphUnderneath`: the service with all its clients implements `EvidenceGraph`; queries write nothing.
- `NoEndlessReading`: a reading has at most one page more than relations delivered, and no more of these
  than `RelationLimit`. `Short`, another part of the invariant, says that no page but the last is empty;
  `KeysCounted` counts pages that are disjoint because they are in order.
- `Walks` is recursive. `SearchExists` and `WalksSearched` give it its defining equations: the search to each
  depth exists, by induction on the depth. The lemmas above then use those equations. The induction is
  the first-order `LeastNumber`: a set of numbers has a least one.
- `NoBackendInvents`: in graphs of any size, where the service finds a path between two records the demo
  does too, and where Neo4j finds one the service does. `OnlyDepthDiffers`: the service reports evidence
  exactly if the demo does and the two records are at most six hops apart (`Near`).
  `BackendsAgreeWithinDepth`: `BackendsAgree`, *if* there are at most seven records; with eight in a row the
  demo, which has no depth, and the service differ. What connects the three searches is the distance: the
  records that `Around` adds in its n-th round. `WalkFound` finds a walk of the service to each of them, one
  that visits no record twice because its records lie at different distances; `WalksReach` and `RowsReach`
  say that no walk of n hops gets farther than n rounds; `WalksAreRows` that a walk of the service is one of
  Neo4j; and what is reached at all is reached in fewer hops than there are records (`ReachedWithin`: the
  walk that `WalkFound` finds has one record more than hops). `AroundExists` and `RowsExist` give the other
  two recursive functions their equations, as above.

`Neo4jStoreProofs` holds for any processes, attempts, ids, records and batches, under the assumptions of
the module and the two above:

- `Neo4jInvariant`: `IInv` is inductive. Of each open transaction it says what it has written
  (`Written`): not only what the `MERGE` gave at its time but what it *would give now*. That is so because
  the lock keeps others from committing to the entry (`LockedOnce`: no entry is written by two), and it
  is why a stale check does no more harm than it does. `Passed` says what the loops are through with: of
  the relations only those whose target is in the batch are sure to be written.
- `Neo4jTypeCorrect`, `ContentIsCommitted`, `CommittedStayPresent`, `AgreementHolds`: `Neo4jTypeOK`,
  `OnlyCommittedContent`, `CommittedIdsPresent`, `AgreeingBatchesHold`. `OnlyCommits` reduces each to
  `Commit`, and `CommitLeaves` says what a commit leaves of each entry. For agreement, the content
  that a commit merges into is that of an agreeing batch by `ContentIsCommitted`.
- `ApprovalStands`: `ApprovedNeverDemoted`. The `CASE` expressions look at the node as it is when they
  write it (`MergeKeepsApproval`), and `Written` carries that to the commit.
- `OneWriterImplements`: `ImplementsEvidenceGraph`, *if* `OneWriter` and `PlainBatches` hold; both are
  hypotheses of the theorem and not assumptions of the module. `Alone` adds to the invariant that what
  the checks found is so until the commit and that a relation is missing only if its target is,
  `FieldsKept` that the optional field of a node is there when it is in its records. `Commit` is
  `Accept`, the refusals are `Reject`, everything else stutters.
- Where the three statements of section 3 that the code does not keep hold after all:
  `CertainBatchesReingest` (`Reingestible`, if every relation is as certain as its provenance, with any
  number of processes), `OneWriterOmitsNothing` and `OneWriterKeepsApproved` (`NoRelationOmitted` and
  `ApprovedRelationKept`, under `OneWriter` and `PlainBatches`; the last also wants inferred relations
  to be proposed only, as `_validate()` does). The violating runs show the uncertain relation and the
  second process that break them.
- What `CallsEnd` rests on. `NoStallUnbroken`: who must wait, waits for a transaction under way, and when all
  must wait they form a deadlock, which the database breaks. `CallsOnlyGoOnward`: a step of a call ends it, uses
  one of its attempts, goes to a later phase or leaves one entry less to do, and nobody else's step takes
  it back.

`ImportsProofs` holds for any documents, exports, rows and snapshots, under the same assumptions and
those of `Imports`:

- `NoInferenceApproved`: `InferredStaysProposed`. The property is not inductive, because `Ingest` takes
  its facts from `loaded`; `Inductive` adds that the loaded records are admissible and that published
  syncs are syncs. `LoadersAdmissible` shows it of each loader (for documents from `Valid`, for the
  others because nothing they make is an inference), `AcceptKeepsAdmissible` of the graph.
- `ImportInvariant`, with `ImportTypeCorrect`, `ManifestsVouch`, `SyncsAreSelfContained` as its parts:
  `ImportTypeOK`, `ManifestVouches`, `SyncsSelfContained`. The strengthening is again about the records
  that are loaded and not yet in the graph: `Vouched` (a manifest that named the file was there when it was
  read) and `SelfContained` (the relations of a sync are between its own records), shown of each
  loader. `SyncsSelfContained` needs two more facts: `SyncsKeyed`, that the relation it looks for has a
  key, and `EndpointsRegistered` of the store.
- `ImportsOnlyIngest`: apart from the errors of the loaders the imports implement `EvidenceGraph`, and so
  `ImportsOverwriteNothing`: `NothingOverwritten`.
- `AgreedFilesGetIn`, what `Converges` rests on: while the files agree and nobody touches them, what they say
  stays in the graph, and their import is not refused, that of the exports once the documents are in.
  `AgreedNotRejected` is about any batch that agrees with itself and the graph; `AgreedTargets` says where the
  relations of each loader lead: `SyncsLeadToSyncs`, and for an export that is there to its own document, because
  each manifest lies in the directory of its export (`ManifestsFiled`).

`OperationsProofs` holds for any set of versions, any number of runs and any threads:

- `ShutdownKeepsRunner`: `OperationsSpec => Spec` of `MigrationRunner`: with shutdowns and restarts the
  job does nothing that it could not do alone. The safety of the runner therefore carries over.
- `OperationsTypeCorrect`, `RecordsAreVerified`: `OperationsTypeOK`, `RecordedIsVerified`. `Inductive` adds
  that what is about to be recorded was verified and belongs to the release, which a job that dies between
  the steps leaves true.
- `AppliedInOrderAndOnce`: `InOrderAndOnce`, over all calls of `apply()` in all runs (`RunnerInvariant`). The
  strengthening `Orderly` ties the list of calls to the state of the job. `Known` says of each call what no later
  run takes back: the versions below it in its release are on record, it is too if it is marked so, its
  release is part of the present one, and in the present run only the last may be without its mark. That
  last one is the migration under way (`UnderWay`). `OrderKept` covers the steps that call nothing, crashes
  and larger releases among them; `AttemptAdded` and `AttemptMarked` say what `apply()` and the record do
  to the list.
- `NoShutdownStranded`, what `ShutdownCompletes` rests on: a shutdown that has begun is done, has raised, or is
  in the hands of a thread between the callbacks, whichever other threads found the flag set and returned.

`SnapshotPublisherProofs` holds for any jobs, sync ids, payloads and approvals, as long as `Absent` is
none of the things it stands beside (`AbsentAssumption`):

- `PublisherTypeCorrect`, `PublishedWhole`, `PublishedOnce`, `LoaderFailsOnlyAtUnchecked`, `SuccessIsTrue`:
  all the properties of the run. `Inductive` adds how far each job has got in terms of its arguments
  (`JobsPrepared`) and that what the loader has found is still there (`LoaderInformed`): so a directory at
  which it failed was whole, and it failed at the fields or values that `publish()` let through. The argument is
  `RenameStays`: a directory that `rename()` could replace is empty, no visible directory is, so a
  published one stays. `OthersKeep` and `LoaderKeeps` then say that whoever does not move keeps its facts.

`AgentAccessProofs` holds for any clients, tokens, contents, requests, caps and any concurrent calls:

- `EveryReadEntitled`: `ReadsAreEntitled`. `ReadInvariant` says of each call what its earlier steps have
  checked by the time it is at a step (`Checked`): the token and its scopes, the tenant, the limiter's
  verdict. `OneCallMoves` and `OthersUntouched` reduce a step to the call that takes it: calls share the
  clock and the limiter only, and its log of verdicts grows.
- `EveryAnswerAudited`: `AnswersAreAudited`, from `AuditInvariant`: which events of a call are stored
  at each of its steps. `Sending` is the step before the event of `trace()`, where an event of success may be
  stored already, but only if the sink raised and the outcome is an error by now.
- `WindowsHold`: `LimitsAsConfigured`, for any caps, any window and any clock. The log of verdicts and
  the queues count the same calls: `Counted` says that they do now *and at every later time*, because
  events leave the queue and calls leave the window together. It needs the order of each queue
  (`InOrder`), which makes what `popleft()` leaves (`Popped`) the events of the window, and `Numbered`,
  that calls are numbered as they come to the limiter, each at most once. `PoppedUntil` shows by
  `LeastNumber` that the loop stops where `Popped` says, `FreshCounted` that a queue's length is the
  number of its events in the window, `QueueTakes` what one more call does to a queue and to the count.
- `AccessTypeCorrect`: `TypeOK`, from the same invariant: each call comes to the limiter at most once, so
  the log is no longer than the number of calls.

`ConsistencyProofs` holds for any records, batches, requests, base revisions and limits, as long as the
facts are among the approved and `Absent` is no key (`ConsistencyAssumption`):

- `EveryReportAudited`: `ReportsAreAudited`, by the cases of which of the two audits failed, and how.
- `NoSilentPass`: `ChecksMissNothing`, which holds in every state, by `ScopesNarrow`: a smaller scope
  sees no more implementers of a record.
- `EvidenceAlwaysDecides`: `EvidenceDecides`. `NothingNewOfOldRecords` says that a rule that finds nothing of
  a registered record never will, because implementers are only added (`StepKeeps` of the store);
  `SameEvidence` that a batch of proposals leaves the rules' view as it is, for which
  `NoDanglingRelation` is needed: an old relation does not come into view with a new record.
- `OldFindingsNeverOpen`: `OldFindingsStayOld`. `BaselineCovers`, the strengthening, says that the
  baseline holds the fingerprint of every finding there *now* is of the records of its time.
- `ConsistencyTypeCorrect`: `ConsistencyTypeOK`.
- `StoreUnderneath`: the service implements `EvidenceGraph`; checks write nothing.

Only model-checked: the liveness properties `CallsEnd`, `PagingEnds`, `ShutdownCompletes` and `Converges`.
Liveness under fairness and `ENABLED` are out of reach of the installed provers. What is proved is the
safety half of each: that every step leads onward or leaves things as they are, that nothing waits for what is
gone, and that what has been reached is kept (`NoStallUnbroken`, `CallsOnlyGoOnward`, `NoEndlessReading`,
`NoShutdownStranded`, `AgreedFilesGetIn`). That fair steps are taken in the end is TLC's to check.

`RECURSIVE` operators are out of reach as well; no module uses one. The inductions that the proofs do make
are over numbers, with `LeastNumber`, which follows from the well-foundedness of the inclusion of finite
sets.

## 5. What is not modelled, and why

- The checks of formats in input files, manifests and requests: each is one flag (`wellFormed`), or
  the models have only what passed; where a refusal is visible to a property (`Refused` in
  `AgentAccess`, `Refuse` in `Imports`) it is an outcome.
- `classify_response()` and `record_sync_audit()` of `github_sync.py`: pure functions that nothing in the
  repository calls. There is no sync client to put them in; the job around `publish()` is the host's.
  (The lookup of `X-RateLimit-Remaining` is case-sensitive, unlike HTTP.)
- Of `Neo4jQueryRepository`, the search is modelled (`Rows`), the timeout and the row format are not;
  of `Neo4jConsistencyRepository`, the outcome (`Neo4jReport`), as the code around its Cypher decides it.
- `mcp_server.py`, `pr_review_report.py`, renderers and settings translate one value into another. The
  bodies that `api.py` writes are left out; its outcomes are modelled.
- `HealthState` is flags that the host sets and reads; secrets, deployment configuration and the
  backup catalogue are checks of one value.
- Threads inside `RateLimiter.allow()` and inside `InMemoryGraph`: neither has a lock, and the
  repository does not start threads.
- The durations of timeouts: a timeout is an outcome of the repository (`TraceErrors`, `Fault`,
  `Outcomes`).

## 6. Plan

The order was: the stores, then what reads them, then the jobs around them. Done: the modules above
and the proofs of section 4. Next:

1. `Neo4jStore` with the schema statements in the transaction, and `Imports` over it.
2. `Imports` with several repositories and imports of single snapshots.
