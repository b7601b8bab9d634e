# Faultmap in TLA+

A verification development of Faultmap: a command-line program in Go that
receives OpenTelemetry telemetry, changes (deployments, commits, database
catalogs) and, for the window of an incident, compares services and ranks
suspects. Storage is PostgreSQL or SQLite, and the code of both is kept equal by
a conformance suite. Faultmap has no long-lived shared memory worth the name: its
concurrency is that of several executions of the command and one receiver over
the same database, and that of a database observed while it changes.

Every definition is translated from the Go code under `src/`; the lines each one
stands for are in `PROJECT.json`, under `map`.

## The system

| Component | Code | State it keeps | Operations | Hard behaviours |
|---|---|---|---|---|
| Receiver | `integrations/otlphttp`, `cmd/faultmap/serve.go` | none of its own; two HTTP servers | POST of traces or logs, graceful stop | retries after a lost answer, cancellation, stop with requests in flight |
| Telemetry storage | `storage/*/signal_repository.go` | `signals` | `Save` of a batch, reads by window | batches that overlap, idempotence by id |
| Retention | `application/apply_retention.go`, `storage/*/*retention*.go` | removes from `signals`, empties `schema_snapshots.objects_json` | `retention apply` | executions that overlap, batches that fail midway, lost commits |
| Schema catalog | `integrations/postgres/catalog.go`, `storage/*/schema_repository.go`, `changes/domain` | `schema_snapshots`, `schema_changes` | `ingest schema` | a catalog read in three moments, privileges that come and go, collections that overlap or arrive late, base lines freed by retention |
| Schema proximity | `detection/schema_change_proximity.go` | none | which change is blamed | intervals instead of instants |
| Scope discovery | `application/diagnose_scope.go`, `storage/*/scope_repository.go` | none; reads level by level | list, window, entry alone, walk over shared traces | telemetry that arrives between levels, cuts |
| Ranking | `ranking`, `corroboratedProximityFindings`, `applyDependencyTieBreak` | none; accumulators of one execution | accumulate, limit, sort, cut, break ties | who comes first when evidence of several kinds adds up |
| Detectors | `detection` | none | fourteen rules over two windows | small samples, percentiles, boundaries |
| Diagnosis store | `storage/*/diagnosis_repository*.go` | `incidents`, `findings`, `ranking_results` | save once, history, `explain suspect` | repeated investigations, identifiers that collide, reads in several queries |
| Migrations | `storage/*/migrate.go`, `storage/bootstrap` | `schema_migrations` | applied by every command that opens the database | processes that start together, a crash between versions |
| Deployments and commits | `integrations/github`, `storage/*/change_repository.go` | `deployments`, `commits` | `ingest github` | a page cut before the window, imports that overlap on the same keys |
| MCP server | `mcp` | none; one session over stdio | read-only tools, audit | order of answers, lines above the ceiling, cancellation while it waits for input |
| Trace blame, evidence graph | `application/blame_trace.go`, `evidencegraph` | none | one trace as a tree | none that decides anything |
| Reporting, configuration, project files | `reporting`, `platform/config`, `init_project.go` | files | rendering, validation | none that a model checker reaches |

How they meet: every command migrates the store before its work; the receiver and
the retention write `signals`; a collection and the retention write
`schema_snapshots`; imports write `commits` and `deployments`; a diagnosis reads all
of it, in several queries and outside any transaction, and writes its snapshot;
the MCP session, `incident` and `explain` read the snapshots; nothing else is shared. Components call each
other only inside one execution (`diagnose` calls scope discovery, the detectors
and the ranking in this order).

What makes each of them correct is listed, hazard by hazard and with its line,
under `hazards` in `PROJECT.json`.

## The modules

| Module | Models | Extends |
|---|---|---|
| `Retention` | `retention apply` with ingestion and collections around it | |
| `RetentionProofs` | theorems about `Retention` | `Retention`, `TLAPS` |
| `SchemaCatalog` | `ingest schema` against a base that changes | |
| `SchemaProximity` | what a diagnosis makes of the changes of `SchemaCatalog` | `SchemaCatalog` |
| `SchemaProofs` | theorems about both | `SchemaProximity`, `TLAPS` |
| `ScopeExpansion` | which services a diagnosis compares | |
| `ScopeProofs` | theorems about `ScopeExpansion` | `ScopeExpansion`, `TLAPS` |
| `Ranking` | from findings to the ordered suspects | |
| `RankingProofs` | theorems about `Ranking` and `Detectors` | both, `TLAPS` |
| `Ingestion` | `faultmap serve`: its requests, their transactions, the stop of the process | |
| `IngestionProofs` | theorems about `Ingestion` | `Ingestion`, `TLAPS` |
| `Migration` | `Migrate` by several processes on one store | |
| `SchemaVersions` | what `schema_migrations` promises; `Migration` implements it | |
| `MigrationProofs` | theorems about `Migration` | `Migration`, `TLAPS` |
| `ChangeImport` | `ingest github` and what a diagnosis reads of it | |
| `ChangeProofs` | theorems about `ChangeImport` | `ChangeImport`, `TLAPS` |
| `Detectors` | the rules over the two windows, and `serviceDepths` | |
| `DiagnosisStore` | the end of `diagnose`: findings and the transaction that keeps them | |
| `SnapshotRegister` | what the storage promises of diagnoses; `DiagnosisStore` implements it | |
| `McpSession` | `faultmap mcp` over the store while diagnoses are saved | `DiagnosisStore` |
| `DiagnosisProofs` | theorems about both | `McpSession`, `TLAPS` |
| `MC*` | the instances TLC checks | the module of the name |

### Retention

`ApplyRetention` is a loop of transactions. A run (`Runs`) goes `idle` → `loop` ⇄
`scan` → `done` or `failed`; `front` says which table it drains. One transaction is
`BeginBatch` (the snapshot of the statement, `view`), `ReserveRow` (one row at a
time in age order, `FOR UPDATE SKIP LOCKED`: a row held by another run is passed
over, one that changed since the snapshot is dropped) and `CommitSignals` or
`CommitCatalogs` (the tables, the counters and the decision to go on). `FailBatch`
is any error with its rollback, `LoseCommit` a commit whose answer never came.
`Ingest` and `Collect` are the other writers. `backlog`, `effect` and `released`
are history: what was expired when a run started, what really left the tables,
what was given back by a rollback. `SingleWriter` turns PostgreSQL into SQLite,
where the second writer waits.

### SchemaCatalog and SchemaProximity

A collection runs `ReadColumns`, `ReadIndexes`, `ReadConstraints` (which also
stamps it), and then `OpenSave` and `CommitSave`, or `RefuseSave`, or `Fail` at any
point. Around it the observed base changes (`Migrate`), the collector gains and
loses privileges (`Regrant`), the clock moves (`Tick`) and retention frees old
content (`Free`). `information_schema` hides what the collector may not see and
`pg_indexes` does not, which is why a blind read is recognised by the absence of
columns (`LooksBlind`). `Migrate`, `Regrant` and `Plausible` describe PostgreSQL
itself and are marked external. `SchemaProximity` adds the two reads of a
diagnosis as operators over the state: `Loaded` (the query) and `Selected` (the
detector), for every start an incident may have.

### ScopeExpansion

One execution of `resolveScope`. Each `Expand` is one level: the query over the
traces of the frontier, who is new, the room left, the truncation mark, the next
frontier. `CountTraces` is the second query of the first level. `Ingest` may happen
between any two of them; `rowsAtStart` remembers what there was when the walk
began. Names and trace ids are naturals because the queries order and cut by them.

### Ranking

`Observe` and `Corroborate` append findings service by service in the order of
the scope; `Accumulate` is one turn of the loop of `Rank`, `Score` its end (limits,
order, cut) and `TieBreak` the stable sort that follows in the diagnosis. Scores
and weights are integers: a finding is worth `score * Weight`, a class at most
`Unit * Weight`, and a sum (`Total`) is the number of pairs of an element and one of its
units. The tie-break (`Sorted`) is the insertion `sort.SliceStable` does on a short
slice, because its comparison is not a total order when a depth is unknown.

### Ingestion

One request of an exporter, from the handler to the table. `pc` goes `reading` →
`ingesting` → `saving` → `committed` or `failed` → `ended`, or `lost` when the process
dies. `Refuse`, `BreakOff` and `Admit` are the checks of the handler in their
order; `Reject` is the normaliser or a check of the context before the transaction;
`OpenSave`, `Insert` and `Commit` are `Save`, one signal at a time, with
`ON CONFLICT (id) DO NOTHING`; `Answer` turns what `Save` returned into what the
client reads. A transaction ends badly by `Cancel` (its context), `BreakDeadlock`
(PostgreSQL chooses one of a circle) or `Fail` (anything else); a `Commit` may also
succeed and be reported as an error.

The context of a request ends in two ways. `Disconnect` is a client that gives up,
which net/http may or may not notice. `ReadDeadline` is the server's own
`ReadTimeout`: net/http keeps reading the connection while the handler works, and
cancels the context when that read times out, although the client is still
listening. A handler that then returns without writing is answered `200` by
net/http: `Silence`. `live` and `listening` keep, after `Return`, the values the
answer was given under, so that `CleanStopAnswersAll` can relate the two. What the client and
net/http do describes them, not Faultmap, and is marked external.

`Stop`, `Drained` and `StopLate` are `serveHTTP` and its `shutdown_timeout`; `Crash` is
any other end; `Restart` starts the process again over the same table. `pool` is
chosen once, in `Init`: one connection is SQLite, more is PostgreSQL.

### Migration

A process goes `off` → `lock` → `check` → `apply` → `record` → `commit` → `check` … →
`ready`, and `at` is the version it is at. `Enter` takes the advisory lock (on
PostgreSQL; SQLite has none), `Skip` and `Missing` are `isMigrationApplied`, which looks
before the transaction begins, and `Execute`, `Record` and `Commit` are `applyMigration`.
Statements of a version that is already there fail (`Refused`) unless they are
written to run twice (`Rerunnable`). `Waits` is a transaction in the way of
another; on SQLite `busy_timeout` ends the wait (`GiveUp`). `LoseCommit`, `Fail` and
`Crash` are the ways a command ends badly. The lock lives on a connection of its own
and the cycle runs over the others, so `DropLock` lets two processes in; `Reap` is the
server noticing a dead session. `Knows` gives each process the last version of its
binary. `Versions` maps `schema` to the abstract `SchemaVersions`.

### ChangeImport

An import goes `fetch` → `saving` → `imported` or `failed`. `Fetch` is both requests to
GitHub, with the page cut before the window for deployments (`Newest` inside
`FetchedDeployments`) and after it for commits, and the order of the snapshot;
`Insert` is one `ON CONFLICT DO NOTHING`, which waits for a transaction that holds the
key. The key of a deployment has no service, so imports of two services write the
same rows and the first keeps them: `stored` says whose row it is. `Deploy` is GitHub.
`LoadDeployments` and `Selected` are the two reads of a diagnosis, as operators.

Two orders are kept apart. GitHub answers the last created first (`Newest`, external).
The program and its queries take the newest first and break a tie of instants by the
key ascending (`Before`): the sorts of the client, `ORDER BY deployed_at DESC, id ASC`
(`FirstRows`) and the choice of the detector. A key is text, so deployment 10 comes before
9: `KeyText` gives each its place, and nothing is assumed of it but that keys differ. Within
one repository keys differ in digits only, which SQLite, PostgreSQL and Go order alike.

### Detectors

The state is two windows that grow one signal at a time, so that every state is one
in which a diagnosis may be asked for. Each detector is an operator that returns no
finding or one, with the signals it cites; `Run` is the list of `detection.Run`, and
`Findings` all that `DiagnoseIncidentInScope` collects before it looks for changes.
A signal carries its attributes classified: status, kind, whether it is of a
database, how it failed, the identity of the repeated operation. Rates are pairs of
naturals compared by cross-multiplication and the noise barrier is squared, so nothing
is rounded; durations are integers. `Climb` follows parents through the index
of spans, hop by hop, with the ceiling of the code. `FailingAncestorServices` reads it up
to the first span met twice; `ServiceDepths` counts it. The reference it is compared with,
`Above`, knows nothing of the index: it goes from set to set along the calls of the
window, as far as the same ceiling (`Within`).

### DiagnosisStore and McpSession

An investigation goes `diagnose` → `incident` → `findings` → `ranking` → `commit` and ends
`saved`, `existing`, `skipped` (no signals), `rejected` or `failed`. Rows are records
that name their table, incident and author; `written` is the open transaction. The
loop of findings is one step because the row of the incident is held: nobody else
can touch what it writes. `FindingId` is incident, rule and subject, and two findings
that share it make the primary key refuse the whole save (`RejectFindings`).
`Published` maps the tables to the abstract register: the investigation whose
snapshot is exactly what is stored of an incident, or `Torn`.

`McpSession` is the loop of `Serve`: `Top` looks at the context, `Write` and `Close` are
the client, `ReadPiece` is one `ReadSlice` (a line is counted in pieces of the buffer and
is too long above `MaxPieces`), `Handle` the dispatch, `ListIncidents`, `ReadIncident`,
`ReadFindings` and `ReadRanking` the queries, `WriteReply` the answer and its place in
the audit trail. Investigations step between any two of these.

## The runs

| Run | Result | Question |
|---|---|---|
| `retention` | passes | may overlapping runs leave expired rows, count twice, lose a base line, or never end? |
| `schema` | passes | is a change ever invented, lost, or blamed as earlier when it was later? |
| `scope` | passes | are distances explained, limits kept, and undeclared cuts impossible as long as traces fit? |
| `ranking` | passes | can support without symptom accuse, outweigh, or put a commit above its service? |
| `ingestion` | passes | is an accepted batch stored, whole and unchanged, and does every request end, with retries, deadlocks, stops and crashes? |
| `migration` | passes | do processes that start together, die and lose locks leave the versions in order, and find their schema complete? |
| `changes` | passes | may imports wait in a circle, miss a change near the incident, or a diagnosis overlook it? |
| `diagnosis` | passes | are snapshots published whole and once, and what commands and the MCP session say of them true? |
| `detectors` | passes | may one more failure acquit, what was always there accuse, or the climb blame a service the trace does not link? |
| `schema_straddling` | violated | is a change revealed after the start of the incident presented? |
| `diagnosis_collision` | violated | can every diagnosis be saved? |
| `detectors_logs` | violated | is a failure below a failed span seen when that span wrote a log? |

The violated runs are disagreements between the code and what its comments,
decisions or README promise; each is quoted under `findings`, and the property is
stated in the module whose code it refutes.

`TypeOK` of `SchemaCatalog`, `Migration`, `Retention`, `Ingestion` and `McpSession` is part of
their runs. Those of `ScopeExpansion`, `Ranking` and `ChangeImport` are kept in the
modules, hold on the same instances (`tlc` with a line more in the configuration) and
are proved for all.

### Known disagreements without a run

Six more promises are refuted by the code. Their properties stay in the modules, and
each has a configuration that shows the violation
(`tlc -config <configuration> <module>`):

| Configuration | Module, property | Promise, and what the code does |
|---|---|---|
| `MCRetention_error.cfg` | `MCRetention`, `OperatorToldOfRemoval` | `apply_retention.go:99-103`: a partial result goes with the error. `pruneSchemaCatalogs` returns 0 with its error (line 130), and `root.go:135-137` returns before anything is printed. |
| `MCSchemaProximity_baseline.cfg` | `MCSchemaProximity`, `NothingAccusedAsNew` | `schema_repository.go:62-65`: a blind collection must not make the schema look new. `CheckCollection` accepts one that has no previous (`schema_change.go:167-169`), and the next accuses every column. |
| `MCScopeExpansion_traces.cfg` | `MCScopeExpansion`, `EveryCutIsDeclared` | ADR 0009, lines 58-59: a cut is declared. Only the one by services is (`diagnose_scope.go:397-400`); the one by traces happens inside the query. |
| `MCRanking_tie.cfg` | `MCRanking`, `DeepestOfTieListed` | ADR 0009, lines 39-44: of tied suspects the deepest comes first. `Rank` cuts to `TopN` by name (`ranking.go:140`) before the tie is broken. |
| `MCRanking_commit.cfg` | `MCRanking`, `FailingDeployAccused` | `ranking.go:225-228`: a commit deployed in a failing service stays accused. Its ceiling comes from the first service it was found in (line 240). |
| `MCIngestion_ack.cfg` | `MCIngestion`, `AnsweredOkIsStored` | `docs/mvp/03…:75`: a 200 confirms the batch. A handler whose context is cancelled by the server's own read deadline returns without writing (`handler.go:222`), and net/http answers 200. |

### Bounds, and why they are enough

- `retention`: two runs (the hazards are between a run and another), two expired
  signals, batches of one and a ceiling of two batches, so that full, short and
  last batches all occur, with both ends of the ceiling; a batch size of zero is
  refused. Three collections of one base, the newest not expired: a prune always
  has something to take and something to protect, and `Collect` may insert any of
  them late.
- `schema`: three collections (two to compare, and a third that overlaps, is late
  or frees the middle), two of them at work at once, one column and one index (the
  least that tells a blind read from an empty one), three instants, one migration
  and one GRANT or REVOKE. A column has two types, so an alteration occurs too.
- `scope`: five services in a chain of traces with a room of four, so that a cut
  and a complete walk both occur; a trace outside the window; depths below zero, in
  range and beyond the ceiling. Nine rows, present from the start or ingested later
  in any order. `scope_traces` lowers the limit of traces to one.
- `ranking`: three services, six combinations of symptoms, three of changes, one
  commit deployed in any of the services; room for two, for all, and an invalid
  zero; depths known, partly known and unknown.
- `ingestion`: two requests, because a deadlock and a retry are each between two;
  one batch sent twice or two with the same ids in opposite orders, one of which
  repeats an id; one without signals; and those that are empty, malformed or
  refused by the normaliser. One connection and two: with one, the second
  transaction waits for the pool, with two, for a row. Two starts, so that a batch is
  sent again after a crash. `ingestion_ack` needs one connection and one start.

- `migration`: three processes (one holds, one waits, one comes late), one with the
  binary of the previous release, three versions of which the middle one may run
  twice, both backends. One start each: a restart is another process. Any of them
  may die, fail, lose its commit or its lock at any step.
- `changes`: two commits, four deployments, 9 to 12, three at the same instant: as
  text 10 comes first of them, neither the least nor the greatest number, so that a
  query that broke the tie in either of those orders is caught. Two imports of
  different services over overlapping windows and one of deployments alone; pages of
  three, a query of two and a lookback of two instants; incidents that begin with a
  deployment or just after one, so that every cut occurs, also among those of one
  instant, and both ends of the windows are hit.
- `diagnosis`: one incident and two investigations (a race and a retry are between
  two), whose windows show nothing, a failing service with a deployment, or two lost
  links to one child, which is refused; a session of two lines, the least for two
  answers to disagree or a line to follow a cancellation, of every kind, one
  above the ceiling and one that ends the input. `diagnosis_collision` adds a commit
  deployed to two failing services.
- `detectors`: five sets of up to fourteen signals, each made for a group of rules
  (requests and versions, a crowd large enough for the noise barrier to decide either
  way, queries, chains of three services in two traces, loops of parents and a
  repeated key), in every order of arrival. Minimum samples are two; the thresholds
  of duration and rate are those of the code. The ceiling of hops is three, and one
  chain of calls is longer, so that a climb is also cut.

Deadlock is not checked: an execution of a command ends, and every bound on time,
migrations or rows ends with it.

### Fairness

Four properties need it. For `EveryRunEnds`, `FairSpec` of `Retention` assumes weak fairness of the steps of
a started run: the process executes its loop and the database answers. Nothing is
assumed of ingestion, of the start of a run, or of failures. Rows reserved by
another run are skipped and never waited for, so weak fairness is enough. This
instance is PostgreSQL; SQLite is the same code with writers in line.

For `EveryRequestEnds`, `FairSpec` of `Ingestion` assumes weak fairness of what the
handler of each request and the database do by themselves (`Handle`, which includes
breaking a deadlock: PostgreSQL always does, after `deadlock_timeout`), of a drained
server noticing it, and of the timer of the shutdown. Nothing is assumed of
clients, of the network, of failures or of anybody stopping the process. Requests
are finitely many, so a request that waits for a connection is served in the end:
this is not a claim about a pool under endless load.

For `EveryCommandEnds`, `Migration` assumes weak fairness of what each process does by
itself (`Step`) and of `Reap`: PostgreSQL ends the session of a dead client. Nothing is
assumed of crashes, errors, `DropLock` or new starts. Processes are finitely many and
start finitely often, so a process that waits for the lock gets it; this is no claim
about an endless line.

For `EverythingEnds`, `McpSession` assumes weak fairness of each investigation (`Save`)
and of the server (`Serve`, or the failure of its query). The client owes nothing: the
property lets the session rest at its input for ever, which is what `Serve` does after
Ctrl+C until the client writes or closes.

## What is proved

`RetentionProofs` proves, for any set of runs, any rows, sizes and ceilings, and
for both backends:

- `TypeCorrect`: `TypeOK` always holds.
- `NoOrphan`: a run that stops on a short batch leaves no row that was expired at
  its start without an owner.
- `AllSucceededDrained`: if nobody failed, nothing of it is left.
- `BaseLineSurvives`: the newest collection of a base keeps its content.

- `WorkIsCountedOnce` (`NoWorkCountedTwice`): the rows all runs report, added up,
  are never more than the rows that left.

The first four follow from `Invariance`. None is inductive as it stands. `IInv` adds:
transactions hold rows only while open (`Quiet`) and rows no other transaction of
the same table holds (`Exclusive`); what they hold and have not examined was
expired (`Held`, `Due`); each row of the backlog of a run in the middle of a statement
is still ahead of the statement, in its lot, held by another run, or given back
(`Covered`), from which a short batch saw everything (`ShortBatchSawAll`); a catalog
reserved for pruning has a newer one that nothing can remove (`Superseded`); and the
way a run ends tells what it left (`Outcome`). The assumptions are `SizesAssumption`
and `RowsAssumption`, evaluated by TLC on every run of the module; the second says
that two collections of a base differ in their instant, which is how their
identifiers are made.

A sum over the runs would need an induction. `Counted` is therefore the number of
`Tallied` pairs, one for each unit of a counter, and `WorkIsCountedOnce` keeps `TallyInv`
through the commits alone: the pairs added by a commit are as many as the rows
it removed, and those were there before (`HeldIntact`: no other run took a row this one
holds). A commit whose answer was lost removes rows and counts none, hence "at most".

`IngestionProofs` proves, for any requests, batches, signals, sizes of the pool and
number of starts:

- `TypeCorrect`: `TypeOK` always holds.
- `AcceptedIsStored`: a batch answered with success is in the table.
- `SavedWhole`: a request that left one row there left its whole batch.
- `RefusedIsClean`: a batch refused with a 4xx left nothing.
- `NothingRewritten`: no step changes a row that is stored (`FirstVersionKept`).
- `CountIsOfRows` (`CountIsExact`): the count a client reads is that of its own rows.
- `CleanStop` (`CleanStopAnswersAll`): a server that stopped in time left nobody who still
  listened without an answer. Each whose `Save` reported rows read success, though its
  context may have died in between; the empty 200 went only to those whose own context
  had died.

They follow from its own `Invariance`. What makes it inductive is the middle of a
transaction: no two hold the same id, nor one that is stored (`Exclusive`), so what is
committed overwrites nothing; and everything the loop has passed is either in the
transaction or already in the table (`Passed`), so a loop that ends is a batch stored
(`Accepted`). `CleanStop` has two invariants more: no handler outlives its process
(`DrainInv`), and what is known of each request that returned (`ReplyInv`), which
needs that a save that failed reports no row. `Held` ties transactions to the point of
the handler, `Ingesting` and `Origin` keep what the checks said of the batch until its
rows are in, and `Told` relates answers to the table. A lemma (`QuietStep`) carries
all of it through the steps that leave the table alone, and only `Send`, `Insert` and
`Commit` need a proof of their own. The assumptions are `BatchesAssumption`,
`BoundsAssumption` and `NobodyAssumption`.

`MigrationProofs` proves, for any processes, versions, binaries and starts:

- `TypeCorrect`, `CommandsFindTheirSchema` (`ReadyIsComplete`) and
  `LockPreventsConflicts` (`NoConflictUnderLock`);
- `Refinement`: `Migration` implements `SchemaVersions`.

The inductive invariant says that what is stored is a prefix of the list and that
`schema_migrations` says exactly that (`Prefix`), that nobody is past the first missing
version (`NotAhead`), that no two transactions carry one version (`Exclusive`), what each
point of the loop knows of its version (`Position`), and that while the lock is held only
its holder is past it and what it looked up stays true (`Locked`). `VersionsInOrder`
does not rest on `Locked`: the primary key of `schema_migrations` and the rule about
objects that exist keep the order even on SQLite. The assumption is
`MigrationAssumption`.

`DiagnosisProofs` proves, for any investigations, incidents and observations:

- `PublishesOnce`: `DiagnosisStore` implements `SnapshotRegister`;
- `AnswersAreTrue`: `saved`, `existing`, `skipped` and `rejected` are true of the tables.

Its invariant: an open transaction holds exactly the part of its snapshot its place
says (`WrittenInv`), only one per incident and none of an incident that is stored
(`HolderInv`), what is stored of an incident is the whole snapshot of one investigation
(`WholeInv`), and what each command said is true (`AnswerInv`).

Its second half proves of `McpSession`, for any lines and any client:

- both of these while a session reads (`SessionPublishesOnce`, `SessionAnswersAreTrue`),
  because the session implements `DiagnosisStore` (`SessionRefinesStore`);
- `CancelStopsTheSession` (`AtMostOneAfterCancel`) and `SessionTypeCorrect`;
- `SessionAnswersAgree` (`AnswersAgree`): two answers about an incident agree;
- `SessionRepliesOncePerLine` (`OneReplyPerLine`): one answer for each line that asks for
  one, in order.

`AnswersAgree` rests on what the first query found and the later ones add: what is
stored of an incident is stored whole and never changes, so the rows collected so far
are exactly those of the tables already read (`GotInv`), and what was answered is still
what is stored (`ReplyInv`, `FoundInv`). `OneReplyPerLine` rests on `OrderInv`: replies and
trail name the lines settled so far, in their order, and the line at work is the next.
The assumptions are `DiagnosisAssumption` and `McpAssumption`.

`SchemaProofs` proves, for any base, any collections that overlap, fail or come late,
and any history of migrations, privileges and freed base lines:

- `SchemaTypeCorrect`, and `DifferencesAreExplained` (`NetDifferenceExplained`);
- `ChangesAreReal` (`NoChangeInvented`) and `CertainBlameIsRight` (`CertainBlameIsEarlier`),
  both under `WholeGrants`: SELECT is granted on all tables or on none.

`WholeGrants` is not a convenience. With a grant on part of the tables, columns of the
others disappear from `information_schema` while the collection does not look blind,
and a removal is invented: that is the hazard of `catalog.go:207`, which the check of the
source cannot see. TLC's instance (`AllOrNothing`) satisfies it. The invariant: what a
reliable collection saw is still true or a migration came after it began (`NowInv`);
two reliable collections saw the same or a migration came between (`PairInv`); stored
collections are committed, differ in their instant, and every change joins two of them
(`StoreInv`); every difference from the base line is a change (`DiffInv`); and every
change found is real (`RealInv`). `DifferencesAreExplained` then goes from the older
collection to the newer through the chain of base lines, by the least collection at
which the explanation would fail.

`ScopeProofs` proves, for any rows, limits and moment of ingestion:

- `ScopeTypeCorrect`, `HopsAreExplained` (`EveryHopExplained`) and `ScopeStaysWithinLimits`
  (`ScopeWithinLimits`);
- `ScopeIsComplete` (`CompleteUnlessTruncated`).

`WalkInv` says that the frontier is exactly the last level and never empty; `CoverInv`,
that nothing was cut and every service before the frontier has all those it met in the
scope, one hop further at most. Completeness compares the walk with `WithinHops`, a
recursive function: it is unfolded by a least depth at which it would have no solution
(`HopsExist`, `HopsUnfold`), since the induction theorems of the library are out of reach
(see below). The assumption is `ScopeAssumption`; that the rows are finitely many is used
to count.

`ChangeProofs` proves, for any imports, windows, pages and history of deployments:

- `ImportTypeCorrect` and `ImportsNeverDeadlock` (`NoImportDeadlock`);
- `OnlyOldOnesAreMissed` (`OnlyTheOldestAreMissed`) and `TheNearestIsBlamed` (`NearestIsBlamed`).

Its first half is about orders in general: any finite set has a sequence in the order
(`SortedExists`), whose first n are the n foremost (`ForemostCount`,
`ForemostAreAhead`), and a non-empty one has a first (`FirstExists`). The query, the
sort of the snapshot and the choice of a suspect are instances of it, with one order
for all three (`Written`), which is total for any keys that differ
(`ChangesAreOrdered`). `WriteInv` says that a batch is in the order of its rows and
that what an import holds are rows before its place; a circle of waiting imports would
then need a row ahead of itself, so of any set of imports the one that waits for the
row furthest in the order waits for none of them. `StoreInv` and `PageInv` tie the
table to what was fetched.

`RankingProofs` proves, for any services, commits, rules, weights, findings and depths:

- `RankingTypeCorrect`;
- `ProximityAlone` (`ProximityNeverAccuses`) and `SymptomDecides` (`SupportNeverDecides`);
- `BestFirst` (`BestFirstThenDeepest`).

`SumInv` says that a class of a subject holds what the findings visited so far are worth
in it, and that the owner of a commit is a service in which one of them found it. A sum is
counted in pairs, so that one finding more adds its worth by the cardinality of a disjoint
union (`TotalAdds`) and no induction is needed. Findings about a commit are all support
(`Facts`), so nothing is measured about it and its score is bounded by that of its owner.
`RankInv` says what the cut and the sort leave. `Deeper` is not a total order when a depth is
unknown, and the invariant of the insertion (`Drawn`, kept by `PlaceStep`) claims what holds all
the same: scores stay in order, and a tie whose depths are all known is leveled. The recursion
of the sort is unfolded by a least length without a solution (`TurnsExist`). The assumption
is `RankingAssumption`: names of services and of commits differ, there are finitely many of each,
both proximity rules are of the class of support, and the rest are types.

Its second half proves of `Detectors`, for any services, telemetry and ceiling of hops, and
at any moment of the arrival of signals:

- `NoAcquittal` (`WorseIsNotAcquitted`) and `TheChronicIsSilent` (`ChronicIsSilent`);
- `TheClimbFollowsTheTrace` (`ClimbFollowsTheTrace`), and `TheCeilingLosesNobody`: in a window
  of no more signals than hops, it holds at any distance;
- `FailureKeepsTheGrowth` and `P95Rises`, about the arithmetic of the rules;
- `OnlyASharedKeyHidesACaller`: `FailedCallerIsSeen`, which the code refutes, holds wherever
  no two signals share trace and span.

The invariant is small (`WindowsInv`: both windows are finite sets of signals) and the weight
is in the rules. The noise barrier compares a square with a sum of products of the four
counts; `Evidence` is the difference of its sides and `Gain` what one more failure adds to it,
which is no loss wherever the barrier was already crossed (`GainIsNotLoss`), although the
failure also enlarges the sample the barrier divides by. The percentile is the least
duration with enough observations at or below it (`P95Is`), the order asked for never falls
with one observation more (`OrderGrows`), and the slowest never moves it down. Equal
windows have rates without rise (`NoRise`) and equal percentiles. The climb is a chain of
calls (`ClimbIsChain`), each link the only caller of the one before because keys are unique
(`OneCaller`); members of the chain and members of `Above` are the same (`ChainIsAncestry`),
a chain that meets a span twice has already met all it will (`ClimbedBeforeItStops`), and
one without loops has as many members as it is long (`ChainCounts`). Both recursions are
unfolded by a least length without a solution (`ClimbExists`, `CallingExists`). The
assumption is `DetectorsAssumption`: signals are well formed, windows are finite, and a signal
is known by its id.

### How far the disagreements go

Three runs show a disagreement on one instance. A theorem beside each says when it
occurs, for all instances:

- `OnlyTheseAreRefused` (`diagnosis_collision`): a diagnosis is refused for a service that lost
  two callers or a commit deployed to two services with a symptom, and for nothing else;
- `OnlyTheLateAreMissed` (`schema_straddling`): the detector is silent about changes that may
  precede an incident exactly when the collections that revealed them all came after
  its start, and so nothing it blames ever overlaps the incident;
- `OnlyASharedKeyHidesACaller` (`detectors_logs`): a failed caller is missed only where two
  signals share a key, as a log and its span do.

Proving changed the modules four times. `Ranking` summed with a fold and sorted with an
operator that chooses: sums are now counted, and the sorted list is one that is in order,
which is the only one. `Climb` of `Detectors` was a fold and is now a recursive function; its
reference was the closure of the calls without a ceiling, which is false of a chain longer
than the ceiling (no instance had one), and now has the ceiling of the code. `Shown` of
`SchemaCatalog` was a `CASE` with guards that overlap, whose value TLA+ leaves open; its
cases are now exclusive. `SUBSET S \ {{}}` is read as `(SUBSET S) \ {{}}` by SANY and as
`SUBSET (S \ {{}})` by tlapm; parentheses settle it.

## Only model-checked

- `EveryRunEnds`, `EveryRequestEnds`, `EveryCommandEnds` and `EverythingEnds`: liveness under
  fairness, out of the prover's reach. Every other property of a passing run is a theorem.
- The properties the code refutes: TLC shows how, and the theorems above when.

## What the properties leave open

- `CertainBlameIsEarlier` bounds one side: nothing blamed for certain is later than the
  incident. A change stamped later than it happened may still be missed.
- `NetDifferenceExplained` is about a collection compared with the one before it in the
  final order. The run saves collections late and at once, but nothing is stated of the
  differences those report.
- `ChronicIsSilent` is about windows that hold the same signals; the barrier against noise
  is exercised by `WorseIsNotAcquitted`, one failure at a time.

## Not modelled, and why

- Wording, layout, logging, parsing of YAML and flags: no property is about them.
- Floating point in the ranking: scores are integers, so a tie is a tie. The order
  in which a Go map adds floats is listed as a hazard.
- Sizes (`maxSchemaObjectsPerSnapshot`, bodies of requests, `--limit` of signals).
- The loss of privilege on part of the tables and on constraints alone: out of
  reach of the check the source makes, and stated so in the properties.
- In the receiver: the health endpoint; the report of refused batches
  (`Options.OnRejected`), which the handler calls only for refusals of the ingester
  and not for those before it, such as a gzip body that does not decompress; and the
  bytes of a payload, of which a verdict is kept. Ids are given: two signals that get
  the same id because the observed instant is missing are a hazard without a
  property.
- The cut of each window at `--limit` signals, made silently by the query: it depends on
  volume alone, and every rule would have to be restated for a prefix of a window.
- In the detectors: scores, confidence, summaries and common causes; and how raw
  attributes and texts of failure are classified, which are tables with unit tests.
- One module that runs a whole diagnosis end to end. Its parts meet through values
  (scope, findings, suspects) that each module takes in all the forms it can have, so
  a composition would multiply states and decide nothing new.
- Trace blame and the evidence graph: a rendering of one trace, sequential, which no
  decision takes. The climb of parents that decides is in `Detectors`.
- Reporting, configuration and the project files: layout, parsing and validation.
- `ListDeployments`, `ListCommitMessagesBySHA` and the reads of signals that commands only
  print: they change nothing and no decision takes them.

## What could follow

1. A theorem beside each of the six disagreements without a run, as the three with a run
   have: when it occurs and when it cannot.
2. The cut of windows at `--limit`: which rules still speak truly of a prefix of a window.
