----------------------------- MODULE Retention -----------------------------
(***************************************************************************)
(* `faultmap retention apply`: ApplyRetention drains two tables in bounded *)
(* batches, first the expired rows of `signals`, then the content of the   *)
(* expired rows of `schema_snapshots`.  Several runs may overlap with each *)
(* other, with the ingestion of telemetry and with catalog collections.    *)
(*                                                                         *)
(* A batch is one transaction: the DELETE (or UPDATE) takes a snapshot of  *)
(* the expired rows, reserves them one by one in age order skipping the    *)
(* rows another run holds (FOR UPDATE SKIP LOCKED), and commits.           *)
(*                                                                         *)
(* SingleWriter = FALSE is PostgreSQL.  SingleWriter = TRUE is SQLite: one *)
(* write transaction at a time, so that nothing is ever found reserved.    *)
(*                                                                         *)
(* Simplifications: the clock is replaced by the cutoff a run computes     *)
(* from it; a row of `signals` is its id and its timestamp.                *)
(***************************************************************************)
EXTENDS Integers, FiniteSets

CONSTANTS
  Runs,          \* executions of the command
  Signals,       \* ids of telemetry rows
  Stamp,         \* timestamp of each signal
  Catalogs,      \* ids of catalog collections
  CapturedAt,    \* captured_at of each collection
  Base,          \* database_name of each collection
  Cutoffs,       \* values of Now - Retention
  BatchSizes,    \* values given to --batch-size
  MaxBatchSize,  \* maxRetentionBatchSize
  MaxBatches,    \* maxRetentionBatches
  SingleWriter   \* TRUE for SQLite, FALSE for PostgreSQL

ASSUME SizesAssumption ==
  /\ MaxBatchSize \in Nat \ {0}
  /\ MaxBatches \in Nat \ {0}
  /\ BatchSizes \subseteq Nat
  /\ Cutoffs \subseteq Nat
  /\ SingleWriter \in BOOLEAN

\* The id of a collection is derived from its base and its captured_at
\* (identifier.New), so two collections of one base differ in captured_at.
ASSUME RowsAssumption ==
  /\ Signals \subseteq Nat
  /\ Catalogs \subseteq Nat
  /\ Stamp \in [Signals -> Nat]
  /\ CapturedAt \in [Catalogs -> Nat]
  /\ DOMAIN Base = Catalogs
  /\ \A c, d \in Catalogs :
       c # d /\ Base[c] = Base[d] => CapturedAt[c] # CapturedAt[d]

VARIABLES
  signals,    \* rows of the table signals
  collected,  \* rows of the table schema_snapshots
  intact,     \* those whose objects_json still has content
  pc,         \* where each run is
  front,      \* what the run is draining
  cutoff,     \* result.Cutoff
  batch,      \* request.BatchSize
  view,       \* rows of the statement's snapshot not examined yet
  lot,        \* rows the open transaction has reserved
  batches,    \* batches of the current front already committed
  count,      \* rows the run has counted, per front
  truncated,  \* result.Truncated
  result,     \* counts the caller of ApplyRetention receives
  backlog,    \* history: rows expired when the run started, not removed since
  effect,     \* history: rows really removed or emptied, per front
  released    \* history: rows given back by transactions rolled back

tables  == <<signals, collected, intact>>
stmt    == <<view, lot>>
plan    == <<cutoff, batch>>
tally   == <<batches, count, truncated, result>>
history == <<backlog, effect, released>>
vars    == <<tables, pc, front, plan, stmt, tally, history>>

Fronts == {"signals", "catalogs"}
Zero   == [f \in Fronts |-> 0]
Rows   == Signals \cup Catalogs

\* ORDER BY timestamp ASC, id ASC and ORDER BY captured_at ASC, id ASC.
Age(f, x) == IF f = "signals" THEN Stamp[x] ELSE CapturedAt[x]
Older(f, x, y) ==
  \/ Age(f, x) < Age(f, y)
  \/ Age(f, x) = Age(f, y) /\ x < y

\* The newest collection of its base: the base line of the next diff.
IsLatest(c) ==
  \A d \in collected : Base[d] = Base[c] => CapturedAt[d] <= CapturedAt[c]

\* Mutant: the pruning forgets to protect the base line.
ExpiredUnprotected(f, limit) ==
  IF f = "signals"
  THEN {s \in signals : Stamp[s] < limit}
  ELSE {c \in intact : CapturedAt[c] < limit}

\* The rows the WHERE clause of each statement selects.
Expired(f, limit) ==
  IF f = "signals"
  THEN {s \in signals : Stamp[s] < limit}
  ELSE {c \in intact : CapturedAt[c] < limit /\ ~IsLatest(c)}

\* Mutant: the statement takes the rows another run is removing (no SKIP LOCKED).
NothingSkipped(r) == {}

\* Rows some other run holds locked on the same table.
ReservedByOthers(r) ==
  UNION {lot[q] : q \in {p \in Runs \ {r} : front[p] = front[r]}}

InTransaction(r) == pc[r] = "scan"

\* SQLite admits one writer: whoever writes waits for the open transaction.
Writable(r) == SingleWriter => \A q \in Runs \ {r} : ~InTransaction(q)
-----------------------------------------------------------------------------
Init ==
  /\ signals \in SUBSET Signals
  /\ collected = {} /\ intact = {}
  /\ pc = [r \in Runs |-> "idle"]
  /\ front = [r \in Runs |-> "signals"]
  /\ cutoff = [r \in Runs |-> 0]
  /\ batch = [r \in Runs |-> 0]
  /\ view = [r \in Runs |-> {}]
  /\ lot = [r \in Runs |-> {}]
  /\ batches = [r \in Runs |-> 0]
  /\ count = [r \in Runs |-> Zero]
  /\ truncated = [r \in Runs |-> FALSE]
  /\ result = [r \in Runs |-> Zero]
  /\ backlog = [r \in Runs |-> {}]
  /\ effect = Zero
  /\ released = {}

ValidBatch(b) == b \in 1 .. MaxBatchSize

\* ApplyRetention validates the request and computes the cutoff.
Start(r) ==
  /\ pc[r] = "idle"
  /\ \E c \in Cutoffs, b \in BatchSizes :
       /\ ValidBatch(b)
       /\ cutoff' = [cutoff EXCEPT ![r] = c]
       /\ batch' = [batch EXCEPT ![r] = b]
       /\ backlog' = [backlog EXCEPT ![r] = Expired("signals", c)]
  /\ pc' = [pc EXCEPT ![r] = "loop"]
  /\ UNCHANGED <<tables, front, stmt, tally, effect, released>>

Refuse(r) ==
  /\ pc[r] = "idle"
  /\ \E b \in BatchSizes : ~ValidBatch(b)
  /\ pc' = [pc EXCEPT ![r] = "failed"]
  /\ UNCHANGED <<tables, front, plan, stmt, tally, history>>

\* BeginTx and the snapshot of the statement.
BeginBatch(r) ==
  /\ pc[r] = "loop"
  /\ batches[r] < MaxBatches
  /\ Writable(r)
  /\ view' = [view EXCEPT ![r] = Expired(front[r], cutoff[r])]
  /\ pc' = [pc EXCEPT ![r] = "scan"]
  /\ UNCHANGED <<tables, front, plan, lot, tally, history>>

\* The statement examines its oldest row: reserved by another run, it is
\* skipped; changed since the snapshot, it no longer qualifies.
ReserveRow(r) ==
  /\ InTransaction(r)
  /\ Cardinality(lot[r]) < batch[r]
  /\ \E x \in view[r] :
       /\ \A y \in view[r] \ {x} : Older(front[r], x, y)
       /\ view' = [view EXCEPT ![r] = @ \ {x}]
       /\ lot' = [lot EXCEPT ![r] =
                    @ \cup (({x} \cap Expired(front[r], cutoff[r]))
                                \ ReservedByOthers(r))]
  /\ UNCHANGED <<tables, pc, front, plan, tally, history>>

StatementDone(r) == view[r] = {} \/ Cardinality(lot[r]) = batch[r]

\* RowsAffected of the statement: the DELETE counts the rows that were still
\* there, the UPDATE every row it wrote.
Affected(r) == IF front[r] = "signals" THEN lot[r] \cap signals ELSE lot[r]

\* Mutant: a full batch is taken for the last one.
FullTakenForShort(r) == Cardinality(Affected(r)) <= batch[r]

\* Mutant: the ceiling of batches is never recognised.
LastBatchWithoutCeiling(r) == Cardinality(Affected(r)) < batch[r]

\* A short batch or the ceiling of batches ends the loop of a front.
ShortBatch(r) == Cardinality(Affected(r)) < batch[r]
LastBatch(r)  == ShortBatch(r) \/ batches[r] + 1 >= MaxBatches

\* What the commit does to the tables.
Apply(r) ==
  /\ IF front[r] = "signals"
     THEN /\ signals' = signals \ lot[r]
          /\ backlog' = [q \in Runs |-> backlog[q] \ lot[r]]
          /\ effect' = [effect EXCEPT !["signals"] =
                          @ + Cardinality(lot[r] \cap signals)]
          /\ UNCHANGED intact
     ELSE /\ intact' = intact \ lot[r]
          /\ effect' = [effect EXCEPT !["catalogs"] =
                          @ + Cardinality(lot[r] \cap intact)]
          /\ UNCHANGED <<signals, backlog>>
  /\ UNCHANGED collected

CloseTransaction(r) ==
  /\ view' = [view EXCEPT ![r] = {}]
  /\ lot' = [lot EXCEPT ![r] = {}]

\* A batch of telemetry commits; the last one moves on to the catalogs.
CommitSignals(r) ==
  /\ InTransaction(r) /\ front[r] = "signals" /\ StatementDone(r)
  /\ Apply(r)
  /\ count' = [count EXCEPT ![r]["signals"] = @ + Cardinality(Affected(r))]
  /\ batches' = [batches EXCEPT ![r] = IF LastBatch(r) THEN 0 ELSE @ + 1]
  /\ front' = [front EXCEPT ![r] = IF LastBatch(r) THEN "catalogs" ELSE @]
  /\ truncated' = [truncated EXCEPT ![r] = LastBatch(r) /\ ~ShortBatch(r)]
  /\ pc' = [pc EXCEPT ![r] = "loop"]
  /\ CloseTransaction(r)
  /\ UNCHANGED <<plan, result, released>>

\* A batch of catalogs commits; the last one ends the run, which reports.
CommitCatalogs(r) ==
  /\ InTransaction(r) /\ front[r] = "catalogs" /\ StatementDone(r)
  /\ Apply(r)
  /\ count' = [count EXCEPT ![r]["catalogs"] = @ + Cardinality(Affected(r))]
  /\ batches' = [batches EXCEPT ![r] = @ + 1]
  /\ pc' = [pc EXCEPT ![r] = IF LastBatch(r) THEN "done" ELSE "loop"]
  /\ result' = [result EXCEPT ![r] = IF LastBatch(r) THEN count'[r] ELSE @]
  /\ CloseTransaction(r)
  /\ UNCHANGED <<front, plan, truncated, released>>

\* Mutant: a failure is reported as a negative count.
NegativeResult(r) == [Zero EXCEPT !["signals"] = -1]

\* The result that accompanies an error: nothing from the telemetry loop; from
\* the catalogs the signals already removed and zero catalogs.
ErrorResult(r) ==
  IF front[r] = "signals" THEN Zero
  ELSE [Zero EXCEPT !["signals"] = count[r]["signals"]]

Fail(r) ==
  /\ pc' = [pc EXCEPT ![r] = "failed"]
  /\ result' = [result EXCEPT ![r] = ErrorResult(r)]
  /\ CloseTransaction(r)
  /\ UNCHANGED <<collected, front, plan, batches, count, truncated>>

\* Any error of the storage or a cancelled context: the open
\* transaction is rolled back and its rows are free again.
FailBatch(r) ==
  /\ pc[r] \in {"loop", "scan"}
  /\ Fail(r)
  /\ released' = released \cup (IF front[r] = "signals" THEN lot[r] ELSE {})
  /\ UNCHANGED <<signals, intact, backlog, effect>>

\* The connection dies between the COMMIT and its acknowledgement.
LoseCommit(r) ==
  /\ ~SingleWriter
  /\ InTransaction(r) /\ StatementDone(r)
  /\ Apply(r)
  /\ Fail(r)
  /\ UNCHANGED released

\* Telemetry is ingested, late or redelivered telemetry included.
Ingest(s) ==
  /\ s \notin signals
  /\ SingleWriter => \A q \in Runs : ~InTransaction(q)
  /\ signals' = signals \cup {s}
  /\ UNCHANGED <<collected, intact, pc, front, plan, stmt, tally, history>>

\* The last collection of the base before c: what SaveSnapshot compares with.
IsPrevious(p, c) ==
  /\ Base[p] = Base[c] /\ CapturedAt[p] < CapturedAt[c]
  /\ \A d \in collected :
       Base[d] = Base[c] /\ CapturedAt[d] < CapturedAt[c]
         => CapturedAt[d] <= CapturedAt[p]

\* SaveSnapshot, in any order of captured_at; it refuses a base line whose
\* content was freed.
Collect(c) ==
  /\ c \notin collected
  /\ SingleWriter => \A q \in Runs : ~InTransaction(q)
  /\ \A p \in collected : IsPrevious(p, c) => p \in intact
  /\ collected' = collected \cup {c}
  /\ intact' = intact \cup {c}
  /\ UNCHANGED <<signals, pc, front, plan, stmt, tally, history>>

RunStep(r) ==
  \/ BeginBatch(r) \/ ReserveRow(r) \/ CommitSignals(r) \/ CommitCatalogs(r)

Next ==
  \/ \E r \in Runs :
       Start(r) \/ Refuse(r) \/ RunStep(r) \/ FailBatch(r) \/ LoseCommit(r)
  \/ \E s \in Signals : Ingest(s)
  \/ \E c \in Catalogs : Collect(c)

Spec == Init /\ [][Next]_vars

\* A started run keeps executing; its errors, the start of a run, ingestion
\* and collection owe nothing.
FairSpec == Spec /\ \A r \in Runs : WF_vars(RunStep(r))
-----------------------------------------------------------------------------
States == {"idle", "loop", "scan", "done", "failed"}

TypeOK ==
  /\ signals \in SUBSET Signals
  /\ collected \in SUBSET Catalogs
  /\ intact \in SUBSET collected
  /\ pc \in [Runs -> States]
  /\ front \in [Runs -> Fronts]
  /\ cutoff \in [Runs -> Nat]
  /\ batch \in [Runs -> Nat]
  /\ view \in [Runs -> SUBSET Rows]
  /\ lot \in [Runs -> SUBSET Rows]
  /\ batches \in [Runs -> Nat]
  /\ count \in [Runs -> [Fronts -> Nat]]
  /\ truncated \in [Runs -> BOOLEAN]
  /\ result \in [Runs -> [Fronts -> Nat]]
  /\ backlog \in [Runs -> SUBSET Signals]
  /\ effect \in [Fronts -> Nat]
  /\ released \in SUBSET Signals

\* What the command prints: an error of ApplyRetention hides the result.
Printed(r) == IF pc[r] = "done" THEN result[r] ELSE Zero

Ended(r) == pc[r] \in {"done", "failed"}

\* What the runs counted, in sum: the counts of each run, one by one.
Tallied(f) == UNION {{r} \X (1 .. count[r][f]) : r \in Runs}
Counted(f) == Cardinality(Tallied(f))

(***************************************************************************)
(* A run that left the telemetry loop on a short batch leaves no expired   *)
(* row without an owner: each row that was expired when it started is      *)
(* gone, or reserved by a run still at work, or was given back by a        *)
(* transaction that failed ("não sobra linha sem dono", ADR 0018).         *)
(***************************************************************************)
NoOrphanLeftBehind ==
  \A r \in Runs :
    front[r] = "catalogs" /\ ~truncated[r]
      => backlog[r] \subseteq released \cup
           UNION {lot[q] : q \in {p \in Runs \ {r} : front[p] = "signals"}}

(***************************************************************************)
(* When the runs have all ended and none failed, nothing that was expired  *)
(* when an untruncated run started is still stored, however their batches  *)
(* interleaved: the short batch is a stop signal that can be trusted.      *)
(***************************************************************************)
AllSucceededNothingLeft ==
  (\A r \in Runs : pc[r] \in {"idle", "done"})
    => \A r \in Runs : pc[r] = "done" /\ ~truncated[r] => backlog[r] = {}

(***************************************************************************)
(* Two runs never count the same row: the sum of what they counted is what *)
(* really left the tables, short only of commits whose answer was lost     *)
(* (ADR 0018: the sum of the reports equals what disappeared).             *)
(***************************************************************************)
NoWorkCountedTwice ==
  \A f \in Fronts :
    /\ Counted(f) <= effect[f]
    /\ (\A r \in Runs : pc[r] # "failed") => Counted(f) = effect[f]

(***************************************************************************)
(* The newest collection of every base keeps its content, whatever its age *)
(* and in whatever order collections and prunes interleave: a collection   *)
(* newer than all the others always finds a base line (ADR 0015).          *)
(***************************************************************************)
LatestCatalogIntact ==
  \A c \in collected : IsLatest(c) => c \in intact

(***************************************************************************)
(* A started run ends even if telemetry already expired keeps arriving:    *)
(* the ceiling of batches replaces a loop "until empty".                   *)
(***************************************************************************)
EveryRunEnds == \A r \in Runs : pc[r] = "loop" ~> Ended(r)

(***************************************************************************)
(* Refuted by the code (see README.md): apply_retention.go:99 promises     *)
(* that the partial result accompanies the error of the pruning, so that   *)
(* whoever operates learns what was already removed.                       *)
(***************************************************************************)
OperatorToldOfRemoval ==
  \A r \in Runs :
    pc[r] = "failed" /\ front[r] = "catalogs" => Printed(r) = count[r]

=============================================================================
