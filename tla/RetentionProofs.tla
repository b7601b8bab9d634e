-------------------------- MODULE RetentionProofs --------------------------
(***************************************************************************)
(* Theorems about Retention for any number of runs, rows and batch sizes,  *)
(* on both back ends.  IInv is the inductive invariant: what a transaction *)
(* reserved is still there, no two transactions hold the same row, and     *)
(* every row a run owes is still ahead of it, in its lot, in another lot,  *)
(* or was given back by a failure.                                         *)
(***************************************************************************)
EXTENDS Retention, FiniteSetTheorems, FunctionTheorems, TLAPS

\* A transaction reserves finitely many rows.
FiniteLots == \A r \in Runs : IsFiniteSet(lot[r])

\* Outside a transaction a run holds nothing; only an open one has a lot.
Quiet ==
  \A r \in Runs : pc[r] # "scan" => view[r] = {} /\ lot[r] = {}

\* A reserved row cannot disappear under its transaction.
Held ==
  \A r \in Runs : front[r] = "signals" => lot[r] \subseteq signals

\* No two runs on the same table reserve the same row.
Exclusive ==
  \A q, r \in Runs : q # r /\ front[q] = front[r] => lot[q] \cap lot[r] = {}

\* What a run owes is stored and expired.
Due ==
  \A r \in Runs : \A s \in backlog[r] : s \in signals /\ Stamp[s] < cutoff[r]

\* Rows reserved by the telemetry batches of the other runs.
Elsewhere(r) ==
  UNION {lot[q] : q \in {p \in Runs \ {r} : front[p] = "signals"}}

\* During a batch of telemetry every row owed is accounted for.
Covered ==
  \A r \in Runs :
    pc[r] = "scan" /\ front[r] = "signals"
      => backlog[r] \subseteq view[r] \cup lot[r] \cup Elsewhere(r) \cup released

\* Only collections that have a newer one are reserved for freeing.
Superseded ==
  \A r \in Runs : front[r] = "catalogs" => \A c \in lot[r] : ~IsLatest(c)

\* How the ends of the runs relate to the rest of the state.
Outcome ==
  /\ \A r \in Runs : pc[r] = "idle" => front[r] = "signals"
  /\ \A r \in Runs : pc[r] = "done" => front[r] = "catalogs"
  /\ (\A r \in Runs : pc[r] # "failed") => released = {}

IInv ==
  /\ TypeOK
  /\ FiniteLots
  /\ Quiet
  /\ Held
  /\ Exclusive
  /\ Due
  /\ Covered
  /\ NoOrphanLeftBehind
  /\ Superseded
  /\ LatestCatalogIntact
  /\ Outcome
-----------------------------------------------------------------------------
\* The initial states are well typed and satisfy every part of IInv.
LEMMA InitIInv == Init => IInv
<1> SUFFICES ASSUME Init PROVE IInv
  OBVIOUS
<1>1. TypeOK
  BY DEF Init, TypeOK, States, Fronts, Zero
<1>2. FiniteLots
  BY FS_EmptySet DEF Init, FiniteLots
<1>3. Quiet /\ Held /\ Exclusive /\ Due /\ Covered
  BY DEF Init, Quiet, Held, Exclusive, Due, Covered
<1>4. NoOrphanLeftBehind /\ Superseded /\ LatestCatalogIntact /\ Outcome
  BY DEF Init, NoOrphanLeftBehind, Superseded, LatestCatalogIntact, Outcome
<1> QED BY <1>1, <1>2, <1>3, <1>4 DEF IInv

\* The rows a commit affects are finitely many.
LEMMA AffectedCounts ==
  ASSUME TypeOK, FiniteLots, NEW r \in Runs, NEW S
  PROVE  /\ Cardinality(lot[r] \cap S) \in Nat
         /\ Cardinality(Affected(r)) \in Nat
<1>1. IsFiniteSet(lot[r])
  BY DEF FiniteLots
<1>2. IsFiniteSet(lot[r] \cap S) /\ IsFiniteSet(lot[r] \cap signals)
  BY <1>1, FS_Subset
<1> QED BY <1>1, <1>2, FS_CardinalityType DEF Affected

\* The rows selected by the statements are rows of the table.
LEMMA ExpiredRows ==
  ASSUME TypeOK, NEW f \in Fronts, NEW n
  PROVE  /\ Expired(f, n) \subseteq Rows
         /\ f = "signals" => Expired(f, n) \subseteq signals
BY DEF Expired, Rows, TypeOK, Fronts

\* What a commit does to the tables keeps their types.
LEMMA ApplyType ==
  ASSUME TypeOK, FiniteLots, NEW r \in Runs, Apply(r)
  PROVE  /\ signals' \in SUBSET Signals
         /\ collected' \in SUBSET Catalogs
         /\ intact' \in SUBSET collected'
         /\ backlog' \in [Runs -> SUBSET Signals]
         /\ effect' \in [Fronts -> Nat]
<1>1. Cardinality(lot[r] \cap signals) \in Nat
      /\ Cardinality(lot[r] \cap intact) \in Nat
  BY AffectedCounts
<1>2. CASE front[r] = "signals"
  BY <1>1, <1>2 DEF Apply, TypeOK, Fronts
<1>3. CASE front[r] # "signals"
  BY <1>1, <1>3 DEF Apply, TypeOK, Fronts
<1> QED BY <1>2, <1>3

\* Every action keeps the types of the variables.
LEMMA NextType == TypeOK /\ FiniteLots /\ Held /\ [Next]_vars => TypeOK'
<1> SUFFICES ASSUME TypeOK, FiniteLots, Held, [Next]_vars PROVE TypeOK'
  OBVIOUS
<1> USE SizesAssumption, RowsAssumption DEF States, TypeOK
<1>1. ASSUME NEW r \in Runs, Start(r) PROVE TypeOK'
  <2>1. PICK c \in Cutoffs, b \in BatchSizes :
          /\ cutoff' = [cutoff EXCEPT ![r] = c]
          /\ batch' = [batch EXCEPT ![r] = b]
          /\ backlog' = [backlog EXCEPT ![r] = Expired("signals", c)]
    BY <1>1 DEF Start
  <2>2. Expired("signals", c) \in SUBSET Signals
    BY DEF Expired
  <2> QED BY <1>1, <2>1, <2>2 DEF Start, tables, stmt, tally
<1>2. ASSUME NEW r \in Runs, Refuse(r) PROVE TypeOK'
  BY <1>2 DEF Refuse, tables, plan, stmt, tally, history
<1>3. ASSUME NEW r \in Runs, BeginBatch(r) PROVE TypeOK'
  <2>1. Expired(front[r], cutoff[r]) \in SUBSET Rows
    BY ExpiredRows
  <2> QED BY <1>3, <2>1 DEF BeginBatch, tables, plan, tally, history
<1>4. ASSUME NEW r \in Runs, ReserveRow(r) PROVE TypeOK'
  <2>1. PICK x \in view[r] :
          /\ view' = [view EXCEPT ![r] = @ \ {x}]
          /\ lot' = [lot EXCEPT ![r] =
                       @ \cup (({x} \cap Expired(front[r], cutoff[r]))
                                   \ ReservedByOthers(r))]
    BY <1>4 DEF ReserveRow
  <2> QED BY <1>4, <2>1 DEF ReserveRow, tables, plan, tally, history
<1>5. ASSUME NEW r \in Runs, CommitSignals(r) PROVE TypeOK'
  <2>1. Cardinality(Affected(r)) \in Nat
    BY AffectedCounts
  <2>2. count' \in [Runs -> [Fronts -> Nat]]
    BY <1>5, <2>1 DEF CommitSignals, Fronts
  <2>3. front' \in [Runs -> Fronts] /\ batches' \in [Runs -> Nat]
        /\ truncated' \in [Runs -> BOOLEAN] /\ pc' \in [Runs -> States]
    BY <1>5 DEF CommitSignals, Fronts
  <2> QED
    BY <1>5, <2>2, <2>3, ApplyType
    DEF CommitSignals, CloseTransaction, plan
<1>6. ASSUME NEW r \in Runs, CommitCatalogs(r) PROVE TypeOK'
  <2>1. Cardinality(Affected(r)) \in Nat
    BY AffectedCounts
  <2>2. count' \in [Runs -> [Fronts -> Nat]]
    BY <1>6, <2>1 DEF CommitCatalogs, Fronts
  <2>3. result' \in [Runs -> [Fronts -> Nat]]
    BY <1>6, <2>2 DEF CommitCatalogs
  <2>4. batches' \in [Runs -> Nat] /\ pc' \in [Runs -> States]
    BY <1>6 DEF CommitCatalogs
  <2> QED
    BY <1>6, <2>2, <2>3, <2>4, ApplyType
    DEF CommitCatalogs, CloseTransaction, plan
<1>7. ASSUME NEW r \in Runs, Fail(r)
      PROVE  /\ pc' \in [Runs -> States]
             /\ result' \in [Runs -> [Fronts -> Nat]]
             /\ view' \in [Runs -> SUBSET Rows]
             /\ lot' \in [Runs -> SUBSET Rows]
             /\ UNCHANGED <<collected, front, plan, batches, count, truncated>>
  <2>1. ErrorResult(r) \in [Fronts -> Nat]
    BY DEF ErrorResult, Zero, Fronts
  <2> QED BY <1>7, <2>1 DEF Fail, CloseTransaction
<1>8. ASSUME NEW r \in Runs, FailBatch(r) PROVE TypeOK'
  <2>1. released' \in SUBSET Signals
    BY <1>8 DEF FailBatch, Held
  <2> QED BY <1>7, <1>8, <2>1 DEF FailBatch, plan
<1>9. ASSUME NEW r \in Runs, LoseCommit(r) PROVE TypeOK'
  BY <1>7, <1>9, ApplyType DEF LoseCommit, plan
<1>10. ASSUME NEW s \in Signals, Ingest(s) PROVE TypeOK'
  BY <1>10 DEF Ingest, plan, stmt, tally, history
<1>11. ASSUME NEW c \in Catalogs, Collect(c) PROVE TypeOK'
  BY <1>11 DEF Collect, plan, stmt, tally, history
<1>12. CASE UNCHANGED vars
  BY <1>12 DEF vars, tables, plan, stmt, tally, history
<1> QED
  BY <1>1, <1>2, <1>3, <1>4, <1>5, <1>6, <1>8, <1>9, <1>10, <1>11, <1>12
  DEF Next, RunStep

\* What ReserveRow does to the statement of its run.
LEMMA ReserveRowStep ==
  ASSUME TypeOK, NEW r \in Runs, ReserveRow(r)
  PROVE  \E x \in view[r] :
           /\ view' = [view EXCEPT ![r] = view[r] \ {x}]
           /\ \/ /\ x \in Expired(front[r], cutoff[r])
                 /\ x \notin ReservedByOthers(r)
                 /\ lot' = [lot EXCEPT ![r] = lot[r] \cup {x}]
              \/ /\ \/ x \notin Expired(front[r], cutoff[r])
                    \/ x \in ReservedByOthers(r)
                 /\ lot' = lot
<1>1. PICK x \in view[r] :
        /\ view' = [view EXCEPT ![r] = view[r] \ {x}]
        /\ lot' = [lot EXCEPT ![r] =
                     lot[r] \cup (({x} \cap Expired(front[r], cutoff[r]))
                                      \ ReservedByOthers(r))]
  BY DEF ReserveRow
<1>2. CASE x \in Expired(front[r], cutoff[r]) /\ x \notin ReservedByOthers(r)
  <2>1. ({x} \cap Expired(front[r], cutoff[r])) \ ReservedByOthers(r) = {x}
    BY <1>2
  <2> QED BY <1>1, <1>2, <2>1
<1>3. CASE ~(x \in Expired(front[r], cutoff[r]) /\ x \notin ReservedByOthers(r))
  <2>1. ({x} \cap Expired(front[r], cutoff[r])) \ ReservedByOthers(r) = {}
    BY <1>3
  <2>2. lot' = lot
    BY <1>1, <2>1 DEF TypeOK
  <2> QED BY <1>1, <1>3, <2>2
<1> QED BY <1>2, <1>3

\* The end of a transaction: its lot is empty, the other lots are untouched.
LEMMA CloseStep ==
  ASSUME TypeOK, NEW r \in Runs, CloseTransaction(r)
  PROVE  /\ view'[r] = {} /\ lot'[r] = {}
         /\ \A q \in Runs \ {r} : view'[q] = view[q] /\ lot'[q] = lot[q]
BY DEF CloseTransaction, TypeOK

\* Reservations stay finite, exclusive and over rows that are still there.
LEMMA ReservationInv ==
  IInv /\ [Next]_vars => FiniteLots' /\ Quiet' /\ Held' /\ Exclusive'
<1> SUFFICES ASSUME IInv, [Next]_vars
             PROVE  FiniteLots' /\ Quiet' /\ Held' /\ Exclusive'
  OBVIOUS
<1> DEFINE Goal == FiniteLots' /\ Quiet' /\ Held' /\ Exclusive'
<1>t. TypeOK /\ FiniteLots /\ Quiet /\ Held /\ Exclusive /\ Outcome
  BY DEF IInv
<1>1. ASSUME NEW r \in Runs, Start(r) PROVE Goal
  BY <1>t, <1>1
  DEF Start, tables, stmt, FiniteLots, Quiet, Held, Exclusive, TypeOK
<1>2. ASSUME NEW r \in Runs, Refuse(r) PROVE Goal
  BY <1>t, <1>2
  DEF Refuse, tables, stmt, FiniteLots, Quiet, Held, Exclusive, TypeOK
<1>3. ASSUME NEW r \in Runs, BeginBatch(r) PROVE Goal
  BY <1>t, <1>3
  DEF BeginBatch, tables, FiniteLots, Quiet, Held, Exclusive, TypeOK
<1>4. ASSUME NEW r \in Runs, ReserveRow(r) PROVE Goal
  <2>0. UNCHANGED <<signals, pc, front>> /\ pc[r] = "scan"
    BY <1>4 DEF ReserveRow, tables, InTransaction
  <2>1. PICK x \in view[r] :
          /\ view' = [view EXCEPT ![r] = view[r] \ {x}]
          /\ \/ /\ x \in Expired(front[r], cutoff[r])
                /\ x \notin ReservedByOthers(r)
                /\ lot' = [lot EXCEPT ![r] = lot[r] \cup {x}]
             \/ lot' = lot
    BY <1>t, <1>4, ReserveRowStep
  <2>2. Quiet'
    BY <1>t, <2>0, <2>1 DEF Quiet, TypeOK
  <2>3. CASE lot' = lot
    BY <1>t, <2>0, <2>2, <2>3 DEF FiniteLots, Held, Exclusive
  <2>4. CASE /\ x \in Expired(front[r], cutoff[r])
             /\ x \notin ReservedByOthers(r)
             /\ lot' = [lot EXCEPT ![r] = lot[r] \cup {x}]
    <3>1. FiniteLots'
      BY <1>t, <2>4, FS_AddElement DEF FiniteLots, TypeOK
    <3>2. front[r] = "signals" => x \in signals
      BY <2>4 DEF Expired
    <3>3. Held'
      BY <1>t, <2>0, <2>4, <3>2 DEF Held, TypeOK
    <3>4. \A q \in Runs \ {r} : front[q] = front[r] => x \notin lot[q]
      BY <2>4 DEF ReservedByOthers
    <3>5. Exclusive'
      BY <1>t, <2>0, <2>4, <3>4 DEF Exclusive, TypeOK
    <3> QED BY <2>2, <3>1, <3>3, <3>5
  <2> QED BY <2>1, <2>3, <2>4
\* Closing a transaction whose rows alone may have left the table.
<1>5. ASSUME NEW r \in Runs, CloseTransaction(r), pc'[r] # "scan",
             \A q \in Runs \ {r} : pc'[q] = pc[q] /\ front'[q] = front[q],
             \/ signals' = signals
             \/ front[r] = "signals" /\ signals' = signals \ lot[r]
      PROVE  Goal
  <2>1. /\ view'[r] = {} /\ lot'[r] = {}
        /\ \A q \in Runs \ {r} : view'[q] = view[q] /\ lot'[q] = lot[q]
    BY <1>t, <1>5, CloseStep
  <2>2. FiniteLots'
    BY <1>t, <2>1, FS_EmptySet DEF FiniteLots
  <2>3. Quiet'
    BY <1>t, <1>5, <2>1 DEF Quiet
  <2>4. Held'
    BY <1>t, <1>5, <2>1 DEF Held, Exclusive
  <2>5. Exclusive'
    <3> SUFFICES ASSUME NEW p \in Runs, NEW q \in Runs, p # q,
                        front'[p] = front'[q]
                 PROVE  lot'[p] \cap lot'[q] = {}
      BY DEF Exclusive
    <3>1. CASE p = r \/ q = r
      BY <2>1, <3>1
    <3>2. CASE p # r /\ q # r
      BY <1>t, <1>5, <2>1, <3>2 DEF Exclusive
    <3> QED BY <3>1, <3>2
  <2> QED BY <2>2, <2>3, <2>4, <2>5
<1>6. ASSUME NEW r \in Runs, CommitSignals(r) PROVE Goal
  <2>1. pc'[r] # "scan"
        /\ \A q \in Runs \ {r} : pc'[q] = pc[q] /\ front'[q] = front[q]
    BY <1>t, <1>6 DEF CommitSignals, TypeOK
  <2> QED BY <1>5, <1>6, <2>1 DEF CommitSignals, Apply
<1>7. ASSUME NEW r \in Runs, CommitCatalogs(r) PROVE Goal
  <2>1. pc'[r] # "scan"
        /\ \A q \in Runs \ {r} : pc'[q] = pc[q] /\ front'[q] = front[q]
    BY <1>t, <1>7 DEF CommitCatalogs, TypeOK
  <2> QED BY <1>5, <1>7, <2>1 DEF CommitCatalogs, Apply
<1>8. ASSUME NEW r \in Runs, FailBatch(r) \/ LoseCommit(r) PROVE Goal
  <2>1. pc'[r] # "scan"
        /\ \A q \in Runs \ {r} : pc'[q] = pc[q] /\ front'[q] = front[q]
    BY <1>t, <1>8 DEF FailBatch, LoseCommit, Fail, TypeOK
  <2> QED BY <1>5, <1>8, <2>1 DEF FailBatch, LoseCommit, Fail, Apply
<1>9. ASSUME NEW s \in Signals, Ingest(s) PROVE Goal
  BY <1>t, <1>9
  DEF Ingest, stmt, FiniteLots, Quiet, Held, Exclusive
<1>10. ASSUME NEW c \in Catalogs, Collect(c) PROVE Goal
  BY <1>t, <1>10
  DEF Collect, stmt, FiniteLots, Quiet, Held, Exclusive
<1>11. CASE UNCHANGED vars
  BY <1>t, <1>11
  DEF vars, tables, stmt, FiniteLots, Quiet, Held, Exclusive
<1> QED
  BY <1>1, <1>2, <1>3, <1>4, <1>6, <1>7, <1>8, <1>9, <1>10, <1>11
  DEF Next, RunStep

\* A short batch examined everything its statement saw.
LEMMA ShortBatchSawAll ==
  ASSUME IInv, NEW r \in Runs, front[r] = "signals",
         StatementDone(r), ShortBatch(r)
  PROVE  view[r] = {}
<1>1. lot[r] \cap signals = lot[r]
  BY DEF IInv, Held
<1>2. Cardinality(lot[r]) < batch[r]
  BY <1>1 DEF ShortBatch, Affected
<1>3. Cardinality(lot[r]) \in Nat /\ batch[r] \in Nat
  BY FS_CardinalityType DEF IInv, TypeOK, FiniteLots
<1> QED BY <1>2, <1>3 DEF StatementDone

\* A commit of telemetry, acknowledged or not: rows leave the table and the
\* backlogs together, and the run no longer has a batch of telemetry open.
LEMMA RemovalDrains ==
  ASSUME IInv, NEW r \in Runs, front[r] = "signals", pc[r] = "scan",
         StatementDone(r),
         signals' = signals \ lot[r],
         backlog' = [q \in Runs |-> backlog[q] \ lot[r]],
         CloseTransaction(r),
         UNCHANGED <<cutoff, released>>,
         pc'[r] # "scan",
         front'[r] = "catalogs" => ShortBatch(r) \/ truncated'[r],
         \A q \in Runs \ {r} : /\ pc'[q] = pc[q] /\ front'[q] = front[q]
                               /\ truncated'[q] = truncated[q]
  PROVE  Due' /\ Covered' /\ NoOrphanLeftBehind'
<1>1. /\ view'[r] = {} /\ lot'[r] = {}
      /\ \A q \in Runs \ {r} : view'[q] = view[q] /\ lot'[q] = lot[q]
  BY CloseStep DEF IInv
<1>2. Due'
  BY DEF IInv, Due
<1>3. \A q \in Runs \ {r} : Elsewhere(q) \subseteq Elsewhere(q)' \cup lot[r]
  BY <1>1 DEF Elsewhere
<1>4. Elsewhere(r) \subseteq Elsewhere(r)'
  BY <1>1 DEF Elsewhere
<1>5. ASSUME NEW q \in Runs, pc'[q] = "scan", front'[q] = "signals"
      PROVE  backlog'[q] \subseteq view'[q] \cup lot'[q] \cup Elsewhere(q)'
                                     \cup released'
  <2>1. q # r
    BY <1>5
  <2>2. backlog[q] \subseteq view[q] \cup lot[q] \cup Elsewhere(q) \cup released
    BY <1>5, <2>1 DEF IInv, Covered
  <2> QED BY <1>1, <1>3, <2>1, <2>2
<1>6. ASSUME NEW q \in Runs, front'[q] = "catalogs", ~truncated'[q]
      PROVE  backlog'[q] \subseteq released' \cup Elsewhere(q)'
  <2>1. CASE q = r
    <3>1. view[r] = {}
      BY <1>6, <2>1, ShortBatchSawAll
    <3>2. backlog[r] \subseteq lot[r] \cup Elsewhere(r) \cup released
      BY <3>1 DEF IInv, Covered
    <3> QED BY <1>4, <2>1, <3>2
  <2>2. CASE q # r
    <3>1. backlog[q] \subseteq released \cup Elsewhere(q)
      BY <1>6, <2>2 DEF IInv, NoOrphanLeftBehind, Elsewhere
    <3> QED BY <1>3, <2>2, <3>1
  <2> QED BY <2>1, <2>2
<1> QED BY <1>2, <1>5, <1>6 DEF Covered, NoOrphanLeftBehind, Elsewhere

\* Steps that move no lot of telemetry and remove no row keep the accounts.
LEMMA NothingDrained ==
  ASSUME IInv,
         signals \subseteq signals',
         \A q \in Runs : /\ backlog'[q] = backlog[q] /\ cutoff'[q] = cutoff[q]
                         /\ front'[q] = front[q] /\ truncated'[q] = truncated[q]
                         /\ pc'[q] = "scan" /\ front[q] = "signals"
                              => pc[q] = "scan" /\ view'[q] = view[q]
                         /\ front[q] = "signals" => lot'[q] = lot[q],
         released \subseteq released'
  PROVE  Due' /\ Covered' /\ NoOrphanLeftBehind'
<1>1. \A q \in Runs : Elsewhere(q)' = Elsewhere(q)
  BY DEF Elsewhere
<1>2. Due'
  BY DEF IInv, Due
<1>3. Covered'
  BY <1>1 DEF IInv, Covered
<1>4. NoOrphanLeftBehind'
  BY <1>1 DEF IInv, NoOrphanLeftBehind, Elsewhere
<1> QED BY <1>2, <1>3, <1>4

\* Every row a run owes stays accounted for.
LEMMA DrainInv ==
  IInv /\ [Next]_vars => Due' /\ Covered' /\ NoOrphanLeftBehind'
<1> SUFFICES ASSUME IInv, [Next]_vars
             PROVE  Due' /\ Covered' /\ NoOrphanLeftBehind'
  OBVIOUS
<1> DEFINE Goal == Due' /\ Covered' /\ NoOrphanLeftBehind'
<1>t. TypeOK /\ Due /\ Covered /\ Outcome /\ Quiet
  BY DEF IInv
<1>1. ASSUME NEW r \in Runs, Start(r) PROVE Goal
  <2>0. /\ pc[r] = "idle" /\ front[r] = "signals"
        /\ pc' = [pc EXCEPT ![r] = "loop"]
        /\ UNCHANGED <<signals, front, view, lot, truncated, released>>
    BY <1>t, <1>1 DEF Start, tables, stmt, tally, Outcome
  <2>1. PICK c \in Cutoffs :
          /\ cutoff' = [cutoff EXCEPT ![r] = c]
          /\ backlog' = [backlog EXCEPT ![r] = Expired("signals", c)]
    BY <1>1 DEF Start
  <2>2. Due'
    BY <1>t, <2>0, <2>1 DEF Due, TypeOK, Expired
  <2>3. \A q \in Runs : Elsewhere(q)' = Elsewhere(q)
    BY <2>0 DEF Elsewhere
  <2>4. \A q \in Runs \ {r} : backlog'[q] = backlog[q] /\ pc'[q] = pc[q]
    BY <1>t, <2>0, <2>1 DEF TypeOK
  <2>5. pc'[r] # "scan"
    BY <1>t, <2>0 DEF TypeOK
  <2>6. Covered'
    BY <1>t, <2>0, <2>3, <2>4, <2>5 DEF Covered
  <2>7. NoOrphanLeftBehind'
    BY <2>0, <2>3, <2>4 DEF IInv, NoOrphanLeftBehind, Elsewhere
  <2> QED BY <2>2, <2>6, <2>7
<1>2. ASSUME NEW r \in Runs, Refuse(r) PROVE Goal
  <2>1. pc' = [pc EXCEPT ![r] = "failed"]
    BY <1>2 DEF Refuse
  <2> QED
    BY <1>t, <1>2, <2>1, NothingDrained
    DEF Refuse, tables, plan, stmt, tally, history, TypeOK
<1>3. ASSUME NEW r \in Runs, BeginBatch(r) PROVE Goal
  <2>0. /\ pc' = [pc EXCEPT ![r] = "scan"]
        /\ view' = [view EXCEPT ![r] = Expired(front[r], cutoff[r])]
        /\ UNCHANGED <<signals, front, cutoff, lot, truncated, backlog, released>>
    BY <1>3 DEF BeginBatch, tables, plan, tally, history
  <2>1. \A q \in Runs : Elsewhere(q)' = Elsewhere(q)
    BY <2>0 DEF Elsewhere
  <2>2. Due'
    BY <1>t, <2>0 DEF Due
  <2>3. ASSUME NEW q \in Runs, pc'[q] = "scan", front[q] = "signals"
        PROVE  backlog[q] \subseteq view'[q] \cup lot[q] \cup Elsewhere(q)
                                      \cup released
    <3>1. CASE q = r
      BY <1>t, <2>0, <2>3, <3>1 DEF Due, Expired, TypeOK
    <3>2. CASE q # r
      BY <1>t, <2>0, <2>3, <3>2 DEF Covered, TypeOK
    <3> QED BY <3>1, <3>2
  <2>4. Covered'
    BY <2>0, <2>1, <2>3 DEF Covered
  <2>5. NoOrphanLeftBehind'
    BY <2>0, <2>1 DEF IInv, NoOrphanLeftBehind, Elsewhere
  <2> QED BY <2>2, <2>4, <2>5
<1>4. ASSUME NEW r \in Runs, ReserveRow(r) PROVE Goal
  <2>0. /\ UNCHANGED <<signals, front, cutoff, truncated, backlog, released, pc>>
        /\ pc[r] = "scan"
    BY <1>4 DEF ReserveRow, tables, plan, tally, history, InTransaction
  <2>1. PICK x \in view[r] :
          /\ view' = [view EXCEPT ![r] = view[r] \ {x}]
          /\ \/ /\ x \in Expired(front[r], cutoff[r])
                /\ x \notin ReservedByOthers(r)
                /\ lot' = [lot EXCEPT ![r] = lot[r] \cup {x}]
             \/ /\ \/ x \notin Expired(front[r], cutoff[r])
                   \/ x \in ReservedByOthers(r)
                /\ lot' = lot
    BY <1>t, <1>4, ReserveRowStep
  <2>2. \A q \in Runs : lot[q] \subseteq lot'[q]
    BY <1>t, <2>1 DEF TypeOK
  <2>3. \A q \in Runs : Elsewhere(q) \subseteq Elsewhere(q)'
    BY <2>0, <2>2 DEF Elsewhere
  <2>4. Due'
    BY <1>t, <2>0 DEF Due
  <2>5. ASSUME NEW q \in Runs, pc[q] = "scan", front[q] = "signals"
        PROVE  backlog[q] \subseteq view'[q] \cup lot'[q] \cup Elsewhere(q)'
                                      \cup released
    <3>1. backlog[q] \subseteq view[q] \cup lot[q] \cup Elsewhere(q) \cup released
      BY <1>t, <2>5 DEF Covered
    <3>2. CASE q # r
      BY <1>t, <2>1, <2>2, <2>3, <3>1, <3>2 DEF TypeOK
    <3>3. CASE q = r
      <4>1. view'[r] = view[r] \ {x}
        BY <1>t, <2>1 DEF TypeOK
      <4>2. x \in backlog[r] => x \in Expired(front[r], cutoff[r])
        BY <1>t, <2>5, <3>3 DEF Due, Expired
      <4>3. x \in ReservedByOthers(r) => x \in Elsewhere(r)
        BY <2>5, <3>3 DEF ReservedByOthers, Elsewhere
      <4>4. x \in backlog[r] => x \in lot'[r] \cup Elsewhere(r)
        BY <1>t, <2>1, <4>2, <4>3 DEF TypeOK
      <4> QED BY <2>2, <2>3, <3>1, <3>3, <4>1, <4>4
    <3> QED BY <3>2, <3>3
  <2>6. Covered'
    BY <2>0, <2>5 DEF Covered
  <2>7. NoOrphanLeftBehind'
    BY <2>0, <2>3 DEF IInv, NoOrphanLeftBehind, Elsewhere
  <2> QED BY <2>4, <2>6, <2>7
<1>5. ASSUME NEW r \in Runs, CommitSignals(r) PROVE Goal
  <2>1. /\ pc' = [pc EXCEPT ![r] = "loop"]
        /\ front' = [front EXCEPT ![r] =
                       IF LastBatch(r) THEN "catalogs" ELSE front[r]]
        /\ truncated' = [truncated EXCEPT ![r] = LastBatch(r) /\ ~ShortBatch(r)]
    BY <1>5 DEF CommitSignals
  <2>2. front'[r] = "catalogs" => ShortBatch(r) \/ truncated'[r]
    BY <1>t, <1>5, <2>1 DEF CommitSignals, TypeOK
  <2> QED
    BY <1>t, <1>5, <2>1, <2>2, RemovalDrains
    DEF CommitSignals, Apply, InTransaction, plan, TypeOK
<1>6. ASSUME NEW r \in Runs, CommitCatalogs(r) PROVE Goal
  <2>1. /\ \A q \in Runs \ {r} :
             pc'[q] = pc[q] /\ view'[q] = view[q] /\ lot'[q] = lot[q]
        /\ UNCHANGED <<signals, front, cutoff, truncated, backlog, released>>
        /\ front[r] = "catalogs"
    BY <1>t, <1>6, CloseStep DEF CommitCatalogs, Apply, plan, TypeOK
  <2> QED BY <2>1, NothingDrained
<1>7. ASSUME NEW r \in Runs, FailBatch(r) PROVE Goal
  <2>1. /\ pc' = [pc EXCEPT ![r] = "failed"]
        /\ view'[r] = {} /\ lot'[r] = {}
        /\ \A q \in Runs \ {r} : view'[q] = view[q] /\ lot'[q] = lot[q]
        /\ released' = released \cup
                         (IF front[r] = "signals" THEN lot[r] ELSE {})
        /\ UNCHANGED <<signals, front, cutoff, truncated, backlog>>
    BY <1>t, <1>7, CloseStep DEF FailBatch, Fail, plan
  <2>2. \A q \in Runs : Elsewhere(q) \cup released
                          \subseteq Elsewhere(q)' \cup released'
    BY <2>1 DEF Elsewhere
  <2>3. Due'
    BY <1>t, <2>1 DEF Due
  <2>4. Covered'
    BY <1>t, <2>1, <2>2 DEF Covered, TypeOK
  <2>5. NoOrphanLeftBehind'
    BY <2>1, <2>2 DEF IInv, NoOrphanLeftBehind, Elsewhere
  <2> QED BY <2>3, <2>4, <2>5
<1>8. ASSUME NEW r \in Runs, LoseCommit(r) PROVE Goal
  <2>1. /\ pc' = [pc EXCEPT ![r] = "failed"]
        /\ CloseTransaction(r) /\ Apply(r) /\ StatementDone(r)
        /\ pc[r] = "scan"
        /\ UNCHANGED <<front, cutoff, truncated, released>>
    BY <1>8 DEF LoseCommit, Fail, InTransaction, plan
  <2>2. CASE front[r] = "signals"
    BY <1>t, <2>1, <2>2, RemovalDrains DEF Apply, TypeOK
  <2>3. CASE front[r] # "signals"
    <3>1. /\ \A q \in Runs \ {r} :
               pc'[q] = pc[q] /\ view'[q] = view[q] /\ lot'[q] = lot[q]
          /\ UNCHANGED <<signals, backlog>>
      BY <1>t, <2>1, <2>3, CloseStep DEF Apply, TypeOK
    <3> QED BY <2>1, <2>3, <3>1, NothingDrained
  <2> QED BY <2>2, <2>3
<1>9. ASSUME NEW s \in Signals, Ingest(s) PROVE Goal
  BY <1>t, <1>9, NothingDrained DEF Ingest, plan, stmt, tally, history
<1>10. ASSUME NEW c \in Catalogs, Collect(c) PROVE Goal
  BY <1>t, <1>10, NothingDrained DEF Collect, plan, stmt, tally, history
<1>11. CASE UNCHANGED vars
  BY <1>t, <1>11, NothingDrained
  DEF vars, tables, plan, stmt, tally, history
<1> QED
  BY <1>1, <1>2, <1>3, <1>4, <1>5, <1>6, <1>7, <1>8, <1>9, <1>10, <1>11
  DEF Next, RunStep

\* A collection that has a newer one never becomes the newest again.
LEMMA SupersededForever ==
  ASSUME collected \subseteq collected', NEW c, ~IsLatest(c)
  PROVE  ~IsLatest(c)'
BY DEF IsLatest

\* Only superseded collections are reserved, so only they are emptied.
LEMMA CatalogInv ==
  IInv /\ [Next]_vars => Superseded' /\ LatestCatalogIntact'
<1> SUFFICES ASSUME IInv, [Next]_vars
             PROVE  Superseded' /\ LatestCatalogIntact'
  OBVIOUS
<1> DEFINE Goal == Superseded' /\ LatestCatalogIntact'
<1>t. TypeOK /\ Quiet /\ Superseded /\ LatestCatalogIntact /\ Outcome
  BY DEF IInv
\* Steps that touch no collection and only shrink the lots of catalogs.
<1>a. ASSUME UNCHANGED <<collected, intact>>,
             \A q \in Runs : front'[q] = "catalogs"
               => \/ front[q] = "catalogs" /\ lot'[q] \subseteq lot[q]
                  \/ lot'[q] = {}
      PROVE  Goal
  <2>1. \A c : IsLatest(c)' = IsLatest(c)
    BY <1>a DEF IsLatest
  <2> QED BY <1>t, <1>a, <2>1 DEF Superseded, LatestCatalogIntact
\* Steps that free the content of the lot of a run.
<1>b. ASSUME NEW r \in Runs, CloseTransaction(r), Apply(r),
             \A q \in Runs \ {r} : front'[q] = front[q]
      PROVE  Goal
  <2>1. /\ lot'[r] = {}
        /\ \A q \in Runs \ {r} : lot'[q] = lot[q]
    BY <1>t, <1>b, CloseStep
  <2>2. CASE front[r] = "signals"
    BY <1>a, <1>b, <2>1, <2>2 DEF Apply
  <2>3. CASE front[r] # "signals"
    <3>1. front[r] = "catalogs"
      BY <1>t, <2>3 DEF TypeOK, Fronts
    <3>2. collected' = collected /\ intact' = intact \ lot[r]
      BY <1>b, <2>3 DEF Apply
    <3>3. \A c : IsLatest(c)' = IsLatest(c)
      BY <3>2 DEF IsLatest
    <3>4. Superseded'
      BY <1>t, <1>b, <2>1, <3>3 DEF Superseded
    <3>5. LatestCatalogIntact'
      BY <1>t, <3>1, <3>2, <3>3 DEF Superseded, LatestCatalogIntact
    <3> QED BY <3>4, <3>5
  <2> QED BY <2>2, <2>3
<1>1. ASSUME NEW r \in Runs, Start(r) \/ Refuse(r) \/ BeginBatch(r) PROVE Goal
  BY <1>1, <1>a DEF Start, Refuse, BeginBatch, tables, stmt, plan
<1>2. ASSUME NEW r \in Runs, ReserveRow(r) PROVE Goal
  <2>0. UNCHANGED <<collected, intact, front>>
    BY <1>2 DEF ReserveRow, tables
  <2>1. PICK x \in view[r] :
          \/ /\ x \in Expired(front[r], cutoff[r])
             /\ lot' = [lot EXCEPT ![r] = lot[r] \cup {x}]
          \/ lot' = lot
    BY <1>t, <1>2, ReserveRowStep
  <2>2. CASE lot' = lot \/ front[r] # "catalogs"
    BY <1>t, <1>a, <2>0, <2>1, <2>2 DEF TypeOK
  <2>3. CASE /\ front[r] = "catalogs"
             /\ x \in Expired(front[r], cutoff[r])
             /\ lot' = [lot EXCEPT ![r] = lot[r] \cup {x}]
    <3>1. \A c : IsLatest(c)' = IsLatest(c)
      BY <2>0 DEF IsLatest
    <3>2. ~IsLatest(x)
      BY <2>3 DEF Expired
    <3>3. Superseded'
      BY <1>t, <2>0, <2>3, <3>1, <3>2 DEF Superseded, TypeOK
    <3>4. LatestCatalogIntact'
      BY <1>t, <2>0, <3>1 DEF LatestCatalogIntact
    <3> QED BY <3>3, <3>4
  <2> QED BY <2>1, <2>2, <2>3
<1>3. ASSUME NEW r \in Runs, CommitSignals(r) PROVE Goal
  <2>1. \A q \in Runs \ {r} : front'[q] = front[q]
    BY <1>t, <1>3 DEF CommitSignals, TypeOK
  <2> QED BY <1>3, <1>b, <2>1 DEF CommitSignals
<1>4. ASSUME NEW r \in Runs, CommitCatalogs(r) PROVE Goal
  BY <1>4, <1>b DEF CommitCatalogs
<1>5. ASSUME NEW r \in Runs, FailBatch(r) PROVE Goal
  <2>1. /\ UNCHANGED <<collected, intact, front>>
        /\ lot'[r] = {}
        /\ \A q \in Runs \ {r} : lot'[q] = lot[q]
    BY <1>t, <1>5, CloseStep DEF FailBatch, Fail
  <2> QED BY <1>a, <2>1
<1>6. ASSUME NEW r \in Runs, LoseCommit(r) PROVE Goal
  BY <1>6, <1>b DEF LoseCommit, Fail
<1>7. ASSUME NEW s \in Signals, Ingest(s) PROVE Goal
  BY <1>7, <1>a DEF Ingest, stmt
<1>8. ASSUME NEW c \in Catalogs, Collect(c) PROVE Goal
  <2>1. /\ collected' = collected \cup {c} /\ intact' = intact \cup {c}
        /\ UNCHANGED <<front, lot>>
    BY <1>8 DEF Collect, stmt
  <2>2. \A d : ~IsLatest(d) => ~IsLatest(d)'
    BY <2>1, SupersededForever
  <2>3. Superseded'
    BY <1>t, <2>1, <2>2 DEF Superseded
  <2>4. LatestCatalogIntact'
    BY <1>t, <2>1, <2>2 DEF LatestCatalogIntact
  <2> QED BY <2>3, <2>4
<1>9. CASE UNCHANGED vars
  BY <1>9, <1>a DEF vars, tables, stmt
<1> QED
  BY <1>1, <1>2, <1>3, <1>4, <1>5, <1>6, <1>7, <1>8, <1>9
  DEF Next, RunStep

\* How the ends of the runs relate to the rest of the state is kept.
LEMMA OutcomeInv == IInv /\ [Next]_vars => Outcome'
<1> SUFFICES ASSUME IInv, [Next]_vars PROVE Outcome'
  OBVIOUS
<1>t. TypeOK /\ Quiet /\ Outcome
  BY DEF IInv
<1>1. ASSUME NEW r \in Runs, Start(r) \/ Refuse(r) PROVE Outcome'
  BY <1>t, <1>1
  DEF Start, Refuse, Outcome, TypeOK, States, tally, plan, stmt, history
<1>2. ASSUME NEW r \in Runs, BeginBatch(r) \/ ReserveRow(r) PROVE Outcome'
  BY <1>t, <1>2 DEF BeginBatch, ReserveRow, Outcome, TypeOK, history
<1>3. ASSUME NEW r \in Runs, CommitSignals(r) PROVE Outcome'
  BY <1>t, <1>3 DEF CommitSignals, Outcome, TypeOK, InTransaction
<1>4. ASSUME NEW r \in Runs, CommitCatalogs(r) PROVE Outcome'
  BY <1>t, <1>4 DEF CommitCatalogs, Outcome, TypeOK, InTransaction
<1>5. ASSUME NEW r \in Runs, FailBatch(r) \/ LoseCommit(r) PROVE Outcome'
  BY <1>t, <1>5 DEF FailBatch, LoseCommit, Fail, Outcome, TypeOK
<1>6. ASSUME NEW s \in Signals, Ingest(s) PROVE Outcome'
  BY <1>t, <1>6 DEF Ingest, Outcome, history
<1>7. ASSUME NEW c \in Catalogs, Collect(c) PROVE Outcome'
  BY <1>t, <1>7 DEF Collect, Outcome, history
<1>8. CASE UNCHANGED vars
  BY <1>t, <1>8 DEF vars, Outcome, history
<1> QED
  BY <1>1, <1>2, <1>3, <1>4, <1>5, <1>6, <1>7, <1>8 DEF Next, RunStep

\* IInv holds in every reachable state.
THEOREM Invariance == Spec => []IInv
<1>1. Init => IInv
  BY InitIInv
<1>2. IInv /\ [Next]_vars => IInv'
  BY NextType, ReservationInv, DrainInv, CatalogInv, OutcomeInv DEF IInv
<1> QED BY <1>1, <1>2, PTL DEF Spec

(***************************************************************************)
(* The variables keep their types, for every number of runs and rows.      *)
(***************************************************************************)
THEOREM TypeCorrect == Spec => []TypeOK
<1>1. IInv => TypeOK
  BY DEF IInv
<1> QED BY Invariance, <1>1, PTL

(***************************************************************************)
(* A run that leaves the telemetry loop on a short batch leaves no expired *)
(* row without an owner, whatever the other runs do.                       *)
(***************************************************************************)
THEOREM NoOrphan == Spec => []NoOrphanLeftBehind
<1>1. IInv => NoOrphanLeftBehind
  BY DEF IInv
<1> QED BY Invariance, <1>1, PTL

(***************************************************************************)
(* Runs that all succeed without truncation leave nothing of what was      *)
(* expired when they started.                                              *)
(***************************************************************************)
THEOREM AllSucceededDrained == Spec => []AllSucceededNothingLeft
<1>1. IInv => AllSucceededNothingLeft
  <2> SUFFICES ASSUME IInv, \A q \in Runs : pc[q] \in {"idle", "done"},
                      NEW r \in Runs, pc[r] = "done", ~truncated[r]
               PROVE  backlog[r] = {}
    BY DEF AllSucceededNothingLeft
  <2>1. \A q \in Runs : lot[q] = {}
    BY DEF IInv, Quiet
  <2>2. released = {} /\ front[r] = "catalogs"
    BY DEF IInv, Outcome
  <2> QED BY <2>1, <2>2 DEF IInv, NoOrphanLeftBehind
<1> QED BY Invariance, <1>1, PTL

(***************************************************************************)
(* The newest collection of every base keeps its content.                  *)
(***************************************************************************)
THEOREM BaseLineSurvives == Spec => []LatestCatalogIntact
<1>1. IInv => LatestCatalogIntact
  BY DEF IInv
<1> QED BY Invariance, <1>1, PTL
-----------------------------------------------------------------------------
(***************************************************************************)
(* What was counted and what was done. A commit affects what it counts     *)
(* only because what it reserved is still there: of telemetry, by Held; of *)
(* catalogs, because nobody empties a row another transaction holds.       *)
(***************************************************************************)
HeldIntact ==
  \A r \in Runs : front[r] = "catalogs" => lot[r] \subseteq intact

TallyInv ==
  \A f \in Fronts :
    /\ IsFiniteSet(Tallied(f))
    /\ Counted(f) <= effect[f]
    /\ (\A r \in Runs : pc[r] # "failed") => Counted(f) = effect[f]

\* The rows a transaction reserved keep their content until it ends.
LEMMA HeldIntactInv == IInv /\ HeldIntact /\ [Next]_vars => HeldIntact'
<1> SUFFICES ASSUME IInv, HeldIntact, [Next]_vars PROVE HeldIntact'
  OBVIOUS
<1>t. TypeOK /\ Quiet /\ Exclusive
  BY DEF IInv
\* Steps that free nothing and reserve nothing.
<1>a. ASSUME intact \subseteq intact',
             \A q \in Runs : front'[q] = "catalogs"
               => \/ front[q] = "catalogs" /\ lot'[q] \subseteq lot[q]
                  \/ lot'[q] = {}
      PROVE  HeldIntact'
  BY <1>a DEF HeldIntact
\* Steps that free the content of the lot of a run.
<1>b. ASSUME NEW r \in Runs, CloseTransaction(r), Apply(r),
             \A q \in Runs \ {r} : front'[q] = front[q]
      PROVE  HeldIntact'
  <2>1. /\ lot'[r] = {}
        /\ \A q \in Runs \ {r} : lot'[q] = lot[q]
    BY <1>t, <1>b, CloseStep
  <2>2. CASE front[r] = "signals"
    BY <1>a, <1>b, <2>1, <2>2 DEF Apply
  <2>3. CASE front[r] # "signals"
    <3>1. front[r] = "catalogs" /\ intact' = intact \ lot[r]
      BY <1>t, <1>b, <2>3 DEF TypeOK, Fronts, Apply
    <3>2. \A q \in Runs \ {r} : front[q] = "catalogs" => lot[q] \cap lot[r] = {}
      BY <1>t, <3>1 DEF Exclusive
    <3> QED BY <1>b, <2>1, <3>1, <3>2 DEF HeldIntact
  <2> QED BY <2>2, <2>3
<1>1. ASSUME NEW r \in Runs, Start(r) \/ Refuse(r) \/ BeginBatch(r)
      PROVE  HeldIntact'
  BY <1>1, <1>a DEF Start, Refuse, BeginBatch, tables, stmt, plan
<1>2. ASSUME NEW r \in Runs, ReserveRow(r) PROVE HeldIntact'
  <2>0. UNCHANGED <<collected, intact, front>>
    BY <1>2 DEF ReserveRow, tables
  <2>1. PICK x \in view[r] :
          \/ /\ x \in Expired(front[r], cutoff[r])
             /\ lot' = [lot EXCEPT ![r] = lot[r] \cup {x}]
          \/ lot' = lot
    BY <1>t, <1>2, ReserveRowStep
  <2>2. CASE lot' = lot
    BY <1>a, <2>0, <2>2
  <2>3. CASE /\ x \in Expired(front[r], cutoff[r])
             /\ lot' = [lot EXCEPT ![r] = lot[r] \cup {x}]
    <3>1. front[r] = "catalogs" => x \in intact
      BY <2>3 DEF Expired
    <3> QED BY <1>t, <2>0, <2>3, <3>1 DEF HeldIntact, TypeOK
  <2> QED BY <2>1, <2>2, <2>3
<1>3. ASSUME NEW r \in Runs, CommitSignals(r) PROVE HeldIntact'
  <2>1. \A q \in Runs \ {r} : front'[q] = front[q]
    BY <1>t, <1>3 DEF CommitSignals, TypeOK
  <2> QED BY <1>3, <1>b, <2>1 DEF CommitSignals
<1>4. ASSUME NEW r \in Runs, CommitCatalogs(r) PROVE HeldIntact'
  BY <1>4, <1>b DEF CommitCatalogs
<1>5. ASSUME NEW r \in Runs, FailBatch(r) PROVE HeldIntact'
  <2>1. /\ UNCHANGED <<intact, front>>
        /\ lot'[r] = {}
        /\ \A q \in Runs \ {r} : lot'[q] = lot[q]
    BY <1>t, <1>5, CloseStep DEF FailBatch, Fail
  <2> QED BY <1>a, <2>1
<1>6. ASSUME NEW r \in Runs, LoseCommit(r) PROVE HeldIntact'
  BY <1>6, <1>b DEF LoseCommit, Fail
<1>7. ASSUME NEW s \in Signals, Ingest(s) PROVE HeldIntact'
  BY <1>7, <1>a DEF Ingest, stmt
<1>8. ASSUME NEW c \in Catalogs, Collect(c) PROVE HeldIntact'
  BY <1>8, <1>a DEF Collect, stmt
<1>9. CASE UNCHANGED vars
  BY <1>9, <1>a DEF vars, tables, stmt
<1> QED
  BY <1>1, <1>2, <1>3, <1>4, <1>5, <1>6, <1>7, <1>8, <1>9
  DEF Next, RunStep

\* A run that counts n rows more adds n to the sum of what runs counted.
LEMMA TalliedGrows ==
  ASSUME TypeOK, NEW r \in Runs, NEW f \in Fronts, NEW n \in Nat,
         count' = [count EXCEPT ![r][f] = @ + n],
         \A g \in Fronts : IsFiniteSet(Tallied(g))
  PROVE  /\ IsFiniteSet(Tallied(f)')
         /\ Counted(f)' = Counted(f) + n
         /\ Counted(f) \in Nat
         /\ \A g \in Fronts \ {f} : Tallied(g)' = Tallied(g)
<1> DEFINE c == count[r][f]
           more == {r} \X (c + 1 .. c + n)
           number == [k \in c + 1 .. c + n |-> <<r, k>>]
<1>1. c \in Nat
  BY DEF TypeOK
<1>2. /\ count'[r][f] = c + n
      /\ \A q \in Runs \ {r} : count'[q] = count[q]
      /\ \A g \in Fronts \ {f} : count'[r][g] = count[r][g]
  BY DEF TypeOK
<1>3. Tallied(f)' = Tallied(f) \cup more
  <2>1. \A x : x \in 1 .. c + n <=> x \in 1 .. c \/ x \in c + 1 .. c + n
    BY <1>1
  <2> HIDE DEF c
  <2>2. {r} \X (1 .. c + n) = ({r} \X (1 .. c)) \cup more
    BY <2>1
  <2>3. Tallied(f) = (UNION {{q} \X (1 .. count[q][f]) : q \in Runs \ {r}})
                       \cup ({r} \X (1 .. c))
    BY DEF Tallied, c
  <2>4. Tallied(f)' = (UNION {{q} \X (1 .. count'[q][f]) : q \in Runs \ {r}})
                        \cup ({r} \X (1 .. count'[r][f]))
    BY DEF Tallied
  <2>5. UNION {{q} \X (1 .. count'[q][f]) : q \in Runs \ {r}}
          = UNION {{q} \X (1 .. count[q][f]) : q \in Runs \ {r}}
    BY <1>2
  <2> QED BY <1>2, <2>2, <2>3, <2>4, <2>5
<1>4. Tallied(f) \cap more = {}
  <2>1. \A k \in c + 1 .. c + n : k \notin 1 .. c
    BY <1>1
  <2> HIDE DEF c
  <2> SUFFICES ASSUME NEW p \in Tallied(f), p \in more PROVE FALSE
    OBVIOUS
  <2>2. PICK q \in Runs : p \in {q} \X (1 .. count[q][f])
    BY DEF Tallied
  <2> QED BY <2>1, <2>2 DEF c
<1>5. IsFiniteSet(more) /\ Cardinality(more) = n
  <2>1. number \in Bijection(c + 1 .. c + n, more)
    <3> HIDE DEF c
    <3>1. number \in [c + 1 .. c + n -> more]
      OBVIOUS
    <3>2. \A a, b \in c + 1 .. c + n : number[a] = number[b] => a = b
      OBVIOUS
    <3>3. \A p \in more : \E a \in c + 1 .. c + n : number[a] = p
      OBVIOUS
    <3> HIDE DEF number, more
    <3> QED BY <3>1, <3>2, <3>3, Fun_IsBij
  <2>2. IsFiniteSet(c + 1 .. c + n) /\ Cardinality(c + 1 .. c + n) = n
    <3>1. c + 1 \in Int /\ c + n \in Int /\ (c + 1 > c + n <=> n = 0)
          /\ (c + n) - (c + 1) + 1 = n
      BY <1>1
    <3> HIDE DEF c
    <3> QED BY <3>1, FS_Interval
  <2> HIDE DEF number, more, c
  <2> QED BY <2>1, <2>2, FS_Bijection DEF ExistsBijection
<1> HIDE DEF more
<1>6. IsFiniteSet(Tallied(f)) /\ Cardinality(Tallied(f)) \in Nat
  BY FS_CardinalityType
<1>7. Cardinality(Tallied(f) \cup more) = Cardinality(Tallied(f)) + n
      /\ IsFiniteSet(Tallied(f) \cup more)
  <2>1. Cardinality(Tallied(f) \cap more) = 0
    BY <1>4, FS_EmptySet
  <2>2. /\ IsFiniteSet(Tallied(f) \cup more)
        /\ Cardinality(Tallied(f) \cup more)
             = Cardinality(Tallied(f)) + Cardinality(more)
                 - Cardinality(Tallied(f) \cap more)
    BY <1>5, <1>6, FS_Union
  <2> QED BY <1>5, <1>6, <2>1, <2>2
<1>8. \A g \in Fronts \ {f} : Tallied(g)' = Tallied(g)
  <2> TAKE g \in Fronts \ {f}
  <2>1. \A q \in Runs : count'[q][g] = count[q][g]
    BY <1>2
  <2> QED BY <2>1 DEF Tallied
<1> QED BY <1>3, <1>6, <1>7, <1>8 DEF Counted

\* A step that counts nothing changes no sum.
LEMMA TalliedKept ==
  ASSUME UNCHANGED count, NEW f
  PROVE  Tallied(f)' = Tallied(f) /\ Counted(f)' = Counted(f)
BY DEF Tallied, Counted

\* What a commit counts is what it removes or frees.
LEMMA TallyStep == IInv /\ HeldIntact /\ TallyInv /\ [Next]_vars => TallyInv'
<1> SUFFICES ASSUME IInv, HeldIntact, TallyInv, [Next]_vars PROVE TallyInv'
  OBVIOUS
<1>t. TypeOK /\ FiniteLots /\ Held
  BY DEF IInv
<1>n. \A f \in Fronts : Counted(f) \in Nat /\ effect[f] \in Nat
  BY <1>t, FS_CardinalityType DEF TallyInv, Counted, TypeOK
\* Steps that neither count nor do, and un-fail nobody.
<1>a. ASSUME UNCHANGED <<count, effect>>,
             \A q \in Runs : pc[q] = "failed" => pc'[q] = "failed"
      PROVE  TallyInv'
  BY <1>a, TalliedKept DEF TallyInv
\* A commit that is acknowledged: as many are counted as are done.
<1>b. ASSUME NEW r \in Runs, NEW f \in Fronts, NEW n \in Nat,
             count' = [count EXCEPT ![r][f] = @ + n],
             effect' = [effect EXCEPT ![f] = @ + n],
             \A q \in Runs : pc[q] = "failed" => pc'[q] = "failed"
      PROVE  TallyInv'
  <2>1. /\ IsFiniteSet(Tallied(f)') /\ Counted(f)' = Counted(f) + n
        /\ \A g \in Fronts \ {f} : Tallied(g)' = Tallied(g)
    BY <1>t, <1>b, TalliedGrows DEF TallyInv
  <2>2. effect'[f] = effect[f] + n /\ \A g \in Fronts \ {f} : effect'[g] = effect[g]
    BY <1>t, <1>b DEF TypeOK
  <2>3. \A g \in Fronts \ {f} : Counted(g)' = Counted(g)
    BY <2>1 DEF Counted
  <2> SUFFICES ASSUME NEW g \in Fronts
               PROVE  /\ IsFiniteSet(Tallied(g)')
                      /\ Counted(g)' <= effect'[g]
                      /\ (\A q \in Runs : pc'[q] # "failed") => Counted(g)' = effect'[g]
    BY DEF TallyInv
  <2>4. CASE g = f
    BY <1>b, <1>n, <2>1, <2>2, <2>4 DEF TallyInv
  <2>5. CASE g # f
    BY <1>b, <2>1, <2>2, <2>3, <2>5 DEF TallyInv
  <2> QED BY <2>4, <2>5
<1>1. ASSUME NEW r \in Runs,
             Start(r) \/ Refuse(r) \/ BeginBatch(r) \/ ReserveRow(r) \/ FailBatch(r)
      PROVE  TallyInv'
  BY <1>t, <1>1, <1>a
  DEF Start, Refuse, BeginBatch, ReserveRow, FailBatch, Fail, tally, history, TypeOK
<1>2. ASSUME NEW r \in Runs, CommitSignals(r) PROVE TallyInv'
  <2>1. Affected(r) = lot[r] \cap signals /\ Cardinality(Affected(r)) \in Nat
    BY <1>t, <1>2, AffectedCounts DEF CommitSignals, Affected
  <2>2. /\ count' = [count EXCEPT ![r]["signals"] = @ + Cardinality(Affected(r))]
        /\ effect' = [effect EXCEPT !["signals"] = @ + Cardinality(Affected(r))]
        /\ pc[r] = "scan" /\ pc' = [pc EXCEPT ![r] = "loop"]
    BY <1>2, <2>1 DEF CommitSignals, Apply, InTransaction
  <2>3. \A q \in Runs : pc[q] = "failed" => pc'[q] = "failed"
    BY <1>t, <2>2 DEF TypeOK
  <2>4. "signals" \in Fronts
    BY DEF Fronts
  <2> QED BY <1>b, <2>1, <2>2, <2>3, <2>4
<1>3. ASSUME NEW r \in Runs, CommitCatalogs(r) PROVE TallyInv'
  <2>1. Affected(r) = lot[r] \cap intact /\ Cardinality(Affected(r)) \in Nat
    BY <1>t, <1>3, AffectedCounts DEF CommitCatalogs, Affected, HeldIntact
  <2>2. /\ count' = [count EXCEPT ![r]["catalogs"] = @ + Cardinality(Affected(r))]
        /\ effect' = [effect EXCEPT !["catalogs"] = @ + Cardinality(Affected(r))]
        /\ pc[r] = "scan" /\ \A q \in Runs \ {r} : pc'[q] = pc[q]
    BY <1>t, <1>3, <2>1 DEF CommitCatalogs, Apply, InTransaction, TypeOK
  <2>3. \A q \in Runs : pc[q] = "failed" => pc'[q] = "failed"
    BY <2>2
  <2>4. "catalogs" \in Fronts
    BY DEF Fronts
  <2> QED BY <1>b, <2>1, <2>2, <2>3, <2>4
<1>4. ASSUME NEW r \in Runs, LoseCommit(r) PROVE TallyInv'
  <2>1. pc'[r] = "failed" /\ UNCHANGED count /\ Apply(r)
    BY <1>t, <1>4 DEF LoseCommit, Fail, TypeOK
  <2>2. Cardinality(lot[r] \cap signals) \in Nat /\ Cardinality(lot[r] \cap intact) \in Nat
    BY <1>t, AffectedCounts
  <2>3. \A f \in Fronts : effect[f] <= effect'[f] /\ effect'[f] \in Nat
    BY <1>t, <2>1, <2>2 DEF Apply, TypeOK, Fronts
  <2> QED BY <1>n, <2>1, <2>3, TalliedKept DEF TallyInv
<1>5. ASSUME NEW s \in Signals, Ingest(s) PROVE TallyInv'
  BY <1>5, <1>a DEF Ingest, tally, history
<1>6. ASSUME NEW c \in Catalogs, Collect(c) PROVE TallyInv'
  BY <1>6, <1>a DEF Collect, tally, history
<1>7. CASE UNCHANGED vars
  BY <1>7, <1>a DEF vars, tally, history
<1> QED
  BY <1>1, <1>2, <1>3, <1>4, <1>5, <1>6, <1>7 DEF Next, RunStep

(***************************************************************************)
(* Two runs never count the same row, for any number of runs: what they    *)
(* counted in sum is what left the tables, or less by the commits whose    *)
(* answer was lost.                                                        *)
(***************************************************************************)
THEOREM WorkIsCountedOnce == Spec => []NoWorkCountedTwice
<1>1. Init => HeldIntact /\ TallyInv
  <2> SUFFICES ASSUME Init PROVE HeldIntact /\ TallyInv
    OBVIOUS
  <2>1. HeldIntact
    BY DEF Init, HeldIntact
  <2>2. \A f \in Fronts : Tallied(f) = {} /\ effect[f] = 0
    <3>1. 1 .. 0 = {}
      OBVIOUS
    <3>2. \A r \in Runs, f \in Fronts : count[r][f] = 0
      BY DEF Init, Zero
    <3>3. \A f \in Fronts : Tallied(f) = {}
      BY <3>1, <3>2 DEF Tallied
    <3> QED BY <3>3 DEF Init, Zero
  <2> QED BY <2>1, <2>2, FS_EmptySet DEF TallyInv, Counted
<1>2. IInv /\ HeldIntact /\ TallyInv /\ [Next]_vars => (HeldIntact /\ TallyInv)'
  BY HeldIntactInv, TallyStep
<1>3. TallyInv => NoWorkCountedTwice
  BY DEF TallyInv, NoWorkCountedTwice
<1> QED BY Invariance, <1>1, <1>2, <1>3, PTL DEF Spec

=============================================================================
