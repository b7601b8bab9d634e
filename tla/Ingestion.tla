----------------------------- MODULE Ingestion -----------------------------
(***************************************************************************)
(* `faultmap serve`: exporters POST batches of telemetry, each request is  *)
(* normalised and saved in one transaction, and the process may be told to *)
(* stop, or die, with requests in flight.  A client that gives up or never *)
(* sees the answer sends the same batch again, maybe while the first is    *)
(* still being saved.                                                      *)
(*                                                                         *)
(* Save inserts the signals of a batch one by one, in its order, with      *)
(* ON CONFLICT (id) DO NOTHING.  An id inserted by a transaction still     *)
(* open makes the next one wait for its end, so that two batches with the  *)
(* same ids in a different order deadlock, and the database aborts one.    *)
(*                                                                         *)
(* Each driver has its pool: 8 connections for PostgreSQL, 1 for SQLite.    *)
(*                                                                         *)
(* Simplifications: a batch is the sequence of the ids of its signals and  *)
(* the verdict of the checks on its bytes; of the two servers only the one *)
(* with requests that matter is kept; nothing removes signals here (see    *)
(* Retention).                                                             *)
(***************************************************************************)
EXTENDS Integers, Sequences, FiniteSets, Functions

CONSTANTS
  Requests,   \* HTTP requests, each sent at most once
  Batches,    \* what exporters have to send
  Ids,        \* ids of signals
  Content,    \* ids of the signals of each batch, in order
  Verdict,    \* what the checks and the normaliser say of each batch
  Pools,      \* maxOpenConnections of each storage.driver
  MaxStarts,  \* bound: how many times the process is started
  Nobody      \* neither a request nor a batch

ASSUME BatchesAssumption ==
  /\ Content \in [Batches -> Seq(Ids)]
  /\ Verdict \in [Batches -> {"malformed", "empty", "invalid", "valid"}]

ASSUME BoundsAssumption ==
  /\ Pools \subseteq Nat \ {0}
  /\ MaxStarts \in Nat \ {0}

ASSUME NobodyAssumption == Nobody \notin Requests /\ Nobody \notin Batches

VARIABLES
  server,     \* serveHTTP: up, draining, or how it ended
  pool,       \* connections of the driver configured
  starts,     \* processes started so far
  stored,     \* rows of the table signals: the request that wrote each id
  batch,      \* what each request carries
  pc,         \* where its handler is
  live,       \* request.Context().Err() is nil
  listening,  \* the client waits for an answer, or waited when it was given
  answer,     \* what the client was told
  next,       \* position in the loop of Save
  written,    \* ids inserted by the open transaction
  inserted    \* the counter Save returns

process == <<server, pool, starts>>
saving  == <<next, written, inserted>>
client  == <<batch, live, listening>>
vars    == <<process, stored, client, pc, answer, saving>>

\* The ids a request carries.
Carried(r) == Range(Content[batch[r]])

\* A handler that was entered and did not return.
Handling == {"reading", "ingesting", "saving", "committed", "failed"}
InFlight == {r \in Requests : pc[r] \in Handling}

InTransaction(r) == pc[r] = "saving"

\* database/sql makes BeginTx wait while the pool is in use.
ConnectionFree == Cardinality({r \in Requests : InTransaction(r)}) < pool
-----------------------------------------------------------------------------
Init ==
  /\ server = "up" /\ starts = 1 /\ pool \in Pools
  /\ stored = [id \in Ids |-> Nobody]
  /\ batch = [r \in Requests |-> Nobody]
  /\ pc = [r \in Requests |-> "unsent"]
  /\ live = [r \in Requests |-> TRUE]
  /\ listening = [r \in Requests |-> FALSE]
  /\ answer = [r \in Requests |-> "none"]
  /\ next = [r \in Requests |-> 1]
  /\ written = [r \in Requests |-> {}]
  /\ inserted = [r \in Requests |-> 0]

\* An exporter sends a batch, for the first time or again.
Send(r, b) ==
  /\ server = "up" /\ pc[r] = "unsent"
  /\ pc' = [pc EXCEPT ![r] = "reading"]
  /\ batch' = [batch EXCEPT ![r] = b]
  /\ listening' = [listening EXCEPT ![r] = TRUE]
  /\ UNCHANGED <<process, stored, live, answer, saving>>

\* The client gives up or the connection breaks; net/http may notice, and then
\* cancels the context of the request.
Disconnect(r) ==
  /\ r \in InFlight /\ listening[r]
  /\ listening' = [listening EXCEPT ![r] = FALSE]
  /\ \E noticed \in BOOLEAN : live' = [live EXCEPT ![r] = ~noticed /\ live[r]]
  /\ UNCHANGED <<process, stored, batch, pc, answer, saving>>

\* ReadTimeout counts from the start of the request and is not lifted when the
\* body ends: while the handler works, net/http goes on reading the connection,
\* and when that read times out it cancels the context.  The client did nothing
\* and still listens.
ReadDeadline(r) ==
  /\ r \in InFlight /\ pc[r] # "reading" /\ live[r]
  /\ live' = [live EXCEPT ![r] = FALSE]
  /\ UNCHANGED <<process, stored, batch, listening, pc, answer, saving>>

\* A handler that returns without writing: net/http answers 200 with no body,
\* which reaches whoever still listens.
Silence(r) == IF listening[r] THEN "blank" ELSE "none"

\* ServeHTTP returns.  What becomes of the context and of the connection after
\* that concerns nobody: live and listening stay as they were at the answer.
Return(r, what) ==
  /\ pc' = [pc EXCEPT ![r] = "ended"]
  /\ answer' = [answer EXCEPT ![r] = what]

\* Wrong method, type or encoding, a body too large or one that does not
\* decompress: refused before the ingester is called.
Refuse(r) ==
  /\ pc[r] = "reading" /\ Verdict[batch[r]] = "malformed"
  /\ Return(r, "refused")
  /\ UNCHANGED <<process, stored, client, saving>>

\* io.ReadAll fails: the body never arrived whole.
BreakOff(r) ==
  /\ pc[r] = "reading"
  /\ Return(r, IF live[r] THEN "refused" ELSE Silence(r))
  /\ UNCHANGED <<process, stored, client, saving>>

\* The body arrived: stop if nobody waits, accept an empty one, or ingest.
Admit(r) ==
  /\ pc[r] = "reading" /\ Verdict[batch[r]] # "malformed"
  /\ \/ ~live[r] /\ Return(r, Silence(r))
     \/ live[r] /\ Verdict[batch[r]] = "empty" /\ Return(r, "success")
     \/ /\ live[r] /\ Verdict[batch[r]] # "empty"
        /\ pc' = [pc EXCEPT ![r] = "ingesting"] /\ UNCHANGED answer
  /\ UNCHANGED <<process, stored, client, saving>>
-----------------------------------------------------------------------------
\* One signal that cannot be normalised is ErrInvalidPayload for the whole batch.
ErrInvalid(r) == Verdict[batch[r]] = "invalid"

\* The normaliser fails before anything is saved.
Unreadable(r) == ErrInvalid(r)

\* The normaliser refuses, or a check of the context does: nothing was begun.
Reject(r) ==
  /\ pc[r] = "ingesting" /\ (Unreadable(r) \/ ~live[r])
  /\ pc' = [pc EXCEPT ![r] = "failed"]
  /\ UNCHANGED <<process, stored, client, answer, saving>>

\* Save begins its transaction, or has nothing to do.
OpenSave(r) ==
  /\ pc[r] = "ingesting" /\ ~Unreadable(r) /\ live[r]
  /\ \/ Content[batch[r]] = <<>> /\ pc' = [pc EXCEPT ![r] = "committed"]
     \/ /\ Content[batch[r]] # <<>> /\ ConnectionFree
        /\ pc' = [pc EXCEPT ![r] = "saving"]
  /\ UNCHANGED <<process, stored, client, answer, saving>>

\* The id the next INSERT of a request brings.
Pending(r) == Content[batch[r]][next[r]]
AtEnd(r)   == next[r] > Len(Content[batch[r]])

\* Some other open transaction has inserted it: the INSERT waits.
WaitsFor(r, q) ==
  /\ InTransaction(r) /\ ~AtEnd(r)
  /\ q # r /\ Pending(r) \in written[q]

\* Mutant: ON CONFLICT (id) DO UPDATE.
AlwaysWrites(r, id) == TRUE

\* ON CONFLICT (id) DO NOTHING: whether the row is inserted.
IsNew(r, id) == stored[id] = Nobody /\ id \notin written[r]

\* Mutant: the statements are counted, not the rows.
Statement(r, id) == 1

\* Mutant: a driver that cannot tell.
Unknown(r, id) == -1

\* result.RowsAffected().
RowsAffected(r, id) == IF IsNew(r, id) THEN 1 ELSE 0

\* One turn of the loop of Save.
Insert(r) ==
  /\ InTransaction(r) /\ ~AtEnd(r)
  /\ \A q \in Requests : ~WaitsFor(r, q)
  /\ LET id == Pending(r) IN
     /\ written' = [written EXCEPT ![r] = IF IsNew(r, id) THEN @ \cup {id} ELSE @]
     /\ inserted' = [inserted EXCEPT ![r] = @ + RowsAffected(r, id)]
  /\ next' = [next EXCEPT ![r] = @ + 1]
  /\ UNCHANGED <<process, stored, client, pc, answer>>

\* The rows of the table once the transaction of a request commits.
Committed(r) == [id \in Ids |-> IF id \in written[r] THEN r ELSE stored[id]]

\* Mutant: the transaction is committed after the first row.
PastFirst(r) == next[r] > 1

\* The loop ran to its end.
Complete(r) == AtEnd(r)

\* COMMIT.  Its answer may be lost: the rows are there and Save returns an error.
Commit(r) ==
  /\ InTransaction(r) /\ Complete(r) /\ live[r]
  /\ stored' = Committed(r)
  /\ written' = [written EXCEPT ![r] = {}]
  /\ \/ pc' = [pc EXCEPT ![r] = "committed"] /\ UNCHANGED inserted
     \/ /\ pc' = [pc EXCEPT ![r] = "failed"]
        /\ inserted' = [inserted EXCEPT ![r] = 0]
  /\ next' = [next EXCEPT ![r] = 1]
  /\ UNCHANGED <<process, client, answer>>

\* Mutant: the transaction of a statement that failed is left open.
LeftOpen(r) == written

\* rollbackSignalTransaction.
RolledBack(r) == [written EXCEPT ![r] = {}]

Abort(r) ==
  /\ pc' = [pc EXCEPT ![r] = "failed"]
  /\ written' = RolledBack(r)
  /\ next' = [next EXCEPT ![r] = 1]
  /\ inserted' = [inserted EXCEPT ![r] = 0]
  /\ UNCHANGED <<process, stored, client, answer>>

\* The context of the transaction was cancelled: database/sql rolls back.
Cancel(r) == InTransaction(r) /\ ~live[r] /\ Abort(r)

\* A circle of transactions that wait for each other.
Deadlocked(r) ==
  \E circle \in SUBSET Requests :
    /\ r \in circle
    /\ \A q \in circle : \E p \in circle : WaitsFor(q, p)
    /\ \A p \in circle : \E q \in circle : WaitsFor(q, p)

\* PostgreSQL aborts one transaction of the circle.
BreakDeadlock(r) == Deadlocked(r) /\ Abort(r)

\* Any other error of the database.
Fail(r) == InTransaction(r) /\ Abort(r)
-----------------------------------------------------------------------------
\* Mutant: success is answered whatever Save returned.
ErrorIgnored(r) == TRUE

\* Mutant: the context is looked at before the error.
IngestedWhileLive(r) == pc[r] = "committed" /\ live[r]

\* err == nil.
Ingested(r) == pc[r] = "committed"

\* What ServeHTTP does with the result of the ingester.
Answer(r) ==
  /\ pc[r] \in {"committed", "failed"}
  /\ \/ Ingested(r) /\ Return(r, "success")
     \/ ~Ingested(r) /\ ~live[r] /\ Return(r, Silence(r))
     \/ /\ ~Ingested(r) /\ live[r]
        /\ Return(r, IF ErrInvalid(r) THEN "refused" ELSE "error")
  /\ UNCHANGED <<process, stored, client, saving>>

\* The process is told to stop, or one of its servers fails: both stop accepting.
Stop ==
  /\ server = "up" /\ server' = "draining"
  /\ UNCHANGED <<pool, starts, stored, client, pc, answer, saving>>

\* http.Server.Shutdown returns nil when no request is in flight.
AllReturned == InFlight = {}

Drained ==
  /\ server = "draining" /\ AllReturned
  /\ server' = "stopped"
  /\ UNCHANGED <<pool, starts, stored, client, pc, answer, saving>>

\* The process is gone: its handlers with it, its transactions rolled back.
Die(how) ==
  /\ server' = how
  /\ pc' = [r \in Requests |-> IF r \in InFlight THEN "lost" ELSE pc[r]]
  /\ written' = [r \in Requests |-> {}]
  /\ live' = [r \in Requests |-> r \notin InFlight /\ live[r]]
  /\ listening' = [r \in Requests |-> r \notin InFlight /\ listening[r]]
  /\ next' = [r \in Requests |-> 1]
  /\ UNCHANGED <<pool, starts, stored, batch, answer, inserted>>

\* shutdown_timeout passes: Shutdown gives up, the pool is closed, RunE returns.
StopLate == server = "draining" /\ ~AllReturned /\ Die("stopped late")

Crash == server \in {"up", "draining"} /\ Die("crashed")

Restart ==
  /\ server \notin {"up", "draining"} /\ starts < MaxStarts
  /\ server' = "up" /\ starts' = starts + 1
  /\ UNCHANGED <<pool, stored, client, pc, answer, saving>>
-----------------------------------------------------------------------------
\* What the handler and the database do by themselves.
Handle(r) ==
  \/ Refuse(r) \/ Admit(r) \/ Reject(r) \/ OpenSave(r) \/ Insert(r)
  \/ Commit(r) \/ Cancel(r) \/ BreakDeadlock(r) \/ Answer(r)

\* What happens to a request.
Suffer(r) ==
  \/ \E b \in Batches : Send(r, b)
  \/ Disconnect(r) \/ ReadDeadline(r) \/ BreakOff(r) \/ Fail(r)

Lifecycle == Stop \/ Drained \/ StopLate \/ Crash \/ Restart

Next == (\E r \in Requests : Handle(r) \/ Suffer(r)) \/ Lifecycle

Spec == Init /\ [][Next]_vars

\* Handlers run, the database answers and breaks its deadlocks, a drained server
\* notices, the timer of the shutdown fires.  Nothing is assumed of clients.
Fairness ==
  /\ \A r \in Requests : WF_vars(Handle(r))
  /\ WF_vars(Drained) /\ WF_vars(StopLate)

FairSpec == Spec /\ Fairness
-----------------------------------------------------------------------------
TypeOK ==
  /\ server \in {"up", "draining", "stopped", "stopped late", "crashed"}
  /\ pool \in Pools /\ starts \in 1 .. MaxStarts
  /\ stored \in [Ids -> Requests \cup {Nobody}]
  /\ batch \in [Requests -> Batches \cup {Nobody}]
  /\ pc \in [Requests -> Handling \cup {"unsent", "ended", "lost"}]
  /\ live \in [Requests -> BOOLEAN]
  /\ listening \in [Requests -> BOOLEAN]
  /\ answer \in [Requests -> {"none", "success", "blank", "refused", "error"}]
  /\ next \in [Requests -> Nat \ {0}]
  /\ written \in [Requests -> SUBSET Ids]
  /\ inserted \in [Requests -> Nat]

\* The rows a request wrote.
RowsOf(r) == {id \in Ids : stored[id] = r}

\* A batch that has to be in the table once it is accepted.
IsStored(r) ==
  Verdict[batch[r]] # "empty" => \A id \in Carried(r) : stored[id] # Nobody

\* writeSuccess is only reached when every signal of the batch is in the table,
\* whoever wrote it: the client may forget the batch (docs/mvp/03, line 75).
SuccessIsStored ==
  \A r \in Requests : answer[r] = "success" => IsStored(r)

\* Save is atomic (signal_repository.go:34): whatever fails, dies or is retried,
\* a request that left one row in the table left its whole batch there.
WholeOrNothing ==
  \A r \in Requests : RowsOf(r) # {} => IsStored(r)

\* A batch refused with a 4xx left nothing behind: the exporter may correct it
\* and send it again without mixing the two (normaliser before repository).
RefusedLeavesNothing ==
  \A r \in Requests : answer[r] = "refused" => RowsOf(r) = {}

\* The count Save returns is that of the rows it really inserted, also when the
\* batch repeats an id, or when another request saves the same one meanwhile.
CountIsExact ==
  \A r \in Requests :
    answer[r] = "success" => inserted[r] = Cardinality(RowsOf(r))

\* When a stop reports success (serve.go:139: it drains the requests in flight),
\* whoever still listened was answered.  A client whose Save reported rows was
\* told success, though its context may have died between the two, and the 200
\* that says nothing went only to those whose own context had died: requests do
\* not inherit the context whose end asks for the stop.
CleanStopAnswersAll ==
  server = "stopped" =>
    \A r \in Requests : pc[r] \notin {"unsent", "lost"} /\ listening[r] =>
      /\ answer[r] # "none"
      /\ inserted[r] > 0 => answer[r] = "success"
      /\ answer[r] = "blank" => ~live[r]

\* A retry never changes what was saved first (signal_repository.go:34-35).
FirstVersionKept ==
  [][\A id \in Ids : stored[id] # Nobody => stored'[id] = stored[id]]_vars

\* Every request accepted is answered or dies with the process: batches that
\* wait for each other, and a full pool, never leave a client waiting forever.
EveryRequestEnds ==
  \A r \in Requests : r \in InFlight ~> pc[r] \in {"ended", "lost"}

\* "Uma resposta 200 confirma que o lote valido foi processado" (docs/mvp/03,
\* line 75): a client that reads 200 has its batch in the table.
AnsweredOkIsStored ==
  \A r \in Requests : answer[r] \in {"success", "blank"} => IsStored(r)
=============================================================================
