--------------------------- MODULE DiagnosisStore ---------------------------
(***************************************************************************)
(* The end of `faultmap diagnose`: the findings of an investigation, and   *)
(* the transaction that keeps them as the immutable snapshot of their      *)
(* incident.                                                               *)
(*                                                                         *)
(* The identity of an incident is its entry service, environment and       *)
(* windows, so two executions of one command are two investigations of one *)
(* incident, with telemetry that may have changed between them.  Save      *)
(* inserts the incident, ignoring one that is there, the findings, each    *)
(* under an identifier derived from what it accuses, and the ranking.  The *)
(* isolation is that of PostgreSQL (READ COMMITTED); the single writer of  *)
(* SQLite allows fewer orders of the same steps.                           *)
(***************************************************************************)
EXTENDS FiniteSets

CONSTANTS
    Incidents,
    Investigations,   \* executions of the command
    IncidentOf,       \* the incident each one identifies
    Observations,     \* what its window may show: see Findings
    Nobody,           \* no investigation
    NoDeploy          \* a service without a deployment near the incident

ASSUME DiagnosisAssumption ==
    /\ IncidentOf \in [Investigations -> Incidents]
    /\ Nobody \notin Investigations

VARIABLES
    pc,         \* where each execution of diagnose is
    diagnosis,  \* the findings it computed
    written,    \* rows of its open transaction
    rows        \* rows committed

storeVars == <<pc, diagnosis, written, rows>>

-----------------------------------------------------------------------------
(***************************************************************************)
(* The findings of one observation: a symptom measured in each failing     *)
(* service, one lost link per pair that stopped talking, attributed to the *)
(* service below, and, for a service with any symptom that received a      *)
(* deployment, its proximity twice: for the service and for the commit.    *)
(* "about" is what the evidence of the finding is about; it is not part of *)
(* its identity.                                                           *)
(***************************************************************************)
Finding(rule, kind, subject, about) ==
    [rule |-> rule, kind |-> kind, subject |-> subject, about |-> about]

Symptomatic(o) == o.failing \cup {link.child : link \in o.lost}

Findings(o) ==
    LET deployed == {s \in Symptomatic(o) : o.installed[s] # NoDeploy}
    IN  {Finding("error_rate_delta", "service", s, s) : s \in o.failing}
        \cup {Finding("trace_break", "service", k.child, k.parent) : k \in o.lost}
        \cup {Finding("deployment_proximity", "service", s, s) : s \in deployed}
        \cup {Finding("deployment_proximity", "commit", o.installed[s], s) : s \in deployed}

(***************************************************************************)
(* findingID: the incident, the rule and the subject.                      *)
(***************************************************************************)
FindingId(i, f) == <<IncidentOf[i], f.rule, f.kind, f.subject>>

Collide(i) ==
    \E f, g \in diagnosis[i] : f # g /\ FindingId(i, f) = FindingId(i, g)

-----------------------------------------------------------------------------
(***************************************************************************)
(* A row is known by its table, the incident it belongs to and who wrote   *)
(* it; a finding also by what it says.                                     *)
(***************************************************************************)
Row(table, i, what) ==
    [table |-> table, incident |-> IncidentOf[i], author |-> i, what |-> what]

IncidentRow(i) == Row("incidents", i, {})
FindingRows(i) == {Row("findings", i, {f}) : f \in diagnosis[i]}
RankingRow(i) == Row("ranking_results", i, diagnosis[i])
Snapshot(i) == {IncidentRow(i), RankingRow(i)} \cup FindingRows(i)

HasIncident(S, c) == \E r \in S : r.table = "incidents" /\ r.incident = c

StoreInit ==
    /\ pc = [i \in Investigations |-> "diagnose"]
    /\ diagnosis = [i \in Investigations |-> {}]
    /\ written = [i \in Investigations |-> {}]
    /\ rows = {}

Goto(i, where) == pc' = [pc EXCEPT ![i] = where]

(***************************************************************************)
(* DiagnoseIncidentInScope and the check of PersistDiagnosis: a window     *)
(* without signals is presented and not saved.                             *)
(***************************************************************************)
Diagnose(i) ==
    /\ pc[i] = "diagnose"
    /\ \E o \in Observations :
        /\ diagnosis' = [diagnosis EXCEPT ![i] = Findings(o)]
        /\ Goto(i, IF o.signals THEN "incident" ELSE "skipped")
    /\ UNCHANGED <<written, rows>>

(***************************************************************************)
(* INSERT INTO incidents ... ON CONFLICT DO NOTHING: it waits for an open  *)
(* transaction that inserted the same incident; no row inserted means the  *)
(* incident exists, and the transaction is rolled back.                    *)
(***************************************************************************)
InTransaction(i) == pc[i] \in {"findings", "ranking", "commit"}

Held(i, c) == HasIncident(written[i], c)

Waits(i) ==
    /\ pc[i] = "incident"
    /\ \E j \in Investigations \ {i} : Held(j, IncidentOf[i])

(* Mutant: an incident that is there is taken over instead of kept. *)
Exists_Never(i) == FALSE

Exists(i) == HasIncident(rows, IncidentOf[i])

Undo(i, how) ==
    /\ Goto(i, how)
    /\ written' = [written EXCEPT ![i] = {}]
    /\ UNCHANGED <<diagnosis, rows>>

InsertIncident(i) ==
    /\ pc[i] = "incident" /\ ~Waits(i) /\ ~Exists(i)
    /\ Goto(i, "findings")
    /\ written' = [written EXCEPT ![i] = {IncidentRow(i)}]
    /\ UNCHANGED <<diagnosis, rows>>

AlreadyThere(i) ==
    /\ pc[i] = "incident" /\ ~Waits(i) /\ Exists(i)
    /\ Undo(i, "existing")

(***************************************************************************)
(* The findings, one INSERT each under its identifier.  Nobody else can    *)
(* touch this incident while its row is held, so the loop is one step; two *)
(* findings with one identifier violate the primary key, and the whole     *)
(* transaction is rolled back.                                             *)
(***************************************************************************)
(* Mutant: findings are inserted outside the transaction. *)
InsertFindings_Autocommit(i) ==
    /\ pc[i] = "findings" /\ ~Collide(i)
    /\ Goto(i, "ranking")
    /\ rows' = rows \cup FindingRows(i)
    /\ UNCHANGED <<diagnosis, written>>

InsertFindings(i) ==
    /\ pc[i] = "findings" /\ ~Collide(i)
    /\ Goto(i, "ranking")
    /\ written' = [written EXCEPT ![i] = @ \cup FindingRows(i)]
    /\ UNCHANGED <<diagnosis, rows>>

(* Mutant: a rejected insert returns without rolling back. *)
RejectFindings_NoRollback(i) ==
    /\ pc[i] = "findings" /\ Collide(i)
    /\ Goto(i, "rejected") /\ UNCHANGED <<diagnosis, written, rows>>

RejectFindings(i) ==
    /\ pc[i] = "findings" /\ Collide(i)
    /\ Undo(i, "rejected")

InsertRanking(i) ==
    /\ pc[i] = "ranking"
    /\ Goto(i, "commit")
    /\ written' = [written EXCEPT ![i] = @ \cup {RankingRow(i)}]
    /\ UNCHANGED <<diagnosis, rows>>

(***************************************************************************)
(* COMMIT.  Its answer may be lost on the way: the snapshot is stored and  *)
(* the command reports an error.                                           *)
(***************************************************************************)
Publish(i, how) ==
    /\ pc[i] = "commit"
    /\ Goto(i, how)
    /\ rows' = rows \cup written[i]
    /\ written' = [written EXCEPT ![i] = {}]
    /\ UNCHANGED diagnosis

Commit(i) == Publish(i, "saved")
LoseCommit(i) == Publish(i, "failed")

(***************************************************************************)
(* Any call may fail or be cancelled, and the process may die: the         *)
(* database undoes the open transaction.                                   *)
(***************************************************************************)
(* Mutant: the error of COMMIT is ignored. *)
Answer_IgnoringCommit(i) == IF pc[i] = "commit" THEN "saved" ELSE "failed"

Answer(i) == "failed"

Fail(i) ==
    /\ pc[i] \in {"diagnose", "incident"} \/ InTransaction(i)
    /\ Undo(i, Answer(i))

Save(i) ==
    \/ Diagnose(i) \/ InsertIncident(i) \/ AlreadyThere(i) \/ InsertFindings(i)
    \/ RejectFindings(i) \/ InsertRanking(i) \/ Commit(i)

StoreNext == \E i \in Investigations : Save(i) \/ LoseCommit(i) \/ Fail(i)

StoreSpec == StoreInit /\ [][StoreNext]_storeVars

-----------------------------------------------------------------------------
Ended == {"saved", "existing", "skipped", "rejected", "failed"}

StoreTypeOK ==
    /\ pc \in [Investigations ->
                {"diagnose", "incident", "findings", "ranking", "commit"} \cup Ended]
    /\ \A i \in Investigations : written[i] \subseteq Snapshot(i)
    /\ rows \subseteq UNION {Snapshot(i) : i \in Investigations}

(***************************************************************************)
(* The author of an incident: the investigation whose snapshot is exactly  *)
(* what is stored of it.  Anything else that is stored is torn.            *)
(***************************************************************************)
RowsOf(c) == {r \in rows : r.incident = c}

Torn == "torn"

Published == [c \in Incidents |->
    IF RowsOf(c) = {} THEN Nobody
    ELSE IF \E i \in Investigations : RowsOf(c) = Snapshot(i)
         THEN CHOOSE i \in Investigations : RowsOf(c) = Snapshot(i)
         ELSE Torn]

Register == INSTANCE SnapshotRegister WITH published <- Published

(***************************************************************************)
(* The storage implements the register: a snapshot appears whole, once,    *)
(* whatever investigations of the incident race, fail, die or lose the     *)
(* answer of their commit, and never changes after that.                   *)
(***************************************************************************)
PublishedOnce == Register!Spec

(***************************************************************************)
(* What the command says is what is stored: "Diagnóstico salvo" only with  *)
(* its own snapshot in place, "já existente" only with that of another,    *)
(* and nothing of an investigation presented as not saved.                 *)
(***************************************************************************)
AnswerIsTrue ==
    \A i \in Investigations :
        LET author == Published[IncidentOf[i]]
        IN  /\ pc[i] = "saved" => author = i
            /\ pc[i] = "existing" => author \in Investigations \ {i}
            /\ pc[i] \in {"skipped", "rejected"} => author # i

(***************************************************************************)
(* "Ao concluir, o comando salva atomicamente o incidente, seus findings e *)
(* o ranking": no diagnosis is refused by the storage for what it found.   *)
(***************************************************************************)
NothingFoundIsRefused == \A i \in Investigations : pc[i] # "rejected"
=============================================================================
