---------------------------- MODULE ChangeImport ----------------------------
(***************************************************************************)
(* `faultmap ingest github` and what a diagnosis later reads of it.        *)
(*                                                                         *)
(* An import asks GitHub for one page of commits and one of deployments,   *)
(* orders them, and stores them in one transaction whose inserts ignore    *)
(* what is already there.  Imports of several services of one repository   *)
(* run at once: the identifier of a deployment does not carry the service, *)
(* so they write the same keys.  A diagnosis reads the stored deployments  *)
(* of its scope in one limited query and blames the nearest of a service.  *)
(***************************************************************************)
EXTENDS Naturals, FiniteSets, Sequences, SequencesExt

CONSTANTS
    Imports,        \* executions of the command
    Services,
    Shas,           \* commits of the repository, in the order of their SHA
    CommittedAt,    \* instant of each commit
    Ids,            \* deployments of the repository, by the number GitHub gives
    KeyText,        \* place of each deployment's key among all, compared as text
    DeployedAt,     \* instant of each deployment, never before an earlier one
    Deployed,       \* the commit each deployment installs
    Request,        \* what each import asks for
    Page,           \* --limit: size of the page of each resource
    Lookback,       \* detection.DeploymentLookback
    Limit,          \* --limit of the diagnosis: rows of its query
    Nobody

ASSUME ChangeImportAssumption ==
    /\ IsFiniteSet(Imports) /\ Nobody \notin Imports
    /\ Shas \subseteq Nat /\ IsFiniteSet(Shas) /\ CommittedAt \in [Shas -> Nat]
    /\ Ids \subseteq Nat /\ IsFiniteSet(Ids) /\ DeployedAt \in [Ids -> Nat]
    /\ \A d, e \in Ids : d < e => DeployedAt[d] <= DeployedAt[e]
    /\ KeyText \in [Ids -> Nat] /\ \A d, e \in Ids : KeyText[d] = KeyText[e] => d = e
    /\ Deployed \in [Ids -> Shas]
    /\ Request \in [Imports -> [service : Services, since : Nat, until : Nat,
                                commits : BOOLEAN, deployments : BOOLEAN]]
    /\ {Page, Lookback, Limit} \subseteq Nat \ {0}

VARIABLES
    github,    \* deployments created so far
    stored,    \* the import whose row each key holds, Nobody when there is none
    pc,        \* where each import is
    asked,     \* what GitHub had when the import asked, for the properties only
    batch,     \* the rows of the import, in the order they are written
    next,      \* position in batch of the next insert
    mine       \* rows the open transaction inserted

vars == <<github, stored, pc, asked, batch, next, mine>>

(***************************************************************************)
(* A row is named by its table and its primary key.  The key of a          *)
(* deployment is "github:<repository>:deployment:<id>", a text: that of    *)
(* deployment 10 comes before that of 9, though GitHub created it after.   *)
(* Those of one repository differ in digits only, which every collation    *)
(* orders alike.                                                           *)
(***************************************************************************)
CommitRow(sha) == [table |-> "commits", key |-> sha]
DeploymentRow(id) == [table |-> "deployments", key |-> id]
Rows == {CommitRow(sha) : sha \in Shas} \cup {DeploymentRow(id) : id \in Ids}

Init ==
    /\ github = {}
    /\ stored = [r \in Rows |-> Nobody]
    /\ pc = [i \in Imports |-> "fetch"]
    /\ asked = [i \in Imports |-> {}]
    /\ batch = [i \in Imports |-> <<>>]
    /\ next = [i \in Imports |-> 1]
    /\ mine = [i \in Imports |-> {}]

(***************************************************************************)
(* A deployment is created in GitHub: identifiers and instants grow        *)
(* together.                                                               *)
(***************************************************************************)
Deploy(id) ==
    /\ id \notin github /\ \A d \in Ids : d < id => d \in github
    /\ github' = github \cup {id}
    /\ UNCHANGED <<stored, pc, asked, batch, next, mine>>

(***************************************************************************)
(* The order of the program and of its queries, for rows that are listed   *)
(* the newest first: those of one instant follow their key as text.        *)
(***************************************************************************)
Before(when, text, x, y) ==
    \/ when[x] > when[y]
    \/ when[x] = when[y] /\ text[x] < text[y]

ShaText == [sha \in Shas |-> sha]

(***************************************************************************)
(* What the API answers: the newest per_page of what there is, in GitHub's *)
(* own order, the last created first.  The page of commits is cut inside   *)
(* the window by GitHub itself; that of deployments is cut before the      *)
(* client applies the window.                                              *)
(***************************************************************************)
Newest(S, when, n) ==
    {x \in S : Cardinality({y \in S : \/ when[y] > when[x]
                                      \/ when[y] = when[x] /\ y > x}) < n}

InWindow(i, t) == Request[i].since <= t /\ t <= Request[i].until

FetchedCommits(i) ==
    Newest({sha \in Shas : InWindow(i, CommittedAt[sha])}, CommittedAt, Page)

(* Mutant: the window of deployments leaves out the instant it begins. *)
FetchedDeployments_OpenStart(i) ==
    {id \in Newest(github, DeployedAt, Page) :
        InWindow(i, DeployedAt[id]) /\ DeployedAt[id] # Request[i].since}

FetchedDeployments(i) ==
    {id \in Newest(github, DeployedAt, Page) : InWindow(i, DeployedAt[id])}

(***************************************************************************)
(* The order of the snapshot, which is the order of the inserts: newest    *)
(* first, then by identifier, which is text.                               *)
(***************************************************************************)
(* Mutant: rows follow no shared order (the iteration of a Go map). *)
InOrder_OfAMap(S, when, text) ==
    SetToSortSeq(S, LAMBDA x, y : IF Cardinality(S) % 2 = 0 THEN x < y ELSE x > y)

InOrder(S, when, text) ==
    CHOOSE s \in [1 .. Cardinality(S) -> S] :
        \A m, n \in 1 .. Cardinality(S) : m < n => Before(when, text, s[m], s[n])

Snapshot(commits, deployments) ==
    LET cs == InOrder(commits, CommittedAt, ShaText)
        ds == InOrder(deployments, DeployedAt, KeyText)
    IN  [n \in 1 .. Len(cs) |-> CommitRow(cs[n])]
            \o [n \in 1 .. Len(ds) |-> DeploymentRow(ds[n])]

(***************************************************************************)
(* Fetch: both resources, or the error of the first that fails, before any *)
(* transaction is open.                                                    *)
(***************************************************************************)
Fetch(i) ==
    /\ pc[i] = "fetch"
    /\ asked' = [asked EXCEPT ![i] = github]
    /\ batch' = [batch EXCEPT ![i] =
                    Snapshot(IF Request[i].commits THEN FetchedCommits(i) ELSE {},
                             IF Request[i].deployments THEN FetchedDeployments(i) ELSE {})]
    /\ pc' = [pc EXCEPT ![i] = "saving"]
    /\ UNCHANGED <<github, stored, next, mine>>

(***************************************************************************)
(* One INSERT ... ON CONFLICT DO NOTHING.  A key another open transaction  *)
(* has inserted makes it wait for that transaction to end; a stored one is *)
(* left as it is.                                                          *)
(***************************************************************************)
NextRow(i) == batch[i][next[i]]
Inserting(i) == pc[i] = "saving" /\ next[i] <= Len(batch[i])
WaitsFor(i, j) == i # j /\ Inserting(i) /\ NextRow(i) \in mine[j]

Insert(i) ==
    /\ Inserting(i) /\ \A j \in Imports : ~WaitsFor(i, j)
    /\ mine' = [mine EXCEPT ![i] = IF stored[NextRow(i)] = Nobody
                                   THEN @ \cup {NextRow(i)} ELSE @]
    /\ next' = [next EXCEPT ![i] = @ + 1]
    /\ UNCHANGED <<github, stored, pc, asked, batch>>

(***************************************************************************)
(* The end of the transaction.  Only an answered commit is reported; the   *)
(* rows of one whose answer was lost are stored all the same.              *)
(***************************************************************************)
Publish(i) == stored' = [r \in Rows |-> IF r \in mine[i] THEN i ELSE stored[r]]

End(i, how) ==
    /\ pc' = [pc EXCEPT ![i] = how]
    /\ mine' = [mine EXCEPT ![i] = {}]
    /\ UNCHANGED <<github, asked, batch, next>>

Commit(i) ==
    /\ pc[i] = "saving" /\ next[i] > Len(batch[i])
    /\ Publish(i) /\ End(i, "imported")

LoseCommit(i) ==
    /\ pc[i] = "saving" /\ next[i] > Len(batch[i])
    /\ Publish(i) /\ End(i, "failed")

(***************************************************************************)
(* Any call may fail or be cancelled: nothing of this import is stored.    *)
(***************************************************************************)
Fail(i) ==
    /\ pc[i] \in {"fetch", "saving"}
    /\ End(i, "failed") /\ UNCHANGED stored

Next ==
    \/ \E id \in Ids : Deploy(id)
    \/ \E i \in Imports :
        \/ Fetch(i) \/ Insert(i) \/ Commit(i) \/ LoseCommit(i) \/ Fail(i)

Spec == Init /\ [][Next]_vars

-----------------------------------------------------------------------------
(***************************************************************************)
(* What a diagnosis reads: loadScopeDeployments asks, for the whole scope, *)
(* the newest deployments of [start - lookback, start + 1ns), and          *)
(* detectDeploymentProximity takes those of one service by its own         *)
(* criterion of age.  The service of a row is that of the import that      *)
(* stored it.                                                              *)
(***************************************************************************)
StoredFor(s) ==
    {id \in Ids : /\ stored[DeploymentRow(id)] # Nobody
                  /\ Request[stored[DeploymentRow(id)]].service = s}

(* ORDER BY deployed_at DESC, id ASC LIMIT: the first rows of a set. *)
FirstRows(S) ==
    {x \in S : Cardinality({y \in S : Before(DeployedAt, KeyText, y, x)}) < Limit}

(* Mutant: the query ends at the start of the incident, exclusive. *)
LoadDeployments_BeforeStart(scope, start) ==
    FirstRows({id \in UNION {StoredFor(s) : s \in scope} :
                   start <= DeployedAt[id] + Lookback /\ DeployedAt[id] < start})

LoadDeployments(scope, start) ==
    FirstRows({id \in UNION {StoredFor(s) : s \in scope} :
                   start <= DeployedAt[id] + Lookback /\ DeployedAt[id] < start + 1})

Candidates(s, loaded, start) ==
    {id \in loaded \cap StoredFor(s) :
        DeployedAt[id] <= start /\ start - DeployedAt[id] <= Lookback}

Stronger(versions, x, y) ==
    LET match(id) == Deployed[id] \in versions
    IN  \/ match(x) /\ ~match(y)
        \/ match(x) = match(y) /\ (x = y \/ Before(DeployedAt, KeyText, x, y))

Selected(s, loaded, start, versions) ==
    {x \in Candidates(s, loaded, start) :
        \A y \in Candidates(s, loaded, start) : Stronger(versions, x, y)}

-----------------------------------------------------------------------------
TypeOK ==
    /\ github \subseteq Ids
    /\ stored \in [Rows -> Imports \cup {Nobody}]
    /\ pc \in [Imports -> {"fetch", "saving", "imported", "failed"}]
    /\ \A i \in Imports : /\ asked[i] \subseteq github
                          /\ ToSet(batch[i]) \subseteq Rows
                          /\ next[i] \in 1 .. Len(batch[i]) + 1
                          /\ mine[i] \subseteq ToSet(batch[i])

(***************************************************************************)
(* Imports of one repository that run at once never wait for each other in *)
(* a circle, whatever each page brought: all of them write in the order of *)
(* the snapshot, and that order is the same for everybody.                 *)
(***************************************************************************)
NoImportDeadlock ==
    \A C \in (SUBSET Imports) \ {{}} :
        \E i \in C : \A j \in C : ~WaitsFor(i, j)

(***************************************************************************)
(* What a reported import did not store, of the window it was asked for,   *)
(* is older than a whole page of deployments: the limit cuts from the old  *)
(* end, never a change near the incident.                                  *)
(***************************************************************************)
OnlyTheOldestAreMissed ==
    \A i \in Imports : pc[i] = "imported" /\ Request[i].deployments =>
        \A id \in asked[i] :
            InWindow(i, DeployedAt[id]) /\ stored[DeploymentRow(id)] = Nobody =>
                Cardinality({e \in asked[i] : e > id}) >= Page

(* Incidents worth looking at: they begin with a deployment, or after it.  *)
Starts == {DeployedAt[id] : id \in Ids} \cup {DeployedAt[id] + 1 : id \in Ids}

(***************************************************************************)
(* Every deployment stored for a service that is at most the lookback      *)
(* before the incident, its own instant included, is weighed: one that     *)
(* installed a version seen in the incident is blamed before any other,    *)
(* and among equals the first in the order of the query, unless a full     *)
(* answer of deployments before it in that order hid it.  The limit and    *)
(* the choice break a tie of instants alike: of two deployments of one     *)
(* instant the query never hides the one that would be blamed.             *)
(***************************************************************************)
NearestIsBlamed ==
    \A scope \in (SUBSET Services) \ {{}}, start \in Starts :
    \A versions \in SUBSET Shas, s \in scope :
        LET loaded == LoadDeployments(scope, start)
            blamed == Selected(s, loaded, start, versions)
            near == {id \in StoredFor(s) :
                        DeployedAt[id] <= start /\ start <= DeployedAt[id] + Lookback}
            first(x, y) == Before(DeployedAt, KeyText, x, y)
            hidden(id) == Cardinality({e \in loaded : first(e, id)}) = Limit
        IN  /\ Cardinality(blamed) <= 1
            /\ \A id \in near : hidden(id) \/ \E b \in blamed :
                    \/ Deployed[b] \in versions /\ Deployed[id] \notin versions
                    \/ /\ Deployed[id] \in versions => Deployed[b] \in versions
                       /\ b = id \/ first(b, id)
=============================================================================
