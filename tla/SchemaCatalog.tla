--------------------------- MODULE SchemaCatalog ---------------------------
(***************************************************************************)
(* `faultmap ingest schema`: collections of the catalog of one observed    *)
(* PostgreSQL base, and the changes derived from two of them.              *)
(*                                                                         *)
(* A collection reads the catalog with three queries, at three moments,    *)
(* while migrations and GRANT/REVOKE run on the observed base; it is       *)
(* stamped after the last one.  SaveSnapshot then opens a transaction in   *)
(* the storage of Faultmap, reads the collection before it, refuses or     *)
(* compares, and commits.  Collections may overlap; the retention frees    *)
(* the content of old ones.                                                *)
(*                                                                         *)
(* SingleWriter = FALSE is PostgreSQL as storage (READ COMMITTED: two      *)
(* saves may read the same previous collection).  SingleWriter = TRUE is   *)
(* SQLite: a transaction that read before another one committed cannot     *)
(* write, which has the effect of saves one at a time, or failed.          *)
(*                                                                         *)
(* Simplifications: one base (every statement filters by database_name);   *)
(* an object's detail and expression digest are one number, 0 when the     *)
(* object is not there; time is counted in the resolution of identifiers.  *)
(***************************************************************************)
EXTENDS Integers, FiniteSets, FiniteSetsExt

CONSTANTS
  Collections,   \* executions of the command
  Objects,       \* objects the observed base may have
  Kind,          \* column, index or constraint
  Details,       \* details each object may have
  Grants,        \* sets of objects information_schema may show the collector
  MaxClock,      \* bound on time
  MaxMigrations, \* bound on migrations of the observed base
  MaxGrants,     \* bound on GRANT and REVOKE
  MaxOverlap,    \* bound on collections at work at the same time
  SingleWriter   \* TRUE for SQLite, FALSE for PostgreSQL

ASSUME CatalogAssumption ==
  /\ Kind \in [Objects -> {"column", "index", "constraint"}]
  /\ Details \in [Objects -> SUBSET (Nat \ {0})]
  /\ Grants \subseteq SUBSET Objects
  /\ MaxClock \in Nat /\ MaxMigrations \in Nat /\ MaxGrants \in Nat
  /\ MaxOverlap \in Nat
  /\ SingleWriter \in BOOLEAN

VARIABLES
  schema,      \* what the observed base really holds
  visible,     \* objects the collector has privilege to see
  clock,       \* the collectors' clock
  migrations,  \* history: which object a migration touched, and when
  regrants,    \* number of GRANT and REVOKE so far
  pc,          \* where each collection is
  seen,        \* what each collection read
  began,       \* history: when its first query ran
  stamp,       \* CapturedAt
  found,       \* changes the open transaction is about to insert
  basis,       \* history: the collection it was compared with, if any
  stored,      \* rows of schema_snapshots
  intact,      \* those whose objects_json still has content
  changes      \* rows of schema_changes

base    == <<schema, visible, migrations, regrants>>
reading == <<seen, began, stamp>>
saving  == <<found, basis>>
tables  == <<stored, intact, changes>>
vars    == <<base, clock, pc, reading, saving, tables>>

Absent  == 0
Nothing == [o \in Objects |-> Absent]

HasColumn(content) ==
  \E o \in Objects : Kind[o] = "column" /\ content[o] # Absent

\* What an object can be found to be.
Values(o) == Details[o] \cup {Absent}

\* No table without a column, no index or constraint without a table.
Plausible(content) == content = Nothing \/ HasColumn(content)
-----------------------------------------------------------------------------
Init ==
  /\ schema \in [Objects -> UNION {Values(o) : o \in Objects}]
  /\ \A o \in Objects : schema[o] \in Values(o)
  /\ Plausible(schema)
  /\ visible \in Grants
  /\ clock = 1 /\ migrations = {} /\ regrants = 0
  /\ pc = [c \in Collections |-> "idle"]
  /\ seen = [c \in Collections |-> Nothing]
  /\ began = [c \in Collections |-> 0]
  /\ stamp = [c \in Collections |-> 0]
  /\ found = [c \in Collections |-> {}]
  /\ basis = [c \in Collections |-> {}]
  /\ stored = {} /\ intact = {} /\ changes = {}

Tick ==
  /\ clock < MaxClock
  /\ clock' = clock + 1
  /\ UNCHANGED <<base, pc, reading, saving, tables>>

\* A migration of the observed base; with its last column a table takes its
\* indexes and constraints away.
Migrate(o, v) ==
  /\ Cardinality(migrations) < MaxMigrations
  /\ LET next == [schema EXCEPT ![o] = v]
         kept == IF HasColumn(next) THEN next ELSE Nothing
     IN  /\ kept # schema
         /\ schema' = kept
         /\ migrations' = migrations \cup
              {[object |-> x, at |-> clock] :
                 x \in {y \in Objects : kept[y] # schema[y]}}
  /\ UNCHANGED <<visible, regrants, clock, pc, reading, saving, tables>>

Regrant(g) ==
  /\ regrants < MaxGrants
  /\ g # visible
  /\ visible' = g
  /\ regrants' = regrants + 1
  /\ UNCHANGED <<schema, migrations, clock, pc, reading, saving, tables>>

\* information_schema hides, without an error, what the user may not see;
\* pg_indexes hides nothing, and of an index only its existence is read.
Shown(o) ==
  IF Kind[o] = "index" THEN (IF schema[o] = Absent THEN Absent ELSE 1)
  ELSE IF o \in visible THEN schema[o] ELSE Absent

AtWork(c) == pc[c] \in {"indexes", "constraints", "save", "commit"}

ReadClass(c, kind) ==
  seen' = [seen EXCEPT ![c] =
             [o \in Objects |-> IF Kind[o] = kind THEN Shown(o) ELSE @[o]]]

\* fetchColumns, fetchIndexes, fetchConstraints: three statements, no
\* transaction around them.
ReadColumns(c) ==
  /\ pc[c] = "idle"
  /\ Cardinality({d \in Collections : AtWork(d)}) < MaxOverlap
  /\ ReadClass(c, "column")
  /\ began' = [began EXCEPT ![c] = clock]
  /\ pc' = [pc EXCEPT ![c] = "indexes"]
  /\ UNCHANGED <<base, clock, stamp, saving, tables>>

ReadIndexes(c) ==
  /\ pc[c] = "indexes"
  /\ ReadClass(c, "index")
  /\ pc' = [pc EXCEPT ![c] = "constraints"]
  /\ UNCHANGED <<base, clock, began, stamp, saving, tables>>

\* Mutant: the collection is stamped when it starts.
StampOfStart(c) == began[c]

\* The clock is read once everything was.
Stamp(c) == clock

ReadConstraints(c) ==
  /\ pc[c] = "constraints"
  /\ ReadClass(c, "constraint")
  /\ stamp' = [stamp EXCEPT ![c] = Stamp(c)]
  /\ pc' = [pc EXCEPT ![c] = "save"]
  /\ UNCHANGED <<base, clock, began, saving, tables>>
-----------------------------------------------------------------------------
IsLatest(c) == \A d \in stored : stamp[d] <= stamp[c]

\* readPreviousSnapshot: the last collection before this one, if there is one.
Earlier(c)  == {p \in stored : stamp[p] < stamp[c]}
Previous(c) == {p \in Earlier(c) : \A q \in Earlier(c) : stamp[q] <= stamp[p]}

\* What the row of a collection gives back: nothing once it was freed.
Content(p) == IF p \in intact THEN seen[p] ELSE Nothing

\* The base line was freed by the retention: no comparison is possible.
BaselineFreed(c) == ~(Previous(c) \subseteq intact)

\* Mutant: only a collection without any object is suspicious.
OnlyEmptyIsBlind(before, after) == before # Nothing /\ after = Nothing

\* CheckCollection: the signature of a read without privilege.
LooksBlind(before, after) ==
  \/ before # Nothing /\ after = Nothing
  \/ HasColumn(before) /\ ~HasColumn(after)

Refused(c) ==
  BaselineFreed(c) \/ \E p \in Previous(c) : LooksBlind(Content(p), seen[c])

\* Mutant: an altered object is reported under a kind nobody knows.
ChangeKindRenamed(before, after) ==
  CASE before = Absent -> "added"
    [] after = Absent  -> "removed"
    [] OTHER           -> "renamed"

ChangeKind(before, after) ==
  CASE before = Absent -> "added"
    [] after = Absent  -> "removed"
    [] OTHER           -> "altered"

\* Mutant: an object that disappeared is not compared.
DiffOfCurrentOnly(p, c) ==
  {[object |-> o, kind |-> ChangeKind(Content(p)[o], seen[c][o]),
    from |-> p, to |-> c] :
     o \in {x \in Objects : seen[c][x] \notin {Absent, Content(p)[x]}}}

\* Diff: one change per object that differs.
Diff(p, c) ==
  {[object |-> o, kind |-> ChangeKind(Content(p)[o], seen[c][o]),
    from |-> p, to |-> c] :
     o \in {x \in Objects : Content(p)[x] # seen[c][x]}}

\* The identifiers of a collection and of a change carry the instant and not
\* the content: ON CONFLICT (id) DO NOTHING keeps the first.
SameChange(x, y) ==
  stamp[x.to] = stamp[y.to] /\ x.object = y.object /\ x.kind = y.kind

\* SQLite admits one writer.
Writable(c) == SingleWriter => \A d \in Collections \ {c} : pc[d] # "commit"

\* SaveSnapshot begins: it reads its base line and compares.
OpenSave(c) ==
  /\ pc[c] = "save"
  /\ Writable(c)
  /\ ~Refused(c)
  /\ basis' = [basis EXCEPT ![c] = Previous(c)]
  /\ found' = [found EXCEPT ![c] = UNION {Diff(p, c) : p \in Previous(c)}]
  /\ pc' = [pc EXCEPT ![c] = "commit"]
  /\ UNCHANGED <<base, clock, reading, tables>>

\* What a collection read lives in its process alone until it is committed.
Forget(c) ==
  /\ seen' = [seen EXCEPT ![c] = Nothing]
  /\ began' = [began EXCEPT ![c] = 0]
  /\ stamp' = [stamp EXCEPT ![c] = 0]
  /\ found' = [found EXCEPT ![c] = {}]
  /\ basis' = [basis EXCEPT ![c] = {}]

RefuseSave(c) ==
  /\ pc[c] = "save"
  /\ Refused(c)
  /\ pc' = [pc EXCEPT ![c] = "refused"]
  /\ Forget(c)
  /\ UNCHANGED <<base, clock, tables>>

CommitSave(c) ==
  /\ pc[c] = "commit"
  /\ LET new == IF \E d \in stored : stamp[d] = stamp[c] THEN {} ELSE {c}
     IN  stored' = stored \cup new /\ intact' = intact \cup new
  /\ changes' = changes \cup
       {x \in found[c] : \A y \in changes : ~SameChange(x, y)}
  /\ found' = [found EXCEPT ![c] = {}]
  /\ pc' = [pc EXCEPT ![c] = "done"]
  /\ UNCHANGED <<base, clock, reading, basis>>

\* Any error of a query, or a cancelled context: the transaction, if open, is
\* rolled back.
Fail(c) ==
  /\ AtWork(c)
  /\ pc' = [pc EXCEPT ![c] = "failed"]
  /\ Forget(c)
  /\ UNCHANGED <<base, clock, tables>>

\* `retention apply` frees a catalog that is not the newest (see Retention).
Free(c) ==
  /\ c \in intact
  /\ ~IsLatest(c)
  /\ SingleWriter => \A d \in Collections : pc[d] # "commit"
  /\ intact' = intact \ {c}
  /\ UNCHANGED <<base, clock, pc, reading, saving, stored, changes>>

Next ==
  \/ Tick
  \/ \E o \in Objects : \E v \in Values(o) : Migrate(o, v)
  \/ \E g \in Grants : Regrant(g)
  \/ \E c \in Collections :
       \/ ReadColumns(c) \/ ReadIndexes(c) \/ ReadConstraints(c)
       \/ OpenSave(c) \/ RefuseSave(c) \/ CommitSave(c) \/ Fail(c) \/ Free(c)

Spec == Init /\ [][Next]_vars
-----------------------------------------------------------------------------
States == {"idle", "indexes", "constraints", "save", "commit", "done",
           "refused", "failed"}

Contents == [Objects -> Nat]
Changes  == [object : Objects, kind : {"added", "removed", "altered"},
             from : Collections, to : Collections]

TypeOK ==
  /\ schema \in Contents
  /\ visible \in SUBSET Objects
  /\ clock \in Nat /\ regrants \in Nat
  /\ migrations \in SUBSET [object : Objects, at : Nat]
  /\ pc \in [Collections -> States]
  /\ seen \in [Collections -> Contents]
  /\ began \in [Collections -> Nat]
  /\ stamp \in [Collections -> Nat]
  /\ found \in [Collections -> SUBSET Changes]
  /\ basis \in [Collections -> SUBSET Collections]
  /\ stored \in SUBSET Collections
  /\ intact \in SUBSET stored
  /\ changes \in SUBSET Changes

After(x)  == stamp[x.from]
Before(x) == stamp[x.to]

\* A migration really touched the object while the two collections watched,
\* and no later than the instant the change is said to precede.
Happened(x) ==
  \E m \in migrations :
    /\ m.object = x.object
    /\ began[x.from] <= m.at \/ began[x.to] <= m.at
    /\ m.at <= Before(x)

\* Constraints are left out: they are filtered by privilege and CheckCollection
\* does not look at them.
Watched(x) == Kind[x.object] # "constraint"

(***************************************************************************)
(* No change is invented: whatever privileges the collector loses and      *)
(* recovers, during a collection or between two, and whatever base lines   *)
(* the retention frees, an object said to be altered, removed or, against  *)
(* a base line that saw columns, added was really touched                  *)
(* (CheckCollection: "mudança que nunca houve").                           *)
(***************************************************************************)
NoChangeInvented ==
  \A x \in changes :
    Watched(x) /\ (x.kind = "added" => HasColumn(seen[x.from])) => Happened(x)

(***************************************************************************)
(* The changes alone explain the difference between any two collections,   *)
(* kept or freed, as long as the ones in between were each compared with   *)
(* the one before it (no late one, no two saves at once).                  *)
(***************************************************************************)
NetDifferenceExplained ==
  \A p, c \in stored :
    stamp[p] < stamp[c]
    /\ (\A d \in stored : stamp[p] < stamp[d] /\ stamp[d] <= stamp[c]
                            => basis[d] = Previous(d))
    => \A o \in Objects :
         seen[p][o] # seen[c][o]
           => \E x \in changes : /\ x.object = o
                                 /\ stamp[p] <= After(x)
                                 /\ Before(x) <= stamp[c]

(***************************************************************************)
(* Refuted by the code (see README.md): schema_repository.go:61 says       *)
(* that a suspicious collection is not recorded, since the next comparison *)
(* would start from an empty catalog and accuse the whole schema as new.   *)
(* The first collection of a base has no base line and is always recorded. *)
(***************************************************************************)
NothingAccusedAsNew ==
  \A x \in changes : Watched(x) /\ x.kind = "added" => Happened(x)

=============================================================================
