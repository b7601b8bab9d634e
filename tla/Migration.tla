----------------------------- MODULE Migration -----------------------------
(* Migrate, which every command of the CLI calls before its work, by several  *)
(* processes on one store: storage/postgres/migrate.go (an advisory lock      *)
(* around the whole check-and-apply cycle) and storage/sqlite/migrate.go (the *)
(* same cycle with no lock).  Each version is one short transaction; a        *)
(* version is looked up before the transaction that applies it is begun.      *)
(* Simplifications: a process has one transaction at a time, so what it holds *)
(* is its pc; CREATE TABLE IF NOT EXISTS schema_migrations changes no state   *)
(* modelled here and is part of Enter; the commit of a process that dies      *)
(* either landed before it died (LoseCommit) or never does.                  *)
EXTENDS Naturals, Sequences, FiniteSets

CONSTANTS Procs,                \* the processes that start a command
          Nobody,               \* no session holds the lock
          Ghost,                \* the session of a process that died
          N,                    \* the last version of the list
          Knows,                \* the last version each process's binary has
          Rerunnable,           \* versions whose statements may run twice
          Drivers,              \* storage.driver of the instance
          MaxStarts             \* bound: commands started by one process

ASSUME MigrationAssumption ==
  /\ N \in Nat
  /\ Nobody \notin Procs /\ Ghost \notin Procs /\ Nobody # Ghost
  /\ Knows \in [Procs -> 0..N]
  /\ Rerunnable \subseteq 1..N
  /\ Drivers \subseteq {"postgres", "sqlite"}
  /\ MaxStarts \in Nat

VARIABLES driver,               \* the backend this store runs on
          recorded,             \* the rows of schema_migrations
          schema,               \* versions whose statements were committed
          holder,               \* the session that holds the advisory lock
          pc,                   \* where each process is in Migrate
          at,                   \* the version it is at
          why,                  \* why its last command failed
          lockLost,             \* some session lost the lock while at work
          starts                \* commands each process has started

vars == <<driver, recorded, schema, holder, pc, at, why, lockLost, starts>>

AtWork == {"lock", "check", "apply", "record", "commit"}
InTransaction == {"record", "commit"}
Ended == {"off", "ready", "failed"}
Reasons == {"none", "conflict", "busy", "lost", "io"}

Init ==
  /\ driver \in Drivers
  /\ recorded = {}
  /\ schema = << >>
  /\ holder = Nobody
  /\ pc = [p \in Procs |-> "off"]
  /\ at = [p \in Procs |-> 1]
  /\ why = [p \in Procs |-> "none"]
  /\ lockLost = FALSE
  /\ starts = [p \in Procs |-> 0]

-----------------------------------------------------------------------------
Goto(p, label) == pc' = [pc EXCEPT ![p] = label]

(* Mutant: the deferred unlock is forgotten.                                  *)
Unlocked_Kept(p) == holder

Unlocked(p) == IF holder = p THEN Nobody ELSE holder

(* Migrate returns an error: an open transaction is rolled back and the       *)
(* deferred unlock runs.                                                      *)
Abort(p, reason) ==
  /\ Goto(p, "failed")
  /\ why' = [why EXCEPT ![p] = reason]
  /\ holder' = Unlocked(p)
  /\ UNCHANGED <<driver, recorded, schema, at, lockLost, starts>>

Start(p) ==
  /\ pc[p] \in Ended
  /\ starts[p] < MaxStarts
  /\ starts' = [starts EXCEPT ![p] = @ + 1]
  /\ why' = [why EXCEPT ![p] = "none"]
  /\ at' = [at EXCEPT ![p] = 1]
  /\ Goto(p, "lock")
  /\ UNCHANGED <<driver, recorded, schema, holder, lockLost>>

(* Mutant: PostgreSQL migrates as SQLite does.                                *)
MayEnter_NoLock == TRUE

(* pg_advisory_lock waits for the session that holds it; SQLite has no lock.  *)
MayEnter == driver = "sqlite" \/ holder = Nobody

Enter(p) ==
  /\ pc[p] = "lock"
  /\ MayEnter
  /\ holder' = IF driver = "postgres" THEN p ELSE holder
  /\ Goto(p, "check")
  /\ UNCHANGED <<driver, recorded, schema, at, why, lockLost, starts>>

(* Mutants: the list is read one too far, or one too short.                   *)
InList_OneMore(p) == at[p] <= Knows[p] + 1
InList_OneLess(p) == at[p] < Knows[p]

(* There is still a version in the list of the binary.                        *)
InList(p) == at[p] <= Knows[p]

(* isMigrationApplied: only the recorded version proves the transaction.      *)
Skip(p) ==
  /\ pc[p] = "check"
  /\ InList(p)
  /\ at[p] \in recorded
  /\ at' = [at EXCEPT ![p] = @ + 1]
  /\ UNCHANGED <<driver, recorded, schema, holder, pc, why, lockLost, starts>>

Missing(p) ==
  /\ pc[p] = "check"
  /\ InList(p)
  /\ at[p] \notin recorded
  /\ Goto(p, "apply")
  /\ UNCHANGED <<driver, recorded, schema, holder, at, why, lockLost, starts>>

Finish(p) ==
  /\ pc[p] = "check"
  /\ ~InList(p)
  /\ Goto(p, "ready")
  /\ holder' = Unlocked(p)
  /\ UNCHANGED <<driver, recorded, schema, at, why, lockLost, starts>>

(* SQLite has one writer per file; PostgreSQL makes the second transaction    *)
(* that creates the same object wait for the first.                           *)
Waits(p) ==
  \E q \in Procs \ {p} :
    /\ pc[q] \in InTransaction
    /\ driver = "sqlite" \/ at[q] = at[p]

InSchema(v) == \E i \in 1..Len(schema) : schema[i] = v

(* A statement that finds its object already there fails, unless it was       *)
(* written to be run again.                                                   *)
Refused(v) == InSchema(v) /\ v \notin Rerunnable

Execute(p) ==
  /\ pc[p] = "apply"
  /\ ~Waits(p)
  /\ ~Refused(at[p])
  /\ Goto(p, "record")
  /\ UNCHANGED <<driver, recorded, schema, holder, at, why, lockLost, starts>>

StatementFails(p) ==
  /\ pc[p] = "apply"
  /\ ~Waits(p)
  /\ Refused(at[p])
  /\ Abort(p, "conflict")

(* busy_timeout: the second writer gives up after five seconds.               *)
GiveUp(p) ==
  /\ driver = "sqlite"
  /\ pc[p] = "apply"
  /\ Waits(p)
  /\ Abort(p, "busy")

(* Mutant: INSERT ... ON CONFLICT DO NOTHING.                                 *)
Taken_Ignored(v) == FALSE

(* version is the primary key of schema_migrations.                           *)
Taken(v) == v \in recorded

Record(p) ==
  /\ pc[p] = "record"
  /\ ~Taken(at[p])
  /\ Goto(p, "commit")
  /\ UNCHANGED <<driver, recorded, schema, holder, at, why, lockLost, starts>>

RecordFails(p) ==
  /\ pc[p] = "record"
  /\ Taken(at[p])
  /\ Abort(p, "conflict")

(* The commit publishes the statements and the version together.              *)
Publish(v) ==
  /\ schema' = Append(schema, v)
  /\ recorded' = recorded \cup {v}

Commit(p) ==
  /\ pc[p] = "commit"
  /\ Publish(at[p])
  /\ at' = [at EXCEPT ![p] = @ + 1]
  /\ Goto(p, "check")
  /\ UNCHANGED <<driver, holder, why, lockLost, starts>>

-----------------------------------------------------------------------------
(* The commit reached the database and its answer did not reach the process.  *)
LoseCommit(p) ==
  /\ pc[p] = "commit"
  /\ Publish(at[p])
  /\ Goto(p, "failed")
  /\ why' = [why EXCEPT ![p] = "lost"]
  /\ holder' = Unlocked(p)
  /\ UNCHANGED <<driver, at, lockLost, starts>>

(* Any call to the database may fail, or its context be cancelled.            *)
Fail(p) ==
  /\ pc[p] \in AtWork
  /\ Abort(p, "io")

(* The connection the lock lives on drops.  Nothing in Migrate looks at it    *)
(* again before the unlock: the cycle goes on over the pool's connections.    *)
DropLock ==
  /\ holder \in Procs
  /\ holder' = Nobody
  /\ lockLost' = TRUE
  /\ UNCHANGED <<driver, recorded, schema, pc, at, why, starts>>

(* The process is killed; the server still holds its session.                 *)
Crash(p) ==
  /\ pc[p] \in AtWork
  /\ Goto(p, "off")
  /\ holder' = IF holder = p THEN Ghost ELSE holder
  /\ UNCHANGED <<driver, recorded, schema, at, why, lockLost, starts>>

(* The server notices that a session is gone and releases its lock.           *)
Reap ==
  /\ holder = Ghost
  /\ holder' = Nobody
  /\ UNCHANGED <<driver, recorded, schema, pc, at, why, lockLost, starts>>

-----------------------------------------------------------------------------
Step(p) ==
  \/ Enter(p)
  \/ Skip(p)
  \/ Missing(p)
  \/ Finish(p)
  \/ Execute(p)
  \/ StatementFails(p)
  \/ Record(p)
  \/ RecordFails(p)
  \/ Commit(p)

Next ==
  \/ \E p \in Procs :
       \/ Start(p)
       \/ Step(p)
       \/ GiveUp(p)
       \/ LoseCommit(p)
       \/ Fail(p)
       \/ Crash(p)
  \/ DropLock
  \/ Reap

Spec == Init /\ [][Next]_vars

(* A process that is not killed runs, and a server ends a dead session.       *)
Fairness ==
  /\ \A p \in Procs : WF_vars(Step(p))
  /\ WF_vars(Reap)

FairSpec == Spec /\ Fairness

-----------------------------------------------------------------------------
TypeOK ==
  /\ driver \in Drivers
  /\ recorded \subseteq 1..N
  /\ schema \in Seq(1..N)
  /\ holder \in Procs \cup {Nobody, Ghost}
  /\ pc \in [Procs -> AtWork \cup Ended]
  /\ at \in [Procs -> 1..(N + 1)]
  /\ why \in [Procs -> Reasons]
  /\ lockLost \in BOOLEAN
  /\ starts \in [Procs -> 0..MaxStarts]

(* The store goes through the versions in order, each applied once and in     *)
(* whole, whatever races, kills, lost locks and lost commits there are: the   *)
(* guarantee of "aplica, em ordem, as migrations versionadas" in Migrate.     *)
Versions == INSTANCE SchemaVersions WITH applied <- schema

VersionsInOrder == Versions!Spec

(* A command goes on to its own queries only on a store where the statements  *)
(* of every version its binary knows took effect, even when the process that  *)
(* applied them died, failed, or had an older binary.                         *)
ReadyIsComplete ==
  \A p \in Procs : pc[p] = "ready" => \A v \in 1..Knows[p] : InSchema(v)

(* What the advisory lock is there for: while no session loses it, no command *)
(* fails because another one is migrating.                                    *)
NoConflictUnderLock ==
  driver = "postgres" /\ ~lockLost => \A p \in Procs : why[p] # "conflict"

(* A command that waits for the lock, or is migrating, ends: the lock of a    *)
(* process that failed or was killed is never left behind.                    *)
EveryCommandEnds ==
  \A p \in Procs : pc[p] \in AtWork ~> pc[p] \in Ended

=============================================================================
