-------------------------- MODULE MigrationProofs --------------------------
(* Theorems about Migration, for any number of processes and versions, any    *)
(* split of the versions in those that may run twice and those that may not,  *)
(* and any mix of binaries.                                                   *)
EXTENDS Migration, TLAPS

(* What the store holds is a prefix of the list, and schema_migrations says   *)
(* exactly that.                                                              *)
Prefix ==
  /\ \A i \in 1..Len(schema) : schema[i] = i
  /\ recorded = 1..Len(schema)

(* A process is never past the first version that is missing.                 *)
NotAhead == \A p \in Procs : at[p] <= Len(schema) + 1

(* Two transactions never carry the same version.                             *)
Exclusive ==
  \A p, q \in Procs :
    p # q /\ pc[p] \in InTransaction /\ pc[q] \in InTransaction => at[p] # at[q]

(* Where a process may be, given the version it is at.                        *)
Position ==
  \A p \in Procs :
    /\ pc[p] \in {"apply", "record", "commit"} => at[p] <= Knows[p]
    /\ pc[p] = "commit" => at[p] \notin recorded
    /\ pc[p] = "ready" => at[p] > Knows[p]

(* While the lock holds, only its holder is past it, and what its holder      *)
(* looked up stays true until it commits.                                     *)
Locked ==
  driver = "postgres" /\ ~lockLost =>
    \A p \in Procs :
      /\ pc[p] \in AtWork \ {"lock"} => holder = p
      /\ pc[p] \in {"apply", "record", "commit"} => at[p] \notin recorded
      /\ why[p] # "conflict"

IInv == TypeOK /\ Prefix /\ NotAhead /\ Exclusive /\ Position /\ Locked

-----------------------------------------------------------------------------
(* Initially nothing was applied and nobody is at work.                       *)
LEMMA InitIInv == Init => IInv
<1> SUFFICES ASSUME Init PROVE IInv
  OBVIOUS
<1> USE MigrationAssumption
<1>1. schema = << >> /\ Len(schema) = 0 /\ schema \in Seq(1..N)
  BY DEF Init
<1>2. TypeOK
  <2>1. 1 \in 1..(N + 1) /\ 0 \in 0..MaxStarts
    OBVIOUS
  <2>2. at \in [Procs -> 1..(N + 1)] /\ starts \in [Procs -> 0..MaxStarts]
    BY <2>1 DEF Init
  <2>3. pc \in [Procs -> AtWork \cup Ended] /\ why \in [Procs -> Reasons]
    BY DEF Init, AtWork, Ended, Reasons
  <2> QED BY <1>1, <2>2, <2>3 DEF Init, TypeOK
<1>3. Prefix
  BY <1>1 DEF Init, Prefix
<1>4. NotAhead
  BY <1>1 DEF Init, NotAhead
<1>5. Exclusive /\ Position /\ Locked
  BY DEF Init, Exclusive, Position, Locked, InTransaction, AtWork
<1> QED BY <1>2, <1>3, <1>4, <1>5 DEF IInv

(* Committing the first missing version keeps the store a prefix.             *)
LEMMA PublishPrefix ==
  ASSUME TypeOK, Prefix, NEW v \in 1..N, v = Len(schema) + 1, Publish(v)
  PROVE  /\ Prefix'
         /\ schema' \in Seq(1..N)
         /\ recorded' \subseteq 1..N
         /\ Len(schema') = Len(schema) + 1
         /\ recorded' = recorded \cup {v}
<1>1. schema \in Seq(1..N) /\ Len(schema) \in Nat
  BY DEF TypeOK
<1>2. schema' = Append(schema, v) /\ recorded' = recorded \cup {v}
  BY DEF Publish
<1>3. Len(schema') = Len(schema) + 1 /\ schema' \in Seq(1..N)
  BY <1>1, <1>2
<1>4. \A i \in 1..Len(schema') : schema'[i] = i
  BY <1>1, <1>2, <1>3 DEF Prefix
<1>5. recorded' = 1..Len(schema')
  BY <1>1, <1>2, <1>3 DEF Prefix
<1> QED BY <1>2, <1>3, <1>4, <1>5 DEF TypeOK, Prefix

-----------------------------------------------------------------------------
(* Every step keeps the types, and the store changes only by a commit.        *)
LEMMA StepKeepsType ==
  ASSUME IInv, [Next]_vars
  PROVE  TypeOK'
<1> USE MigrationAssumption DEF TypeOK, AtWork, Ended, Reasons, Goto
<1>a. TypeOK BY DEF IInv
<1>b. ASSUME NEW p \in Procs, NEW r \in Reasons, Abort(p, r)
      PROVE  TypeOK'
  BY <1>a, <1>b DEF Abort, Unlocked
<1>c. ASSUME NEW p \in Procs, pc[p] = "commit"
      PROVE  at[p] \in 1..N /\ at[p] = Len(schema) + 1 /\ at[p] + 1 \in 1..(N + 1)
  BY <1>a, <1>c DEF IInv, Position, NotAhead, Prefix
<1>1. ASSUME NEW p \in Procs, Start(p) PROVE TypeOK'
  BY <1>a, <1>1 DEF Start
<1>2. ASSUME NEW p \in Procs, Enter(p) PROVE TypeOK'
  BY <1>a, <1>2 DEF Enter
<1>3. ASSUME NEW p \in Procs, Skip(p) PROVE TypeOK'
  BY <1>a, <1>3 DEF Skip, InList
<1>4. ASSUME NEW p \in Procs, Missing(p) PROVE TypeOK'
  BY <1>a, <1>4 DEF Missing
<1>5. ASSUME NEW p \in Procs, Finish(p) PROVE TypeOK'
  BY <1>a, <1>5 DEF Finish, Unlocked
<1>6. ASSUME NEW p \in Procs, Execute(p) \/ Record(p) PROVE TypeOK'
  BY <1>a, <1>6 DEF Execute, Record
<1>7. ASSUME NEW p \in Procs, StatementFails(p) \/ RecordFails(p) \/ GiveUp(p) \/ Fail(p)
      PROVE  TypeOK'
  BY <1>b, <1>7 DEF StatementFails, RecordFails, GiveUp, Fail
<1>8. ASSUME NEW p \in Procs, Commit(p) PROVE TypeOK'
  <2>1. schema' \in Seq(1..N) /\ recorded' \subseteq 1..N
    BY <1>8, <1>a, <1>c, PublishPrefix DEF Commit, IInv
  <2> QED BY <2>1, <1>a, <1>c, <1>8 DEF Commit
<1>9. ASSUME NEW p \in Procs, LoseCommit(p) PROVE TypeOK'
  <2>1. schema' \in Seq(1..N) /\ recorded' \subseteq 1..N
    BY <1>9, <1>a, <1>c, PublishPrefix DEF LoseCommit, IInv
  <2> QED BY <2>1, <1>a, <1>9 DEF LoseCommit, Unlocked
<1>10. ASSUME NEW p \in Procs, Crash(p) PROVE TypeOK'
  BY <1>a, <1>10 DEF Crash
<1>11. CASE DropLock \/ Reap
  BY <1>a, <1>11 DEF DropLock, Reap
<1>12. CASE UNCHANGED vars
  BY <1>a, <1>12 DEF vars
<1> QED BY <1>1, <1>2, <1>3, <1>4, <1>5, <1>6, <1>7, <1>8, <1>9, <1>10, <1>11, <1>12
        DEF Next, Step

(* A step either commits the first missing version or leaves the store alone. *)
LEMMA StoreSteps ==
  ASSUME IInv, [Next]_vars
  PROVE  \/ \E p \in Procs :
              /\ pc[p] = "commit" /\ at[p] = Len(schema) + 1 /\ at[p] \in 1..N
              /\ Commit(p) \/ LoseCommit(p)
              /\ Publish(at[p])
         \/ UNCHANGED <<schema, recorded>>
<1> USE MigrationAssumption
<1>1. ASSUME NEW p \in Procs, Commit(p) \/ LoseCommit(p)
      PROVE  /\ pc[p] = "commit" /\ at[p] = Len(schema) + 1 /\ at[p] \in 1..N
             /\ Publish(at[p])
  <2>1. pc[p] = "commit" /\ Publish(at[p])
    BY <1>1 DEF Commit, LoseCommit
  <2>2. at[p] \in 1..(N + 1) /\ Knows[p] \in 0..N /\ Len(schema) \in Nat
    BY DEF IInv, TypeOK
  <2>3. at[p] <= Knows[p] /\ at[p] \notin recorded /\ at[p] <= Len(schema) + 1
    BY <2>1 DEF IInv, Position, NotAhead
  <2> QED BY <2>1, <2>2, <2>3 DEF IInv, Prefix
<1>2. ASSUME NEW p \in Procs,
             Start(p) \/ (Step(p) /\ ~Commit(p)) \/ GiveUp(p) \/ Fail(p) \/ Crash(p)
      PROVE  UNCHANGED <<schema, recorded>>
  BY <1>2 DEF Start, Step, Enter, Skip, Missing, Finish, Execute, StatementFails,
              Record, RecordFails, GiveUp, Fail, Crash, Abort
<1>3. CASE DropLock \/ Reap \/ UNCHANGED vars
  BY <1>3 DEF DropLock, Reap, vars
<1> QED BY <1>1, <1>2, <1>3 DEF Next, Step

(* What a step adds to the schema is the next version, recorded.           *)
LEMMA StepKeepsPrefix ==
  ASSUME IInv, [Next]_vars
  PROVE  Prefix' /\ Len(schema') \in Nat /\ Len(schema') >= Len(schema)
         /\ recorded \subseteq recorded'
<1>1. TypeOK /\ Prefix /\ Len(schema) \in Nat
  BY DEF IInv, TypeOK
<1>2. CASE UNCHANGED <<schema, recorded>>
  BY <1>1, <1>2 DEF Prefix
<1>3. ASSUME NEW p \in Procs, at[p] = Len(schema) + 1, at[p] \in 1..N, Publish(at[p])
      PROVE  Prefix' /\ Len(schema') = Len(schema) + 1 /\ recorded \subseteq recorded'
  BY <1>1, <1>3, PublishPrefix
<1> QED BY <1>1, <1>2, <1>3, StoreSteps

(* No process gets ahead of the store: it moves on when it saw its version    *)
(* recorded or when it committed it.                                          *)
LEMMA StepKeepsNotAhead ==
  ASSUME IInv, [Next]_vars
  PROVE  NotAhead'
<1> USE MigrationAssumption
<1>1. /\ TypeOK /\ Prefix /\ NotAhead /\ Len(schema) \in Nat
      /\ Len(schema') \in Nat /\ Len(schema') >= Len(schema) /\ TypeOK'
  BY StepKeepsPrefix, StepKeepsType DEF IInv, TypeOK
<1>2. ASSUME at' = at PROVE NotAhead'
  BY <1>1, <1>2 DEF NotAhead, TypeOK
<1>3. ASSUME NEW p \in Procs, Start(p) PROVE NotAhead'
  BY <1>1, <1>3 DEF NotAhead, TypeOK, Start
<1>4. ASSUME NEW p \in Procs, Skip(p) PROVE NotAhead'
  <2>1. at[p] + 1 <= Len(schema') + 1
    BY <1>1, <1>4 DEF Skip, Prefix, TypeOK
  <2> QED BY <1>1, <1>4, <2>1 DEF NotAhead, TypeOK, Skip
<1>5. ASSUME NEW p \in Procs, Commit(p) PROVE NotAhead'
  <2>1. at[p] = Len(schema) + 1 /\ Len(schema') = Len(schema) + 1
    <3>1. pc[p] = "commit" /\ Publish(at[p]) BY <1>5 DEF Commit
    <3>2. at[p] \in 1..(N + 1) /\ Knows[p] \in 0..N BY <1>1 DEF TypeOK
    <3>3. at[p] <= Knows[p] /\ at[p] \notin recorded /\ at[p] <= Len(schema) + 1
      BY <3>1 DEF IInv, Position, NotAhead
    <3>4. at[p] \in 1..N /\ at[p] = Len(schema) + 1
      BY <1>1, <3>2, <3>3 DEF Prefix
    <3> QED BY <1>1, <3>1, <3>4, PublishPrefix
  <2> QED BY <1>1, <1>5, <2>1 DEF NotAhead, TypeOK, Commit
<1>6. ASSUME NEW p \in Procs,
             Enter(p) \/ Missing(p) \/ Finish(p) \/ Execute(p) \/ StatementFails(p)
             \/ Record(p) \/ RecordFails(p) \/ GiveUp(p) \/ LoseCommit(p)
             \/ Fail(p) \/ Crash(p)
      PROVE  at' = at
  BY <1>6 DEF Enter, Missing, Finish, Execute, StatementFails, Record, RecordFails,
              GiveUp, LoseCommit, Fail, Crash, Abort
<1>7. CASE DropLock \/ Reap \/ UNCHANGED vars
  BY <1>2, <1>7 DEF DropLock, Reap, vars
<1> QED BY <1>2, <1>3, <1>4, <1>5, <1>6, <1>7 DEF Next, Step

(* A transaction begins only when no other one carries its version.           *)
LEMMA StepKeepsExclusive ==
  ASSUME IInv, [Next]_vars
  PROVE  Exclusive'
<1> USE MigrationAssumption DEF Goto, InTransaction
<1>1. TypeOK /\ Exclusive
  BY DEF IInv
<1>2. ASSUME NEW p \in Procs, NEW l, l \notin InTransaction,
             pc' = [pc EXCEPT ![p] = l],
             \A q \in Procs \ {p} : at'[q] = at[q]
      PROVE  Exclusive'
  BY <1>1, <1>2 DEF Exclusive, TypeOK
<1>3. ASSUME NEW p \in Procs, Execute(p) PROVE Exclusive'
  <2>1. \A q \in Procs \ {p} : pc[q] \in InTransaction => at[q] # at[p]
    BY <1>3 DEF Execute, Waits
  <2> QED BY <1>1, <1>3, <2>1 DEF Execute, Exclusive, TypeOK
<1>4. ASSUME NEW p \in Procs, Record(p) PROVE Exclusive'
  BY <1>1, <1>4 DEF Record, Exclusive, TypeOK
<1>5. ASSUME NEW p \in Procs, Skip(p) PROVE Exclusive'
  BY <1>1, <1>5 DEF Skip, Exclusive, TypeOK
<1>6. ASSUME NEW p \in Procs, Start(p) PROVE Exclusive'
  BY <1>1, <1>2, <1>6 DEF Start, TypeOK
<1>7. ASSUME NEW p \in Procs, Commit(p) PROVE Exclusive'
  BY <1>1, <1>2, <1>7 DEF Commit, TypeOK
<1>8. ASSUME NEW p \in Procs,
             Enter(p) \/ Missing(p) \/ Finish(p) \/ StatementFails(p)
             \/ RecordFails(p) \/ GiveUp(p) \/ LoseCommit(p) \/ Fail(p) \/ Crash(p)
      PROVE  Exclusive'
  <2>1. at' = at /\ \E l : l \notin InTransaction /\ pc' = [pc EXCEPT ![p] = l]
    BY <1>8 DEF Enter, Missing, Finish, StatementFails, RecordFails, GiveUp,
                LoseCommit, Fail, Crash, Abort
  <2> QED BY <1>2, <2>1
<1>9. CASE DropLock \/ Reap \/ UNCHANGED vars
  BY <1>1, <1>9 DEF DropLock, Reap, vars, Exclusive
<1> QED BY <1>3, <1>4, <1>5, <1>6, <1>7, <1>8, <1>9 DEF Next, Step

(* What a process has seen of its version when it commits is still true.      *)
LEMMA StepKeepsPosition ==
  ASSUME IInv, [Next]_vars
  PROVE  Position'
<1> USE MigrationAssumption DEF Goto
<1>1. /\ TypeOK /\ Prefix /\ Position /\ NotAhead /\ Exclusive
      /\ \A p \in Procs : at[p] \in 1..(N + 1) /\ Knows[p] \in 0..N
  BY DEF IInv, TypeOK
<1>2. ASSUME NEW p \in Procs, NEW l,
             pc' = [pc EXCEPT ![p] = l],
             l = "record" => at[p] <= Knows[p],
             l \notin {"apply", "commit", "ready"},
             recorded' = recorded,
             \A q \in Procs \ {p} : at'[q] = at[q],
             l = "record" => at' = at
      PROVE  Position'
  BY <1>1, <1>2 DEF Position, TypeOK
<1>3. ASSUME NEW p \in Procs, Commit(p) \/ LoseCommit(p) PROVE Position'
  <2>1. pc[p] = "commit" /\ recorded' = recorded \cup {at[p]}
    BY <1>3 DEF Commit, LoseCommit, Publish
  <2>2. ASSUME NEW q \in Procs, pc'[q] = "commit"
        PROVE  at'[q] \notin recorded'
    <3>1. q # p /\ pc[q] = "commit" /\ at'[q] = at[q]
      BY <1>1, <1>3, <2>1, <2>2 DEF Commit, LoseCommit, TypeOK
    <3>2. at[q] # at[p] /\ at[q] \notin recorded
      BY <1>1, <2>1, <3>1 DEF Exclusive, InTransaction, Position
    <3> QED BY <2>1, <3>1, <3>2
  <2>3. ASSUME NEW q \in Procs
        PROVE  /\ pc'[q] \in {"apply", "record", "commit"} => at'[q] <= Knows[q]
               /\ pc'[q] = "ready" => at'[q] > Knows[q]
    BY <1>1, <1>3 DEF Commit, LoseCommit, Position, TypeOK
  <2> QED BY <2>2, <2>3 DEF Position
<1>4. ASSUME NEW p \in Procs, Start(p) PROVE Position'
  BY <1>1, <1>2, <1>4 DEF Start, TypeOK
<1>5. ASSUME NEW p \in Procs, Skip(p) PROVE Position'
  BY <1>1, <1>5 DEF Skip, Position, TypeOK
<1>6. ASSUME NEW p \in Procs, Missing(p) PROVE Position'
  BY <1>1, <1>6 DEF Missing, InList, Position, TypeOK
<1>7. ASSUME NEW p \in Procs, Finish(p) PROVE Position'
  BY <1>1, <1>7 DEF Finish, InList, Position, TypeOK
<1>8. ASSUME NEW p \in Procs, Execute(p) PROVE Position'
  BY <1>1, <1>8 DEF Execute, Position, TypeOK
<1>9. ASSUME NEW p \in Procs, Record(p) PROVE Position'
  BY <1>1, <1>9 DEF Record, Taken, Position, TypeOK
<1>10. ASSUME NEW p \in Procs, Enter(p) PROVE Position'
  BY <1>1, <1>10 DEF Enter, Position, TypeOK
<1>11. ASSUME NEW p \in Procs,
              StatementFails(p) \/ RecordFails(p) \/ GiveUp(p) \/ Fail(p) \/ Crash(p)
       PROVE  Position'
  BY <1>1, <1>11 DEF StatementFails, RecordFails, GiveUp, Fail, Crash, Abort, Position, TypeOK
<1>12. CASE DropLock \/ Reap \/ UNCHANGED vars
  BY <1>1, <1>12 DEF DropLock, Reap, vars, Position
<1> QED BY <1>3, <1>4, <1>5, <1>6, <1>7, <1>8, <1>9, <1>10, <1>11, <1>12 DEF Next, Step

(* Under the lock nobody else is in the cycle, so what was looked up stays    *)
(* true and no statement or insert meets another process.                     *)
LEMMA StepKeepsLocked ==
  ASSUME IInv, [Next]_vars
  PROVE  Locked'
<1> USE MigrationAssumption DEF Goto, AtWork
<1>1. TypeOK /\ Prefix /\ Locked /\ Position /\ Len(schema) \in Nat
  BY DEF IInv, TypeOK
<1> SUFFICES ASSUME driver' = "postgres", ~lockLost'
             PROVE  \A p \in Procs :
                      /\ pc'[p] \in AtWork \ {"lock"} => holder' = p
                      /\ pc'[p] \in {"apply", "record", "commit"} => at'[p] \notin recorded'
                      /\ why'[p] # "conflict"
  BY DEF Locked
<1>2. driver = "postgres" /\ ~lockLost
  <2>1. driver' = driver
    BY DEF Next, Step, Start, Enter, Skip, Missing, Finish, Execute, StatementFails,
           Record, RecordFails, Commit, GiveUp, LoseCommit, Fail, Crash, Abort,
           DropLock, Reap, vars
  <2>2. lockLost' = lockLost \/ lockLost' = TRUE
    BY DEF Next, Step, Start, Enter, Skip, Missing, Finish, Execute, StatementFails,
           Record, RecordFails, Commit, GiveUp, LoseCommit, Fail, Crash, Abort,
           DropLock, Reap, vars
  <2> QED BY <2>1, <2>2
<1>3. \A p \in Procs :
        /\ pc[p] \in AtWork \ {"lock"} => holder = p
        /\ pc[p] \in {"apply", "record", "commit"} => at[p] \notin recorded
        /\ why[p] # "conflict"
  BY <1>1, <1>2 DEF Locked
<1>4. \A v \in 1..N : InSchema(v) => v \in recorded
  BY <1>1 DEF InSchema, Prefix
<1>5. \A p \in Procs : ~StatementFails(p) /\ ~RecordFails(p)
  <2>1. \A p \in Procs : pc[p] = "apply" => at[p] \in 1..N
    BY <1>1 DEF TypeOK, Position
  <2> QED BY <1>3, <1>4, <2>1 DEF StatementFails, RecordFails, Refused, Taken
<1>6. ASSUME NEW p \in Procs, Start(p) \/ Enter(p) \/ Skip(p) \/ Missing(p)
      PROVE  \A q \in Procs :
               /\ pc'[q] \in AtWork \ {"lock"} => holder' = q
               /\ pc'[q] \in {"apply", "record", "commit"} => at'[q] \notin recorded'
               /\ why'[q] # "conflict"
  BY <1>1, <1>2, <1>3, <1>6 DEF Start, Enter, MayEnter, Skip, Missing, InList, TypeOK, Ended
<1>7. ASSUME NEW p \in Procs, Finish(p) \/ Execute(p) \/ Record(p)
      PROVE  \A q \in Procs :
               /\ pc'[q] \in AtWork \ {"lock"} => holder' = q
               /\ pc'[q] \in {"apply", "record", "commit"} => at'[q] \notin recorded'
               /\ why'[q] # "conflict"
  BY <1>1, <1>2, <1>3, <1>7 DEF Finish, Unlocked, Execute, Record, TypeOK
<1>8. ASSUME NEW p \in Procs, Commit(p) \/ LoseCommit(p)
      PROVE  \A q \in Procs :
               /\ pc'[q] \in AtWork \ {"lock"} => holder' = q
               /\ pc'[q] \in {"apply", "record", "commit"} => at'[q] \notin recorded'
               /\ why'[q] # "conflict"
  <2>1. pc[p] = "commit" /\ holder = p
    BY <1>3, <1>8 DEF Commit, LoseCommit
  <2>2. \A q \in Procs \ {p} : pc[q] \notin AtWork \ {"lock"}
    BY <1>3, <2>1
  <2> QED BY <1>1, <1>3, <1>8, <2>1, <2>2 DEF Commit, LoseCommit, Unlocked, TypeOK
<1>9. ASSUME NEW p \in Procs, GiveUp(p) \/ Fail(p) \/ Crash(p)
      PROVE  \A q \in Procs :
               /\ pc'[q] \in AtWork \ {"lock"} => holder' = q
               /\ pc'[q] \in {"apply", "record", "commit"} => at'[q] \notin recorded'
               /\ why'[q] # "conflict"
  BY <1>1, <1>2, <1>3, <1>9 DEF GiveUp, Fail, Crash, Abort, Unlocked, TypeOK
<1>10. CASE DropLock \/ Reap \/ UNCHANGED vars
  BY <1>1, <1>3, <1>10 DEF DropLock, Reap, vars, TypeOK
<1> QED BY <1>5, <1>6, <1>7, <1>8, <1>9, <1>10 DEF Next, Step

-----------------------------------------------------------------------------
(* The strengthened invariant holds in every reachable state.                 *)
THEOREM MigrationInvariance == Spec => []IInv
<1>1. IInv /\ [Next]_vars => IInv'
  BY StepKeepsType, StepKeepsPrefix, StepKeepsNotAhead, StepKeepsExclusive,
     StepKeepsPosition, StepKeepsLocked DEF IInv
<1> QED BY <1>1, InitIInv, PTL DEF Spec

(* Types, for any number of processes and versions.                           *)
THEOREM TypeCorrect == Spec => []TypeOK
<1>1. IInv => TypeOK
  BY DEF IInv
<1> QED BY <1>1, MigrationInvariance, PTL

(* A command goes on only on a store that has every version it knows.         *)
THEOREM CommandsFindTheirSchema == Spec => []ReadyIsComplete
<1>1. IInv => ReadyIsComplete
  <2> SUFFICES ASSUME IInv, NEW p \in Procs, pc[p] = "ready", NEW v \in 1..Knows[p]
               PROVE  InSchema(v)
    BY DEF ReadyIsComplete
  <2>1. at[p] > Knows[p] /\ at[p] <= Len(schema) + 1 /\ Len(schema) \in Nat
        /\ at[p] \in 1..(N + 1) /\ Knows[p] \in 0..N
    BY MigrationAssumption DEF IInv, Position, NotAhead, TypeOK
  <2>2. v \in 1..Len(schema) /\ schema[v] = v
    BY <2>1 DEF IInv, Prefix
  <2> QED BY <2>2 DEF InSchema
<1> QED BY <1>1, MigrationInvariance, PTL

(* While no session loses the lock, no command fails because of another.      *)
THEOREM LockPreventsConflicts == Spec => []NoConflictUnderLock
<1>1. IInv => NoConflictUnderLock
  BY DEF IInv, Locked, NoConflictUnderLock
<1> QED BY <1>1, MigrationInvariance, PTL

(* Migration implements the list of versions, applied once each and in order. *)
THEOREM Refinement == Spec => VersionsInOrder
<1>1. Init => Versions!Init
  BY DEF Init, Versions!Init
<1>2. IInv /\ [Next]_vars => [Versions!Next]_schema
  <2> SUFFICES ASSUME IInv, [Next]_vars, schema' # schema
               PROVE  Versions!Next
    OBVIOUS
  <2>1. PICK v \in 1..N : v = Len(schema) + 1 /\ schema' = Append(schema, v)
    BY StoreSteps DEF Publish
  <2>2. Len(schema) < N
    BY <2>1, MigrationAssumption DEF IInv, TypeOK
  <2> QED BY <2>1, <2>2 DEF Versions!Next, Versions!ApplyNext
<1> QED BY <1>1, <1>2, MigrationInvariance, PTL DEF Spec, VersionsInOrder, Versions!Spec
=============================================================================
