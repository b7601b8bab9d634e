-------------------------- MODULE IngestionProofs --------------------------
(***************************************************************************)
(* Theorems about Ingestion, for any number of requests, batches, signals, *)
(* connections and starts of the process.                                  *)
(***************************************************************************)
EXTENDS Ingestion, FiniteSetTheorems, TLAPS

\* A request that was sent carries a batch.
Sent == \A r \in Requests : pc[r] # "unsent" => batch[r] \in Batches

\* Only an open transaction holds rows or has passed any of its batch, and it
\* began after the normaliser.
Held ==
  \A r \in Requests :
    /\ pc[r] # "saving" => written[r] = {} /\ next[r] = 1
    /\ pc[r] \in {"saving", "committed"} => Verdict[batch[r]] = "valid"

\* Only batches that are well formed get past the checks of the handler.
Ingesting ==
  \A r \in Requests :
    pc[r] = "ingesting" => Verdict[batch[r]] \in {"invalid", "valid"}

\* No two transactions hold the same id, and none holds one already stored.
Exclusive ==
  \A r, q \in Requests : \A id \in written[r] :
    stored[id] = Nobody /\ (q # r => id \notin written[q])

\* What the loop of Save has passed is written by it or stored by another.
PassedBy(r) ==
  \A i \in DOMAIN Content[batch[r]] : i < next[r] =>
    \/ Content[batch[r]][i] \in written[r]
    \/ stored[Content[batch[r]][i]] # Nobody

Passed == \A r \in Requests : pc[r] = "saving" => PassedBy(r)

\* Save returned without an error.
Accepted ==
  \A r \in Requests : pc[r] = "committed" => IsStored(r)

\* Only what passed the normaliser and committed has rows.
Origin ==
  \A r \in Requests : \A id \in Ids : stored[id] = r =>
    /\ pc[r] \in {"committed", "failed", "ended", "lost"}
    /\ Verdict[batch[r]] = "valid"
    /\ IsStored(r)

\* An answer ends its request, and says what the table says.
Told ==
  \A r \in Requests :
    /\ answer[r] # "none" => pc[r] = "ended"
    /\ answer[r] = "success" => IsStored(r)
    /\ answer[r] = "refused" => \A id \in Ids : stored[id] # r

IInv ==
  /\ TypeOK /\ Sent /\ Ingesting /\ Held /\ Exclusive
  /\ Passed /\ Accepted /\ Origin /\ Told

-----------------------------------------------------------------------------
(* How a request may move in a step that leaves the table alone. *)

\* It stays where it is, or goes on without touching its transaction.
Goes(r, from, to) == pc[r] = from /\ pc'[r] = to /\ answer'[r] = answer[r]

Stays(r) == pc'[r] = pc[r] /\ answer'[r] = answer[r]

Begins(r) ==
  /\ \/ Goes(r, "ingesting", "saving")
     \/ Goes(r, "ingesting", "committed") /\ IsStored(r)
  /\ Verdict[batch[r]] = "valid"

\* Its handler returns, with an answer the table agrees with.
Returns(r) ==
  /\ pc[r] \in {"reading", "committed", "failed"} /\ pc'[r] = "ended"
  /\ answer'[r] = "success" => IsStored(r)
  /\ answer'[r] = "refused" => \A id \in Ids : stored[id] # r

\* Its transaction, if it has one, is rolled back.
GivesUp(r) ==
  /\ pc[r] \in Handling /\ pc'[r] \in {"failed", "lost"}
  /\ answer'[r] = answer[r] /\ written'[r] = {} /\ next'[r] = 1

Moves(r) ==
  \/ GivesUp(r)
  \/ /\ written'[r] = written[r] /\ next'[r] = next[r]
     /\ \/ Stays(r) \/ Begins(r) \/ Returns(r)
        \/ Goes(r, "reading", "ingesting") /\ Verdict[batch[r]] \in {"invalid", "valid"}
        \/ Goes(r, "ingesting", "failed")

\* The ids of a batch are ids.
LEMMA ContentTyped ==
  ASSUME NEW b \in Batches
  PROVE  /\ Content[b] \in Seq(Ids)
         /\ \A i \in DOMAIN Content[b] : Content[b][i] \in Ids
         /\ Range(Content[b]) \subseteq Ids
<1>1. Content[b] \in Seq(Ids)
  BY BatchesAssumption
<1>2. \A i \in DOMAIN Content[b] : Content[b][i] \in Ids
  BY <1>1
<1> QED
  BY <1>1, <1>2 DEF Range

\* What is stored stays stored, and with it every batch that was complete.
LEMMA StoredStays ==
  ASSUME NEW r \in Requests, batch[r] \in Batches, batch'[r] = batch[r],
         \A id \in Ids : stored[id] # Nobody => stored'[id] # Nobody,
         IsStored(r)
  PROVE  IsStored(r)'
<1>1. Range(Content[batch[r]]) \subseteq Ids
  BY ContentTyped
<1> QED
  BY <1>1 DEF IsStored, Carried

\* So does what the loop of Save has passed.
LEMMA PassedStays ==
  ASSUME NEW r \in Requests, batch[r] \in Batches, batch'[r] = batch[r],
         next'[r] = next[r], written'[r] = written[r],
         \A id \in Ids : stored[id] # Nobody => stored'[id] # Nobody,
         PassedBy(r)
  PROVE  PassedBy(r)'
<1>1. \A i \in DOMAIN Content[batch[r]] : Content[batch[r]][i] \in Ids
  BY ContentTyped
<1> QED
  BY <1>1 DEF PassedBy

\* A step that leaves the table alone, and moves each request in one of the ways
\* above, keeps the invariant.
LEMMA QuietStep ==
  ASSUME IInv, TypeOK', UNCHANGED <<stored, batch>>, \A r \in Requests : Moves(r)
  PROVE  IInv'
<1> USE DEF IInv
<1>1. \A r \in Requests : pc[r] # "unsent" /\ IsStored(r) => IsStored(r)'
  BY StoredStays DEF Sent
<1>2. \A r \in Requests :
        pc[r] # "unsent" /\ next'[r] = next[r] /\ written'[r] = written[r]
          /\ PassedBy(r) => PassedBy(r)'
  BY PassedStays DEF Sent
<1>3. Sent'
  BY DEF Sent, Moves, GivesUp, Stays, Begins, Returns, Goes, Handling
<1>4. Held'
  BY DEF Held, Moves, GivesUp, Stays, Begins, Returns, Goes, Handling
<1>5. Exclusive' /\ Ingesting'
  BY DEF Exclusive, Ingesting, Moves, GivesUp, Stays, Begins, Returns, Goes
<1>6. Passed'
  <2> SUFFICES ASSUME NEW r \in Requests, pc'[r] = "saving" PROVE PassedBy(r)'
    BY DEF Passed
  <2>1. CASE pc[r] = "saving"
    BY <1>2, <2>1 DEF Passed, Moves, GivesUp, Stays, Begins, Returns, Goes
  <2>2. CASE pc[r] # "saving"
    <3>1. next'[r] = 1 /\ batch[r] \in Batches
      BY <2>2 DEF Held, Sent, Moves, GivesUp, Stays, Begins, Returns, Goes
    <3>2. \A i \in DOMAIN Content[batch[r]] : ~(i < next'[r])
      BY <3>1, ContentTyped
    <3> QED
      BY <3>2 DEF PassedBy
  <2> QED
    BY <2>1, <2>2
<1>7. Accepted'
  BY <1>1 DEF Accepted, Moves, GivesUp, Stays, Begins, Returns, Goes
<1>8. Origin'
  <2> SUFFICES ASSUME NEW r \in Requests, NEW id \in Ids, stored[id] = r
               PROVE  /\ pc'[r] \in {"committed", "failed", "ended", "lost"}
                      /\ Verdict[batch[r]] = "valid"
                      /\ IsStored(r)'
    BY DEF Origin
  <2>1. /\ pc[r] \in {"committed", "failed", "ended", "lost"}
        /\ Verdict[batch[r]] = "valid" /\ IsStored(r)
    BY DEF Origin
  <2> QED
    BY <1>1, <2>1 DEF Moves, GivesUp, Stays, Begins, Returns, Goes
<1>9. Told'
  <2> SUFFICES ASSUME NEW r \in Requests
               PROVE  /\ answer'[r] # "none" => pc'[r] = "ended"
                      /\ answer'[r] = "success" => IsStored(r)'
                      /\ answer'[r] = "refused" => \A id \in Ids : stored[id] # r
    BY DEF Told
  <2>1. CASE Returns(r)
    BY <1>1, <2>1 DEF Returns
  <2>2. CASE ~Returns(r)
    <3>1. answer'[r] = answer[r]
      BY <2>2 DEF Moves, GivesUp, Stays, Begins, Goes
    <3>2. answer[r] # "none" => pc'[r] = "ended" /\ pc[r] = "ended"
      BY <2>2 DEF Told, Moves, GivesUp, Stays, Begins, Goes, Handling
    <3> QED
      BY <1>1, <3>1, <3>2 DEF Told
  <2> QED
    BY <2>1, <2>2
<1> QED
  BY <1>3, <1>4, <1>5, <1>6, <1>7, <1>8, <1>9
-----------------------------------------------------------------------------
(* The counters begin at one.                                              *)
LEMMA PositiveOne == 0 \in Nat /\ 1 \in Nat \ {0}
OBVIOUS

(* A counter goes on by one.                                               *)
LEMMA Bounded ==
  ASSUME NEW n \in Nat \ {0}
  PROVE  n + 1 \in Nat \ {0}
OBVIOUS

\* The element at a position that is not past the end.
LEMMA Element ==
  ASSUME NEW S, NEW s \in Seq(S), NEW n \in Nat \ {0}, ~(n > Len(s))
  PROVE  n \in DOMAIN s /\ s[n] \in S
OBVIOUS

\* The positions of a sequence.
LEMMA Position ==
  ASSUME NEW S, NEW s \in Seq(S)
  PROVE  /\ Len(s) \in Nat
         /\ \A i \in DOMAIN s : i \in Nat /\ i <= Len(s)
         /\ \A n \in Nat : n > Len(s) => \A i \in DOMAIN s : i < n
OBVIOUS

(* A batch counts a row, or does not.                                      *)
LEMMA Counted ==
  ASSUME NEW n \in Nat, NEW k \in {0, 1}
  PROVE  n + k \in Nat
OBVIOUS

(* Every step keeps the types.                                             *)
LEMMA TypeStep ==
  ASSUME IInv, [Next]_vars
  PROVE  TypeOK'
<1>0. TypeOK
  BY DEF IInv
<1>1. ASSUME NEW r \in Requests, NEW b \in Batches, Send(r, b) PROVE TypeOK'
  BY <1>0, <1>1 DEF TypeOK, process, client, saving, Send, Handling
<1>2. ASSUME NEW r \in Requests, Disconnect(r) PROVE TypeOK'
  BY <1>0, <1>2 DEF TypeOK, process, client, saving, Disconnect
<1>3. ASSUME NEW r \in Requests, ReadDeadline(r) PROVE TypeOK'
  BY <1>0, <1>3 DEF TypeOK, process, client, saving, ReadDeadline
<1>4. ASSUME NEW r \in Requests, Refuse(r) PROVE TypeOK'
  BY <1>0, <1>4 DEF TypeOK, process, client, saving, Refuse, Return
<1>5. ASSUME NEW r \in Requests, BreakOff(r) PROVE TypeOK'
  BY <1>0, <1>5 DEF TypeOK, process, client, saving, BreakOff, Return, Silence
<1>6. ASSUME NEW r \in Requests, Admit(r) PROVE TypeOK'
  BY <1>0, <1>6 DEF TypeOK, process, client, saving, Admit, Return, Silence, Handling
<1>7. ASSUME NEW r \in Requests, Reject(r) PROVE TypeOK'
  BY <1>0, <1>7 DEF TypeOK, process, client, saving, Reject, Handling
<1>8. ASSUME NEW r \in Requests, OpenSave(r) PROVE TypeOK'
  BY <1>0, <1>8 DEF TypeOK, process, client, saving, OpenSave, Handling
<1>9. ASSUME NEW r \in Requests, Insert(r) PROVE TypeOK'
  <2>1. /\ next[r] \in Nat \ {0} /\ inserted[r] \in Nat
        /\ written \in [Requests -> SUBSET Ids]
        /\ next \in [Requests -> Nat \ {0}]
        /\ inserted \in [Requests -> Nat]
    BY <1>0 DEF TypeOK
  <2>2. Pending(r) \in Ids
    <3>1. batch[r] \in Batches
      BY <1>9 DEF Insert, InTransaction, IInv, Sent
    <3>2. Content[batch[r]] \in Seq(Ids)
      BY <3>1, ContentTyped
    <3>3. ~(next[r] > Len(Content[batch[r]]))
      BY <1>9 DEF Insert, AtEnd
    <3> QED
      BY <2>1, <3>2, <3>3, Element DEF Pending
  <2>3. written' \in [Requests -> SUBSET Ids]
    BY <1>9, <2>1, <2>2 DEF Insert
  <2>4. inserted' \in [Requests -> Nat]
    <3>1. RowsAffected(r, Pending(r)) \in {0, 1}
      BY DEF RowsAffected
    <3>2. inserted[r] + RowsAffected(r, Pending(r)) \in Nat
      BY <2>1, <3>1, Counted
    <3> QED
      BY <1>9, <2>1, <3>2 DEF Insert
  <2>5. next' \in [Requests -> Nat \ {0}]
    <3>1. next[r] + 1 \in Nat \ {0}
      BY <2>1, Bounded
    <3> QED
      BY <1>9, <2>1, <3>1 DEF Insert
  <2> QED
    BY <1>0, <1>9, <2>3, <2>4, <2>5 DEF TypeOK, Insert, process, client
<1>10. ASSUME NEW r \in Requests, Commit(r) PROVE TypeOK'
  <2>1. stored' \in [Ids -> Requests \cup {Nobody}]
    BY <1>0, <1>10 DEF Commit, Committed, TypeOK
  <2>2. /\ written' \in [Requests -> SUBSET Ids]
        /\ inserted' \in [Requests -> Nat]
        /\ next' \in [Requests -> Nat \ {0}]
    BY <1>0, <1>10, PositiveOne DEF Commit, TypeOK
  <2>3. pc' \in [Requests -> Handling \cup {"unsent", "ended", "lost"}]
    BY <1>0, <1>10 DEF Commit, Handling, TypeOK
  <2> QED
    BY <1>0, <1>10, <2>1, <2>2, <2>3 DEF TypeOK, Commit, process, client
<1>11. ASSUME NEW r \in Requests, Abort(r) PROVE TypeOK'
  <2>1. /\ written' \in [Requests -> SUBSET Ids]
        /\ inserted' \in [Requests -> Nat]
        /\ next' \in [Requests -> Nat \ {0}]
    BY <1>0, <1>11, PositiveOne DEF Abort, RolledBack, TypeOK
  <2>2. pc' \in [Requests -> Handling \cup {"unsent", "ended", "lost"}]
    BY <1>0, <1>11 DEF Abort, Handling, TypeOK
  <2> QED
    BY <1>0, <1>11, <2>1, <2>2 DEF TypeOK, Abort, process, client
<1>12. ASSUME NEW r \in Requests, Answer(r) PROVE TypeOK'
  BY <1>0, <1>12 DEF TypeOK, process, client, saving, Answer, Return, Silence
<1>13. ASSUME NEW how \in {"stopped late", "crashed"}, Die(how) PROVE TypeOK'
  BY <1>0, <1>13, PositiveOne DEF TypeOK, process, client, saving, Die, InFlight
<1>14. ASSUME Stop \/ Drained \/ Restart PROVE TypeOK'
  <2>1. server' \in {"up", "draining", "stopped", "stopped late", "crashed"}
    BY <1>14 DEF Stop, Drained, Restart
  <2>2. starts' \in 1 .. MaxStarts
    <3>1. starts \in 1 .. MaxStarts /\ MaxStarts \in Nat
      BY <1>0, BoundsAssumption DEF TypeOK
    <3>2. CASE Stop \/ Drained
      BY <3>1, <3>2 DEF Stop, Drained
    <3>3. CASE Restart
      <4>1. starts < MaxStarts /\ starts' = starts + 1
        BY <3>3 DEF Restart
      <4> QED
        BY <3>1, <4>1
    <3> QED
      BY <1>14, <3>2, <3>3
  <2> QED
    BY <1>0, <1>14, <2>1, <2>2 DEF TypeOK, Stop, Drained, Restart, client, saving
<1>15. CASE UNCHANGED vars
  BY <1>0, <1>15 DEF TypeOK, vars, process, client, saving
<1> QED
  BY <1>1, <1>2, <1>3, <1>4, <1>5, <1>6, <1>7, <1>8, <1>9, <1>10, <1>11, <1>12,
     <1>13, <1>14, <1>15
     DEF Next, Handle, Suffer, Lifecycle, Cancel, BreakDeadlock, Fail, StopLate, Crash
-----------------------------------------------------------------------------
(* The steps that leave the table alone. *)

\* A request that has not committed has no rows.
LEMMA NoRowsYet ==
  ASSUME IInv, NEW r \in Requests,
         pc[r] \in {"unsent", "reading", "ingesting", "saving"} \/ Verdict[batch[r]] # "valid"
  PROVE  \A id \in Ids : stored[id] # r
BY DEF IInv, Origin

(* Steps of a handler that write nothing keep the invariant.               *)
LEMMA HandlerStep ==
  ASSUME IInv, [Next]_vars, NEW r \in Requests,
         \/ Disconnect(r) \/ ReadDeadline(r)
         \/ Refuse(r) \/ BreakOff(r) \/ Admit(r) \/ Reject(r) \/ OpenSave(r) \/ Answer(r)
  PROVE  IInv'
<1> TypeOK
  BY DEF IInv
<1>1. UNCHANGED <<stored, batch, next, written>>
  BY DEF Disconnect, ReadDeadline, Refuse, BreakOff, Admit, Reject, OpenSave, Answer,
         client, saving
<1>2. \A q \in Requests \ {r} : Stays(q)
  BY DEF TypeOK, Disconnect, ReadDeadline, Refuse, BreakOff, Admit, Reject, OpenSave,
         Answer, Return, Stays
<1>3. Moves(r)
  <2>1. CASE Disconnect(r) \/ ReadDeadline(r)
    BY <1>1, <2>1 DEF Disconnect, ReadDeadline, Moves, Stays
  <2>2. CASE Refuse(r) \/ BreakOff(r)
    <3>1. pc[r] = "reading" /\ pc'[r] = "ended" /\ answer'[r] # "success"
      BY <2>2 DEF Refuse, BreakOff, Return, Silence, TypeOK
    <3> QED
      BY <1>1, <3>1, NoRowsYet DEF Moves, Returns
  <2>3. CASE Admit(r)
    <3>1. CASE live[r] /\ Verdict[batch[r]] # "empty"
      <4>1. Verdict[batch[r]] \in {"malformed", "empty", "invalid", "valid"}
        BY <2>3, BatchesAssumption DEF Admit, IInv, Sent
      <4>2. Verdict[batch[r]] \in {"invalid", "valid"}
        BY <2>3, <3>1, <4>1 DEF Admit
      <4>3. Goes(r, "reading", "ingesting")
        BY <2>3, <3>1 DEF Admit, Return, TypeOK, Goes
      <4> QED
        BY <1>1, <4>2, <4>3 DEF Moves
    <3>2. CASE ~(live[r] /\ Verdict[batch[r]] # "empty")
      <4>1. pc[r] = "reading" /\ pc'[r] = "ended" /\ answer'[r] # "refused"
        BY <2>3, <3>2 DEF Admit, Return, Silence, TypeOK
      <4>2. answer'[r] = "success" => IsStored(r)
        BY <2>3, <3>2 DEF Admit, Return, Silence, TypeOK, IsStored
      <4> QED
        BY <1>1, <4>1, <4>2 DEF Moves, Returns
    <3> QED
      BY <3>1, <3>2
  <2>4. CASE Reject(r)
    BY <1>1, <2>4 DEF Reject, TypeOK, Moves, Goes
  <2>5. CASE OpenSave(r)
    <3>1. Verdict[batch[r]] = "valid"
      BY <2>5 DEF OpenSave, Unreadable, ErrInvalid, IInv, Ingesting
    <3>2. Content[batch[r]] = <<>> => IsStored(r)
      BY DEF IsStored, Carried, Range
    <3>3. \/ Goes(r, "ingesting", "saving")
          \/ Goes(r, "ingesting", "committed") /\ Content[batch[r]] = <<>>
      BY <2>5 DEF OpenSave, TypeOK, Goes
    <3>4. Begins(r)
      BY <3>1, <3>2, <3>3 DEF Begins
    <3> QED
      BY <1>1, <3>4 DEF Moves
  <2>6. CASE Answer(r)
    <3>1. pc[r] \in {"committed", "failed"} /\ pc'[r] = "ended"
      BY <2>6 DEF Answer, Return, TypeOK
    <3>2. answer'[r] = "success" => IsStored(r)
      BY <2>6 DEF Answer, Ingested, Return, Silence, TypeOK, IInv, Accepted
    <3>3. answer'[r] = "refused" => Verdict[batch[r]] # "valid"
      BY <2>6 DEF Answer, Return, Silence, ErrInvalid, TypeOK
    <3> QED
      BY <1>1, <3>1, <3>2, <3>3, NoRowsYet DEF Moves, Returns
  <2> QED
    BY <2>1, <2>2, <2>3, <2>4, <2>5, <2>6
<1>4. \A q \in Requests : Moves(q)
  BY <1>1, <1>2, <1>3 DEF Moves
<1> QED
  BY <1>1, <1>4, TypeStep, QuietStep

(* So do the ends of a transaction and of the process.                     *)
LEMMA EndingStep ==
  ASSUME IInv, [Next]_vars,
         \/ \E r \in Requests : Cancel(r) \/ BreakDeadlock(r) \/ Fail(r)
         \/ \E how \in {"stopped late", "crashed"} : Die(how)
         \/ Stop \/ Drained \/ Restart \/ UNCHANGED vars
  PROVE  IInv'
<1> TypeOK
  BY DEF IInv
<1>1. ASSUME NEW r \in Requests, InTransaction(r), Abort(r) PROVE IInv'
  <2>1. UNCHANGED <<stored, batch>> /\ \A q \in Requests : Moves(q)
    BY <1>1 DEF Abort, RolledBack, InTransaction, TypeOK, Moves, GivesUp, Stays,
               Handling, client
  <2> QED
    BY <2>1, TypeStep, QuietStep
<1>2. ASSUME NEW how \in {"stopped late", "crashed"}, Die(how) PROVE IInv'
  <2>1. UNCHANGED <<stored, batch>>
    BY <1>2 DEF Die
  <2>2. ASSUME NEW q \in Requests PROVE Moves(q)
    <3>1. CASE q \in InFlight
      BY <1>2, <3>1 DEF Die, InFlight, Moves, GivesUp
    <3>2. CASE q \notin InFlight
      BY <1>2, <3>2 DEF Die, InFlight, Handling, Moves, Stays, IInv, Held
    <3> QED
      BY <3>1, <3>2
  <2> QED
    BY <2>1, <2>2, TypeStep, QuietStep
<1>3. ASSUME Stop \/ Drained \/ Restart \/ UNCHANGED vars PROVE IInv'
  <2>1. UNCHANGED <<stored, batch, pc, answer, next, written>>
    BY <1>3 DEF Stop, Drained, Restart, vars, client, saving
  <2>2. \A q \in Requests : Moves(q)
    BY <2>1 DEF Moves, Stays
  <2> QED
    BY <2>1, <2>2, TypeStep, QuietStep
<1>4. ASSUME NEW r \in Requests, BreakDeadlock(r) PROVE InTransaction(r)
  BY <1>4 DEF BreakDeadlock, Deadlocked, WaitsFor
<1> QED
  BY <1>1, <1>2, <1>3, <1>4 DEF Cancel, BreakDeadlock, Fail
-----------------------------------------------------------------------------
(* The steps that do not. *)

\* A batch arrives: its request had done nothing.
LEMMA SendStep ==
  ASSUME IInv, [Next]_vars, NEW r \in Requests, NEW b \in Batches, Send(r, b)
  PROVE  IInv'
<1> USE DEF IInv
<1>0. TypeOK'
  BY TypeStep
<1>1. /\ pc[r] = "unsent" /\ pc'[r] = "reading" /\ batch'[r] = b
      /\ UNCHANGED <<stored, answer, next, written>>
      /\ \A q \in Requests \ {r} : pc'[q] = pc[q] /\ batch'[q] = batch[q]
  BY DEF Send, TypeOK, saving
<1>2. \A q \in Requests \ {r} : pc[q] # "unsent" /\ IsStored(q) => IsStored(q)'
  BY <1>1, StoredStays DEF Sent
<1>3. \A q \in Requests \ {r} : pc[q] # "unsent" /\ PassedBy(q) => PassedBy(q)'
  BY <1>1, PassedStays DEF Sent
<1>4. Sent' /\ Ingesting' /\ Held' /\ Exclusive'
  BY <1>1 DEF Sent, Ingesting, Held, Exclusive
<1>5. Passed' /\ Accepted'
  BY <1>1, <1>2, <1>3 DEF Passed, Accepted
<1>6. Origin' /\ Told'
  BY <1>1, <1>2, NoRowsYet DEF Origin, Told
<1> QED
  BY <1>0, <1>4, <1>5, <1>6

\* One turn of the loop of Save: only its own transaction changes.
LEMMA InsertStep ==
  ASSUME IInv, [Next]_vars, NEW r \in Requests, Insert(r)
  PROVE  IInv'
<1> USE DEF IInv
<1>0. TypeOK'
  BY TypeStep
<1>1. /\ pc[r] = "saving" /\ UNCHANGED <<stored, batch, pc, answer>>
      /\ next'[r] = next[r] + 1
      /\ \A q \in Requests \ {r} : next'[q] = next[q] /\ written'[q] = written[q]
  BY DEF Insert, TypeOK, InTransaction, client
<1>2. written'[r] = IF IsNew(r, Pending(r)) THEN written[r] \cup {Pending(r)} ELSE written[r]
  BY DEF Insert, TypeOK
<1>3. \A q \in Requests : pc[q] # "unsent" /\ IsStored(q) => IsStored(q)'
  BY <1>1, StoredStays DEF Sent
<1>4. Sent' /\ Ingesting' /\ Held'
  BY <1>1 DEF Sent, Ingesting, Held
<1>5. Exclusive'
  <2>1. \A q \in Requests \ {r} : Pending(r) \notin written[q]
    BY DEF Insert, WaitsFor
  <2> QED
    BY <1>1, <1>2, <2>1 DEF Exclusive, IsNew
<1>6. Passed'
  <2>1. PassedBy(r)'
    <3> SUFFICES ASSUME NEW i \in DOMAIN Content[batch[r]], i < next[r] + 1
                 PROVE  \/ Content[batch[r]][i] \in written'[r]
                        \/ stored[Content[batch[r]][i]] # Nobody
      BY <1>1 DEF PassedBy
    <3>1. i < next[r] \/ i = next[r]
      <4>1. i \in Nat
        BY <1>1, ContentTyped, Position DEF Sent
      <4>2. next[r] \in Nat
        BY DEF TypeOK
      <4> QED
        BY <4>1, <4>2
    <3>2. CASE i < next[r]
      BY <1>1, <1>2, <3>2 DEF Passed, PassedBy
    <3>3. CASE i = next[r]
      BY <1>2, <3>3 DEF Pending, IsNew
    <3> QED
      BY <3>1, <3>2, <3>3
  <2>2. \A q \in Requests \ {r} : pc[q] = "saving" => PassedBy(q)'
    BY <1>1, PassedStays DEF Sent, Passed
  <2> QED
    BY <1>1, <2>1, <2>2 DEF Passed
<1>7. Accepted' /\ Origin' /\ Told'
  BY <1>1, <1>3 DEF Accepted, Origin, Told
<1> QED
  BY <1>0, <1>4, <1>5, <1>6, <1>7

\* COMMIT: what the transaction wrote becomes visible at once, and it is all that
\* was missing.
LEMMA CommitStep ==
  ASSUME IInv, [Next]_vars, NEW r \in Requests, Commit(r)
  PROVE  IInv'
<1> USE DEF IInv
<1>0. TypeOK'
  BY TypeStep
<1>1. /\ pc[r] = "saving" /\ pc'[r] \in {"committed", "failed"}
      /\ written'[r] = {} /\ next'[r] = 1 /\ UNCHANGED <<batch, answer>>
      /\ \A q \in Requests \ {r} :
           pc'[q] = pc[q] /\ next'[q] = next[q] /\ written'[q] = written[q]
  BY DEF Commit, TypeOK, InTransaction, client
<1>2. \A id \in Ids : stored'[id] = IF id \in written[r] THEN r ELSE stored[id]
  BY DEF Commit, Committed
<1>3. \A id \in Ids : stored[id] # Nobody => stored'[id] # Nobody
  BY <1>2, NobodyAssumption
<1>4. \A q \in Requests : pc[q] # "unsent" /\ IsStored(q) => IsStored(q)'
  BY <1>1, <1>3, StoredStays DEF Sent
<1>5. IsStored(r)'
  <2>1. batch[r] \in Batches
    BY <1>1 DEF Sent
  <2>2. \A i \in DOMAIN Content[batch[r]] : i < next[r]
    BY <2>1, ContentTyped, Position DEF Commit, Complete, AtEnd, TypeOK
  <2>3. \A i \in DOMAIN Content[batch[r]] : stored'[Content[batch[r]][i]] # Nobody
    BY <1>1, <1>2, <2>1, <2>2, ContentTyped, NobodyAssumption DEF Passed, PassedBy
  <2> QED
    BY <1>1, <2>3 DEF IsStored, Carried, Range
<1>6. Sent' /\ Ingesting' /\ Held'
  BY <1>1 DEF Sent, Ingesting, Held
<1>7. Exclusive'
  <2> SUFFICES ASSUME NEW q \in Requests, NEW p \in Requests, NEW id \in written'[q]
               PROVE  stored'[id] = Nobody /\ (p # q => id \notin written'[p])
    BY DEF Exclusive
  <2>1. q # r /\ id \in written[q] /\ id \in Ids
    BY <1>1 DEF TypeOK
  <2> QED
    BY <1>1, <1>2, <2>1 DEF Exclusive
<1>8. Passed'
  BY <1>1, <1>3, PassedStays DEF Passed, Sent
<1>9. Accepted'
  BY <1>1, <1>4, <1>5 DEF Accepted
<1>10. Origin'
  <2> SUFFICES ASSUME NEW q \in Requests, NEW id \in Ids, stored'[id] = q
               PROVE  /\ pc'[q] \in {"committed", "failed", "ended", "lost"}
                      /\ Verdict[batch[q]] = "valid"
                      /\ IsStored(q)'
    BY <1>1 DEF Origin
  <2>1. CASE q = r
    BY <1>1, <1>5, <2>1 DEF Held
  <2>2. CASE q # r
    <3>1. stored[id] = q
      BY <1>2, <2>2
    <3> QED
      BY <1>1, <1>4, <2>2, <3>1 DEF Origin
  <2> QED
    BY <2>1, <2>2
<1>11. Told'
  <2> SUFFICES ASSUME NEW q \in Requests
               PROVE  /\ answer[q] # "none" => pc'[q] = "ended"
                      /\ answer[q] = "success" => IsStored(q)'
                      /\ answer[q] = "refused" => \A id \in Ids : stored'[id] # q
    BY <1>1 DEF Told
  <2>1. answer[q] # "none" => pc[q] = "ended" /\ q # r
    BY <1>1 DEF Told
  <2> QED
    BY <1>1, <1>2, <1>4, <2>1 DEF Told
<1> QED
  BY <1>0, <1>6, <1>7, <1>8, <1>9, <1>10, <1>11
-----------------------------------------------------------------------------
(* What Save counts, what each request is told, and what a clean stop leaves. *)

\* The counter of Save is that of the rows its transaction holds, then of those
\* it left in the table; an answer of success keeps it.
CountOf(r) ==
  /\ pc[r] \in {"unsent", "reading", "ingesting"} => inserted[r] = 0
  /\ pc[r] = "saving" =>
       IsFiniteSet(written[r]) /\ inserted[r] = Cardinality(written[r])
  /\ pc[r] = "committed" \/ answer[r] = "success" =>
       inserted[r] = Cardinality(RowsOf(r))

CountInv == \A r \in Requests : CountOf(r)

\* No handler outlives its process.
DrainInv == server \notin {"up", "draining"} => InFlight = {}

\* Only a commit changes the table.
LEMMA OnlyCommitStores ==
  ASSUME [Next]_vars, \A r \in Requests : ~Commit(r)
  PROVE  UNCHANGED stored
BY DEF Next, Handle, Suffer, Lifecycle, vars, Send, Disconnect, ReadDeadline,
   Refuse, BreakOff, Admit, Reject, OpenSave, Insert, Cancel, BreakDeadlock, Fail,
   Abort, Answer, Stop, Drained, StopLate, Crash, Die, Restart

\* The rows of a request are those of its own commit.
LEMMA RowsStay ==
  ASSUME IInv, [Next]_vars, NEW q \in Requests, ~Commit(q)
  PROVE  RowsOf(q)' = RowsOf(q)
<1>1. ASSUME NEW r \in Requests, Commit(r) PROVE RowsOf(q)' = RowsOf(q)
  <2>1. \A id \in Ids : stored'[id] = q <=> stored[id] = q
    <3>1. r # q
      BY <1>1
    <3>2. \A id \in Ids : id \in written[r] => stored[id] # q
      BY NobodyAssumption DEF IInv, Exclusive
    <3> QED
      BY <1>1, <3>1, <3>2 DEF Commit, Committed
  <2> QED
    BY <2>1 DEF RowsOf
<1>2. ASSUME \A r \in Requests : ~Commit(r) PROVE RowsOf(q)' = RowsOf(q)
  BY <1>2, OnlyCommitStores DEF RowsOf
<1> QED
  BY <1>1, <1>2

\* A step that does not touch what is said of a request.
Untouched(r) ==
  /\ inserted'[r] = inserted[r] /\ written'[r] = written[r]
  /\ answer'[r] = answer[r] /\ pc'[r] = pc[r]

(* A step that is not a commit leaves the rows of the others, and their    *)
(* number.                                                                 *)
LEMMA CountIsKept ==
  ASSUME IInv, [Next]_vars, CountInv, NEW q \in Requests, Untouched(q), ~Commit(q)
  PROVE  CountOf(q)'
<1>1. RowsOf(q)' = RowsOf(q)
  BY RowsStay
<1> QED
  BY <1>1 DEF CountInv, CountOf, Untouched

\* A request that holds nothing counts nothing, and one that committed nothing
\* has no rows.
LEMMA CountOfNothing ==
  ASSUME IInv, NEW r \in Requests, pc[r] \in {"unsent", "reading", "ingesting", "saving"}
  PROVE  RowsOf(r) = {} /\ Cardinality(RowsOf(r)) = 0
BY NoRowsYet, FS_EmptySet DEF RowsOf

\* The steps of the handler before and after its transaction.
LEMMA CountInHandler ==
  ASSUME IInv, [Next]_vars, CountInv, NEW r \in Requests,
         \/ \E b \in Batches : Send(r, b)
         \/ Disconnect(r) \/ ReadDeadline(r)
         \/ Refuse(r) \/ BreakOff(r) \/ Admit(r) \/ Reject(r) \/ OpenSave(r) \/ Answer(r)
  PROVE  CountInv'
<1> TypeOK /\ Told /\ Held
  BY DEF IInv
<1>1. UNCHANGED <<inserted, written>>
  BY DEF Send, Disconnect, ReadDeadline, Refuse, BreakOff, Admit, Reject, OpenSave,
         Answer, saving
<1>2. \A q \in Requests \ {r} : Untouched(q) /\ ~Commit(q)
  <2>1. \A q \in Requests \ {r} : pc'[q] = pc[q] /\ answer'[q] = answer[q]
    BY DEF TypeOK, Send, Disconnect, ReadDeadline, Refuse, BreakOff, Admit, Reject,
           OpenSave, Answer, Return
  <2>2. \A q \in Requests \ {r} : ~Commit(q)
    BY <2>1 DEF Commit, InTransaction, TypeOK
  <2> QED
    BY <1>1, <2>1, <2>2 DEF Untouched
<1>3. RowsOf(r)' = RowsOf(r)
  <2>1. ~Commit(r)
    BY DEF Commit, InTransaction, TypeOK, Send, Disconnect, ReadDeadline, Refuse,
           BreakOff, Admit, Reject, OpenSave, Answer, Return, saving, client
  <2> QED
    BY <2>1, RowsStay
<1>4. CountOf(r)'
  <2>1. CASE \E b \in Batches : Send(r, b)
    BY <1>1, <1>3, <2>1 DEF Send, TypeOK, CountInv, CountOf
  <2>2. CASE Disconnect(r) \/ ReadDeadline(r)
    BY <1>1, <1>3, <2>2 DEF Disconnect, ReadDeadline, CountInv, CountOf
  <2>3. CASE Refuse(r) \/ BreakOff(r)
    BY <2>3 DEF Refuse, BreakOff, Return, Silence, TypeOK, CountOf
  <2>4. CASE Admit(r)
    <3>1. inserted[r] = 0 /\ Cardinality(RowsOf(r)) = 0
      BY <2>4, CountOfNothing DEF Admit, CountInv, CountOf
    <3>2. pc'[r] \in {"ingesting", "ended"}
      BY <2>4 DEF Admit, Return, TypeOK
    <3> QED
      BY <1>1, <1>3, <3>1, <3>2 DEF CountOf
  <2>5. CASE Reject(r)
    BY <2>5 DEF Reject, TypeOK, CountOf, Told
  <2>6. CASE OpenSave(r)
    <3>1. inserted[r] = 0 /\ Cardinality(RowsOf(r)) = 0
      BY <2>6, CountOfNothing DEF OpenSave, CountInv, CountOf
    <3>2. written[r] = {}
      BY <2>6 DEF OpenSave, Held
    <3>3. pc'[r] \in {"committed", "saving"}
      BY <2>6 DEF OpenSave, TypeOK
    <3> QED
      BY <1>1, <1>3, <3>1, <3>2, <3>3, FS_EmptySet DEF CountOf
  <2>7. CASE Answer(r)
    <3>1. pc'[r] = "ended" /\ (answer'[r] = "success" => pc[r] = "committed")
      BY <2>7 DEF Answer, Ingested, Return, Silence, TypeOK
    <3> QED
      BY <1>1, <1>3, <3>1 DEF CountInv, CountOf
  <2> QED
    BY <2>1, <2>2, <2>3, <2>4, <2>5, <2>6, <2>7
<1> QED
  BY <1>2, <1>4, CountIsKept DEF CountInv

\* One turn of the loop: the counter grows with the rows, a repeated id or one
\* already stored counts for nothing.
LEMMA CountInInsert ==
  ASSUME IInv, [Next]_vars, CountInv, NEW r \in Requests, Insert(r)
  PROVE  CountInv'
<1> TypeOK /\ Told
  BY DEF IInv
<1>1. /\ pc[r] = "saving" /\ UNCHANGED <<stored, pc, answer>>
      /\ \A q \in Requests \ {r} : written'[q] = written[q] /\ inserted'[q] = inserted[q]
  BY DEF Insert, InTransaction, TypeOK, client
<1>2. \A q \in Requests : ~Commit(q)
  <2>1. \A q \in Requests : Commit(q) => pc'[q] # "saving" /\ pc[q] = "saving"
    BY DEF Commit, InTransaction, TypeOK
  <2> QED
    BY <1>1, <2>1
<1>3. \A q \in Requests \ {r} : CountOf(q)'
  BY <1>1, <1>2, CountIsKept DEF Untouched
<1>4. CountOf(r)'
  <2> DEFINE id == Pending(r)
  <2>1. IsFiniteSet(written[r]) /\ inserted[r] = Cardinality(written[r])
    BY <1>1 DEF CountInv, CountOf
  <2>2. written'[r] = (IF IsNew(r, id) THEN written[r] \cup {id} ELSE written[r])
    BY DEF Insert, TypeOK
  <2>3. inserted'[r] = inserted[r] + RowsAffected(r, id)
    BY DEF Insert, TypeOK
  <2>4. answer'[r] # "success"
    BY <1>1 DEF Told
  <2> HIDE DEF id
  <2>5. CASE IsNew(r, id)
    <3>1. id \notin written[r] /\ RowsAffected(r, id) = 1
      BY <2>5 DEF IsNew, RowsAffected
    <3>2. /\ IsFiniteSet(written[r] \cup {id})
          /\ Cardinality(written[r] \cup {id}) = Cardinality(written[r]) + 1
      BY <2>1, <3>1, FS_AddElement
    <3> QED
      BY <1>1, <2>1, <2>2, <2>3, <2>4, <2>5, <3>1, <3>2 DEF CountOf
  <2>6. CASE ~IsNew(r, id)
    <3>1. inserted'[r] = inserted[r]
      <4>1. inserted[r] \in Nat /\ RowsAffected(r, id) = 0
        BY <2>6 DEF RowsAffected, TypeOK
      <4> QED
        BY <2>3, <4>1
    <3> QED
      BY <1>1, <2>1, <2>2, <2>4, <2>6, <3>1 DEF CountOf
  <2> QED
    BY <2>5, <2>6
<1> QED
  BY <1>3, <1>4 DEF CountInv

\* COMMIT: the rows held become the rows of the request.
LEMMA CountInCommit ==
  ASSUME IInv, [Next]_vars, CountInv, NEW r \in Requests, Commit(r)
  PROVE  CountInv'
<1> TypeOK /\ Told
  BY DEF IInv
<1>1. \A q \in Requests \ {r} : Untouched(q) /\ ~Commit(q)
  <2>1. \A q \in Requests \ {r} : Untouched(q)
    BY DEF Commit, Untouched, TypeOK
  <2>2. \A q \in Requests \ {r} : ~Commit(q)
    BY <2>1 DEF Commit, InTransaction, TypeOK, Untouched
  <2> QED
    BY <2>1, <2>2
<1>2. RowsOf(r)' = written[r]
  <2>1. \A id \in Ids : stored[id] # r
    BY NoRowsYet DEF Commit, InTransaction
  <2>2. written[r] \subseteq Ids
    BY DEF TypeOK
  <2> QED
    BY <2>1, <2>2 DEF Commit, Committed, RowsOf
<1>3. inserted[r] = Cardinality(written[r]) /\ answer'[r] # "success"
  BY DEF CountInv, CountOf, Commit, InTransaction, Told
<1>4. \/ pc'[r] = "committed" /\ inserted'[r] = inserted[r]
      \/ pc'[r] = "failed"
  BY DEF Commit, TypeOK
<1>5. CountOf(r)'
  BY <1>2, <1>3, <1>4 DEF CountOf
<1> QED
  BY <1>1, <1>5, CountIsKept DEF CountInv

\* Whatever ends a transaction or the process loses what was counted with it.
LEMMA CountInEnding ==
  ASSUME IInv, [Next]_vars, CountInv,
         \/ \E r \in Requests : InTransaction(r) /\ Abort(r)
         \/ \E how \in {"stopped late", "crashed"} : Die(how)
         \/ Stop \/ Drained \/ Restart \/ UNCHANGED vars
  PROVE  CountInv'
<1> TypeOK /\ Told /\ Held
  BY DEF IInv
<1>0. stored' = stored
  BY DEF Abort, Die, Stop, Drained, Restart, vars
<1>1. ASSUME NEW q \in Requests, Untouched(q) PROVE CountOf(q)'
  BY <1>0, <1>1 DEF CountInv, CountOf, Untouched, RowsOf
<1>2. ASSUME NEW r \in Requests, InTransaction(r), Abort(r) PROVE CountInv'
  <2>1. \A q \in Requests \ {r} : Untouched(q)
    BY <1>2 DEF Abort, RolledBack, Untouched, TypeOK
  <2>2. pc'[r] = "failed" /\ answer'[r] # "success"
    BY <1>2 DEF Abort, InTransaction, TypeOK, Told
  <2> QED
    BY <1>1, <2>1, <2>2 DEF CountInv, CountOf
<1>3. ASSUME NEW how \in {"stopped late", "crashed"}, Die(how) PROVE CountInv'
  <2>1. \A q \in InFlight : pc'[q] = "lost" /\ answer'[q] # "success"
    BY <1>3 DEF Die, InFlight, Handling, Told
  <2>2. \A q \in Requests \ InFlight : Untouched(q)
    BY <1>3 DEF Die, InFlight, Handling, Held, Untouched
  <2> QED
    BY <1>1, <2>1, <2>2 DEF CountInv, CountOf
<1>4. ASSUME Stop \/ Drained \/ Restart \/ UNCHANGED vars PROVE CountInv'
  BY <1>1, <1>4 DEF Stop, Drained, Restart, vars, saving, Untouched, CountInv
<1> QED
  BY <1>2, <1>3, <1>4

(* Every step keeps the number of rows equal to the count of its request.  *)
LEMMA CountStep == IInv /\ CountInv /\ [Next]_vars => CountInv'
<1> SUFFICES ASSUME IInv, CountInv, [Next]_vars PROVE CountInv'
  OBVIOUS
<1>1. ASSUME NEW r \in Requests, BreakDeadlock(r) PROVE InTransaction(r)
  BY <1>1 DEF BreakDeadlock, Deadlocked, WaitsFor
<1> QED
  BY <1>1, CountInHandler, CountInInsert, CountInCommit, CountInEnding
     DEF Next, Handle, Suffer, Lifecycle, Cancel, BreakDeadlock, Fail, StopLate, Crash

\* A handler enters only while the process serves, and the process ends only
\* without handlers or together with them.
LEMMA DrainStep == IInv /\ DrainInv /\ [Next]_vars => DrainInv'
<1> SUFFICES ASSUME IInv, DrainInv, [Next]_vars, server' \notin {"up", "draining"},
                    NEW r \in Requests
             PROVE  pc'[r] \notin Handling
  BY DEF DrainInv, InFlight
<1> TypeOK
  BY DEF IInv
<1>1. CASE \E how \in {"stopped late", "crashed"} : Die(how)
  BY <1>1 DEF Die, InFlight, Handling
<1>2. CASE Drained
  BY <1>2 DEF Drained, AllReturned, InFlight
<1>3. CASE \A how \in {"stopped late", "crashed"} : ~Die(how) /\ ~Drained
  <2>1. server \notin {"up", "draining"}
    BY <1>3 DEF Next, Handle, Suffer, Lifecycle, vars, process, Send, Disconnect,
       ReadDeadline, Refuse, BreakOff, Admit, Reject, OpenSave, Insert, Commit, Cancel,
       BreakDeadlock, Fail, Abort, Answer, Stop, StopLate, Crash, Restart
  <2>2. \A q \in Requests : pc[q] \notin Handling
    BY <2>1 DEF DrainInv, InFlight
  <2>3. pc' = pc
    BY <1>3, <2>1, <2>2 DEF Next, Handle, Suffer, Lifecycle, vars, Send, Disconnect,
       ReadDeadline, Refuse, BreakOff, Admit, Reject, OpenSave, Insert, Commit, Cancel,
       BreakDeadlock, Deadlocked, WaitsFor, Fail, Abort, Answer, Stop, StopLate, Crash,
       Restart, InTransaction, InFlight, Handling
  <2> QED
    BY <2>2, <2>3
<1> QED
  BY <1>1, <1>2, <1>3
\* What is known of a request once it returned, and why: Save reports no row of
\* what it did not commit.
RepliedTo(r) ==
  /\ pc[r] \in {"unsent", "reading", "ingesting", "failed"} => inserted[r] = 0
  /\ pc[r] = "ended" =>
       /\ listening[r] => answer[r] # "none"
       /\ inserted[r] > 0 => answer[r] = "success"
       /\ answer[r] = "blank" => ~live[r]

ReplyInv == \A r \in Requests : RepliedTo(r)

\* A step that does not touch what is said of a request: one that has returned
\* stays as it is, another goes on without rows to report.
Unreplied(r) ==
  \/ /\ pc'[r] = pc[r] /\ inserted'[r] = inserted[r] /\ answer'[r] = answer[r]
     /\ pc[r] = "ended" => live'[r] = live[r] /\ listening'[r] = listening[r]
  \/ pc'[r] \in {"saving", "committed", "lost"}
  \/ /\ pc[r] \in {"unsent", "reading", "ingesting", "failed"}
     /\ pc'[r] \in {"unsent", "reading", "ingesting", "failed"}
     /\ inserted'[r] = inserted[r]
  \/ pc'[r] = "failed" /\ inserted'[r] = 0

\* Such a step keeps what is said.
LEMMA ReplyIsKept ==
  ASSUME ReplyInv, NEW r \in Requests, Unreplied(r)
  PROVE  RepliedTo(r)'
BY DEF ReplyInv, RepliedTo, Unreplied

\* The handler returns with what it knows of its Save and of its context: rows
\* reported are a success whatever became of the context.
LEMMA ReplyOfHandler ==
  ASSUME IInv, ReplyInv, NEW r \in Requests,
         Refuse(r) \/ BreakOff(r) \/ Admit(r) \/ Answer(r)
  PROVE  ReplyInv'
<1> TypeOK
  BY DEF IInv
<1>1. UNCHANGED <<live, listening, inserted>>
  BY DEF Refuse, BreakOff, Admit, Answer, client, saving
<1>2. \A q \in Requests \ {r} : pc'[q] = pc[q] /\ answer'[q] = answer[q]
  BY DEF TypeOK, Refuse, BreakOff, Admit, Answer, Return
<1>3. \A q \in Requests \ {r} : RepliedTo(q)'
  BY <1>1, <1>2, ReplyIsKept DEF Unreplied
<1>4. RepliedTo(r)'
  <2>1. CASE Refuse(r)
    <3>1. pc[r] = "reading" /\ pc'[r] = "ended" /\ answer'[r] = "refused"
      BY <2>1 DEF Refuse, Return, TypeOK
    <3> QED
      BY <1>1, <3>1 DEF ReplyInv, RepliedTo
  <2>2. CASE BreakOff(r)
    <3>1. /\ pc[r] = "reading" /\ pc'[r] = "ended"
          /\ answer'[r] = (IF live[r] THEN "refused" ELSE Silence(r))
      BY <2>2 DEF BreakOff, Return, TypeOK
    <3> QED
      BY <1>1, <3>1 DEF ReplyInv, RepliedTo, Silence
  <2>3. CASE Admit(r)
    <3>1. /\ pc[r] = "reading"
          /\ \/ ~live[r] /\ pc'[r] = "ended" /\ answer'[r] = Silence(r)
             \/ pc'[r] = "ended" /\ answer'[r] = "success"
             \/ pc'[r] = "ingesting"
      BY <2>3 DEF Admit, Return, TypeOK
    <3> QED
      BY <1>1, <3>1 DEF ReplyInv, RepliedTo, Silence
  <2>4. CASE Answer(r)
    <3>1. /\ pc'[r] = "ended"
          /\ \/ answer'[r] = "success"
             \/ pc[r] = "failed" /\ ~live[r] /\ answer'[r] = Silence(r)
             \/ pc[r] = "failed" /\ answer'[r] \in {"refused", "error"}
      BY <2>4 DEF Answer, Ingested, Return, TypeOK
    <3> QED
      BY <1>1, <3>1 DEF ReplyInv, RepliedTo, Silence
  <2> QED
    BY <2>1, <2>2, <2>3, <2>4
<1> QED
  BY <1>3, <1>4 DEF ReplyInv

(* Every step keeps what is said of the answers.                           *)
LEMMA ReplyStep == IInv /\ ReplyInv /\ [Next]_vars => ReplyInv'
<1> SUFFICES ASSUME IInv, ReplyInv, [Next]_vars PROVE ReplyInv'
  OBVIOUS
<1> TypeOK
  BY DEF IInv
<1>1. ASSUME \A q \in Requests : Unreplied(q) PROVE ReplyInv'
  BY <1>1, ReplyIsKept DEF ReplyInv
<1>2. ASSUME NEW r \in Requests, NEW b \in Batches, Send(r, b) PROVE ReplyInv'
  BY <1>1, <1>2 DEF Send, TypeOK, saving, Unreplied
<1>3. ASSUME NEW r \in Requests, Disconnect(r) \/ ReadDeadline(r) PROVE ReplyInv'
  BY <1>1, <1>3
     DEF Disconnect, ReadDeadline, TypeOK, saving, InFlight, Handling, Unreplied
<1>4. ASSUME NEW r \in Requests, Reject(r) \/ OpenSave(r) PROVE ReplyInv'
  BY <1>1, <1>4 DEF Reject, OpenSave, TypeOK, client, saving, Unreplied
<1>5. ASSUME NEW r \in Requests, Insert(r) PROVE ReplyInv'
  BY <1>1, <1>5 DEF Insert, InTransaction, TypeOK, client, Unreplied
<1>6. ASSUME NEW r \in Requests, Commit(r) PROVE ReplyInv'
  BY <1>1, <1>6 DEF Commit, TypeOK, client, Unreplied
<1>7. ASSUME NEW r \in Requests, Abort(r) PROVE ReplyInv'
  BY <1>1, <1>7 DEF Abort, TypeOK, client, Unreplied
<1>8. ASSUME NEW how \in {"stopped late", "crashed"}, Die(how) PROVE ReplyInv'
  BY <1>1, <1>8 DEF Die, TypeOK, InFlight, Handling, Unreplied
<1>9. CASE Stop \/ Drained \/ Restart \/ UNCHANGED vars
  BY <1>1, <1>9 DEF Stop, Drained, Restart, vars, client, saving, Unreplied
<1> QED
  BY <1>2, <1>3, <1>4, <1>5, <1>6, <1>7, <1>8, <1>9, ReplyOfHandler
     DEF Next, Handle, Suffer, Lifecycle, Cancel, BreakDeadlock, Fail, StopLate, Crash
-----------------------------------------------------------------------------
(* The theorems. *)

\* In every reachable state the strengthened invariant holds, for any requests,
\* batches, signals, pools and starts.
THEOREM Invariance == Spec => []IInv
<1>1. Init => IInv
  <2> SUFFICES ASSUME Init PROVE IInv
    OBVIOUS
  <2>1. TypeOK
    BY BoundsAssumption, PositiveOne DEF Init, TypeOK, Handling
  <2>2. Sent /\ Ingesting /\ Held /\ Exclusive /\ Passed /\ Accepted /\ Told
    BY DEF Init, Sent, Ingesting, Held, Exclusive, Passed, Accepted, Told
  <2>3. Origin
    BY NobodyAssumption DEF Init, Origin
  <2> QED
    BY <2>1, <2>2, <2>3 DEF IInv
<1>2. IInv /\ [Next]_vars => IInv'
  BY HandlerStep, EndingStep, SendStep, InsertStep, CommitStep
     DEF Next, Handle, Suffer, Lifecycle, StopLate, Crash
<1> QED
  BY <1>1, <1>2, PTL DEF Spec

\* The state is well typed in every reachable state.
THEOREM TypeCorrect == Spec => []TypeOK
<1>1. IInv => TypeOK
  BY DEF IInv
<1> QED
  BY <1>1, Invariance, PTL

\* A batch whose request was answered with success is in the table.
THEOREM AcceptedIsStored == Spec => []SuccessIsStored
<1>1. IInv => SuccessIsStored
  BY DEF IInv, Told, SuccessIsStored
<1> QED
  BY <1>1, Invariance, PTL

\* A request leaves its whole batch in the table, or no row of it.
THEOREM SavedWhole == Spec => []WholeOrNothing
<1>1. IInv => WholeOrNothing
  BY DEF IInv, Origin, WholeOrNothing, RowsOf
<1> QED
  BY <1>1, Invariance, PTL

\* A request refused with a 4xx left no row.
THEOREM RefusedIsClean == Spec => []RefusedLeavesNothing
<1>1. IInv => RefusedLeavesNothing
  BY DEF IInv, Told, RefusedLeavesNothing, RowsOf
<1> QED
  BY <1>1, Invariance, PTL

\* No step changes the row that was saved first.
THEOREM NothingRewritten == Spec => FirstVersionKept
<1>1. IInv /\ [Next]_vars
        => \A id \in Ids : stored[id] # Nobody => stored'[id] = stored[id]
  <2> SUFFICES ASSUME IInv, [Next]_vars, NEW id \in Ids, stored[id] # Nobody
               PROVE  stored'[id] = stored[id]
    OBVIOUS
  <2>1. ASSUME NEW r \in Requests, Commit(r) PROVE stored'[id] = stored[id]
    <3>1. id \notin written[r]
      BY DEF IInv, Exclusive
    <3> QED
      BY <2>1, <3>1 DEF Commit, Committed
  <2>2. ASSUME \A r \in Requests : ~Commit(r) PROVE UNCHANGED stored
    BY <2>2, OnlyCommitStores
  <2> QED
    BY <2>1, <2>2
<1> QED
  BY <1>1, Invariance, PTL DEF Spec, FirstVersionKept

\* The count Save returned to a request answered with success is that of its rows
\* in the table.
THEOREM CountIsOfRows == Spec => []CountIsExact
<1>1. Init => CountInv
  BY FS_EmptySet DEF Init, CountInv, CountOf
<1>2. CountInv => CountIsExact
  BY DEF CountInv, CountOf, CountIsExact
<1> QED
  BY <1>1, <1>2, CountStep, Invariance, PTL DEF Spec

\* A stop that ends well left nobody who still listened without an answer, said
\* success to each whose Save reported rows, and nothing only to those whose
\* context had died.
THEOREM CleanStop == Spec => []CleanStopAnswersAll
<1>1. Init => DrainInv /\ ReplyInv
  BY DEF Init, DrainInv, ReplyInv, RepliedTo
<1>2. IInv /\ DrainInv /\ ReplyInv => CleanStopAnswersAll
  <2> SUFFICES ASSUME IInv, DrainInv, ReplyInv, server = "stopped", NEW r \in Requests,
                      pc[r] \notin {"unsent", "lost"}, listening[r]
               PROVE  /\ answer[r] # "none"
                      /\ inserted[r] > 0 => answer[r] = "success"
                      /\ answer[r] = "blank" => ~live[r]
    BY DEF CleanStopAnswersAll
  <2>1. pc[r] = "ended"
    BY DEF IInv, TypeOK, DrainInv, InFlight
  <2> QED
    BY <2>1 DEF ReplyInv, RepliedTo
<1> QED
  BY <1>1, <1>2, DrainStep, ReplyStep, Invariance, PTL DEF Spec
=============================================================================
