-------------------------- MODULE DiagnosisProofs --------------------------
(***************************************************************************)
(* That Save publishes a diagnosis whole, once and for ever, for any       *)
(* number of investigations and whatever they find; then the session of    *)
(* the MCP server beside it: readers do not disturb what Save promises,    *)
(* what they answer agrees, and a cancelled session stops.                 *)
(***************************************************************************)
EXTENDS McpSession, TLAPS

Places == {"diagnose", "incident", "findings", "ranking", "commit"} \cup Ended

TypeInv ==
    /\ pc \in [Investigations -> Places]
    /\ diagnosis = [i \in Investigations |-> diagnosis[i]]
    /\ written = [i \in Investigations |-> written[i]]

(* What an open transaction has written so far. *)
WrittenInv ==
    \A i \in Investigations :
        /\ pc[i] = "findings" => written[i] = {IncidentRow(i)}
        /\ pc[i] = "ranking" => written[i] = {IncidentRow(i)} \cup FindingRows(i)
        /\ pc[i] = "commit" => written[i] = Snapshot(i)
        /\ ~InTransaction(i) => written[i] = {}

(* One transaction holds an incident, and only while nothing is stored. *)
HolderInv ==
    \A i \in Investigations : InTransaction(i) =>
        /\ RowsOf(IncidentOf[i]) = {}
        /\ \A j \in Investigations :
            InTransaction(j) /\ IncidentOf[j] = IncidentOf[i] => j = i

Author(c, i) == IncidentOf[i] = c /\ RowsOf(c) = Snapshot(i)

(* What is stored of an incident is the snapshot of one that committed. *)
WholeInv ==
    \A c \in Incidents :
        RowsOf(c) # {} =>
            \E i \in Investigations : pc[i] \in {"saved", "failed"} /\ Author(c, i)

AnswerInv ==
    \A i \in Investigations :
        /\ pc[i] = "saved" => Author(IncidentOf[i], i)
        /\ pc[i] = "existing" =>
            \E j \in Investigations \ {i} : Author(IncidentOf[i], j)

IInv == TypeInv /\ WrittenInv /\ HolderInv /\ WholeInv /\ AnswerInv

-----------------------------------------------------------------------------
(* Every row of a snapshot says whose it is, and the incident is in it. *)
LEMMA SnapshotRows ==
    ASSUME NEW i \in Investigations
    PROVE  /\ IncidentRow(i) \in Snapshot(i)
           /\ \A r \in Snapshot(i) : r.author = i /\ r.incident = IncidentOf[i]
    BY DEF Snapshot, IncidentRow, RankingRow, FindingRows, Row

(* Two investigations never write the same snapshot. *)
LEMMA SnapshotAuthor ==
    ASSUME NEW i \in Investigations, NEW j \in Investigations, Snapshot(i) = Snapshot(j)
    PROVE  i = j
    BY SnapshotRows

(* An incident is found by its row exactly when something of it is stored. *)
LEMMA IncidentIsStored ==
    ASSUME IInv, NEW i \in Investigations
    PROVE  Exists(i) <=> RowsOf(IncidentOf[i]) # {}
<1>1. IncidentOf[i] \in Incidents
    BY DiagnosisAssumption
<1>2. ASSUME Exists(i) PROVE RowsOf(IncidentOf[i]) # {}
    BY <1>2 DEF Exists, HasIncident, RowsOf
<1>3. ASSUME RowsOf(IncidentOf[i]) # {} PROVE Exists(i)
    <2>1. PICK j \in Investigations : Author(IncidentOf[i], j)
        BY <1>1, <1>3 DEF IInv, WholeInv
    <2>2. IncidentRow(j) \in RowsOf(IncidentOf[i])
        BY <2>1, SnapshotRows DEF Author
    <2> QED
        BY <2>1, <2>2 DEF Exists, HasIncident, RowsOf, Author, IncidentRow, Row
<1> QED
    BY <1>2, <1>3

(* A transaction holds the row of its incident. *)
LEMMA HolderHolds ==
    ASSUME IInv, NEW j \in Investigations, InTransaction(j)
    PROVE  Held(j, IncidentOf[j])
<1>1. IncidentRow(j) \in written[j]
    BY SnapshotRows DEF IInv, WrittenInv, InTransaction
<1> QED
    BY <1>1 DEF Held, HasIncident, IncidentRow, Row

-----------------------------------------------------------------------------
(* Nothing is stored and nobody has begun.                                 *)
LEMMA InitEstablishes == StoreInit => IInv
    BY DEF StoreInit, IInv, TypeInv, WrittenInv, HolderInv, WholeInv, AnswerInv,
           Places, RowsOf, InTransaction

(* A step of one investigation that stores nothing: what the others are    *)
(* told by the table stays true.                                           *)
LEMMA NothingStored ==
    ASSUME IInv, NEW i \in Investigations, NEW how \in Places,
           pc' = [pc EXCEPT ![i] = how], pc[i] \notin Ended, how # "saved",
           rows' = rows, diagnosis' = [diagnosis EXCEPT ![i] = diagnosis'[i]],
           written' = [written EXCEPT ![i] = written'[i]],
           how = "existing" => \E j \in Investigations \ {i} : Author(IncidentOf[i], j)
    PROVE  TypeInv' /\ WholeInv' /\ AnswerInv'
<1>1. \A c \in Incidents : RowsOf(c)' = RowsOf(c)
    BY DEF RowsOf
<1>2. \A j \in Investigations \ {i} : pc'[j] = pc[j] /\ Snapshot(j)' = Snapshot(j)
    BY DEF IInv, TypeInv, Snapshot, IncidentRow, RankingRow, FindingRows, Row
<1>3. TypeInv'
    BY DEF IInv, TypeInv
<1>4. \A c \in Incidents : \A j \in Investigations \ {i} : Author(c, j)' <=> Author(c, j)
    BY <1>1, <1>2 DEF Author
<1>5. WholeInv'
    <2> SUFFICES ASSUME NEW c \in Incidents, RowsOf(c)' # {}
                 PROVE  \E k \in Investigations :
                            (pc[k] \in {"saved", "failed"} /\ Author(c, k))'
        BY DEF WholeInv
    <2>1. PICK k \in Investigations : pc[k] \in {"saved", "failed"} /\ Author(c, k)
        BY <1>1 DEF IInv, WholeInv
    <2>2. k # i
        BY <2>1 DEF Ended
    <2> QED
        BY <1>2, <1>4, <2>1, <2>2
<1>6. AnswerInv'
    <2> SUFFICES ASSUME NEW k \in Investigations
                 PROVE  /\ (pc[k] = "saved" => Author(IncidentOf[k], k))'
                        /\ (pc[k] = "existing" =>
                              \E j \in Investigations \ {k} : Author(IncidentOf[k], j))'
        BY DEF AnswerInv
    <2>0. IncidentOf[k] \in Incidents
        BY DiagnosisAssumption
    <2>1. CASE k = i
        <3>1. pc'[k] = how
            BY <2>1 DEF IInv, TypeInv
        <3> QED
            BY <3>1, <2>0, <2>1, <1>4
    <2>2. CASE k # i
        <3>1. pc[k] = "saved" => Author(IncidentOf[k], k)'
            BY <2>0, <2>2, <1>4 DEF IInv, AnswerInv
        <3>2. ASSUME pc[k] = "existing"
              PROVE  \E j \in Investigations \ {k} : Author(IncidentOf[k], j)'
            <4>1. PICK j \in Investigations \ {k} : Author(IncidentOf[k], j)
                BY <3>2 DEF IInv, AnswerInv
            <4>2. RowsOf(IncidentOf[k]) # {}
                BY <4>1, SnapshotRows DEF Author
            <4>3. PICK l \in Investigations :
                      pc[l] \in {"saved", "failed"} /\ Author(IncidentOf[k], l)
                BY <2>0, <4>2 DEF IInv, WholeInv
            <4>4. j = l
                BY <4>1, <4>3, SnapshotAuthor DEF Author
            <4>5. j # i
                BY <4>3, <4>4 DEF Ended
            <4> QED
                BY <4>1, <4>5, <2>0, <1>4
        <3> QED
            BY <3>1, <3>2, <2>2, <1>2
    <2> QED
        BY <2>1, <2>2
<1> QED
    BY <1>3, <1>5, <1>6

(* A step that opens no transaction and stores nothing: the holders of the *)
(* incidents stay as they are.                                             *)
LEMMA HoldersKept ==
    ASSUME IInv, NEW i \in Investigations, NEW how \in Places,
           pc' = [pc EXCEPT ![i] = how], rows' = rows,
           how \in {"findings", "ranking", "commit"} => InTransaction(i)
    PROVE  HolderInv'
<1>1. \A j \in Investigations : InTransaction(j)' => InTransaction(j)
    BY DEF IInv, TypeInv, InTransaction
<1>2. \A c : RowsOf(c)' = RowsOf(c)
    BY DEF RowsOf
<1> QED
    BY <1>1, <1>2 DEF IInv, HolderInv

(* What the others have written and what they will publish are theirs. *)
LEMMA OthersKept ==
    ASSUME IInv, NEW i \in Investigations, NEW how \in Places,
           pc' = [pc EXCEPT ![i] = how],
           diagnosis' = [diagnosis EXCEPT ![i] = diagnosis'[i]],
           written' = [written EXCEPT ![i] = written'[i]],
           how = "findings" => written'[i] = {IncidentRow(i)},
           how = "ranking" => written'[i] = ({IncidentRow(i)} \cup FindingRows(i))',
           how = "commit" => written'[i] = Snapshot(i)',
           how \notin {"findings", "ranking", "commit"} => written'[i] = {}
    PROVE  WrittenInv'
<1> SUFFICES ASSUME NEW j \in Investigations
             PROVE  /\ (pc[j] = "findings" => written[j] = {IncidentRow(j)})'
                    /\ (pc[j] = "ranking" =>
                          written[j] = {IncidentRow(j)} \cup FindingRows(j))'
                    /\ (pc[j] = "commit" => written[j] = Snapshot(j))'
                    /\ (~InTransaction(j) => written[j] = {})'
    BY DEF WrittenInv
<1>0. IncidentRow(j)' = IncidentRow(j)
    BY DEF IncidentRow, Row
<1>1. CASE j = i
    <2>1. pc'[j] = how
        BY <1>1 DEF IInv, TypeInv
    <2> QED
        BY <1>0, <1>1, <2>1 DEF InTransaction
<1>2. CASE j # i
    <2>1. pc'[j] = pc[j] /\ written'[j] = written[j]
        BY <1>2 DEF IInv, TypeInv
    <2>2. diagnosis'[j] = diagnosis[j]
        BY <1>2 DEF IInv, TypeInv
    <2>3. FindingRows(j)' = FindingRows(j) /\ Snapshot(j)' = Snapshot(j)
        BY <2>2 DEF FindingRows, Snapshot, IncidentRow, RankingRow, Row
    <2>4. InTransaction(j)' <=> InTransaction(j)
        BY <2>1 DEF InTransaction
    <2> QED
        BY <1>0, <2>1, <2>3, <2>4 DEF IInv, WrittenInv
<1> QED
    BY <1>1, <1>2

-----------------------------------------------------------------------------
(* The step in which a snapshot appears. *)
LEMMA PublishStep ==
    ASSUME IInv, NEW i \in Investigations, NEW how \in {"saved", "failed"}, Publish(i, how)
    PROVE  /\ IInv'
           /\ RowsOf(IncidentOf[i]) = {} /\ Author(IncidentOf[i], i)'
           /\ \A c \in Incidents \ {IncidentOf[i]} : RowsOf(c)' = RowsOf(c)
<1>0. /\ pc[i] = "commit" /\ pc' = [pc EXCEPT ![i] = how] /\ diagnosis' = diagnosis
      /\ rows' = rows \cup Snapshot(i) /\ written' = [written EXCEPT ![i] = {}]
      /\ how \in Places /\ InTransaction(i) /\ IncidentOf[i] \in Incidents
      /\ diagnosis' = [diagnosis EXCEPT ![i] = diagnosis'[i]]
      /\ written' = [written EXCEPT ![i] = written'[i]] /\ written'[i] = {}
    BY DiagnosisAssumption
       DEF Publish, Goto, Places, Ended, InTransaction, IInv, TypeInv, WrittenInv
<1>1. \A j \in Investigations : Snapshot(j)' = Snapshot(j)
    BY <1>0 DEF Snapshot, IncidentRow, RankingRow, FindingRows, Row
<1>2. RowsOf(IncidentOf[i]) = {}
    BY <1>0 DEF IInv, HolderInv
<1>3. RowsOf(IncidentOf[i])' = Snapshot(i)
    BY <1>0, <1>2, SnapshotRows DEF RowsOf
<1>4. Author(IncidentOf[i], i)'
    BY <1>1, <1>3 DEF Author
<1>5. \A c \in Incidents \ {IncidentOf[i]} : RowsOf(c)' = RowsOf(c)
    BY <1>0, SnapshotRows DEF RowsOf
<1>6. \A c \in Incidents \ {IncidentOf[i]} : \A j \in Investigations :
          Author(c, j)' <=> Author(c, j)
    BY <1>1, <1>5 DEF Author
<1>7. TypeInv'
    BY <1>0 DEF IInv, TypeInv
<1>8. WrittenInv'
    BY <1>0, OthersKept
<1>9. HolderInv'
    <2>1. \A j \in Investigations : InTransaction(j)' =>
              InTransaction(j) /\ j # i /\ IncidentOf[j] # IncidentOf[i]
        BY <1>0 DEF IInv, TypeInv, HolderInv, InTransaction
    <2>2. \A j \in Investigations : IncidentOf[j] \in Incidents
        BY DiagnosisAssumption
    <2> QED
        BY <1>5, <2>1, <2>2 DEF IInv, HolderInv
<1>10. WholeInv'
    <2> SUFFICES ASSUME NEW c \in Incidents, RowsOf(c)' # {}
                 PROVE  \E k \in Investigations :
                            (pc[k] \in {"saved", "failed"} /\ Author(c, k))'
        BY DEF WholeInv
    <2>1. CASE c = IncidentOf[i]
        BY <1>0, <1>4, <2>1 DEF IInv, TypeInv
    <2>2. CASE c # IncidentOf[i]
        <3>1. PICK k \in Investigations : pc[k] \in {"saved", "failed"} /\ Author(c, k)
            BY <1>5, <2>2 DEF IInv, WholeInv
        <3>2. k # i
            BY <1>0, <3>1
        <3> QED
            BY <1>0, <1>6, <2>2, <3>1, <3>2 DEF IInv, TypeInv
    <2> QED
        BY <2>1, <2>2
<1>11. AnswerInv'
    <2> SUFFICES ASSUME NEW k \in Investigations
                 PROVE  /\ (pc[k] = "saved" => Author(IncidentOf[k], k))'
                        /\ (pc[k] = "existing" =>
                              \E j \in Investigations \ {k} : Author(IncidentOf[k], j))'
        BY DEF AnswerInv
    <2>1. CASE k = i
        BY <1>0, <1>4, <2>1 DEF IInv, TypeInv
    <2>2. CASE k # i
        <3>1. pc'[k] = pc[k] /\ IncidentOf[k] \in Incidents
            BY <1>0, <2>2, DiagnosisAssumption DEF IInv, TypeInv
        <3>2. ASSUME NEW j \in Investigations, Author(IncidentOf[k], j)
              PROVE  IncidentOf[k] # IncidentOf[i]
            BY <1>2, <3>2, SnapshotRows DEF Author
        <3> QED
            BY <1>6, <3>1, <3>2 DEF IInv, AnswerInv
    <2> QED
        BY <2>1, <2>2
<1> QED
    BY <1>2, <1>4, <1>5, <1>7, <1>8, <1>9, <1>10, <1>11 DEF IInv

(* A step that moves i without storing anything and without opening a      *)
(* transaction keeps the invariant and the table.                          *)
LEMMA QuietStep ==
    ASSUME IInv, NEW i \in Investigations, NEW how \in Places,
           pc[i] \notin Ended, how # "saved",
           pc' = [pc EXCEPT ![i] = how], rows' = rows,
           diagnosis' = [diagnosis EXCEPT ![i] = diagnosis'[i]],
           written' = [written EXCEPT ![i] = written'[i]],
           how \in {"findings", "ranking", "commit"} => InTransaction(i),
           how = "findings" => written'[i] = {IncidentRow(i)},
           how = "ranking" => written'[i] = ({IncidentRow(i)} \cup FindingRows(i))',
           how = "commit" => written'[i] = Snapshot(i)',
           how \notin {"findings", "ranking", "commit"} => written'[i] = {},
           how = "existing" => \E j \in Investigations \ {i} : Author(IncidentOf[i], j)
    PROVE  IInv'
<1>1. TypeInv' /\ WholeInv' /\ AnswerInv'
    BY NothingStored
<1>2. HolderInv'
    BY HoldersKept
<1>3. WrittenInv'
    BY OthersKept
<1> QED
    BY <1>1, <1>2, <1>3 DEF IInv

(* A transaction that ends without its commit leaves the tables as they    *)
(* were.                                                                   *)
LEMMA UndoStep ==
    ASSUME IInv, NEW i \in Investigations, NEW how \in Places,
           Undo(i, how), pc[i] \notin Ended, how \in Ended \ {"saved"},
           how = "existing" => \E j \in Investigations \ {i} : Author(IncidentOf[i], j)
    PROVE  IInv'
<1>1. /\ pc' = [pc EXCEPT ![i] = how] /\ rows' = rows
      /\ diagnosis' = [diagnosis EXCEPT ![i] = diagnosis'[i]]
      /\ written' = [written EXCEPT ![i] = written'[i]] /\ written'[i] = {}
    BY DEF Undo, Goto, IInv, TypeInv
<1>2. how # "saved" /\ how \notin {"findings", "ranking", "commit"}
    BY DEF Ended
<1> QED
    BY <1>1, <1>2, QuietStep

-----------------------------------------------------------------------------
(* The analysis decides between an incident to write and nothing to save.  *)
LEMMA DiagnoseStep ==
    ASSUME IInv, NEW i \in Investigations, Diagnose(i)
    PROVE  IInv'
<1>1. PICK how \in {"incident", "skipped"} : pc' = [pc EXCEPT ![i] = how]
    BY DEF Diagnose, Goto
<1>2. pc[i] \notin Ended /\ how \in Places /\ how # "saved" /\ how # "existing"
      /\ how \notin {"findings", "ranking", "commit"} /\ rows' = rows
    BY DEF Diagnose, Ended, Places
<1>3. /\ diagnosis' = [diagnosis EXCEPT ![i] = diagnosis'[i]]
      /\ written' = [written EXCEPT ![i] = written'[i]] /\ written'[i] = {}
    BY DEF Diagnose, IInv, TypeInv, WrittenInv, InTransaction
<1> QED
    BY <1>1, <1>2, <1>3, QuietStep

(* The row of the incident opens the transaction, and nobody else has one  *)
(* of it.                                                                  *)
LEMMA InsertIncidentStep ==
    ASSUME IInv, NEW i \in Investigations, InsertIncident(i)
    PROVE  IInv'
<1>1. /\ pc[i] = "incident" /\ ~Waits(i) /\ ~Exists(i)
      /\ pc' = [pc EXCEPT ![i] = "findings"] /\ rows' = rows
      /\ diagnosis' = [diagnosis EXCEPT ![i] = diagnosis'[i]]
      /\ written' = [written EXCEPT ![i] = written'[i]]
      /\ written'[i] = {IncidentRow(i)}
      /\ pc[i] \notin Ended /\ "findings" \in Places
    BY DEF InsertIncident, Goto, IInv, TypeInv, Ended, Places
<1>2. TypeInv' /\ WholeInv' /\ AnswerInv'
    BY <1>1, NothingStored
<1>3. WrittenInv'
    BY <1>1, OthersKept
<1>4. HolderInv'
    <2>1. RowsOf(IncidentOf[i]) = {}
        BY <1>1, IncidentIsStored
    <2>2. \A j \in Investigations \ {i} :
              InTransaction(j) => IncidentOf[j] # IncidentOf[i]
        BY <1>1, HolderHolds DEF Waits
    <2>3. \A j \in Investigations : InTransaction(j)' => j = i \/ InTransaction(j)
        BY <1>1 DEF IInv, TypeInv, InTransaction
    <2>4. \A c : RowsOf(c)' = RowsOf(c)
        BY <1>1 DEF RowsOf
    <2> QED
        BY <2>1, <2>2, <2>3, <2>4 DEF IInv, HolderInv
<1> QED
    BY <1>2, <1>3, <1>4 DEF IInv

(* The row of the incident is there: Save answers that it exists.          *)
LEMMA AlreadyThereStep ==
    ASSUME IInv, NEW i \in Investigations, AlreadyThere(i)
    PROVE  IInv'
<1>1. IncidentOf[i] \in Incidents /\ RowsOf(IncidentOf[i]) # {}
    BY IncidentIsStored, DiagnosisAssumption DEF AlreadyThere
<1>2. PICK j \in Investigations :
          pc[j] \in {"saved", "failed"} /\ Author(IncidentOf[i], j)
    BY <1>1 DEF IInv, WholeInv
<1>3. j # i
    BY <1>2 DEF AlreadyThere
<1> QED
    BY <1>2, <1>3, UndoStep DEF AlreadyThere, Places, Ended

(* Findings, then the ranking, join the open transaction.                  *)
LEMMA InsertStep ==
    ASSUME IInv, NEW i \in Investigations, InsertFindings(i) \/ InsertRanking(i)
    PROVE  IInv'
<1>1. CASE InsertFindings(i)
    <2>1. /\ pc[i] = "findings" /\ pc' = [pc EXCEPT ![i] = "ranking"] /\ rows' = rows
          /\ diagnosis' = [diagnosis EXCEPT ![i] = diagnosis'[i]]
          /\ written' = [written EXCEPT ![i] = written'[i]]
          /\ written'[i] = {IncidentRow(i)} \cup FindingRows(i)
          /\ diagnosis' = diagnosis
        BY <1>1 DEF InsertFindings, Goto, IInv, TypeInv, WrittenInv
    <2>2. ({IncidentRow(i)} \cup FindingRows(i))' = {IncidentRow(i)} \cup FindingRows(i)
        BY <2>1 DEF IncidentRow, FindingRows, Row
    <2>3. InTransaction(i) /\ pc[i] \notin Ended /\ "ranking" \in Places
        BY <2>1 DEF InTransaction, Ended, Places
    <2> QED
        BY <2>1, <2>2, <2>3, QuietStep
<1>2. CASE InsertRanking(i)
    <2>1. /\ pc[i] = "ranking" /\ pc' = [pc EXCEPT ![i] = "commit"] /\ rows' = rows
          /\ diagnosis' = [diagnosis EXCEPT ![i] = diagnosis'[i]]
          /\ written' = [written EXCEPT ![i] = written'[i]]
          /\ written'[i] = {IncidentRow(i)} \cup FindingRows(i) \cup {RankingRow(i)}
          /\ diagnosis' = diagnosis
        BY <1>2 DEF InsertRanking, Goto, IInv, TypeInv, WrittenInv
    <2>2. written'[i] = Snapshot(i)'
        BY <2>1 DEF Snapshot, IncidentRow, FindingRows, RankingRow, Row
    <2>3. InTransaction(i) /\ pc[i] \notin Ended /\ "commit" \in Places
        BY <2>1 DEF InTransaction, Ended, Places
    <2> QED
        BY <2>1, <2>2, <2>3, QuietStep
<1> QED
    BY <1>1, <1>2

(* A refused finding or an error ends the transaction with a rollback.     *)
LEMMA FailStep ==
    ASSUME IInv, NEW i \in Investigations, RejectFindings(i) \/ Fail(i)
    PROVE  IInv'
    BY UndoStep DEF RejectFindings, Fail, Answer, InTransaction, Places, Ended

-----------------------------------------------------------------------------
(* The author of what is stored is the one the register shows. *)
LEMMA PublishedIs ==
    ASSUME NEW c \in Incidents, NEW i \in Investigations, Author(c, i)
    PROVE  Published[c] = i
<1>1. RowsOf(c) = Snapshot(i) /\ RowsOf(c) # {}
    BY SnapshotRows DEF Author
<1>2. \A j \in Investigations : RowsOf(c) = Snapshot(j) => j = i
    BY <1>1, SnapshotAuthor
<1> QED
    BY <1>1, <1>2 DEF Published

(* An incident without rows is published by nobody.                        *)
LEMMA NothingPublished ==
    ASSUME NEW c \in Incidents, RowsOf(c) = {}
    PROVE  Published[c] = Nobody
    BY DEF Published

(* The refinement mapping is a function of the incidents.                  *)
LEMMA PublishedIsFunction == Published = [c \in Incidents |-> Published[c]]
    BY DEF Published

(* A step that leaves the tables alone publishes nothing.                  *)
LEMMA SamePublished ==
    ASSUME IInv, NEW i \in Investigations, pc[i] \notin Ended, rows' = rows,
           diagnosis' = [diagnosis EXCEPT ![i] = diagnosis'[i]]
    PROVE  Published' = Published
<1>1. \A c : RowsOf(c)' = RowsOf(c)
    BY DEF RowsOf
<1>2. \A j \in Investigations \ {i} : Snapshot(j)' = Snapshot(j)
    BY DEF IInv, TypeInv, Snapshot, IncidentRow, RankingRow, FindingRows, Row
<1>3. ASSUME NEW c \in Incidents PROVE Published[c]' = Published[c]
    <2>1. CASE RowsOf(c) = {}
        <3>1. Published[c]' = Nobody
            BY <1>1, <2>1 DEF Published
        <3> QED
            BY <2>1, <3>1, NothingPublished
    <2>2. CASE RowsOf(c) # {}
        <3>1. PICK k \in Investigations : pc[k] \in {"saved", "failed"} /\ Author(c, k)
            BY <2>2 DEF IInv, WholeInv
        <3>2. k # i
            BY <3>1 DEF Ended
        <3>3. RowsOf(c)' = Snapshot(k)' /\ RowsOf(c)' # {}
            BY <1>1, <1>2, <2>2, <3>1, <3>2 DEF Author
        <3>4. \A j \in Investigations : RowsOf(c)' = Snapshot(j)' => j = k
            <4>1. \A j \in Investigations : (\A r \in Snapshot(j)' : r.author = j)
                BY DEF Snapshot, IncidentRow, RankingRow, FindingRows, Row
            <4>2. \A j \in Investigations : IncidentRow(j) \in Snapshot(j)'
                BY DEF Snapshot, IncidentRow, Row
            <4> QED
                BY <3>3, <4>1, <4>2
        <3>5. Published[c]' = k
            BY <3>3, <3>4 DEF Published
        <3> QED
            BY <3>1, <3>5, PublishedIs
    <2> QED
        BY <2>1, <2>2
<1> QED
    BY <1>3 DEF Published

(* A commit is a write of the register.                                    *)
LEMMA CommitPublishes ==
    ASSUME IInv, NEW i \in Investigations, NEW how \in {"saved", "failed"}, Publish(i, how)
    PROVE  Register!Publish(IncidentOf[i], i)
<1>0. IncidentOf[i] \in Incidents
    BY DiagnosisAssumption
<1>1. /\ RowsOf(IncidentOf[i]) = {} /\ Author(IncidentOf[i], i)'
      /\ \A c \in Incidents \ {IncidentOf[i]} : RowsOf(c)' = RowsOf(c)
    BY PublishStep
<1>2. \A j \in Investigations : Snapshot(j)' = Snapshot(j)
    BY DEF Publish, Snapshot, IncidentRow, RankingRow, FindingRows, Row
<1>3. Published[IncidentOf[i]] = Nobody
    BY <1>0, <1>1, NothingPublished
<1>4. Published'[IncidentOf[i]] = i
    <2>1. RowsOf(IncidentOf[i])' = Snapshot(i) /\ Snapshot(i) # {}
        BY <1>1, <1>2, SnapshotRows DEF Author
    <2>2. \A j \in Investigations : Snapshot(j) = Snapshot(i) => j = i
        BY SnapshotAuthor
    <2> QED
        BY <1>0, <1>2, <2>1, <2>2 DEF Published
<1>5. ASSUME NEW c \in Incidents, c # IncidentOf[i] PROVE Published[c]' = Published[c]
    <2>1. RowsOf(c)' = RowsOf(c)
        BY <1>1, <1>5
    <2>2. \A j \in Investigations : RowsOf(c)' = Snapshot(j)' <=> RowsOf(c) = Snapshot(j)
        BY <1>2, <2>1
    <2>3. (CHOOSE j \in Investigations : RowsOf(c) = Snapshot(j))'
            = CHOOSE j \in Investigations : RowsOf(c) = Snapshot(j)
        BY <2>2
    <2>4. Torn' = Torn /\ Nobody' = Nobody
        BY DEF Torn
    <2> QED
        BY <2>1, <2>2, <2>3, <2>4 DEF Published
<1>6. Published' = [Published EXCEPT ![IncidentOf[i]] = i]
    BY <1>0, <1>4, <1>5 DEF Published
<1> QED
    BY <1>3, <1>6 DEF Register!Publish

-----------------------------------------------------------------------------
(* The invariant only speaks of the variables of the store.                *)
LEMMA StutterKeeps ==
    ASSUME IInv, UNCHANGED storeVars
    PROVE  IInv'
<1>0. pc' = pc /\ diagnosis' = diagnosis /\ written' = written /\ rows' = rows
    BY DEF storeVars
<1>1. \A j \in Investigations : Snapshot(j)' = Snapshot(j)
    BY <1>0 DEF Snapshot, IncidentRow, RankingRow, FindingRows, Row
<1>2. \A c : RowsOf(c)' = RowsOf(c)
    BY <1>0 DEF RowsOf
<1>3. \A c : \A j \in Investigations : Author(c, j)' <=> Author(c, j)
    BY <1>1, <1>2 DEF Author
<1>4. TypeInv' /\ HolderInv'
    BY <1>0, <1>2 DEF IInv, TypeInv, HolderInv, InTransaction
<1>5. WrittenInv'
    BY <1>0, <1>1 DEF IInv, WrittenInv, InTransaction, IncidentRow, FindingRows, Row
<1>6. WholeInv' /\ AnswerInv'
    BY <1>0, <1>2, <1>3 DEF IInv, WholeInv, AnswerInv
<1> QED
    BY <1>4, <1>5, <1>6 DEF IInv

(* Every step of an investigation keeps the invariant.                     *)
LEMMA StepKeeps == IInv /\ [StoreNext]_storeVars => IInv'
<1> SUFFICES ASSUME IInv, [StoreNext]_storeVars PROVE IInv'
    OBVIOUS
<1>1. ASSUME NEW i \in Investigations, Save(i) \/ LoseCommit(i) \/ Fail(i) PROVE IInv'
    BY <1>1, DiagnoseStep, InsertIncidentStep, AlreadyThereStep, InsertStep, FailStep,
       PublishStep DEF Save, Commit, LoseCommit
<1>2. CASE UNCHANGED storeVars
    BY <1>2, StutterKeeps
<1> QED
    BY <1>1, <1>2 DEF StoreNext

(* The strengthened invariant holds in every reachable state of Save.      *)
THEOREM DiagnosisInvariance == StoreSpec => []IInv
<1> QED
    BY InitEstablishes, StepKeeps, PTL DEF StoreSpec

(* Save implements the register: what is stored of an incident is the      *)
(* whole snapshot of one investigation, and no later Save, ON CONFLICT or  *)
(* failure touches it.                                                     *)
THEOREM PublishesOnce == StoreSpec => PublishedOnce
<1>1. StoreInit => Register!Init
    BY DEF StoreInit, Register!Init, Published, RowsOf
<1>2. IInv /\ [StoreNext]_storeVars => [Register!Next]_Published
    <2> SUFFICES ASSUME IInv, [StoreNext]_storeVars
                 PROVE  Register!Next \/ Published' = Published
        OBVIOUS
    <2>1. CASE UNCHANGED storeVars
        BY <2>1 DEF storeVars, Published, RowsOf, Snapshot, IncidentRow, RankingRow,
           FindingRows, Row
    <2>2. ASSUME NEW i \in Investigations, Commit(i) \/ LoseCommit(i)
          PROVE  Register!Next
        <3>1. Register!Publish(IncidentOf[i], i) /\ IncidentOf[i] \in Incidents
            BY <2>2, CommitPublishes, DiagnosisAssumption DEF Commit, LoseCommit
        <3> QED
            BY <3>1 DEF Register!Next
    <2>3. ASSUME NEW i \in Investigations, Fail(i) \/ Save(i), ~Commit(i)
          PROVE  Published' = Published
        <3>1. /\ pc[i] \notin Ended /\ rows' = rows
              /\ diagnosis' = [diagnosis EXCEPT ![i] = diagnosis'[i]]
            BY <2>3 DEF Save, Diagnose, InsertIncident, AlreadyThere, InsertFindings,
               RejectFindings, InsertRanking, Fail, Undo, InTransaction, Ended, IInv, TypeInv
        <3> QED
            BY <3>1, SamePublished
    <2> QED
        BY <2>1, <2>2, <2>3 DEF StoreNext
<1> QED
    BY <1>1, <1>2, DiagnosisInvariance, PTL DEF StoreSpec, PublishedOnce, Register!Spec

(* The answer of the command agrees with what is stored, in every state    *)
(* after it: a saved diagnosis stays, one found existing is another's, and *)
(* one refused or not saved left nothing.                                  *)
THEOREM AnswersAreTrue == StoreSpec => []AnswerIsTrue
<1>1. IInv => AnswerIsTrue
    <2> SUFFICES ASSUME IInv, NEW i \in Investigations
                 PROVE  /\ pc[i] = "saved" => Published[IncidentOf[i]] = i
                        /\ pc[i] = "existing" =>
                              Published[IncidentOf[i]] \in Investigations \ {i}
                        /\ pc[i] \in {"skipped", "rejected"} => Published[IncidentOf[i]] # i
        BY DEF AnswerIsTrue
    <2>0. IncidentOf[i] \in Incidents
        BY DiagnosisAssumption
    <2>1. pc[i] = "saved" => Published[IncidentOf[i]] = i
        BY <2>0, PublishedIs DEF IInv, AnswerInv
    <2>2. ASSUME pc[i] = "existing"
          PROVE  Published[IncidentOf[i]] \in Investigations \ {i}
        <3>1. PICK j \in Investigations \ {i} : Author(IncidentOf[i], j)
            BY <2>2 DEF IInv, AnswerInv
        <3> QED
            BY <2>0, <3>1, PublishedIs
    <2>3. ASSUME pc[i] \in {"skipped", "rejected"} PROVE Published[IncidentOf[i]] # i
        <3>1. CASE RowsOf(IncidentOf[i]) = {}
            BY <2>0, <3>1, NothingPublished, DiagnosisAssumption
        <3>2. CASE RowsOf(IncidentOf[i]) # {}
            <4>1. PICK j \in Investigations :
                      pc[j] \in {"saved", "failed"} /\ Author(IncidentOf[i], j)
                BY <2>0, <3>2 DEF IInv, WholeInv
            <4> QED
                BY <2>0, <2>3, <4>1, PublishedIs
        <3> QED
            BY <3>1, <3>2
    <2> QED
        BY <2>1, <2>2, <2>3
<1> QED
    BY <1>1, DiagnosisInvariance, PTL

-----------------------------------------------------------------------------
(* Whatever is stored was committed by somebody. *)
RowsInv ==
    \A r \in rows : \E i \in Investigations :
        pc[i] \in {"saved", "failed"} /\ r \in Snapshot(i)

(* What a step of the storage does to the table: it adds the snapshot of   *)
(* one that commits, or nothing, and the diagnosis of one that ended stays.*)
LEMMA TableStep ==
    ASSUME IInv, [StoreNext]_storeVars
    PROVE  /\ \/ rows' = rows
              \/ \E i \in Investigations : \E how \in {"saved", "failed"} : Publish(i, how)
           /\ \A i \in Investigations : pc[i] \in {"saved", "failed"} =>
                  pc'[i] \in {"saved", "failed"} /\ Snapshot(i)' = Snapshot(i)
<1>1. CASE UNCHANGED storeVars
    BY <1>1 DEF storeVars, Snapshot, IncidentRow, RankingRow, FindingRows, Row
<1>2. ASSUME NEW i \in Investigations, Save(i) \/ LoseCommit(i) \/ Fail(i)
      PROVE  /\ rows' = rows \/ Publish(i, "saved") \/ Publish(i, "failed")
             /\ pc[i] \notin {"saved", "failed"}
             /\ \A j \in Investigations \ {i} :
                    pc'[j] = pc[j] /\ diagnosis'[j] = diagnosis[j]
    BY <1>2 DEF Save, Diagnose, InsertIncident, AlreadyThere, InsertFindings,
       RejectFindings, InsertRanking, Commit, LoseCommit, Publish, Fail, Undo, Goto,
       InTransaction, IInv, TypeInv
<1>3. ASSUME NEW j \in Investigations, diagnosis'[j] = diagnosis[j]
      PROVE  Snapshot(j)' = Snapshot(j)
    BY <1>3 DEF Snapshot, IncidentRow, RankingRow, FindingRows, Row
<1>4. CASE StoreNext
    <2>1. PICK i \in Investigations : Save(i) \/ LoseCommit(i) \/ Fail(i)
        BY <1>4 DEF StoreNext
    <2> QED
        BY <1>2, <1>3, <2>1
<1> QED
    BY <1>1, <1>4

(* What is stored of an incident stays as it is; nothing stored is lost.   *)
LEMMA StoredForEver ==
    ASSUME IInv, [StoreNext]_storeVars
    PROVE  /\ rows \subseteq rows'
           /\ \A c \in Incidents : RowsOf(c) # {} => RowsOf(c)' = RowsOf(c)
<1>1. CASE rows' = rows
    BY <1>1 DEF RowsOf
<1>2. ASSUME NEW i \in Investigations, NEW how \in {"saved", "failed"}, Publish(i, how)
      PROVE  /\ rows \subseteq rows'
             /\ \A c \in Incidents : RowsOf(c) # {} => RowsOf(c)' = RowsOf(c)
    BY <1>2, PublishStep DEF Publish
<1> QED
    BY <1>1, <1>2, TableStep

(* What is stored stays the kind of row a save writes.                     *)
LEMMA RowsKept == IInv /\ RowsInv /\ [StoreNext]_storeVars => RowsInv'
<1> SUFFICES ASSUME IInv, RowsInv, [StoreNext]_storeVars, NEW r \in rows'
             PROVE  \E i \in Investigations :
                        pc'[i] \in {"saved", "failed"} /\ r \in Snapshot(i)'
    BY DEF RowsInv
<1>1. CASE r \in rows
    BY <1>1, TableStep DEF RowsInv
<1>2. CASE r \notin rows
    <2>1. PICK i \in Investigations, how \in {"saved", "failed"} : Publish(i, how)
        BY <1>2, TableStep
    <2>2. r \in Snapshot(i) /\ pc'[i] = how /\ diagnosis' = diagnosis
        BY <1>2, <2>1 DEF Publish, Goto, IInv, TypeInv, WrittenInv
    <2>3. Snapshot(i)' = Snapshot(i)
        BY <2>2 DEF Snapshot, IncidentRow, RankingRow, FindingRows, Row
    <2> QED
        BY <2>2, <2>3
<1> QED
    BY <1>1, <1>2

(* The storage is well typed: a transaction writes rows of its own         *)
(* snapshot only, and so does the table hold rows of snapshots only.       *)
THEOREM StoreTypeCorrect == StoreSpec => []StoreTypeOK
<1>1. StoreInit => RowsInv
    BY DEF StoreInit, RowsInv
<1>2. IInv /\ RowsInv => StoreTypeOK
    <2> SUFFICES ASSUME IInv, RowsInv PROVE StoreTypeOK
        OBVIOUS
    <2>1. \A i \in Investigations : written[i] \subseteq Snapshot(i)
        BY DEF IInv, WrittenInv, InTransaction, Snapshot
    <2>2. rows \subseteq UNION {Snapshot(i) : i \in Investigations}
        BY DEF RowsInv
    <2> QED
        BY <2>1, <2>2 DEF StoreTypeOK, IInv, TypeInv, Places
<1> QED
    BY <1>1, <1>2, RowsKept, DiagnosisInvariance, PTL DEF StoreSpec

-----------------------------------------------------------------------------
(* Which diagnoses the primary key of findings refuses.                    *)

(* A service lost the link to two of its callers.                          *)
TwoParentsLost(o) ==
    \E k, l \in o.lost : k.child = l.child /\ k.parent # l.parent

(* One commit was deployed to two services with a symptom.                 *)
OneCommitOnTwo(o) ==
    \E s, t \in Symptomatic(o) :
        s # t /\ o.installed[s] = o.installed[t] /\ o.installed[s] # NoDeploy

(* What an investigation found before its findings are inserted, and what  *)
(* the insertion decided.                                                  *)
CollisionInv ==
    \A i \in Investigations :
        /\ pc[i] \notin {"diagnose", "failed"} =>
            \E o \in Observations : diagnosis[i] = Findings(o)
        /\ pc[i] = "rejected" => Collide(i)
        /\ pc[i] \in {"ranking", "commit", "saved"} => ~Collide(i)

(* A diagnosis is refused only for two links lost by one service or for a  *)
(* commit deployed to two, and one that has either is never saved.         *)
RefusedForTheseAlone ==
    \A i \in Investigations :
        /\ pc[i] = "rejected" =>
            \E o \in Observations :
                diagnosis[i] = Findings(o) /\ (TwoParentsLost(o) \/ OneCommitOnTwo(o))
        /\ pc[i] = "saved" =>
            \E o \in Observations :
                diagnosis[i] = Findings(o) /\ ~TwoParentsLost(o) /\ ~OneCommitOnTwo(o)

(* Two findings of an observation get one identifier in those two cases.   *)
LEMMA CollisionIs ==
    ASSUME NEW i \in Investigations, NEW o, diagnosis[i] = Findings(o)
    PROVE  Collide(i) <=> TwoParentsLost(o) \/ OneCommitOnTwo(o)
<1> DEFINE deployed == {s \in Symptomatic(o) : o.installed[s] # NoDeploy}
           Symptom(s)  == Finding("error_rate_delta", "service", s, s)
           Break(k)    == Finding("trace_break", "service", k.child, k.parent)
           Nearby(s)   == Finding("deployment_proximity", "service", s, s)
           Deployed(s) == Finding("deployment_proximity", "commit", o.installed[s], s)
<1>1. \A f : f \in diagnosis[i] <=>
        \/ \E s \in o.failing : f = Symptom(s)
        \/ \E k \in o.lost : f = Break(k)
        \/ \E s \in deployed : f = Nearby(s)
        \/ \E s \in deployed : f = Deployed(s)
    BY DEF Findings
<1>2. ASSUME Collide(i) PROVE TwoParentsLost(o) \/ OneCommitOnTwo(o)
    <2>1. PICK f \in diagnosis[i], g \in diagnosis[i] :
            /\ f # g /\ f.rule = g.rule /\ f.kind = g.kind /\ f.subject = g.subject
        BY <1>2 DEF Collide, FindingId
    <2>2. CASE \E s \in o.failing : f = Symptom(s)
        BY <1>1, <2>1, <2>2 DEF Finding
    <2>3. CASE \E k \in o.lost : f = Break(k)
        <3>1. PICK k \in o.lost : f = Break(k)
            BY <2>3
        <3>2. PICK l \in o.lost : g = Break(l)
            BY <1>1, <2>1, <3>1 DEF Finding
        <3>3. k.child = l.child /\ k.parent # l.parent
            BY <2>1, <3>1, <3>2 DEF Finding
        <3> QED
            BY <3>3 DEF TwoParentsLost
    <2>4. CASE \E s \in deployed : f = Nearby(s)
        BY <1>1, <2>1, <2>4 DEF Finding
    <2>5. CASE \E s \in deployed : f = Deployed(s)
        <3>1. PICK s \in deployed : f = Deployed(s)
            BY <2>5
        <3>2. PICK t \in deployed : g = Deployed(t)
            BY <1>1, <2>1, <3>1 DEF Finding
        <3>3. o.installed[s] = o.installed[t] /\ s # t
            BY <2>1, <3>1, <3>2 DEF Finding
        <3> QED
            BY <3>3 DEF OneCommitOnTwo
    <2> QED
        BY <1>1, <2>2, <2>3, <2>4, <2>5
<1>3. ASSUME TwoParentsLost(o) PROVE Collide(i)
    <2>1. PICK k \in o.lost, l \in o.lost : k.child = l.child /\ k.parent # l.parent
        BY <1>3 DEF TwoParentsLost
    <2>2. /\ Break(k) \in diagnosis[i] /\ Break(l) \in diagnosis[i] /\ Break(k) # Break(l)
          /\ FindingId(i, Break(k)) = FindingId(i, Break(l))
        BY <1>1, <2>1 DEF FindingId, Finding
    <2> HIDE DEF Break
    <2> QED
        BY <2>2 DEF Collide
<1>4. ASSUME OneCommitOnTwo(o) PROVE Collide(i)
    <2>1. PICK s \in deployed, t \in deployed : s # t /\ o.installed[s] = o.installed[t]
        BY <1>4 DEF OneCommitOnTwo
    <2>2. /\ Deployed(s) \in diagnosis[i] /\ Deployed(t) \in diagnosis[i]
          /\ Deployed(s) # Deployed(t)
          /\ FindingId(i, Deployed(s)) = FindingId(i, Deployed(t))
        BY <1>1, <2>1 DEF FindingId, Finding
    <2> HIDE DEF Deployed
    <2> QED
        BY <2>2 DEF Collide
<1> QED
    BY <1>2, <1>3, <1>4

(* A step decides as the findings collide or not, and then nothing moves   *)
(* what was found.                                                         *)
LEMMA CollisionStep ==
    IInv /\ CollisionInv /\ [StoreNext]_storeVars => CollisionInv'
<1> SUFFICES ASSUME IInv, CollisionInv, [StoreNext]_storeVars PROVE CollisionInv'
    OBVIOUS
<1>1. CASE UNCHANGED storeVars
    BY <1>1 DEF storeVars, CollisionInv, Collide, FindingId
<1>2. ASSUME NEW i \in Investigations, Save(i) \/ LoseCommit(i) \/ Fail(i)
      PROVE  CollisionInv'
    <2>1. TypeInv
        BY DEF IInv
    <2>2. ASSUME NEW j \in Investigations \ {i}
          PROVE  pc'[j] = pc[j] /\ diagnosis'[j] = diagnosis[j]
        BY <1>2, <2>1 DEF TypeInv, Save, Diagnose, InsertIncident, AlreadyThere, InsertFindings,
           RejectFindings, InsertRanking, Commit, LoseCommit, Publish, Fail, Undo, Goto
    <2>3. ASSUME NEW j \in Investigations, diagnosis'[j] = diagnosis[j]
          PROVE  Collide(j)' <=> Collide(j)
        BY <2>3 DEF Collide, FindingId
    <2>4. /\ pc'[i] \notin {"diagnose", "failed"} =>
                \E o \in Observations : diagnosis'[i] = Findings(o)
          /\ pc'[i] = "rejected" => Collide(i)'
          /\ pc'[i] \in {"ranking", "commit", "saved"} => ~Collide(i)'
        <3>1. CASE Diagnose(i)
            BY <2>1, <3>1 DEF TypeInv, Diagnose, Goto
        <3>2. CASE diagnosis' = diagnosis /\ pc[i] # "diagnose" /\ pc[i] # "failed"
            <4>1. /\ pc'[i] = "rejected" => Collide(i)
                  /\ pc'[i] \in {"ranking", "commit", "saved"} => ~Collide(i)
                BY <1>2, <2>1, <3>2 DEF CollisionInv, TypeInv, Save, Diagnose, InsertIncident,
                   AlreadyThere, InsertFindings, RejectFindings, InsertRanking, Commit,
                   LoseCommit, Publish, Fail, Answer, Undo, Goto
            <4> QED
                BY <2>3, <3>2, <4>1 DEF CollisionInv
        <3>3. CASE Fail(i) /\ pc[i] = "diagnose"
            BY <2>1, <3>3 DEF TypeInv, Fail, Answer, Undo, Goto
        <3> QED
            BY <1>2, <3>1, <3>2, <3>3 DEF Save, InsertIncident, AlreadyThere, InsertFindings,
               RejectFindings, InsertRanking, Commit, LoseCommit, Publish, Fail, Undo, InTransaction
    <2> QED
        BY <2>2, <2>3, <2>4 DEF CollisionInv
<1> QED
    BY <1>1, <1>2 DEF StoreNext

(* The identifier of a finding costs a diagnosis in two cases and in no    *)
(* other: a service that lost two callers, a commit deployed to two        *)
(* services with a symptom.                                                *)
THEOREM OnlyTheseAreRefused == StoreSpec => []RefusedForTheseAlone
<1>1. StoreInit => CollisionInv
    BY DEF StoreInit, CollisionInv
<1>2. CollisionInv => RefusedForTheseAlone
    <2> SUFFICES ASSUME CollisionInv PROVE RefusedForTheseAlone
        OBVIOUS
    <2>1. ASSUME NEW i \in Investigations, pc[i] \in {"rejected", "saved"}
          PROVE  \E o \in Observations :
                    /\ diagnosis[i] = Findings(o)
                    /\ Collide(i) <=> TwoParentsLost(o) \/ OneCommitOnTwo(o)
        BY <2>1, CollisionIs DEF CollisionInv
    <2> QED
        BY <2>1 DEF CollisionInv, RefusedForTheseAlone
<1> QED
    BY <1>1, <1>2, CollisionStep, DiagnosisInvariance, PTL DEF StoreSpec

-----------------------------------------------------------------------------
(* The session.                                                            *)


(* The storage does not notice the session.                                *)
LEMMA SessionRefinesStore == Spec => StoreSpec
<1>1. Init => StoreInit
    BY DEF Init
<1>2. [Next]_vars => [StoreNext]_storeVars
    BY DEF Next, vars
<1> QED
    BY <1>1, <1>2, PTL DEF Spec, StoreSpec

(* Every incident is published whole and once, with a session reading.     *)
THEOREM SessionPublishesOnce == Spec => PublishedOnce
<1> QED
    BY SessionRefinesStore, PublishesOnce, PTL

(* The answers of `faultmap diagnose` are true, with a session reading.    *)
THEOREM SessionAnswersAreTrue == Spec => []AnswerIsTrue
<1> QED
    BY SessionRefinesStore, AnswersAreTrue, PTL

-----------------------------------------------------------------------------
(* Lines handled after the cancellation: none before it, and after the     *)
(* first one the session does not go back to its input.                    *)
LateInv ==
    /\ late \in {0, 1}
    /\ late = 1 => cancelled /\ phase \notin {"input", "reading", "handling"}

(* After a cancellation the session takes at most one line more.           *)
LEMMA StepKeepsLate == LateInv /\ [Next]_vars => LateInv'
<1> SUFFICES ASSUME LateInv, [Next]_vars PROVE LateInv'
    OBVIOUS
<1>1. CASE StoreNext /\ UNCHANGED mcpVars
    BY <1>1 DEF mcpVars, LateInv
<1>2. CASE Top
    BY <1>2 DEF Top, MayServe, LateInv
<1>3. CASE ReadPiece
    BY <1>3 DEF ReadPiece, LateInv
<1>4. CASE Handle
    BY <1>4 DEF Handle, Done, LateInv
<1>5. CASE ListIncidents \/ ReadFails
    BY <1>5 DEF ListIncidents, ReadFails, Done, QueryUnchanged, LateInv
<1>6. CASE ReadIncident \/ ReadFindings \/ ReadRanking
    BY <1>6 DEF ReadIncident, ReadFindings, ReadRanking, Done, QueryUnchanged, LateInv
<1>7. CASE WriteReply \/ NothingToWrite
    BY <1>7 DEF WriteReply, NothingToWrite, After, LateInv
<1>8. CASE Client
    BY <1>8 DEF Client, Close, WriteFails, Write, LateInv
<1>9. CASE Cancel
    BY <1>9 DEF Cancel, LateInv
<1>10. CASE UNCHANGED vars
    BY <1>10 DEF vars, mcpVars, LateInv
<1> QED
    BY <1>1, <1>2, <1>3, <1>4, <1>5, <1>6, <1>7, <1>8, <1>9, <1>10
       DEF Next, Session, Serve

(* After the cancellation at most one line is handled: the one the server  *)
(* was reading or waiting for.                                             *)
THEOREM CancelStopsTheSession == Spec => []AtMostOneAfterCancel
<1>1. Init => LateInv
    BY DEF Init, McpInit, LateInv
<1>2. LateInv => AtMostOneAfterCancel
    BY DEF LateInv, AtMostOneAfterCancel
<1> QED
    BY <1>1, <1>2, StepKeepsLate, PTL DEF Spec

-----------------------------------------------------------------------------
(* Replies, audit and received lines are sequences; what a sequence is     *)
(* extended by comes after what it held.                                   *)
Sequence(s) == Len(s) \in Nat /\ s = [n \in 1 .. Len(s) |-> s[n]]

(* A sequence is a function over its positions.                            *)
LEMMA IsSequence ==
    ASSUME NEW T, NEW t \in Seq(T)
    PROVE  Sequence(t)
<1>1. Len(t) \in Nat /\ t \in [1 .. Len(t) -> T]
    OBVIOUS
<1> QED
    BY <1>1 DEF Sequence

(* What was there keeps its position, and the new comes after it.          *)
LEMMA AppendAfter ==
    ASSUME NEW s, Sequence(s), NEW x
    PROVE  /\ Sequence(Append(s, x))
           /\ Len(Append(s, x)) = Len(s) + 1
           /\ DOMAIN Append(s, x) = 1 .. Len(s) + 1 /\ DOMAIN s = 1 .. Len(s)
           /\ \A n \in 1 .. Len(s) : Append(s, x)[n] = s[n]
           /\ Append(s, x)[Len(s) + 1] = x
<1> DEFINE T == {s[n] : n \in 1 .. Len(s)} \cup {x}
<1>1. s \in Seq(T)
    BY DEF Sequence
<1>2. x \in T
    OBVIOUS
<1> HIDE DEF T
<1>3. /\ Append(s, x) \in Seq(T) /\ Len(Append(s, x)) = Len(s) + 1 /\ Len(s) \in Nat
      /\ \A n \in 1 .. Len(s) : Append(s, x)[n] = s[n]
      /\ Append(s, x)[Len(s) + 1] = x
    BY <1>1, <1>2
<1>4. DOMAIN s = 1 .. Len(s) /\ DOMAIN Append(s, x) = 1 .. Len(s) + 1
    BY <1>1, <1>3
<1>5. Sequence(Append(s, x))
    BY <1>3, IsSequence
<1> QED
    BY <1>3, <1>4, <1>5

Phases == {"top", "input", "reading", "handling", "handled", "list", "incident",
           "findings", "ranking", "replying", "ended"}

(* The phases in which the server has a line in its hands. *)
Working == Phases \ {"top", "input", "ended"}

(* Reading stops exactly at the end of a line, and never keeps more of it  *)
(* than the ceiling.                                                       *)
LineInv ==
    /\ phase \in Phases
    /\ Sequence(received) /\ \A n \in 1 .. Number : received[n] \in Lines
    /\ line = None \/ line \in Lines
    /\ phase \in Working => Number \in Nat \ {0} /\ line = received[Number]
    /\ phase # "reading" => unread = 0
    /\ phase = "reading" =>
          /\ unread \in 1 .. line.pieces
          /\ line.pieces - unread < MaxPieces => held = line.pieces - unread
    /\ held \in 0 .. MaxPieces
    /\ phase \in {"top", "input"} => held = 0

(* A reply and an entry of the audit are about a line that was received.   *)
NumberInv ==
    /\ Sequence(replies) /\ \A n \in 1 .. Len(replies) : replies[n].to \in 1 .. Number
    /\ Sequence(audit) /\ \A n \in 1 .. Len(audit) : audit[n] \in 1 .. Number
    /\ phase = "replying" => reply.to = Number

(* What a line of the input may be.                                        *)
LEMMA LineTyped ==
    ASSUME NEW l \in Lines
    PROVE  l.pieces \in Nat \ {0} /\ l.incident \in Incidents
    BY McpAssumption DEF Line

(* Every step keeps what the session holds of the line at work.            *)
LEMMA LineStep == LineInv /\ [Next]_vars => LineInv'
<1> SUFFICES ASSUME LineInv, [Next]_vars PROVE LineInv'
    OBVIOUS
<1> USE DEF LineInv, Number, Working, Phases
<1>1. CASE UNCHANGED mcpVars
    BY <1>1 DEF mcpVars
<1>2. CASE Top
    BY <1>2 DEF Top
<1>3. CASE ReadPiece
    <2>1. /\ line = received[Number] /\ line \in Lines /\ unread \in 1 .. line.pieces
          /\ line.pieces \in Nat \ {0} /\ MaxPieces \in Nat \ {0}
        BY <1>3, LineTyped, McpAssumption DEF ReadPiece
    <2>2. /\ unread' = unread - 1 /\ UNCHANGED <<line, received>>
          /\ held' = IF line.pieces - unread < MaxPieces THEN held + 1 ELSE 0
          /\ phase' = IF unread = 1 THEN "handling" ELSE "reading"
        BY <1>3 DEF ReadPiece, LineRead
    <2>3. line.pieces - unread < MaxPieces => held = line.pieces - unread
        BY <1>3 DEF ReadPiece
    <2>4. held' \in 0 .. MaxPieces
        BY <2>1, <2>2, <2>3
    <2>5. /\ unread # 1 => unread' \in 1 .. line.pieces
          /\ unread = 1 => unread' = 0
          /\ line.pieces - unread' < MaxPieces => held' = line.pieces - unread'
        BY <2>1, <2>2, <2>3
    <2> QED
        BY <1>3, <2>1, <2>2, <2>4, <2>5 DEF ReadPiece
<1>4. CASE Handle
    BY <1>4 DEF Handle, Done
<1>5. CASE ListIncidents \/ ReadFails
    BY <1>5 DEF ListIncidents, ReadFails, Reading, Done, QueryUnchanged
<1>6. CASE ReadIncident \/ ReadFindings \/ ReadRanking
    BY <1>6 DEF ReadIncident, ReadFindings, ReadRanking, Done, QueryUnchanged
<1>7. CASE WriteReply \/ NothingToWrite
    <2>1. 0 \in 0 .. MaxPieces
        BY McpAssumption
    <2> QED
        BY <1>7, <2>1 DEF WriteReply, NothingToWrite, After
<1>8. CASE Close \/ WriteFails \/ Cancel
    BY <1>8 DEF Close, WriteFails, Cancel
<1>9. ASSUME NEW l \in Lines, Write(l) PROVE LineInv'
    <2>1. /\ phase = "input" /\ phase' = "reading" /\ line' = l /\ unread' = l.pieces
          /\ received' = Append(received, l) /\ held' = held
        BY <1>9 DEF Write
    <2>2. /\ Sequence(received') /\ Number' = Number + 1
          /\ \A n \in 1 .. Number : received'[n] = received[n]
          /\ received'[Number + 1] = l
        BY <2>1, AppendAfter
    <2>3. Number \in Nat /\ l.pieces \in Nat \ {0}
        BY LineTyped DEF Sequence
    <2>4. \A n \in 1 .. Number + 1 : received'[n] \in Lines
        <3>1. \A n \in 1 .. Number + 1 : n \in 1 .. Number \/ n = Number + 1
            BY <2>3
        <3> QED
            BY <2>2, <3>1
    <2>5. Number + 1 \in Nat \ {0} /\ l.pieces \in 1 .. l.pieces /\ l.pieces - l.pieces = 0
        BY <2>3
    <2> QED
        BY <2>1, <2>2, <2>4, <2>5
<1> QED
    BY <1>1, <1>2, <1>3, <1>4, <1>5, <1>6, <1>7, <1>8, <1>9
       DEF Next, Session, Serve, Client, vars

-----------------------------------------------------------------------------
(* Every step keeps replies numbered by lines received.                    *)
LEMMA NumberStep == LineInv /\ NumberInv /\ [Next]_vars => NumberInv'
<1> SUFFICES ASSUME LineInv, NumberInv, [Next]_vars PROVE NumberInv'
    OBVIOUS
<1>0. /\ Number \in Nat /\ Len(audit) \in Nat /\ Len(replies) \in Nat
      /\ phase \in Working => Number \in 1 .. Number
    BY DEF LineInv, NumberInv, Sequence, Number
<1>1. ASSUME received' = received, phase \in Working, audit' \in {audit, Append(audit, Number)}
      PROVE  /\ Sequence(audit)'
             /\ \A n \in 1 .. Len(audit') : audit'[n] \in 1 .. Number'
    <2>1. CASE audit' = audit
        BY <1>1, <2>1 DEF NumberInv, Number, Sequence
    <2>2. CASE audit' = Append(audit, Number)
        <3>1. /\ Sequence(audit') /\ Len(audit') = Len(audit) + 1
              /\ \A n \in 1 .. Len(audit) : audit'[n] = audit[n]
              /\ audit'[Len(audit) + 1] = Number
            BY <2>2, AppendAfter DEF NumberInv
        <3>2. \A n \in 1 .. Len(audit) + 1 : n \in 1 .. Len(audit) \/ n = Len(audit) + 1
            BY <1>0
        <3> QED
            BY <1>0, <1>1, <3>1, <3>2 DEF NumberInv, Number, Sequence
    <2> QED
        BY <1>1, <2>1, <2>2
<1>2. ASSUME UNCHANGED <<received, replies>>, phase \in Working,
             audit' \in {audit, Append(audit, Number)},
             phase' = "replying" => reply'.to = Number
      PROVE  NumberInv'
    BY <1>1, <1>2 DEF NumberInv, Number, Sequence
<1>3. ASSUME NEW is, NEW what, NEW trail \in BOOLEAN, Done(is, what, trail)
      PROVE  reply'.to = Number /\ audit' \in {audit, Append(audit, Number)}
    BY <1>3 DEF Done
<1>4. CASE UNCHANGED <<received, replies, audit>> /\ (phase' = "replying" => UNCHANGED <<reply, phase>>)
    BY <1>4 DEF NumberInv, Number, Sequence
<1>5. CASE Handle
    <2>1. phase \in Working /\ UNCHANGED <<received, replies>>
        BY <1>5 DEF Handle, Working, Phases
    <2>2. /\ audit' \in {audit, Append(audit, Number)}
          /\ phase' = "replying" => reply'.to = Number
        BY <1>5 DEF Handle, Done
    <2> QED
        BY <1>2, <2>1, <2>2
<1>6. CASE ListIncidents \/ ReadFails \/ ReadIncident \/ ReadRanking
    <2>1. phase \in Working /\ UNCHANGED <<received, replies>>
        BY <1>6 DEF ListIncidents, ReadFails, ReadIncident, ReadRanking, Reading,
           QueryUnchanged, Working, Phases
    <2>2. /\ audit' \in {audit, Append(audit, Number)}
          /\ phase' = "replying" => reply'.to = Number
        <3>1. CASE ListIncidents
            BY <1>3, <3>1 DEF ListIncidents
        <3>2. CASE ReadFails
            BY <1>3, <3>2 DEF ReadFails
        <3>3. CASE ReadIncident
            BY <1>3, <3>3 DEF ReadIncident
        <3>4. CASE ReadRanking
            BY <1>3, <3>4 DEF ReadRanking
        <3> QED
            BY <1>6, <3>1, <3>2, <3>3, <3>4
    <2> QED
        BY <1>2, <2>1, <2>2
<1>7. CASE WriteReply
    <2>1. /\ phase \in Working /\ received' = received /\ reply.to = Number
          /\ replies' = Append(replies, reply) /\ phase' # "replying"
          /\ audit' \in {audit, Append(audit, Number)}
        BY <1>7 DEF WriteReply, After, Working, Phases, NumberInv
    <2>2. /\ Sequence(replies') /\ Len(replies') = Len(replies) + 1
          /\ \A n \in 1 .. Len(replies) : replies'[n] = replies[n]
          /\ replies'[Len(replies) + 1] = reply
        BY <2>1, AppendAfter DEF NumberInv
    <2>3. \A n \in 1 .. Len(replies) + 1 : n \in 1 .. Len(replies) \/ n = Len(replies) + 1
        BY <1>0
    <2>4. \A n \in 1 .. Len(replies) + 1 : replies'[n].to \in 1 .. Number
        BY <1>0, <2>1, <2>2, <2>3 DEF NumberInv
    <2> QED
        BY <1>1, <2>1, <2>2, <2>4 DEF NumberInv, Number
<1>8. ASSUME NEW l \in Lines, Write(l) PROVE NumberInv'
    <2>1. UNCHANGED <<replies, audit>> /\ phase' # "replying" /\ received' = Append(received, l)
        BY <1>8 DEF Write
    <2>2. Number' = Number + 1
        BY <2>1, AppendAfter DEF LineInv, Number
    <2>3. \A k \in 1 .. Number : k \in 1 .. Number + 1
        BY <1>0
    <2> QED
        BY <2>1, <2>2, <2>3 DEF NumberInv, Sequence
<1>9. CASE Top \/ ReadPiece \/ ReadFindings \/ NothingToWrite \/ Close \/ WriteFails \/ Cancel
    <2>1. UNCHANGED <<received, replies, audit>> /\ (phase' = "replying" => UNCHANGED <<reply, phase>>)
        BY <1>9 DEF Top, ReadPiece, ReadFindings, QueryUnchanged, NothingToWrite, After,
           Close, WriteFails, Cancel
    <2> QED
        BY <1>4, <2>1
<1>10. CASE UNCHANGED mcpVars
    BY <1>4, <1>10 DEF mcpVars
<1> QED
    BY <1>5, <1>6, <1>7, <1>8, <1>9, <1>10 DEF Next, Session, Serve, Client, vars

-----------------------------------------------------------------------------
(* What a call has read so far of its incident. *)
GotInv ==
    /\ phase = "findings" => got # {} /\ got = Query("incidents")
    /\ phase = "ranking" => got # {} /\ got = Query("incidents") \cup Query("findings")
    /\ phase \notin {"findings", "ranking"} => got = {}

(* A snapshot answered is what is stored of its incident, and what a list  *)
(* named is stored: both for ever, since what is stored never changes.     *)
TrueReply(p) ==
    /\ p.is = "snapshot" => p.what # {} /\ p.what = RowsOf(received[p.to].incident)
    /\ p.is = "list" => \A c \in p.what : c \in Incidents /\ RowsOf(c) # {}

ReplyInv ==
    /\ \A n \in 1 .. Len(replies) : TrueReply(replies[n])
    /\ phase = "replying" => TrueReply(reply)

Tells(p, c) ==
    \/ p.is = "list" /\ c \in p.what
    \/ p.is = "snapshot" /\ c = received[p.to].incident

(* An incident not found had not been told before. *)
FoundInv ==
    /\ \A n \in 1 .. Len(replies) : \A m \in 1 .. n - 1 :
          replies[n].is = "not found" =>
              ~Tells(replies[m], received[replies[n].to].incident)
    /\ phase = "replying" /\ reply.is = "not found" =>
          \A m \in 1 .. Len(replies) : ~Tells(replies[m], line.incident)

SessionInv == LineInv /\ NumberInv /\ GotInv /\ ReplyInv /\ FoundInv

(* Positions before a position.                                            *)
LEMMA Before ==
    ASSUME NEW k \in Nat
    PROVE  /\ \A n \in 1 .. k : \A m \in 1 .. n - 1 : m \in 1 .. k
           /\ \A n \in 1 .. k + 1 : n \in 1 .. k \/ n = k + 1
           /\ \A n \in 1 .. k + 1 : \A m \in 1 .. n - 1 : m \in 1 .. k
    OBVIOUS

(* What is stored of an incident is its rows in the three tables, and the  *)
(* row of the incident itself is among them.                               *)
LEMMA ThreeTables ==
    ASSUME IInv, RowsInv, line.incident \in Incidents
    PROVE  /\ RowsOf(line.incident)
                = Query("incidents") \cup Query("findings") \cup Query("ranking_results")
           /\ RowsOf(line.incident) # {} => Query("incidents") # {}
<1>1. \A r \in rows : r.table \in {"incidents", "findings", "ranking_results"}
    BY DEF RowsInv, Snapshot, IncidentRow, RankingRow, FindingRows, Row
<1>2. ASSUME RowsOf(line.incident) # {} PROVE Query("incidents") # {}
    <2>1. PICK i \in Investigations : Author(line.incident, i)
        BY <1>2 DEF IInv, WholeInv
    <2>2. IncidentRow(i) \in RowsOf(line.incident)
        BY <2>1, SnapshotRows DEF Author
    <2>3. IncidentRow(i).table = "incidents"
        BY DEF IncidentRow, Row
    <2> QED
        BY <2>2, <2>3 DEF Query, RowsOf
<1> QED
    BY <1>1, <1>2 DEF RowsOf, Query

(* What a reply says stays true as the table grows and lines arrive.       *)
LEMMA RepliesStayTrue ==
    ASSUME IInv, LineInv, NumberInv, [StoreNext]_storeVars,
           \A n \in 1 .. Number : received'[n] = received[n],
           NEW p, TrueReply(p), p.to \in 1 .. Number
    PROVE  /\ received[p.to].incident \in Incidents
           /\ p.is = "snapshot" =>
                 p.what # {} /\ p.what = RowsOf(received[p.to].incident)'
           /\ p.is = "list" => \A c \in p.what : c \in Incidents /\ RowsOf(c)' # {}
<1>1. received[p.to].incident \in Incidents /\ received'[p.to] = received[p.to]
    BY LineTyped DEF LineInv
<1>2. p.is = "snapshot" => p.what = RowsOf(received[p.to].incident)'
    <2>1. p.is = "snapshot" =>
            RowsOf(received[p.to].incident) # {} /\ p.what = RowsOf(received[p.to].incident)
        BY DEF TrueReply
    <2>2. RowsOf(received[p.to].incident)' = {r \in rows' : r.incident = received[p.to].incident}
        BY <1>1 DEF RowsOf
    <2>3. \A c \in Incidents : RowsOf(c) # {} => RowsOf(c)' = RowsOf(c)
        BY StoredForEver
    <2>4. \A c \in Incidents : RowsOf(c)' = {r \in rows' : r.incident = c}
        BY DEF RowsOf
    <2> QED
        BY <1>1, <2>1, <2>2, <2>3, <2>4
<1> QED
    BY <1>1, <1>2, StoredForEver DEF TrueReply

(* A step that does not answer keeps what was answered true.               *)
LEMMA NothingAnswered ==
    ASSUME IInv, SessionInv, [StoreNext]_storeVars, UNCHANGED replies,
           \A n \in 1 .. Number : received'[n] = received[n],
           UNCHANGED <<phase, reply, line>> \/ phase' # "replying"
    PROVE  ReplyInv' /\ FoundInv'
<1> USE DEF SessionInv
<1>1. \A n \in 1 .. Len(replies) : replies[n].to \in 1 .. Number
    BY DEF NumberInv
<1>2. ReplyInv'
    <2>1. \A n \in 1 .. Len(replies) : TrueReply(replies[n])'
        BY <1>1, RepliesStayTrue DEF ReplyInv, TrueReply
    <2>2. phase' = "replying" => TrueReply(reply)'
        <3>1. phase' = "replying" => phase = "replying" /\ UNCHANGED reply /\ reply.to \in 1 .. Number
            BY DEF LineInv, NumberInv, Working, Phases
        <3> QED
            BY <3>1, RepliesStayTrue DEF ReplyInv, TrueReply
    <2> QED
        BY <2>1, <2>2 DEF ReplyInv
<1>3. FoundInv'
    <2>1. \A n \in 1 .. Len(replies) : received'[replies[n].to] = received[replies[n].to]
        BY <1>1
    <2>2. Len(replies) \in Nat
        BY DEF NumberInv, Sequence
    <2>3. \A n \in 1 .. Len(replies) : \A m \in 1 .. n - 1 : m \in 1 .. Len(replies)
        BY <2>2, Before
    <2>4. \A n \in 1 .. Len(replies) : \A c : Tells(replies[n], c)' <=> Tells(replies[n], c)
        BY <2>1 DEF Tells
    <2>5. (\A n \in 1 .. Len(replies) : \A m \in 1 .. n - 1 :
              replies[n].is = "not found" =>
                  ~Tells(replies[m], received[replies[n].to].incident))'
        BY <2>1, <2>3, <2>4 DEF FoundInv
    <2>6. (phase = "replying" /\ reply.is = "not found" =>
              \A m \in 1 .. Len(replies) : ~Tells(replies[m], line.incident))'
        BY <2>4 DEF FoundInv
    <2> QED
        BY <2>5, <2>6 DEF FoundInv
<1> QED
    BY <1>2, <1>3

(* A commit between two reads does not touch the incident being read: it   *)
(* was found, so it is stored.                                             *)
LEMMA NothingRead ==
    ASSUME IInv, SessionInv, [StoreNext]_storeVars, UNCHANGED got,
           \/ UNCHANGED <<phase, line>>
           \/ {phase, phase'} \cap {"findings", "ranking"} = {}
    PROVE  GotInv'
<1> USE DEF SessionInv
<1>1. CASE phase \in {"findings", "ranking"} /\ UNCHANGED <<phase, line>>
    <2>1. line.incident \in Incidents /\ line.incident' = line.incident
        BY <1>1, LineTyped DEF LineInv, Working, Phases
    <2>2. RowsOf(line.incident) # {}
        BY <1>1 DEF GotInv, Query, RowsOf
    <2>3. {r \in rows' : r.incident = line.incident} = {r \in rows : r.incident = line.incident}
        BY <2>1, <2>2, StoredForEver DEF RowsOf
    <2>4. \A table : Query(table)' = Query(table)
        BY <2>1, <2>3 DEF Query
    <2> QED
        BY <1>1, <2>4 DEF GotInv
<1>2. CASE {phase, phase'} \cap {"findings", "ranking"} = {}
    BY <1>2 DEF GotInv
<1> QED
    BY <1>1, <1>2 DEF GotInv

(* A step that decides a reply: what it says is true of the table.         *)
LEMMA ReplyDecided ==
    ASSUME IInv, SessionInv, UNCHANGED <<rows, received, replies, line>>,
           phase \in Working, phase' = "replying", got' = {}, reply'.to = Number,
           reply'.is = "snapshot" => reply'.what # {} /\ reply'.what = RowsOf(line.incident),
           reply'.is = "list" => \A c \in reply'.what : c \in Incidents /\ RowsOf(c) # {},
           reply'.is = "not found" => RowsOf(line.incident) = {}
    PROVE  GotInv' /\ ReplyInv' /\ FoundInv'
<1> USE DEF SessionInv
<1>1. \A c : RowsOf(c)' = RowsOf(c)
    BY DEF RowsOf
<1>2. received[Number] = line
    BY DEF LineInv
<1>3. \A n \in 1 .. Len(replies) : TrueReply(replies[n])'
    <2>1. \A n \in 1 .. Len(replies) : TrueReply(replies[n])
        BY DEF ReplyInv
    <2> QED
        BY <1>1, <2>1 DEF TrueReply
<1>4. TrueReply(reply)'
    BY <1>1, <1>2 DEF TrueReply
<1>5. ReplyInv'
    BY <1>3, <1>4 DEF ReplyInv
<1>6. \A n \in 1 .. Len(replies) : \A c : Tells(replies[n], c)' <=> Tells(replies[n], c)
    BY DEF Tells
<1>7. \A n \in 1 .. Len(replies) : Tells(replies[n], line.incident) => RowsOf(line.incident) # {}
    BY DEF ReplyInv, TrueReply, Tells
<1>8. FoundInv'
    <2>1. Len(replies) \in Nat
        BY DEF NumberInv, Sequence
    <2>2. \A n \in 1 .. Len(replies) : \A m \in 1 .. n - 1 : m \in 1 .. Len(replies)
        BY <2>1, Before
    <2>3. (\A n \in 1 .. Len(replies) : \A m \in 1 .. n - 1 :
              replies[n].is = "not found" =>
                  ~Tells(replies[m], received[replies[n].to].incident))'
        BY <1>6, <2>2 DEF FoundInv
    <2>4. (reply.is = "not found" =>
              \A m \in 1 .. Len(replies) : ~Tells(replies[m], line.incident))'
        BY <1>6, <1>7
    <2> QED
        BY <2>3, <2>4 DEF FoundInv
<1>9. GotInv'
    BY DEF GotInv
<1> QED
    BY <1>5, <1>8, <1>9

(* A reply is written: it comes after those it must agree with.            *)
LEMMA ReplyWritten ==
    ASSUME IInv, SessionInv, UNCHANGED storeVars, WriteReply
    PROVE  GotInv' /\ ReplyInv' /\ FoundInv'
<1> USE DEF SessionInv
<1>0. /\ phase = "replying" /\ phase' \notin {"findings", "ranking", "replying"}
      /\ UNCHANGED <<rows, received, line, got>> /\ replies' = Append(replies, reply)
    BY DEF WriteReply, After, storeVars
<1>1. /\ Len(replies) \in Nat /\ Len(replies') = Len(replies) + 1
      /\ \A n \in 1 .. Len(replies) : replies'[n] = replies[n]
      /\ replies'[Len(replies) + 1] = reply
    BY <1>0, AppendAfter DEF NumberInv, Sequence
<1>2. \A n \in 1 .. Len(replies) + 1 : n \in 1 .. Len(replies) \/ n = Len(replies) + 1
    BY <1>1, Before
<1>3. received[reply.to] = line
    BY <1>0 DEF LineInv, NumberInv, Working, Phases
<1>4. ReplyInv'
    <2>1. \A n \in 1 .. Len(replies) + 1 : TrueReply(replies'[n])
        BY <1>0, <1>1, <1>2 DEF ReplyInv
    <2>2. \A n \in 1 .. Len(replies) + 1 : TrueReply(replies[n])'
        <3>1. \A c : RowsOf(c)' = RowsOf(c)
            BY <1>0 DEF RowsOf
        <3> QED
            BY <1>0, <2>1, <3>1 DEF TrueReply
    <2> QED
        BY <1>0, <1>1, <2>2 DEF ReplyInv
<1>5. FoundInv'
    <2> SUFFICES ASSUME NEW n \in 1 .. Len(replies) + 1, NEW m \in 1 .. n - 1,
                        replies'[n].is = "not found"
                 PROVE  ~Tells(replies[m], received[replies[n].to].incident)'
        BY <1>0, <1>1 DEF FoundInv
    <2>1. m \in 1 .. Len(replies)
        BY <1>1, Before
    <2>2. ~Tells(replies[m], received[replies'[n].to].incident)
        BY <1>0, <1>1, <1>2, <1>3, <2>1 DEF FoundInv
    <2>3. replies'[m] = replies[m]
        BY <1>1, <2>1
    <2> QED
        BY <1>0, <2>2, <2>3 DEF Tells
<1>6. GotInv'
    BY <1>0 DEF GotInv
<1> QED
    BY <1>4, <1>5, <1>6

(* The reads of a call: one that finds nothing finds nothing stored, and   *)
(* the three of a snapshot together return all that is stored.             *)
LEMMA CallStep ==
    ASSUME IInv, RowsInv, SessionInv, UNCHANGED storeVars,
           ListIncidents \/ ReadFails \/ ReadIncident \/ ReadFindings \/ ReadRanking
    PROVE  GotInv' /\ ReplyInv' /\ FoundInv'
<1> USE DEF SessionInv
<1>0. /\ phase \in Working /\ UNCHANGED <<rows, received, replies, line>>
      /\ [StoreNext]_storeVars /\ line.incident \in Incidents
    <2>1. phase \in Working /\ UNCHANGED <<rows, received, replies, line>>
        BY DEF ListIncidents, ReadFails, ReadIncident, ReadFindings, ReadRanking, Reading,
           QueryUnchanged, storeVars, Working, Phases
    <2> QED
        BY <2>1, LineTyped DEF LineInv
<1>1. \A table : Query(table)' = Query(table)
    BY <1>0 DEF Query
<1>2. CASE ListIncidents
    <2>1. /\ phase' = "replying" /\ reply'.to = Number /\ reply'.is = "list"
          /\ reply'.what = {r.incident : r \in {q \in rows : q.table = "incidents"}}
          /\ got' = {}
        BY <1>2 DEF ListIncidents, Done, GotInv
    <2>2. \A r \in rows : r.incident \in Incidents /\ RowsOf(r.incident) # {}
        BY SnapshotRows, DiagnosisAssumption DEF RowsInv, RowsOf
    <2> QED
        BY <1>0, <2>1, <2>2, ReplyDecided
<1>3. CASE ReadFails
    BY <1>0, <1>3, ReplyDecided DEF ReadFails, Done
<1>4. CASE ReadIncident /\ Query("incidents") = {}
    <2>1. RowsOf(line.incident) = {}
        BY <1>0, <1>4, ThreeTables
    <2>2. /\ phase' = "replying" /\ reply'.to = Number /\ reply'.is = "not found"
          /\ got' = {}
        <3>1. phase = "incident" /\ Done("not found", {}, TRUE) /\ got' = got
            BY <1>4 DEF ReadIncident
        <3> QED
            BY <3>1 DEF Done, GotInv
    <2> QED
        BY <1>0, <2>1, <2>2, ReplyDecided
<1>5. CASE ReadIncident /\ Query("incidents") # {}
    <2>1. phase' = "findings" /\ got' = Query("incidents")
        BY <1>5 DEF ReadIncident
    <2> QED
        BY <1>0, <1>1, <1>5, <2>1, NothingAnswered DEF GotInv
<1>6. CASE ReadFindings
    <2>1. phase = "findings" /\ phase' = "ranking" /\ got' = got \cup Query("findings")
        BY <1>6 DEF ReadFindings
    <2> QED
        BY <1>0, <1>1, <2>1, NothingAnswered DEF GotInv
<1>7. CASE ReadRanking
    <2>1. /\ phase = "ranking" /\ phase' = "replying" /\ got' = {} /\ reply'.to = Number
          /\ reply'.is = "snapshot" /\ reply'.what = got \cup Query("ranking_results")
        BY <1>7 DEF ReadRanking, Done
    <2>2. reply'.what = RowsOf(line.incident) /\ reply'.what # {}
        BY <1>0, <2>1, ThreeTables DEF GotInv
    <2> QED
        BY <1>0, <2>1, <2>2, ReplyDecided
<1> QED
    BY <1>2, <1>3, <1>4, <1>5, <1>6, <1>7

(* The dispatch of a line: a notification, an error, or a read of the      *)
(* store.                                                                  *)
LEMMA HandleStep ==
    ASSUME IInv, RowsInv, SessionInv, UNCHANGED storeVars, Handle
    PROVE  GotInv' /\ ReplyInv' /\ FoundInv'
<1> USE DEF SessionInv
<1>0. /\ phase = "handling" /\ phase \in Working /\ got = {} /\ got' = {}
      /\ UNCHANGED <<rows, received, replies, line>> /\ [StoreNext]_storeVars
    BY DEF Handle, storeVars, Working, Phases, GotInv
<1>1. CASE phase' # "replying"
    <2>1. phase' \in {"handled", "list", "incident"}
        BY <1>1 DEF Handle, Done
    <2> QED
        BY <1>0, <2>1, NothingAnswered DEF GotInv
<1>2. CASE phase' = "replying"
    <2>1. reply'.to = Number /\ reply'.is \in {"ok", "error"}
        BY <1>2 DEF Handle, Done
    <2> QED
        BY <1>0, <1>2, <2>1, ReplyDecided
<1> QED
    BY <1>1, <1>2

(* Every step keeps what the session said true of the store.               *)
LEMMA SessionStep == IInv /\ RowsInv /\ SessionInv /\ [Next]_vars => SessionInv'
<1> SUFFICES ASSUME IInv, RowsInv, SessionInv, [Next]_vars PROVE SessionInv'
    OBVIOUS
<1>1. LineInv' /\ NumberInv'
    BY LineStep, NumberStep DEF SessionInv
<1>2. GotInv' /\ ReplyInv' /\ FoundInv'
    <2>0. [StoreNext]_storeVars
        BY DEF Next, vars
    <2>1. CASE UNCHANGED mcpVars
        <3>1. UNCHANGED <<got, phase, line, replies, reply>> /\ received' = received
            BY <2>1 DEF mcpVars
        <3> QED
            BY <2>0, <3>1, NothingAnswered, NothingRead
    <2>2. CASE UNCHANGED storeVars
               /\ (ListIncidents \/ ReadFails \/ ReadIncident \/ ReadFindings \/ ReadRanking)
        BY <2>2, CallStep
    <2>3. CASE UNCHANGED storeVars /\ Handle
        BY <2>3, HandleStep
    <2>4. CASE UNCHANGED storeVars /\ WriteReply
        BY <2>4, ReplyWritten
    <2>5. CASE Top \/ ReadPiece \/ NothingToWrite \/ Close \/ WriteFails
        <3>1. /\ UNCHANGED <<got, replies>> /\ received' = received
              /\ {phase, phase'} \cap {"findings", "ranking"} = {} /\ phase' # "replying"
            BY <2>5 DEF Top, ReadPiece, NothingToWrite, After, Close, WriteFails
        <3> QED
            BY <2>0, <3>1, NothingAnswered, NothingRead
    <2>6. CASE Cancel
        <3>1. UNCHANGED <<got, phase, line, replies, reply>> /\ received' = received
            BY <2>6 DEF Cancel
        <3> QED
            BY <2>0, <3>1, NothingAnswered, NothingRead
    <2>7. ASSUME NEW l \in Lines, Write(l) PROVE GotInv' /\ ReplyInv' /\ FoundInv'
        <3>1. /\ UNCHANGED <<got, replies>> /\ received' = Append(received, l)
              /\ {phase, phase'} \cap {"findings", "ranking"} = {} /\ phase' # "replying"
            BY <2>7 DEF Write
        <3>2. \A n \in 1 .. Number : received'[n] = received[n]
            BY <3>1, AppendAfter DEF SessionInv, LineInv, Number
        <3> QED
            BY <2>0, <3>1, <3>2, NothingAnswered, NothingRead
    <2> QED
        BY <2>1, <2>2, <2>3, <2>4, <2>5, <2>6, <2>7 DEF Next, Session, Serve, Client, vars
<1> QED
    BY <1>1, <1>2 DEF SessionInv

(* The session keeps its invariant, beside a storage that keeps its own.   *)
THEOREM SessionInvariance == Spec => [](IInv /\ RowsInv /\ SessionInv)
<1>1. Init => IInv /\ RowsInv /\ SessionInv
    <2> SUFFICES ASSUME Init PROVE IInv /\ RowsInv /\ SessionInv
        OBVIOUS
    <2>1. IInv
        BY InitEstablishes DEF Init
    <2>2. RowsInv
        BY DEF Init, StoreInit, RowsInv
    <2>3. LineInv /\ NumberInv
        <3>1. Sequence(<<>>) /\ Len(<<>>) = 0
            BY DEF Sequence
        <3>2. 0 \in 0 .. MaxPieces
            BY McpAssumption
        <3> QED
            BY <3>1, <3>2
               DEF Init, McpInit, LineInv, NumberInv, Phases, Working, None, Number
    <2>4. GotInv /\ ReplyInv /\ FoundInv
        BY DEF Init, McpInit, GotInv, ReplyInv, FoundInv
    <2> QED
        BY <2>1, <2>2, <2>3, <2>4 DEF SessionInv
<1>2. IInv /\ RowsInv /\ SessionInv /\ [Next]_vars => (IInv /\ RowsInv /\ SessionInv)'
    <2>1. [Next]_vars => [StoreNext]_storeVars
        BY DEF Next, vars
    <2> QED
        BY <2>1, StepKeeps, RowsKept, SessionStep
<1> QED
    BY <1>1, <1>2, PTL DEF Spec

(* The session is well typed: no line is kept beyond the ceiling, and what *)
(* was read is stored.                                                     *)
THEOREM SessionTypeCorrect == Spec => []TypeOK
<1>1. IInv /\ RowsInv /\ SessionInv /\ StoreTypeOK => TypeOK
    <2> SUFFICES ASSUME IInv, RowsInv, SessionInv, StoreTypeOK PROVE TypeOK
        OBVIOUS
    <2>1. got \subseteq rows
        BY DEF SessionInv, GotInv, LineInv, Phases, Query
    <2>2. unread \in Nat
        <3>1. CASE phase = "reading"
            <4>1. line \in Lines /\ unread \in 1 .. line.pieces
                BY <3>1 DEF SessionInv, LineInv, Working, Phases
            <4> QED
                BY <4>1, LineTyped
        <3> QED
            BY <3>1 DEF SessionInv, LineInv
    <2>3. DOMAIN replies = 1 .. Len(replies) /\ DOMAIN audit = 1 .. Len(audit)
        BY DEF SessionInv, NumberInv, Sequence
    <2> QED
        BY <2>1, <2>2, <2>3 DEF TypeOK, SessionInv, LineInv, NumberInv, Phases
<1> QED
    BY <1>1, SessionInvariance, SessionRefinesStore, StoreTypeCorrect, PTL

(* What the session answers of an incident is one whole investigation, the *)
(* same every time, and an incident once told is never "not found" again.  *)
THEOREM SessionAnswersAgree == Spec => []AnswersAgree
<1>1. IInv /\ RowsInv /\ SessionInv => AnswersAgree
    <2> SUFFICES ASSUME IInv, RowsInv, SessionInv, NEW n \in DOMAIN replies
                 PROVE  /\ replies[n].is = "snapshot" =>
                              \E i \in Investigations :
                                /\ IncidentOf[i] = received[replies[n].to].incident
                                /\ replies[n].what = Snapshot(i)
                        /\ \A m \in 1 .. n - 1 :
                              /\ Tells(replies[m], received[replies[n].to].incident)
                                    => replies[n].is # "not found"
                              /\ replies[m].is = "snapshot" /\ replies[n].is = "snapshot"
                                   /\ received[replies[m].to].incident
                                        = received[replies[n].to].incident
                                 => replies[m].what = replies[n].what
        BY DEF AnswersAgree, Tells
    <2>1. n \in 1 .. Len(replies) /\ Len(replies) \in Nat
        BY DEF SessionInv, NumberInv, Sequence
    <2>2. \A m \in 1 .. n - 1 : m \in 1 .. Len(replies)
        BY <2>1, Before
    <2>3. received[replies[n].to].incident \in Incidents
        BY <2>1, LineTyped DEF SessionInv, LineInv, NumberInv
    <2>4. \A m \in 1 .. Len(replies) : replies[m].is = "snapshot" =>
              /\ replies[m].what # {}
              /\ replies[m].what = RowsOf(received[replies[m].to].incident)
        BY DEF SessionInv, ReplyInv, TrueReply
    <2>5. replies[n].is = "snapshot" =>
              \E i \in Investigations : Author(received[replies[n].to].incident, i)
        BY <2>1, <2>3, <2>4 DEF IInv, WholeInv
    <2> QED
        BY <2>1, <2>2, <2>4, <2>5 DEF Author, SessionInv, FoundInv
<1> QED
    BY <1>1, SessionInvariance, PTL

-----------------------------------------------------------------------------
(* The lines whose answer is settled: all but the one being worked on.     *)
Settled == IF phase \in Working THEN 1 .. Number - 1 ELSE 1 .. Number

Answered == [n \in DOMAIN replies |-> replies[n].to]

(* The call being answered is in the trail before its reply is out.        *)
Trailed == IF phase = "replying" /\ Audited(line) /\ ~Unreadable(line) THEN {Number} ELSE {}

(* Replies and trail are those of the settled lines, and what is done with *)
(* the line in hand follows from what it is.                               *)
OrderInv ==
    phase # "ended" =>
        /\ Numbers(Answered, {n \in Settled : ~NoReply(received[n])})
        /\ Numbers(audit, {n \in Settled : Audited(received[n])} \cup Trailed)
        /\ phase = "handled" => NoReply(line)
        /\ phase = "replying" => ~NoReply(line)
        /\ phase \in {"list", "incident", "findings", "ranking"} =>
              ~NoReply(line) /\ ~Unreadable(line) /\ line.kind \in {"list", "get"}

(* A number above all others goes at the end.                              *)
LEMMA NumbersAppend ==
    ASSUME NEW s, Sequence(s), NEW wanted, Numbers(s, wanted), NEW k \in Nat,
           wanted \subseteq 1 .. k - 1
    PROVE  Numbers(Append(s, k), wanted \cup {k})
<1>1. /\ DOMAIN s = 1 .. Len(s) /\ Len(s) \in Nat
      /\ DOMAIN Append(s, k) = 1 .. Len(s) + 1
      /\ \A n \in 1 .. Len(s) : Append(s, k)[n] = s[n]
      /\ Append(s, k)[Len(s) + 1] = k
    BY AppendAfter DEF Sequence
<1>2. \A n \in 1 .. Len(s) + 1 : n \in 1 .. Len(s) \/ n = Len(s) + 1
    BY <1>1, Before
<1>3. \A n \in 1 .. Len(s) : s[n] \in wanted
    BY <1>1 DEF Numbers, Range
<1>4. \A m, n \in 1 .. Len(s) + 1 : m < n => Append(s, k)[m] < Append(s, k)[n]
    <2> SUFFICES ASSUME NEW m \in 1 .. Len(s) + 1, NEW n \in 1 .. Len(s) + 1, m < n
                 PROVE  Append(s, k)[m] < Append(s, k)[n]
        OBVIOUS
    <2>1. m \in 1 .. Len(s)
        BY <1>1
    <2>2. CASE n \in 1 .. Len(s)
        BY <1>1, <2>1, <2>2 DEF Numbers
    <2>3. CASE n = Len(s) + 1
        <3>1. s[m] \in 1 .. k - 1
            BY <1>3, <2>1
        <3> QED
            BY <1>1, <2>1, <2>3, <3>1
    <2> QED
        BY <1>2, <2>2, <2>3
<1>5. Range(Append(s, k)) = wanted \cup {k}
    <2>1. Range(s) = {s[n] : n \in 1 .. Len(s)} /\ Range(s) = wanted
        BY <1>1 DEF Numbers, Range
    <2>2. Range(Append(s, k)) = {Append(s, k)[n] : n \in 1 .. Len(s) + 1}
        BY <1>1 DEF Range
    <2>3. {Append(s, k)[n] : n \in 1 .. Len(s) + 1} = {s[n] : n \in 1 .. Len(s)} \cup {k}
        <3>1. 1 .. Len(s) + 1 = 1 .. Len(s) \cup {Len(s) + 1}
            BY <1>1
        <3> QED
            BY <1>1, <3>1
    <2> QED
        BY <2>1, <2>2, <2>3
<1> QED
    BY <1>1, <1>4, <1>5 DEF Numbers

(* A step that neither answers nor settles a line.                         *)
LEMMA NothingSettled ==
    ASSUME OrderInv, UNCHANGED <<replies, audit, received>>, phase # "ended",
           phase' \in Phases,
           \/ UNCHANGED <<phase, line>>
           \/ phase # "replying" /\ phase' \notin {"replying", "handled", "ended"}
                /\ (phase \in Working <=> phase' \in Working)
                /\ (phase' \in {"list", "incident", "findings", "ranking"} =>
                      ~NoReply(line') /\ ~Unreadable(line') /\ line'.kind \in {"list", "get"})
           \/ phase = "handling" /\ phase' = "handled" /\ NoReply(line')
    PROVE  OrderInv'
<1>0. phase \in Working <=> phase' \in Working
    BY DEF Working, Phases
<1>1. Settled' = Settled /\ Answered' = Answered /\ Number' = Number
    BY <1>0 DEF Settled, Answered, Number
<1>2. Trailed' = Trailed
    BY <1>1 DEF Trailed, Working
<1> QED
    BY <1>1, <1>2 DEF OrderInv

(* A reply is decided; a call that was understood is in the trail at once. *)
LEMMA DecidedSettles ==
    ASSUME LineInv, NumberInv, OrderInv, UNCHANGED <<replies, received, line>>,
           phase \in Working \ {"replying"}, phase' = "replying", ~NoReply(line),
           NEW trail \in BOOLEAN, trail <=> Audited(line) /\ ~Unreadable(line),
           audit' = IF trail THEN Append(audit, Number) ELSE audit
    PROVE  OrderInv'
<1>1. /\ Settled = 1 .. Number - 1 /\ Settled' = Settled /\ Answered' = Answered
      /\ Number' = Number /\ Number \in Nat \ {0} /\ Trailed = {} /\ phase # "ended"
    BY DEF Settled, Answered, Number, Working, Phases, LineInv, Trailed
<1>2. Numbers(Answered, {n \in Settled : ~NoReply(received[n])})'
    BY <1>1 DEF OrderInv
<1>3. Numbers(audit, {n \in Settled : Audited(received[n])})
    BY <1>1 DEF OrderInv
<1>4. Numbers(audit', {n \in Settled : Audited(received[n])} \cup Trailed')
    <2>1. CASE trail
        <3>1. Trailed' = {Number} /\ audit' = Append(audit, Number)
            BY <1>1, <2>1 DEF Trailed
        <3>2. Sequence(audit) /\ Number \in Nat
            BY <1>1 DEF NumberInv
        <3>3. {n \in Settled : Audited(received[n])} \subseteq 1 .. Number - 1
            BY <1>1
        <3> QED
            BY <1>3, <3>1, <3>2, <3>3, NumbersAppend
    <2>2. CASE ~trail
        BY <1>3, <2>2 DEF Trailed
    <2> QED
        BY <2>1, <2>2
<1> QED
    BY <1>1, <1>2, <1>4 DEF OrderInv

(* With the answer, or without one, the line is settled.                   *)
LEMMA LastSettled ==
    ASSUME LineInv, phase \in Working
    PROVE  /\ 1 .. Number = Settled \cup {Number} /\ Settled = 1 .. Number - 1
           /\ Number \in Nat /\ received[Number] = line
    BY DEF LineInv, Settled

(* A reply written settles its line: the next is behind it.                *)
LEMMA ReplySettles ==
    ASSUME LineInv, NumberInv, OrderInv, WriteReply, phase' # "ended"
    PROVE  OrderInv'
<1>1. /\ phase = "replying" /\ phase \in Working /\ phase' = "top"
      /\ UNCHANGED <<received, line>> /\ replies' = Append(replies, reply)
      /\ audit' = IF Unreadable(line) THEN Append(audit, Number) ELSE audit
      /\ ~NoReply(line) /\ reply.to = Number /\ Number' = Number
    BY DEF WriteReply, After, Working, Phases, OrderInv, NumberInv, Number
<1>2. /\ Settled' = Settled \cup {Number} /\ Settled \subseteq 1 .. Number - 1
      /\ Number \in Nat /\ received[Number] = line /\ Trailed' = {}
    BY <1>1, LastSettled DEF Settled, Working, Trailed
<1>3. Numbers(Answered', {n \in Settled' : ~NoReply(received[n])})
    <2>1. {n \in Settled' : ~NoReply(received[n])}
            = {n \in Settled : ~NoReply(received[n])} \cup {Number}
        BY <1>1, <1>2
    <2>2. Sequence(Answered) /\ Numbers(Answered, {n \in Settled : ~NoReply(received[n])})
        BY <1>1 DEF OrderInv, Answered, NumberInv, Sequence
    <2>3. Answered' = Append(Answered, Number)
        <3>1. /\ Len(replies) \in Nat /\ DOMAIN replies = 1 .. Len(replies)
              /\ DOMAIN replies' = 1 .. Len(replies) + 1
              /\ \A n \in 1 .. Len(replies) : replies'[n] = replies[n]
              /\ replies'[Len(replies) + 1] = reply
            BY <1>1, AppendAfter DEF NumberInv, Sequence
        <3>2. Len(Answered) = Len(replies)
            BY <3>1 DEF Answered
        <3>3. /\ DOMAIN Append(Answered, Number) = 1 .. Len(replies) + 1
              /\ \A n \in 1 .. Len(replies) : Append(Answered, Number)[n] = replies[n].to
              /\ Append(Answered, Number)[Len(replies) + 1] = Number
              /\ Sequence(Append(Answered, Number))
            BY <2>2, <3>1, <3>2, AppendAfter DEF Answered
        <3>4. \A n \in 1 .. Len(replies) + 1 : n \in 1 .. Len(replies) \/ n = Len(replies) + 1
            BY <3>1, Before
        <3>5. \A n \in 1 .. Len(replies) + 1 : replies'[n].to = Append(Answered, Number)[n]
            BY <1>1, <3>1, <3>3, <3>4
        <3>6. Append(Answered, Number)
                = [n \in 1 .. Len(replies) + 1 |-> Append(Answered, Number)[n]]
            BY <3>3 DEF Sequence
        <3>7. Answered' = [n \in 1 .. Len(replies) + 1 |-> replies'[n].to]
            BY <3>1 DEF Answered
        <3> QED
            BY <3>5, <3>6, <3>7
    <2>4. {n \in Settled : ~NoReply(received[n])} \subseteq 1 .. Number - 1
        BY <1>2
    <2> QED
        BY <1>2, <2>1, <2>2, <2>3, <2>4, NumbersAppend
<1>4. Numbers(audit', {n \in Settled' : Audited(received[n])})
    <2>1. Numbers(audit, {n \in Settled : Audited(received[n])} \cup Trailed)
        BY <1>1 DEF OrderInv
    <2>2. CASE Unreadable(line)
        <3>1. Trailed = {} /\ Audited(line)
            BY <1>1, <2>2 DEF Trailed, Audited
        <3>2. {n \in Settled' : Audited(received[n])}
                = {n \in Settled : Audited(received[n])} \cup {Number}
            BY <1>1, <1>2, <3>1
        <3>3. Numbers(audit, {n \in Settled : Audited(received[n])}) /\ Sequence(audit)
            BY <2>1, <3>1 DEF NumberInv
        <3>4. {n \in Settled : Audited(received[n])} \subseteq 1 .. Number - 1
            BY <1>2
        <3> QED
            BY <1>1, <1>2, <2>2, <3>2, <3>3, <3>4, NumbersAppend
    <2>3. CASE ~Unreadable(line)
        <3>1. {n \in Settled' : Audited(received[n])}
                = {n \in Settled : Audited(received[n])} \cup Trailed
            BY <1>1, <1>2, <2>3 DEF Trailed
        <3> QED
            BY <1>1, <2>1, <2>3, <3>1
    <2> QED
        BY <2>2, <2>3
<1> QED
    BY <1>1, <1>2, <1>3, <1>4 DEF OrderInv

(* So does a line that has none.                                           *)
LEMMA SilenceSettles ==
    ASSUME LineInv, NumberInv, OrderInv, NothingToWrite, phase' # "ended"
    PROVE  OrderInv'
<1>1. /\ phase = "handled" /\ phase \in Working /\ phase' = "top"
      /\ UNCHANGED <<received, line, replies, audit>> /\ NoReply(line)
      /\ Answered' = Answered /\ Number' = Number
    BY DEF NothingToWrite, After, Working, Phases, OrderInv, Number, Answered
<1>2. /\ Settled' = Settled \cup {Number} /\ received[Number] = line
      /\ Trailed = {} /\ Trailed' = {}
    BY <1>1, LastSettled DEF Settled, Working, Trailed
<1>3. ~Audited(line)
    BY <1>1 DEF Audited
<1>4. /\ {n \in Settled' : ~NoReply(received[n])} = {n \in Settled : ~NoReply(received[n])}
      /\ {n \in Settled' : Audited(received[n])} = {n \in Settled : Audited(received[n])}
    BY <1>1, <1>2, <1>3
<1> QED
    BY <1>1, <1>2, <1>4 DEF OrderInv

(* The next line is in hand; those before it are settled.                  *)
LEMMA WriteSettles ==
    ASSUME LineInv, NumberInv, OrderInv, NEW l \in Lines, Write(l)
    PROVE  OrderInv'
<1>1. /\ phase = "input" /\ phase \notin Working /\ phase # "ended"
      /\ phase' = "reading" /\ phase' \in Working
      /\ UNCHANGED <<replies, audit>> /\ received' = Append(received, l)
    BY DEF Write, Working, Phases
<1>2. /\ Number \in Nat /\ Number' = Number + 1
      /\ \A n \in 1 .. Number : received'[n] = received[n]
    BY <1>1, AppendAfter DEF LineInv, Number, Sequence
<1>3. Settled = 1 .. Number /\ Settled' = 1 .. Number /\ Trailed = {} /\ Trailed' = {}
    <2>1. Settled = 1 .. Number /\ Trailed = {} /\ Trailed' = {}
        BY <1>1 DEF Settled, Trailed
    <2>2. Settled' = 1 .. Number' - 1
        BY <1>1 DEF Settled
    <2>3. Number' - 1 = Number
        BY <1>2
    <2> QED
        BY <2>1, <2>2, <2>3
<1>4. Answered' = Answered
    BY <1>1 DEF Answered
<1>5. /\ {n \in Settled' : ~NoReply(received'[n])} = {n \in Settled : ~NoReply(received[n])}
      /\ {n \in Settled' : Audited(received'[n])} = {n \in Settled : Audited(received[n])}
    BY <1>2, <1>3
<1> QED
    BY <1>1, <1>3, <1>4, <1>5 DEF OrderInv

(* A line is handled: it is answered, or read further, or passed over.     *)
LEMMA HandleSettles ==
    ASSUME LineInv, NumberInv, OrderInv, Handle
    PROVE  OrderInv'
<1>1. /\ phase = "handling" /\ UNCHANGED <<line, replies, received>>
      /\ phase \in Working \ {"replying"} /\ phase # "ended"
    BY DEF Handle, Working, Phases
<1>2. CASE NoReply(line) /\ phase' = "handled" /\ UNCHANGED <<reply, audit>>
    BY <1>1, <1>2, NothingSettled DEF Phases
<1>3. CASE /\ ~NoReply(line) /\ (Unreadable(line) \/ line.kind \in {"method", "badCall"})
           /\ Done(IF line.kind = "method" /\ ~Unreadable(line) THEN "ok" ELSE "error", {},
                   ~Unreadable(line) /\ line.kind = "badCall")
    <2> DEFINE trail == ~Unreadable(line) /\ line.kind = "badCall"
    <2>1. trail \in BOOLEAN /\ (trail <=> Audited(line) /\ ~Unreadable(line))
        BY <1>3 DEF Audited
    <2>2. phase' = "replying" /\ audit' = IF trail THEN Append(audit, Number) ELSE audit
        BY <1>3 DEF Done
    <2> HIDE DEF trail
    <2> QED
        BY <1>1, <1>3, <2>1, <2>2, DecidedSettles
<1>4. CASE /\ ~NoReply(line) /\ ~Unreadable(line) /\ line.kind \in {"list", "get"}
           /\ phase' = (IF line.kind = "list" THEN "list" ELSE "incident")
           /\ UNCHANGED <<reply, audit>>
    <2>1. /\ phase' \in {"list", "incident"} /\ phase' \in Phases
          /\ phase \in Working /\ phase' \in Working
        BY <1>1, <1>4 DEF Phases, Working
    <2>2. ~NoReply(line') /\ ~Unreadable(line') /\ line'.kind \in {"list", "get"}
        BY <1>1, <1>4
    <2> QED
        BY <1>1, <1>4, <2>1, <2>2, NothingSettled
<1> QED
    BY <1>2, <1>3, <1>4 DEF Handle

(* A call reads on, or is answered and is in the trail.                    *)
LEMMA CallSettles ==
    ASSUME LineInv, NumberInv, OrderInv,
           ListIncidents \/ ReadFails \/ ReadIncident \/ ReadFindings \/ ReadRanking
    PROVE  OrderInv'
<1>1. /\ phase \in {"list", "incident", "findings", "ranking"}
      /\ UNCHANGED <<line, replies, received>>
    BY DEF ListIncidents, ReadFails, Reading, ReadIncident, ReadFindings, ReadRanking,
           QueryUnchanged
<1>2. /\ phase \in Working \ {"replying"} /\ phase # "ended"
      /\ ~NoReply(line) /\ ~Unreadable(line) /\ line.kind \in {"list", "get"}
    BY <1>1 DEF Working, Phases, OrderInv
<1>3. \/ phase' = "replying" /\ audit' = Append(audit, Number)
      \/ phase' \in {"findings", "ranking"} /\ audit' = audit
    BY DEF ListIncidents, ReadFails, ReadIncident, ReadFindings, ReadRanking, Done
<1>4. CASE phase' = "replying" /\ audit' = Append(audit, Number)
    <2>1. Audited(line)
        BY <1>2 DEF Audited
    <2>2. /\ TRUE \in BOOLEAN /\ (TRUE <=> Audited(line) /\ ~Unreadable(line))
          /\ audit' = IF TRUE THEN Append(audit, Number) ELSE audit
        BY <1>2, <1>4, <2>1
    <2> QED
        BY <1>1, <1>2, <1>4, <2>2, DecidedSettles
<1>5. CASE phase' \in {"findings", "ranking"} /\ audit' = audit
    <2>1. phase' \in Phases /\ phase' \in Working /\ phase \in Working
        BY <1>2, <1>5 DEF Phases, Working
    <2>2. ~NoReply(line') /\ ~Unreadable(line') /\ line'.kind \in {"list", "get"}
        BY <1>1, <1>2
    <2> QED
        BY <1>1, <1>2, <1>5, <2>1, <2>2, NothingSettled
<1> QED
    BY <1>3, <1>4, <1>5

(* Every step keeps replies in the order of their lines.                   *)
LEMMA OrderStep == LineInv /\ NumberInv /\ OrderInv /\ [Next]_vars => OrderInv'
<1> SUFFICES ASSUME LineInv, NumberInv, OrderInv, [Next]_vars, phase' # "ended"
             PROVE  OrderInv'
    BY DEF OrderInv
<1>0. phase' \in Phases
    BY LineStep DEF LineInv
<1>1. CASE UNCHANGED mcpVars \/ Cancel
    <2>1. UNCHANGED <<phase, line, replies, audit, received>>
        BY <1>1 DEF mcpVars, Cancel
    <2> QED
        BY <1>0, <2>1, NothingSettled
<1>2. CASE Top
    <2>1. /\ phase = "top" /\ phase' = "input" /\ UNCHANGED <<replies, audit, received>>
        BY <1>2 DEF Top, LineInv
    <2>2. phase \notin Working /\ phase' \notin Working
        BY <2>1 DEF Working
    <2> QED
        BY <1>0, <2>1, <2>2, NothingSettled
<1>3. CASE ReadPiece
    <2>1. /\ phase = "reading" /\ phase' \in {"reading", "handling"}
          /\ UNCHANGED <<replies, audit, received>>
        BY <1>3 DEF ReadPiece
    <2>2. phase \in Working /\ phase' \in Working
        BY <2>1 DEF Working, Phases
    <2> QED
        BY <1>0, <2>1, <2>2, NothingSettled
<1>4. CASE Close \/ WriteFails
    BY <1>4 DEF Close, WriteFails
<1> QED
    BY <1>1, <1>2, <1>3, <1>4, WriteSettles, HandleSettles, CallSettles, ReplySettles,
       SilenceSettles DEF Next, Session, Serve, Client, vars

(* Whenever the session comes back to its input, every line that asks for  *)
(* an answer has had exactly one, in order, and the trail agrees.          *)
THEOREM SessionRepliesOncePerLine == Spec => []OneReplyPerLine
<1>1. Init => OrderInv
    <2> SUFFICES ASSUME Init PROVE OrderInv
        OBVIOUS
    <2>1. phase = "top" /\ replies = <<>> /\ audit = <<>> /\ received = <<>>
        BY DEF Init, McpInit
    <2>2. Number = 0 /\ Settled = {} /\ Trailed = {}
        BY <2>1 DEF Number, Settled, Working, Trailed
    <2>3. Numbers(Answered, {}) /\ Numbers(audit, {})
        BY <2>1 DEF Numbers, Answered, Range
    <2> QED
        BY <2>1, <2>2, <2>3 DEF OrderInv
<1>2. LineInv /\ OrderInv => OneReplyPerLine
    <2> SUFFICES ASSUME LineInv, OrderInv, phase \in {"top", "input"}
                 PROVE  /\ Numbers(Answered, {n \in 1 .. Number : ~NoReply(received[n])})
                        /\ Numbers(audit, {n \in 1 .. Number : Audited(received[n])})
        BY DEF OneReplyPerLine, Answered
    <2>1. Settled = 1 .. Number /\ Trailed = {}
        BY DEF Settled, Working, Trailed
    <2> QED
        BY <2>1 DEF OrderInv
<1>3. SessionInv /\ OrderInv /\ [Next]_vars => OrderInv'
    BY OrderStep DEF SessionInv
<1>4. SessionInv => LineInv
    BY DEF SessionInv
<1> QED
    BY <1>1, <1>2, <1>3, <1>4, SessionInvariance, PTL DEF Spec

=============================================================================
