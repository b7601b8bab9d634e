---------------------------- MODULE SchemaProofs ----------------------------
(***************************************************************************)
(* Proofs about SchemaCatalog, and about what SchemaProximity makes of it: *)
(* the state is well typed, the changes kept explain what differs between  *)
(* two collections, and no change is invented although a collection reads  *)
(* the catalog at three moments, under privileges that come and go.        *)
(***************************************************************************)
EXTENDS SchemaProximity, WellFoundedInduction, TLAPS

(* A set of naturals that is not empty has a least element.                *)
LEMMA LeastOf ==
    ASSUME NEW T, T \subseteq Nat, T # {}
    PROVE  \E x \in T : \A y \in T : x <= y
<1>1. PICK x \in T : \A y \in T : ~(<<y, x>> \in OpToRel(<, Nat))
    <2>1. \E x \in T : \A y \in T : ~(<<y, x>> \in OpToRel(<, Nat))
        BY NatLessThanWellFounded, WFMin
    <2> QED
        BY <2>1
<1>2. \A y \in T : x <= y
    <2> SUFFICES ASSUME NEW y \in T, y < x PROVE FALSE
        OBVIOUS
    <2>1. <<y, x>> \in OpToRel(<, Nat)
        BY DEF OpToRel
    <2> QED
        BY <1>1, <2>1
<1> QED
    BY <1>2

-----------------------------------------------------------------------------
(* The state is well typed.                                                *)
LEMMA ValuesTyped ==
    ASSUME NEW o \in Objects
    PROVE  Values(o) \subseteq Nat /\ Absent \in Nat
BY CatalogAssumption DEF Values, Absent

(* What the catalog shows of an object is a value, or its absence.         *)
LEMMA ShownTyped ==
    ASSUME TypeOK, NEW o \in Objects
    PROVE  Shown(o) \in Nat
BY DEF Shown, TypeOK, Contents, Absent

(* An empty content is a content.                                          *)
LEMMA NothingTyped == Nothing \in Contents
BY DEF Nothing, Contents, Absent

(* What one query changes of what its collection saw.                      *)
LEMMA ClassRead ==
    ASSUME TypeOK, NEW c \in Collections, NEW kind, ReadClass(c, kind)
    PROVE  /\ seen' \in [Collections -> Contents]
           /\ \A d \in Collections \ {c} : seen'[d] = seen[d]
           /\ \A o \in Objects :
                 seen'[c][o] = IF Kind[o] = kind THEN Shown(o) ELSE seen[c][o]
<1> DEFINE new == [o \in Objects |-> IF Kind[o] = kind THEN Shown(o) ELSE seen[c][o]]
<1>1. seen' = [seen EXCEPT ![c] = new]
    BY DEF ReadClass
<1>2. new \in Contents
    BY ShownTyped DEF TypeOK, Contents
<1>3. \A o \in Objects : new[o] = IF Kind[o] = kind THEN Shown(o) ELSE seen[c][o]
    OBVIOUS
<1> HIDE DEF new
<1> QED
    BY <1>1, <1>2, <1>3 DEF TypeOK

(* A change names an object and what became of it.                         *)
LEMMA DiffTyped ==
    ASSUME NEW p \in Collections, NEW c \in Collections
    PROVE  Diff(p, c) \subseteq Changes
BY DEF Diff, Changes, ChangeKind

(* Every step keeps the types.                                             *)
LEMMA TypeStep == TypeOK /\ [Next]_vars => TypeOK'
<1> SUFFICES ASSUME TypeOK, [Next]_vars PROVE TypeOK'
    OBVIOUS
<1>1. CASE UNCHANGED vars
    BY <1>1 DEF vars, base, reading, saving, tables, TypeOK
<1>2. CASE Tick
    BY <1>2 DEF Tick, base, reading, saving, tables, TypeOK
<1>3. ASSUME NEW o \in Objects, NEW v \in Values(o), Migrate(o, v) PROVE TypeOK'
    <2> DEFINE next == [schema EXCEPT ![o] = v]
               kept == IF HasColumn(next) THEN next ELSE Nothing
    <2>1. next \in Contents /\ kept \in Contents
        BY ValuesTyped, NothingTyped DEF TypeOK, Contents
    <2>2. /\ schema' = kept
          /\ migrations' = migrations \cup
                {[object |-> x, at |-> clock] : x \in {y \in Objects : kept[y] # schema[y]}}
          /\ UNCHANGED <<visible, regrants, clock, pc, reading, saving, tables>>
        BY <1>3 DEF Migrate
    <2> HIDE DEF next, kept
    <2>3. migrations' \in SUBSET [object : Objects, at : Nat]
        BY <2>2 DEF TypeOK
    <2> QED
        BY <2>1, <2>2, <2>3 DEF reading, saving, tables, TypeOK
<1>4. CASE \E g \in Grants : Regrant(g)
    BY <1>4, CatalogAssumption DEF Regrant, reading, saving, tables, TypeOK
<1>5. ASSUME NEW c \in Collections, ReadColumns(c) \/ ReadIndexes(c) \/ ReadConstraints(c)
      PROVE  TypeOK'
    <2>1. PICK kind \in {"column", "index", "constraint"} : ReadClass(c, kind)
        BY <1>5 DEF ReadColumns, ReadIndexes, ReadConstraints
    <2>2. seen' \in [Collections -> Contents]
        BY <2>1, ClassRead
    <2>3. pc' \in [Collections -> States] /\ began' \in [Collections -> Nat]
          /\ stamp' \in [Collections -> Nat]
        BY <1>5 DEF ReadColumns, ReadIndexes, ReadConstraints, Stamp, TypeOK, States
    <2>4. UNCHANGED <<base, clock, saving, tables>>
        BY <1>5 DEF ReadColumns, ReadIndexes, ReadConstraints
    <2> QED
        BY <2>2, <2>3, <2>4 DEF base, saving, tables, TypeOK
<1>6. ASSUME NEW c \in Collections, OpenSave(c) PROVE TypeOK'
    <2>1. Previous(c) \subseteq Collections
        BY DEF Previous, Earlier, TypeOK
    <2>2. UNION {Diff(p, c) : p \in Previous(c)} \subseteq Changes
        BY <2>1, DiffTyped
    <2>3. basis' \in [Collections -> SUBSET Collections] /\ found' \in [Collections -> SUBSET Changes]
          /\ pc' \in [Collections -> States]
        BY <1>6, <2>1, <2>2 DEF OpenSave, TypeOK, States
    <2> QED
        BY <1>6, <2>3 DEF OpenSave, base, reading, tables, TypeOK
<1>7. ASSUME NEW c \in Collections, RefuseSave(c) \/ Fail(c) PROVE TypeOK'
    <2>1. Forget(c) /\ UNCHANGED <<base, clock, tables>> /\ pc' \in [Collections -> States]
        BY <1>7 DEF RefuseSave, Fail, TypeOK, States
    <2>2. /\ seen' \in [Collections -> Contents] /\ began' \in [Collections -> Nat]
          /\ stamp' \in [Collections -> Nat] /\ found' \in [Collections -> SUBSET Changes]
          /\ basis' \in [Collections -> SUBSET Collections]
        BY <2>1, NothingTyped DEF Forget, TypeOK
    <2> QED
        BY <2>1, <2>2 DEF base, tables, TypeOK
<1>8. ASSUME NEW c \in Collections, CommitSave(c) PROVE TypeOK'
    <2>1. /\ stored' \in SUBSET Collections /\ intact' \in SUBSET stored'
        BY <1>8 DEF CommitSave, TypeOK
    <2>2. changes' \in SUBSET Changes
        BY <1>8 DEF CommitSave, TypeOK
    <2>3. found' \in [Collections -> SUBSET Changes] /\ pc' \in [Collections -> States]
        BY <1>8 DEF CommitSave, TypeOK, States
    <2> QED
        BY <1>8, <2>1, <2>2, <2>3 DEF CommitSave, base, reading, TypeOK
<1>9. ASSUME NEW c \in Collections, Free(c) PROVE TypeOK'
    BY <1>9 DEF Free, base, reading, saving, TypeOK
<1> QED
    BY <1>1, <1>2, <1>3, <1>4, <1>5, <1>6, <1>7, <1>8, <1>9 DEF Next

(* The first state is well typed.                                          *)
LEMMA TypeStarts == Init => TypeOK
<1> SUFFICES ASSUME Init PROVE TypeOK
    OBVIOUS
<1>1. schema \in Contents
    BY ValuesTyped DEF Init, Contents
<1>2. visible \in SUBSET Objects
    BY CatalogAssumption DEF Init
<1>3. seen \in [Collections -> Contents]
    BY NothingTyped DEF Init
<1> QED
    BY <1>1, <1>2, <1>3 DEF Init, TypeOK, States

(* Collections, base lines and changes are of the objects there are.       *)
THEOREM SchemaTypeCorrect == Spec => []TypeOK
BY TypeStarts, TypeStep, PTL DEF Spec

-----------------------------------------------------------------------------
(* SELECT is given on all the tables or on none: information_schema filters*)
(* by it, and a collection that sees some of the columns is not refused.   *)
WholeGrants ==
    \A g \in Grants : \A o, q \in Objects :
        Kind[o] = "column" /\ Kind[q] = "column" /\ o \in g => q \in g

(* What the query of its class returns of an object that is not hidden.    *)
Truth(o) ==
    IF Kind[o] = "index" THEN (IF schema[o] = Absent THEN Absent ELSE 1) ELSE schema[o]

Committed == {c \in Collections : pc[c] = "done"}

(* A collection really saw the object, or really did not: an index always, *)
(* a column once some column was visible.                                  *)
Reliable(c, o) ==
    \/ Kind[o] = "index" /\ pc[c] \in {"constraints", "save", "commit", "done"}
    \/ /\ Kind[o] = "column" /\ pc[c] \in {"indexes", "constraints", "save", "commit", "done"}
       /\ HasColumn(seen[c])

(* The last instant at which a collection may have read.                   *)
Until(c) == IF pc[c] \in {"save", "commit", "done"} THEN stamp[c] ELSE clock

(* Nothing is dated in the future.                                         *)
ClockInv ==
    /\ visible \in Grants
    /\ \A m \in migrations : m.at <= clock
    /\ \A c \in Collections : began[c] <= clock /\ stamp[c] <= clock

(* What was seen still is so, or a migration came after the reading began. *)
NowInv ==
    \A c \in Collections, o \in Objects :
        Reliable(c, o) =>
            \/ seen[c][o] = Truth(o)
            \/ \E m \in migrations : m.object = o /\ began[c] <= m.at

(* Two collections saw the same, or a migration came between.              *)
Between(b, c, o) ==
    \E m \in migrations : /\ m.object = o
                          /\ began[b] <= m.at \/ began[c] <= m.at
                          /\ m.at <= Until(b) \/ m.at <= Until(c)

PairInv ==
    \A b, c \in Collections, o \in Objects :
        Reliable(b, o) /\ Reliable(c, o) => seen[b][o] = seen[c][o] \/ Between(b, c, o)

(* Only committed collections are stored, one for each instant; a change   *)
(* goes from a stored one to a later instant that has a stored one.        *)
StoreInv ==
    /\ stored \subseteq Committed
    /\ \A c, d \in stored : stamp[c] = stamp[d] => c = d
    /\ \A c \in Collections :
          /\ found[c] # {} => pc[c] = "commit"
          /\ \A x \in found[c] : x.from \in basis[c] /\ x.to = c
          /\ pc[c] \in {"commit", "done"} =>
                \A b \in basis[c] : b \in stored /\ stamp[b] < stamp[c]
    /\ \A x \in changes :
          /\ x.from \in stored /\ x.to \in Committed
          /\ \E d \in stored : stamp[d] = stamp[x.to]

(* Every difference from the base line is found, and then kept.            *)
DiffInv ==
    /\ \A c \in Collections : pc[c] = "commit" =>
          \A b \in basis[c], o \in Objects : seen[b][o] # seen[c][o] =>
              \E x \in found[c] : x.object = o /\ x.from = b /\ x.to = c
    /\ \A c \in stored :
          \A b \in basis[c], o \in Objects : seen[b][o] # seen[c][o] =>
              \E x \in changes : x.object = o /\ x.from = b /\ x.to = c

(* A change is real, already when found.                                   *)
Real(x) == Watched(x) /\ (x.kind = "added" => HasColumn(seen[x.from])) => Happened(x)

RealInv ==
    /\ \A x \in changes : Real(x)
    /\ \A c \in Collections : \A x \in found[c] : Real(x)

ReadInv == ClockInv /\ NowInv /\ PairInv
KeptInv == StoreInv /\ DiffInv

-----------------------------------------------------------------------------
(* Only the clock moves time, and only a migration changes what is true.   *)
LEMMA TimePasses ==
    ASSUME TypeOK, [Next]_vars
    PROVE  /\ clock \in Nat /\ clock' \in Nat /\ clock <= clock'
           /\ migrations \subseteq migrations'
           /\ \A m \in migrations' \ migrations : m.at = clock
           /\ \A o \in Objects :
                 schema'[o] # schema[o] =>
                     \E m \in migrations' : m.object = o /\ m.at = clock
<1>1. clock \in Nat /\ clock <= clock /\ clock + 1 \in Nat /\ clock <= clock + 1
    BY DEF TypeOK
<1>2. CASE UNCHANGED <<schema, migrations>>
    <2>1. clock' \in {clock, clock + 1}
        BY <1>2 DEF Next, vars, base, Tick, Migrate, Regrant, ReadColumns, ReadIndexes,
                    ReadConstraints, OpenSave, RefuseSave, CommitSave, Fail, Free
    <2> QED
        BY <1>1, <1>2, <2>1
<1>3. CASE \E o \in Objects : \E v \in Values(o) : Migrate(o, v)
    <2>0. PICK o \in Objects : \E v \in Values(o) : Migrate(o, v)
        BY <1>3
    <2>1. PICK v \in Values(o) : Migrate(o, v)
        BY <2>0
    <2> DEFINE next == [schema EXCEPT ![o] = v]
               kept == IF HasColumn(next) THEN next ELSE Nothing
    <2>2. /\ schema' = kept
          /\ migrations' = migrations \cup
                {[object |-> x, at |-> clock] : x \in {y \in Objects : kept[y] # schema[y]}}
          /\ clock' = clock
        BY <2>1 DEF Migrate
    <2> HIDE DEF kept
    <2>3. ASSUME NEW y \in Objects, schema'[y] # schema[y]
          PROVE  [object |-> y, at |-> clock] \in migrations'
        BY <2>2, <2>3
    <2>4. \A m \in migrations' \ migrations : m.at = clock
        BY <2>2
    <2>5. ASSUME NEW y \in Objects, schema'[y] # schema[y]
          PROVE  \E m \in migrations' : m.object = y /\ m.at = clock
        <3>1. /\ [object |-> y, at |-> clock].object = y
              /\ [object |-> y, at |-> clock].at = clock
            OBVIOUS
        <3> QED
            BY <2>3, <2>5, <3>1
    <2> QED
        BY <1>1, <2>2, <2>4, <2>5
<1> QED
    BY <1>2, <1>3 DEF Next, vars, base, Tick, Regrant, ReadColumns, ReadIndexes,
                      ReadConstraints, OpenSave, RefuseSave, CommitSave, Fail, Free

(* An object a collection did not read in this step, or read in it.        *)
Kept(c, o) ==
    /\ Reliable(c, o) /\ seen'[c][o] = seen[c][o] /\ began'[c] = began[c]
    /\ Until(c) <= Until(c)'

Fresh(c, o) == seen'[c][o] = Truth(o) /\ Truth(o)' = Truth(o) /\ Until(c)' = clock

(* Two readings of an object differ by a migration if nothing else touches *)
(* what was read, and what is read is true.                                *)
LEMMA ReadingsAgree ==
    ASSUME TypeOK, ReadInv, [Next]_vars, TypeOK',
           \A c \in Collections, o \in Objects : Reliable(c, o)' => Kept(c, o) \/ Fresh(c, o)
    PROVE  NowInv' /\ PairInv'
<1>1. /\ clock \in Nat /\ clock' \in Nat /\ clock <= clock'
      /\ migrations \subseteq migrations'
      /\ \A o \in Objects : schema'[o] # schema[o] =>
            \E m \in migrations' : m.object = o /\ m.at = clock
    BY TimePasses
<1>2. /\ \A m \in migrations : m.at \in Nat /\ m.at <= clock
      /\ \A c \in Collections : /\ began[c] \in Nat /\ began[c] <= clock
                                /\ Until(c) \in Nat /\ Until(c)' \in Nat
    BY DEF TypeOK, ReadInv, ClockInv, Until
<1>3. ASSUME NEW c \in Collections, NEW o \in Objects, Reliable(c, o)'
      PROVE  \/ seen'[c][o] = Truth(o)'
             \/ \E m \in migrations' : m.object = o /\ began'[c] <= m.at
    <2>1. CASE Fresh(c, o)
        BY <2>1 DEF Fresh
    <2>2. CASE Kept(c, o)
        <3>1. CASE seen[c][o] = Truth(o)
            <4>1. CASE schema'[o] = schema[o]
                BY <2>2, <3>1, <4>1 DEF Kept, Truth
            <4>2. CASE schema'[o] # schema[o]
                <5>1. PICK m \in migrations' : m.object = o /\ m.at = clock
                    BY <1>1, <4>2
                <5>2. began'[c] <= m.at
                    BY <1>2, <2>2, <5>1 DEF Kept
                <5> QED
                    BY <5>1, <5>2
            <4> QED
                BY <4>1, <4>2
        <3>2. CASE \E m \in migrations : m.object = o /\ began[c] <= m.at
            BY <1>1, <2>2, <3>2 DEF Kept
        <3> QED
            BY <2>2, <3>1, <3>2 DEF Kept, ReadInv, NowInv
    <2> QED
        BY <1>3, <2>1, <2>2
<1>4. ASSUME NEW b \in Collections, NEW c \in Collections, NEW o \in Objects,
             Kept(b, o), Kept(c, o)
      PROVE  seen'[b][o] = seen'[c][o] \/ Between(b, c, o)'
    <2>1. CASE seen[b][o] = seen[c][o]
        BY <1>4, <2>1 DEF Kept
    <2>2. CASE Between(b, c, o)
        <3>1. PICK m \in migrations : /\ m.object = o
                                      /\ began[b] <= m.at \/ began[c] <= m.at
                                      /\ m.at <= Until(b) \/ m.at <= Until(c)
            BY <2>2 DEF Between
        <3>2. /\ m \in migrations' /\ began'[b] = began[b] /\ began'[c] = began[c]
              /\ Until(b) <= Until(b)' /\ Until(c) <= Until(c)'
            BY <1>1, <1>4 DEF Kept
        <3>3. m.at <= Until(b)' \/ m.at <= Until(c)'
            BY <1>2, <3>1, <3>2
        <3> QED
            BY <3>1, <3>2, <3>3 DEF Between
    <2> QED
        BY <1>4, <2>1, <2>2 DEF Kept, ReadInv, PairInv
<1>5. ASSUME NEW b \in Collections, NEW c \in Collections, NEW o \in Objects,
             Kept(b, o), Fresh(c, o)
      PROVE  seen'[b][o] = seen'[c][o] \/ (Between(b, c, o)' /\ Between(c, b, o)')
    <2>1. CASE seen[b][o] = Truth(o)
        <3>1. seen'[b][o] = Truth(o) /\ seen'[c][o] = Truth(o)
            BY <1>5, <2>1 DEF Kept, Fresh
        <3> QED
            BY <3>1
    <2>2. CASE \E m \in migrations : m.object = o /\ began[b] <= m.at
        <3>1. PICK m \in migrations : m.object = o /\ began[b] <= m.at
            BY <2>2
        <3>2. m \in migrations' /\ began'[b] = began[b] /\ m.at <= Until(c)'
            BY <1>1, <1>2, <1>5, <3>1 DEF Kept, Fresh
        <3> QED
            BY <3>1, <3>2 DEF Between
    <2> QED
        BY <1>5, <2>1, <2>2 DEF Kept, ReadInv, NowInv
<1>6. ASSUME NEW b \in Collections, NEW c \in Collections, NEW o \in Objects,
             Reliable(b, o)', Reliable(c, o)'
      PROVE  seen'[b][o] = seen'[c][o] \/ Between(b, c, o)'
    <2>1. (Kept(b, o) \/ Fresh(b, o)) /\ (Kept(c, o) \/ Fresh(c, o))
        BY <1>6
    <2>2. CASE Fresh(b, o) /\ Fresh(c, o)
        BY <2>2 DEF Fresh
    <2>3. CASE Kept(c, o) /\ Fresh(b, o)
        <3>1. seen'[c][o] = seen'[b][o] \/ (Between(c, b, o)' /\ Between(b, c, o)')
            BY <1>5, <2>3
        <3> QED
            BY <3>1
    <2> QED
        BY <1>4, <1>5, <2>1, <2>2, <2>3
<1> QED
    BY <1>3, <1>6 DEF NowInv, PairInv

(* A collection a step does not touch keeps what it knows of its past.     *)
LEMMA UntouchedKept ==
    ASSUME TypeOK, [Next]_vars, NEW c \in Collections, NEW o \in Objects,
           pc'[c] = pc[c], seen'[c] = seen[c], began'[c] = began[c], stamp'[c] = stamp[c],
           Reliable(c, o)'
    PROVE  Kept(c, o)
<1>1. Reliable(c, o)
    BY DEF Reliable, HasColumn
<1>2. stamp[c] \in Nat /\ clock \in Nat /\ clock' \in Nat /\ clock <= clock'
    BY TimePasses DEF TypeOK
<1>3. Until(c) <= Until(c)'
    BY <1>2 DEF Until
<1> QED
    BY <1>1, <1>3 DEF Kept

(* Under whole grants a column query that shows some column hides none.    *)
LEMMA ColumnsShown ==
    ASSUME TypeOK, ReadInv, WholeGrants, NEW o \in Objects, Kind[o] = "column",
           \E q \in Objects : Kind[q] = "column" /\ Shown(q) # Absent
    PROVE  Shown(o) = Truth(o)
<1>1. PICK q \in Objects : Kind[q] = "column" /\ Shown(q) # Absent
    OBVIOUS
<1>2. q \in visible
    BY <1>1 DEF Shown
<1>3. o \in visible
    BY <1>1, <1>2 DEF WholeGrants, ReadInv, ClockInv
<1> QED
    BY <1>3 DEF Shown, Truth

(* pg_indexes shows an index whatever the privileges.                      *)
LEMMA IndexesShown ==
    ASSUME NEW o \in Objects, Kind[o] = "index"
    PROVE  Shown(o) = Truth(o)
    BY DEF Shown, Truth

(* What a query of a collection changes, and what it leaves as it was.     *)
LEMMA QueryReads ==
    ASSUME TypeOK, ReadInv, WholeGrants, [Next]_vars, TypeOK', NEW c \in Collections,
           ReadColumns(c) \/ ReadIndexes(c) \/ ReadConstraints(c),
           NEW o \in Objects, Reliable(c, o)'
    PROVE  Kept(c, o) \/ Fresh(c, o)
<1>1. schema' = schema /\ clock' = clock /\ Truth(o)' = Truth(o) /\ clock \in Nat
    BY DEF ReadColumns, ReadIndexes, ReadConstraints, base, Truth, TypeOK
<1>2. CASE ReadColumns(c)
    <2>1. pc'[c] = "indexes" /\ ReadClass(c, "column")
        BY <1>2 DEF ReadColumns, TypeOK
    <2>2. Kind[o] = "column" /\ HasColumn(seen'[c])
        BY <2>1 DEF Reliable, HasColumn
    <2>3. \A q \in Objects : Kind[q] = "column" => seen'[c][q] = Shown(q)
        BY <2>1, ClassRead
    <2>4. Shown(o) = Truth(o)
        BY <2>2, <2>3, ColumnsShown DEF HasColumn
    <2>5. Until(c)' = clock
        BY <1>1, <2>1 DEF Until
    <2> QED
        BY <1>1, <2>2, <2>3, <2>4, <2>5 DEF Fresh
<1>3. CASE ReadIndexes(c)
    <2>1. /\ pc[c] = "indexes" /\ pc'[c] = "constraints" /\ ReadClass(c, "index")
          /\ UNCHANGED began
        BY <1>3 DEF ReadIndexes, TypeOK
    <2>2. \A q \in Objects : seen'[c][q] = IF Kind[q] = "index" THEN Shown(q) ELSE seen[c][q]
        BY <2>1, ClassRead
    <2>3. Until(c)' = clock /\ Until(c) = clock
        BY <1>1, <2>1 DEF Until
    <2>4. CASE Kind[o] = "index"
        BY <1>1, <2>2, <2>3, <2>4, IndexesShown DEF Fresh
    <2>5. CASE Kind[o] # "index"
        <3>1. Kind[o] = "column" /\ HasColumn(seen'[c])
            BY <2>5 DEF Reliable, HasColumn
        <3>2. HasColumn(seen[c])
            BY <2>2, <3>1 DEF HasColumn
        <3>3. Reliable(c, o)
            BY <2>1, <3>1, <3>2 DEF Reliable
        <3> QED
            BY <1>1, <2>1, <2>2, <2>3, <2>5, <3>3 DEF Kept
    <2> QED
        BY <2>4, <2>5
<1>4. CASE ReadConstraints(c)
    <2>1. /\ pc[c] = "constraints" /\ pc'[c] = "save" /\ ReadClass(c, "constraint")
          /\ UNCHANGED began /\ stamp'[c] = clock
        BY <1>4 DEF ReadConstraints, Stamp, TypeOK
    <2>2. \A q \in Objects :
              seen'[c][q] = IF Kind[q] = "constraint" THEN Shown(q) ELSE seen[c][q]
        BY <2>1, ClassRead
    <2>3. Until(c)' = clock /\ Until(c) = clock
        BY <1>1, <2>1 DEF Until
    <2>4. Kind[o] \in {"index", "column"} /\ (Kind[o] = "column" => HasColumn(seen[c])')
        BY DEF Reliable
    <2>5. HasColumn(seen[c])' => HasColumn(seen[c])
        <3>1. \A q \in Objects : Kind[q] = "column" => seen'[c][q] = seen[c][q]
            BY <2>2
        <3> QED
            BY <3>1 DEF HasColumn
    <2>6. Reliable(c, o)
        BY <2>1, <2>4, <2>5 DEF Reliable
    <2> QED
        BY <1>1, <2>1, <2>2, <2>3, <2>4, <2>6 DEF Kept
<1> QED
    BY <1>2, <1>3, <1>4

(* Every step keeps what two collections saw of an object explained.       *)
LEMMA ReadStep ==
    WholeGrants /\ TypeOK /\ ReadInv /\ [Next]_vars => ReadInv'
<1> SUFFICES ASSUME WholeGrants, TypeOK, ReadInv, [Next]_vars PROVE ReadInv'
    OBVIOUS
<1>0. TypeOK'
    BY TypeStep
<1>1. ASSUME NEW c \in Collections, NEW o \in Objects, Reliable(c, o)'
      PROVE  Kept(c, o) \/ Fresh(c, o)
    <2>1. CASE UNCHANGED <<pc, seen, began, stamp>>
        BY <1>1, <2>1, UntouchedKept
    <2>2. ASSUME NEW d \in Collections,
                 ReadColumns(d) \/ ReadIndexes(d) \/ ReadConstraints(d)
          PROVE  Kept(c, o) \/ Fresh(c, o)
        <3>1. CASE c = d
            BY <1>0, <1>1, <2>2, <3>1, QueryReads
        <3>2. CASE c # d
            <4>1. pc'[c] = pc[c] /\ began'[c] = began[c] /\ stamp'[c] = stamp[c]
                BY <2>2, <3>2 DEF ReadColumns, ReadIndexes, ReadConstraints, TypeOK
            <4>2. PICK kind \in {"column", "index", "constraint"} : ReadClass(d, kind)
                BY <2>2 DEF ReadColumns, ReadIndexes, ReadConstraints
            <4>3. seen'[c] = seen[c]
                BY <3>2, <4>2, ClassRead
            <4> QED
                BY <1>1, <4>1, <4>3, UntouchedKept
        <3> QED
            BY <3>1, <3>2
    <2>3. ASSUME NEW d \in Collections, OpenSave(d) \/ CommitSave(d)
          PROVE  Kept(c, o)
        <3>1. /\ UNCHANGED <<seen, began, stamp, clock>> /\ clock \in Nat /\ stamp[c] \in Nat
              /\ \/ pc'[c] = pc[c]
                 \/ pc[c] \in {"save", "commit"} /\ pc'[c] \in {"commit", "done"}
            BY <2>3 DEF OpenSave, CommitSave, reading, TypeOK
        <3>2. Reliable(c, o)
            BY <1>1, <3>1 DEF Reliable, HasColumn
        <3>3. Until(c)' = Until(c) /\ Until(c) \in Nat
            BY <3>1 DEF Until
        <3> QED
            BY <3>1, <3>2, <3>3 DEF Kept
    <2>4. ASSUME NEW d \in Collections, RefuseSave(d) \/ Fail(d)
          PROVE  Kept(c, o)
        <3>1. CASE c = d
            <4>1. pc'[c] \in {"refused", "failed"}
                BY <2>4, <3>1 DEF RefuseSave, Fail, TypeOK
            <4> QED
                BY <1>1, <4>1 DEF Reliable
        <3>2. CASE c # d
            <4>1. /\ pc'[c] = pc[c] /\ seen'[c] = seen[c] /\ began'[c] = began[c]
                  /\ stamp'[c] = stamp[c]
                BY <2>4, <3>2 DEF RefuseSave, Fail, Forget, TypeOK
            <4> QED
                BY <1>1, <4>1, UntouchedKept
        <3> QED
            BY <3>1, <3>2
    <2> QED
        BY <2>1, <2>2, <2>3, <2>4
           DEF Next, vars, reading, Tick, Migrate, Regrant, Free
<1>2. ClockInv'
    <2>1. visible' \in Grants
        BY DEF Next, vars, base, Tick, Migrate, Regrant, ReadColumns, ReadIndexes, ReadConstraints,
               OpenSave, RefuseSave, CommitSave, Fail, Free, ReadInv, ClockInv
    <2>2. \A m \in migrations' : m.at <= clock'
        <3>1. \A m \in migrations : m.at \in Nat /\ m.at <= clock
            BY DEF TypeOK, ReadInv, ClockInv
        <3>2. /\ clock \in Nat /\ clock' \in Nat /\ clock <= clock'
              /\ \A m \in migrations' \ migrations : m.at = clock
            BY TimePasses
        <3> QED
            BY <3>1, <3>2
    <2>3. ASSUME NEW c \in Collections
          PROVE  began'[c] <= clock' /\ stamp'[c] <= clock'
        <3>1. /\ clock \in Nat /\ clock' \in Nat /\ clock <= clock' /\ began[c] \in Nat
              /\ stamp[c] \in Nat /\ began[c] <= clock /\ stamp[c] <= clock
            BY TimePasses DEF TypeOK, ReadInv, ClockInv
        <3>2. began'[c] \in {began[c], clock, 0}
            BY DEF Next, vars, Tick, Migrate, Regrant, ReadColumns, ReadIndexes, ReadConstraints,
                   OpenSave, RefuseSave, CommitSave, Fail, Forget, Free, reading, TypeOK
        <3>3. stamp'[c] \in {stamp[c], clock, 0}
            BY DEF Next, vars, Tick, Migrate, Regrant, ReadColumns, ReadIndexes, ReadConstraints,
                   OpenSave, RefuseSave, CommitSave, Fail, Forget, Free, reading, Stamp, TypeOK
        <3> QED
            BY <3>1, <3>2, <3>3
    <2> QED
        BY <2>1, <2>2, <2>3 DEF ClockInv
<1>3. NowInv' /\ PairInv'
    BY <1>0, <1>1, ReadingsAgree
<1> QED
    BY <1>2, <1>3 DEF ReadInv

-----------------------------------------------------------------------------
(* What a collection read, and when, is settled once its changes are       *)
(* found: only a failure before the commit takes it back.                  *)
Settled(c) == pc[c] \in {"commit", "done"}

(* What a collection that saved has seen never changes after.              *)
LEMMA SettledStays ==
    ASSUME TypeOK, [Next]_vars, NEW c \in Collections, Settled(c)
    PROVE  \/ pc'[c] = "failed" /\ found'[c] = {} /\ pc[c] = "commit"
           \/ /\ Settled(c)' /\ (pc[c] = "done" => pc'[c] = "done")
              /\ seen'[c] = seen[c] /\ began'[c] = began[c]
              /\ stamp'[c] = stamp[c] /\ basis'[c] = basis[c]
<1>1. CASE UNCHANGED <<pc, reading, basis>>
    BY <1>1 DEF Settled, reading
<1>2. ASSUME NEW d \in Collections, ReadColumns(d) \/ ReadIndexes(d) \/ ReadConstraints(d)
      PROVE  /\ pc'[c] = pc[c] /\ seen'[c] = seen[c] /\ began'[c] = began[c]
             /\ stamp'[c] = stamp[c] /\ basis'[c] = basis[c]
    <2>1. c # d
        BY <1>2 DEF ReadColumns, ReadIndexes, ReadConstraints, Settled
    <2>2. PICK kind \in {"column", "index", "constraint"} : ReadClass(d, kind)
        BY <1>2 DEF ReadColumns, ReadIndexes, ReadConstraints
    <2>3. seen'[c] = seen[c]
        BY <2>1, <2>2, ClassRead
    <2> QED
        BY <1>2, <2>1, <2>3 DEF ReadColumns, ReadIndexes, ReadConstraints, saving, TypeOK
<1>3. ASSUME NEW d \in Collections, OpenSave(d) \/ CommitSave(d)
      PROVE  /\ Settled(c)' /\ (pc[c] = "done" => pc'[c] = "done")
             /\ seen'[c] = seen[c] /\ began'[c] = began[c]
             /\ stamp'[c] = stamp[c] /\ basis'[c] = basis[c]
    BY <1>3 DEF OpenSave, CommitSave, reading, Settled, TypeOK
<1>4. ASSUME NEW d \in Collections, RefuseSave(d) \/ Fail(d), c # d
      PROVE  /\ pc'[c] = pc[c] /\ seen'[c] = seen[c] /\ began'[c] = began[c]
             /\ stamp'[c] = stamp[c] /\ basis'[c] = basis[c]
    BY <1>4 DEF RefuseSave, Fail, Forget, TypeOK
<1>5. ASSUME RefuseSave(c) \/ Fail(c)
      PROVE  pc'[c] = "failed" /\ found'[c] = {} /\ pc[c] = "commit"
    BY <1>5 DEF RefuseSave, Fail, AtWork, Forget, Settled, TypeOK
<1>6. ASSUME NEW d \in Collections, RefuseSave(d) \/ Fail(d)
      PROVE  \/ pc'[c] = "failed" /\ found'[c] = {} /\ pc[c] = "commit"
             \/ /\ pc'[c] = pc[c] /\ seen'[c] = seen[c] /\ began'[c] = began[c]
                /\ stamp'[c] = stamp[c] /\ basis'[c] = basis[c]
    <2>1. CASE c = d
        BY <1>5, <1>6, <2>1
    <2>2. CASE c # d
        BY <1>4, <1>6, <2>2
    <2> QED
        BY <2>1, <2>2
<1>7. CASE UNCHANGED vars \/ Tick \/ (\E o \in Objects : \E v \in Values(o) : Migrate(o, v))
           \/ (\E g \in Grants : Regrant(g)) \/ (\E d \in Collections : Free(d))
    BY <1>1, <1>7 DEF vars, Tick, Migrate, Regrant, Free, saving
<1> QED
    BY <1>2, <1>3, <1>6, <1>7 DEF Next, Settled

(* A step of a collection that is neither saving nor about to.             *)
LEMMA KeptElsewhere ==
    ASSUME TypeOK, KeptInv, NEW c \in Collections, pc[c] # "done",
           pc'[c] \notin {"commit", "done"}, found'[c] = {}, UNCHANGED <<stored, changes>>,
           \A d \in Collections \ {c} :
              /\ pc'[d] = pc[d] /\ seen'[d] = seen[d] /\ stamp'[d] = stamp[d]
              /\ found'[d] = found[d] /\ basis'[d] = basis[d]
    PROVE  KeptInv'
<1>1. stored \subseteq Collections \ {c} /\ stored \subseteq Committed
    BY DEF KeptInv, StoreInv, Committed
<1>2. Committed' = Committed
    BY DEF Committed
<1>3. \A d \in Collections : pc'[d] \in {"commit", "done"} =>
          d # c /\ basis'[d] = basis[d] /\ basis[d] \subseteq stored
    BY DEF KeptInv, StoreInv
<1>4. StoreInv'
    <2>1. \A x \in changes : x.from \in stored /\ x.to \in Committed /\ x.to # c
        BY DEF KeptInv, StoreInv, Committed
    <2>2. \A x \in changes : \E d \in stored : stamp'[d] = stamp'[x.to]
        <3> SUFFICES ASSUME NEW x \in changes PROVE \E d \in stored : stamp'[d] = stamp'[x.to]
            OBVIOUS
        <3>1. PICK d \in stored : stamp[d] = stamp[x.to]
            BY DEF KeptInv, StoreInv
        <3>2. x.to \in Collections \ {c}
            BY <2>1 DEF Committed
        <3> QED
            BY <1>1, <3>1, <3>2
    <2>3. \A d \in Collections :
              /\ found'[d] # {} => pc'[d] = "commit"
              /\ \A x \in found'[d] : x.from \in basis'[d] /\ x.to = d
              /\ pc'[d] \in {"commit", "done"} =>
                    \A b \in basis'[d] : b \in stored /\ stamp'[b] < stamp'[d]
        <3> SUFFICES ASSUME NEW d \in Collections
                     PROVE  /\ found'[d] # {} => pc'[d] = "commit"
                            /\ \A x \in found'[d] : x.from \in basis'[d] /\ x.to = d
                            /\ pc'[d] \in {"commit", "done"} =>
                                  \A b \in basis'[d] : b \in stored /\ stamp'[b] < stamp'[d]
            OBVIOUS
        <3>1. CASE d = c
            BY <3>1
        <3>2. CASE d # c
            BY <1>1, <3>2 DEF KeptInv, StoreInv
        <3> QED
            BY <3>1, <3>2
    <2>4. \A d, e \in stored : stamp'[d] = stamp'[e] => d = e
        BY <1>1 DEF KeptInv, StoreInv
    <2> QED
        BY <1>1, <1>2, <2>1, <2>2, <2>3, <2>4 DEF StoreInv
<1>5. DiffInv'
    <2>1. ASSUME NEW d \in Collections, pc'[d] = "commit", NEW b \in basis'[d],
                 NEW o \in Objects, seen'[b][o] # seen'[d][o]
          PROVE  \E x \in found'[d] : x.object = o /\ x.from = b /\ x.to = d
        <3>1. d # c /\ b \in stored /\ basis'[d] = basis[d]
            BY <1>3, <2>1
        <3>2. seen'[b] = seen[b] /\ seen'[d] = seen[d] /\ found'[d] = found[d] /\ pc[d] = "commit"
            BY <1>1, <2>1, <3>1
        <3> QED
            BY <2>1, <3>1, <3>2 DEF KeptInv, DiffInv
    <2>2. ASSUME NEW d \in stored, NEW b \in basis'[d],
                 NEW o \in Objects, seen'[b][o] # seen'[d][o]
          PROVE  \E x \in changes : x.object = o /\ x.from = b /\ x.to = d
        <3>1. d \in Collections \ {c} /\ pc'[d] = "done"
            BY <1>1 DEF Committed
        <3>2. b \in stored /\ basis'[d] = basis[d]
            BY <1>3, <2>2, <3>1
        <3>3. seen'[b] = seen[b] /\ seen'[d] = seen[d]
            BY <1>1, <3>1, <3>2
        <3> QED
            BY <2>2, <3>2, <3>3 DEF KeptInv, DiffInv
    <2> QED
        BY <2>1, <2>2 DEF DiffInv
<1> QED
    BY <1>4, <1>5 DEF KeptInv

(* The transaction finds every difference from the base line it read.      *)
LEMMA OpenKeeps ==
    ASSUME TypeOK, KeptInv, NEW c \in Collections, OpenSave(c)
    PROVE  KeptInv'
<1>1. /\ pc[c] = "save" /\ pc'[c] = "commit" /\ UNCHANGED <<seen, stamp, stored, changes>>
      /\ basis'[c] = Previous(c) /\ found'[c] = UNION {Diff(p, c) : p \in Previous(c)}
      /\ \A d \in Collections \ {c} :
            pc'[d] = pc[d] /\ found'[d] = found[d] /\ basis'[d] = basis[d]
    BY DEF OpenSave, reading, tables, TypeOK
<1>2. \A b \in Previous(c) : b \in stored /\ stamp[b] < stamp[c] /\ Content(b) = seen[b]
    BY DEF OpenSave, Refused, BaselineFreed, Previous, Earlier, Content
<1>3. Committed' = Committed
    BY <1>1 DEF Committed
<1>4. \A x \in found'[c] : x.from \in basis'[c] /\ x.to = c
    BY <1>1 DEF Diff
<1>5. \A b \in basis'[c], o \in Objects : seen[b][o] # seen[c][o] =>
          \E x \in found'[c] : x.object = o /\ x.from = b /\ x.to = c
    <2> SUFFICES ASSUME NEW b \in Previous(c), NEW o \in Objects, seen[b][o] # seen[c][o]
                 PROVE  \E x \in found'[c] : x.object = o /\ x.from = b /\ x.to = c
        BY <1>1
    <2> DEFINE x == [object |-> o, kind |-> ChangeKind(Content(b)[o], seen[c][o]),
                     from |-> b, to |-> c]
    <2>1. x \in Diff(b, c)
        BY <1>2 DEF Diff
    <2>2. x \in found'[c]
        BY <1>1, <2>1
    <2>3. x.object = o /\ x.from = b /\ x.to = c
        OBVIOUS
    <2> HIDE DEF x
    <2> QED
        BY <2>2, <2>3
<1>6. StoreInv'
    <2>1. \A d \in Collections :
              /\ found'[d] # {} => pc'[d] = "commit"
              /\ \A x \in found'[d] : x.from \in basis'[d] /\ x.to = d
              /\ pc'[d] \in {"commit", "done"} =>
                    \A b \in basis'[d] : b \in stored /\ stamp[b] < stamp[d]
        <3> SUFFICES ASSUME NEW d \in Collections
                     PROVE  /\ found'[d] # {} => pc'[d] = "commit"
                            /\ \A x \in found'[d] : x.from \in basis'[d] /\ x.to = d
                            /\ pc'[d] \in {"commit", "done"} =>
                                  \A b \in basis'[d] : b \in stored /\ stamp[b] < stamp[d]
            OBVIOUS
        <3>1. CASE d = c
            BY <1>1, <1>2, <1>4, <3>1
        <3>2. CASE d # c
            BY <1>1, <3>2 DEF KeptInv, StoreInv
        <3> QED
            BY <3>1, <3>2
    <2> QED
        BY <1>1, <1>3, <2>1 DEF KeptInv, StoreInv
<1>7. DiffInv'
    <2>1. c \notin stored
        BY <1>1 DEF KeptInv, StoreInv, Committed
    <2>2. \A d \in stored : d \in Collections \ {c}
        BY <2>1 DEF TypeOK
    <2> QED
        BY <1>1, <1>5, <2>2 DEF KeptInv, DiffInv
<1> QED
    BY <1>6, <1>7 DEF KeptInv

(* The commit keeps all of them, when it keeps the collection.             *)
LEMMA CommitKeeps ==
    ASSUME TypeOK, KeptInv, NEW c \in Collections, CommitSave(c)
    PROVE  KeptInv'
<1> DEFINE new == IF \E d \in stored : stamp[d] = stamp[c] THEN {} ELSE {c}
<1>1. /\ pc[c] = "commit" /\ pc'[c] = "done" /\ UNCHANGED <<seen, stamp, basis>>
      /\ stored' = stored \cup new
      /\ changes' = changes \cup {x \in found[c] : \A y \in changes : ~SameChange(x, y)}
      /\ found'[c] = {}
      /\ \A d \in Collections \ {c} : pc'[d] = pc[d] /\ found'[d] = found[d]
    BY DEF CommitSave, reading, TypeOK
<1>2. /\ \A d \in new : d = c /\ \A e \in stored : stamp[e] # stamp[c]
      /\ \E d \in stored \cup new : stamp[d] = stamp[c]
    OBVIOUS
<1> HIDE DEF new
<1>3. Committed' = Committed \cup {c}
    BY <1>1 DEF Committed
<1>4. StoreInv'
    <2>1. stored' \subseteq Committed'
        BY <1>1, <1>2, <1>3 DEF KeptInv, StoreInv
    <2>2. \A d, e \in stored' : stamp[d] = stamp[e] => d = e
        BY <1>1, <1>2 DEF KeptInv, StoreInv
    <2>3. \A d \in Collections :
              /\ found'[d] # {} => pc'[d] = "commit"
              /\ \A x \in found'[d] : x.from \in basis[d] /\ x.to = d
              /\ pc'[d] \in {"commit", "done"} =>
                    \A b \in basis[d] : b \in stored' /\ stamp[b] < stamp[d]
        <3> SUFFICES ASSUME NEW d \in Collections
                     PROVE  /\ found'[d] # {} => pc'[d] = "commit"
                            /\ \A x \in found'[d] : x.from \in basis[d] /\ x.to = d
                            /\ pc'[d] \in {"commit", "done"} =>
                                  \A b \in basis[d] : b \in stored' /\ stamp[b] < stamp[d]
            OBVIOUS
        <3>1. CASE d = c
            BY <1>1, <3>1 DEF KeptInv, StoreInv
        <3>2. CASE d # c
            BY <1>1, <3>2 DEF KeptInv, StoreInv
        <3> QED
            BY <3>1, <3>2
    <2>4. \A x \in changes' : /\ x.from \in stored' /\ x.to \in Committed'
                              /\ \E d \in stored' : stamp[d] = stamp[x.to]
        <3> SUFFICES ASSUME NEW x \in changes'
                     PROVE  /\ x.from \in stored' /\ x.to \in Committed'
                            /\ \E d \in stored' : stamp[d] = stamp[x.to]
            OBVIOUS
        <3>1. CASE x \in changes
            BY <1>1, <1>3, <3>1 DEF KeptInv, StoreInv
        <3>2. CASE x \in found[c]
            <4>1. x.from \in stored /\ x.to = c
                BY <1>1, <3>2 DEF KeptInv, StoreInv
            <4> QED
                BY <1>1, <1>2, <1>3, <4>1
        <3> QED
            BY <1>1, <3>1, <3>2
    <2> QED
        BY <1>1, <2>1, <2>2, <2>3, <2>4 DEF StoreInv
<1>5. c \in new => found[c] \subseteq changes'
    <2> SUFFICES ASSUME c \in new, NEW x \in found[c], NEW y \in changes, SameChange(x, y)
                 PROVE  FALSE
        BY <1>1
    <2>1. x.to = c /\ \E d \in stored : stamp[d] = stamp[y.to]
        BY DEF KeptInv, StoreInv
    <2> QED
        BY <1>2, <2>1 DEF SameChange
<1>6. DiffInv'
    <2>1. \A d \in Collections : pc'[d] = "commit" => d # c
        BY <1>1
    <2>2. \A d \in stored' : \A b \in basis[d], o \in Objects : seen[b][o] # seen[d][o] =>
              \E x \in changes' : x.object = o /\ x.from = b /\ x.to = d
        <3> SUFFICES ASSUME NEW d \in stored', NEW b \in basis[d], NEW o \in Objects,
                            seen[b][o] # seen[d][o]
                     PROVE  \E x \in changes' : x.object = o /\ x.from = b /\ x.to = d
            OBVIOUS
        <3>1. CASE d \in stored
            BY <1>1, <3>1 DEF KeptInv, DiffInv
        <3>2. CASE d \in new
            <4>1. d = c
                BY <1>2, <3>2
            <4>2. \E x \in found[c] : x.object = o /\ x.from = b /\ x.to = c
                BY <1>1, <4>1 DEF KeptInv, DiffInv
            <4> QED
                BY <1>5, <3>2, <4>1, <4>2
        <3> QED
            BY <1>1, <3>1, <3>2
    <2> QED
        BY <1>1, <2>1, <2>2 DEF KeptInv, DiffInv
<1> QED
    BY <1>4, <1>6 DEF KeptInv

(* Every step keeps the differences kept.                                  *)
LEMMA KeptStep == TypeOK /\ KeptInv /\ [Next]_vars => KeptInv'
<1> SUFFICES ASSUME TypeOK, KeptInv, [Next]_vars PROVE KeptInv'
    OBVIOUS
<1>1. CASE UNCHANGED <<pc, seen, stamp, found, basis, stored, changes>>
    BY <1>1 DEF KeptInv, StoreInv, DiffInv, Committed
<1>2. ASSUME NEW c \in Collections, ReadColumns(c) \/ ReadIndexes(c) \/ ReadConstraints(c)
      PROVE  KeptInv'
    <2>1. /\ pc[c] \notin {"commit", "done"} /\ pc'[c] \notin {"commit", "done"}
          /\ UNCHANGED <<found, basis, stored, changes>>
          /\ \A d \in Collections \ {c} : pc'[d] = pc[d] /\ stamp'[d] = stamp[d]
        BY <1>2 DEF ReadColumns, ReadIndexes, ReadConstraints, saving, tables, TypeOK
    <2>2. PICK kind \in {"column", "index", "constraint"} : ReadClass(c, kind)
        BY <1>2 DEF ReadColumns, ReadIndexes, ReadConstraints
    <2>3. \A d \in Collections \ {c} : seen'[d] = seen[d]
        BY <2>2, ClassRead
    <2>4. found'[c] = {}
        BY <2>1 DEF KeptInv, StoreInv
    <2> QED
        BY <2>1, <2>3, <2>4, KeptElsewhere
<1>3. ASSUME NEW c \in Collections, RefuseSave(c) \/ Fail(c) PROVE KeptInv'
    <2>1. /\ pc[c] # "done" /\ pc'[c] \notin {"commit", "done"} /\ found'[c] = {}
          /\ UNCHANGED <<stored, changes>>
          /\ \A d \in Collections \ {c} :
                /\ pc'[d] = pc[d] /\ seen'[d] = seen[d] /\ stamp'[d] = stamp[d]
                /\ found'[d] = found[d] /\ basis'[d] = basis[d]
        BY <1>3 DEF RefuseSave, Fail, AtWork, Forget, tables, TypeOK
    <2> QED
        BY <2>1, KeptElsewhere
<1>4. CASE UNCHANGED vars \/ Tick \/ (\E o \in Objects : \E v \in Values(o) : Migrate(o, v))
           \/ (\E g \in Grants : Regrant(g)) \/ (\E d \in Collections : Free(d))
    BY <1>1, <1>4 DEF vars, Tick, Migrate, Regrant, Free, reading, saving, tables
<1> QED
    BY <1>2, <1>3, <1>4, OpenKeeps, CommitKeeps DEF Next

-----------------------------------------------------------------------------
(* What makes a change real does not go away.                              *)
LEMMA RealStays ==
    ASSUME TypeOK, [Next]_vars, NEW x \in Changes, Real(x),
           Settled(x.from), pc[x.from] = "done", Settled(x.to), pc'[x.to] # "failed"
    PROVE  Real(x)'
<1>1. x.from \in Collections /\ x.to \in Collections
    BY DEF Changes
<1>2. /\ seen'[x.from] = seen[x.from] /\ began'[x.from] = began[x.from]
      /\ began'[x.to] = began[x.to] /\ stamp'[x.to] = stamp[x.to]
      /\ migrations \subseteq migrations'
    BY <1>1, SettledStays, TimePasses
<1> SUFFICES ASSUME Watched(x), x.kind = "added" => HasColumn(seen[x.from]) PROVE Happened(x)'
    BY <1>2 DEF Real, Watched, HasColumn
<1>3. PICK m \in migrations :
            /\ m.object = x.object
            /\ began[x.from] <= m.at \/ began[x.to] <= m.at
            /\ m.at <= stamp[x.to]
    BY DEF Real, Happened, Before
<1> QED
    BY <1>2, <1>3 DEF Happened, Before

(* What a collection that was not refused finds really happened.           *)
LEMMA FoundIsReal ==
    ASSUME TypeOK, ReadInv, KeptInv, NEW c \in Collections, OpenSave(c),
           NEW p \in Previous(c), NEW x \in Diff(p, c)
    PROVE  Real(x)
<1>1. /\ p \in stored /\ p \in Collections /\ pc[p] = "done" /\ pc[c] = "save"
      /\ stamp[p] < stamp[c] /\ Content(p) = seen[p] /\ ~LooksBlind(seen[p], seen[c])
    BY DEF OpenSave, Refused, BaselineFreed, Previous, Earlier, Content, KeptInv, StoreInv,
           Committed
<1>2. PICK o \in Objects :
            /\ seen[p][o] # seen[c][o]
            /\ x = [object |-> o, kind |-> ChangeKind(seen[p][o], seen[c][o]), from |-> p, to |-> c]
    BY <1>1 DEF Diff
<1>3. x.object = o /\ x.from = p /\ x.to = c /\ x.kind = ChangeKind(seen[p][o], seen[c][o])
    BY <1>2
<1> SUFFICES ASSUME Watched(x), x.kind = "added" => HasColumn(seen[p]) PROVE Happened(x)
    BY <1>3 DEF Real
<1>4. Kind[o] \in {"column", "index"}
    BY <1>3, CatalogAssumption DEF Watched
<1>5. Kind[o] = "column" => HasColumn(seen[p]) /\ HasColumn(seen[c])
    <2> SUFFICES ASSUME Kind[o] = "column" PROVE HasColumn(seen[p]) /\ HasColumn(seen[c])
        OBVIOUS
    <2>1. CASE seen[p][o] # Absent
        BY <1>1, <2>1 DEF HasColumn, LooksBlind
    <2>2. CASE seen[p][o] = Absent
        <3>1. x.kind = "added"
            BY <1>2, <1>3, <2>2 DEF ChangeKind
        <3> QED
            BY <1>1, <3>1 DEF LooksBlind
    <2> QED
        BY <2>1, <2>2
<1>6. Reliable(p, o) /\ Reliable(c, o)
    BY <1>1, <1>4, <1>5 DEF Reliable
<1>7. Between(p, c, o)
    BY <1>1, <1>2, <1>6 DEF ReadInv, PairInv
<1>8. PICK m \in migrations : /\ m.object = o
                              /\ began[p] <= m.at \/ began[c] <= m.at
                              /\ m.at <= stamp[p] \/ m.at <= stamp[c]
    BY <1>1, <1>7 DEF Between, Until
<1>9. m.at <= stamp[c]
    <2>1. m.at \in Nat /\ stamp[p] \in Nat /\ stamp[c] \in Nat
        BY <1>1 DEF TypeOK
    <2> QED
        BY <1>1, <1>8, <2>1
<1> QED
    BY <1>3, <1>8, <1>9 DEF Happened, Before

(* Every step keeps the changes real.                                      *)
LEMMA RealStep ==
    TypeOK /\ ReadInv /\ KeptInv /\ RealInv /\ [Next]_vars => RealInv'
<1> SUFFICES ASSUME TypeOK, ReadInv, KeptInv, RealInv, [Next]_vars PROVE RealInv'
    OBVIOUS
<1>1. ASSUME NEW x \in changes PROVE Real(x)'
    <2>1. /\ x \in Changes /\ x.from \in Collections /\ x.to \in Collections
          /\ pc[x.from] = "done" /\ pc[x.to] = "done"
        BY DEF TypeOK, KeptInv, StoreInv, Committed
    <2>2. pc'[x.to] # "failed"
        BY <2>1, SettledStays DEF Settled
    <2> QED
        BY <2>1, <2>2, RealStays DEF RealInv, Settled
<1>2. ASSUME NEW c \in Collections, NEW x \in found[c], pc'[c] # "failed" PROVE Real(x)'
    <2>1. /\ x \in Changes /\ x.from \in Collections /\ x.to = c
          /\ pc[x.from] = "done" /\ pc[c] = "commit"
        BY DEF TypeOK, Changes, KeptInv, StoreInv, Committed
    <2> QED
        BY <1>2, <2>1, RealStays DEF RealInv, Settled
<1>3. ASSUME NEW c \in Collections, OpenSave(c)
      PROVE  RealInv'
    <2>1. /\ UNCHANGED <<changes, seen, began, stamp, migrations>> /\ pc'[c] = "commit"
          /\ found'[c] = UNION {Diff(p, c) : p \in Previous(c)}
          /\ \A d \in Collections \ {c} : found'[d] = found[d] /\ pc'[d] = pc[d]
        BY <1>3 DEF OpenSave, base, reading, tables, TypeOK
    <2>2. ASSUME NEW x PROVE Real(x)' <=> Real(x)
        BY <2>1 DEF Real, Watched, HasColumn, Happened, Before
    <2>3. \A x \in found'[c] : Real(x)
        BY <1>3, <2>1, FoundIsReal
    <2>4. \A d \in Collections : \A x \in found'[d] : Real(x)
        BY <2>1, <2>3 DEF RealInv
    <2> QED
        BY <2>1, <2>2, <2>4 DEF RealInv
<1>4. ASSUME NEW c \in Collections, CommitSave(c)
      PROVE  RealInv'
    <2>1. /\ changes' \subseteq changes \cup found[c] /\ pc'[c] = "done"
          /\ \A d \in Collections : found'[d] \subseteq found[d]
          /\ \A d \in Collections \ {c} : pc'[d] = pc[d]
        BY <1>4 DEF CommitSave, TypeOK
    <2>2. \A d \in Collections : found[d] # {} => pc[d] = "commit"
        BY DEF KeptInv, StoreInv
    <2>3. \A d \in Collections : \A x \in found[d] : Real(x)'
        BY <1>2, <2>1, <2>2
    <2> QED
        BY <1>1, <2>1, <2>3 DEF RealInv
<1>5. ASSUME UNCHANGED changes, \A d \in Collections : found'[d] \in {{}, found[d]},
             \A d \in Collections : pc'[d] = "failed" => found'[d] = {}
      PROVE  RealInv'
    BY <1>1, <1>2, <1>5 DEF RealInv
<1>6. ASSUME NEW c \in Collections, RefuseSave(c) \/ Fail(c) PROVE RealInv'
    <2>1. /\ UNCHANGED changes /\ found'[c] = {}
          /\ \A d \in Collections \ {c} : found'[d] = found[d] /\ pc'[d] = pc[d]
        BY <1>6 DEF RefuseSave, Fail, Forget, tables, TypeOK
    <2>2. \A d \in Collections \ {c} : pc'[d] = "failed" => found'[d] = {}
        BY <2>1 DEF KeptInv, StoreInv
    <2> QED
        BY <1>5, <2>1, <2>2
<1>7. CASE \/ UNCHANGED vars \/ Tick \/ \E o \in Objects : \E v \in Values(o) : Migrate(o, v)
           \/ \E g \in Grants : Regrant(g)
           \/ \E d \in Collections :
                 ReadColumns(d) \/ ReadIndexes(d) \/ ReadConstraints(d) \/ Free(d)
    <2>1. UNCHANGED <<changes, found>>
        BY <1>7 DEF vars, Tick, Migrate, Regrant, ReadColumns, ReadIndexes, ReadConstraints, Free,
                    saving, tables
    <2>2. \A d \in Collections : pc'[d] = "failed" => pc[d] = "failed"
        BY <1>7 DEF vars, Tick, Migrate, Regrant, ReadColumns, ReadIndexes, ReadConstraints, Free,
                    TypeOK
    <2>3. \A d \in Collections : pc'[d] = "failed" => found'[d] = {}
        BY <2>1, <2>2 DEF KeptInv, StoreInv
    <2> QED
        BY <1>5, <2>1, <2>3
<1> QED
    BY <1>3, <1>4, <1>6, <1>7 DEF Next

-----------------------------------------------------------------------------
(* The collection before one that has any is the latest of them.           *)
LEMMA PreviousExists ==
    ASSUME TypeOK, KeptInv, NEW c \in stored, NEW p \in stored, stamp[p] < stamp[c]
    PROVE  \E b \in Previous(c) : b \in stored /\ stamp[p] <= stamp[b] /\ stamp[b] < stamp[c]
<1>1. \A d \in stored : stamp[d] \in Nat
    BY DEF TypeOK
<1> DEFINE Gap(d) == stamp[c] - stamp[d]
           Gaps == {Gap(d) : d \in Earlier(c)}
<1>2. \A d \in Earlier(c) : d \in stored /\ stamp[d] < stamp[c]
    BY DEF Earlier
<1>3. \A m, n \in Nat : m < n => n - m \in Nat
    OBVIOUS
<1>4. Gaps \subseteq Nat /\ Gaps # {}
    <2>1. p \in Earlier(c)
        BY DEF Earlier
    <2>2. \A d \in Earlier(c) : Gap(d) \in Nat
        BY <1>1, <1>2, <1>3
    <2> HIDE DEF Gap
    <2> QED
        BY <2>1, <2>2
<1>5. \E g \in Gaps : \A h \in Gaps : g <= h
    <2> HIDE DEF Gaps
    <2> QED
        BY <1>4, LeastOf
<1>6. PICK b \in Earlier(c) : \A q \in Earlier(c) : Gap(b) <= Gap(q)
    BY <1>5
<1>7. \A q \in Earlier(c) : stamp[q] <= stamp[b]
    BY <1>1, <1>2, <1>6
<1>8. b \in Previous(c) /\ p \in Earlier(c)
    BY <1>7 DEF Previous, Earlier
<1> QED
    BY <1>2, <1>7, <1>8

(* Going back from one base line to the one before it, every difference is *)
(* met by a change that was kept.                                          *)
LEMMA DifferenceExplained ==
    ASSUME TypeOK, KeptInv
    PROVE  NetDifferenceExplained
<1> DEFINE Compared(p, c) == \A d \in stored : stamp[p] < stamp[d] /\ stamp[d] <= stamp[c]
                                                => basis[d] = Previous(d)
           Explained(p, c, o) == \E x \in changes : /\ x.object = o
                                                    /\ stamp[p] <= stamp[x.from]
                                                    /\ stamp[x.to] <= stamp[c]
<1>1. SUFFICES ASSUME NEW p \in stored, NEW o \in Objects
               PROVE  \A c \in stored : stamp[p] < stamp[c] /\ Compared(p, c)
                                            /\ seen[p][o] # seen[c][o] => Explained(p, c, o)
    BY DEF NetDifferenceExplained, After, Before
<1> DEFINE Wrong(c) == /\ stamp[p] < stamp[c] /\ Compared(p, c)
                       /\ seen[p][o] # seen[c][o] /\ ~Explained(p, c, o)
           Bad == {stamp[c] : c \in {d \in stored : Wrong(d)}}
<1>2. SUFFICES ASSUME Bad # {} PROVE FALSE
    OBVIOUS
<1>3. \A d \in stored : stamp[d] \in Nat
    BY DEF TypeOK
<1>4. \E n \in Bad : \A m \in Bad : n <= m
    <2>1. Bad \subseteq Nat
        BY <1>3
    <2> HIDE DEF Bad
    <2> QED
        BY <1>2, <2>1, LeastOf
<1> HIDE DEF Wrong
<1>5. PICK c \in stored : Wrong(c) /\ \A d \in stored : Wrong(d) => stamp[c] <= stamp[d]
    BY <1>4
<1>6. /\ stamp[p] < stamp[c] /\ Compared(p, c) /\ seen[p][o] # seen[c][o]
      /\ ~Explained(p, c, o)
    BY <1>5 DEF Wrong
<1>7. PICK b \in Previous(c) : b \in stored /\ stamp[p] <= stamp[b] /\ stamp[b] < stamp[c]
    BY <1>6, PreviousExists
<1>8. stamp[c] <= stamp[c] /\ ~(stamp[c] <= stamp[b])
    BY <1>3, <1>7
<1>9. b \in basis[c]
    BY <1>6, <1>7, <1>8
<1>10. CASE seen[b][o] # seen[c][o]
    <2>1. PICK x \in changes : x.object = o /\ x.from = b /\ x.to = c
        BY <1>9, <1>10 DEF KeptInv, DiffInv
    <2> QED
        BY <1>6, <1>7, <1>8, <2>1
<1>11. CASE seen[b][o] = seen[c][o]
    <2>1. b # p
        BY <1>6, <1>11
    <2>2. stamp[b] # stamp[p]
        BY <1>7, <2>1 DEF KeptInv, StoreInv
    <2>3. stamp[p] < stamp[b]
        BY <1>3, <1>7, <2>2
    <2>4. Compared(p, b)
        <3>1. \A d \in stored : stamp[d] <= stamp[b] => stamp[d] <= stamp[c]
            BY <1>3, <1>7
        <3> QED
            BY <1>6, <3>1
    <2>5. ~Explained(p, b, o)
        <3> SUFFICES ASSUME NEW x \in changes, x.object = o, stamp[p] <= stamp[x.from],
                            stamp[x.to] <= stamp[b]
                     PROVE  FALSE
            OBVIOUS
        <3>1. stamp[x.to] \in Nat
            BY DEF TypeOK, KeptInv, StoreInv, Committed
        <3>2. stamp[x.to] <= stamp[c]
            BY <1>3, <1>7, <3>1
        <3> QED
            BY <1>6, <3>2
    <2>6. Wrong(b)
        BY <1>6, <1>11, <2>3, <2>4, <2>5 DEF Wrong
    <2> QED
        BY <1>5, <1>7, <1>8, <2>6
<1> QED
    BY <1>10, <1>11

-----------------------------------------------------------------------------
(* Nothing is stored at first.                                             *)
LEMMA KeptStarts == Init => KeptInv
BY DEF Init, KeptInv, StoreInv, DiffInv, Committed

(* Nothing is read at first.                                               *)
LEMMA ReadStarts == Init => ReadInv
<1> SUFFICES ASSUME Init PROVE ReadInv
    OBVIOUS
<1>1. \A c \in Collections, o \in Objects : ~Reliable(c, o)
    BY DEF Init, Reliable
<1>2. ClockInv
    BY DEF Init, ClockInv
<1> QED
    BY <1>1, <1>2 DEF ReadInv, NowInv, PairInv

(* What is stored keeps every difference, under any grants.                *)
THEOREM SchemaInvariance == Spec => [](TypeOK /\ KeptInv)
<1>1. Init => TypeOK /\ KeptInv
    BY TypeStarts, KeptStarts
<1>2. TypeOK /\ KeptInv /\ [Next]_vars => (TypeOK /\ KeptInv)'
    BY TypeStep, KeptStep
<1> QED
    BY <1>1, <1>2, PTL DEF Spec

(* The changes alone explain what differs between any two collections of a *)
(* chain, whatever was freed and however many collections overlapped.      *)
THEOREM DifferencesAreExplained == Spec => []NetDifferenceExplained
<1>1. TypeOK /\ KeptInv => NetDifferenceExplained
    BY DifferenceExplained
<1> QED
    BY <1>1, SchemaInvariance, PTL

(* When SELECT is given on all the tables or on none, whoever reads while  *)
(* it comes and goes invents no change of a column or of an index.         *)
THEOREM ChangesAreReal == ASSUME WholeGrants PROVE Spec => []NoChangeInvented
<1>1. Init => ReadInv /\ RealInv
    <2>1. Init => RealInv
        BY DEF Init, RealInv
    <2> QED
        BY <2>1, ReadStarts
<1>2. TypeOK /\ KeptInv /\ ReadInv /\ RealInv /\ [Next]_vars => (ReadInv /\ RealInv)'
    BY ReadStep, RealStep
<1>3. RealInv => NoChangeInvented
    BY DEF RealInv, Real, NoChangeInvented
<1> QED
    BY <1>1, <1>2, <1>3, SchemaInvariance, PTL DEF Spec

(* Then a change blamed as certainly earlier than the incident was.        *)
THEOREM CertainBlameIsRight == ASSUME WholeGrants PROVE Spec => []CertainBlameIsEarlier
<1>1. TypeOK /\ KeptInv /\ NoChangeInvented => CertainBlameIsEarlier
    <2> SUFFICES ASSUME TypeOK, KeptInv, NoChangeInvented,
                        NEW start \in Starts, NEW x \in Selected(start),
                        Inside(start, x) = 0, Watched(x), HasColumn(seen[x.from])
                 PROVE  \E m \in migrations : m.object = x.object /\ m.at <= start
        BY DEF CertainBlameIsEarlier
    <2>1. x \in changes
        BY DEF Selected, Candidates, Loaded
    <2>2. Happened(x)
        BY <2>1 DEF NoChangeInvented
    <2>3. PICK m \in migrations : m.object = x.object /\ m.at <= Before(x)
        BY <2>2 DEF Happened
    <2>4. start \in Nat /\ Before(x) \in Nat /\ m.at \in Nat
        BY <2>1, ProximityAssumption DEF TypeOK, Changes, Before
    <2>5. Before(x) <= start
        <3>1. ~(start - Before(x) < 0)
            <4>1. ASSUME start - Before(x) < 0 PROVE FALSE
                <5>1. Inside(start, x) = -(start - Before(x))
                    BY <4>1 DEF Inside, Age
                <5> QED
                    BY <2>4, <4>1, <5>1
            <4> QED
                BY <4>1
        <3> QED
            BY <2>4, <3>1
    <2> QED
        BY <2>3, <2>4, <2>5
<1> QED
    BY <1>1, SchemaInvariance, ChangesAreReal, PTL

-----------------------------------------------------------------------------
(* When the detector says nothing of a change that may precede an incident *)
(* (StraddlingChangePresented is refuted): the collections that revealed   *)
(* such changes all came after the start, and in no other case. So what it *)
(* blames never overlaps the incident.                                     *)
OnlyLateRevelationsAreMissed ==
    \A start \in Starts :
        /\ Selected(start) = {} <=>
              \A x \in changes : MayPrecede(start, x) => start < Before(x)
        /\ \A x \in Selected(start) : Inside(start, x) = 0

(* A candidate was revealed by the start, at an age that is a natural.     *)
LEMMA CandidateAge ==
    ASSUME TypeOK, NEW start \in Starts, NEW x \in Candidates(start)
    PROVE  /\ Age(start, x) \in Nat /\ Inside(start, x) = 0
           /\ x \in changes /\ MayPrecede(start, x) /\ ~(start < Before(x))
<1>1. x \in changes /\ MayPrecede(start, x) /\ Before(x) <= start
    BY DEF Candidates, Loaded
<1>2. start \in Nat /\ Before(x) \in Nat
    BY <1>1, ProximityAssumption DEF TypeOK, Changes, Before
<1>3. Age(start, x) \in Nat /\ ~(start < Before(x))
    BY <1>1, <1>2 DEF Age
<1> QED
    BY <1>1, <1>3 DEF Inside

(* A candidate for each change that may precede and was revealed in time.  *)
LEMMA RevealedIsCandidate ==
    ASSUME TypeOK, NEW start \in Starts, NEW x \in changes,
           MayPrecede(start, x), ~(start < Before(x))
    PROVE  x \in Candidates(start)
<1>1. start \in Nat /\ Before(x) \in Nat /\ Lookback \in Nat
    BY ProximityAssumption DEF TypeOK, Changes, Before
<1>2. start - Before(x) <= Lookback
    BY DEF MayPrecede, Age
<1>3. start - Lookback <= Before(x) /\ Before(x) <= start
    BY <1>1, <1>2
<1> QED
    BY <1>3 DEF Candidates, Loaded

(* A change that may precede an incident and was revealed by its start is  *)
(* never passed over: the detector is silent only of later revelations.    *)
THEOREM OnlyTheLateAreMissed == Spec => []OnlyLateRevelationsAreMissed
<1>1. TypeOK => OnlyLateRevelationsAreMissed
    <2> SUFFICES ASSUME TypeOK, NEW start \in Starts
                 PROVE  /\ Selected(start) = {} <=>
                              \A x \in changes : MayPrecede(start, x) => start < Before(x)
                        /\ \A x \in Selected(start) : Inside(start, x) = 0
        BY DEF OnlyLateRevelationsAreMissed
    <2>1. Selected(start) \subseteq Candidates(start)
        BY DEF Selected
    <2>2. ASSUME Candidates(start) # {} PROVE Selected(start) # {}
        <3> DEFINE ages == {Age(start, x) : x \in Candidates(start)}
        <3>1. ages \subseteq Nat /\ ages # {}
            BY <2>2, CandidateAge
        <3>2. PICK least \in ages : \A a \in ages : least <= a
            <4> HIDE DEF ages
            <4> QED
                BY <3>1, LeastOf
        <3>3. PICK x \in Candidates(start) : Age(start, x) = least
            BY <3>2
        <3>4. \A y \in Candidates(start) : /\ Age(start, x) <= Age(start, y)
                                           /\ Inside(start, x) = Inside(start, y)
            BY <3>2, <3>3, CandidateAge
        <3> QED
            BY <3>3, <3>4 DEF Selected
    <2>3. Candidates(start) = {} <=>
            \A x \in changes : MayPrecede(start, x) => start < Before(x)
        BY CandidateAge, RevealedIsCandidate
    <2> QED
        BY <2>1, <2>2, <2>3, CandidateAge
<1> QED
    BY <1>1, SchemaTypeCorrect, PTL
=============================================================================
