---------------------------- MODULE ChangeProofs ----------------------------
(***************************************************************************)
(* Proofs about ChangeImport: the imports of one repository never wait for *)
(* each other in a circle, what a reported one left out is older than a    *)
(* page of deployments, and a diagnosis blames the nearest deployment the  *)
(* limit of its query let it see.                                          *)
(*                                                                         *)
(* The page GitHub answers, the limit of a query, the order of the inserts *)
(* and the choice of a suspect are all the same idea: a set in a strict    *)
(* order, and its foremost elements.  The order is a set of pairs, so that *)
(* what is proved of one serves the others.                                *)
(***************************************************************************)
EXTENDS ChangeImport, FiniteSetTheorems, FunctionTheorems, SequenceTheorems, TLAPS

Orders(R, S) ==
    /\ \A x \in S : <<x, x>> \notin R
    /\ \A x, y, z \in S : <<x, y>> \in R /\ <<y, z>> \in R => <<x, z>> \in R
    /\ \A x, y \in S : x # y => <<x, y>> \in R \/ <<y, x>> \in R

Ahead(R, S, x) == {y \in S : <<y, x>> \in R}
Foremost(R, S, n) == {x \in S : Cardinality(Ahead(R, S, x)) < n}
Sorted(R, S, s) ==
    /\ s \in [1 .. Cardinality(S) -> S]
    /\ \A m, n \in 1 .. Cardinality(S) : m < n => <<s[m], s[n]>> \in R
HoldsAll(S, s) == \A x \in S : \E m \in 1 .. Cardinality(S) : s[m] = x
Place(R, S) == [x \in S |-> Cardinality(Ahead(R, S, x)) + 1]

(* An element has fewer ahead of it than any it is ahead of.               *)
LEMMA AheadGrows ==
    ASSUME NEW R, NEW S, IsFiniteSet(S), Orders(R, S),
           NEW x \in S, NEW y \in S, <<y, x>> \in R
    PROVE  /\ Cardinality(Ahead(R, S, x)) \in Nat
           /\ Cardinality(Ahead(R, S, y)) \in Nat
           /\ Cardinality(Ahead(R, S, y)) < Cardinality(Ahead(R, S, x))
<1>1. Ahead(R, S, y) \cup {y} \subseteq Ahead(R, S, x)
    BY DEF Ahead, Orders
<1>2. y \notin Ahead(R, S, y)
    BY DEF Ahead, Orders
<1>3. IsFiniteSet(Ahead(R, S, y)) /\ IsFiniteSet(Ahead(R, S, x))
    <2>1. Ahead(R, S, y) \subseteq S /\ Ahead(R, S, x) \subseteq S
        BY DEF Ahead
    <2> QED
        BY <2>1, FS_Subset
<1>4. Cardinality(Ahead(R, S, y) \cup {y}) = Cardinality(Ahead(R, S, y)) + 1
    BY <1>2, <1>3, FS_AddElement
<1>5. Cardinality(Ahead(R, S, y) \cup {y}) <= Cardinality(Ahead(R, S, x))
    BY <1>1, <1>3, FS_Subset
<1>6. Cardinality(Ahead(R, S, y)) \in Nat /\ Cardinality(Ahead(R, S, x)) \in Nat
    BY <1>3, FS_CardinalityType
<1> QED
    BY <1>4, <1>5, <1>6

(* The places of the elements are the numbers up to how many there are.    *)
LEMMA PlaceIsBijection ==
    ASSUME NEW R, NEW S, IsFiniteSet(S), Orders(R, S)
    PROVE  /\ Cardinality(S) \in Nat
           /\ Place(R, S) \in [S -> 1 .. Cardinality(S)]
           /\ \A x, y \in S : Place(R, S)[x] = Place(R, S)[y] => x = y
           /\ \A m \in 1 .. Cardinality(S) : \E x \in S : Place(R, S)[x] = m
<1> DEFINE k == Cardinality(S)
<1>1. k \in Nat
    BY FS_CardinalityType
<1>2. ASSUME NEW x \in S PROVE Place(R, S)[x] \in 1 .. k
    <2>1. Ahead(R, S, x) \subseteq S \ {x}
        BY DEF Ahead, Orders
    <2>2. IsFiniteSet(S \ {x}) /\ Cardinality(S \ {x}) = k - 1
        BY FS_RemoveElement
    <2>3. /\ IsFiniteSet(Ahead(R, S, x))
          /\ Cardinality(Ahead(R, S, x)) <= k - 1
        BY <2>1, <2>2, FS_Subset
    <2>4. Cardinality(Ahead(R, S, x)) \in Nat
        BY <2>3, FS_CardinalityType
    <2> QED
        BY <1>1, <2>3, <2>4 DEF Place
<1>3. Place(R, S) \in [S -> 1 .. k]
    BY <1>2 DEF Place
<1>4. ASSUME NEW x \in S, NEW y \in S, Place(R, S)[x] = Place(R, S)[y] PROVE x = y
    <2>1. ASSUME NEW a \in S, NEW b \in S, <<a, b>> \in R
          PROVE  Place(R, S)[a] # Place(R, S)[b]
        BY <2>1, AheadGrows DEF Place
    <2> QED
        BY <1>4, <2>1 DEF Orders
<1>5. Place(R, S) \in Injection(S, 1 .. k)
    BY <1>3, <1>4, Fun_IsInj
<1>6. IsFiniteSet(1 .. k) /\ Cardinality(1 .. k) = k
    <2>1. 1 \in Int /\ k \in Int
        BY <1>1
    <2> QED
        BY <1>1, <2>1, FS_Interval
<1> HIDE DEF k
<1>7. Cardinality(S) = k
    BY DEF k
<1>8. Place(R, S) \in Surjection(S, 1 .. k)
    BY <1>5, <1>6, <1>7, FS_Injection
<1>9. \A m \in 1 .. k : \E x \in S : Place(R, S)[x] = m
    BY <1>8 DEF Surjection
<1> QED
    BY <1>1, <1>3, <1>4, <1>7, <1>9

(* Writing the elements down by their places puts them in order.           *)
LEMMA SortedExists ==
    ASSUME NEW R, NEW S, IsFiniteSet(S), Orders(R, S)
    PROVE  \E s \in [1 .. Cardinality(S) -> S] : Sorted(R, S, s)
<1> DEFINE k == Cardinality(S)
           place == Place(R, S)
           s == [m \in 1 .. k |-> CHOOSE x \in S : place[x] = m]
<1>1. /\ k \in Nat
      /\ \A m \in 1 .. k : \E x \in S : place[x] = m
    BY PlaceIsBijection
<1>2. \A m \in 1 .. k : s[m] \in S /\ place[s[m]] = m
    BY <1>1
<1>3. s \in [1 .. k -> S]
    BY <1>2
<1>4. ASSUME NEW m \in 1 .. k, NEW n \in 1 .. k, m < n PROVE <<s[m], s[n]>> \in R
    <2>1. s[m] \in S /\ s[n] \in S /\ place[s[m]] = m /\ place[s[n]] = n
        BY <1>2
    <2> HIDE DEF s, k
    <2>2. s[m] # s[n]
        BY <1>4, <2>1
    <2>3. ASSUME <<s[n], s[m]>> \in R PROVE FALSE
        <3>1. /\ Cardinality(Ahead(R, S, s[m])) \in Nat
              /\ Cardinality(Ahead(R, S, s[n])) \in Nat
              /\ Cardinality(Ahead(R, S, s[n])) < Cardinality(Ahead(R, S, s[m]))
            BY <2>1, <2>3, AheadGrows
        <3>2. n < m
            BY <2>1, <3>1 DEF Place
        <3>3. m \in Nat /\ n \in Nat
            BY <1>1 DEF k
        <3> QED
            BY <1>4, <3>2, <3>3
    <2> QED
        BY <2>1, <2>2, <2>3 DEF Orders
<1>5. Sorted(R, S, s)
    BY <1>3, <1>4 DEF Sorted
<1> HIDE DEF s
<1> QED
    BY <1>3, <1>5

(* A sequence in order holds every element.                                *)
LEMMA SortedHoldsAll ==
    ASSUME NEW R, NEW S, IsFiniteSet(S), Orders(R, S),
           NEW s, Sorted(R, S, s)
    PROVE  HoldsAll(S, s)
<1> DEFINE k == Cardinality(S)
<1>1. k \in Nat
    BY FS_CardinalityType
<1>2. ASSUME NEW m \in 1 .. k, NEW n \in 1 .. k, s[m] = s[n] PROVE m = n
    <2>1. ~(m < n) /\ ~(n < m)
        BY <1>2 DEF Orders, Sorted
    <2> QED
        BY <1>1, <2>1
<1>3. s \in Injection(1 .. k, S)
    BY <1>2, Fun_IsInj DEF Sorted
<1>4. IsFiniteSet(1 .. k) /\ Cardinality(1 .. k) = k
    <2>1. 1 \in Int /\ k \in Int
        BY <1>1
    <2> QED
        BY <1>1, <2>1, FS_Interval
<1> HIDE DEF k
<1>5. s \in Surjection(1 .. k, S)
    BY <1>3, <1>4, FS_Injection DEF k
<1> QED
    BY <1>5 DEF Surjection, k, HoldsAll

(* The n foremost are n, unless there are fewer and they are all of them.  *)
LEMMA ForemostCount ==
    ASSUME NEW R, NEW S, IsFiniteSet(S), Orders(R, S), NEW n \in Nat
    PROVE  /\ IsFiniteSet(Foremost(R, S, n))
           /\ Cardinality(Foremost(R, S, n)) <= n
           /\ Foremost(R, S, n) # S => Cardinality(Foremost(R, S, n)) = n
<1> DEFINE F == Foremost(R, S, n)
           place == Place(R, S)
           k == Cardinality(S)
<1>1. /\ k \in Nat /\ place \in [S -> 1 .. k]
      /\ \A x, y \in S : place[x] = place[y] => x = y
      /\ \A m \in 1 .. k : \E x \in S : place[x] = m
    BY PlaceIsBijection
<1>2. F \subseteq S
    BY DEF Foremost
<1>3. IsFiniteSet(F)
    BY <1>2, FS_Subset
<1>4. \A x \in S : x \in F <=> place[x] <= n
    <2> TAKE x \in S
    <2>1. Cardinality(Ahead(R, S, x)) \in Nat
        <3>1. Ahead(R, S, x) \subseteq S
            BY DEF Ahead
        <3> QED
            BY <3>1, FS_Subset, FS_CardinalityType
    <2> QED
        BY <2>1 DEF Foremost, Place
<1> HIDE DEF F, place, k
<1>5. CASE n >= k
    <2>1. F = S
        BY <1>1, <1>2, <1>4, <1>5
    <2> QED
        BY <1>1, <1>3, <1>5, <2>1 DEF F, k
<1>6. CASE n < k
    <2> DEFINE g == [x \in F |-> place[x]]
    <2>1. g \in [F -> 1 .. n]
        BY <1>1, <1>2, <1>4
    <2>2. \A x, y \in F : g[x] = g[y] => x = y
        BY <1>1, <1>2
    <2>3. \A m \in 1 .. n : \E x \in F : g[x] = m
        BY <1>1, <1>4, <1>6
    <2> HIDE DEF g
    <2>4. g \in Bijection(F, 1 .. n)
        BY <2>1, <2>2, <2>3, Fun_IsBij
    <2>5. Cardinality(1 .. n) = Cardinality(F)
        BY <1>3, <2>4, FS_Bijection DEF ExistsBijection
    <2>6. Cardinality(1 .. n) = n
        <3>1. 1 \in Int /\ n \in Int
            OBVIOUS
        <3> QED
            BY <3>1, FS_Interval
    <2> QED
        BY <1>3, <2>5, <2>6 DEF F
<1> QED
    BY <1>1, <1>5, <1>6

(* Whoever is not among the foremost has all of them ahead.                *)
LEMMA ForemostAreAhead ==
    ASSUME NEW R, NEW S, IsFiniteSet(S), Orders(R, S), NEW n \in Nat,
           NEW x \in S, x \notin Foremost(R, S, n)
    PROVE  Foremost(R, S, n) \subseteq Ahead(R, S, x)
<1> SUFFICES ASSUME NEW y \in Foremost(R, S, n) PROVE <<y, x>> \in R
    BY DEF Foremost, Ahead
<1>1. y \in S /\ y # x
    BY DEF Foremost
<1>2. ASSUME <<x, y>> \in R PROVE FALSE
    BY <1>1, <1>2, AheadGrows DEF Foremost
<1> QED
    BY <1>1, <1>2 DEF Orders

(* Of the elements of a set that is not empty, one has none ahead.         *)
LEMMA FirstExists ==
    ASSUME NEW R, NEW S, IsFiniteSet(S), Orders(R, S), S # {}
    PROVE  \E x \in S : \A y \in S : y # x => <<x, y>> \in R
<1>1. Cardinality(S) \in Nat /\ Cardinality(S) # 0
    BY FS_CardinalityType, FS_EmptySet
<1>2. 1 \in 1 .. Cardinality(S)
    BY <1>1
<1>3. PICK x \in S : Place(R, S)[x] = 1
    BY <1>2, PlaceIsBijection
<1>4. ASSUME NEW y \in S, <<y, x>> \in R PROVE FALSE
    BY <1>3, <1>4, AheadGrows DEF Place
<1> QED
    BY <1>4 DEF Orders

-----------------------------------------------------------------------------
(* The order of changes, in a snapshot and in a query: the newest first,   *)
(* those of one instant by their key as text.                              *)
Written(S, when, text) == {p \in S \X S : Before(when, text, p[1], p[2])}

(* Instants that can be compared, and a text of its own for each change.   *)
Dated(S, when, text) ==
    /\ \A x \in S : when[x] \in Nat /\ text[x] \in Nat
    /\ \A x, y \in S : text[x] = text[y] => x = y

(* It is a strict order of any set of changes.                             *)
LEMMA ChangesAreOrdered ==
    ASSUME NEW S, NEW when, NEW text, Dated(S, when, text)
    PROVE  Orders(Written(S, when, text), S)
<1>1. \A x, y \in S : <<x, y>> \in Written(S, when, text) <=>
          \/ when[x] > when[y]
          \/ when[x] = when[y] /\ text[x] < text[y]
    BY DEF Written, Before
<1>2. \A x \in S : when[x] \in Nat /\ text[x] \in Nat
    BY DEF Dated
<1>3. \A x \in S : <<x, x>> \notin Written(S, when, text)
    BY <1>1, <1>2
<1>4. \A x, y, z \in S :
          <<x, y>> \in Written(S, when, text) /\ <<y, z>> \in Written(S, when, text)
              => <<x, z>> \in Written(S, when, text)
    BY <1>1, <1>2
<1>5. ASSUME NEW x \in S, NEW y \in S, x # y
      PROVE  <<x, y>> \in Written(S, when, text) \/ <<y, x>> \in Written(S, when, text)
    <2>1. text[x] # text[y]
        BY <1>5 DEF Dated
    <2>2. /\ when[x] \in Nat /\ when[y] \in Nat
          /\ text[x] \in Nat /\ text[y] \in Nat
        BY <1>2
    <2> QED
        BY <1>1, <2>1, <2>2
<1> QED
    BY <1>3, <1>4, <1>5 DEF Orders

(* Commits and deployments are such sets, and so is what is taken of them. *)
LEMMA ChangesAreDated ==
    /\ \A S \in SUBSET Shas : Dated(S, CommittedAt, ShaText)
    /\ \A S \in SUBSET Ids : Dated(S, DeployedAt, KeyText)
<1>1. \A x \in Shas : CommittedAt[x] \in Nat /\ x \in Nat /\ ShaText[x] = x
    BY ChangeImportAssumption DEF ShaText
<1>2. /\ \A x \in Ids : DeployedAt[x] \in Nat /\ KeyText[x] \in Nat
      /\ \A x, y \in Ids : KeyText[x] = KeyText[y] => x = y
    BY ChangeImportAssumption
<1>3. \A S \in SUBSET Shas : Dated(S, CommittedAt, ShaText)
    BY <1>1 DEF Dated
<1>4. \A S \in SUBSET Ids : Dated(S, DeployedAt, KeyText)
    BY <1>2 DEF Dated
<1> QED
    BY <1>3, <1>4

(* The answer of a limited query is the foremost of the set it asks for.   *)
LEMMA FirstRowsAreForemost ==
    ASSUME NEW S
    PROVE  /\ FirstRows(S) = Foremost(Written(S, DeployedAt, KeyText), S, Limit)
           /\ \A x \in S : Ahead(Written(S, DeployedAt, KeyText), S, x) =
                 {y \in S : Before(DeployedAt, KeyText, y, x)}
<1>1. \A x \in S : Ahead(Written(S, DeployedAt, KeyText), S, x) =
          {y \in S : Before(DeployedAt, KeyText, y, x)}
    BY DEF Ahead, Written
<1> QED
    BY <1>1 DEF FirstRows, Foremost

(* What InOrder chooses exists: it is sorted and holds every element.      *)
LEMMA InOrderIsSorted ==
    ASSUME NEW S, NEW when, NEW text, IsFiniteSet(S), Dated(S, when, text)
    PROVE  /\ Sorted(Written(S, when, text), S, InOrder(S, when, text))
           /\ HoldsAll(S, InOrder(S, when, text))
<1> DEFINE P(s) == \A m, n \in 1 .. Cardinality(S) :
                       m < n => Before(when, text, s[m], s[n])
<1>1. Orders(Written(S, when, text), S)
    BY ChangesAreOrdered
<1>2. \A s \in [1 .. Cardinality(S) -> S] : Sorted(Written(S, when, text), S, s) <=> P(s)
    BY DEF Sorted, Written
<1>3. \E s \in [1 .. Cardinality(S) -> S] : P(s)
    BY <1>1, <1>2, SortedExists
<1>4. InOrder(S, when, text) = CHOOSE s \in [1 .. Cardinality(S) -> S] : P(s)
    BY DEF InOrder
<1> HIDE DEF P
<1>5. /\ InOrder(S, when, text) \in [1 .. Cardinality(S) -> S]
      /\ P(InOrder(S, when, text))
    BY <1>3, <1>4
<1>6. Sorted(Written(S, when, text), S, InOrder(S, when, text))
    BY <1>2, <1>5
<1> QED
    BY <1>1, <1>6, SortedHoldsAll

-----------------------------------------------------------------------------
(* The order every import writes the rows in.                              *)
RowOrder ==
    {p \in Rows \X Rows :
        \/ p[1].table = "commits" /\ p[2].table = "deployments"
        \/ /\ p[1].table = "commits" /\ p[2].table = "commits"
           /\ <<p[1].key, p[2].key>> \in Written(Shas, CommittedAt, ShaText)
        \/ /\ p[1].table = "deployments" /\ p[2].table = "deployments"
           /\ <<p[1].key, p[2].key>> \in Written(Ids, DeployedAt, KeyText)}

Backwards == {p \in Rows \X Rows : <<p[2], p[1]>> \in RowOrder}

(* Read from its end, it is a strict order of the rows.                    *)
LEMMA RowsAreOrdered == Orders(Backwards, Rows)
<1>1. /\ Orders(Written(Shas, CommittedAt, ShaText), Shas)
      /\ Orders(Written(Ids, DeployedAt, KeyText), Ids)
    BY ChangesAreOrdered, ChangesAreDated
<1>2. \A x, y \in Rows : <<x, y>> \in Backwards <=> <<y, x>> \in RowOrder
    BY DEF Backwards
<1>3. \A x \in Rows : \/ x.table = "commits" /\ x.key \in Shas /\ x = CommitRow(x.key)
                      \/ x.table = "deployments" /\ x.key \in Ids /\ x = DeploymentRow(x.key)
    BY DEF Rows, CommitRow, DeploymentRow
<1>4. \A x, y \in Rows : <<x, y>> \in RowOrder <=>
        \/ x.table = "commits" /\ y.table = "deployments"
        \/ /\ x.table = "commits" /\ y.table = "commits"
           /\ <<x.key, y.key>> \in Written(Shas, CommittedAt, ShaText)
        \/ /\ x.table = "deployments" /\ y.table = "deployments"
           /\ <<x.key, y.key>> \in Written(Ids, DeployedAt, KeyText)
    BY DEF RowOrder
<1>5. \A x \in Rows : <<x, x>> \notin RowOrder
    BY <1>1, <1>3, <1>4 DEF Orders
<1>6. ASSUME NEW x \in Rows, NEW y \in Rows, NEW z \in Rows,
             <<x, y>> \in RowOrder, <<y, z>> \in RowOrder
      PROVE  <<x, z>> \in RowOrder
    BY <1>1, <1>3, <1>4, <1>6 DEF Orders
<1>7. ASSUME NEW x \in Rows, NEW y \in Rows, x # y
      PROVE  <<x, y>> \in RowOrder \/ <<y, x>> \in RowOrder
    <2>1. x.table # y.table \/ x.key # y.key
        BY <1>3, <1>7
    <2> QED
        BY <1>1, <1>3, <1>4, <2>1 DEF Orders
<1> QED
    BY <1>2, <1>5, <1>6, <1>7 DEF Orders

(* The rows the shas and identifiers can name are finitely many.           *)
LEMMA RowsAreFinite == IsFiniteSet(Rows)
<1> DEFINE commits == {CommitRow(sha) : sha \in Shas}
           deployments == {DeploymentRow(id) : id \in Ids}
           f == [sha \in Shas |-> CommitRow(sha)]
           g == [id \in Ids |-> DeploymentRow(id)]
<1>1. f \in Surjection(Shas, commits) /\ g \in Surjection(Ids, deployments)
    BY DEF Surjection
<1> HIDE DEF commits, deployments, f, g
<1>2. IsFiniteSet(commits) /\ IsFiniteSet(deployments)
    BY <1>1, FS_Surjection, ChangeImportAssumption
<1>3. IsFiniteSet(commits \cup deployments)
    BY <1>2, FS_Union
<1> QED
    BY <1>3 DEF Rows, commits, deployments

(* Commits come before deployments, and each kind in its order.            *)
LEMMA RowsCompared ==
    /\ \A c, d \in Shas : <<c, d>> \in Written(Shas, CommittedAt, ShaText) =>
           <<CommitRow(c), CommitRow(d)>> \in RowOrder
    /\ \A c \in Shas, d \in Ids : <<CommitRow(c), DeploymentRow(d)>> \in RowOrder
    /\ \A c, d \in Ids : <<c, d>> \in Written(Ids, DeployedAt, KeyText) =>
           <<DeploymentRow(c), DeploymentRow(d)>> \in RowOrder
<1>1. /\ \A c \in Shas : /\ CommitRow(c) \in Rows /\ CommitRow(c).table = "commits"
                          /\ CommitRow(c).key = c
      /\ \A d \in Ids : /\ DeploymentRow(d) \in Rows /\ DeploymentRow(d).table = "deployments"
                         /\ DeploymentRow(d).key = d
    BY DEF Rows, CommitRow, DeploymentRow
<1>2. \A x, y \in Rows : <<x, y>> \in RowOrder <=>
        \/ x.table = "commits" /\ y.table = "deployments"
        \/ /\ x.table = "commits" /\ y.table = "commits"
           /\ <<x.key, y.key>> \in Written(Shas, CommittedAt, ShaText)
        \/ /\ x.table = "deployments" /\ y.table = "deployments"
           /\ <<x.key, y.key>> \in Written(Ids, DeployedAt, KeyText)
    BY DEF RowOrder
<1> QED
    BY <1>1, <1>2

(* The rows of an import are written in that order, and none is left out.  *)
LEMMA SnapshotIsSorted ==
    ASSUME NEW C, NEW D, C \subseteq Shas, D \subseteq Ids
    PROVE  /\ Snapshot(C, D) \in Seq(Rows)
           /\ \A m, n \in 1 .. Len(Snapshot(C, D)) : m < n =>
                 <<Snapshot(C, D)[m], Snapshot(C, D)[n]>> \in RowOrder
           /\ \A id \in D : \E m \in 1 .. Len(Snapshot(C, D)) :
                 Snapshot(C, D)[m] = DeploymentRow(id)
<1> DEFINE cs == InOrder(C, CommittedAt, ShaText)
           ds == InOrder(D, DeployedAt, KeyText)
           a == [n \in 1 .. Len(cs) |-> CommitRow(cs[n])]
           b == [n \in 1 .. Len(ds) |-> DeploymentRow(ds[n])]
           x == Cardinality(C)
           y == Cardinality(D)
<1>1. /\ IsFiniteSet(C) /\ IsFiniteSet(D)
      /\ Dated(C, CommittedAt, ShaText) /\ Dated(D, DeployedAt, KeyText)
    BY FS_Subset, ChangesAreDated, ChangeImportAssumption
<1>2. x \in Nat /\ y \in Nat
    BY <1>1, FS_CardinalityType
<1>3. /\ Sorted(Written(C, CommittedAt, ShaText), C, cs)
      /\ Sorted(Written(D, DeployedAt, KeyText), D, ds)
      /\ \A d \in D : \E m \in 1 .. y : ds[m] = d
    <2>1. Sorted(Written(C, CommittedAt, ShaText), C, cs)
        BY <1>1, InOrderIsSorted
    <2>2. Sorted(Written(D, DeployedAt, KeyText), D, ds) /\ HoldsAll(D, ds)
        BY <1>1, InOrderIsSorted
    <2> QED
        BY <2>1, <2>2 DEF HoldsAll
<1>4. Snapshot(C, D) = a \o b
    BY DEF Snapshot
<1> HIDE DEF cs, ds
<1>5. /\ cs \in [1 .. x -> C] /\ ds \in [1 .. y -> D]
      /\ \A m, n \in 1 .. x : m < n => <<cs[m], cs[n]>> \in Written(C, CommittedAt, ShaText)
      /\ \A m, n \in 1 .. y : m < n => <<ds[m], ds[n]>> \in Written(D, DeployedAt, KeyText)
    BY <1>3 DEF Sorted
<1> HIDE DEF x, y
<1>6. Len(cs) = x /\ Len(ds) = y
    BY <1>2, <1>5
<1>7. /\ \A n \in 1 .. x : a[n] = CommitRow(cs[n]) /\ a[n] \in Rows
      /\ \A n \in 1 .. y : b[n] = DeploymentRow(ds[n]) /\ b[n] \in Rows
    BY <1>5, <1>6 DEF Rows
<1>8. a \in Seq(Rows) /\ b \in Seq(Rows) /\ Len(a) = x /\ Len(b) = y
    BY <1>2, <1>6, <1>7
<1> HIDE DEF a, b
<1>9. /\ a \o b \in Seq(Rows) /\ Len(a \o b) = x + y
      /\ \A m \in 1 .. x : (a \o b)[m] = a[m]
      /\ \A m \in 1 .. y : (a \o b)[x + m] = b[m]
      /\ \A m \in 1 .. x + y : m \in 1 .. x \/ \E k \in 1 .. y : m = x + k
    <2>1. /\ a \o b \in Seq(Rows) /\ Len(a \o b) = x + y
          /\ \A m \in 1 .. x : (a \o b)[m] = a[m]
        BY <1>2, <1>8
    <2>2. ASSUME NEW m \in 1 .. y PROVE (a \o b)[x + m] = b[m]
        BY <1>2, <1>8, <2>2
    <2>3. ASSUME NEW m \in 1 .. x + y, m \notin 1 .. x PROVE \E k \in 1 .. y : m = x + k
        <3>1. m - x \in 1 .. y /\ m = x + (m - x)
            BY <1>2, <2>3
        <3> QED
            BY <3>1
    <2> QED
        BY <2>1, <2>2, <2>3
<1>10. ASSUME NEW m \in 1 .. x + y, NEW n \in 1 .. x + y, m < n
       PROVE  <<(a \o b)[m], (a \o b)[n]>> \in RowOrder
    <2>1. CASE m \in 1 .. x /\ n \in 1 .. x
        <3>1. <<cs[m], cs[n]>> \in Written(Shas, CommittedAt, ShaText)
            BY <1>5, <1>10, <2>1 DEF Written
        <3>2. cs[m] \in Shas /\ cs[n] \in Shas
            BY <1>5, <2>1
        <3>3. (a \o b)[m] = CommitRow(cs[m]) /\ (a \o b)[n] = CommitRow(cs[n])
            BY <1>7, <1>9, <2>1
        <3> QED
            BY <3>1, <3>2, <3>3, RowsCompared
    <2>2. ASSUME NEW k \in 1 .. y, n = x + k, m \in 1 .. x
          PROVE  <<(a \o b)[m], (a \o b)[n]>> \in RowOrder
        <3>1. cs[m] \in Shas /\ ds[k] \in Ids
            BY <1>5, <2>2
        <3>2. (a \o b)[m] = CommitRow(cs[m]) /\ (a \o b)[n] = DeploymentRow(ds[k])
            BY <1>7, <1>9, <2>2
        <3> QED
            BY <3>1, <3>2, RowsCompared
    <2>3. ASSUME NEW k \in 1 .. y, n = x + k, NEW l \in 1 .. y, m = x + l
          PROVE  <<(a \o b)[m], (a \o b)[n]>> \in RowOrder
        <3>1. l < k
            BY <1>2, <1>10, <2>3
        <3>2. <<ds[l], ds[k]>> \in Written(Ids, DeployedAt, KeyText)
            BY <1>5, <3>1 DEF Written
        <3>3. ds[l] \in Ids /\ ds[k] \in Ids
            BY <1>5, <2>3
        <3>4. (a \o b)[m] = DeploymentRow(ds[l]) /\ (a \o b)[n] = DeploymentRow(ds[k])
            BY <1>7, <1>9, <2>3
        <3> QED
            BY <3>2, <3>3, <3>4, RowsCompared
    <2>4. ~(m \in 1 .. x) => ~(n \in 1 .. x)
        BY <1>2, <1>10
    <2> QED
        BY <1>9, <2>1, <2>2, <2>3, <2>4
<1>11. ASSUME NEW id \in D PROVE \E m \in 1 .. x + y : (a \o b)[m] = DeploymentRow(id)
    <2>1. PICK m \in 1 .. y : ds[m] = id
        BY <1>3 DEF y
    <2>2. x + m \in 1 .. x + y
        BY <1>2
    <2> QED
        BY <1>7, <1>9, <2>1, <2>2
<1> QED
    BY <1>4, <1>9, <1>10, <1>11

-----------------------------------------------------------------------------
(* The inductive invariant.  An import writes rows in the common order and *)
(* its transaction holds none it has not reached; what it has passed is    *)
(* stored or will be with its commit; what it fetched is in its batch.     *)
WriteInv ==
    \A i \in Imports :
        /\ batch[i] \in Seq(Rows) /\ next[i] \in 1 .. Len(batch[i]) + 1
        /\ \A m, n \in 1 .. Len(batch[i]) : m < n =>
              <<batch[i][m], batch[i][n]>> \in RowOrder
        /\ pc[i] = "fetch" => next[i] = 1
        /\ pc[i] # "saving" => mine[i] = {}
        /\ \A r \in mine[i] : \E m \in 1 .. Len(batch[i]) : m < next[i] /\ r = batch[i][m]

StoreInv ==
    \A i \in Imports : \A m \in 1 .. Len(batch[i]) :
        /\ pc[i] = "saving" /\ m < next[i] =>
              batch[i][m] \in mine[i] \/ stored[batch[i][m]] # Nobody
        /\ pc[i] = "imported" => stored[batch[i][m]] # Nobody

PageInv ==
    \A i \in Imports : pc[i] \in {"saving", "imported"} /\ Request[i].deployments =>
        \A id \in Newest(asked[i], DeployedAt, Page) : InWindow(i, DeployedAt[id]) =>
            \E m \in 1 .. Len(batch[i]) : batch[i][m] = DeploymentRow(id)

StateInv ==
    /\ github \subseteq Ids
    /\ stored \in [Rows -> Imports \cup {Nobody}]
    /\ pc \in [Imports -> {"fetch", "saving", "imported", "failed"}]
    /\ asked \in [Imports -> SUBSET Ids] /\ \A i \in Imports : asked[i] \subseteq github
    /\ batch \in [Imports -> Seq(Rows)] /\ next \in [Imports -> Nat]
    /\ mine \in [Imports -> SUBSET Rows]

IInv == StateInv /\ WriteInv /\ StoreInv /\ PageInv

(* Before anything ran, nothing is stored and no batch holds a row.        *)
LEMMA ImportStarts == Init => IInv
<1> SUFFICES ASSUME Init PROVE IInv
    OBVIOUS
<1>1. StateInv
    BY DEF Init, StateInv
<1>2. \A i \in Imports : batch[i] = <<>> /\ next[i] = 1 /\ pc[i] = "fetch" /\ mine[i] = {}
    BY DEF Init
<1>3. <<>> \in Seq(Rows) /\ Len(<<>>) = 0 /\ 1 .. Len(<<>>) = {}
    OBVIOUS
<1>4. \A i \in Imports : batch[i] \in Seq(Rows) /\ Len(batch[i]) = 0 /\ 1 .. Len(batch[i]) = {}
    BY <1>2, <1>3
<1>5. WriteInv
    BY <1>2, <1>4 DEF WriteInv
<1>6. StoreInv
    BY <1>2, <1>4 DEF StoreInv
<1>7. PageInv
    BY <1>2 DEF PageInv
<1> QED
    BY <1>1, <1>5, <1>6, <1>7 DEF IInv

(* What a page keeps of what there is, or of a window, is among it.        *)
LEMMA FetchedIsAsked ==
    ASSUME StateInv, NEW i \in Imports
    PROVE  /\ FetchedCommits(i) \subseteq Shas
           /\ FetchedDeployments(i) \subseteq Ids
           /\ \A id \in Newest(github, DeployedAt, Page) :
                 InWindow(i, DeployedAt[id]) => id \in FetchedDeployments(i)
BY DEF FetchedCommits, FetchedDeployments, Newest, StateInv

(* A fetch replaces the batch of an import by a snapshot of what it asked. *)
LEMMA FetchKeeps ==
    ASSUME IInv, NEW i \in Imports, Fetch(i)
    PROVE  IInv'
<1> DEFINE rows == Snapshot(IF Request[i].commits THEN FetchedCommits(i) ELSE {},
                            IF Request[i].deployments THEN FetchedDeployments(i) ELSE {})
<1>1. /\ rows \in Seq(Rows)
      /\ \A m, n \in 1 .. Len(rows) : m < n => <<rows[m], rows[n]>> \in RowOrder
      /\ Request[i].deployments => \A id \in FetchedDeployments(i) :
            \E m \in 1 .. Len(rows) : rows[m] = DeploymentRow(id)
    <2> DEFINE C == IF Request[i].commits THEN FetchedCommits(i) ELSE {}
               D == IF Request[i].deployments THEN FetchedDeployments(i) ELSE {}
    <2>1. C \subseteq Shas /\ D \subseteq Ids
        BY FetchedIsAsked DEF IInv
    <2>2. rows = Snapshot(C, D) /\ (Request[i].deployments => D = FetchedDeployments(i))
        OBVIOUS
    <2> HIDE DEF C, D, rows
    <2>3. /\ Snapshot(C, D) \in Seq(Rows)
          /\ \A m, n \in 1 .. Len(Snapshot(C, D)) : m < n =>
                <<Snapshot(C, D)[m], Snapshot(C, D)[n]>> \in RowOrder
          /\ \A id \in D : \E m \in 1 .. Len(Snapshot(C, D)) :
                Snapshot(C, D)[m] = DeploymentRow(id)
        BY <2>1, SnapshotIsSorted
    <2> QED
        BY <2>2, <2>3
<1>2. /\ pc[i] = "fetch" /\ asked' = [asked EXCEPT ![i] = github]
      /\ batch' = [batch EXCEPT ![i] = rows] /\ pc' = [pc EXCEPT ![i] = "saving"]
      /\ UNCHANGED <<github, stored, next, mine>>
    BY DEF Fetch
<1> HIDE DEF rows
<1>3. /\ asked'[i] = github /\ batch'[i] = rows /\ pc'[i] = "saving"
      /\ next[i] = 1 /\ mine[i] = {}
      /\ \A j \in Imports \ {i} : asked'[j] = asked[j] /\ batch'[j] = batch[j] /\ pc'[j] = pc[j]
    BY <1>2 DEF IInv, StateInv, WriteInv
<1>4. Len(rows) \in Nat
    BY <1>1
<1>5. StateInv'
    BY <1>1, <1>2, <1>3 DEF IInv, StateInv
<1>6. WriteInv'
    <2> SUFFICES ASSUME NEW j \in Imports PROVE
        (/\ batch[j] \in Seq(Rows) /\ next[j] \in 1 .. Len(batch[j]) + 1
         /\ \A m, n \in 1 .. Len(batch[j]) : m < n =>
               <<batch[j][m], batch[j][n]>> \in RowOrder
         /\ pc[j] = "fetch" => next[j] = 1
         /\ pc[j] # "saving" => mine[j] = {}
         /\ \A r \in mine[j] : \E m \in 1 .. Len(batch[j]) : m < next[j] /\ r = batch[j][m])'
        BY DEF WriteInv
    <2>1. CASE j = i
        BY <1>1, <1>2, <1>3, <1>4, <2>1
    <2>2. CASE j # i
        BY <1>2, <1>3, <2>2 DEF IInv, WriteInv
    <2> QED
        BY <2>1, <2>2
<1>7. StoreInv'
    <2> SUFFICES ASSUME NEW j \in Imports, NEW m \in 1 .. Len(batch'[j]) PROVE
        (/\ pc[j] = "saving" /\ m < next[j] =>
               batch[j][m] \in mine[j] \/ stored[batch[j][m]] # Nobody
         /\ pc[j] = "imported" => stored[batch[j][m]] # Nobody)'
        BY DEF StoreInv
    <2>1. CASE j = i
        BY <1>2, <1>3, <1>4, <2>1
    <2>2. CASE j # i
        BY <1>2, <1>3, <2>2 DEF IInv, StoreInv
    <2> QED
        BY <2>1, <2>2
<1>8. PageInv'
    <2> SUFFICES ASSUME NEW j \in Imports, pc'[j] \in {"saving", "imported"},
                        Request[j].deployments,
                        NEW id \in Newest(asked'[j], DeployedAt, Page),
                        InWindow(j, DeployedAt[id])
                 PROVE  \E m \in 1 .. Len(batch'[j]) : batch'[j][m] = DeploymentRow(id)
        BY DEF PageInv
    <2>1. CASE j = i
        BY <1>1, <1>3, <2>1, FetchedIsAsked DEF IInv
    <2>2. CASE j # i
        BY <1>3, <2>2 DEF IInv, PageInv
    <2> QED
        BY <2>1, <2>2
<1> QED
    BY <1>5, <1>6, <1>7, <1>8 DEF IInv

(* An insert takes the next row, or finds it stored already.               *)
LEMMA InsertKeeps ==
    ASSUME IInv, NEW i \in Imports, Insert(i)
    PROVE  IInv'
<1>1. /\ pc[i] = "saving" /\ next[i] <= Len(batch[i])
      /\ mine' = [mine EXCEPT ![i] = IF stored[NextRow(i)] = Nobody
                                     THEN @ \cup {NextRow(i)} ELSE @]
      /\ next' = [next EXCEPT ![i] = @ + 1]
      /\ UNCHANGED <<github, stored, pc, asked, batch>>
    BY DEF Insert, Inserting
<1>2. next[i] \in 1 .. Len(batch[i]) /\ Len(batch[i]) \in Nat /\ NextRow(i) \in Rows
    <2>1. batch[i] \in Seq(Rows) /\ next[i] \in 1 .. Len(batch[i]) + 1
        BY DEF IInv, WriteInv
    <2>2. next[i] \in 1 .. Len(batch[i]) /\ Len(batch[i]) \in Nat
        BY <1>1, <2>1
    <2> QED
        BY <2>1, <2>2 DEF NextRow
<1>3. /\ next'[i] = next[i] + 1
      /\ mine'[i] = IF stored[NextRow(i)] = Nobody THEN mine[i] \cup {NextRow(i)} ELSE mine[i]
      /\ \A j \in Imports \ {i} : next'[j] = next[j] /\ mine'[j] = mine[j]
    BY <1>1 DEF IInv, StateInv
<1>4. StateInv'
    BY <1>1, <1>2, <1>3 DEF IInv, StateInv
<1>5. WriteInv'
    <2> SUFFICES ASSUME NEW j \in Imports PROVE
        (/\ batch[j] \in Seq(Rows) /\ next[j] \in 1 .. Len(batch[j]) + 1
         /\ \A m, n \in 1 .. Len(batch[j]) : m < n =>
               <<batch[j][m], batch[j][n]>> \in RowOrder
         /\ pc[j] = "fetch" => next[j] = 1
         /\ pc[j] # "saving" => mine[j] = {}
         /\ \A r \in mine[j] : \E m \in 1 .. Len(batch[j]) : m < next[j] /\ r = batch[j][m])'
        BY DEF WriteInv
    <2>1. CASE j = i
        <3>1. \A r \in mine'[i] : \E m \in 1 .. Len(batch[i]) :
                  m < next[i] + 1 /\ r = batch[i][m]
            <4> TAKE r \in mine'[i]
            <4>1. CASE r \in mine[i]
                <5>1. PICK m \in 1 .. Len(batch[i]) : m < next[i] /\ r = batch[i][m]
                    BY <4>1 DEF IInv, WriteInv
                <5> QED
                    BY <1>2, <5>1
            <4>2. CASE r = NextRow(i)
                BY <1>2, <4>2 DEF NextRow
            <4> QED
                BY <1>3, <4>1, <4>2
        <3>2. next[i] + 1 \in 1 .. Len(batch[i]) + 1
            BY <1>2
        <3> QED
            BY <1>1, <1>3, <2>1, <3>1, <3>2 DEF IInv, WriteInv
    <2>2. CASE j # i
        BY <1>1, <1>3, <2>2 DEF IInv, WriteInv
    <2> QED
        BY <2>1, <2>2
<1>6. StoreInv'
    <2> SUFFICES ASSUME NEW j \in Imports, NEW m \in 1 .. Len(batch[j]) PROVE
        /\ pc[j] = "saving" /\ m < next'[j] =>
              batch[j][m] \in mine'[j] \/ stored[batch[j][m]] # Nobody
        /\ pc[j] = "imported" => stored[batch[j][m]] # Nobody
        BY <1>1 DEF StoreInv
    <2>1. CASE j = i /\ m < next[i]
        BY <1>1, <1>3, <2>1 DEF IInv, StoreInv
    <2>2. CASE j = i /\ m = next[i]
        BY <1>1, <1>3, <2>2 DEF NextRow
    <2>3. CASE j = i /\ m > next[i]
        BY <1>1, <1>2, <1>3, <2>3
    <2>4. CASE j # i
        BY <1>3, <2>4 DEF IInv, StoreInv
    <2> QED
        BY <1>2, <2>1, <2>2, <2>3, <2>4
<1>7. PageInv'
    BY <1>1 DEF IInv, PageInv
<1> QED
    BY <1>4, <1>5, <1>6, <1>7 DEF IInv

(* The end of a transaction, whatever becomes of its rows: none that was   *)
(* stored is lost.                                                         *)
LEMMA EndKeeps ==
    ASSUME IInv, NEW i \in Imports, NEW how \in {"imported", "failed"}, End(i, how),
           stored' \in [Rows -> Imports \cup {Nobody}],
           \A r \in Rows : stored[r] # Nobody => stored'[r] # Nobody,
           how = "imported" => /\ pc[i] = "saving" /\ next[i] > Len(batch[i])
                               /\ \A r \in mine[i] : stored'[r] # Nobody
    PROVE  IInv'
<1>1. /\ pc' = [pc EXCEPT ![i] = how] /\ mine' = [mine EXCEPT ![i] = {}]
      /\ UNCHANGED <<github, asked, batch, next>>
    BY DEF End
<1>2. /\ pc'[i] = how /\ mine'[i] = {}
      /\ \A j \in Imports \ {i} : pc'[j] = pc[j] /\ mine'[j] = mine[j]
    BY <1>1 DEF IInv, StateInv
<1>3. StateInv'
    BY <1>1 DEF IInv, StateInv
<1>4. WriteInv'
    BY <1>1, <1>2 DEF IInv, WriteInv
<1>5. StoreInv'
    <2> SUFFICES ASSUME NEW j \in Imports, NEW m \in 1 .. Len(batch[j]) PROVE
        /\ pc'[j] = "saving" /\ m < next[j] =>
              batch[j][m] \in mine'[j] \/ stored'[batch[j][m]] # Nobody
        /\ pc'[j] = "imported" => stored'[batch[j][m]] # Nobody
        BY <1>1 DEF StoreInv
    <2>1. batch[j][m] \in Rows /\ batch[j] \in Seq(Rows)
        BY DEF IInv, WriteInv
    <2>2. CASE j = i /\ how = "imported"
        <3>1. m < next[i]
            BY <2>1, <2>2 DEF IInv, StateInv
        <3>2. batch[i][m] \in mine[i] \/ stored[batch[i][m]] # Nobody
            BY <2>2, <3>1 DEF IInv, StoreInv
        <3> QED
            BY <1>2, <2>1, <2>2, <3>2
    <2>3. CASE j = i /\ how = "failed"
        BY <1>2, <2>3
    <2>4. CASE j # i
        BY <1>2, <2>1, <2>4 DEF IInv, StoreInv
    <2> QED
        BY <2>2, <2>3, <2>4
<1>6. PageInv'
    <2> SUFFICES ASSUME NEW j \in Imports, pc'[j] \in {"saving", "imported"},
                        Request[j].deployments,
                        NEW id \in Newest(asked[j], DeployedAt, Page),
                        InWindow(j, DeployedAt[id])
                 PROVE  \E m \in 1 .. Len(batch[j]) : batch[j][m] = DeploymentRow(id)
        BY <1>1 DEF PageInv
    <2>1. pc[j] \in {"saving", "imported"}
        BY <1>2
    <2> QED
        BY <2>1 DEF IInv, PageInv
<1> QED
    BY <1>3, <1>4, <1>5, <1>6 DEF IInv

(* Every step keeps the invariant.                                         *)
LEMMA ImportStep == IInv /\ [Next]_vars => IInv'
<1> SUFFICES ASSUME IInv, [Next]_vars PROVE IInv'
    OBVIOUS
<1>1. CASE UNCHANGED vars
    BY <1>1 DEF vars, IInv, StateInv, WriteInv, StoreInv, PageInv
<1>2. ASSUME NEW id \in Ids, Deploy(id) PROVE IInv'
    <2>1. github' = github \cup {id} /\ UNCHANGED <<stored, pc, asked, batch, next, mine>>
        BY <1>2 DEF Deploy
    <2>2. StateInv'
        BY <2>1 DEF IInv, StateInv
    <2> QED
        BY <2>1, <2>2 DEF IInv, WriteInv, StoreInv, PageInv
<1>3. ASSUME NEW i \in Imports, Commit(i) \/ LoseCommit(i) PROVE IInv'
    <2>1. /\ pc[i] = "saving" /\ next[i] > Len(batch[i]) /\ Publish(i)
          /\ End(i, "imported") \/ End(i, "failed")
        BY <1>3 DEF Commit, LoseCommit
    <2>2. stored' = [r \in Rows |-> IF r \in mine[i] THEN i ELSE stored[r]]
        BY <2>1 DEF Publish
    <2>3. i # Nobody
        BY ChangeImportAssumption
    <2>4. stored' \in [Rows -> Imports \cup {Nobody}]
        BY <2>2 DEF IInv, StateInv
    <2>5. \A r \in Rows : stored[r] # Nobody => stored'[r] # Nobody
        BY <2>2, <2>3
    <2>6. \A r \in mine[i] : stored'[r] # Nobody
        BY <2>2, <2>3 DEF IInv, StateInv
    <2> QED
        BY <2>1, <2>4, <2>5, <2>6, EndKeeps
<1>4. ASSUME NEW i \in Imports, Fail(i) PROVE IInv'
    <2>1. End(i, "failed") /\ stored' = stored
        BY <1>4 DEF Fail
    <2>2. stored' \in [Rows -> Imports \cup {Nobody}]
        BY <2>1 DEF IInv, StateInv
    <2> QED
        BY <2>1, <2>2, EndKeeps
<1> QED
    BY <1>1, <1>2, <1>3, <1>4, FetchKeeps, InsertKeeps DEF Next

(* The state is well typed and the invariant holds, whatever the order in  *)
(* which deployments are created, imports fetch, insert, commit and fail.  *)
THEOREM ImportInvariance == Spec => []IInv
<1> QED
    BY ImportStarts, ImportStep, PTL DEF Spec

(* The rows of an import are rows of the two tables, the next insert is    *)
(* one of them or past the last, and a transaction holds only its own.     *)
THEOREM ImportTypeCorrect == Spec => []TypeOK
<1>1. IInv => TypeOK
    <2> SUFFICES ASSUME IInv, NEW i \in Imports
                 PROVE  /\ ToSet(batch[i]) \subseteq Rows
                        /\ next[i] \in 1 .. Len(batch[i]) + 1
                        /\ mine[i] \subseteq ToSet(batch[i])
        BY DEF TypeOK, IInv, StateInv
    <2>1. batch[i] \in Seq(Rows)
        BY DEF IInv, WriteInv
    <2>2. ToSet(batch[i]) = {batch[i][m] : m \in 1 .. Len(batch[i])}
        BY <2>1 DEF ToSet
    <2> QED
        BY <2>1, <2>2 DEF IInv, WriteInv
<1> QED
    BY <1>1, ImportInvariance, PTL

-----------------------------------------------------------------------------
(* Of a circle of imports that wait, look at the one whose next row is the *)
(* last: the one it waits for holds that row, so its own next row is later *)
(* still.                                                                  *)
LEMMA NobodyWaitsInACircle == IInv => NoImportDeadlock
<1> SUFFICES ASSUME IInv, NEW C \in (SUBSET Imports) \ {{}},
                    \A i \in C : \E j \in C : WaitsFor(i, j)
             PROVE  FALSE
    BY DEF NoImportDeadlock
<1> DEFINE W == {NextRow(i) : i \in C}
<1>1. \A i \in C : Inserting(i)
    BY DEF WaitsFor
<1>2. ASSUME NEW i \in C PROVE /\ batch[i] \in Seq(Rows) /\ next[i] \in 1 .. Len(batch[i])
                               /\ NextRow(i) \in Rows
    <2>1. batch[i] \in Seq(Rows) /\ next[i] \in 1 .. Len(batch[i]) + 1 /\ next[i] <= Len(batch[i])
        BY <1>1 DEF IInv, WriteInv, Inserting
    <2>2. next[i] \in 1 .. Len(batch[i])
        BY <2>1
    <2> QED
        BY <2>1, <2>2 DEF NextRow
<1>3. W \subseteq Rows /\ W # {}
    BY <1>2
<1>4. IsFiniteSet(W) /\ Orders(Backwards, W)
    BY <1>3, RowsAreFinite, RowsAreOrdered, FS_Subset DEF Orders
<1>5. PICK r \in W : \A q \in W : q # r => <<r, q>> \in Backwards
    BY <1>3, <1>4, FirstExists
<1>6. PICK i \in C : r = NextRow(i)
    OBVIOUS
<1>7. PICK j \in C : WaitsFor(i, j)
    OBVIOUS
<1>8. r \in mine[j]
    BY <1>6, <1>7 DEF WaitsFor
<1>9. PICK m \in 1 .. Len(batch[j]) : m < next[j] /\ r = batch[j][m]
    BY <1>8 DEF IInv, WriteInv
<1>10. <<r, NextRow(j)>> \in RowOrder
    BY <1>2, <1>9 DEF IInv, WriteInv, NextRow
<1>11. <<NextRow(j), r>> \in Backwards
    BY <1>2, <1>3, <1>10 DEF Backwards
<1>12. NextRow(j) \in W
    OBVIOUS
<1> HIDE DEF W
<1>13. NextRow(j) # r
    BY <1>4, <1>11, <1>12 DEF Orders
<1>14. <<r, NextRow(j)>> \in Backwards
    BY <1>5, <1>12, <1>13
<1> QED
    BY <1>4, <1>11, <1>12, <1>14 DEF Orders

(* Imports of one repository that run at once, however many and whatever   *)
(* each page brought, never wait for each other in a circle.               *)
THEOREM ImportsNeverDeadlock == Spec => []NoImportDeadlock
<1> QED
    BY ImportInvariance, NobodyWaitsInACircle, PTL

-----------------------------------------------------------------------------
(* What is not stored was not in the batch, so not in the page: a full     *)
(* page is ahead of it, and only later deployments are ahead.              *)
LEMMA MissedAreOld == IInv => OnlyTheOldestAreMissed
<1> SUFFICES ASSUME IInv, NEW i \in Imports, pc[i] = "imported", Request[i].deployments,
                    NEW id \in asked[i], InWindow(i, DeployedAt[id]),
                    stored[DeploymentRow(id)] = Nobody
             PROVE  Cardinality({e \in asked[i] : e > id}) >= Page
    BY DEF OnlyTheOldestAreMissed
<1> DEFINE A == asked[i]
           ahead == {y \in A : \/ DeployedAt[y] > DeployedAt[id]
                               \/ DeployedAt[y] = DeployedAt[id] /\ y > id}
           later == {e \in A : e > id}
<1>1. A \subseteq Ids
    BY DEF IInv, StateInv
<1>2. IsFiniteSet(A) /\ A \subseteq Nat /\ \A x \in A : DeployedAt[x] \in Nat
    BY <1>1, FS_Subset, ChangeImportAssumption
<1>3. id \notin Newest(A, DeployedAt, Page)
    <2> SUFFICES ASSUME id \in Newest(A, DeployedAt, Page) PROVE FALSE
        OBVIOUS
    <2>1. PICK m \in 1 .. Len(batch[i]) : batch[i][m] = DeploymentRow(id)
        BY DEF IInv, PageInv
    <2> QED
        BY <2>1 DEF IInv, StoreInv
<1>4. ~(Cardinality(ahead) < Page)
    BY <1>3 DEF Newest
<1>5. ahead \subseteq later
    <2> SUFFICES ASSUME NEW y \in ahead, ~(y > id) PROVE FALSE
        OBVIOUS
    <2>1. y \in Ids /\ id \in Ids /\ y \in Nat /\ id \in Nat
        BY <1>1, <1>2
    <2>2. y = id \/ y < id
        BY <2>1
    <2>3. DeployedAt[y] <= DeployedAt[id]
        BY <1>2, <2>1, <2>2, ChangeImportAssumption
    <2> QED
        BY <1>2, <2>3
<1>6. IsFiniteSet(later) /\ IsFiniteSet(ahead)
    <2>1. later \subseteq A /\ ahead \subseteq A
        OBVIOUS
    <2> HIDE DEF later, ahead
    <2> QED
        BY <1>2, <2>1, FS_Subset
<1>7. Cardinality(ahead) <= Cardinality(later)
    <2> HIDE DEF later, ahead
    <2> QED
        BY <1>5, <1>6, FS_Subset
<1>8. Cardinality(ahead) \in Nat /\ Cardinality(later) \in Nat /\ Page \in Nat
    <2> HIDE DEF later, ahead
    <2> QED
        BY <1>6, FS_CardinalityType, ChangeImportAssumption
<1>9. Cardinality(later) >= Page
    <2> HIDE DEF later, ahead
    <2> QED
        BY <1>4, <1>7, <1>8
<1> QED
    BY <1>9

(* The limit of an import cuts from the old end: a deployment of its       *)
(* window that a reported import did not store has a full page after it.   *)
THEOREM OnlyOldOnesAreMissed == Spec => []OnlyTheOldestAreMissed
<1> QED
    BY ImportInvariance, MissedAreOld, PTL

-----------------------------------------------------------------------------
(* The deployments a query of the diagnosis considers.                     *)
InReach(scope, start) ==
    {id \in UNION {StoredFor(s) : s \in scope} :
        start <= DeployedAt[id] + Lookback /\ DeployedAt[id] < start + 1}

(* The order of suspicion among candidates.                                *)
Suspicion(S, versions) ==
    {p \in S \X S : p[1] # p[2] /\ Stronger(versions, p[1], p[2])}

(* It is a strict order of any candidates.                                 *)
LEMMA SuspectsAreOrdered ==
    ASSUME NEW S, S \subseteq Ids, NEW versions
    PROVE  /\ Orders(Suspicion(S, versions), S)
           /\ \A x \in S : Stronger(versions, x, x)
           /\ \A x, y \in S : Stronger(versions, x, y) /\ Stronger(versions, y, x) => x = y
<1> DEFINE first(x, y) == Before(DeployedAt, KeyText, x, y)
           match(x) == Deployed[x] \in versions
<1>0. \A x, y \in S : Stronger(versions, x, y) <=>
          \/ match(x) /\ ~match(y)
          \/ match(x) = match(y) /\ (x = y \/ first(x, y))
    BY DEF Stronger
<1>1. /\ \A x \in S : ~first(x, x)
      /\ \A x, y, z \in S : first(x, y) /\ first(y, z) => first(x, z)
      /\ \A x, y \in S : x # y => first(x, y) \/ first(y, x)
    <2>1. Orders(Written(S, DeployedAt, KeyText), S)
        BY ChangesAreOrdered, ChangesAreDated
    <2>2. \A x, y \in S : <<x, y>> \in Written(S, DeployedAt, KeyText) <=> first(x, y)
        BY DEF Written
    <2> HIDE DEF first
    <2> QED
        BY <2>1, <2>2 DEF Orders
<1> HIDE DEF first, match
<1>2. ASSUME NEW x \in S, NEW y \in S, Stronger(versions, x, y), Stronger(versions, y, x)
      PROVE  x = y
    BY <1>0, <1>1, <1>2
<1>3. ASSUME NEW x \in S, NEW y \in S PROVE Stronger(versions, x, y) \/ Stronger(versions, y, x)
    <2>1. match(x) \in BOOLEAN /\ match(y) \in BOOLEAN
        BY DEF match
    <2> QED
        BY <1>0, <1>1, <2>1
<1>4. ASSUME NEW x \in S, NEW y \in S, NEW z \in S,
             Stronger(versions, x, y), Stronger(versions, y, z)
      PROVE  Stronger(versions, x, z)
    BY <1>0, <1>1, <1>4
<1>5. \A x, y \in S : <<x, y>> \in Suspicion(S, versions) <=>
                            x # y /\ Stronger(versions, x, y)
    BY DEF Suspicion
<1>6. Orders(Suspicion(S, versions), S)
    BY <1>2, <1>3, <1>4, <1>5 DEF Orders
<1> QED
    BY <1>2, <1>3, <1>6

(* What the query leaves out has a full answer before it.                  *)
LEMMA LimitHidesTheOlder ==
    ASSUME IInv, NEW scope, NEW start \in Nat, NEW id \in InReach(scope, start)
    PROVE  /\ IsFiniteSet(LoadDeployments(scope, start))
           /\ LoadDeployments(scope, start) \subseteq Ids
           /\ \/ id \in LoadDeployments(scope, start)
              \/ Cardinality({e \in LoadDeployments(scope, start) :
                                 Before(DeployedAt, KeyText, e, id)}) = Limit
<1> DEFINE S == InReach(scope, start)
           loaded == LoadDeployments(scope, start)
           R == Written(S, DeployedAt, KeyText)
<1>1. S \subseteq Ids
    BY DEF InReach, StoredFor
<1>2. IsFiniteSet(S)
    BY <1>1, FS_Subset, ChangeImportAssumption
<1>3. Orders(R, S)
    BY <1>1, ChangesAreOrdered, ChangesAreDated
<1>4. loaded = Foremost(R, S, Limit)
    BY FirstRowsAreForemost DEF LoadDeployments, InReach
<1>5. Limit \in Nat
    BY ChangeImportAssumption
<1>6. loaded \subseteq S
    BY <1>4 DEF Foremost
<1>7. IsFiniteSet(loaded) /\ (loaded # S => Cardinality(loaded) = Limit)
    <2> HIDE DEF S, loaded, R
    <2> QED
        BY <1>2, <1>3, <1>4, <1>5, ForemostCount
<1>8. ASSUME id \notin loaded
      PROVE  Cardinality({e \in loaded : Before(DeployedAt, KeyText, e, id)}) = Limit
    <2>0. id \in S
        OBVIOUS
    <2>1. loaded \subseteq Ahead(R, S, id)
        <3> HIDE DEF S, loaded, R
        <3> QED
            BY <1>2, <1>3, <1>4, <1>5, <1>8, <2>0, ForemostAreAhead
    <2>2. Ahead(R, S, id) = {y \in S : Before(DeployedAt, KeyText, y, id)}
        <3> HIDE DEF S
        <3> QED
            BY <2>0, FirstRowsAreForemost
    <2> HIDE DEF S, loaded, R
    <2>3. {e \in loaded : Before(DeployedAt, KeyText, e, id)} = loaded
        BY <2>1, <2>2
    <2>4. loaded # S
        BY <1>8, <2>0
    <2> QED
        BY <1>7, <2>3, <2>4
<1> QED
    BY <1>1, <1>6, <1>7, <1>8

(* The first in the order of suspicion answers for those it is before.     *)
LEMMA NearestBlamed == IInv => NearestIsBlamed
<1> SUFFICES ASSUME IInv, NEW scope \in (SUBSET Services) \ {{}},
                    NEW start \in Starts,
                    NEW versions \in SUBSET Shas, NEW s \in scope
             PROVE  LET loaded == LoadDeployments(scope, start)
                        blamed == Selected(s, loaded, start, versions)
                        near == {id \in StoredFor(s) : DeployedAt[id] <= start
                                                /\ start <= DeployedAt[id] + Lookback}
                        first(x, y) == Before(DeployedAt, KeyText, x, y)
                        hidden(id) == Cardinality({e \in loaded : first(e, id)}) = Limit
                    IN  /\ Cardinality(blamed) <= 1
                        /\ \A id \in near : hidden(id) \/ \E b \in blamed :
                              \/ Deployed[b] \in versions /\ Deployed[id] \notin versions
                              \/ /\ Deployed[id] \in versions => Deployed[b] \in versions
                                 /\ b = id \/ first(b, id)
    BY DEF NearestIsBlamed
<1> DEFINE loaded == LoadDeployments(scope, start)
           C == Candidates(s, loaded, start)
           blamed == Selected(s, loaded, start, versions)
<1>1. start \in Nat /\ Lookback \in Nat /\ \A x \in Ids : DeployedAt[x] \in Nat
    BY ChangeImportAssumption DEF Starts
<1>2. C \subseteq Ids /\ C \subseteq loaded
    BY DEF Candidates, StoredFor
<1>3. blamed = {x \in C : \A y \in C : Stronger(versions, x, y)}
    BY DEF Selected
<1> HIDE DEF loaded, C, blamed
<1>4. /\ Orders(Suspicion(C, versions), C)
      /\ \A x \in C : Stronger(versions, x, x)
      /\ \A x, y \in C : Stronger(versions, x, y) /\ Stronger(versions, y, x) => x = y
    BY <1>2, SuspectsAreOrdered
<1>5. Cardinality(blamed) <= 1
    <2>1. CASE blamed = {}
        BY <2>1, FS_EmptySet
    <2>2. ASSUME NEW x \in blamed PROVE Cardinality(blamed) <= 1
        <3>1. blamed = {x}
            BY <1>3, <1>4, <2>2
        <3> QED
            <4>1. Cardinality({x}) = 1
                BY FS_Singleton
            <4> QED
                BY <3>1, <4>1
    <2> QED
        BY <2>1, <2>2
<1>6. ASSUME NEW id \in StoredFor(s), DeployedAt[id] <= start,
             start <= DeployedAt[id] + Lookback
      PROVE  \/ Cardinality({e \in loaded : Before(DeployedAt, KeyText, e, id)}) = Limit
             \/ \E b \in blamed :
                   \/ Deployed[b] \in versions /\ Deployed[id] \notin versions
                   \/ /\ Deployed[id] \in versions => Deployed[b] \in versions
                      /\ b = id \/ Before(DeployedAt, KeyText, b, id)
    <2>1. id \in Ids
        BY DEF StoredFor
    <2>2. id \in InReach(scope, start)
        BY <1>1, <1>6, <2>1 DEF InReach
    <2>3. /\ IsFiniteSet(loaded)
          /\ \/ id \in loaded
             \/ Cardinality({e \in loaded : Before(DeployedAt, KeyText, e, id)}) = Limit
        BY <1>1, <2>2, LimitHidesTheOlder DEF loaded
    <2>4. CASE id \in loaded
        <3>1. id \in C
            BY <1>1, <1>6, <2>1, <2>4 DEF C, Candidates
        <3>2. IsFiniteSet(C) /\ C # {}
            BY <1>2, <2>3, <3>1, FS_Subset
        <3>3. PICK b \in C : \A y \in C : y # b => <<b, y>> \in Suspicion(C, versions)
            BY <1>4, <3>2, FirstExists
        <3>4. \A y \in C : Stronger(versions, b, y)
            <4> TAKE y \in C
            <4>1. CASE y = b
                BY <1>4, <4>1
            <4>2. CASE y # b
                BY <3>3, <4>2 DEF Suspicion
            <4> QED
                BY <4>1, <4>2
        <3>5. b \in blamed /\ Stronger(versions, b, id)
            BY <1>3, <3>1, <3>4
        <3>6. \/ Deployed[b] \in versions /\ Deployed[id] \notin versions
              \/ /\ Deployed[id] \in versions => Deployed[b] \in versions
                 /\ b = id \/ Before(DeployedAt, KeyText, b, id)
            BY <3>5 DEF Stronger
        <3> QED
            BY <3>5, <3>6
    <2> QED
        BY <2>3, <2>4
<1> QED
    BY <1>5, <1>6 DEF loaded, blamed

(* Of the stored deployments of a service in the lookback before an        *)
(* incident one is blamed, and none of a version seen, nor of its own kind *)
(* and before it in the order of the query, is passed over, unless a full  *)
(* answer before it hid it.  Ties of an instant go by the key as text, in  *)
(* the query as in the choice, whatever the keys are.                      *)
THEOREM TheNearestIsBlamed == Spec => []NearestIsBlamed
<1> QED
    BY ImportInvariance, NearestBlamed, PTL
=============================================================================
