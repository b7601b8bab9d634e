---------------------------- MODULE ScopeProofs ----------------------------
(***************************************************************************)
(* Proofs about ScopeExpansion: the scope is well typed, never outgrows    *)
(* its limits, every distance in it is explained by telemetry, and a scope *)
(* not declared truncated is complete.                                     *)
(***************************************************************************)
EXTENDS ScopeExpansion, FiniteSetTheorems, TLAPS

(* A set of naturals that is not empty has a least element.                *)
LEMMA LeastOf ==
    ASSUME NEW T, T \subseteq Nat, T # {}
    PROVE  \E x \in T : \A y \in T : x <= y
<1>1. \E x \in T : \A y \in T : ~(<<y, x>> \in OpToRel(<, Nat))
    BY NatLessThanWellFounded, WFMin
<1>2. PICK x \in T : \A y \in T : ~(<<y, x>> \in OpToRel(<, Nat))
    BY <1>1
<1>3. \A y \in T : x <= y
    <2> SUFFICES ASSUME NEW y \in T, y < x PROVE FALSE
        OBVIOUS
    <2>1. <<y, x>> \in OpToRel(<, Nat)
        BY DEF OpToRel
    <2> QED
        BY <1>2, <2>1
<1> QED
    BY <1>3

-----------------------------------------------------------------------------
(* ORDER BY ... LIMIT n.                                                   *)
Below(x, S) == {y \in S : y < x}

(* What comes before a number in the order of the query is finite.         *)
LEMMA BelowIsFinite ==
    ASSUME NEW S \in SUBSET Nat, NEW x \in Nat
    PROVE  IsFiniteSet(Below(x, S)) /\ Cardinality(Below(x, S)) \in Nat
<1>1. Below(x, S) \subseteq 0 .. x
    <2>1. \A y \in Nat : y < x => y \in 0 .. x
        OBVIOUS
    <2> QED
        BY <2>1 DEF Below
<1>2. IsFiniteSet(0 .. x)
    <2>1. 0 \in Int /\ x \in Int
        OBVIOUS
    <2> QED
        BY <2>1, FS_Interval
<1>3. IsFiniteSet(Below(x, S))
    BY <1>1, <1>2, FS_Subset
<1> QED
    BY <1>3, FS_CardinalityType

(* Whoever comes later has more elements before it.                        *)
LEMMA BelowGrows ==
    ASSUME NEW S \in SUBSET Nat, NEW x \in S, NEW y \in S, x < y
    PROVE  Cardinality(Below(x, S)) < Cardinality(Below(y, S))
<1>1. Below(x, S) \subseteq Below(y, S) /\ x \in Below(y, S) /\ x \notin Below(x, S)
    <2>1. ~(x < x) /\ \A z \in S : z < x => z < y
        OBVIOUS
    <2> QED
        BY <2>1 DEF Below
<1>2. /\ IsFiniteSet(Below(y, S)) /\ Cardinality(Below(y, S)) \in Nat
      /\ IsFiniteSet(Below(x, S)) /\ Cardinality(Below(x, S)) \in Nat
    BY BelowIsFinite
<1>3. /\ Cardinality(Below(x, S)) <= Cardinality(Below(y, S))
      /\ Cardinality(Below(y, S)) = Cardinality(Below(x, S)) => Below(y, S) = Below(x, S)
    BY <1>1, <1>2, FS_Subset
<1> QED
    BY <1>1, <1>2, <1>3

(* What a query with a limit returns: no more than the limit ...           *)
LEMMA FirstBounded ==
    ASSUME NEW S \in SUBSET Nat, NEW n \in Nat
    PROVE  /\ First(n, S) \subseteq S /\ IsFiniteSet(First(n, S))
           /\ Cardinality(First(n, S)) \in 0 .. n
<1>1. First(n, S) = {x \in S : Cardinality(Below(x, S)) < n}
    BY DEF First, Below
<1>2. CASE First(n, S) = {}
    BY <1>2, FS_EmptySet
<1>3. CASE First(n, S) # {}
    <2> DEFINE Left(x) == n - Cardinality(Below(x, S))
    <2>1. \A x \in First(n, S) : Left(x) \in Nat
        <3>1. \A x \in First(n, S) : x \in S /\ Cardinality(Below(x, S)) < n
            BY <1>1
        <3>2. \A x \in S : Cardinality(Below(x, S)) \in Nat
            BY BelowIsFinite
        <3>3. \A a \in Nat : a < n => n - a \in Nat
            OBVIOUS
        <3> QED
            BY <3>1, <3>2, <3>3
    <2>2. \E k \in {Left(x) : x \in First(n, S)} : \A j \in {Left(x) : x \in First(n, S)} : k <= j
        <3> DEFINE T == {Left(x) : x \in First(n, S)}
        <3>1. T \subseteq Nat /\ T # {}
            BY <1>3, <2>1
        <3> HIDE DEF T
        <3>2. \E k \in T : \A j \in T : k <= j
            BY <3>1, LeastOf
        <3> QED
            BY <3>2 DEF T
    <2>3. PICK x \in First(n, S) : \A y \in First(n, S) : Left(x) <= Left(y)
        BY <2>2
    <2>4. x \in S /\ Cardinality(Below(x, S)) \in Nat /\ Cardinality(Below(x, S)) < n
        BY <1>1, BelowIsFinite
    <2>5. First(n, S) \in SUBSET (Below(x, S) \cup {x})
        <3> SUFFICES ASSUME NEW y \in First(n, S) PROVE y \in Below(x, S) \cup {x}
            OBVIOUS
        <3>1. y \in S /\ Cardinality(Below(y, S)) \in Nat
            BY <1>1, BelowIsFinite
        <3>2. Cardinality(Below(y, S)) <= Cardinality(Below(x, S))
            BY <2>3, <2>4, <3>1
        <3>3. ~(x < y)
            BY <2>4, <3>1, <3>2, BelowGrows
        <3> QED
            BY <2>4, <3>1, <3>3 DEF Below
    <2>6. /\ IsFiniteSet(Below(x, S) \cup {x})
          /\ Cardinality(Below(x, S) \cup {x}) \in Nat
          /\ Cardinality(Below(x, S) \cup {x}) <= n
        <3>1. /\ IsFiniteSet(Below(x, S)) /\ x \notin Below(x, S)
            BY <2>4, BelowIsFinite DEF Below
        <3>2. /\ IsFiniteSet(Below(x, S) \cup {x})
              /\ Cardinality(Below(x, S) \cup {x}) = Cardinality(Below(x, S)) + 1
            BY <3>1, FS_AddElement
        <3> QED
            BY <2>4, <3>2
    <2>7. /\ IsFiniteSet(First(n, S))
          /\ Cardinality(First(n, S)) <= Cardinality(Below(x, S) \cup {x})
          /\ Cardinality(First(n, S)) \in Nat
        BY <2>5, <2>6, FS_Subset, FS_CardinalityType
    <2> QED
        BY <1>1, <2>6, <2>7
<1> QED
    BY <1>1, <1>2, <1>3

(* ... and all there is, when it fits ...                                  *)
LEMMA FirstIsAll ==
    ASSUME NEW S \in SUBSET Nat, IsFiniteSet(S), NEW n \in Nat, Cardinality(S) <= n
    PROVE  First(n, S) = S
<1> SUFFICES ASSUME NEW x \in S PROVE Cardinality(Below(x, S)) < n
    BY DEF First, Below
<1>1. Below(x, S) \in SUBSET S /\ x \notin Below(x, S)
    BY DEF Below
<1>2. /\ Cardinality(Below(x, S)) <= Cardinality(S)
      /\ Cardinality(S) = Cardinality(Below(x, S)) => S = Below(x, S)
    BY <1>1, FS_Subset
<1>3. Cardinality(S) \in Nat /\ Cardinality(Below(x, S)) \in Nat
    BY FS_CardinalityType, BelowIsFinite
<1> QED
    BY <1>1, <1>2, <1>3

(* ... so that fewer than the limit are all there is.                      *)
LEMMA FewerIsAll ==
    ASSUME NEW S \in SUBSET Nat, NEW n \in Nat, Cardinality(First(n, S)) < n
    PROVE  First(n, S) = S
<1> SUFFICES ASSUME S \ First(n, S) # {} PROVE FALSE
    BY DEF First
<1>1. PICK x \in S \ First(n, S) : \A y \in S \ First(n, S) : x <= y
    BY LeastOf
<1>2. Below(x, S) \subseteq First(n, S)
    <2>1. \A y \in S : y < x => ~(x <= y)
        OBVIOUS
    <2> QED
        BY <1>1, <2>1 DEF Below
<1>3. IsFiniteSet(First(n, S)) /\ Cardinality(First(n, S)) \in Nat
    BY FirstBounded
<1>4. Cardinality(Below(x, S)) <= Cardinality(First(n, S))
    BY <1>2, <1>3, FS_Subset
<1>5. Cardinality(Below(x, S)) \in Nat
    BY BelowIsFinite
<1> QED
    BY <1>1, <1>3, <1>4, <1>5 DEF First, Below

-----------------------------------------------------------------------------
(* The steps of the walk are first in a phase; Expanded is its good end.   *)
Walking == pc \in {"level", "count", "last_count"} \/ Expanded

(* Before a query of the first scope there is none, and no scope is larger *)
(* than asked for.                                                         *)
ScopeInv ==
    /\ rows \subseteq Rows /\ rowsAtStart \subseteq rows
    /\ pc \in {"idle", "level", "count", "last_count", "done", "failed"}
    /\ discovery \in {"none", "list", "window", "entry", "traces"}
    /\ services \subseteq Services /\ IsFiniteSet(services)
    /\ Cardinality(services) \in 0 .. MaxServices
    /\ DOMAIN distances \in {{}, services}
    /\ distances \in [DOMAIN distances -> Nat]
    /\ frontier \subseteq Services
    /\ level \in Nat /\ depth \in Nat /\ reached \in Nat /\ traceCount \in Nat
    /\ truncated \in BOOLEAN
    /\ pc = "idle" => DOMAIN distances = {} /\ reached = 0 /\ truncated = FALSE

(* The walk: the frontier is exactly the services of the last level, which *)
(* is never empty, so that the depth reached is that of the furthest.      *)
WalkInv ==
    /\ Walking =>
          /\ DOMAIN distances = services
          /\ depth \in 1 .. MaxDepth /\ reached \in 0 .. depth
          /\ Entry \in services /\ distances[Entry] = 0
          /\ \A s \in services : distances[s] <= reached
          /\ \E s \in services : distances[s] = reached
    /\ pc \in {"level", "count"} =>
          /\ level \in 1 .. depth /\ reached = level - 1
          /\ frontier = {s \in services : distances[s] = level - 1}

(* Who was seen with p when the expansion started is in, one hop further.  *)
Covered(p) ==
    \A s \in ServicesIn(TracesOf({p}, rowsAtStart), rowsAtStart) :
        s \in services /\ distances[s] <= distances[p] + 1

(* Levels already walked left nobody out, unless the scope says so.        *)
CoverInv ==
    ~truncated /\ TracesFit =>
        /\ pc \in {"level", "count"} =>
              \A p \in services : distances[p] < level - 1 => Covered(p)
        /\ pc = "last_count" \/ Expanded =>
              \A p \in services : distances[p] < depth => Covered(p)

IInv == ScopeInv /\ WalkInv /\ EveryHopExplained /\ CoverInv

(* A row names a service and a trace.                                      *)
LEMMA RowTyped ==
    ASSUME NEW r \in Rows
    PROVE  r.service \in Services /\ r.trace \in Traces /\ r.service \in Nat /\ r.trace \in Nat
BY ScopeAssumption

(* The two queries answer with traces and services that exist.             *)
LEMMA QueriesTyped ==
    ASSUME NEW stored \in SUBSET Rows, NEW group, NEW traces
    PROVE  /\ TracesOf(group, stored) \subseteq Traces
           /\ TracesOf(group, stored) \subseteq Nat
           /\ ServicesIn(traces, stored) \subseteq Services
           /\ ServicesIn(traces, stored) \subseteq Nat
BY RowTyped DEF TracesOf, ServicesIn, InWindow

(* What a level finds, the room there is, and whom it takes in.            *)
Unknown == Neighbours(frontier) \ services
Room    == MaxServices - Cardinality(services)
Added   == First(Room, Unknown)

(* What a level asks for is cut to a finite set of services.               *)
LEMMA NeighboursTyped ==
    ASSUME ScopeInv
    PROVE  /\ Neighbours(frontier) \subseteq Services /\ Neighbours(frontier) \subseteq Nat
           /\ IsFiniteSet(Neighbours(frontier))
<1>1. MaxTraces \in Nat /\ MaxServices + 1 \in Nat /\ rows \in SUBSET Rows
    BY ScopeAssumption DEF ScopeInv
<1> DEFINE found == ServicesIn(First(MaxTraces, TracesOf(frontier, rows)), rows)
<1>2. found \subseteq Services /\ found \in SUBSET Nat
    BY <1>1, QueriesTyped
<1>3. Neighbours(frontier) = First(MaxServices + 1, found)
    BY DEF Neighbours
<1> HIDE DEF found
<1> QED
    BY <1>1, <1>2, <1>3, FirstBounded

(* A level takes in no more than there is room for.                        *)
LEMMA LevelFits ==
    ASSUME ScopeInv
    PROVE  /\ Unknown \subseteq Services /\ Unknown \subseteq Nat /\ IsFiniteSet(Unknown)
           /\ Room \in Nat
           /\ Added \subseteq Unknown /\ IsFiniteSet(Added)
           /\ IsFiniteSet(services \cup Added)
           /\ Cardinality(services \cup Added) \in 0 .. MaxServices
<1>1. Unknown \subseteq Services /\ Unknown \in SUBSET Nat /\ IsFiniteSet(Unknown)
    BY NeighboursTyped, FS_Difference DEF Unknown
<1>2. Room \in Nat /\ Cardinality(services) \in Nat /\ MaxServices \in Nat
    BY ScopeAssumption DEF Room, ScopeInv
<1>3. Added \subseteq Unknown /\ IsFiniteSet(Added) /\ Cardinality(Added) \in 0 .. Room
    BY <1>1, <1>2, FirstBounded DEF Added
<1>4. IsFiniteSet(services)
    BY DEF ScopeInv
<1>5. /\ IsFiniteSet(services \cup Added)
      /\ Cardinality(services \cup Added)
            = Cardinality(services) + Cardinality(Added) - Cardinality(services \cap Added)
    BY <1>3, <1>4, FS_Union
<1>6. Cardinality(services \cap Added) = 0
    <2>1. services \cap Added = {}
        BY <1>3 DEF Unknown
    <2> QED
        BY <2>1, FS_EmptySet
<1> QED
    BY <1>1, <1>2, <1>3, <1>5, <1>6 DEF Room

(* One level, in these words.                                              *)
LEMMA ExpandIs ==
    ASSUME Expand
    PROVE  /\ pc = "level" /\ UNCHANGED <<rows, discovery, depth, traceCount, rowsAtStart>>
           /\ services' = services \cup Added
           /\ distances' = [s \in services \cup Added |->
                              IF s \in services THEN distances[s] ELSE level]
           /\ truncated' = (truncated \/ Cardinality(Unknown) > Room)
           /\ reached' = IF Added = {} THEN reached ELSE level
           /\ frontier' = Added
           /\ level' = IF Added = {} \/ level = depth THEN level ELSE level + 1
           /\ pc' = IF level = 1
                    THEN IF Added = {} \/ level = depth THEN "last_count" ELSE "count"
                    ELSE IF Added = {} \/ level = depth THEN "done" ELSE "level"
BY DEF Expand, ReachedBy, NextFrontier, Unknown, Room, Added

-----------------------------------------------------------------------------
(* Every operation keeps the scope well typed and within its size.         *)
LEMMA ScopeStep == ScopeInv /\ WalkInv /\ [Next]_vars => ScopeInv'
<1> SUFFICES ASSUME ScopeInv, WalkInv, [Next]_vars PROVE ScopeInv'
    OBVIOUS
<1>1. CASE UNCHANGED vars
    BY <1>1 DEF vars, answer, walk, ScopeInv
<1>2. ASSUME NEW how \in {"list", "window", "entry"}, NEW found \in SUBSET Services,
             pc = "idle", Answer(how, found)
      PROVE  ScopeInv'
    <2>1. MaxServices \in Nat /\ found \in SUBSET Nat
        BY ScopeAssumption
    <2>2. /\ First(MaxServices, found) \subseteq found /\ IsFiniteSet(First(MaxServices, found))
          /\ Cardinality(First(MaxServices, found)) \in 0 .. MaxServices
        BY <2>1, FirstBounded
    <2>3. truncated' \in BOOLEAN
        BY <1>2 DEF Answer
    <2> QED
        BY <1>2, <2>2, <2>3 DEF Answer, walk, ScopeInv
<1>3. CASE ResolveList
    BY <1>2, <1>3, ScopeAssumption DEF ResolveList
<1>4. CASE ResolveAll
    <2> DEFINE inside == {r.service : r \in InWindow(rows)}
    <2>1. inside \subseteq Services /\ inside \in SUBSET Nat
        BY RowTyped DEF InWindow, ScopeInv
    <2>2. MaxServices + 1 \in Nat
        BY ScopeAssumption
    <2>3. pc = "idle" /\ Answer("window", First(MaxServices + 1, inside))
        BY <1>4 DEF ResolveAll
    <2> HIDE DEF inside
    <2>4. First(MaxServices + 1, inside) \in SUBSET Services
        BY <2>1, <2>2, FirstBounded
    <2> QED
        BY <1>2, <2>3, <2>4
<1>5. CASE ResolveEntryOnly
    BY <1>2, <1>5, ScopeAssumption DEF ResolveEntryOnly
<1>6. CASE StartExpansion
    <2>1. /\ IsFiniteSet({Entry}) /\ Cardinality({Entry}) = 1 /\ {Entry} \subseteq Services
          /\ 1 \in 0 .. MaxServices
        <3>1. \A n \in Nat \ {0} : 1 \in 0 .. n
            OBVIOUS
        <3> QED
            BY <3>1, FS_Singleton, ScopeAssumption
    <2>2. depth' \in Nat
        BY <1>6, ScopeAssumption DEF StartExpansion, NormalDepth
    <2> QED
        BY <1>6, <2>1, <2>2 DEF StartExpansion, ScopeInv
<1>7. CASE Expand
    <2>1. level \in Nat /\ level \in 1 .. depth /\ DOMAIN distances = services
        BY <1>7 DEF Expand, WalkInv, ScopeInv, Walking
    <2>2. distances' \in [DOMAIN distances' -> Nat] /\ DOMAIN distances' = services'
        BY <1>7, <2>1, ExpandIs DEF ScopeInv
    <2>3. frontier' \subseteq Services /\ services' \subseteq Services
        BY <1>7, ExpandIs, LevelFits DEF ScopeInv
    <2>4. IsFiniteSet(services') /\ Cardinality(services') \in 0 .. MaxServices
        BY <1>7, ExpandIs, LevelFits
    <2>5. truncated' \in BOOLEAN
        BY <1>7, ExpandIs
    <2>6. level' \in Nat /\ reached' \in Nat
        BY <1>7, <2>1, ExpandIs DEF ScopeInv
    <2>7. pc' \in {"level", "count", "last_count", "done"}
        BY <1>7, ExpandIs
    <2> QED
        BY <1>7, <2>2, <2>3, <2>4, <2>5, <2>6, <2>7, ExpandIs DEF ScopeInv
<1>8. CASE CountTraces
    <2>1. TracesOf({Entry}, rows) \in SUBSET Nat /\ MaxTraces \in Nat
        BY QueriesTyped, ScopeAssumption DEF ScopeInv
    <2>2. Cardinality(First(MaxTraces, TracesOf({Entry}, rows))) \in 0 .. MaxTraces
        BY <2>1, FirstBounded
    <2>3. traceCount' \in Nat
        BY <1>8, <2>1, <2>2 DEF CountTraces
    <2> QED
        BY <1>8, <2>3 DEF CountTraces, walk, ScopeInv
<1>9. CASE Fail
    <2>1. IsFiniteSet({}) /\ Cardinality({}) = 0 /\ 0 \in 0 .. MaxServices
        BY FS_EmptySet, ScopeAssumption
    <2>2. DOMAIN distances' = {} /\ distances' \in [{} -> Nat]
        BY <1>9 DEF Fail
    <2> QED
        BY <1>9, <2>1, <2>2 DEF Fail, walk, ScopeInv
<1>10. CASE \E r \in Rows : Ingest(r)
    BY <1>10 DEF Ingest, answer, walk, ScopeInv
<1> QED
    BY <1>1, <1>3, <1>4, <1>5, <1>6, <1>7, <1>8, <1>9, <1>10 DEF Next

-----------------------------------------------------------------------------
(* Who a level takes in was not in, and is one hop further than the last.  *)
LEMMA LevelIs ==
    ASSUME ScopeInv, WalkInv, Expand
    PROVE  /\ DOMAIN distances = services /\ DOMAIN distances' = services'
           /\ services' = services \cup Added /\ services \cap Added = {}
           /\ \A s \in services : distances'[s] = distances[s]
           /\ \A s \in Added : distances'[s] = level
           /\ \A s \in services : distances[s] \in 0 .. level - 1
           /\ level \in 1 .. depth /\ depth \in 1 .. MaxDepth /\ MaxDepth \in Nat
           /\ reached = level - 1
           /\ frontier = {s \in services : distances[s] = level - 1} /\ frontier # {}
<1>1. Added \subseteq Unknown
    BY LevelFits
<1>2. services \cap Added = {}
    BY <1>1 DEF Unknown
<1>3. pc = "level" /\ Walking
    BY DEF Expand, Walking
<1>4. /\ level \in 1 .. depth /\ depth \in 1 .. MaxDepth /\ reached = level - 1
      /\ frontier = {s \in services : distances[s] = level - 1} /\ frontier # {}
      /\ DOMAIN distances = services
    BY <1>3 DEF WalkInv
<1>5. \A s \in services : distances[s] \in 0 .. level - 1
    <2> SUFFICES ASSUME NEW s \in services PROVE distances[s] \in 0 .. level - 1
        OBVIOUS
    <2>1. distances[s] \in Nat /\ distances[s] <= level - 1 /\ level \in Nat
        BY <1>3, <1>4 DEF WalkInv, ScopeInv
    <2> QED
        BY <2>1
<1> QED
    BY <1>2, <1>4, <1>5, ExpandIs, ScopeAssumption

(* Every operation keeps the shape of the walk.                            *)
LEMMA WalkStep == ScopeInv /\ WalkInv /\ [Next]_vars => WalkInv'
<1> SUFFICES ASSUME ScopeInv, WalkInv, [Next]_vars PROVE WalkInv'
    OBVIOUS
<1>1. CASE UNCHANGED vars \/ \E r \in Rows : Ingest(r)
    <2>1. UNCHANGED <<pc, discovery, services, distances, reached, frontier, level, depth>>
        BY <1>1 DEF Ingest, vars, answer, walk
    <2> QED
        BY <2>1 DEF WalkInv, Walking, Expanded
<1>2. CASE ResolveList \/ ResolveAll \/ ResolveEntryOnly
    <2>1. pc' = "done" /\ discovery' # "traces"
        BY <1>2 DEF ResolveList, ResolveAll, ResolveEntryOnly, Answer
    <2> QED
        BY <2>1 DEF WalkInv, Walking, Expanded
<1>3. CASE StartExpansion
    <2>1. PICK d \in Depths : depth' = NormalDepth(d)
        BY <1>3 DEF StartExpansion
    <2>2. depth' \in 1 .. MaxDepth
        BY <2>1, ScopeAssumption DEF NormalDepth
    <2>3. /\ services' = {Entry} /\ distances' = [s \in {Entry} |-> 0]
          /\ frontier' = {Entry} /\ level' = 1 /\ pc' = "level" /\ reached' = 0
        BY <1>3 DEF StartExpansion, ScopeInv
    <2>4. DOMAIN distances' = {Entry} /\ distances'[Entry] = 0
        BY <2>3
    <2>5. 1 - 1 = 0 /\ \A n \in 1 .. MaxDepth : 0 \in 0 .. n /\ 1 \in 1 .. n
        OBVIOUS
    <2>6. frontier' = {s \in services' : distances'[s] = level' - 1}
        BY <2>3, <2>4, <2>5
    <2> QED
        BY <2>2, <2>3, <2>4, <2>5, <2>6 DEF WalkInv
<1>4. CASE Expand
    <2> USE <1>4
    <2>1. /\ depth' = depth /\ depth' \in 1 .. MaxDepth /\ level \in 1 .. depth
          /\ level \in 0 .. depth /\ level - 1 \in 0 .. depth
        BY LevelIs, ExpandIs
    <2>2. /\ reached' = IF Added = {} THEN level - 1 ELSE level
          /\ reached' \in 0 .. depth
        BY <2>1, LevelIs, ExpandIs
    <2>3. Entry \in services' /\ distances'[Entry] = 0
        BY LevelIs DEF WalkInv, Walking, Expand
    <2>4. \A s \in services' : distances'[s] <= reached'
        <3>1. \A s \in services : distances'[s] \in 0 .. level - 1
            BY LevelIs
        <3>2. \A n \in 0 .. level - 1 : n <= level - 1 /\ n <= level
            BY <2>1
        <3>3. level <= level
            BY <2>1
        <3> QED
            BY <2>2, <3>1, <3>2, <3>3, LevelIs
    <2>5. \E s \in services' : distances'[s] = reached'
        <3>1. CASE Added = {}
            <4>1. PICK s \in frontier : s \in services /\ distances[s] = level - 1
                BY LevelIs
            <4> QED
                BY <2>2, <3>1, <4>1, LevelIs
        <3>2. CASE Added # {}
            BY <2>2, <3>2, LevelIs
        <3> QED
            BY <3>1, <3>2
    <2>6. pc' \in {"level", "count"} =>
              /\ level' \in 1 .. depth' /\ reached' = level' - 1
              /\ frontier' = {s \in services' : distances'[s] = level' - 1}
        <3> SUFFICES ASSUME pc' \in {"level", "count"}
                     PROVE  /\ level' \in 1 .. depth' /\ reached' = level' - 1
                            /\ frontier' = {s \in services' : distances'[s] = level' - 1}
            OBVIOUS
        <3>1. Added # {} /\ level # depth /\ level' = level + 1 /\ frontier' = Added
            BY ExpandIs
        <3>2. level' \in 1 .. depth' /\ reached' = level /\ level' - 1 = level
            BY <2>1, <2>2, <3>1
        <3>3. \A s \in services : distances'[s] # level
            <4>1. \A n \in 0 .. level - 1 : n # level
                BY <2>1
            <4> QED
                BY <4>1, LevelIs
        <3> QED
            BY <3>1, <3>2, <3>3, LevelIs
    <2> QED
        BY <2>1, <2>2, <2>3, <2>4, <2>5, <2>6, LevelIs DEF WalkInv
<1>5. CASE CountTraces
    <2>1. /\ UNCHANGED <<discovery, services, distances, reached, frontier, level, depth>>
          /\ pc \in {"count", "last_count"} /\ Walking
          /\ pc' = IF pc = "count" THEN "level" ELSE "done"
        BY <1>5 DEF CountTraces, walk, Walking
    <2> QED
        BY <2>1 DEF WalkInv
<1>6. CASE Fail
    BY <1>6 DEF Fail, WalkInv, Walking, Expanded
<1> QED
    BY <1>1, <1>2, <1>3, <1>4, <1>5, <1>6 DEF Next

-----------------------------------------------------------------------------
(* Telemetry only arrives, and what it once showed it shows for ever.      *)
LEMMA RowsGrow == [Next]_vars => rows \subseteq rows'
BY DEF Next, vars, ResolveList, ResolveAll, ResolveEntryOnly, Answer, StartExpansion, Expand,
       CountTraces, Fail, Ingest

(* Rows are only added: what was reached is reached from the rows there are*)
(* now.                                                                    *)
LEMMA SeenForEver ==
    ASSUME NEW old, NEW new, old \subseteq new, NEW group
    PROVE  ServicesIn(TracesOf(group, old), old) \subseteq ServicesIn(TracesOf(group, new), new)
BY DEF ServicesIn, TracesOf, InWindow

(* Whoever a level takes in shares a trace with one of its frontier.       *)
LEMMA AddedWasSeen ==
    ASSUME ScopeInv, NEW s \in Added
    PROVE  \E p \in frontier : s \in ServicesIn(TracesOf({p}, rows), rows)
<1>1. s \in ServicesIn(TracesOf(frontier, rows), rows)
    BY LevelFits DEF Unknown, Neighbours, First, ServicesIn
<1> QED
    BY <1>1 DEF ServicesIn, TracesOf, InWindow

(* Every operation keeps every distance explained.                         *)
LEMMA HopStep ==
    ScopeInv /\ WalkInv /\ EveryHopExplained /\ [Next]_vars => EveryHopExplained'
<1> SUFFICES ASSUME ScopeInv, WalkInv, EveryHopExplained, [Next]_vars
             PROVE  EveryHopExplained'
    OBVIOUS
<1>1. CASE UNCHANGED distances
    BY <1>1, RowsGrow, SeenForEver DEF EveryHopExplained
<1>2. CASE StartExpansion
    BY <1>2 DEF StartExpansion, EveryHopExplained
<1>3. CASE Fail
    BY <1>3 DEF Fail, EveryHopExplained
<1>4. CASE Expand
    <2> SUFFICES ASSUME NEW s \in services', distances'[s] > 0
                 PROVE  \E p \in services' : /\ distances'[p] = distances'[s] - 1
                                             /\ s \in ServicesIn(TracesOf({p}, rows), rows)
        BY <1>4, LevelIs, ExpandIs DEF EveryHopExplained
    <2>1. CASE s \in services
        <3>1. PICK p \in services : /\ distances[p] = distances[s] - 1
                                    /\ s \in ServicesIn(TracesOf({p}, rows), rows)
            BY <1>4, <2>1, LevelIs DEF EveryHopExplained
        <3> QED
            BY <1>4, <2>1, <3>1, LevelIs
    <2>2. CASE s \in Added
        <3>1. PICK p \in frontier : s \in ServicesIn(TracesOf({p}, rows), rows)
            BY <2>2, AddedWasSeen
        <3> QED
            BY <1>4, <2>2, <3>1, LevelIs
    <2> QED
        BY <1>4, <2>1, <2>2, LevelIs
<1>5. CASE ResolveList \/ ResolveAll \/ ResolveEntryOnly \/ CountTraces \/ \E r \in Rows : Ingest(r)
    <2>1. UNCHANGED distances
        BY <1>5 DEF ResolveList, ResolveAll, ResolveEntryOnly, Answer, CountTraces, Ingest, answer
    <2> QED
        BY <1>1, <2>1
<1> QED
    BY <1>1, <1>2, <1>3, <1>4, <1>5 DEF Next, vars, answer

-----------------------------------------------------------------------------
(* The traces of the window are finitely many, and only grow in number.    *)
TracesSeen(stored) == {r.trace : r \in InWindow(stored)}

(* The traces of the window are finitely many.                             *)
LEMMA TracesSeenFinite ==
    ASSUME NEW stored \in SUBSET Rows
    PROVE  IsFiniteSet(TracesSeen(stored)) /\ Cardinality(TracesSeen(stored)) \in Nat
<1> DEFINE f == [r \in InWindow(stored) |-> r.trace]
<1>1. IsFiniteSet(InWindow(stored))
    <2>1. InWindow(stored) \in SUBSET Rows
        BY DEF InWindow
    <2> QED
        BY <2>1, FS_Subset, ScopeAssumption
<1>2. f \in Surjection(InWindow(stored), TracesSeen(stored))
    BY DEF Surjection, TracesSeen
<1>3. IsFiniteSet(TracesSeen(stored))
    BY <1>1, <1>2, FS_Surjection
<1> QED
    BY <1>3, FS_CardinalityType

(* Traces that fit under the limit now fitted under it before.             *)
LEMMA FitBefore ==
    ASSUME ScopeInv, ScopeInv', rows \subseteq rows', TracesFit'
    PROVE  TracesFit
<1>1. TracesFit <=> Cardinality(TracesSeen(rows)) <= MaxTraces
    BY DEF TracesFit, TracesSeen
<1>2. Cardinality(TracesSeen(rows')) <= MaxTraces
    BY DEF TracesFit, TracesSeen
<1>3. TracesSeen(rows) \in SUBSET TracesSeen(rows')
    BY DEF TracesSeen, InWindow
<1>4. /\ IsFiniteSet(TracesSeen(rows')) /\ Cardinality(TracesSeen(rows')) \in Nat
      /\ Cardinality(TracesSeen(rows)) \in Nat /\ MaxTraces \in Nat
    BY TracesSeenFinite, ScopeAssumption DEF ScopeInv
<1>5. Cardinality(TracesSeen(rows)) <= Cardinality(TracesSeen(rows'))
    BY <1>3, <1>4, FS_Subset
<1> QED
    BY <1>1, <1>2, <1>4, <1>5

(* When the traces fit and the level has room for all it found, the two    *)
(* LIMITs cut nothing.                                                     *)
LEMMA NobodyLeftOut ==
    ASSUME ScopeInv, TracesFit, Cardinality(Unknown) <= Room
    PROVE  /\ Neighbours(frontier) = ServicesIn(TracesOf(frontier, rows), rows)
           /\ Added = Unknown
<1> DEFINE traces == TracesOf(frontier, rows)
           found == ServicesIn(traces, rows)
<1>1. rows \in SUBSET Rows /\ MaxTraces \in Nat
    BY ScopeAssumption DEF ScopeInv
<1>2. First(MaxTraces, traces) = traces
    <2>1. traces \in SUBSET TracesSeen(rows) /\ traces \in SUBSET Nat
        BY <1>1, QueriesTyped DEF TracesSeen, TracesOf
    <2>2. /\ IsFiniteSet(TracesSeen(rows)) /\ Cardinality(TracesSeen(rows)) \in Nat
          /\ Cardinality(TracesSeen(rows)) <= MaxTraces
        BY <1>1, TracesSeenFinite DEF TracesFit, TracesSeen
    <2> HIDE DEF traces
    <2>3. /\ IsFiniteSet(traces) /\ Cardinality(traces) <= Cardinality(TracesSeen(rows))
          /\ Cardinality(traces) \in Nat
        BY <2>1, <2>2, FS_Subset, FS_CardinalityType
    <2>4. Cardinality(traces) <= MaxTraces
        BY <1>1, <2>2, <2>3
    <2> QED
        BY <1>1, <2>1, <2>3, <2>4, FirstIsAll
<1>3. Neighbours(frontier) = First(MaxServices + 1, found) /\ found \in SUBSET Nat
    BY <1>1, <1>2, QueriesTyped DEF Neighbours
<1> HIDE DEF found, traces
<1>4. /\ IsFiniteSet(Unknown) /\ IsFiniteSet(services) /\ IsFiniteSet(Neighbours(frontier))
      /\ Unknown \in SUBSET Nat /\ Room \in Nat
    BY NeighboursTyped, LevelFits DEF ScopeInv
<1>5. Cardinality(Neighbours(frontier)) < MaxServices + 1
    <2>1. /\ IsFiniteSet(Unknown \cup services) /\ Unknown \cap services = {}
          /\ Cardinality(Unknown \cup services)
                = Cardinality(Unknown) + Cardinality(services)
                    - Cardinality(Unknown \cap services)
        BY <1>4, FS_Union DEF Unknown
    <2>2. Neighbours(frontier) \in SUBSET (Unknown \cup services)
        BY DEF Unknown
    <2>3. /\ Cardinality(Neighbours(frontier)) <= Cardinality(Unknown \cup services)
          /\ Cardinality(Unknown) \in Nat /\ Cardinality(Neighbours(frontier)) \in Nat
          /\ Cardinality(services) \in Nat /\ MaxServices \in Nat
          /\ Cardinality(Unknown \cap services) = 0
        BY <1>4, <2>1, <2>2, FS_Subset, FS_CardinalityType, FS_EmptySet, ScopeAssumption
    <2> QED
        BY <2>1, <2>3 DEF Room
<1>6. MaxServices + 1 \in Nat
    BY ScopeAssumption
<1>7. Neighbours(frontier) = found
    BY <1>3, <1>5, <1>6, FewerIsAll
<1>8. Added = Unknown
    BY <1>4, FirstIsAll DEF Added
<1> QED
    BY <1>7, <1>8 DEF found, traces

(* A level in which nothing was cut covers everybody known before it.      *)
LEMMA LevelCovers ==
    ASSUME ScopeInv, WalkInv, CoverInv, Expand, ~truncated', TracesFit',
           NEW p \in services
    PROVE  Covered(p)'
<1>1. UNCHANGED <<rows, rowsAtStart>> /\ ~truncated /\ Cardinality(Unknown) <= Room
    <2>1. ~(Cardinality(Unknown) > Room) /\ ~truncated
        BY ExpandIs
    <2>2. Cardinality(Unknown) \in Nat /\ Room \in Nat
        BY LevelFits, FS_CardinalityType
    <2> QED
        BY <2>1, <2>2, ExpandIs
<1>2. TracesFit
    BY <1>1 DEF TracesFit, InWindow
<1>3. distances'[p] = distances[p] /\ distances[p] \in 0 .. level - 1 /\ level \in Nat
    BY LevelIs
<1> SUFFICES ASSUME NEW s \in ServicesIn(TracesOf({p}, rowsAtStart), rowsAtStart)
             PROVE  s \in services' /\ distances'[s] <= distances[p] + 1
    BY <1>1, <1>3 DEF Covered
<1>4. CASE distances[p] < level - 1
    <2>1. Covered(p)
        BY <1>1, <1>2, <1>4, ExpandIs DEF CoverInv
    <2> QED
        BY <2>1, LevelIs DEF Covered
<1>5. CASE distances[p] = level - 1
    <2>1. s \in ServicesIn(TracesOf({p}, rows), rows)
        BY SeenForEver DEF ScopeInv
    <2>2. s \in ServicesIn(TracesOf(frontier, rows), rows)
        <3>1. p \in frontier
            BY <1>5, LevelIs
        <3> QED
            BY <2>1, <3>1 DEF ServicesIn, TracesOf
    <2>3. s \in Neighbours(frontier) /\ Added = Unknown
        BY <1>1, <1>2, <2>2, NobodyLeftOut
    <2>4. CASE s \in services
        <3>1. distances'[s] = distances[s] /\ distances[s] \in 0 .. level - 1
            BY <2>4, LevelIs
        <3> QED
            BY <1>3, <1>5, <2>4, <3>1, LevelIs
    <2>5. CASE s \in Added
        <3>1. distances'[s] = level /\ s \in services'
            BY <2>5, LevelIs
        <3> QED
            BY <1>3, <1>5, <3>1
    <2> QED
        BY <2>3, <2>4, <2>5 DEF Unknown
<1> QED
    BY <1>3, <1>4, <1>5

(* Every operation keeps the levels already walked complete.               *)
LEMMA CoverStep ==
    ScopeInv /\ WalkInv /\ CoverInv /\ [Next]_vars => CoverInv'
<1> SUFFICES ASSUME ScopeInv, WalkInv, CoverInv, [Next]_vars, ~truncated', TracesFit'
             PROVE  /\ pc' \in {"level", "count"} =>
                          \A p \in services' : distances'[p] < level' - 1 => Covered(p)'
                    /\ pc' = "last_count" \/ Expanded' =>
                          \A p \in services' : distances'[p] < depth' => Covered(p)'
    BY DEF CoverInv
<1>0. TracesFit
    BY ScopeStep, RowsGrow, FitBefore
<1>1. CASE UNCHANGED vars \/ \E r \in Rows : Ingest(r)
    <2>1. UNCHANGED <<pc, discovery, services, distances, level, depth, truncated, rowsAtStart>>
        BY <1>1 DEF Ingest, vars, answer, walk
    <2> QED
        BY <1>0, <2>1 DEF CoverInv, Covered, Expanded
<1>2. CASE ResolveList \/ ResolveAll \/ ResolveEntryOnly
    <2>1. pc' = "done" /\ discovery' # "traces"
        BY <1>2 DEF ResolveList, ResolveAll, ResolveEntryOnly, Answer
    <2> QED
        BY <2>1 DEF Expanded
<1>3. CASE StartExpansion
    <2>1. /\ pc' = "level" /\ services' = {Entry} /\ distances' = [s \in {Entry} |-> 0]
          /\ level' = 1
        BY <1>3 DEF StartExpansion
    <2>2. \A p \in services' : ~(distances'[p] < level' - 1)
        BY <2>1
    <2> QED
        BY <2>1, <2>2 DEF Expanded
<1>4. CASE Expand
    <2>1. \A p \in services : Covered(p)'
        BY <1>4, LevelCovers
    <2>2. ASSUME NEW p \in services', pc' \in {"level", "count"}, distances'[p] < level' - 1
          PROVE  Covered(p)'
        <3>1. level' = level + 1 /\ level \in Nat
            BY <1>4, <2>2, ExpandIs, LevelIs
        <3>2. ~(level < level + 1 - 1)
            BY <3>1
        <3>3. p \in services
            BY <1>4, <2>2, <3>1, <3>2, LevelIs
        <3> QED
            BY <2>1, <3>3
    <2>3. ASSUME NEW p \in services', pc' \in {"last_count", "done"}, distances'[p] < depth'
          PROVE  Covered(p)'
        <3>1. /\ Added = {} \/ level = depth
              /\ depth' = depth /\ depth \in Nat /\ ~(depth < depth)
            BY <1>4, <2>3, ExpandIs, LevelIs
        <3>2. p \in services
            BY <1>4, <2>3, <3>1, LevelIs
        <3> QED
            BY <2>1, <3>2
    <2> QED
        BY <2>2, <2>3 DEF Expanded
<1>5. CASE CountTraces
    <2>1. /\ UNCHANGED <<discovery, services, distances, level, depth, truncated, rowsAtStart>>
          /\ pc \in {"count", "last_count"}
          /\ pc' = IF pc = "count" THEN "level" ELSE "done"
        BY <1>5 DEF CountTraces, walk
    <2> QED
        BY <1>0, <2>1 DEF CoverInv, Covered, Expanded
<1>6. CASE Fail
    BY <1>6 DEF Fail, Expanded
<1> QED
    BY <1>1, <1>2, <1>3, <1>4, <1>5, <1>6 DEF Next

-----------------------------------------------------------------------------
(* Services at most k hops away: the recursive definition has a solution,  *)
(* and unfolds.                                                            *)
Hop(f, k) == IF k = 0 THEN {Entry}
             ELSE f[k - 1] \cup ServicesIn(TracesOf(f[k - 1], rowsAtStart), rowsAtStart)

Solves(f, n) == f = [k \in 0 .. n |-> Hop(f, k)]

(* The recursion of WithinHops has a solution up to every depth: the least *)
(* depth without one would be one more than a depth that has one.          *)
LEMMA HopsExist == \A n \in Nat : \E f : Solves(f, n)
<1> DEFINE Bad == {n \in Nat : \A f : ~Solves(f, n)}
<1> SUFFICES ASSUME Bad # {} PROVE FALSE
    OBVIOUS
<1>1. PICK n \in Bad : \A m \in Bad : n <= m
    <2>1. Bad \subseteq Nat
        OBVIOUS
    <2> HIDE DEF Bad
    <2> QED
        BY <2>1, LeastOf
<1>2. n \in Nat /\ \A f : ~Solves(f, n)
    OBVIOUS
<1>3. CASE n = 0
    <2> DEFINE f == [k \in 0 .. 0 |-> {Entry}]
    <2>1. f = [k \in 0 .. 0 |-> Hop(f, k)]
        BY DEF Hop
    <2> HIDE DEF f
    <2> QED
        BY <1>2, <1>3, <2>1 DEF Solves
<1>4. CASE n # 0
    <2>1. n - 1 \in Nat /\ ~(n <= n - 1)
        BY <1>2, <1>4
    <2>2. n - 1 \notin Bad
        BY <1>1, <2>1
    <2>3. PICK f : Solves(f, n - 1)
        BY <2>1, <2>2
    <2> DEFINE g == [k \in 0 .. n |-> Hop(f, k)]
    <2>4. \A k \in 0 .. n - 1 : g[k] = f[k]
        <3>1. \A k \in 0 .. n - 1 : k \in 0 .. n
            BY <1>2
        <3>2. \A k \in 0 .. n - 1 : f[k] = Hop(f, k)
            BY <2>3 DEF Solves
        <3> QED
            BY <3>1, <3>2
    <2>5. \A k \in 0 .. n : Hop(g, k) = Hop(f, k)
        <3> SUFFICES ASSUME NEW k \in 0 .. n PROVE Hop(g, k) = Hop(f, k)
            OBVIOUS
        <3>1. CASE k = 0
            BY <3>1 DEF Hop
        <3>2. CASE k # 0
            <4>1. k - 1 \in 0 .. n - 1
                BY <1>2, <3>2
            <4>2. g[k - 1] = f[k - 1]
                BY <2>4, <4>1
            <4> HIDE DEF g
            <4> QED
                BY <3>2, <4>2 DEF Hop
        <3> QED
            BY <3>1, <3>2
    <2>6. g = [k \in 0 .. n |-> Hop(g, k)]
        <3>1. g = [k \in 0 .. n |-> Hop(f, k)]
            OBVIOUS
        <3> HIDE DEF g
        <3> QED
            BY <2>5, <3>1
    <2> HIDE DEF g
    <2> QED
        BY <1>2, <2>6 DEF Solves
<1> QED
    BY <1>3, <1>4

(* WithinHops is its recursion, for every depth the walk may reach.        *)
LEMMA HopsUnfold ==
    /\ WithinHops[0] = {Entry}
    /\ \A k \in 1 .. MaxDepth :
          WithinHops[k] = WithinHops[k - 1] \cup
              ServicesIn(TracesOf(WithinHops[k - 1], rowsAtStart), rowsAtStart)
<1>1. MaxDepth \in Nat
    BY ScopeAssumption
<1>2. WithinHops = CHOOSE f : Solves(f, MaxDepth)
    BY DEF WithinHops, Solves, Hop
<1>3. Solves(WithinHops, MaxDepth)
    BY <1>1, <1>2, HopsExist
<1>4. \A k \in 0 .. MaxDepth : WithinHops[k] = Hop(WithinHops, k)
    BY <1>3 DEF Solves
<1>5. 0 \in 0 .. MaxDepth /\ \A k \in 1 .. MaxDepth : k \in 0 .. MaxDepth /\ k # 0
    BY <1>1
<1> QED
    BY <1>4, <1>5 DEF Hop

(* Who is k hops away is in, no further than k.                            *)
LEMMA CoveredIsComplete ==
    ASSUME ScopeInv, WalkInv, Expanded, \A p \in services : distances[p] < depth => Covered(p)
    PROVE  Complete
<1>1. depth \in 1 .. MaxDepth /\ MaxDepth \in Nat /\ depth \in Nat
    BY ScopeAssumption DEF WalkInv, Walking
<1>2. /\ Entry \in services /\ distances[Entry] = 0
      /\ \A s \in services : distances[s] \in Nat
    BY DEF WalkInv, Walking, ScopeInv
<1> DEFINE In(k) == \A s \in WithinHops[k] : s \in services /\ distances[s] <= k
           Bad == {k \in 0 .. depth : ~In(k)}
<1>3. SUFFICES ASSUME Bad # {} PROVE FALSE
    BY DEF Complete
<1>4. PICK k \in Bad : \A m \in Bad : k <= m
    <2>1. Bad \subseteq Nat
        BY <1>1
    <2> HIDE DEF Bad
    <2> QED
        BY <1>3, <2>1, LeastOf
<1>5. k \in 0 .. depth /\ ~In(k)
    OBVIOUS
<1>6. CASE k = 0
    BY <1>2, <1>5, <1>6, HopsUnfold
<1>7. CASE k # 0
    <2>1. k - 1 \in 0 .. depth /\ ~(k <= k - 1) /\ k \in 1 .. MaxDepth /\ k \in Nat
        BY <1>1, <1>5, <1>7
    <2>2. In(k - 1)
        BY <1>4, <2>1
    <2>3. \A s \in WithinHops[k - 1] : s \in services /\ distances[s] <= k - 1 /\ distances[s] \in Nat
        BY <1>2, <2>2
    <2>4. WithinHops[k] = WithinHops[k - 1] \cup
              ServicesIn(TracesOf(WithinHops[k - 1], rowsAtStart), rowsAtStart)
        BY <2>1, HopsUnfold
    <2> SUFFICES ASSUME NEW s \in WithinHops[k] PROVE s \in services /\ distances[s] <= k
        BY <1>5
    <2>5. CASE s \in WithinHops[k - 1]
        <3>1. s \in services /\ distances[s] <= k - 1 /\ distances[s] \in Nat
            BY <2>3, <2>5
        <3> QED
            BY <2>1, <3>1
    <2>6. CASE s \in ServicesIn(TracesOf(WithinHops[k - 1], rowsAtStart), rowsAtStart)
        <3>1. PICK p \in WithinHops[k - 1] :
                    s \in ServicesIn(TracesOf({p}, rowsAtStart), rowsAtStart)
            BY <2>6 DEF ServicesIn, TracesOf, InWindow
        <3>2. p \in services /\ distances[p] <= k - 1 /\ distances[p] \in Nat
            BY <2>3
        <3>3. distances[p] < depth
            BY <1>1, <1>5, <2>1, <3>2
        <3>4. s \in services /\ distances[s] <= distances[p] + 1
            BY <3>1, <3>2, <3>3 DEF Covered
        <3>5. distances[s] \in Nat
            BY <1>2, <3>4
        <3> QED
            BY <2>1, <3>2, <3>4, <3>5
    <2> QED
        BY <2>4, <2>5, <2>6
<1> QED
    BY <1>6, <1>7

-----------------------------------------------------------------------------
(* The walk begins at the entry alone.                                     *)
LEMMA ScopeStarts == Init => IInv
<1> SUFFICES ASSUME Init PROVE IInv
    OBVIOUS
<1>1. /\ IsFiniteSet({}) /\ Cardinality({}) = 0 /\ 0 \in 0 .. MaxServices
      /\ DOMAIN distances = {} /\ distances \in [{} -> Nat]
    BY FS_EmptySet, ScopeAssumption DEF Init
<1>2. ScopeInv
    BY <1>1 DEF Init, ScopeInv
<1> QED
    BY <1>1, <1>2 DEF Init, IInv, WalkInv, Walking, Expanded, EveryHopExplained, CoverInv

(* The walk over traces keeps its invariant while telemetry arrives.       *)
THEOREM ScopeInvariance == Spec => []IInv
<1>1. IInv /\ [Next]_vars => IInv'
    BY ScopeStep, WalkStep, HopStep, CoverStep DEF IInv
<1> QED
    BY <1>1, ScopeStarts, PTL DEF Spec

(* The scope is well typed: what is announced of it is about its services. *)
THEOREM ScopeTypeCorrect == Spec => []TypeOK
<1>1. IInv => TypeOK
    BY DEF IInv, ScopeInv, TypeOK
<1> QED
    BY <1>1, ScopeInvariance, PTL

(* Every distance is explained by telemetry one hop nearer.                *)
THEOREM HopsAreExplained == Spec => []EveryHopExplained
<1>1. IInv => EveryHopExplained
    BY DEF IInv
<1> QED
    BY <1>1, ScopeInvariance, PTL

(* No scope outgrows --max-services, in any mode, and the depth announced  *)
(* is that of the furthest service.                                        *)
THEOREM ScopeStaysWithinLimits == Spec => []ScopeWithinLimits
<1>1. IInv => ScopeWithinLimits
    <2> SUFFICES ASSUME IInv PROVE ScopeWithinLimits
        OBVIOUS
    <2>1. Cardinality(services) <= MaxServices
        BY ScopeAssumption DEF IInv, ScopeInv
    <2>2. Expanded => /\ \A s \in services : distances[s] <= reached
                      /\ \E s \in services : distances[s] = reached
                      /\ reached \in 0 .. depth /\ depth \in 1 .. MaxDepth
        BY DEF IInv, WalkInv, Walking
    <2>3. ASSUME reached \in 0 .. depth, depth \in 1 .. MaxDepth PROVE reached <= MaxDepth
        BY <2>3, ScopeAssumption
    <2> QED
        BY <2>1, <2>2, <2>3 DEF ScopeWithinLimits
<1> QED
    BY <1>1, ScopeInvariance, PTL

(* A scope not declared truncated left nobody out who was there when the   *)
(* expansion started, as long as the traces fit in a query.                *)
THEOREM ScopeIsComplete == Spec => []CompleteUnlessTruncated
<1>1. IInv => CompleteUnlessTruncated
    BY CoveredIsComplete DEF IInv, CoverInv, CompleteUnlessTruncated
<1> QED
    BY <1>1, ScopeInvariance, PTL
=============================================================================
