---------------------------- MODULE RankingProofs ----------------------------
(***************************************************************************)
(* Proofs about the two halves of a diagnosis: Ranking, from findings to   *)
(* suspects, and below it Detectors, from telemetry to findings.           *)
(*                                                                         *)
(* Ranking: nobody is a suspect on proximity alone, support never          *)
(* outweighs the symptom it supports, and what is answered are the best    *)
(* scores in order, the deepest of a tie first.  Three things carry it.  A *)
(* class holds what the findings accumulated so far are worth, so that at  *)
(* the end the accumulators say what the findings do; the findings about a *)
(* commit are all support, so that its score is bounded by that of the     *)
(* service that owns it; and an insertion keeps scores in order whatever   *)
(* the comparison says of unknown depths.                                  *)
(*                                                                         *)
(* Detectors: what was always so is no accusation, what gets worse is not  *)
(* acquitted, and a failure is laid on a service below another only when   *)
(* the trace says so.  Evidence above the noise survives one more failure, *)
(* a percentile never falls by a slower observation, and the climb of the  *)
(* parents is a chain of calls that misses nobody below its ceiling.       *)
(***************************************************************************)
EXTENDS Ranking, Detectors, FiniteSetTheorems, FunctionTheorems,
        SequenceTheorems, WellFoundedInduction, TLAPS

(* A set of naturals that is not empty has a least element.                *)
LEMMA LeastOf ==
    ASSUME NEW T, T \subseteq Nat, T # {}
    PROVE  \E x \in T : \A y \in T : x <= y
<1>1. PICK x \in T : \A y \in T : ~(<<y, x>> \in OpToRel(<, Nat))
    <2>1. \E x \in T : \A y \in T : ~(<<y, x>> \in OpToRel(<, Nat))
        BY NatLessThanWellFounded, WFMin
    <2> QED
        BY <2>1
<1>2. \A y \in T : x <= y
    <2> SUFFICES ASSUME NEW y \in T, y < x PROVE FALSE
        OBVIOUS
    <2>1. <<y, x>> \in OpToRel(<, Nat)
        BY DEF OpToRel
    <2> QED
        BY <1>1, <2>1
<1> QED
    BY <1>2

(* A set of positions that is not empty has a last one.                    *)
LEMMA LastOf ==
    ASSUME NEW n \in Nat, NEW S \in SUBSET (1 .. n), S # {}
    PROVE  Max(S) \in S /\ \A i \in S : i <= Max(S)
<1> DEFINE Bounds == {k \in 0 .. n : \A i \in S : i <= k}
<1>1. Bounds \subseteq Nat /\ n \in Bounds
    OBVIOUS
<1>2. PICK k \in Bounds : \A m \in Bounds : k <= m
    <2>1. Bounds # {}
        BY <1>1
    <2> HIDE DEF Bounds
    <2> QED
        BY <1>1, <2>1, LeastOf
<1>3. k \in S
    <2> SUFFICES ASSUME k \notin S PROVE FALSE
        OBVIOUS
    <2>1. \A i \in S : i <= k - 1 /\ 1 <= i
        BY <1>1, <1>2
    <2>2. PICK i \in S : TRUE
        OBVIOUS
    <2>3. k \in Nat /\ k <= n /\ i <= k - 1 /\ 1 <= i /\ i \in Nat
        BY <1>2, <2>1, <2>2
    <2>4. k - 1 \in 0 .. n
        BY <2>3
    <2>5. k - 1 \in Bounds
        BY <2>1, <2>4
    <2>6. k <= k - 1
        BY <1>2, <2>5
    <2> QED
        BY <2>3, <2>6
<1>4. \A i \in S : k >= i
    BY <1>2
<1>5. Max(S) = CHOOSE x \in S : \A y \in S : x >= y
    BY DEF Max
<1>6. Max(S) \in S /\ \A i \in S : Max(S) >= i
    BY <1>3, <1>4, <1>5
<1> QED
    BY <1>6

-----------------------------------------------------------------------------
(* Sums.                                                                   *)

(* The units of one element are as many as it is worth.                    *)
LEMMA UnitsOfOne ==
    ASSUME NEW x, NEW n \in Nat
    PROVE  IsFiniteSet({x} \X (1 .. n)) /\ Cardinality({x} \X (1 .. n)) = n
<1>1. IsFiniteSet(1 .. n) /\ Cardinality(1 .. n) = n
    BY FS_Interval
<1>2. IsFiniteSet({x}) /\ Cardinality({x}) = 1
    BY FS_Singleton
<1>3. Cardinality({x} \X (1 .. n)) = 1 * n
    BY <1>1, <1>2, FS_Product
<1>4. IsFiniteSet({x} \X (1 .. n))
    BY <1>1, <1>2, FS_Product
<1>5. 1 * n = n
    OBVIOUS
<1> QED
    BY <1>3, <1>4, <1>5

(* A sum of finitely many naturals is one.                                 *)
LEMMA TotalTyped ==
    ASSUME NEW f, NEW S, IsFiniteSet(S), \A x \in S : f[x] \in Nat
    PROVE  IsFiniteSet(Units(f, S)) /\ Total(f, S) \in Nat
<1> DEFINE unit == [x \in S |-> {x} \X (1 .. f[x])]
           all  == {unit[x] : x \in S}
<1>1. IsFiniteSet(all)
    <2>1. unit \in [S -> all]
        OBVIOUS
    <2>2. \A u \in all : \E x \in S : unit[x] = u
        OBVIOUS
    <2>3. unit \in Surjection(S, all)
        BY <2>1, <2>2 DEF Surjection
    <2> QED
        BY <2>3, FS_Surjection
<1>2. \A u \in all : IsFiniteSet(u)
    <2> SUFFICES ASSUME NEW x \in S PROVE IsFiniteSet({x} \X (1 .. f[x]))
        OBVIOUS
    <2>1. f[x] \in Nat
        OBVIOUS
    <2> QED
        BY <2>1, UnitsOfOne
<1>3. Units(f, S) = UNION all
    BY DEF Units
<1> HIDE DEF all
<1>4. IsFiniteSet(Units(f, S))
    BY <1>1, <1>2, <1>3, FS_UNION
<1> QED
    BY <1>4, FS_CardinalityType DEF Total

(* One more element adds what it is worth.                                 *)
LEMMA TotalAdds ==
    ASSUME NEW f, NEW S, IsFiniteSet(S), NEW z, z \notin S,
           \A x \in S : f[x] \in Nat, f[z] \in Nat
    PROVE  Total(f, S \cup {z}) = Total(f, S) + f[z]
<1> DEFINE A == Units(f, S)
           B == {z} \X (1 .. f[z])
<1>1. Units(f, S \cup {z}) = A \cup B
    BY DEF Units
<1>2. A \cap B = {}
    BY DEF Units
<1>3. IsFiniteSet(A) /\ Total(f, S) \in Nat
    BY TotalTyped
<1>4. IsFiniteSet(B) /\ Cardinality(B) = f[z]
    BY UnitsOfOne
<1> HIDE DEF A, B
<1>5. Cardinality(A \cup B) = Cardinality(A) + Cardinality(B) - Cardinality(A \cap B)
    BY <1>3, <1>4, FS_Union
<1>6. Cardinality(A \cap B) = 0
    BY <1>2, FS_EmptySet
<1>7. Cardinality(A) = Total(f, S)
    BY DEF Total, A
<1>8. Total(f, S \cup {z}) = Cardinality(A \cup B)
    BY <1>1 DEF Total
<1> QED
    BY <1>3, <1>4, <1>5, <1>6, <1>7, <1>8

(* A sum depends on the values of its elements alone.                      *)
LEMMA TotalSame ==
    ASSUME NEW f, NEW g, NEW S, \A x \in S : f[x] = g[x]
    PROVE  Total(f, S) = Total(g, S)
<1>1. {{x} \X (1 .. f[x]) : x \in S} = {{x} \X (1 .. g[x]) : x \in S}
    OBVIOUS
<1> QED
    BY <1>1 DEF Total, Units

(* A sum of nothing is nothing.                                            *)
LEMMA TotalZero ==
    ASSUME NEW f, NEW S, \A x \in S : f[x] = 0
    PROVE  Total(f, S) = 0
<1>1. 1 .. 0 = {}
    OBVIOUS
<1>2. Units(f, S) = {}
    BY <1>1 DEF Units
<1> QED
    BY <1>2, FS_EmptySet DEF Total

-----------------------------------------------------------------------------
(* The inductive invariant.                                                *)

(* A finding; those about a commit are of a deployment.                    *)
Facts ==
    {f \in [subject : Subjects, service : Services, rule : DOMAIN ClassOf, score : 0 .. Unit] :
        f.subject \in Commits => ClassOf[f.rule] = Support}

StateInv ==
    /\ pc \in {"observe", "corroborate", "rank", "tie", "done", "failed"}
    /\ topN \in TopNs /\ depths \in Depths
    /\ next \in SUBSET Services
    /\ findings \in Seq(Facts) /\ at \in 0 .. Len(findings)
    /\ owner \in [Subjects -> Services \cup {0}]
    /\ byClass \in [Subjects -> [Classes -> Nat]]
    /\ score \in [Subjects -> Nat]
    /\ suspects \in Seq(Subjects)
    /\ pc \in {"observe", "corroborate"} => at = 0
    /\ pc \notin {"tie", "done"} => suspects = <<>>

(* What the first n findings about x are worth in a class.                 *)
Worth == [i \in DOMAIN findings |-> Value(findings[i])]
About(x, c, n) ==
    {i \in 1 .. n : findings[i].subject = x /\ ClassOf[findings[i].rule] = c}

(* The accumulators say what the findings visited do.                      *)
SumInv ==
    /\ \A x \in Subjects, c \in Classes : byClass[x][c] = Total(Worth, About(x, c, at))
    /\ \A x \in Subjects : owner[x] # 0 =>
          \E i \in 1 .. at : findings[i].subject = x /\ findings[i].service = owner[x]
    /\ Scored => /\ at = Len(findings) /\ topN > 0
                 /\ score = [x \in Subjects |-> ScoreOf(x)]

(* A list in the order of the scores, without repetition.                  *)
Ordered(list) ==
    \A i, j \in 1 .. Len(list) : i < j =>
        list[i] # list[j] /\ score[list[i]] >= score[list[j]]

(* The deepest of a tie come first.                                        *)
Leveled(list) ==
    \A i, j \in 1 .. Len(list) :
        i < j /\ score[list[i]] = score[list[j]] /\ TieIsComparable(list[i])
            => depths[list[i]] >= depths[list[j]]

(* Suspects are the best, in order.                                        *)
RankInv ==
    /\ Scored =>
          /\ Len(suspects) <= topN /\ Ordered(suspects)
          /\ \A i \in 1 .. Len(suspects) : score[suspects[i]] > 0
          /\ \A y \in Subjects : \A i \in 1 .. Len(suspects) : score[y] > score[suspects[i]] =>
                \E j \in 1 .. Len(suspects) : suspects[j] = y
    /\ pc = "done" => Leveled(suspects)

IInv == StateInv /\ SumInv /\ RankInv

(* What a list of subjects is.                                             *)
LEMMA ListTyped ==
    ASSUME NEW T, NEW s \in Seq(T)
    PROVE  Len(s) \in Nat /\ DOMAIN s = 1 .. Len(s) /\ \A i \in 1 .. Len(s) : s[i] \in T
BY LenProperties, ElementOfSeq

(* A finite set as a sequence.                                             *)
LEMMA AsSequence ==
    ASSUME NEW S, IsFiniteSet(S)
    PROVE  SetToSeq(S) \in Seq(S)
<1>1. Cardinality(S) \in Nat /\ ExistsBijection(1 .. Cardinality(S), S)
    BY FS_CardinalityType
<1>2. PICK f \in Bijection(1 .. Cardinality(S), S) : TRUE
    BY <1>1 DEF ExistsBijection
<1>3. f \in [1 .. Cardinality(S) -> S] /\ IsInjective(f)
    BY <1>2 DEF Bijection, Injection, IsInjective
<1>4. SetToSeq(S) \in [1 .. Cardinality(S) -> S]
    BY <1>3 DEF SetToSeq
<1> QED
    BY <1>1, <1>4

(* What the detectors find in one service.                                 *)
LEMMA FoundTyped ==
    ASSUME NEW s \in Services, NEW found \in Symptoms
    PROVE  SetToSeq({Finding(s, s, r, found[r]) : r \in DOMAIN found}) \in Seq(Facts)
<1> DEFINE F == {Finding(s, s, r, found[r]) : r \in DOMAIN found}
           f == [r \in DOMAIN found |-> Finding(s, s, r, found[r])]
<1>1. DOMAIN found \subseteq DOMAIN ClassOf /\ \A r \in DOMAIN found : found[r] \in 0 .. Unit
    BY RankingAssumption
<1>2. IsFiniteSet(DOMAIN found)
    BY <1>1, RankingAssumption, FS_Subset
<1>3. IsFiniteSet(F)
    <2>1. f \in [DOMAIN found -> F] /\ \A y \in F : \E r \in DOMAIN found : f[r] = y
        OBVIOUS
    <2>2. f \in Surjection(DOMAIN found, F)
        BY <2>1 DEF Surjection
    <2> QED
        BY <1>2, <2>2, FS_Surjection
<1>4. s \in Subjects /\ s \notin Commits
    BY RankingAssumption DEF Subjects
<1>5. F \subseteq Facts
    <2> SUFFICES ASSUME NEW r \in DOMAIN found PROVE Finding(s, s, r, found[r]) \in Facts
        OBVIOUS
    <2> QED
        BY <1>1, <1>4 DEF Facts, Finding
<1> HIDE DEF F
<1>6. SetToSeq(F) \in Seq(F)
    BY <1>3, AsSequence
<1> QED
    BY <1>5, <1>6, SeqMonotonic DEF F

(* What proximity finds in one service.                                    *)
LEMMA NearTyped ==
    ASSUME NEW s \in Services, NEW near \in Nearby
    PROVE  ProximityOf(s, near) \in Seq(Facts)
<1> DEFINE schema == IF near.schema = 0 THEN <<>>
                     ELSE <<Finding(s, s, "schema_change_proximity", near.schema)>>
           deploy == IF near.commit = 0 THEN <<>>
                     ELSE <<Finding(s, s, "deployment_proximity", near.deploy),
                            Finding(near.commit, s, "deployment_proximity", near.deploy)>>
<1>1. /\ near.schema \in 0 .. Unit /\ near.deploy \in 0 .. Unit
      /\ near.commit # 0 => near.commit \in Commits
    BY RankingAssumption
<1>2. s \in Subjects /\ (near.commit # 0 => near.commit \in Subjects)
    BY <1>1 DEF Subjects
<1>3. \A rule \in {"schema_change_proximity", "deployment_proximity"} :
          rule \in DOMAIN ClassOf /\ ClassOf[rule] = Support
    BY RankingAssumption
<1>4. /\ Finding(s, s, "schema_change_proximity", near.schema) \in Facts
      /\ Finding(s, s, "deployment_proximity", near.deploy) \in Facts
      /\ near.commit # 0 =>
            Finding(near.commit, s, "deployment_proximity", near.deploy) \in Facts
    BY <1>1, <1>2, <1>3 DEF Facts, Finding
<1>5. schema \in Seq(Facts)
    BY <1>4
<1>6. deploy \in Seq(Facts)
    BY <1>4
<1>7. ProximityOf(s, near) = schema \o deploy
    BY DEF ProximityOf
<1> HIDE DEF schema, deploy
<1> QED
    BY <1>5, <1>6, <1>7, ConcatProperties

(* Every part of a class is a natural, and at most its budget.             *)
LEMMA PartsTyped ==
    ASSUME StateInv, NEW x \in Subjects
    PROVE  /\ \A c \in Classes : Capped(x, c) \in Nat /\ Capped(x, c) <= byClass[x][c]
           /\ Measured(x) \in Nat
<1>1. \A c \in Classes : byClass[x][c] \in Nat /\ Unit * Weight[c] \in Nat
    BY RankingAssumption DEF StateInv
<1>2. \A c \in Classes : Capped(x, c) \in Nat /\ Capped(x, c) <= byClass[x][c]
    BY <1>1 DEF Capped
<1> DEFINE part == [c \in Classes |-> Capped(x, c)]
           C == Classes \ {Support}
<1>3. IsFiniteSet(C) /\ \A c \in C : part[c] \in Nat
    BY <1>2, RankingAssumption, FS_Subset
<1>4. Measured(x) = Total(part, C)
    BY DEF Measured
<1> HIDE DEF part, C
<1>5. Measured(x) \in Nat
    BY <1>3, <1>4, TotalTyped
<1> QED
    BY <1>2, <1>5

(* Support is a natural, at most the symptom it supports.                  *)
LEMMA ScoreBound ==
    ASSUME StateInv, NEW x \in Subjects
    PROVE  /\ ScoreOf(x) \in Nat /\ ScoreOf(x) = Measured(x) + LimitSupport(x)
           /\ LimitSupport(x) \in Nat
           /\ x \notin Commits => LimitSupport(x) <= Measured(x)
           /\ x \in Commits =>
                 IF owner[x] = 0 THEN LimitSupport(x) = 0
                 ELSE owner[x] \in Services /\ LimitSupport(x) <= Measured(owner[x])
<1>1. /\ Support \in Classes /\ Capped(x, Support) \in Nat
      /\ Measured(x) \in Nat
    BY PartsTyped, RankingAssumption
<1>2. owner[x] # 0 => owner[x] \in Services /\ owner[x] \in Subjects /\ Measured(owner[x]) \in Nat
    BY PartsTyped DEF StateInv, Subjects
<1>3. LimitSupport(x) \in Nat
    BY <1>1, <1>2 DEF LimitSupport, Least
<1> QED
    BY <1>1, <1>2, <1>3 DEF LimitSupport, Least, ScoreOf

-----------------------------------------------------------------------------
(* The insertion sort.                                                     *)

(* An element put in a list keeps the order of the others.                 *)
LEMMA Inserted ==
    ASSUME NEW list \in Seq(Subjects), NEW k \in 0 .. Len(list), NEW x \in Subjects
    PROVE  /\ InsertAt(list, k + 1, x) \in Seq(Subjects)
           /\ Len(InsertAt(list, k + 1, x)) = Len(list) + 1
           /\ \A i \in 1 .. k : InsertAt(list, k + 1, x)[i] = list[i]
           /\ InsertAt(list, k + 1, x)[k + 1] = x
           /\ \A i \in k + 2 .. Len(list) + 1 : InsertAt(list, k + 1, x)[i] = list[i - 1]
<1> DEFINE n == Len(list)
           a == SubSeq(list, 1, k)
           b == SubSeq(list, k + 1, n)
           c == a \o <<x>>
           r == c \o b
<1>1. n \in Nat /\ k \in Nat /\ k <= n /\ \A i \in 1 .. n : list[i] \in Subjects
    BY ListTyped
<1>2. InsertAt(list, k + 1, x) = r
    <2>1. (k + 1) - 1 = k
        BY <1>1
    <2> QED
        BY <2>1 DEF InsertAt
<1> HIDE DEF n
<1>3. a \in Seq(Subjects) /\ Len(a) = k /\ \A i \in 1 .. k : a[i] = list[i]
    <2>1. \A i \in 1 .. k : list[i] \in Subjects
        BY <1>1
    <2>2. /\ a \in Seq(Subjects) /\ Len(a) = IF 1 <= k THEN k - 1 + 1 ELSE 0
          /\ \A i \in 1 .. k - 1 + 1 : a[i] = list[1 + i - 1]
        BY <1>1, <2>1, SubSeqProperties
    <2>3. k - 1 + 1 = k /\ (~(1 <= k) => k = 0) /\ \A i \in 1 .. k : 1 + i - 1 = i
        BY <1>1
    <2> HIDE DEF a
    <2> QED
        BY <2>2, <2>3
<1>4. b \in Seq(Subjects) /\ Len(b) = n - k /\ \A i \in 1 .. n - k : b[i] = list[k + i]
    <2>1. \A i \in k + 1 .. n : list[i] \in Subjects
        BY <1>1
    <2>2. /\ b \in Seq(Subjects) /\ Len(b) = IF k + 1 <= n THEN n - (k + 1) + 1 ELSE 0
          /\ \A i \in 1 .. n - (k + 1) + 1 : b[i] = list[k + 1 + i - 1]
        BY <1>1, <2>1, SubSeqProperties
    <2>3. /\ n - (k + 1) + 1 = n - k /\ (~(k + 1 <= n) => n - k = 0)
          /\ \A i \in 1 .. n - k : k + 1 + i - 1 = k + i
        BY <1>1
    <2> HIDE DEF b
    <2> QED
        BY <2>2, <2>3
<1>5. <<x>> \in Seq(Subjects) /\ Len(<<x>>) = 1 /\ <<x>>[1] = x
    OBVIOUS
<1> HIDE DEF a, b
<1>6. /\ c \in Seq(Subjects) /\ Len(c) = k + 1
      /\ \A i \in 1 .. k : c[i] = list[i]
      /\ c[k + 1] = x
    <2>1. /\ c \in Seq(Subjects) /\ Len(c) = k + 1
          /\ \A i \in 1 .. k + 1 : c[i] = IF i <= k THEN a[i] ELSE <<x>>[i - k]
        BY <1>3, <1>5, ConcatProperties
    <2>2. /\ \A i \in 1 .. k : i \in 1 .. k + 1 /\ i <= k
          /\ k + 1 \in 1 .. k + 1 /\ ~(k + 1 <= k) /\ (k + 1) - k = 1
        BY <1>1
    <2> HIDE DEF c
    <2> QED
        BY <1>3, <1>5, <2>1, <2>2
<1> HIDE DEF c
<1>7. /\ r \in Seq(Subjects) /\ Len(r) = (k + 1) + (n - k)
      /\ \A i \in 1 .. (k + 1) + (n - k) : r[i] = IF i <= k + 1 THEN c[i] ELSE b[i - (k + 1)]
    <2>1. c \in Seq(Subjects) /\ b \in Seq(Subjects) /\ Len(c) = k + 1 /\ Len(b) = n - k
        BY <1>4, <1>6
    <2>2. /\ r \in Seq(Subjects) /\ Len(r) = Len(c) + Len(b)
          /\ \A i \in 1 .. Len(c) + Len(b) : r[i] = IF i <= Len(c) THEN c[i] ELSE b[i - Len(c)]
        BY <2>1, ConcatProperties
    <2> HIDE DEF r
    <2> QED
        BY <2>1, <2>2
<1>8. /\ (k + 1) + (n - k) = n + 1
      /\ \A i \in 1 .. k : i \in 1 .. n + 1 /\ i <= k + 1
      /\ k + 1 \in 1 .. n + 1 /\ k + 1 <= k + 1
      /\ \A i \in k + 2 .. n + 1 : /\ i \in 1 .. n + 1 /\ ~(i <= k + 1)
                                   /\ i - (k + 1) \in 1 .. n - k /\ k + (i - (k + 1)) = i - 1
    BY <1>1
<1> HIDE DEF r
<1>9. \A i \in 1 .. n + 1 : r[i] = IF i <= k + 1 THEN c[i] ELSE b[i - (k + 1)]
    BY <1>7, <1>8
<1>10. \A i \in 1 .. k : r[i] = list[i]
    BY <1>6, <1>8, <1>9
<1>11. r[k + 1] = x
    BY <1>6, <1>8, <1>9
<1>12. \A i \in k + 2 .. n + 1 : r[i] = list[i - 1]
    <2> SUFFICES ASSUME NEW i \in k + 2 .. n + 1 PROVE r[i] = list[i - 1]
        OBVIOUS
    <2>1. /\ i \in 1 .. n + 1 /\ ~(i <= k + 1)
          /\ i - (k + 1) \in 1 .. n - k /\ k + (i - (k + 1)) = i - 1
        BY <1>8
    <2>2. r[i] = b[i - (k + 1)]
        BY <1>9, <2>1
    <2>3. b[i - (k + 1)] = list[k + (i - (k + 1))]
        BY <1>4, <2>1
    <2> QED
        BY <2>1, <2>2, <2>3
<1> QED
    BY <1>2, <1>7, <1>8, <1>10, <1>11, <1>12 DEF n

(* Where the sort puts x: behind one it does not precede, before all it    *)
(* precedes from there on.                                                 *)
LEMMA PlacedAt ==
    ASSUME NEW list \in Seq(Subjects), NEW x
    PROVE  \E k \in 0 .. Len(list) :
               /\ Placed(list, x) = InsertAt(list, k + 1, x)
               /\ k # 0 => k \in 1 .. Len(list) /\ ~Deeper(x, list[k])
               /\ \A i \in k + 1 .. Len(list) : Deeper(x, list[i])
<1> DEFINE stays == {i \in DOMAIN list : ~Deeper(x, list[i])}
           after == IF stays = {} THEN 0 ELSE Max(stays)
<1>1. Len(list) \in Nat /\ DOMAIN list = 1 .. Len(list)
    BY ListTyped
<1>2. Placed(list, x) = InsertAt(list, after + 1, x)
    BY DEF Placed
<1>3. CASE stays = {}
    <2>1. after = 0
        BY <1>3
    <2>2. 0 \in 0 .. Len(list) /\ \A i \in 0 + 1 .. Len(list) : i \in 1 .. Len(list)
        BY <1>1
    <2>3. \A i \in 1 .. Len(list) : Deeper(x, list[i])
        BY <1>1, <1>3
    <2> HIDE DEF stays, after
    <2> QED
        BY <1>2, <2>1, <2>2, <2>3
<1>4. CASE stays # {}
    <2>1. stays \in SUBSET (1 .. Len(list))
        BY <1>1
    <2>2. after \in stays /\ \A i \in stays : i <= after
        <3>1. after = Max(stays)
            BY <1>4
        <3> HIDE DEF stays, after
        <3> QED
            BY <1>1, <1>4, <2>1, <3>1, LastOf
    <2>3. after \in 1 .. Len(list) /\ ~Deeper(x, list[after])
        BY <1>1, <2>2
    <2>4. \A i \in after + 1 .. Len(list) : i \in 1 .. Len(list) /\ ~(i <= after)
        <3> HIDE DEF after
        <3> QED
            BY <1>1, <2>3
    <2>5. \A i \in after + 1 .. Len(list) : Deeper(x, list[i])
        BY <1>1, <2>2, <2>4
    <2>6. after \in 0 .. Len(list)
        BY <1>1, <2>3
    <2> HIDE DEF stays, after
    <2> QED
        BY <1>2, <2>3, <2>5, <2>6
<1> QED
    BY <1>3, <1>4

(* A list of the first n suspects, as the sort has them: the same ones, in *)
(* the order of their scores, the deepest of a tie first.                  *)
Drawn(list, n) ==
    /\ list \in Seq(Subjects) /\ Len(list) = n
    /\ \A i \in 1 .. n : \E m \in 1 .. n : list[i] = suspects[m]
    /\ \A m \in 1 .. n : \E i \in 1 .. n : list[i] = suspects[m]
    /\ Ordered(list) /\ Leveled(list)

(* Depths are naturals.                                                    *)
LEMMA DepthTyped ==
    ASSUME StateInv, NEW x, Known(x)
    PROVE  depths[x] \in Nat
BY RankingAssumption DEF StateInv, Known

(* Who x does not precede is not below it.                                 *)
LEMMA NotBelow ==
    ASSUME StateInv, NEW x, NEW y, score[x] = score[y], Known(x), Known(y)
    PROVE  /\ ~Deeper(x, y) => depths[y] >= depths[x]
           /\ Deeper(x, y) => depths[x] >= depths[y]
<1>1. depths[x] \in Nat /\ depths[y] \in Nat
    BY DepthTyped
<1> QED
    BY <1>1 DEF Deeper

(* One more suspect put in its place.                                      *)
LEMMA PlaceStep ==
    ASSUME StateInv, Ordered(suspects), NEW n \in 1 .. Len(suspects), NEW list, Drawn(list, n - 1)
    PROVE  Drawn(Placed(list, suspects[n]), n)
<1> DEFINE x == suspects[n]
<1>1. /\ n \in Nat /\ n - 1 \in Nat /\ n - 1 + 1 = n
      /\ \A m \in 1 .. n - 1 : m \in 1 .. Len(suspects) /\ m < n
      /\ \A m \in 1 .. n : m \in 1 .. n - 1 \/ m = n
      /\ \A m \in 1 .. n - 1 : m \in 1 .. n
      /\ n \in 1 .. n
    BY ListTyped DEF StateInv
<1>2. /\ list \in Seq(Subjects) /\ Len(list) = n - 1
      /\ \A i \in 1 .. n - 1 : list[i] \in Subjects
    BY ListTyped DEF Drawn
<1>3. x \in Subjects
    BY ListTyped DEF StateInv
<1>4. \A i \in 1 .. n - 1 : list[i] # x /\ score[list[i]] >= score[x]
    <2> SUFFICES ASSUME NEW i \in 1 .. n - 1 PROVE list[i] # x /\ score[list[i]] >= score[x]
        OBVIOUS
    <2>1. PICK m \in 1 .. n - 1 : list[i] = suspects[m]
        BY DEF Drawn
    <2> QED
        BY <1>1, <2>1 DEF Ordered
<1>5. PICK k \in 0 .. n - 1 :
          /\ Placed(list, x) = InsertAt(list, k + 1, x)
          /\ k # 0 => k \in 1 .. n - 1 /\ ~Deeper(x, list[k])
          /\ \A i \in k + 1 .. n - 1 : Deeper(x, list[i])
    BY <1>2, PlacedAt
<1> DEFINE r == Placed(list, x)
<1>6. /\ r \in Seq(Subjects) /\ Len(r) = n
      /\ \A i \in 1 .. k : r[i] = list[i]
      /\ r[k + 1] = x
      /\ \A i \in k + 2 .. n : r[i] = list[i - 1]
    <2>1. k \in 0 .. Len(list)
        BY <1>2, <1>5
    <2>2. /\ r \in Seq(Subjects) /\ Len(r) = n - 1 + 1
          /\ \A i \in 1 .. k : r[i] = list[i]
          /\ r[k + 1] = x
          /\ \A i \in k + 2 .. n - 1 + 1 : r[i] = list[i - 1]
        <3> HIDE DEF x
        <3>1. r = InsertAt(list, k + 1, x)
            BY <1>5
        <3>2. list \in Seq(Subjects) /\ k \in 0 .. Len(list) /\ x \in Subjects
            BY <1>2, <1>3, <2>1
        <3> DEFINE t == InsertAt(list, k + 1, x)
        <3>3. /\ t \in Seq(Subjects) /\ Len(t) = Len(list) + 1
              /\ \A i \in 1 .. k : t[i] = list[i]
              /\ t[k + 1] = x
              /\ \A i \in k + 2 .. Len(list) + 1 : t[i] = list[i - 1]
            BY <3>2, Inserted
        <3>4. r = t
            BY <3>1
        <3> HIDE DEF r, t
        <3> QED
            BY <1>2, <3>3, <3>4
    <2> HIDE DEF r, x
    <2> QED
        BY <1>1, <2>2
<1> HIDE DEF r, x
<1>7. /\ \A i \in 1 .. n : i \in 1 .. k \/ i = k + 1 \/ i \in k + 2 .. n
      /\ \A i \in 1 .. k : i \in 1 .. n - 1 /\ i \in 1 .. n
      /\ \A i \in k + 2 .. n : i - 1 \in k + 1 .. n - 1 /\ i - 1 \in 1 .. n - 1
      /\ \A i \in k + 1 .. n - 1 : i + 1 \in k + 2 .. n /\ i + 1 \in 1 .. n /\ i + 1 - 1 = i
      /\ \A i \in 1 .. n - 1 : i \in 1 .. k \/ i \in k + 1 .. n - 1
      /\ k + 1 \in 1 .. n
    BY <1>1
<1>8. \A i \in 1 .. n : \E m \in 1 .. n : r[i] = suspects[m]
    <2>1. \A j \in 1 .. n - 1 : \E m \in 1 .. n : list[j] = suspects[m]
        BY <1>1 DEF Drawn
    <2> SUFFICES ASSUME NEW i \in 1 .. n PROVE \E m \in 1 .. n : r[i] = suspects[m]
        OBVIOUS
    <2>2. CASE i \in 1 .. k
        BY <1>6, <1>7, <2>1, <2>2
    <2>3. CASE i = k + 1
        BY <1>1, <1>6, <2>3 DEF x
    <2>4. CASE i \in k + 2 .. n
        BY <1>6, <1>7, <2>1, <2>4
    <2> QED
        BY <1>7, <2>2, <2>3, <2>4
<1>9. \A m \in 1 .. n : \E i \in 1 .. n : r[i] = suspects[m]
    <2>1. \A j \in 1 .. n - 1 : \E i \in 1 .. n : r[i] = list[j]
        <3> SUFFICES ASSUME NEW j \in 1 .. n - 1 PROVE \E i \in 1 .. n : r[i] = list[j]
            OBVIOUS
        <3>1. CASE j \in 1 .. k
            BY <1>6, <1>7, <3>1
        <3>2. CASE j \in k + 1 .. n - 1
            <4>1. j + 1 \in k + 2 .. n /\ j + 1 \in 1 .. n /\ j + 1 - 1 = j
                BY <1>7, <3>2
            <4>2. r[j + 1] = list[j]
                BY <1>6, <4>1
            <4> QED
                BY <4>1, <4>2
        <3> QED
            BY <1>7, <3>1, <3>2
    <2>2. \A m \in 1 .. n - 1 : \E j \in 1 .. n - 1 : list[j] = suspects[m]
        BY DEF Drawn
    <2>3. r[k + 1] = suspects[n] /\ k + 1 \in 1 .. n
        BY <1>6, <1>7 DEF x
    <2> SUFFICES ASSUME NEW m \in 1 .. n PROVE \E i \in 1 .. n : r[i] = suspects[m]
        OBVIOUS
    <2>4. CASE m = n
        BY <2>3, <2>4
    <2>5. CASE m \in 1 .. n - 1
        <3>1. PICK j \in 1 .. n - 1 : list[j] = suspects[m]
            BY <2>2, <2>5
        <3> QED
            BY <2>1, <3>1
    <2> QED
        BY <1>1, <2>4, <2>5
(* Two places of r, one behind the other, are two of the list in that      *)
(* order, or one of them is that of x.                                     *)
<1>10. \A i, j \in 1 .. n : i < j =>
          \/ \E a, b \in 1 .. n - 1 : a < b /\ r[i] = list[a] /\ r[j] = list[b]
          \/ r[i] = x /\ \E b \in k + 1 .. n - 1 : r[j] = list[b]
          \/ r[j] = x /\ \E a \in 1 .. k : r[i] = list[a]
    <2> SUFFICES ASSUME NEW i \in 1 .. n, NEW j \in 1 .. n, i < j
                 PROVE  \/ \E a, b \in 1 .. n - 1 : a < b /\ r[i] = list[a] /\ r[j] = list[b]
                        \/ r[i] = x /\ \E b \in k + 1 .. n - 1 : r[j] = list[b]
                        \/ r[j] = x /\ \E a \in 1 .. k : r[i] = list[a]
        OBVIOUS
    <2>1. CASE i \in 1 .. k /\ j \in 1 .. k
        BY <1>6, <1>7, <2>1
    <2>2. CASE i \in 1 .. k /\ j = k + 1
        BY <1>6, <2>2
    <2>3. CASE i \in 1 .. k /\ j \in k + 2 .. n
        <3>1. i < j - 1 /\ j - 1 \in 1 .. n - 1 /\ i \in 1 .. n - 1
            BY <1>7, <2>3
        <3> QED
            BY <1>6, <2>3, <3>1
    <2>4. CASE i = k + 1 /\ j \in k + 2 .. n
        BY <1>6, <1>7, <2>4
    <2>5. CASE i \in k + 2 .. n /\ j \in k + 2 .. n
        <3>1. i - 1 < j - 1 /\ j - 1 \in 1 .. n - 1 /\ i - 1 \in 1 .. n - 1
            BY <1>7, <2>5
        <3> QED
            BY <1>6, <2>5, <3>1
    <2>6. /\ i = k + 1 => j \in k + 2 .. n
          /\ i \in k + 2 .. n => j \in k + 2 .. n
        BY <1>1
    <2> QED
        BY <1>7, <2>1, <2>2, <2>3, <2>4, <2>5, <2>6
<1>11. \A y \in Subjects : score[y] \in Nat
    BY DEF StateInv
<1>12. \A a, b \in 1 .. n - 1 : a < b => list[a] # list[b] /\ score[list[a]] >= score[list[b]]
    BY <1>2 DEF Drawn, Ordered
<1>13. \A b \in k + 1 .. n - 1 : b \in 1 .. n - 1 /\ score[list[b]] = score[x]
    <2> SUFFICES ASSUME NEW b \in k + 1 .. n - 1 PROVE b \in 1 .. n - 1 /\ score[list[b]] = score[x]
        OBVIOUS
    <2>1. b \in 1 .. n - 1
        BY <1>1
    <2>2. Deeper(x, list[b])
        BY <1>5
    <2>3. score[list[b]] \in Nat /\ score[x] \in Nat /\ score[list[b]] >= score[x]
        BY <1>2, <1>3, <1>4, <1>11, <2>1
    <2>4. score[x] # score[list[b]] => score[x] > score[list[b]]
        BY <2>2 DEF Deeper
    <2> QED
        BY <2>1, <2>3, <2>4
<1>14. Ordered(r)
    <2> SUFFICES ASSUME NEW i \in 1 .. n, NEW j \in 1 .. n, i < j
                 PROVE  r[i] # r[j] /\ score[r[i]] >= score[r[j]]
        BY <1>6 DEF Ordered
    <2>1. CASE \E a, b \in 1 .. n - 1 : a < b /\ r[i] = list[a] /\ r[j] = list[b]
        BY <1>12, <2>1
    <2>2. CASE r[i] = x /\ \E b \in k + 1 .. n - 1 : r[j] = list[b]
        <3>1. PICK b \in k + 1 .. n - 1 : r[j] = list[b]
            BY <2>2
        <3>2. score[list[b]] = score[x] /\ list[b] # x /\ score[x] \in Nat
            BY <1>3, <1>4, <1>11, <1>13
        <3>3. score[x] >= score[x]
            BY <3>2
        <3> QED
            BY <2>2, <3>1, <3>2, <3>3
    <2>3. CASE r[j] = x /\ \E a \in 1 .. k : r[i] = list[a]
        BY <1>4, <1>7, <2>3
    <2> QED
        BY <1>10, <2>1, <2>2, <2>3
<1>15. \A y \in Subjects : \A z :
          score[y] = score[z] /\ TieIsComparable(y) /\ (\E m \in 1 .. n : z = suspects[m])
              => Known(z)
    <2>1. \A m \in 1 .. n : suspects[m] \in ToSet(suspects)
        <3>1. DOMAIN suspects = 1 .. Len(suspects) /\ \A m \in 1 .. n : m \in 1 .. Len(suspects)
            BY <1>1, ListTyped DEF StateInv
        <3> QED
            BY <3>1 DEF ToSet
    <2> QED
        BY <2>1 DEF TieIsComparable
<1>16. Leveled(r)
    <2> SUFFICES ASSUME NEW i \in 1 .. n, NEW j \in 1 .. n, i < j,
                        score[r[i]] = score[r[j]], TieIsComparable(r[i])
                 PROVE  depths[r[i]] >= depths[r[j]]
        BY <1>6 DEF Leveled
    <2>1. r[i] \in Subjects /\ r[j] \in Subjects
        BY <1>6, ListTyped
    <2>2. Known(r[i]) /\ Known(r[j])
        BY <1>8, <1>15, <2>1
    <2>3. CASE \E a, b \in 1 .. n - 1 : a < b /\ r[i] = list[a] /\ r[j] = list[b]
        BY <1>2, <2>3 DEF Drawn, Leveled
    <2>4. CASE r[i] = x /\ \E b \in k + 1 .. n - 1 : r[j] = list[b]
        BY <1>5, <2>2, <2>4, NotBelow
    <2>5. CASE r[j] = x /\ \E a \in 1 .. k : r[i] = list[a]
        <3>1. PICK a \in 1 .. k : r[i] = list[a]
            BY <2>5
        <3>2. k \in 1 .. n - 1 /\ ~Deeper(x, list[k]) /\ a \in 1 .. n - 1
            BY <1>1, <1>5
        <3>3. score[list[a]] = score[list[k]] /\ score[list[k]] = score[x]
            <4>1. score[list[a]] = score[x]
                BY <2>5, <3>1
            <4>2. score[list[k]] >= score[x] /\ score[list[k]] \in Nat /\ score[x] \in Nat
                BY <1>2, <1>3, <1>4, <1>11, <3>2
            <4>3. score[list[a]] >= score[list[k]]
                <5>1. a = k \/ a < k
                    BY <1>1
                <5>2. score[list[k]] >= score[list[k]]
                    BY <4>2
                <5> QED
                    BY <1>12, <3>2, <5>1, <5>2
            <4> QED
                BY <4>1, <4>2, <4>3
        <3>4. Known(list[k]) /\ Known(x) /\ Known(list[a])
            <4>1. \E m \in 1 .. n : list[k] = suspects[m]
                BY <1>1, <3>2 DEF Drawn
            <4> QED
                BY <1>15, <2>1, <2>2, <2>5, <3>1, <3>3, <4>1
        <3>5. depths[list[k]] >= depths[x]
            BY <3>2, <3>3, <3>4, NotBelow
        <3>6. a = k \/ depths[list[a]] >= depths[list[k]]
            <4>1. a = k \/ a < k
                BY <1>1
            <4> QED
                BY <1>2, <3>1, <3>2, <3>3, <4>1 DEF Drawn, Leveled
        <3>7. depths[list[k]] \in Nat /\ depths[x] \in Nat /\ depths[list[a]] \in Nat
            BY <3>4, DepthTyped
        <3>8. depths[list[a]] >= depths[x]
            BY <3>5, <3>6, <3>7
        <3> QED
            BY <2>5, <3>1, <3>8
    <2> QED
        BY <1>10, <2>3, <2>4, <2>5
<1>17. Drawn(r, n)
    BY <1>6, <1>8, <1>9, <1>14, <1>16 DEF Drawn
<1> QED
    BY <1>17 DEF r, x

(* The sort, one suspect after the other.                                  *)
Turn(f, k) == IF k = 0 THEN <<>> ELSE Placed(f[k - 1], suspects[k])

Solves(f, n) == f = [k \in 0 .. n |-> Turn(f, k)]

(* Its recursion has a solution for every length: the least length without *)
(* one would be one more than a length that has one.                       *)
LEMMA TurnsExist == \A n \in Nat : \E f : Solves(f, n)
<1> DEFINE Bad == {n \in Nat : \A f : ~Solves(f, n)}
<1> SUFFICES ASSUME Bad # {} PROVE FALSE
    OBVIOUS
<1>1. PICK n \in Bad : \A m \in Bad : n <= m
    <2>1. Bad \subseteq Nat
        OBVIOUS
    <2> HIDE DEF Bad
    <2> QED
        BY <2>1, LeastOf
<1>2. n \in Nat /\ \A f : ~Solves(f, n)
    OBVIOUS
<1>3. CASE n = 0
    <2> DEFINE f == [k \in 0 .. 0 |-> <<>>]
    <2>1. f = [k \in 0 .. 0 |-> Turn(f, k)]
        BY DEF Turn
    <2> HIDE DEF f
    <2> QED
        BY <1>2, <1>3, <2>1 DEF Solves
<1>4. CASE n # 0
    <2>1. n - 1 \in Nat /\ ~(n <= n - 1)
        BY <1>2, <1>4
    <2>2. n - 1 \notin Bad
        BY <1>1, <2>1
    <2>3. PICK f : Solves(f, n - 1)
        BY <2>1, <2>2
    <2> DEFINE g == [k \in 0 .. n |-> Turn(f, k)]
    <2>4. \A k \in 0 .. n - 1 : g[k] = f[k]
        <3>1. \A k \in 0 .. n - 1 : k \in 0 .. n
            BY <1>2
        <3>2. \A k \in 0 .. n - 1 : f[k] = Turn(f, k)
            BY <2>3 DEF Solves
        <3> QED
            BY <3>1, <3>2
    <2>5. \A k \in 0 .. n : Turn(g, k) = Turn(f, k)
        <3> SUFFICES ASSUME NEW k \in 0 .. n PROVE Turn(g, k) = Turn(f, k)
            OBVIOUS
        <3>1. CASE k = 0
            BY <3>1 DEF Turn
        <3>2. CASE k # 0
            <4>1. k - 1 \in 0 .. n - 1
                BY <1>2, <3>2
            <4>2. g[k - 1] = f[k - 1]
                BY <2>4, <4>1
            <4> HIDE DEF g
            <4> QED
                BY <3>2, <4>2 DEF Turn
        <3> QED
            BY <3>1, <3>2
    <2>6. g = [k \in 0 .. n |-> Turn(g, k)]
        <3>1. g = [k \in 0 .. n |-> Turn(f, k)]
            OBVIOUS
        <3> HIDE DEF g
        <3> QED
            BY <2>5, <3>1
    <2> HIDE DEF g
    <2> QED
        BY <1>2, <2>6 DEF Solves
<1> QED
    BY <1>3, <1>4

(* What the sort returns: the suspects, scores in order, ties leveled.     *)
LEMMA SortDraws ==
    ASSUME StateInv, Ordered(suspects)
    PROVE  Drawn(Sorted[Len(suspects)], Len(suspects))
<1> DEFINE N == Len(suspects)
<1>1. N \in Nat
    BY ListTyped DEF StateInv
<1>2. Sorted = CHOOSE f : Solves(f, N)
    BY DEF Sorted, Solves, Turn
<1> HIDE DEF N
<1>3. Solves(Sorted, N)
    BY <1>1, <1>2, TurnsExist
<1>4. \A k \in 0 .. N : Sorted[k] = Turn(Sorted, k)
    BY <1>3 DEF Solves
<1> DEFINE Bad == {k \in 0 .. N : ~Drawn(Sorted[k], k)}
<1>5. SUFFICES ASSUME Bad # {} PROVE FALSE
    <2>1. N \in 0 .. N
        BY <1>1
    <2> QED
        BY <1>5, <2>1 DEF N
<1>6. PICK n \in Bad : \A m \in Bad : n <= m
    <2>1. Bad \subseteq Nat
        BY <1>1
    <2> HIDE DEF Bad
    <2> QED
        BY <1>5, <2>1, LeastOf
<1>7. n \in 0 .. N /\ ~Drawn(Sorted[n], n)
    OBVIOUS
<1>8. CASE n = 0
    <2>1. Sorted[n] = <<>>
        BY <1>4, <1>7, <1>8 DEF Turn
    <2>2. <<>> \in Seq(Subjects) /\ Len(<<>>) = 0 /\ 1 .. 0 = {}
        OBVIOUS
    <2>3. Drawn(<<>>, 0)
        BY <2>2 DEF Drawn, Ordered, Leveled
    <2> QED
        BY <1>7, <1>8, <2>1, <2>3
<1>9. CASE n # 0
    <2>1. n \in 1 .. N /\ n - 1 \in 0 .. N /\ ~(n <= n - 1)
        BY <1>1, <1>7, <1>9
    <2>2. Drawn(Sorted[n - 1], n - 1)
        BY <1>6, <2>1
    <2>3. Sorted[n] = Placed(Sorted[n - 1], suspects[n])
        BY <1>4, <1>7, <1>9 DEF Turn
    <2>4. Drawn(Placed(Sorted[n - 1], suspects[n]), n)
        BY <2>1, <2>2, PlaceStep DEF N
    <2> QED
        BY <1>7, <2>3, <2>4
<1> QED
    BY <1>8, <1>9

(* A list of all the suspects has those suspects.                          *)
LEMMA SameOnes ==
    ASSUME StateInv, NEW list, Drawn(list, Len(suspects))
    PROVE  ToSet(list) = ToSet(suspects)
<1>1. DOMAIN list = 1 .. Len(suspects) /\ DOMAIN suspects = 1 .. Len(suspects)
    BY ListTyped DEF Drawn, StateInv
<1>2. ASSUME NEW y \in ToSet(list) PROVE y \in ToSet(suspects)
    <2>1. PICK i \in 1 .. Len(suspects) : y = list[i]
        BY <1>1 DEF ToSet
    <2>2. PICK m \in 1 .. Len(suspects) : list[i] = suspects[m]
        BY DEF Drawn
    <2> QED
        BY <1>1, <2>1, <2>2 DEF ToSet
<1>3. ASSUME NEW y \in ToSet(suspects) PROVE y \in ToSet(list)
    <2>1. PICK m \in 1 .. Len(suspects) : y = suspects[m]
        BY <1>1 DEF ToSet
    <2>2. PICK i \in 1 .. Len(suspects) : list[i] = suspects[m]
        BY DEF Drawn
    <2> QED
        BY <1>1, <2>1, <2>2 DEF ToSet
<1> QED
    BY <1>2, <1>3

-----------------------------------------------------------------------------
(* The steps.                                                              *)

(* Nothing was visited before the first finding.                           *)
LEMMA NothingYet ==
    ASSUME NEW x, NEW c
    PROVE  Total(Worth, About(x, c, 0)) = 0
<1>1. About(x, c, 0) = {}
    BY DEF About
<1> QED
    BY <1>1, TotalZero

(* A diagnosis begins with nothing found.                                  *)
LEMMA RankingStarts == Init => IInv
<1> SUFFICES ASSUME Init PROVE IInv
    OBVIOUS
<1>1. <<>> \in Seq(Facts) /\ <<>> \in Seq(Subjects) /\ Len(<<>>) = 0
    OBVIOUS
<1>2. StateInv
    BY <1>1 DEF Init, StateInv, Nothing
<1>3. SumInv
    <2>1. \A x \in Subjects, c \in Classes : byClass[x][c] = 0 /\ owner[x] = 0 /\ at = 0
        BY DEF Init, Nothing
    <2>2. ~Scored
        BY DEF Init, Scored
    <2>3. \A x \in Subjects : owner[x] = 0
        BY DEF Init
    <2>4. at = 0
        BY DEF Init
    <2> QED
        BY <2>1, <2>2, <2>3, <2>4, NothingYet DEF SumInv
<1>4. RankInv
    BY DEF Init, RankInv, Scored
<1> QED
    BY <1>2, <1>3, <1>4 DEF IInv

(* Findings are appended while none was visited.                           *)
LEMMA FindStep ==
    ASSUME IInv, NEW s \in Services, Observe(s) \/ Corroborate(s)
    PROVE  IInv'
<1>1. /\ at = 0 /\ at' = 0 /\ UNCHANGED <<request, ranked>>
      /\ pc \in {"observe", "corroborate"} /\ pc' \in {"observe", "corroborate", "rank"}
      /\ next' \in SUBSET Services
    BY DEF Observe, Corroborate, IInv, StateInv, ranked
<1>2. findings' \in Seq(Facts)
    <2>1. CASE Observe(s)
        <3>1. PICK found \in Symptoms :
                  findings' = findings \o SetToSeq({Finding(s, s, r, found[r]) : r \in DOMAIN found})
            BY <2>1 DEF Observe
        <3>2. SetToSeq({Finding(s, s, r, found[r]) : r \in DOMAIN found}) \in Seq(Facts)
            BY FoundTyped
        <3>3. findings \in Seq(Facts)
            BY DEF IInv, StateInv
        <3> QED
            BY <3>1, <3>2, <3>3, ConcatProperties
    <2>2. CASE Corroborate(s)
        <3>1. findings \in Seq(Facts)
            BY DEF IInv, StateInv
        <3>2. CASE UNCHANGED findings
            BY <3>1, <3>2
        <3>3. CASE \E near \in Nearby : findings' = findings \o ProximityOf(s, near)
            <4>1. PICK near \in Nearby : findings' = findings \o ProximityOf(s, near)
                BY <3>3
            <4>2. ProximityOf(s, near) \in Seq(Facts)
                BY NearTyped
            <4> QED
                BY <3>1, <4>1, <4>2, ConcatProperties
        <3> QED
            BY <2>2, <3>2, <3>3 DEF Corroborate
    <2> QED
        BY <2>1, <2>2
<1>3. StateInv'
    <2>1. Len(findings') \in Nat
        BY <1>2, ListTyped
    <2>2. at' \in 0 .. Len(findings')
        BY <1>1, <2>1
    <2> QED
        BY <1>1, <1>2, <2>2 DEF IInv, StateInv, request, ranked
<1>4. SumInv'
    <2>1. /\ \A x \in Subjects, c \in Classes : byClass[x][c] = 0
          /\ \A x \in Subjects : owner[x] = 0
        <3>1. \A x \in Subjects, c \in Classes : byClass[x][c] = Total(Worth, About(x, c, 0))
            BY <1>1 DEF IInv, SumInv
        <3>2. \A x \in Subjects : owner[x] # 0 => \E i \in 1 .. 0 : findings[i].subject = x
            BY <1>1 DEF IInv, SumInv
        <3> QED
            BY <3>1, <3>2, NothingYet
    <2>2. /\ \A x \in Subjects, c \in Classes : byClass'[x][c] = 0
          /\ \A x \in Subjects : owner'[x] = 0
        BY <1>1, <2>1 DEF ranked
    <2>3. \A x, c : Total(Worth, About(x, c, 0))' = 0
        <3> SUFFICES ASSUME NEW x, NEW c PROVE Total(Worth, About(x, c, 0))' = 0
            OBVIOUS
        <3>1. About(x, c, 0)' = {}
            BY DEF About
        <3> QED
            BY <3>1, TotalZero
    <2>4. ~Scored'
        BY <1>1 DEF Scored
    <2> QED
        BY <1>1, <2>2, <2>3, <2>4 DEF SumInv
<1>5. RankInv'
    BY <1>1 DEF RankInv, Scored
<1> QED
    BY <1>3, <1>4, <1>5 DEF IInv

(* A score is a function of the accumulators.                              *)
LEMMA ScoreKept ==
    ASSUME UNCHANGED <<owner, byClass>>
    PROVE  \A x : Measured(x)' = Measured(x) /\ ScoreOf(x)' = ScoreOf(x)
<1>1. \A x, c : Capped(x, c)' = Capped(x, c)
    BY DEF Capped
<1>2. \A x : Measured(x)' = Measured(x)
    BY <1>1 DEF Measured
<1>3. \A x : LimitSupport(x)' = LimitSupport(x)
    BY <1>1, <1>2 DEF LimitSupport
<1> QED
    BY <1>2, <1>3 DEF ScoreOf

(* A configuration that asks for nobody is refused, and nothing is ranked. *)
LEMMA RejectStep ==
    ASSUME IInv, Reject \/ UNCHANGED vars
    PROVE  IInv'
<1>1. CASE Reject
    <2>1. /\ UNCHANGED <<topN, depths, next, findings, at, owner, byClass, score, suspects>>
          /\ pc = "rank" /\ pc' = "failed"
        BY <1>1 DEF Reject, request, ranked
    <2>2. StateInv'
        BY <2>1 DEF IInv, StateInv
    <2>3. SumInv'
        BY <2>1 DEF IInv, SumInv, Scored, Worth, About
    <2>4. RankInv'
        BY <2>1 DEF RankInv, Scored
    <2> QED
        BY <2>2, <2>3, <2>4 DEF IInv
<1>2. CASE UNCHANGED vars
    <2>1. UNCHANGED <<pc, topN, depths, next, findings, at, owner, byClass, score, suspects>>
        BY <1>2 DEF vars, request, ranked
    <2>2. StateInv'
        BY <2>1 DEF IInv, StateInv
    <2>3. SumInv'
        <3>1. [x \in Subjects |-> ScoreOf(x)]' = [x \in Subjects |-> ScoreOf(x)]
            BY <2>1, ScoreKept
        <3> QED
            BY <2>1, <3>1 DEF IInv, SumInv, Scored, Worth, About
    <2>4. RankInv'
        BY <2>1 DEF IInv, RankInv, Scored, Ordered, Leveled, TieIsComparable, Known
    <2> QED
        BY <2>2, <2>3, <2>4 DEF IInv
<1> QED
    BY <1>1, <1>2

(* One finding more: the class of its subject gains what it is worth.      *)
LEMMA AccumulateStep ==
    ASSUME IInv, Accumulate
    PROVE  IInv'
<1> DEFINE z == at + 1
           f == findings[z]
           class == ClassOf[f.rule]
<1>1. /\ UNCHANGED <<pc, topN, depths, next, findings, score, suspects>>
      /\ pc = "rank" /\ at < Len(findings) /\ at' = z
    BY DEF Accumulate, request
<1>2. /\ at \in Nat /\ z \in 1 .. Len(findings) /\ z \in Nat /\ z \notin 1 .. at
      /\ \A i : i \in 1 .. z <=> i \in 1 .. at \/ i = z
      /\ \A i \in 1 .. at : i \in 1 .. Len(findings)
      /\ DOMAIN findings = 1 .. Len(findings) /\ z \in 0 .. Len(findings)
    <2>1. Len(findings) \in Nat /\ DOMAIN findings = 1 .. Len(findings) /\ at \in 0 .. Len(findings)
        BY ListTyped DEF IInv, StateInv
    <2> QED
        BY <1>1, <2>1
<1>3. \A i \in 1 .. Len(findings) : findings[i] \in Facts
    BY ListTyped DEF IInv, StateInv
<1>4. /\ f.subject \in Subjects /\ f.service \in Services /\ class \in Classes
      /\ f.score \in Nat /\ Weight[class] \in Nat
    <2>1. f \in Facts
        BY <1>2, <1>3
    <2>2. f.rule \in DOMAIN ClassOf /\ f.subject \in Subjects /\ f.service \in Services
          /\ f.score \in 0 .. Unit
        BY <2>1 DEF Facts
    <2> QED
        BY <2>2, RankingAssumption
<1>5. \A i \in 1 .. Len(findings) : Worth[i] \in Nat
    <2> SUFFICES ASSUME NEW i \in 1 .. Len(findings) PROVE Worth[i] \in Nat
        OBVIOUS
    <2>1. findings[i].rule \in DOMAIN ClassOf /\ findings[i].score \in 0 .. Unit
        BY <1>3 DEF Facts
    <2>2. Weight[ClassOf[findings[i].rule]] \in Nat /\ findings[i].score \in Nat
        BY <2>1, RankingAssumption
    <2>3. Worth[i] = findings[i].score * Weight[ClassOf[findings[i].rule]]
        BY <1>2 DEF Worth, Value
    <2> QED
        BY <2>2, <2>3
<1>6. Worth[z] = f.score * Weight[class]
    BY <1>2 DEF Worth, Value
<1>7. Accumulate <=>
        /\ pc = "rank" /\ topN > 0 /\ at < Len(findings) /\ at' = at + 1
        /\ IF Weight[class] = 0 THEN UNCHANGED <<owner, byClass>>
           ELSE /\ owner' = [owner EXCEPT ![f.subject] = IF @ = 0 THEN f.service ELSE @]
                /\ byClass' = [byClass EXCEPT ![f.subject][class] =
                                 @ + f.score * Weight[class]]
        /\ UNCHANGED <<pc, request, next, findings, score, suspects>>
    BY DEF Accumulate
<1>8. /\ f.subject = findings[z].subject /\ f.service = findings[z].service
      /\ class = ClassOf[findings[z].rule]
    OBVIOUS
<1> HIDE DEF z, f, class
<1>9. /\ owner \in [Subjects -> Services \cup {0}]
      /\ byClass \in [Subjects -> [Classes -> Nat]]
    BY DEF IInv, StateInv
<1>10. Worth[z] \in Nat
    BY <1>2, <1>5
<1>11. /\ byClass' \in [Subjects -> [Classes -> Nat]]
       /\ \A x \in Subjects, c \in Classes :
            byClass'[x][c] = IF x = f.subject /\ c = class THEN byClass[x][c] + Worth[z]
                             ELSE byClass[x][c]
    <2>1. CASE Weight[class] = 0
        <3>1. byClass' = byClass
            BY <1>7, <2>1
        <3>2. f.score * 0 = 0
            BY <1>4
        <3>3. Worth[z] = 0
            BY <1>6, <2>1, <3>2
        <3>4. \A x \in Subjects, c \in Classes : byClass[x][c] \in Nat
            BY <1>9
        <3> QED
            BY <1>9, <3>1, <3>3, <3>4
    <2>2. CASE Weight[class] # 0
        <3>1. byClass' = [byClass EXCEPT ![f.subject][class] = @ + Worth[z]]
            BY <1>6, <1>7, <2>2
        <3> QED
            BY <1>4, <1>9, <1>10, <3>1
    <2> QED
        BY <2>1, <2>2
<1>12. /\ owner' \in [Subjects -> Services \cup {0}]
       /\ \A x \in Subjects : owner'[x] = owner[x] \/ (x = f.subject /\ owner'[x] = f.service)
    BY <1>4, <1>7, <1>9
<1>13. StateInv'
    BY <1>1, <1>2, <1>11, <1>12 DEF IInv, StateInv
<1>14. Worth' = Worth /\ \A x, c, n : About(x, c, n)' = About(x, c, n)
    BY <1>1 DEF Worth, Value, About
<1>15. SumInv'
    <2>1. ASSUME NEW x \in Subjects, NEW c \in Classes
          PROVE  byClass'[x][c] = Total(Worth, About(x, c, z))
        <3>1. byClass[x][c] = Total(Worth, About(x, c, at))
            BY DEF IInv, SumInv
        <3>2. CASE x = f.subject /\ c = class
            <4>1. About(x, c, z) = About(x, c, at) \cup {z}
                BY <1>2, <1>8, <3>2 DEF About
            <4>2. /\ About(x, c, at) \subseteq 1 .. at /\ z \notin About(x, c, at)
                BY <1>2 DEF About
            <4>3. IsFiniteSet(About(x, c, at))
                <5>1. IsFiniteSet(1 .. at)
                    BY <1>2, FS_Interval
                <5> HIDE DEF z
                <5> QED
                    BY <4>2, <5>1, FS_Subset
            <4>4. \A i \in About(x, c, at) : Worth[i] \in Nat
                BY <1>2, <1>5, <4>2
            <4>5. Total(Worth, About(x, c, at) \cup {z}) = Total(Worth, About(x, c, at)) + Worth[z]
                BY <1>10, <4>2, <4>3, <4>4, TotalAdds
            <4> QED
                BY <1>11, <3>1, <3>2, <4>1, <4>5
        <3>3. CASE ~(x = f.subject /\ c = class)
            <4>1. About(x, c, z) = About(x, c, at)
                BY <1>2, <1>8, <3>3 DEF About
            <4> QED
                BY <1>11, <3>1, <3>3, <4>1
        <3> QED
            BY <3>2, <3>3
    <2>2. ASSUME NEW x \in Subjects, owner'[x] # 0
          PROVE  \E i \in 1 .. z : findings[i].subject = x /\ findings[i].service = owner'[x]
        <3>1. CASE owner'[x] = owner[x]
            <4>1. PICK i \in 1 .. at : findings[i].subject = x /\ findings[i].service = owner[x]
                BY <2>2, <3>1 DEF IInv, SumInv
            <4> QED
                BY <1>2, <3>1, <4>1
        <3>2. CASE x = f.subject /\ owner'[x] = f.service
            <4>1. z \in 1 .. z
                BY <1>2
            <4> QED
                BY <1>8, <3>2, <4>1
        <3> QED
            BY <1>12, <3>1, <3>2
    <2>3. ~Scored'
        BY <1>1 DEF Scored
    <2>4. \A x \in Subjects, c \in Classes : byClass'[x][c] = Total(Worth, About(x, c, at))'
        <3>1. \A x, c : Total(Worth, About(x, c, at))' = Total(Worth, About(x, c, z))
            BY <1>1 DEF Total, Units, Worth, Value, About
        <3> QED
            BY <2>1, <3>1
    <2>5. \A x \in Subjects : owner'[x] # 0 =>
            \E i \in 1 .. at' : findings'[i].subject = x /\ findings'[i].service = owner'[x]
        BY <1>1, <2>2
    <2> QED
        BY <2>3, <2>4, <2>5 DEF SumInv
<1>16. RankInv'
    BY <1>1 DEF RankInv, Scored
<1> QED
    BY <1>13, <1>15, <1>16 DEF IInv

(* The accused are scored, sorted and cut.                                 *)
LEMMA ScoreStep ==
    ASSUME IInv, Score
    PROVE  IInv'
<1> DEFINE accused == {x \in Subjects : score'[x] > 0}
           Ahead(x, y) == \/ score'[x] > score'[y]
                          \/ score'[x] = score'[y] /\ x < y
           Sorts(list) == /\ ToSet(list) = accused
                          /\ \A i, j \in DOMAIN list : i < j => Ahead(list[i], list[j])
           N == Cardinality(accused)
<1>1. /\ UNCHANGED <<topN, depths, next, findings, at, owner, byClass>>
      /\ pc = "rank" /\ pc' = "tie" /\ topN > 0 /\ at = Len(findings)
      /\ score' = [x \in Subjects |-> ScoreOf(x)]
    BY DEF Score, request
<1>2. PICK sorted \in [1 .. N -> accused] :
          Sorts(sorted) /\ suspects' = SubSeq(sorted, 1, Least(topN, Len(sorted)))
    BY DEF Score
<1>3. \A x \in Subjects : ScoreOf(x) \in Nat
    BY ScoreBound DEF IInv
<1>4. score' \in [Subjects -> Nat]
    BY <1>1, <1>3
<1>5. Subjects \subseteq Nat /\ accused \subseteq Subjects /\ IsFiniteSet(Subjects)
    <2>1. Subjects \subseteq Nat /\ accused \subseteq Subjects
        BY RankingAssumption DEF Subjects
    <2>2. IsFiniteSet(Subjects)
        BY RankingAssumption, FS_Union DEF Subjects
    <2> QED
        BY <2>1, <2>2
<1>6. \A x \in accused : score'[x] \in Nat /\ score'[x] > 0
    BY <1>4
<1>7. \A y \in Subjects : score'[y] \in Nat /\ (score'[y] > 0 => y \in accused)
    BY <1>4
<1>8. \A x, y : Ahead(x, y) <=> \/ score'[x] > score'[y]
                                \/ score'[x] = score'[y] /\ x < y
    OBVIOUS
<1>9. /\ ToSet(sorted) = accused
      /\ \A i, j \in DOMAIN sorted : i < j => Ahead(sorted[i], sorted[j])
    BY <1>2
<1> HIDE DEF accused, Sorts, Ahead
<1>10. N \in Nat /\ sorted \in Seq(accused) /\ Len(sorted) = N /\ DOMAIN sorted = 1 .. N
    <2>1. IsFiniteSet(accused)
        BY <1>5, FS_Subset
    <2>2. N \in Nat
        BY <2>1, FS_CardinalityType
    <2> HIDE DEF N
    <2> QED
        BY <1>2, <2>2
<1> HIDE DEF N
<1>11. topN \in Int
    BY RankingAssumption DEF IInv, StateInv
<1> DEFINE m == Least(topN, Len(sorted))
<1>12. m \in 0 .. N /\ m <= topN /\ (m < N => m = topN)
    BY <1>1, <1>10, <1>11 DEF Least
<1>13. suspects' = SubSeq(sorted, 1, m)
    BY <1>2
<1> HIDE DEF m
<1>14. \A i \in 1 .. N : sorted[i] \in accused
    BY <1>2
<1>15. /\ suspects' \in Seq(Subjects) /\ Len(suspects') = m
       /\ \A i \in 1 .. m : suspects'[i] = sorted[i]
    <2>1. \A i \in 1 .. m : sorted[i] \in accused /\ i \in DOMAIN sorted
        BY <1>10, <1>12, <1>14
    <2>2. /\ suspects' \in Seq(accused)
          /\ Len(suspects') = IF 1 <= m THEN m - 1 + 1 ELSE 0
          /\ \A i \in 1 .. m - 1 + 1 : suspects'[i] = sorted[1 + i - 1]
        BY <1>10, <1>12, <1>13, <2>1, SubSeqProperties
    <2>3. m - 1 + 1 = m /\ (~(1 <= m) => m = 0) /\ \A i \in 1 .. m : 1 + i - 1 = i
        BY <1>12
    <2> QED
        BY <1>5, <2>2, <2>3, SeqMonotonic
<1>16. StateInv'
    BY <1>1, <1>4, <1>15 DEF IInv, StateInv
<1>17. SumInv'
    <2>1. Worth' = Worth /\ \A x, c : Total(Worth, About(x, c, at))' = Total(Worth, About(x, c, at))
        BY <1>1 DEF Worth, Value, About, Total, Units
    <2>2. [x \in Subjects |-> ScoreOf(x)]' = [x \in Subjects |-> ScoreOf(x)]
        BY <1>1, ScoreKept
    <2>3. \A x \in Subjects, c \in Classes : byClass'[x][c] = Total(Worth, About(x, c, at))'
        BY <1>1, <2>1 DEF IInv, SumInv
    <2>4. \A x \in Subjects : owner'[x] # 0 =>
            \E i \in 1 .. at' : findings'[i].subject = x /\ findings'[i].service = owner'[x]
        BY <1>1 DEF IInv, SumInv
    <2>5. score' = [x \in Subjects |-> ScoreOf(x)]'
        BY <1>1, <2>2
    <2>6. at' = Len(findings') /\ topN' > 0
        BY <1>1
    <2> QED
        BY <2>3, <2>4, <2>5, <2>6 DEF SumInv
<1>18. RankInv'
    <2>1. Len(suspects') <= topN'
        BY <1>1, <1>12, <1>15
    <2>2. ASSUME NEW i \in 1 .. N, NEW j \in 1 .. N, i < j
          PROVE  sorted[i] # sorted[j] /\ score'[sorted[i]] >= score'[sorted[j]]
        <3>1. Ahead(sorted[i], sorted[j])
            BY <1>9, <1>10, <2>2
        <3>2. /\ score'[sorted[i]] \in Nat /\ score'[sorted[j]] \in Nat
              /\ sorted[i] \in Nat /\ sorted[j] \in Nat
            BY <1>5, <1>6, <1>14
        <3> QED
            BY <1>8, <3>1, <3>2
    <2>3. \A i \in 1 .. m : i \in 1 .. N
        BY <1>10, <1>12
    <2>4. Ordered(suspects)'
        <3>1. \A i, j \in 1 .. m : i < j =>
                suspects'[i] # suspects'[j] /\ score'[suspects'[i]] >= score'[suspects'[j]]
            BY <1>15, <2>2, <2>3
        <3> QED
            BY <1>15, <3>1 DEF Ordered
    <2>5. \A i \in 1 .. m : score'[suspects'[i]] > 0
        BY <1>6, <1>14, <1>15, <2>3
    <2>6. ASSUME NEW y \in Subjects, NEW i \in 1 .. m, score'[y] > score'[suspects'[i]]
          PROVE  \E j \in 1 .. m : suspects'[j] = y
        <3>1. y \in accused
            <4>1. score'[suspects'[i]] \in Nat
                BY <1>6, <1>14, <1>15, <2>3
            <4> QED
                BY <1>7, <2>6, <4>1
        <3>2. PICK j \in 1 .. N : sorted[j] = y
            BY <1>9, <1>10, <3>1 DEF ToSet
        <3>3. j <= i
            <4> SUFFICES ASSUME i < j PROVE FALSE
                BY <1>10, <1>12
            <4>1. score'[sorted[i]] >= score'[y]
                BY <2>2, <2>3, <3>2
            <4>2. sorted[i] = suspects'[i] /\ score'[sorted[i]] \in Nat /\ score'[y] \in Nat
                BY <1>6, <1>7, <1>14, <1>15, <2>3
            <4> QED
                BY <2>6, <4>1, <4>2
        <3>4. j \in 1 .. m
            BY <1>10, <1>12, <3>3
        <3> QED
            BY <1>15, <3>2, <3>4
    <2>7. pc' # "done"
        BY <1>1
    <2> QED
        BY <1>15, <2>1, <2>4, <2>5, <2>6, <2>7 DEF RankInv
<1> QED
    BY <1>16, <1>17, <1>18 DEF IInv

(* The tie-break moves suspects within their score.                        *)
LEMMA TieBreakStep ==
    ASSUME IInv, TieBreak
    PROVE  IInv'
<1>1. /\ UNCHANGED <<topN, depths, next, findings, at, owner, byClass, score>>
      /\ pc = "tie" /\ pc' = "done"
    BY DEF TieBreak, request
<1>2. /\ Scored /\ Len(suspects) <= topN /\ Ordered(suspects)
      /\ \A i \in 1 .. Len(suspects) : score[suspects[i]] > 0
      /\ \A y \in Subjects : \A i \in 1 .. Len(suspects) : score[y] > score[suspects[i]] =>
            \E j \in 1 .. Len(suspects) : suspects[j] = y
    BY <1>1 DEF IInv, RankInv, Scored
<1>3. /\ suspects \in Seq(Subjects) /\ Len(suspects) \in Nat
      /\ DOMAIN suspects = 1 .. Len(suspects)
    BY ListTyped DEF IInv, StateInv
<1>4. /\ suspects' \in Seq(Subjects) /\ Len(suspects') = Len(suspects)
      /\ Ordered(suspects') /\ Leveled(suspects') /\ ToSet(suspects') = ToSet(suspects)
    <2>1. CASE Len(suspects) < 2 \/ DOMAIN depths = {}
        <3>1. suspects' = suspects
            BY <2>1 DEF TieBreak
        <3>2. Leveled(suspects)
            <4> SUFFICES ASSUME NEW i \in 1 .. Len(suspects), NEW j \in 1 .. Len(suspects),
                                i < j, TieIsComparable(suspects[i])
                         PROVE  FALSE
                BY DEF Leveled
            <4>1. DOMAIN depths = {}
                BY <1>3, <2>1
            <4>2. suspects[i] \in ToSet(suspects)
                BY <1>3 DEF ToSet
            <4> QED
                BY <4>1, <4>2 DEF TieIsComparable, Known
        <3> QED
            BY <1>2, <1>3, <3>1, <3>2
    <2>2. CASE ~(Len(suspects) < 2 \/ DOMAIN depths = {})
        <3>1. suspects' = Sorted[Len(suspects)]
            BY <2>2 DEF TieBreak
        <3>2. Drawn(suspects', Len(suspects))
            BY <1>2, <3>1, SortDraws DEF IInv
        <3>3. ToSet(suspects') = ToSet(suspects)
            BY <3>2, SameOnes DEF IInv
        <3> QED
            BY <3>2, <3>3 DEF Drawn
    <2> QED
        BY <2>1, <2>2
<1>5. DOMAIN suspects' = 1 .. Len(suspects)
    BY <1>4, ListTyped
<1>6. StateInv'
    BY <1>1, <1>4 DEF IInv, StateInv
<1>7. SumInv'
    <2>1. [x \in Subjects |-> ScoreOf(x)]' = [x \in Subjects |-> ScoreOf(x)]
        BY <1>1, ScoreKept
    <2> QED
        BY <1>1, <1>2, <2>1 DEF IInv, SumInv, Scored, Worth, Value, About, Total, Units
<1>8. RankInv'
    <2>1. Ordered(suspects)'
        BY <1>1, <1>4 DEF Ordered
    <2>2. Leveled(suspects)'
        BY <1>1, <1>4 DEF Leveled, TieIsComparable, Known
    <2>3. \A i \in 1 .. Len(suspects) : \E k \in 1 .. Len(suspects) : suspects'[i] = suspects[k]
        BY <1>3, <1>4, <1>5 DEF ToSet
    <2>4. \A k \in 1 .. Len(suspects) : \E i \in 1 .. Len(suspects) : suspects'[i] = suspects[k]
        BY <1>3, <1>4, <1>5 DEF ToSet
    <2>5. \A i \in 1 .. Len(suspects) : score[suspects'[i]] > 0
        BY <1>2, <2>3
    <2>6. \A y \in Subjects : \A i \in 1 .. Len(suspects) : score[y] > score[suspects'[i]] =>
            \E j \in 1 .. Len(suspects) : suspects'[j] = y
        BY <1>2, <2>3, <2>4
    <2> QED
        BY <1>1, <1>2, <1>4, <2>1, <2>2, <2>5, <2>6 DEF RankInv
<1> QED
    BY <1>6, <1>7, <1>8 DEF IInv

(* Every step of a diagnosis keeps the invariant.                          *)
LEMMA RankingSteps == IInv /\ [Next]_vars => IInv'
<1> SUFFICES ASSUME IInv, [Next]_vars PROVE IInv'
    OBVIOUS
<1>1. ASSUME NEW s \in Services, Observe(s) \/ Corroborate(s) PROVE IInv'
    BY <1>1, FindStep
<1>2. CASE Reject \/ UNCHANGED vars
    BY <1>2, RejectStep
<1>3. CASE Accumulate
    BY <1>3, AccumulateStep
<1>4. CASE Score
    BY <1>4, ScoreStep
<1>5. CASE TieBreak
    BY <1>5, TieBreakStep
<1> QED
    BY <1>1, <1>2, <1>3, <1>4, <1>5 DEF Next

(***************************************************************************)
(* The accumulators of Rank always hold what the findings visited are      *)
(* worth, and what it has answered is the best of them, in order.          *)
(***************************************************************************)
THEOREM RankingInvariance == Spec => []IInv
BY RankingStarts, RankingSteps, PTL DEF Spec

(* The invariant covers the types of the model.                            *)
LEMMA RankingTyped == IInv => TypeOK
<1> SUFFICES ASSUME IInv PROVE TypeOK
    OBVIOUS
<1>1. \A f \in ToSet(findings) :
         f \in [subject : Subjects, service : Services, rule : DOMAIN ClassOf, score : 0 .. Unit]
    <2> SUFFICES ASSUME NEW i \in DOMAIN findings
                 PROVE  findings[i] \in [subject : Subjects, service : Services,
                                         rule : DOMAIN ClassOf, score : 0 .. Unit]
        BY DEF ToSet
    <2>1. findings[i] \in Facts
        BY ListTyped DEF IInv, StateInv
    <2> QED
        BY <2>1 DEF Facts
<1>2. ToSet(suspects) \subseteq Subjects
    BY ListTyped DEF IInv, StateInv, ToSet
<1> QED
    BY <1>1, <1>2 DEF IInv, StateInv, TypeOK

(***************************************************************************)
(* Findings, accumulators and suspects keep their types, however many      *)
(* services, commits and rules a diagnosis has.                            *)
(***************************************************************************)
THEOREM RankingTypeCorrect == Spec => []TypeOK
BY RankingInvariance, RankingTyped, PTL

-----------------------------------------------------------------------------
(* What the answer says.                                                   *)

(* At the end the accumulators say what the findings do.                   *)
LEMMA SymptomMeasured ==
    ASSUME IInv, Scored, NEW s \in Subjects
    PROVE  SymptomOf(s) = Measured(s)
<1>1. at = Len(findings) /\ DOMAIN findings = 1 .. Len(findings)
    BY ListTyped DEF IInv, StateInv, SumInv
<1>2. ASSUME NEW c \in Classes PROVE SymptomIn(s, c) = Capped(s, c)
    <2>1. byClass[s][c] = Total(Worth, About(s, c, at))
        BY DEF IInv, SumInv
    <2>2. About(s, c, at) = {i \in DOMAIN findings :
              findings[i].subject = s /\ ClassOf[findings[i].rule] = c}
        BY <1>1 DEF About
    <2>3. SymptomIn(s, c) = Least(Total(Worth, About(s, c, at)), Unit * Weight[c])
        BY <2>2 DEF SymptomIn, Worth
    <2> QED
        BY <2>1, <2>3 DEF Least, Capped
<1> DEFINE found == [c \in Classes |-> SymptomIn(s, c)]
           held  == [c \in Classes |-> Capped(s, c)]
<1>3. found = held
    BY <1>2
<1>4. SymptomOf(s) = Total(found, Classes \ {Support})
    BY DEF SymptomOf
<1>5. Measured(s) = Total(held, Classes \ {Support})
    BY DEF Measured
<1> HIDE DEF found, held
<1> QED
    BY <1>3, <1>4, <1>5

(* Nothing is measured about a commit.                                     *)
LEMMA CommitUnmeasured ==
    ASSUME IInv, NEW x \in Commits
    PROVE  Measured(x) = 0
<1>1. x \in Subjects
    BY DEF Subjects
<1>2. ASSUME NEW c \in Classes \ {Support} PROVE Capped(x, c) = 0
    <2>1. About(x, c, at) = {}
        <3> SUFFICES ASSUME NEW i \in 1 .. at,
                            findings[i].subject = x, ClassOf[findings[i].rule] = c
                     PROVE  FALSE
            BY DEF About
        <3>1. i \in 1 .. Len(findings)
            BY ListTyped DEF IInv, StateInv
        <3>2. findings[i] \in Facts
            BY <3>1, ListTyped DEF IInv, StateInv
        <3> QED
            BY <3>2 DEF Facts
    <2>2. byClass[x][c] = 0
        BY <1>1, <2>1, TotalZero DEF IInv, SumInv
    <2>3. Capped(x, c) \in Nat /\ Capped(x, c) <= byClass[x][c]
        BY <1>1, PartsTyped DEF IInv
    <2> QED
        BY <2>2, <2>3
<1> DEFINE part == [c \in Classes |-> Capped(x, c)]
<1>3. \A c \in Classes \ {Support} : part[c] = 0
    BY <1>2
<1>4. Measured(x) = Total(part, Classes \ {Support})
    BY DEF Measured
<1> HIDE DEF part
<1> QED
    BY <1>3, <1>4, TotalZero

(* A score is what was measured and the support of it.                     *)
LEMMA ScoreSays ==
    ASSUME IInv, Scored, NEW x \in Subjects
    PROVE  /\ score[x] = Measured(x) + LimitSupport(x)
           /\ score[x] \in Nat /\ Measured(x) \in Nat /\ LimitSupport(x) \in Nat
<1>1. score[x] = ScoreOf(x)
    BY DEF IInv, SumInv
<1> QED
    BY <1>1, ScoreBound, PartsTyped DEF IInv

(* Who is listed was scored, above zero.                                   *)
LEMMA SuspectScored ==
    ASSUME IInv, NEW x \in ToSet(suspects)
    PROVE  Scored /\ x \in Subjects /\ score[x] > 0
<1>1. /\ suspects \in Seq(Subjects) /\ Len(suspects) \in Nat
      /\ DOMAIN suspects = 1 .. Len(suspects)
    BY ListTyped DEF IInv, StateInv
<1>2. PICK i \in 1 .. Len(suspects) : x = suspects[i]
    BY <1>1 DEF ToSet
<1>3. suspects # <<>>
    <2>1. Len(<<>>) = 0
        OBVIOUS
    <2> QED
        BY <1>2, <2>1
<1>4. Scored
    BY <1>3 DEF IInv, StateInv, Scored
<1> QED
    BY <1>1, <1>2, <1>4, ListTyped DEF IInv, RankInv

(* A suspect stands at one place.                                          *)
LEMMA RankIs ==
    ASSUME IInv, Scored, NEW i \in 1 .. Len(suspects)
    PROVE  RankOf(suspects[i]) = i
<1>1. DOMAIN suspects = 1 .. Len(suspects) /\ Len(suspects) \in Nat
    BY ListTyped DEF IInv, StateInv
<1>2. Ordered(suspects)
    BY DEF IInv, RankInv
<1>3. \A j \in 1 .. Len(suspects) : suspects[j] = suspects[i] => j = i
    <2> SUFFICES ASSUME NEW j \in 1 .. Len(suspects), suspects[j] = suspects[i], j # i
                 PROVE  FALSE
        OBVIOUS
    <2>1. i < j \/ j < i
        BY <1>1
    <2> QED
        BY <1>2, <2>1 DEF Ordered
<1> QED
    BY <1>1, <1>3 DEF RankOf

(* Who scores more than a suspect is one, and stands before it.            *)
LEMMA HigherIsAhead ==
    ASSUME IInv, Scored, NEW x \in ToSet(suspects), NEW y \in Subjects,
           score[y] > score[x]
    PROVE  Listed(y) /\ RankOf(y) < RankOf(x)
<1>1. DOMAIN suspects = 1 .. Len(suspects) /\ Len(suspects) \in Nat
    BY ListTyped DEF IInv, StateInv
<1>2. PICK i \in 1 .. Len(suspects) : x = suspects[i]
    BY <1>1 DEF ToSet
<1>3. PICK j \in 1 .. Len(suspects) : suspects[j] = y
    BY <1>2 DEF IInv, RankInv
<1>4. Listed(y)
    BY <1>1, <1>3 DEF Listed, ToSet
<1>5. RankOf(x) = i /\ RankOf(y) = j
    BY <1>2, <1>3, RankIs
<1>6. j < i
    <2>1. x \in Subjects /\ score[x] \in Nat /\ score[y] \in Nat
        BY SuspectScored, ScoreSays
    <2>2. i < j => score[x] >= score[y]
        BY <1>2, <1>3 DEF IInv, RankInv, Ordered
    <2>3. i # j
        BY <1>2, <1>3, <2>1
    <2> QED
        BY <1>1, <2>1, <2>2, <2>3
<1> QED
    BY <1>4, <1>5, <1>6

(* In a state of the invariant, a suspect has a symptom behind it.         *)
LEMMA AccusedOnSymptom == IInv => ProximityNeverAccuses
<1> SUFFICES ASSUME IInv, NEW x \in ToSet(suspects)
             PROVE  \E s \in (IF x \in Commits THEN DeployedIn(x) ELSE {x}) :
                       SymptomOf(s) > 0 /\ score[x] <= score[s]
    BY DEF ProximityNeverAccuses
<1>1. Scored /\ x \in Subjects /\ score[x] > 0
    BY SuspectScored
<1>2. /\ score[x] = Measured(x) + LimitSupport(x) /\ score[x] \in Nat
      /\ Measured(x) \in Nat /\ LimitSupport(x) \in Nat
    BY <1>1, ScoreSays
<1>3. CASE x \notin Commits
    <2>1. LimitSupport(x) <= Measured(x)
        BY <1>1, <1>3, ScoreBound DEF IInv
    <2>2. SymptomOf(x) > 0
        BY <1>1, <1>2, <2>1, SymptomMeasured
    <2>3. score[x] <= score[x]
        BY <1>2
    <2> QED
        BY <1>3, <2>2, <2>3
<1>4. CASE x \in Commits
    <2> DEFINE s == owner[x]
    <2>1. Measured(x) = 0
        BY <1>4, CommitUnmeasured
    <2>2. s # 0 /\ s \in Services /\ LimitSupport(x) <= Measured(s)
        BY <1>1, <1>2, <1>4, <2>1, ScoreBound DEF IInv
    <2>3. s \in Subjects
        BY <2>2 DEF Subjects
    <2>4. s \in DeployedIn(x)
        <3>1. PICK i \in 1 .. at : findings[i].subject = x /\ findings[i].service = s
            BY <1>1, <2>2 DEF IInv, SumInv
        <3>2. i \in DOMAIN findings
            BY ListTyped DEF IInv, StateInv
        <3>3. findings[i] \in Found
            BY <3>2 DEF Found, ToSet
        <3> QED
            BY <3>1, <3>3 DEF DeployedIn
    <2> HIDE DEF s
    <2>5. score[s] = Measured(s) + LimitSupport(s) /\ score[s] \in Nat
          /\ Measured(s) \in Nat /\ LimitSupport(s) \in Nat
        BY <1>1, <2>3, ScoreSays
    <2>6. SymptomOf(s) = Measured(s)
        BY <1>1, <2>3, SymptomMeasured
    <2>7. SymptomOf(s) > 0 /\ score[x] <= score[s]
        BY <1>1, <1>2, <2>1, <2>2, <2>5, <2>6
    <2> QED
        BY <1>4, <2>4, <2>7
<1> QED
    BY <1>3, <1>4

(***************************************************************************)
(* Rank with limitSupport: nobody is a suspect on proximity alone, for     *)
(* any weights, rules, findings and order of them.                         *)
(***************************************************************************)
THEOREM ProximityAlone == Spec => []ProximityNeverAccuses
BY RankingInvariance, AccusedOnSymptom, PTL

(* In a state of the invariant, twice the symptom is ahead.                *)
LEMMA TwiceIsAhead == IInv => SupportNeverDecides
<1> SUFFICES ASSUME IInv, NEW a \in Services, NEW b \in Services,
                    Scored, Listed(b), SymptomOf(a) > 2 * SymptomOf(b)
             PROVE  Listed(a) /\ RankOf(a) < RankOf(b)
    BY DEF SupportNeverDecides
<1>1. /\ a \in Subjects /\ b \in Subjects /\ b \notin Commits /\ b \in ToSet(suspects)
    BY RankingAssumption DEF Subjects, Listed
<1>2. SymptomOf(a) = Measured(a) /\ SymptomOf(b) = Measured(b)
    BY <1>1, SymptomMeasured
<1>3. /\ score[a] = Measured(a) + LimitSupport(a)
      /\ score[a] \in Nat /\ Measured(a) \in Nat /\ LimitSupport(a) \in Nat
    BY <1>1, ScoreSays
<1>4. /\ score[b] = Measured(b) + LimitSupport(b)
      /\ score[b] \in Nat /\ Measured(b) \in Nat /\ LimitSupport(b) \in Nat
    BY <1>1, ScoreSays
<1>5. LimitSupport(b) <= Measured(b)
    BY <1>1, ScoreBound DEF IInv
<1>6. score[a] > score[b]
    BY <1>2, <1>3, <1>4, <1>5
<1> QED
    BY <1>1, <1>6, HigherIsAhead

(***************************************************************************)
(* limitSupport: what changed near two services never puts ahead the one   *)
(* whose symptoms are less than half those of the other.                   *)
(***************************************************************************)
THEOREM SymptomDecides == Spec => []SupportNeverDecides
BY RankingInvariance, TwiceIsAhead, PTL

(* In a state of the invariant, the answer is in order.                    *)
LEMMA AnswerInOrder == IInv => BestFirstThenDeepest
<1> SUFFICES ASSUME IInv, pc = "done"
             PROVE  /\ Len(suspects) <= topN
                    /\ \A x \in ToSet(suspects) : \A y \in Subjects :
                         score[y] > score[x] => Listed(y) /\ RankOf(y) < RankOf(x)
                    /\ \A i, j \in DOMAIN suspects :
                         i < j /\ score[suspects[i]] = score[suspects[j]]
                         /\ TieIsComparable(suspects[i])
                           => depths[suspects[i]] >= depths[suspects[j]]
    BY DEF BestFirstThenDeepest
<1>1. Scored
    BY DEF Scored
<1>2. Len(suspects) <= topN /\ Leveled(suspects)
    BY <1>1 DEF IInv, RankInv
<1>3. DOMAIN suspects = 1 .. Len(suspects)
    BY ListTyped DEF IInv, StateInv
<1> QED
    BY <1>1, <1>2, <1>3, HigherIsAhead DEF Leveled

(***************************************************************************)
(* Rank and the tie-break by depth: the best scores in order, nobody left  *)
(* out that scores more than one listed, the deepest of a tie first.       *)
(***************************************************************************)
THEOREM BestFirst == Spec => []BestFirstThenDeepest
BY RankingInvariance, AnswerInOrder, PTL

(***************************************************************************)
(*                 Detectors: from telemetry to findings                   *)
(***************************************************************************)

-----------------------------------------------------------------------------
(* The windows.                                                            *)

(* What is stored is of the investigation.                                 *)
WindowsInv ==
    /\ situation \in Situations
    /\ baseline \subseteq situation.baseline
    /\ incident \subseteq situation.incident

(* A window as the detectors read it: finite, of signals.                  *)
IsWindow(W) == IsFiniteSet(W) /\ \A s \in W : IsSignal(s)

(* So is any part of a window of an investigation.                         *)
LEMMA StoredIsWindow ==
    ASSUME NEW p \in Situations, NEW W, W \subseteq p.baseline \/ W \subseteq p.incident
    PROVE  IsWindow(W)
<1>1. IsFiniteSet(W)
    BY FS_Subset, DetectorsAssumption
<1> QED
    BY <1>1, DetectorsAssumption DEF IsWindow

(* What a window holds, and the rules that look at it, are of signals.     *)
LEMMA WindowsTyped ==
    ASSUME WindowsInv
    PROVE  /\ IsWindow(baseline) /\ IsWindow(incident)
           /\ \A s, t \in baseline \cup incident : s.id = t.id => s = t
<1>1. situation \in Situations
    BY DEF WindowsInv
<1>2. /\ IsFiniteSet(situation.baseline) /\ IsFiniteSet(situation.incident)
      /\ \A s \in situation.baseline \cup situation.incident : IsSignal(s)
      /\ \A s, t \in situation.baseline \cup situation.incident : s.id = t.id => s = t
    BY <1>1, DetectorsAssumption
<1>3. IsFiniteSet(baseline) /\ IsFiniteSet(incident)
    BY <1>2, FS_Subset DEF WindowsInv
<1> QED
    BY <1>2, <1>3 DEF WindowsInv, IsWindow

(* A part of a window is one.                                              *)
LEMMA PartIsWindow ==
    ASSUME NEW W, IsWindow(W), NEW V, V \subseteq W
    PROVE  IsWindow(V) /\ Cardinality(V) \in Nat /\ Cardinality(V) <= Cardinality(W)
<1>1. IsFiniteSet(V) /\ Cardinality(V) <= Cardinality(W)
    BY FS_Subset DEF IsWindow
<1>2. Cardinality(V) \in Nat
    BY <1>1, FS_CardinalityType
<1> QED
    BY <1>1, <1>2 DEF IsWindow

(* The windows an investigation reads grow inside its telemetry.           *)
LEMMA WindowsKept == DetectionSpec => []WindowsInv
<1>1. DetectionInit => WindowsInv
    BY DEF DetectionInit, WindowsInv
<1>2. WindowsInv /\ [DetectionNext]_windows => WindowsInv'
    BY DEF WindowsInv, DetectionNext, windows, StoreBaseline, StoreIncident
<1> QED
    BY <1>1, <1>2, PTL DEF DetectionSpec

-----------------------------------------------------------------------------
(* Rates.                                                                  *)

(* A rate is a part of something.                                          *)
IsRate(p) == p.n \in Nat /\ p.of \in Nat /\ p.of > 0 /\ p.n <= p.of

(* So is what fraction is given: a part of a finite whole.                 *)
LEMMA RateTyped ==
    ASSUME NEW whole, IsFiniteSet(whole), NEW part, part \subseteq whole
    PROVE  /\ IsRate(Rate(part, whole)) /\ Rate(part, whole).n = Cardinality(part)
           /\ whole # {} => Rate(part, whole).of = Cardinality(whole)
<1>1. /\ Cardinality(whole) \in Nat /\ Cardinality(part) \in Nat
      /\ Cardinality(part) <= Cardinality(whole)
    BY FS_Subset, FS_CardinalityType
<1>2. whole = {} => Cardinality(part) = 0
    BY FS_EmptySet
<1>3. whole # {} => Cardinality(whole) # 0
    BY FS_EmptySet
<1>4. /\ Rate(part, whole).n = Cardinality(part)
      /\ Rate(part, whole).of = IF whole = {} THEN 1 ELSE Cardinality(whole)
    BY DEF Rate
<1> QED
    BY <1>1, <1>2, <1>3, <1>4 DEF IsRate

(* Nothing rises above itself.                                             *)
LEMMA NoRise ==
    ASSUME NEW p, IsRate(p)
    PROVE  Rise(p, p) = 0 /\ ~RateGrew(p, p) /\ ~TailGrew(p, p)
<1>1. p.n \in Nat /\ p.of \in Nat /\ p.of > 0
    BY DEF IsRate
<1> DEFINE m == p.n * p.of
<1>2. m \in Nat
    BY <1>1
<1>3. Rise(p, p) = m - m
    BY DEF Rise
<1>4. 2 * p.n * p.of = 2 * m
    BY <1>1
<1> HIDE DEF m
<1>5. Rise(p, p) = 0
    BY <1>2, <1>3
<1>6. ~(m > 2 * m)
    BY <1>2
<1> QED
    BY <1>4, <1>5, <1>6 DEF RateGrew, TailGrew, m

-----------------------------------------------------------------------------
(* Percentiles.                                                            *)

MeasuredIn(W) == {s \in W : s.ms >= 0}
OrderOf(W)    == (95 * Cardinality(MeasuredIn(W)) + 99) \div 100
UpTo(d, W)    == Cardinality({s \in MeasuredIn(W) : s.ms <= d})

(* A finite set of measured signals has a slowest one.                     *)
LEMMA SlowestExists ==
    ASSUME NEW W, IsFiniteSet(W), W # {}, \A s \in W : s.ms \in Nat
    PROVE  \E s \in W : \A t \in W : t.ms <= s.ms
<1> DEFINE Over(s) == {t \in W : t.ms > s.ms}
           T == {Cardinality(Over(s)) : s \in W}
<1>1. \A s \in W : IsFiniteSet(Over(s)) /\ Cardinality(Over(s)) \in Nat
    BY FS_Subset, FS_CardinalityType
<1>2. T \subseteq Nat /\ T # {}
    BY <1>1
<1>3. PICK n \in T : \A m \in T : n <= m
    <2> HIDE DEF T
    <2> QED
        BY <1>2, LeastOf
<1>4. PICK s \in W : n = Cardinality(Over(s))
    OBVIOUS
<1>5. Over(s) = {}
    <2> SUFFICES ASSUME NEW t \in W, t.ms > s.ms PROVE FALSE
        OBVIOUS
    <2>1. Over(t) \subseteq Over(s) /\ t \in Over(s) /\ t \notin Over(t)
        OBVIOUS
    <2>2. Cardinality(Over(s)) <= Cardinality(Over(t))
        BY <1>3, <1>4
    <2> HIDE DEF Over
    <2>3. Cardinality(Over(t)) < Cardinality(Over(s))
        BY <1>1, <2>1, FS_Subset
    <2>4. Cardinality(Over(t)) \in Nat /\ Cardinality(Over(s)) \in Nat
        BY <1>1
    <2> QED
        BY <2>2, <2>3, <2>4
<1>6. \A t \in W : t.ms <= s.ms
    <2> SUFFICES ASSUME NEW t \in W PROVE t.ms <= s.ms
        OBVIOUS
    <2>1. ~(t.ms > s.ms) /\ t.ms \in Nat /\ s.ms \in Nat
        BY <1>5
    <2> QED
        BY <2>1
<1> QED
    BY <1>6

(* Durations of signals are naturals.                                      *)
LEMMA MeasuredTyped ==
    ASSUME NEW W, IsWindow(W)
    PROVE  /\ MeasuredIn(W) \subseteq W /\ IsFiniteSet(MeasuredIn(W))
           /\ \A s \in MeasuredIn(W) : s.ms \in Nat
           /\ Durations(W) = {s.ms : s \in MeasuredIn(W)} /\ Durations(W) \subseteq Nat
           /\ Cardinality(MeasuredIn(W)) \in Nat
           /\ \A d : UpTo(d, W) \in Nat
<1>1. MeasuredIn(W) \subseteq W /\ Durations(W) = {s.ms : s \in MeasuredIn(W)}
    BY DEF MeasuredIn, Durations
<1>2. \A s \in MeasuredIn(W) : s.ms \in Nat
    <2> SUFFICES ASSUME NEW s \in MeasuredIn(W) PROVE s.ms \in Nat
        OBVIOUS
    <2>1. s.ms \in Nat \cup {-1} /\ s.ms >= 0
        BY DEF MeasuredIn, IsWindow, IsSignal
    <2> QED
        BY <2>1
<1>3. IsFiniteSet(MeasuredIn(W)) /\ Cardinality(MeasuredIn(W)) \in Nat
    BY <1>1, FS_Subset, FS_CardinalityType DEF IsWindow
<1>4. ASSUME NEW d PROVE UpTo(d, W) \in Nat
    <2>1. IsFiniteSet({s \in MeasuredIn(W) : s.ms <= d})
        BY <1>3, FS_Subset
    <2> QED
        BY <2>1, FS_CardinalityType DEF UpTo
<1> QED
    BY <1>1, <1>2, <1>3, <1>4

(* The observation of order ceil(0.95 n) is one of the n.                  *)
LEMMA OrderTyped ==
    ASSUME NEW n \in Nat
    PROVE  (95 * n + 99) \div 100 \in Nat /\ (n > 0 => (95 * n + 99) \div 100 <= n)
OBVIOUS

(* It does not fall when one more is measured.                             *)
LEMMA OrderGrows ==
    ASSUME NEW n \in Nat
    PROVE  (95 * n + 99) \div 100 <= (95 * (n + 1) + 99) \div 100
OBVIOUS

(* The percentile is the least duration that so many observations are not  *)
(* above.                                                                  *)
LEMMA P95Is ==
    ASSUME NEW W, IsWindow(W), HasP95(W)
    PROVE  /\ P95(W) \in Durations(W) /\ P95(W) \in Nat
           /\ UpTo(P95(W), W) >= OrderOf(W)
           /\ \A d \in Durations(W) : UpTo(d, W) >= OrderOf(W) => P95(W) <= d
<1> DEFINE D == {d \in Durations(W) : UpTo(d, W) >= OrderOf(W)}
<1>1. P95(W) = Min(D)
    BY DEF P95, UpTo, OrderOf, MeasuredIn
<1>2. D \subseteq Nat
    BY MeasuredTyped
<1>3. D # {}
    <2>1. MeasuredIn(W) # {}
        BY MeasuredTyped DEF HasP95
    <2>2. PICK s \in MeasuredIn(W) : \A t \in MeasuredIn(W) : t.ms <= s.ms
        BY <2>1, MeasuredTyped, SlowestExists
    <2>3. UpTo(s.ms, W) = Cardinality(MeasuredIn(W))
        <3>1. {t \in MeasuredIn(W) : t.ms <= s.ms} = MeasuredIn(W)
            BY <2>2
        <3> QED
            BY <3>1 DEF UpTo
    <2>4. Cardinality(MeasuredIn(W)) # 0
        BY <2>1, MeasuredTyped, FS_EmptySet
    <2>5. OrderOf(W) \in Nat /\ OrderOf(W) <= Cardinality(MeasuredIn(W))
        BY <2>4, MeasuredTyped, OrderTyped DEF OrderOf
    <2>6. s.ms \in Durations(W) /\ UpTo(s.ms, W) >= OrderOf(W)
        BY <2>3, <2>5, MeasuredTyped
    <2> QED
        BY <2>6
<1>4. \E d \in D : \A e \in D : d <= e
    <2> HIDE DEF D
    <2> QED
        BY <1>2, <1>3, LeastOf
<1>5. Min(D) \in D /\ \A e \in D : Min(D) <= e
    <2> HIDE DEF D
    <2> QED
        BY <1>4 DEF Min
<1> QED
    BY <1>1, <1>2, <1>5

(* One more observation, the slowest of all, never lowers the percentile.  *)
THEOREM P95Rises ==
    ASSUME NEW W, NEW s, s \notin W, IsWindow(W \cup {s}), s.ms >= 0,
           \A t \in W : t.ms <= s.ms, HasP95(W)
    PROVE  HasP95(W \cup {s}) /\ P95(W) <= P95(W \cup {s})
<1> DEFINE J == W \cup {s}
           M == MeasuredIn(W)
<1>1. IsWindow(W)
    BY PartIsWindow
<1>2. MeasuredIn(J) = M \cup {s} /\ s \notin M
    BY DEF MeasuredIn
<1>3. Cardinality(MeasuredIn(J)) = Cardinality(M) + 1
    BY <1>1, <1>2, MeasuredTyped, FS_AddElement
<1>4. OrderOf(W) <= OrderOf(J)
    BY <1>1, <1>3, MeasuredTyped, OrderGrows DEF OrderOf
<1>5. HasP95(J)
    <2>1. s \in J /\ s.ms \in {t.ms : t \in {u \in J : u.ms >= 0}}
        OBVIOUS
    <2> QED
        BY <2>1 DEF HasP95, Durations
<1> DEFINE d == P95(J)
<1>6. d \in Durations(J) /\ d \in Nat /\ UpTo(d, J) >= OrderOf(J)
    BY <1>5, P95Is
<1>7. P95(W) \in Durations(W) /\ P95(W) \in Nat
    BY <1>1, P95Is
<1>8. s.ms \in Nat
    BY <1>2, MeasuredTyped
<1> HIDE DEF d
<1>9. CASE d < s.ms
    <2>1. {t \in MeasuredIn(J) : t.ms <= d} = {t \in M : t.ms <= d}
        <3>1. ~(s.ms <= d)
            BY <1>6, <1>8, <1>9
        <3> HIDE DEF M, J
        <3> QED
            BY <1>2, <3>1
    <2>2. UpTo(d, J) = UpTo(d, W)
        BY <2>1 DEF UpTo
    <2>3. d \in Durations(W)
        <3>1. Durations(J) = {t.ms : t \in MeasuredIn(J)} /\ Durations(W) = {t.ms : t \in M}
            BY <1>1, MeasuredTyped
        <3>2. PICK t \in MeasuredIn(J) : d = t.ms
            BY <1>6, <3>1
        <3>3. t # s
            BY <1>6, <1>8, <1>9, <3>2
        <3>4. t \in M
            BY <1>2, <3>3
        <3> QED
            BY <3>1, <3>2, <3>4
    <2>4. UpTo(d, W) \in Nat /\ OrderOf(W) \in Nat /\ OrderOf(J) \in Nat
        BY <1>1, MeasuredTyped, OrderTyped DEF OrderOf
    <2>5. UpTo(d, W) >= OrderOf(W)
        BY <1>4, <1>6, <2>2, <2>4
    <2> QED
        BY <1>1, <1>5, <2>3, <2>5, P95Is DEF d
<1>10. CASE ~(d < s.ms)
    <2>1. P95(W) <= s.ms
        BY <1>1, <1>7, MeasuredTyped
    <2> QED
        BY <1>5, <1>6, <1>7, <1>8, <1>10, <2>1 DEF d
<1> QED
    BY <1>9, <1>10

(* A percentile that grew enough still did when it is higher.              *)
LEMMA P95StillGrew ==
    ASSUME NEW B, IsWindow(B), NEW W, IsWindow(W), NEW J, IsWindow(J),
           NEW atLeast \in Nat, NEW percent \in Nat,
           P95Grew(B, W, atLeast, percent), HasP95(J), P95(W) <= P95(J)
    PROVE  P95Grew(B, J, atLeast, percent)
<1> DEFINE b == P95(B)
           w == P95(W)
           j == P95(J)
<1>1. HasP95(B) /\ HasP95(W) /\ w > b /\ w - b >= atLeast /\ (b <= 0 \/ 100 * (w - b) >= percent * b)
    BY DEF P95Grew
<1>2. b \in Nat /\ w \in Nat /\ j \in Nat /\ w <= j
    BY <1>1, P95Is
<1>3. percent * b \in Nat
    BY <1>2
<1> HIDE DEF b, w, j
<1> DEFINE q == percent * b
<1>4. q \in Nat
    BY <1>3
<1>5. b <= 0 \/ 100 * (w - b) >= q
    BY <1>1
<1> HIDE DEF q
<1>6. j > b /\ j - b >= atLeast /\ (b <= 0 \/ 100 * (j - b) >= q)
    BY <1>1, <1>2, <1>4, <1>5
<1> QED
    BY <1>1, <1>6 DEF P95Grew, b, j, q

(* No percentile grows above itself.                                       *)
LEMMA P95Equal ==
    ASSUME NEW W, IsWindow(W), NEW atLeast, NEW percent
    PROVE  ~P95Grew(W, W, atLeast, percent)
<1> SUFFICES ASSUME HasP95(W), P95(W) > P95(W) PROVE FALSE
    BY DEF P95Grew
<1> QED
    BY P95Is

-----------------------------------------------------------------------------
(* The barrier of noise, for a failures out of b before and c out of d     *)
(* now.  Evidence is what exceedsSamplingNoise compares, multiplied out:   *)
(* the rise squared over two standard errors squared.                      *)
Excess(a, b, c, d) == c * b - a * d

Evidence(a, b, c, d) ==
    Excess(a, b, c, d) * Excess(a, b, c, d) * b * d
      - 4 * (a * (b - a) * (d * d * d) + c * (d - c) * (b * b * b))

(* What one more failure adds to the evidence, but for positive factors.   *)
Gain(a, b, c, d) ==
    d * (d + 1) * (2 * Excess(a, b, c, d) * d + (b - a) * d + Excess(a, b, c, d))
      - 4 * b * (d * d * d - 3 * c * d * d - 3 * c * d - c)

(* The evidence after one more failure, in terms of that before it.        *)
LEMMA EvidenceGains ==
    ASSUME NEW a \in Int, NEW b \in Int, NEW c \in Int, NEW d \in Int
    PROVE  d * d * d * Evidence(a, b, c + 1, d + 1)
             = (d + 1) * (d + 1) * (d + 1) * Evidence(a, b, c, d)
                 + (d - c) * (b * b * Gain(a, b, c, d))
BY SMTT(60) DEF Evidence, Gain, Excess

(* A product of two positive numbers is positive, and conversely.          *)
LEMMA Positive ==
    ASSUME NEW m \in Int, NEW n \in Int, m > 0
    PROVE  (n > 0 <=> m * n > 0) /\ (n >= 0 <=> m * n >= 0)
OBVIOUS

(* Factors are compared as their products with a positive number.          *)
LEMMA Divided ==
    ASSUME NEW m \in Int, NEW n \in Int, NEW k \in Int, k > 0
    PROVE  (m > n <=> m * k > n * k) /\ (m >= n <=> m * k >= n * k)
OBVIOUS

(* While there is evidence, one more failure is a gain.                    *)
LEMMA GainIsNotLoss ==
    ASSUME NEW a \in Nat, NEW b \in Nat, NEW c \in Nat, NEW d \in Nat,
           b > 0, d > 0, a <= b, c < d,
           Excess(a, b, c, d) > 0, Evidence(a, b, c, d) > 0
    PROVE  Gain(a, b, c, d) >= 0
<1> DEFINE r == Excess(a, b, c, d)
           u == d - c
<1>1. r \in Int /\ r > 0 /\ u \in Int /\ u > 0 /\ b - a \in Int /\ b - a >= 0
    BY DEF Excess
<1>2. Gain(a, b, c, d) = d * (d + 1) * (2 * r * d + (b - a) * d + r)
                           - 4 * b * (d * d * d - 3 * c * d * d - 3 * c * d - c)
    BY DEF Gain
<1>3. r <= c * b
    <2>1. a * d >= 0 /\ a * d \in Int /\ c * b \in Int
        OBVIOUS
    <2> QED
        BY <2>1 DEF Excess
<1>4. r * r * b * d > 4 * c * u * b * b * b
    <2>1. a * (b - a) * (d * d * d) >= 0 /\ a * (b - a) * (d * d * d) \in Int
        <3>1. a * (b - a) \in Nat /\ d * d * d \in Nat
            BY <1>1
        <3> QED
            BY <3>1
    <2>2. r * r * b * d > 4 * (a * (b - a) * (d * d * d) + c * u * (b * b * b))
        <3>1. /\ r * r * b * d \in Int
              /\ 4 * (a * (b - a) * (d * d * d) + c * u * (b * b * b)) \in Int
            BY <1>1
        <3> QED
            BY <3>1 DEF Evidence
    <2>3. c * u * (b * b * b) \in Int /\ r * r * b * d \in Int
        BY <1>1
    <2>4. r * r * b * d > 4 * (c * u * (b * b * b))
        BY <2>1, <2>2, <2>3
    <2>5. 4 * (c * u * (b * b * b)) = 4 * c * u * b * b * b
        BY <1>1
    <2> QED
        BY <2>4, <2>5
<1> HIDE DEF r, u
<1>5. c > 0
    <2>1. c = 0 => c * b = 0
        OBVIOUS
    <2> QED
        BY <1>1, <1>3, <2>1
<1>6. r * d > 4 * u * b
    <2>1. (c * b - r) * (r * b * d) >= 0
        <3>1. r * b * d \in Int /\ r * b * d > 0
            BY <1>1
        <3>2. c * b - r \in Int /\ c * b - r >= 0
            BY <1>1, <1>3
        <3> QED
            BY <3>1, <3>2
    <2>2. (c * b - r) * (r * b * d) = c * b * r * b * d - r * r * b * d
        BY <1>1
    <2>3. c * b * r * b * d > 4 * c * u * b * b * b
        <3>1. /\ c * b * r * b * d \in Int /\ r * r * b * d \in Int
              /\ 4 * c * u * b * b * b \in Int
            BY <1>1
        <3> QED
            BY <1>4, <2>1, <2>2, <3>1
    <2>4. /\ c * b * r * b * d = (r * d) * (c * b * b)
          /\ 4 * c * u * b * b * b = (4 * u * b) * (c * b * b)
        BY <1>1
    <2>5. c * b * b > 0 /\ c * b * b \in Int /\ r * d \in Int /\ 4 * u * b \in Int
        BY <1>1, <1>5
    <2> QED
        BY <2>3, <2>4, <2>5, Divided
<1>7. /\ d * (d + 1) * (2 * r * d + (b - a) * d + r) >= d * d * (2 * r * d)
      /\ d * (d + 1) * (2 * r * d + (b - a) * d + r) \in Int
    <2>1. (b - a) * d >= 0 /\ (b - a) * d \in Int /\ 2 * r * d \in Int /\ 2 * r * d > 0
        BY <1>1
    <2> DEFINE e == 2 * r * d
               f == (b - a) * d
    <2>2. d * (d + 1) * (e + f + r) = d * d * e + d * d * (f + r) + d * (e + f + r)
        BY <1>1, <2>1
    <2>3. d * d * (f + r) >= 0 /\ d * (e + f + r) >= 0
        <3>1. f + r \in Nat /\ e + f + r \in Nat
            BY <1>1, <2>1
        <3> QED
            BY <3>1
    <2>4. d * d * e \in Int /\ d * d * (f + r) \in Int /\ d * (e + f + r) \in Int
        BY <1>1, <2>1
    <2> QED
        BY <2>2, <2>3, <2>4
<1>8. CASE 3 * c >= d
    <2>1. d * d * d - 3 * c * d * d - 3 * c * d - c = (d - 3 * c) * (d * d) - (3 * c * d + c)
        OBVIOUS
    <2>2. (3 * c - d) * (d * d) >= 0 /\ (3 * c - d) * (d * d) \in Int
        <3>1. 3 * c - d \in Nat /\ d * d \in Nat
            BY <1>8
        <3> QED
            BY <3>1
    <2>3. (d - 3 * c) * (d * d) = - ((3 * c - d) * (d * d))
        OBVIOUS
    <2> DEFINE t == d * d * d - 3 * c * d * d - 3 * c * d - c
    <2>4. t \in Int /\ t <= 0
        <3>1. 3 * c * d + c \in Nat
            OBVIOUS
        <3> QED
            BY <2>1, <2>2, <2>3, <3>1
    <2>5. 4 * b * t <= 0 /\ 4 * b * t \in Int
        <3> HIDE DEF t
        <3>1. b * (-t) >= 0 /\ b * (-t) \in Int
            BY <2>4
        <3>2. b * (-t) = - (b * t) /\ 4 * b * t = 4 * (b * t) /\ b * t \in Int
            BY <2>4
        <3> QED
            BY <3>1, <3>2
    <2>6. d * d * (2 * r * d) >= 0 /\ d * d * (2 * r * d) \in Int
        BY <1>1
    <2> QED
        BY <1>2, <1>7, <2>5, <2>6
<1>9. CASE 3 * c < d
    <2>1. 3 * u > 2 * d
        BY <1>9 DEF u
    <2>2. 3 * (4 * u * b) >= 8 * (d * b)
        <3>1. (3 * u - 2 * d) * b >= 0
            BY <1>1, <2>1
        <3>2. (3 * u - 2 * d) * b = 3 * (u * b) - 2 * (d * b)
            BY <1>1
        <3>3. 4 * u * b = 4 * (u * b) /\ u * b \in Int /\ d * b \in Int
            BY <1>1
        <3> QED
            BY <3>1, <3>2, <3>3
    <2>3. (3 * r) * d > (8 * b) * d
        <3>1. (3 * r) * d = 3 * (r * d) /\ (8 * b) * d = 8 * (d * b)
            BY <1>1
        <3>2. r * d \in Int /\ 4 * u * b \in Int /\ d * b \in Int
            BY <1>1
        <3> QED
            BY <1>6, <2>2, <3>1, <3>2
    <2>4. r >= 2 * b
        <3>1. 3 * r > 8 * b
            BY <1>1, <2>3, Divided
        <3> QED
            BY <1>1, <3>1
    <2>5. d * d * (2 * r * d) - 4 * b * (d * d * d) = 2 * (d * d * d) * (r - 2 * b)
        BY <1>1
    <2>6. 2 * (d * d * d) * (r - 2 * b) >= 0 /\ 2 * (d * d * d) * (r - 2 * b) \in Int
        <3>1. r - 2 * b \in Nat /\ d * d * d \in Nat
            BY <1>1, <2>4
        <3> QED
            BY <3>1
    <2>7. 4 * b * (d * d * d - 3 * c * d * d - 3 * c * d - c)
            = 4 * b * (d * d * d) - 4 * b * (3 * c * d * d + 3 * c * d + c)
        OBVIOUS
    <2>8. /\ 4 * b * (3 * c * d * d + 3 * c * d + c) >= 0
          /\ 4 * b * (3 * c * d * d + 3 * c * d + c) \in Int
        <3>1. 3 * c * d * d + 3 * c * d + c \in Nat
            OBVIOUS
        <3> QED
            BY <3>1
    <2>9. d * d * (2 * r * d) \in Int /\ 4 * b * (d * d * d) \in Int
        BY <1>1
    <2> QED
        BY <1>2, <1>7, <2>5, <2>6, <2>7, <2>8, <2>9
<1> QED
    BY <1>8, <1>9

(* One more failure leaves the evidence positive.                          *)
LEMMA EvidenceKept ==
    ASSUME NEW a \in Nat, NEW b \in Nat, NEW c \in Nat, NEW d \in Nat,
           b > 0, d > 0, a <= b, c <= d,
           Excess(a, b, c, d) > 0, Evidence(a, b, c, d) > 0
    PROVE  Evidence(a, b, c + 1, d + 1) > 0
<1> DEFINE e == Evidence(a, b, c, d)
           f == Evidence(a, b, c + 1, d + 1)
           g == Gain(a, b, c, d)
           h == (d - c) * (b * b * g)
           k == (d + 1) * (d + 1) * (d + 1)
           l == d * d * d
<1>1. e \in Int /\ f \in Int /\ g \in Int
    BY DEF Evidence, Gain, Excess
<1>2. l * f = k * e + h
    BY EvidenceGains
<1>3. k \in Int /\ k > 0 /\ l \in Int /\ l > 0
    <2>1. d + 1 \in Nat /\ d + 1 > 0
        OBVIOUS
    <2> QED
        BY <2>1
<1>4. h \in Int /\ h >= 0
    <2> HIDE DEF g
    <2>1. CASE c = d
        <3>1. b * b * g \in Int /\ d - c = 0
            BY <1>1, <2>1
        <3>2. h = 0
            BY <3>1
        <3> QED
            BY <3>2
    <2>2. CASE c < d
        <3>1. g >= 0
            BY <2>2, GainIsNotLoss DEF g
        <3>2. b * b * g \in Nat /\ d - c \in Nat
            BY <1>1, <2>2, <3>1
        <3> QED
            BY <3>2
    <2> QED
        BY <2>1, <2>2
<1> HIDE DEF e, f, h, k, l
<1>5. k * e > 0 /\ k * e \in Int
    BY <1>1, <1>3, Positive DEF e
<1>6. l * f > 0
    BY <1>2, <1>4, <1>5
<1> QED
    BY <1>1, <1>3, <1>6, Positive DEF f

(* One more failure in the window, one more operation in all, never brings *)
(* the growth of a rate back under the barrier of noise.                   *)
THEOREM FailureKeepsTheGrowth ==
    ASSUME NEW p, IsRate(p), NEW q, IsRate(q), NEW r, IsRate(r),
           r.n = q.n + 1, r.of = q.of + 1, RateGrew(p, q)
    PROVE  RateGrew(p, r)
<1> DEFINE a == p.n
           b == p.of
           c == q.n
           d == q.of
           x == Excess(a, b, c, d)
           y == Excess(a, b, c + 1, d + 1)
<1>1. a \in Nat /\ b \in Nat /\ c \in Nat /\ d \in Nat /\ b > 0 /\ d > 0 /\ a <= b /\ c <= d
    BY DEF IsRate
<1>2. Rise(p, q) = x /\ Rise(p, r) = y
    BY DEF Rise, Excess
<1>3. x \in Int /\ y \in Int /\ x > 0 /\ 50 * x >= b * d
    BY <1>1, <1>2 DEF RateGrew, ExceedsSamplingNoise, Excess
<1>4. Evidence(a, b, c, d) > 0
    <2>1. x * x * b * d > 4 * (a * (b - a) * (d * d * d) + c * (d - c) * (b * b * b))
        BY <1>2 DEF RateGrew, ExceedsSamplingNoise, Spread, Cube
    <2>2. /\ x * x * b * d \in Int
          /\ 4 * (a * (b - a) * (d * d * d) + c * (d - c) * (b * b * b)) \in Int
        BY <1>1, <1>3
    <2> QED
        BY <2>1, <2>2 DEF Evidence
<1>5. Evidence(a, b, c + 1, d + 1) > 0
    <2> HIDE DEF a, b, c, d
    <2> QED
        BY <1>1, <1>3, <1>4, EvidenceKept DEF x
<1>6. y = x + (b - a)
    <2>1. (c + 1) * b - a * (d + 1) = (c * b - a * d) + (b - a)
        BY <1>1
    <2> QED
        BY <2>1 DEF Excess
<1>7. y > 0
    BY <1>1, <1>3, <1>6
<1>8. 50 * y >= b * (d + 1)
    <2>1. x <= d * (b - a)
        <3>1. c * b <= d * b
            <4>1. (d - c) * b >= 0
                <5>1. d - c \in Nat
                    BY <1>1
                <5> QED
                    BY <1>1, <5>1
            <4>2. (d - c) * b = d * b - c * b /\ d * b \in Int /\ c * b \in Int
                BY <1>1
            <4> QED
                BY <4>1, <4>2
        <3>2. d * (b - a) = d * b - a * d /\ x = c * b - a * d
            BY <1>1 DEF Excess
        <3>3. a * d \in Int /\ d * b \in Int /\ c * b \in Int
            BY <1>1
        <3> QED
            BY <3>1, <3>2, <3>3
    <2>2. 50 * (b - a) >= b
        <3>1. (50 * (b - a)) * d >= b * d
            <4>1. (50 * (b - a)) * d = 50 * (d * (b - a)) /\ d * (b - a) \in Int /\ b * d \in Int
                BY <1>1
            <4> QED
                BY <1>3, <2>1, <4>1
        <3>2. 50 * (b - a) \in Int
            BY <1>1
        <3> QED
            BY <1>1, <3>1, <3>2, Divided
    <2>3. b * (d + 1) = b * d + b /\ b * d \in Int
        BY <1>1
    <2> QED
        BY <1>1, <1>3, <1>6, <2>2, <2>3
<1>9. y * y * b * (d + 1) > 4 * (a * (b - a) * ((d + 1) * (d + 1) * (d + 1))
                                  + (c + 1) * (d - c) * (b * b * b))
    <2>1. (d + 1) - (c + 1) = d - c
        BY <1>1
    <2>2. /\ y * y * b * (d + 1) \in Int
          /\ 4 * (a * (b - a) * ((d + 1) * (d + 1) * (d + 1)) + (c + 1) * (d - c) * (b * b * b)) \in Int
        BY <1>1, <1>3
    <2>3. Evidence(a, b, c + 1, d + 1) = y * y * b * (d + 1)
            - 4 * (a * (b - a) * ((d + 1) * (d + 1) * (d + 1)) + (c + 1) * (d - c) * (b * b * b))
        BY <2>1 DEF Evidence
    <2> QED
        BY <1>5, <2>2, <2>3
<1>10. Spread(r) = (c + 1) * (d - c)
    BY <1>1 DEF Spread
<1>11. ExceedsSamplingNoise(p, r)
    <2>1. 50 * Rise(p, r) >= p.of * r.of
        BY <1>2, <1>8
    <2>2. Rise(p, r) * Rise(p, r) * p.of * r.of
            > 4 * (Spread(p) * Cube(r.of) + Spread(r) * Cube(p.of))
        BY <1>2, <1>9, <1>10 DEF Spread, Cube
    <2> QED
        BY <2>1, <2>2 DEF ExceedsSamplingNoise
<1> QED
    BY <1>2, <1>7, <1>11 DEF RateGrew

(* One more slow operation, neither.                                       *)
LEMMA SlowKeepsTheTail ==
    ASSUME NEW p, IsRate(p), NEW q, IsRate(q), NEW r, IsRate(r),
           r.n = q.n + 1, r.of = q.of + 1, TailGrew(p, q)
    PROVE  TailGrew(p, r)
<1> DEFINE a == p.n
           b == p.of
           c == q.n
           d == q.of
<1>1. a \in Nat /\ b \in Nat /\ c \in Nat /\ d \in Nat /\ b > 0 /\ d > 0 /\ c <= d
    BY DEF IsRate
<1>2. c * b > 2 * a * d
    BY DEF TailGrew
<1> HIDE DEF a, b, c, d
<1>3. b > 2 * a
    <2>1. d * b >= c * b
        <3>1. (d - c) * b >= 0
            <4>1. d - c \in Nat
                BY <1>1
            <4> QED
                BY <1>1, <4>1
        <3>2. (d - c) * b = d * b - c * b /\ d * b \in Int /\ c * b \in Int
            BY <1>1
        <3> QED
            BY <3>1, <3>2
    <2>2. b * d > (2 * a) * d
        <3>1. d * b = b * d /\ d * b \in Int /\ c * b \in Int /\ 2 * a * d \in Int
            BY <1>1
        <3> QED
            BY <1>2, <2>1, <3>1
    <2> QED
        BY <1>1, <2>2, Divided
<1>4. (c + 1) * b = c * b + b /\ 2 * a * (d + 1) = 2 * a * d + 2 * a
    BY <1>1
<1>5. (c + 1) * b > 2 * a * (d + 1)
    BY <1>1, <1>2, <1>3, <1>4
<1> QED
    BY <1>5 DEF TailGrew, a, b, c, d

-----------------------------------------------------------------------------
(* What gets worse is not acquitted.                                       *)

(* The rate of a part that gains one of its whole.                         *)
LEMMA RateOfOneMore ==
    ASSUME NEW whole, IsFiniteSet(whole), NEW part, part \subseteq whole,
           NEW s, s \notin whole, whole # {}
    PROVE  /\ IsRate(Rate(part, whole)) /\ IsRate(Rate(part \cup {s}, whole \cup {s}))
           /\ Rate(part \cup {s}, whole \cup {s}).n = Rate(part, whole).n + 1
           /\ Rate(part \cup {s}, whole \cup {s}).of = Rate(part, whole).of + 1
<1>1. IsFiniteSet(part) /\ s \notin part
    BY FS_Subset
<1>2. IsFiniteSet(whole \cup {s}) /\ part \cup {s} \subseteq whole \cup {s} /\ whole \cup {s} # {}
    BY FS_AddElement
<1>3. /\ Cardinality(part \cup {s}) = Cardinality(part) + 1
      /\ Cardinality(whole \cup {s}) = Cardinality(whole) + 1
    BY <1>1, FS_AddElement
<1> QED
    BY <1>2, <1>3, RateTyped

(* A finding is found under its condition.                                 *)
LEMMA WhenFound ==
    ASSUME NEW condition \in BOOLEAN, NEW finding
    PROVE  When(condition, finding) # {} <=> condition
BY DEF When

(* One more answer 5xx does not withdraw what the rule of errors found.    *)
LEMMA ErrorsAreKept ==
    ASSUME NEW B, IsWindow(B), NEW I, NEW s, s \notin I, IsWindow(I \cup {s}),
           NEW service, WorsensErrors(s), ErrorRateDelta(service, B, I) # {}
    PROVE  ErrorRateDelta(service, B, I \cup {s}) # {}
<1> DEFINE J == I \cup {s}
           p == Rate(ServerErrors(B), Http(B))
           q == Rate(ServerErrors(I), Http(I))
           r == Rate(ServerErrors(I) \cup {s}, Http(I) \cup {s})
<1>1. Http(B) # {} /\ Http(I) # {} /\ RateGrew(p, q)
    BY DEF ErrorRateDelta, When
<1>2. s.status # 0
    <2>1. s.status \in 500 .. 599
        BY DEF WorsensErrors
    <2> QED
        BY <2>1
<1>3. Http(J) = Http(I) \cup {s} /\ s \notin Http(I)
    BY <1>2 DEF Http, WorsensErrors
<1>4. ServerErrors(J) = ServerErrors(I) \cup {s}
    BY <1>3 DEF ServerErrors, IsServerError, WorsensErrors
<1>5. IsFiniteSet(Http(I)) /\ IsFiniteSet(Http(B))
    <2>1. Http(I) \subseteq I \cup {s} /\ Http(B) \subseteq B
        BY DEF Http
    <2> QED
        BY <2>1, FS_Subset DEF IsWindow
<1>6. ServerErrors(I) \subseteq Http(I) /\ ServerErrors(B) \subseteq Http(B)
    BY DEF ServerErrors
<1>7. IsRate(p)
    BY <1>5, <1>6, RateTyped
<1>8. IsRate(q) /\ IsRate(r) /\ r.n = q.n + 1 /\ r.of = q.of + 1
    BY <1>1, <1>3, <1>5, <1>6, RateOfOneMore
<1> HIDE DEF p, q, r
<1>9. RateGrew(p, r)
    BY <1>1, <1>7, <1>8, FailureKeepsTheGrowth
<1>10. Http(J) # {}
    BY <1>3
<1> QED
    BY <1>1, <1>3, <1>4, <1>9, <1>10 DEF ErrorRateDelta, When, p, r

(* Neither does one more failed operation of the database, of its rule.    *)
LEMMA FailuresAreKept ==
    ASSUME NEW B, IsWindow(B), NEW I, NEW s, s \notin I, IsWindow(I \cup {s}),
           NEW service, WorsensDatabase(s), DatabaseError(service, B, I) # {}
    PROVE  DatabaseError(service, B, I \cup {s}) # {}
<1> DEFINE J == I \cup {s}
           p == Rate(OtherFailures(B), Database(B))
           q == Rate(OtherFailures(I), Database(I))
           r == Rate(OtherFailures(I) \cup {s}, Database(I) \cup {s})
<1>1. /\ Database(B) # {} /\ Database(I) # {} /\ OtherFailures(I) # {}
      /\ RateGrew(p, q)
    BY DEF DatabaseError, When
<1>2. s.db /\ (s.error \/ s.failure # "none") /\ s.failure # "timeout" /\ s.failure # "cancel"
    BY DEF WorsensDatabase, OtherFailures, Timeouts, Failures, Database
<1>3. Database(J) = Database(I) \cup {s} /\ s \notin Database(I)
    BY <1>2 DEF Database
<1>4. OtherFailures(J) = OtherFailures(I) \cup {s}
    BY <1>2 DEF OtherFailures, Timeouts, Failures, Database
<1>5. IsFiniteSet(Database(I)) /\ IsFiniteSet(Database(B))
    <2>1. Database(I) \subseteq I \cup {s} /\ Database(B) \subseteq B
        BY DEF Database
    <2> QED
        BY <2>1, FS_Subset DEF IsWindow
<1>6. OtherFailures(I) \subseteq Database(I) /\ OtherFailures(B) \subseteq Database(B)
    BY DEF OtherFailures, Failures
<1>7. IsRate(p)
    BY <1>5, <1>6, RateTyped
<1>8. IsRate(q) /\ IsRate(r) /\ r.n = q.n + 1 /\ r.of = q.of + 1
    BY <1>1, <1>3, <1>5, <1>6, RateOfOneMore
<1> HIDE DEF p, q, r
<1>9. RateGrew(p, r)
    BY <1>1, <1>7, <1>8, FailureKeepsTheGrowth
<1>10. Database(J) # {} /\ OtherFailures(J) # {}
    BY <1>3, <1>4
<1> QED
    BY <1>1, <1>3, <1>4, <1>9, <1>10 DEF DatabaseError, When, p, r

(* A request slower than all before it leaves the latency grown.           *)
LEMMA SlowerIsKept ==
    ASSUME NEW B, IsWindow(B), NEW I, NEW s, s \notin I, IsWindow(I \cup {s}),
           NEW service, s \in Http({s}), Slowest(s, Http(I)),
           LatencyDelta(service, B, I) # {}
    PROVE  LatencyDelta(service, B, I \cup {s}) # {}
<1>1. P95Grew(Http(B), Http(I), 5, 20)
    BY DEF LatencyDelta, When
<1>2. Http(I \cup {s}) = Http(I) \cup {s} /\ s \notin Http(I)
    BY DEF Http
<1>3. IsWindow(Http(B)) /\ IsWindow(Http(I) \cup {s}) /\ IsWindow(Http(I))
    <2>1. Http(B) \subseteq B /\ Http(I \cup {s}) \subseteq I \cup {s}
        BY DEF Http
    <2> QED
        BY <1>2, <2>1, PartIsWindow
<1>4. s.ms >= 0 /\ \A t \in Http(I) : t.ms <= s.ms
    BY <1>2 DEF Slowest
<1>5. HasP95(Http(I) \cup {s}) /\ P95(Http(I)) <= P95(Http(I) \cup {s})
    BY <1>1, <1>2, <1>3, <1>4, P95Rises DEF P95Grew
<1>6. P95Grew(Http(B), Http(I \cup {s}), 5, 20)
    BY <1>1, <1>2, <1>3, <1>5, P95StillGrew
<1> QED
    BY <1>6 DEF LatencyDelta, When

(* Likewise a query that succeeded.                                        *)
LEMMA SlowerQueryIsKept ==
    ASSUME NEW B, IsWindow(B), NEW I, NEW s, s \notin I, IsWindow(I \cup {s}),
           NEW service, s \in Succeeded({s}), Slowest(s, Succeeded(I))
    PROVE  /\ DatabaseLatencyDelta(service, B, I) # {}
                => DatabaseLatencyDelta(service, B, I \cup {s}) # {}
           /\ DatabaseLatencyTail(service, B, I) # {}
                => DatabaseLatencyTail(service, B, I \cup {s}) # {}
<1> DEFINE J == I \cup {s}
<1>1. Succeeded(J) = Succeeded(I) \cup {s} /\ s \notin Succeeded(I)
    BY DEF Succeeded, Failures, Database
<1>2. IsWindow(Succeeded(B)) /\ IsWindow(Succeeded(J)) /\ IsWindow(Succeeded(I))
    <2>1. Succeeded(B) \subseteq B /\ Succeeded(J) \subseteq J
        BY DEF Succeeded, Database
    <2> QED
        BY <1>1, <2>1, PartIsWindow
<1>3. s.ms >= 0 /\ \A t \in Succeeded(I) : t.ms <= s.ms
    BY <1>1 DEF Slowest
<1>4. ASSUME DatabaseLatencyDelta(service, B, I) # {}
      PROVE  DatabaseLatencyDelta(service, B, J) # {}
    <2>1. P95Grew(Succeeded(B), Succeeded(I), 2, 100)
        BY <1>4 DEF DatabaseLatencyDelta, When
    <2>2. HasP95(Succeeded(J)) /\ P95(Succeeded(I)) <= P95(Succeeded(J))
        BY <1>1, <1>2, <1>3, <2>1, P95Rises DEF P95Grew
    <2>3. P95Grew(Succeeded(B), Succeeded(J), 2, 100)
        BY <1>2, <2>1, <2>2, P95StillGrew
    <2> QED
        BY <2>3 DEF DatabaseLatencyDelta, When
<1>5. ASSUME DatabaseLatencyTail(service, B, I) # {}
      PROVE  DatabaseLatencyTail(service, B, J) # {}
    <2> DEFINE threshold == Max({20 * P95(Succeeded(B)), 100})
               tail      == Slower(Succeeded(I), threshold)
               longer    == Slower(Succeeded(J), threshold)
               p == Rate(Slower(Succeeded(B), threshold), Succeeded(B))
               q == Rate(tail, Succeeded(I))
               r == Rate(longer, Succeeded(J))
    <2>1. HasP95(Succeeded(B)) /\ Cardinality(tail) >= TailOperations /\ TailGrew(p, q)
        BY <1>5 DEF DatabaseLatencyTail, When
    <2>2. threshold \in Nat
        <3> DEFINE T == {20 * P95(Succeeded(B)), 100}
        <3>1. 20 * P95(Succeeded(B)) \in Nat
            BY <1>2, <2>1, P95Is
        <3>2. \E x \in T : \A y \in T : x >= y
            BY <3>1
        <3>3. Max(T) \in T
            <4> HIDE DEF T
            <4> QED
                BY <3>2 DEF Max
        <3> QED
            BY <3>1, <3>3
    <2> HIDE DEF threshold
    <2>3. tail \subseteq Succeeded(I) /\ longer \subseteq Succeeded(J)
        BY DEF Slower
    <2>4. /\ IsFiniteSet(tail) /\ IsFiniteSet(Succeeded(I)) /\ IsFiniteSet(Succeeded(B))
          /\ Cardinality(tail) \in Nat
        BY <1>2, <2>3, FS_Subset, FS_CardinalityType DEF IsWindow
    <2>5. tail # {}
        <3>1. tail = {} => Cardinality(tail) = 0
            BY FS_EmptySet
        <3> QED
            BY <2>1, <2>4, <3>1, DetectorsAssumption
    <2>6. s.ms > threshold
        <3>1. PICK t \in tail : TRUE
            BY <2>5
        <3>2. t \in Succeeded(I) /\ t.ms > threshold
            BY <3>1 DEF Slower
        <3>3. t.ms \in Int /\ s.ms \in Int
            <4>1. t \in J /\ s \in J
                BY <3>2 DEF Succeeded, Database
            <4>2. IsSignal(t) /\ IsSignal(s)
                BY <4>1 DEF IsWindow
            <4> QED
                BY <4>2 DEF IsSignal
        <3> QED
            BY <1>3, <2>2, <3>2, <3>3
    <2>7. longer = tail \cup {s}
        BY <1>1, <2>6 DEF Slower
    <2>8. IsRate(q) /\ IsRate(r) /\ r.n = q.n + 1 /\ r.of = q.of + 1
        <3>1. Succeeded(I) # {}
            BY <2>3, <2>5
        <3> HIDE DEF tail, longer
        <3> QED
            BY <1>1, <2>3, <2>4, <2>7, <3>1, RateOfOneMore
    <2>9. IsRate(p)
        <3>1. Slower(Succeeded(B), threshold) \subseteq Succeeded(B)
            BY DEF Slower
        <3> QED
            BY <2>4, <3>1, RateTyped
    <2>10. Cardinality(longer) >= TailOperations
        <3>1. s \notin tail
            BY <1>1, <2>3
        <3> HIDE DEF tail, longer
        <3>2. Cardinality(longer) = Cardinality(tail) + 1
            BY <2>4, <2>7, <3>1, FS_AddElement
        <3>3. TailOperations \in Nat
            BY DetectorsAssumption
        <3> QED
            BY <2>1, <2>4, <3>2, <3>3
    <2> HIDE DEF p, q, r
    <2>11. TailGrew(p, r)
        BY <2>1, <2>8, <2>9, SlowKeepsTheTail
    <2> QED
        BY <2>1, <2>10, <2>11 DEF DatabaseLatencyTail, When, threshold, p, r
<1> QED
    BY <1>4, <1>5

(* What gets worse is not acquitted: one more answer 5xx, one more request *)
(* or query slower than all before it, one more failed operation of the    *)
(* database never withdraws what the rule about it had found.              *)
THEOREM NoAcquittal == DetectionSpec => WorseIsNotAcquitted
<1>1. ASSUME WindowsInv, WindowsInv', [DetectionNext]_windows, NEW s \in incident' \ incident
      PROVE  NotAcquittedBy(s)
    <2> DEFINE B == OfService(s.service, baseline)
               I == OfService(s.service, incident)
               J == OfService(s.service, incident')
    <2>1. incident' = incident \cup {s}
        BY <1>1 DEF DetectionNext, StoreBaseline, StoreIncident, windows
    <2>2. J = I \cup {s} /\ s \notin I
        BY <1>1, <2>1 DEF OfService
    <2>3. IsWindow(B) /\ IsWindow(I \cup {s})
        <3>1. IsWindow(baseline)
            BY <1>1, StoredIsWindow DEF WindowsInv
        <3>2. IsWindow(incident')
            BY <1>1, StoredIsWindow DEF WindowsInv
        <3> QED
            BY <2>2, <3>1, <3>2, PartIsWindow DEF OfService
    <2>4. ASSUME WorsensErrors(s), ErrorRateDelta(s.service, B, I) # {}
          PROVE  ErrorRateDelta(s.service, B, J) # {}
        <3> HIDE DEF B, I, J
        <3> QED
            BY <2>2, <2>3, <2>4, ErrorsAreKept
    <2>5. ASSUME WorsensLatency(s), LatencyDelta(s.service, B, I) # {}
          PROVE  LatencyDelta(s.service, B, J) # {}
        <3>1. s \in Http({s}) /\ Slowest(s, Http(I))
            BY <2>5 DEF WorsensLatency
        <3> HIDE DEF B, I, J
        <3> QED
            BY <2>2, <2>3, <2>5, <3>1, SlowerIsKept
    <2>6. ASSUME WorsensDatabase(s), DatabaseError(s.service, B, I) # {}
          PROVE  DatabaseError(s.service, B, J) # {}
        <3> HIDE DEF B, I, J
        <3> QED
            BY <2>2, <2>3, <2>6, FailuresAreKept
    <2>7. ASSUME WorsensQueries(s)
          PROVE  /\ DatabaseLatencyDelta(s.service, B, I) # {}
                      => DatabaseLatencyDelta(s.service, B, J) # {}
                 /\ DatabaseLatencyTail(s.service, B, I) # {}
                      => DatabaseLatencyTail(s.service, B, J) # {}
        <3>1. s \in Succeeded({s}) /\ Slowest(s, Succeeded(I))
            BY <2>7 DEF WorsensQueries
        <3> HIDE DEF B, I, J
        <3> QED
            BY <2>2, <2>3, <3>1, SlowerQueryIsKept
    <2> QED
        BY <2>4, <2>5, <2>6, <2>7 DEF NotAcquittedBy
<1>2. WindowsInv /\ WindowsInv' /\ [DetectionNext]_windows
        => [\A s \in incident' \ incident : NotAcquittedBy(s)]_windows
    BY <1>1
<1> QED
    BY <1>2, WindowsKept, PTL DEF DetectionSpec, WorseIsNotAcquitted

-----------------------------------------------------------------------------
(* What was there before is not an accusation.                             *)

(* The traces of a window are finitely many.                               *)
LEMMA TracesTyped ==
    ASSUME NEW W, IsFiniteSet(W)
    PROVE  IsFiniteSet(Traces(W)) /\ \A V : V \subseteq W => Traces(V) \subseteq Traces(W)
<1> DEFINE T == {s.trace : s \in W}
           trace == [s \in W |-> s.trace]
<1>1. IsFiniteSet(T)
    <2>1. trace \in Surjection(W, T)
        BY DEF Surjection
    <2> QED
        BY <2>1, FS_Surjection
<1>2. Traces(W) \subseteq T
    BY DEF Traces
<1>3. IsFiniteSet(Traces(W))
    <2> HIDE DEF T
    <2> QED
        BY <1>1, <1>2, FS_Subset
<1>4. \A V : V \subseteq W => Traces(V) \subseteq Traces(W)
    BY DEF Traces
<1> QED
    BY <1>3, <1>4

(* No operation is retried more than it was over the same window.          *)
LEMMA NoStorm ==
    ASSUME NEW W, IsWindow(W), NEW call
    PROVE  ~IsStorm(call, W, W)
<1> DEFINE n == Cardinality(Attempts(call, W))
           of == Cardinality(Traces(Attempts(call, W)))
<1>1. IsFiniteSet(Attempts(call, W))
    BY FS_Subset DEF Attempts, IsWindow
<1>2. n \in Nat /\ of \in Nat
    BY <1>1, TracesTyped, FS_CardinalityType
<1> SUFFICES ASSUME IsStorm(call, W, W) PROVE FALSE
    OBVIOUS
<1> HIDE DEF n, of
<1>3. of >= RetryTraces /\ n * of - n * of >= of * of
    BY DEF IsStorm, Average, Rise, n, of
<1>4. of > 0
    BY <1>2, <1>3, DetectorsAssumption
<1>5. n * of - n * of = 0 /\ of * of > 0
    BY <1>2, <1>4
<1> QED
    BY <1>2, <1>3, <1>5

(* A finding of a rule bears its name.                                     *)
LEMMA FindingOf ==
    ASSUME NEW rule, NEW service, NEW cited, NEW condition
    PROVE  \A f \in When(condition, NewFinding(rule, service, cited)) : f.rule = rule
BY DEF When, NewFinding

(* The rules that compare windows find nothing between equal windows.      *)
LEMMA EqualWindowsAreSilent ==
    ASSUME NEW service, NEW W, IsWindow(W)
    PROVE  /\ ErrorRateDelta(service, W, W) = {}
           /\ LatencyDelta(service, W, W) = {}
           /\ RetryStorm(service, W, W) = {}
           /\ LogCorrelation(service, W, W) = {}
           /\ DatabaseLatencyDelta(service, W, W) = {}
           /\ DatabaseLatencyTail(service, W, W) = {}
           /\ DatabaseError(service, W, W) = {}
<1>1. /\ IsWindow(Http(W)) /\ IsWindow(Succeeded(W)) /\ IsWindow(Database(W))
      /\ IsWindow(Logs(W))
    <2>1. Http(W) \subseteq W /\ Succeeded(W) \subseteq W /\ Database(W) \subseteq W /\ Logs(W) \subseteq W
        BY DEF Http, Succeeded, Database, Logs
    <2> QED
        BY <2>1, PartIsWindow
<1>2. \A V, part : IsWindow(V) /\ part \subseteq V => IsRate(Rate(part, V))
    BY RateTyped DEF IsWindow
<1>3. ErrorRateDelta(service, W, W) = {}
    <2>1. IsRate(Rate(ServerErrors(W), Http(W)))
        BY <1>1, <1>2 DEF ServerErrors
    <2> QED
        BY <2>1, NoRise DEF ErrorRateDelta, When
<1>4. LatencyDelta(service, W, W) = {}
    BY <1>1, P95Equal DEF LatencyDelta, When
<1>5. RetryStorm(service, W, W) = {}
    BY NoStorm DEF RetryStorm, When
<1>6. LogCorrelation(service, W, W) = {}
    <2>1. IsRate(Rate(Failed(Logs(W)), Logs(W)))
        BY <1>1, <1>2 DEF Failed
    <2> QED
        BY <2>1, NoRise DEF LogCorrelation, When
<1>7. DatabaseLatencyDelta(service, W, W) = {}
    BY <1>1, P95Equal DEF DatabaseLatencyDelta, When
<1>8. DatabaseLatencyTail(service, W, W) = {}
    <2> DEFINE threshold == Max({20 * P95(Succeeded(W)), 100})
               p == Rate(Slower(Succeeded(W), threshold), Succeeded(W))
    <2>1. IsRate(p)
        BY <1>1, <1>2 DEF Slower
    <2>2. ~TailGrew(p, p)
        <3> HIDE DEF p
        <3> QED
            BY <2>1, NoRise
    <2> QED
        BY <2>2 DEF DatabaseLatencyTail, When
<1>9. DatabaseError(service, W, W) = {}
    <2>1. IsRate(Rate(OtherFailures(W), Database(W)))
        BY <1>1, <1>2 DEF OtherFailures, Failures
    <2> QED
        BY <2>1, NoRise DEF DatabaseError, When
<1> QED
    BY <1>3, <1>4, <1>5, <1>6, <1>7, <1>8, <1>9

(* What Run finds of a service whose windows hold the same.                *)
LEMMA ChronicServiceIsSilent ==
    ASSUME NEW service, NEW baselineWindow, NEW incidentWindow, IsWindow(incidentWindow),
           OfService(service, baselineWindow) = OfService(service, incidentWindow)
    PROVE  \A f \in Run(service, baselineWindow, incidentWindow) : f.rule \in OfTheIncidentAlone
<1> DEFINE W == OfService(service, incidentWindow)
<1>1. IsWindow(W)
    BY PartIsWindow DEF OfService
<1>2. Run(service, baselineWindow, incidentWindow) =
        DatabaseTimeout(service, W) \cup TraceCorrelation(service, W, W)
          \cup VersionRegression(service, W)
    <2> HIDE DEF W
    <2>1. Run(service, baselineWindow, incidentWindow) =
            ErrorRateDelta(service, W, W) \cup LatencyDelta(service, W, W)
              \cup DatabaseTimeout(service, W) \cup TraceCorrelation(service, W, W)
              \cup RetryStorm(service, W, W) \cup LogCorrelation(service, W, W)
              \cup DatabaseLatencyDelta(service, W, W) \cup DatabaseLatencyTail(service, W, W)
              \cup DatabaseError(service, W, W) \cup VersionRegression(service, W)
        BY DEF Run, W
    <2> QED
        BY <1>1, <2>1, EqualWindowsAreSilent
<1>3. \A f \in DatabaseTimeout(service, W) : f.rule = "database_timeout"
    BY DEF DatabaseTimeout, When, NewFinding
<1>4. \A f \in TraceCorrelation(service, W, W) : f.rule = "database_http_trace_correlation"
    BY DEF TraceCorrelation, When, NewFinding
<1>5. \A f \in VersionRegression(service, W) : f.rule = "version_regression"
    <2>1. ASSUME NEW S, NEW c
          PROVE  /\ \A f \in {NewFinding("version_regression", service, S)} :
                       f.rule = "version_regression"
                 /\ \A f \in When(c, NewFinding("version_regression", service, S)) :
                       f.rule = "version_regression"
        BY DEF When, NewFinding
    <2> QED
        BY <2>1 DEF VersionRegression
<1> HIDE DEF W
<1> QED
    BY <1>2, <1>3, <1>4, <1>5 DEF OfTheIncidentAlone

(* Windows that are the same break no trace and spread no failure.         *)
LEMMA SameWindowsAreSilent ==
    ASSUME NEW W, IsWindow(W)
    PROVE  DependencyFailure(W, W) = {} /\ TraceBreak(W, W) = {}
<1>1. ASSUME NEW service
      PROVE  ~(Rise(DependencyRate(service, W), DependencyRate(service, W)) > 0)
    <2> DEFINE whole == Traces(OfService(service, W))
               part  == Traces(Propagated(service, W))
               p     == Rate(part, whole)
    <2>1. IsFiniteSet(OfService(service, W))
        BY FS_Subset DEF OfService, IsWindow
    <2>2. IsFiniteSet(whole) /\ part \subseteq whole
        BY <2>1, TracesTyped DEF Propagated
    <2>3. IsRate(p)
        <3> HIDE DEF whole, part
        <3> QED
            BY <2>2, RateTyped
    <2>4. Rise(p, p) = 0
        <3> HIDE DEF p
        <3> QED
            BY <2>3, NoRise
    <2> QED
        BY <2>4 DEF DependencyRate
<1>2. DependencyFailure(W, W) = {}
    BY <1>1 DEF DependencyFailure, When
<1>3. TraceBreak(W, W) = {}
    BY DEF TraceBreak
<1> QED
    BY <1>2, <1>3

(* A service whose windows hold the same is accused by no rule that        *)
(* compares windows, and windows that are the same break no trace and      *)
(* spread no failure: a system that always fails alike is no incident.     *)
THEOREM TheChronicIsSilent == DetectionSpec => []ChronicIsSilent
<1>1. WindowsInv => ChronicIsSilent
    <2> SUFFICES ASSUME WindowsInv PROVE ChronicIsSilent
        OBVIOUS
    <2>1. IsWindow(incident)
        BY WindowsTyped
    <2>2. \A service \in ScopeServices :
            OfService(service, baseline) = OfService(service, incident) =>
              \A f \in Run(service, baseline, incident) : f.rule \in OfTheIncidentAlone
        BY <2>1, ChronicServiceIsSilent
    <2>3. ASSUME baseline = incident, NEW f \in Findings(baseline, incident)
          PROVE  f.rule \in OfTheIncidentAlone
        <3>1. DependencyFailure(baseline, incident) = {} /\ TraceBreak(baseline, incident) = {}
            BY <2>1, <2>3, SameWindowsAreSilent
        <3>2. PICK service \in ScopeServices : f \in Run(service, baseline, incident)
            BY <2>3, <3>1 DEF Findings
        <3> QED
            BY <2>2, <2>3, <3>2
    <2> QED
        BY <2>2, <2>3 DEF ChronicIsSilent
<1> QED
    BY <1>1, WindowsKept, PTL

-----------------------------------------------------------------------------
(* The climb follows the trace.                                            *)

(* One hop more, from the ancestors found so far.                         *)
Hop(f, k, s, W) == IF k = 0 THEN <<s>> ELSE f[k - 1] \o SetToSeq(ParentOf(Last(f[k - 1]), W))

Climbs(f, n, s, W) == f = [k \in 0 .. n |-> Hop(f, k, s, W)]

(* The recursion has a solution for every number of hops.                  *)
LEMMA ClimbExists == \A s, W : \A n \in Nat : \E f : Climbs(f, n, s, W)
<1> SUFFICES ASSUME NEW s, NEW W PROVE \A n \in Nat : \E f : Climbs(f, n, s, W)
    OBVIOUS
<1> DEFINE Bad == {n \in Nat : \A f : ~Climbs(f, n, s, W)}
<1> SUFFICES ASSUME Bad # {} PROVE FALSE
    OBVIOUS
<1>1. PICK n \in Bad : \A m \in Bad : n <= m
    <2>1. Bad \subseteq Nat
        OBVIOUS
    <2> HIDE DEF Bad
    <2> QED
        BY <2>1, LeastOf
<1>2. n \in Nat /\ \A f : ~Climbs(f, n, s, W)
    OBVIOUS
<1>3. CASE n = 0
    <2> DEFINE f == [k \in 0 .. 0 |-> <<s>>]
    <2>1. f = [k \in 0 .. 0 |-> Hop(f, k, s, W)]
        BY DEF Hop
    <2> HIDE DEF f
    <2> QED
        BY <1>2, <1>3, <2>1 DEF Climbs
<1>4. CASE n # 0
    <2>1. n - 1 \in Nat /\ ~(n <= n - 1)
        BY <1>2, <1>4
    <2>2. n - 1 \notin Bad
        BY <1>1, <2>1
    <2>3. PICK f : Climbs(f, n - 1, s, W)
        BY <2>1, <2>2
    <2> DEFINE g == [k \in 0 .. n |-> Hop(f, k, s, W)]
    <2>4. \A k \in 0 .. n - 1 : g[k] = f[k]
        <3>1. \A k \in 0 .. n - 1 : k \in 0 .. n
            BY <1>2
        <3>2. \A k \in 0 .. n - 1 : f[k] = Hop(f, k, s, W)
            BY <2>3 DEF Climbs
        <3> QED
            BY <3>1, <3>2
    <2>5. \A k \in 0 .. n : Hop(g, k, s, W) = Hop(f, k, s, W)
        <3> SUFFICES ASSUME NEW k \in 0 .. n PROVE Hop(g, k, s, W) = Hop(f, k, s, W)
            OBVIOUS
        <3>1. CASE k = 0
            BY <3>1 DEF Hop
        <3>2. CASE k # 0
            <4>1. k - 1 \in 0 .. n - 1
                BY <1>2, <3>2
            <4>2. g[k - 1] = f[k - 1]
                BY <2>4, <4>1
            <4> HIDE DEF g
            <4> QED
                BY <3>2, <4>2 DEF Hop
        <3> QED
            BY <3>1, <3>2
    <2>6. g = [k \in 0 .. n |-> Hop(g, k, s, W)]
        <3>1. g = [k \in 0 .. n |-> Hop(f, k, s, W)]
            OBVIOUS
        <3> HIDE DEF g
        <3> QED
            BY <2>5, <3>1
    <2> HIDE DEF g
    <2> QED
        BY <1>2, <2>6 DEF Climbs
<1> QED
    BY <1>3, <1>4

(* The climb is taken hop by hop.                                          *)
LEMMA AscentUnfolds ==
    ASSUME NEW s, NEW W
    PROVE  \A k \in 0 .. MaxHops : Ascent(s, W)[k] = Hop(Ascent(s, W), k, s, W)
<1>1. MaxHops \in Nat
    BY DetectorsAssumption
<1>2. Ascent(s, W) = CHOOSE f : Climbs(f, MaxHops, s, W)
    BY DEF Ascent, Climbs, Hop
<1>3. Climbs(Ascent(s, W), MaxHops, s, W)
    BY <1>1, <1>2, ClimbExists
<1> QED
    BY <1>3 DEF Climbs


(* One call more, from the callers known so far.                          *)
Call(f, k, s, W) == IF k = 0 THEN {} ELSE UNION {CallersOf(p, W) : p \in {s} \cup f[k - 1]}

Calling(f, n, s, W) == f = [k \in 0 .. n |-> Call(f, k, s, W)]

(* Its recursion has one too.                                              *)
LEMMA CallingExists == \A s, W : \A n \in Nat : \E f : Calling(f, n, s, W)
<1> SUFFICES ASSUME NEW s, NEW W PROVE \A n \in Nat : \E f : Calling(f, n, s, W)
    OBVIOUS
<1> DEFINE Bad == {n \in Nat : \A f : ~Calling(f, n, s, W)}
<1> SUFFICES ASSUME Bad # {} PROVE FALSE
    OBVIOUS
<1>1. PICK n \in Bad : \A m \in Bad : n <= m
    <2>1. Bad \subseteq Nat
        OBVIOUS
    <2> HIDE DEF Bad
    <2> QED
        BY <2>1, LeastOf
<1>2. n \in Nat /\ \A f : ~Calling(f, n, s, W)
    OBVIOUS
<1>3. CASE n = 0
    <2> DEFINE f == [k \in 0 .. 0 |-> {}]
    <2>1. f = [k \in 0 .. 0 |-> Call(f, k, s, W)]
        BY DEF Call
    <2> HIDE DEF f
    <2> QED
        BY <1>2, <1>3, <2>1 DEF Calling
<1>4. CASE n # 0
    <2>1. n - 1 \in Nat /\ ~(n <= n - 1)
        BY <1>2, <1>4
    <2>2. n - 1 \notin Bad
        BY <1>1, <2>1
    <2>3. PICK f : Calling(f, n - 1, s, W)
        BY <2>1, <2>2
    <2> DEFINE g == [k \in 0 .. n |-> Call(f, k, s, W)]
    <2>4. \A k \in 0 .. n - 1 : g[k] = f[k]
        <3>1. \A k \in 0 .. n - 1 : k \in 0 .. n
            BY <1>2
        <3>2. \A k \in 0 .. n - 1 : f[k] = Call(f, k, s, W)
            BY <2>3 DEF Calling
        <3> QED
            BY <3>1, <3>2
    <2>5. \A k \in 0 .. n : Call(g, k, s, W) = Call(f, k, s, W)
        <3> SUFFICES ASSUME NEW k \in 0 .. n PROVE Call(g, k, s, W) = Call(f, k, s, W)
            OBVIOUS
        <3>1. CASE k = 0
            BY <3>1 DEF Call
        <3>2. CASE k # 0
            <4>1. k - 1 \in 0 .. n - 1
                BY <1>2, <3>2
            <4>2. g[k - 1] = f[k - 1]
                BY <2>4, <4>1
            <4> HIDE DEF g
            <4> QED
                BY <3>2, <4>2 DEF Call
        <3> QED
            BY <3>1, <3>2
    <2>6. g = [k \in 0 .. n |-> Call(g, k, s, W)]
        <3>1. g = [k \in 0 .. n |-> Call(f, k, s, W)]
            OBVIOUS
        <3> HIDE DEF g
        <3> QED
            BY <2>5, <3>1
    <2> HIDE DEF g
    <2> QED
        BY <1>2, <2>6 DEF Calling
<1> QED
    BY <1>3, <1>4

(* The callers are followed call by call.                                  *)
LEMMA WithinUnfolds ==
    ASSUME NEW s, NEW W
    PROVE  \A k \in 0 .. MaxHops : Within(s, W)[k] = Call(Within(s, W), k, s, W)
<1>1. MaxHops \in Nat
    BY DetectorsAssumption
<1>2. Within(s, W) = CHOOSE f : Calling(f, MaxHops, s, W)
    BY DEF Within, Calling, Call
<1>3. Calling(Within(s, W), MaxHops, s, W)
    BY <1>1, <1>2, CallingExists
<1> QED
    BY <1>3 DEF Calling

(* Where a key names one signal, the index gives the caller, if any.       *)
LEMMA OneCaller ==
    ASSUME NEW W, IsWindow(W), KeysAreUnique(W), NEW s
    PROVE  /\ ParentOf(s, W) = CallersOf(s, W)
           /\ CallersOf(s, W) \subseteq W
           /\ \A p, q \in CallersOf(s, W) : p = q
           /\ \A p \in CallersOf(s, W) : p.span # None
<1>1. \A p, q \in CallersOf(s, W) : p = q
    BY DEF CallersOf, KeysAreUnique, Key
<1>2. CallersOf(s, W) \subseteq W /\ \A p \in CallersOf(s, W) : p.span # None
    BY DEF CallersOf
<1>3. \A p \in W : p.id <= p.id
    BY DEF IsWindow, IsSignal
<1>4. CASE s.parent = None
    BY <1>1, <1>2, <1>4 DEF ParentOf, CallersOf
<1>5. CASE s.parent # None
    <2> DEFINE same == {t \in W : t.trace = s.trace /\ t.span = s.parent /\ t.span # None}
    <2>1. same = CallersOf(s, W)
        BY <1>5 DEF CallersOf
    <2>2. IndexedAt(s.trace, s.parent, W) = {t \in same : \A u \in same : u.id <= t.id}
        BY DEF IndexedAt
    <2> HIDE DEF same
    <2>3. \A t, u \in same : t = u
        BY <1>1, <2>1
    <2>4. \A t \in same : t.id <= t.id
        BY <1>2, <1>3, <2>1
    <2>5. {t \in same : \A u \in same : u.id <= t.id} = same
        BY <2>3, <2>4
    <2> QED
        BY <1>1, <1>2, <1>5, <2>1, <2>2, <2>5 DEF ParentOf
<1> QED
    BY <1>4, <1>5

(* A set of one as a sequence.                                             *)
LEMMA SequenceOfOne ==
    /\ SetToSeq({}) = <<>>
    /\ \A p : SetToSeq({p}) = <<p>>
<1>1. SetToSeq({}) = <<>>
    <2>1. Cardinality({}) = 0
        BY FS_EmptySet
    <2>2. [1 .. 0 -> {}] = {<<>>}
        <3>1. \A f \in [1 .. 0 -> {}] : f \in Seq({}) /\ Len(f) = 0
            BY IsASeq
        <3>2. \A f \in [1 .. 0 -> {}] : f = <<>>
            BY <3>1, EmptySeq
        <3>3. <<>> \in [1 .. 0 -> {}]
            OBVIOUS
        <3> QED
            BY <3>2, <3>3
    <2>3. IsInjective(<<>>)
        BY DEF IsInjective
    <2> QED
        BY <2>1, <2>2, <2>3 DEF SetToSeq
<1>2. ASSUME NEW p PROVE SetToSeq({p}) = <<p>>
    <2>1. Cardinality({p}) = 1
        BY FS_Singleton
    <2>2. [1 .. 1 -> {p}] = {<<p>>}
        OBVIOUS
    <2>3. IsInjective(<<p>>)
        BY DEF IsInjective
    <2> QED
        BY <2>1, <2>2, <2>3 DEF SetToSeq
<1> QED
    BY <1>1, <1>2

(* What the climb has found after so many hops: a chain of calls that      *)
(* begins in s and stops at the ceiling or where nobody called.            *)
IsChain(path, k, s, W) ==
    /\ path \in Seq(W) /\ Len(path) \in 1 .. k + 1 /\ path[1] = s
    /\ \A n \in 1 .. Len(path) - 1 : CallersOf(path[n], W) = {path[n + 1]}
    /\ Len(path) = k + 1 \/ CallersOf(path[Len(path)], W) = {}

(* One hop more keeps the chain.                                           *)
LEMMA ChainGrows ==
    ASSUME NEW W, IsWindow(W), KeysAreUnique(W), NEW s \in W, NEW k \in Nat,
           NEW below, IsChain(below, k, s, W)
    PROVE  IsChain(below \o SetToSeq(ParentOf(Last(below), W)), k + 1, s, W)
<1> DEFINE top  == below[Len(below)]
           path == below \o SetToSeq(ParentOf(Last(below), W))
           m    == Len(below)
<1>1. /\ below \in Seq(W) /\ m \in 1 .. k + 1 /\ below[1] = s
      /\ \A n \in 1 .. m - 1 : CallersOf(below[n], W) = {below[n + 1]}
      /\ m = k + 1 \/ CallersOf(top, W) = {}
    BY DEF IsChain
<1>2. ParentOf(Last(below), W) = CallersOf(top, W)
    BY OneCaller DEF Last
<1>3. CASE CallersOf(top, W) = {}
    <2>1. path = below
        BY <1>1, <1>2, <1>3, SequenceOfOne
    <2>2. m \in 1 .. (k + 1) + 1
        BY <1>1
    <2> HIDE DEF path
    <2>3. IsChain(path, k + 1, s, W)
        BY <1>1, <1>3, <2>1, <2>2 DEF IsChain
    <2> QED
        BY <2>3 DEF path
<1>4. CASE CallersOf(top, W) # {}
    <2>1. PICK p : p \in CallersOf(top, W)
        BY <1>4
    <2>2. CallersOf(top, W) = {p} /\ p \in W
        BY <2>1, OneCaller
    <2>3. path = below \o <<p>>
        BY <1>2, <2>2, SequenceOfOne
    <2>4. m = k + 1
        BY <1>1, <1>4
    <2> HIDE DEF path
    <2>5. /\ path \in Seq(W) /\ Len(path) = m + 1 /\ path[m + 1] = p
          /\ \A n \in 1 .. m : path[n] = below[n]
        BY <1>1, <2>2, <2>3
    <2>6. path[1] = s
        BY <1>1, <2>5
    <2>7. ASSUME NEW n \in 1 .. m PROVE CallersOf(path[n], W) = {path[n + 1]}
        <3>1. CASE n = m
            BY <2>2, <2>5, <3>1
        <3>2. CASE n # m
            <4>1. n \in 1 .. m - 1 /\ n + 1 \in 1 .. m
                BY <1>1, <3>2
            <4> QED
                BY <1>1, <2>5, <4>1
        <3> QED
            BY <3>1, <3>2
    <2>8. Len(path) = (k + 1) + 1 /\ Len(path) \in 1 .. (k + 1) + 1 /\ Len(path) - 1 = m
        BY <2>4, <2>5
    <2>9. IsChain(path, k + 1, s, W)
        BY <2>5, <2>6, <2>7, <2>8 DEF IsChain
    <2> QED
        BY <2>9 DEF path
<1> QED
    BY <1>3, <1>4

(* The climb finds a chain.                                                *)
LEMMA ClimbIsChain ==
    ASSUME NEW W, IsWindow(W), KeysAreUnique(W), NEW s \in W
    PROVE  IsChain(Climb(s, W), MaxHops, s, W)
<1> DEFINE P == Ascent(s, W)
           Bad == {k \in 0 .. MaxHops : ~IsChain(P[k], k, s, W)}
<1>1. MaxHops \in Nat
    BY DetectorsAssumption
<1>2. SUFFICES ASSUME Bad # {} PROVE FALSE
    BY <1>1, <1>2 DEF Climb
<1>3. PICK k \in Bad : \A m \in Bad : k <= m
    <2>1. Bad \subseteq Nat
        OBVIOUS
    <2> HIDE DEF Bad
    <2> QED
        BY <1>2, <2>1, LeastOf
<1>4. k \in 0 .. MaxHops /\ ~IsChain(P[k], k, s, W)
    OBVIOUS
<1>5. P[k] = Hop(P, k, s, W)
    BY <1>4, AscentUnfolds
<1>6. CASE k = 0
    <2>1. P[k] = <<s>>
        BY <1>5, <1>6 DEF Hop
    <2>2. <<s>> \in Seq(W) /\ Len(<<s>>) = 1 /\ <<s>>[1] = s
        OBVIOUS
    <2>3. IsChain(<<s>>, 0, s, W)
        BY <2>2 DEF IsChain
    <2> QED
        BY <1>4, <1>6, <2>1, <2>3
<1>7. CASE k # 0
    <2>1. k - 1 \in 0 .. MaxHops /\ k - 1 \in Nat /\ ~(k <= k - 1) /\ (k - 1) + 1 = k
        BY <1>1, <1>4, <1>7
    <2>2. IsChain(P[k - 1], k - 1, s, W)
        BY <1>3, <2>1
    <2>3. P[k] = P[k - 1] \o SetToSeq(ParentOf(Last(P[k - 1]), W))
        BY <1>5, <1>7 DEF Hop
    <2> HIDE DEF P
    <2> QED
        BY <1>4, <2>1, <2>2, <2>3, ChainGrows
<1> QED
    BY <1>6, <1>7

(* The callers by so many calls are those so far along the chain.          *)
LEMMA ChainIsAncestry ==
    ASSUME NEW W, IsWindow(W), KeysAreUnique(W), NEW s \in W,
           NEW path, IsChain(path, MaxHops, s, W)
    PROVE  Above(s, W) = {path[n] : n \in 2 .. Len(path)}
<1> DEFINE R == Within(s, W)
           m == Len(path)
           Reached(k) == {path[n] : n \in {i \in 2 .. m : i <= k + 1}}
           Bad == {k \in 0 .. MaxHops : R[k] # Reached(k)}
<1>1. MaxHops \in Nat
    BY DetectorsAssumption
<1>2. /\ m \in 1 .. MaxHops + 1 /\ path[1] = s
      /\ \A n \in 1 .. m - 1 : CallersOf(path[n], W) = {path[n + 1]}
      /\ m = MaxHops + 1 \/ CallersOf(path[m], W) = {}
    BY DEF IsChain
<1> HIDE DEF m
<1>3. Bad = {}
    <2> SUFFICES ASSUME Bad # {} PROVE FALSE
        OBVIOUS
    <2>1. PICK k \in Bad : \A j \in Bad : k <= j
        <3>1. Bad \subseteq Nat
            OBVIOUS
        <3> HIDE DEF Bad
        <3> QED
            BY <3>1, LeastOf
    <2>2. k \in 0 .. MaxHops /\ R[k] # Reached(k)
        OBVIOUS
    <2>3. R[k] = Call(R, k, s, W)
        BY <2>2, WithinUnfolds
    <2>4. CASE k = 0
        <3>1. R[k] = {}
            BY <2>3, <2>4 DEF Call
        <3>2. {i \in 2 .. m : i <= 0 + 1} = {}
            BY <1>2
        <3> QED
            BY <2>2, <2>4, <3>1, <3>2
    <2>5. CASE k # 0
        <3>1. k - 1 \in 0 .. MaxHops /\ ~(k <= k - 1) /\ (k - 1) + 1 = k
            BY <1>1, <2>2, <2>5
        <3>2. R[k - 1] = Reached(k - 1)
            BY <2>1, <3>1
        <3>3. {s} \cup R[k - 1] = {path[n] : n \in {i \in 1 .. m : i <= k}}
            <4>1. {i \in 1 .. m : i <= k} = {1} \cup {i \in 2 .. m : i <= k}
                BY <1>2, <2>2, <2>5
            <4>2. R[k - 1] = {path[n] : n \in {i \in 2 .. m : i <= k}}
                BY <3>1, <3>2
            <4> QED
                BY <1>2, <4>1, <4>2
        <3>4. R[k] = UNION {CallersOf(path[n], W) : n \in {i \in 1 .. m : i <= k}}
            <4>1. R[k] = UNION {CallersOf(p, W) : p \in {s} \cup R[k - 1]}
                BY <2>3, <2>5 DEF Call
            <4> QED
                BY <3>3, <4>1
        <3>5. ASSUME NEW x \in R[k] PROVE x \in Reached(k)
            <4>1. PICK n \in 1 .. m : n <= k /\ x \in CallersOf(path[n], W)
                BY <3>4, <3>5
            <4>2. n # m
                BY <1>1, <1>2, <2>2, <4>1
            <4>3. n \in 1 .. m - 1 /\ n + 1 \in 2 .. m /\ n + 1 <= k + 1
                BY <1>2, <2>2, <4>1, <4>2
            <4>4. x = path[n + 1]
                BY <1>2, <4>1, <4>3
            <4> QED
                BY <4>3, <4>4
        <3>6. ASSUME NEW x \in Reached(k) PROVE x \in R[k]
            <4>1. PICK n \in 2 .. m : n <= k + 1 /\ x = path[n]
                BY <3>6
            <4>2. n - 1 \in 1 .. m - 1 /\ n - 1 \in 1 .. m /\ n - 1 <= k /\ (n - 1) + 1 = n
                BY <1>2, <2>2, <4>1
            <4>3. x \in CallersOf(path[n - 1], W)
                BY <1>2, <4>1, <4>2
            <4> QED
                BY <3>4, <4>2, <4>3
        <3> QED
            BY <2>2, <3>5, <3>6
    <2> QED
        BY <2>4, <2>5
<1>4. R[MaxHops] = Reached(MaxHops)
    BY <1>1, <1>3
<1>5. {i \in 2 .. m : i <= MaxHops + 1} = 2 .. m
    BY <1>1, <1>2
<1> QED
    BY <1>4, <1>5 DEF Above, m

(* What is further up a chain called what is below.                        *)
LEMMA FurtherIsAbove ==
    ASSUME NEW W, NEW s, NEW path, IsChain(path, MaxHops, s, W),
           NEW i \in 1 .. Len(path), NEW j \in 1 .. Len(path), i < j
    PROVE  path[j] \in Above(path[i], W)
<1> DEFINE R == Within(path[i], W)
           m == Len(path)
           Bad == {k \in 0 .. MaxHops : \E n \in i + 1 .. m : n <= i + k /\ path[n] \notin R[k]}
<1>1. MaxHops \in Nat
    BY DetectorsAssumption
<1>2. /\ m \in 1 .. MaxHops + 1 /\ i \in 1 .. m /\ j \in 1 .. m
      /\ \A n \in 1 .. m - 1 : CallersOf(path[n], W) = {path[n + 1]}
    BY DEF IsChain
<1> HIDE DEF m
<1>3. Bad = {}
    <2> SUFFICES ASSUME Bad # {} PROVE FALSE
        OBVIOUS
    <2>1. PICK k \in Bad : \A l \in Bad : k <= l
        <3>1. Bad \subseteq Nat
            OBVIOUS
        <3> HIDE DEF Bad
        <3> QED
            BY <3>1, LeastOf
    <2>2. PICK n \in i + 1 .. m : n <= i + k /\ path[n] \notin R[k]
        BY <2>1
    <2>3. k \in 0 .. MaxHops /\ k # 0
        <3>1. k \in 0 .. MaxHops
            BY <2>1
        <3> QED
            BY <1>2, <2>2, <3>1
    <2>4. k - 1 \in 0 .. MaxHops /\ ~(k <= k - 1)
        BY <1>1, <2>3
    <2>5. R[k] = UNION {CallersOf(p, W) : p \in {path[i]} \cup R[k - 1]}
        <3>1. R[k] = Call(R, k, path[i], W)
            BY <2>3, WithinUnfolds
        <3> QED
            BY <2>3, <3>1 DEF Call
    <2>6. n - 1 \in 1 .. m - 1 /\ (n - 1) + 1 = n
        BY <1>2, <2>2
    <2>7. path[n] \in CallersOf(path[n - 1], W)
        BY <1>2, <2>6
    <2>8. path[n - 1] \in {path[i]} \cup R[k - 1]
        <3>1. CASE n - 1 = i
            BY <3>1
        <3>2. CASE n - 1 # i
            <4>1. n - 1 \in i + 1 .. m /\ n - 1 <= i + (k - 1)
                BY <1>2, <2>2, <2>3, <3>2
            <4>2. k - 1 \notin Bad
                BY <2>1, <2>4
            <4> QED
                BY <2>4, <4>1, <4>2
        <3> QED
            BY <3>1, <3>2
    <2> QED
        BY <2>2, <2>5, <2>7, <2>8
<1>4. MaxHops \in 0 .. MaxHops /\ j \in i + 1 .. m /\ j <= i + MaxHops
    BY <1>1, <1>2
<1> QED
    BY <1>3, <1>4 DEF Above

(* Without loops a chain is as long as there are callers.                  *)
LEMMA ChainCounts ==
    ASSUME NEW W, IsWindow(W), KeysAreUnique(W), NEW s \in W,
           NEW path, IsChain(path, MaxHops, s, W), ~InLoop(s, W)
    PROVE  Len(path) - 1 = Cardinality(Above(s, W))
<1> DEFINE m == Len(path)
           A == Above(s, W)
           f == [n \in 1 .. m - 1 |-> path[n + 1]]
<1>1. m \in Nat /\ m >= 1 /\ path[1] = s
    BY DetectorsAssumption DEF IsChain
<1>2. A = {path[n] : n \in 2 .. m}
    BY ChainIsAncestry
<1> HIDE DEF A
<1>3. ASSUME NEW i \in 2 .. m, NEW j \in 2 .. m, i < j PROVE path[i] # path[j]
    <2>1. path[j] \in Above(path[i], W)
        <3>1. i \in 1 .. Len(path) /\ j \in 1 .. Len(path)
            BY <1>1
        <3> QED
            BY <1>3, <3>1, FurtherIsAbove
    <2>2. path[i] \in Above(s, W)
        BY <1>2 DEF A
    <2> QED
        BY <2>1, <2>2 DEF InLoop
<1> HIDE DEF m
<1>4. \A n \in 1 .. m - 1 : n + 1 \in 2 .. m
    BY <1>1
<1>5. f \in [1 .. m - 1 -> A]
    BY <1>2, <1>4
<1>6. ASSUME NEW i \in 1 .. m - 1, NEW j \in 1 .. m - 1, f[i] = f[j] PROVE i = j
    <2>1. i + 1 \in 2 .. m /\ j + 1 \in 2 .. m /\ path[i + 1] = path[j + 1]
        BY <1>4, <1>6
    <2>2. ~(i + 1 < j + 1) /\ ~(j + 1 < i + 1)
        BY <1>3, <2>1
    <2> QED
        BY <1>1, <2>2
<1>7. \A x \in A : \E i \in 1 .. m - 1 : f[i] = x
    <2> SUFFICES ASSUME NEW x \in A PROVE \E i \in 1 .. m - 1 : f[i] = x
        OBVIOUS
    <2>1. PICK n \in 2 .. m : x = path[n]
        BY <1>2
    <2>2. n - 1 \in 1 .. m - 1 /\ (n - 1) + 1 = n
        BY <1>1
    <2> QED
        BY <2>1, <2>2
<1>8. f \in Bijection(1 .. m - 1, A)
    <2> HIDE DEF f
    <2> QED
        BY <1>5, <1>6, <1>7 DEF Bijection, Injection, Surjection, IsInjective
<1>9. IsFiniteSet(1 .. m - 1) /\ Cardinality(1 .. m - 1) = m - 1
    <2>1. Cardinality(1 .. m - 1) = IF 1 > m - 1 THEN 0 ELSE (m - 1) - 1 + 1
        BY <1>1, FS_Interval
    <2> QED
        BY <1>1, <2>1, FS_Interval
<1>10. Cardinality(A) = m - 1
    <2> DEFINE S == 1 .. m - 1
    <2>1. f \in Bijection(S, A) /\ IsFiniteSet(S) /\ Cardinality(S) = m - 1
        BY <1>8, <1>9
    <2> HIDE DEF f, S
    <2>2. Cardinality(A) = Cardinality(S)
        BY <2>1, FS_Bijection DEF ExistsBijection
    <2> QED
        BY <2>1, <2>2
<1> QED
    BY <1>10 DEF A, m

(* The climb stops at a span it has seen, so it may leave part of a chain. *)
SeenBefore(path, n) == \E m \in 1 .. n - 1 : Key(path[m]) = Key(path[n])

(* Whatever the chain holds, it holds before the climb stops.              *)
LEMMA ClimbedBeforeItStops ==
    ASSUME NEW W, IsWindow(W), KeysAreUnique(W), NEW s \in W,
           NEW path, IsChain(path, MaxHops, s, W)
    PROVE  \A n \in 1 .. Len(path) :
              \E k \in 1 .. n : path[k] = path[n] /\ \A m \in 2 .. k : ~SeenBefore(path, m)
<1> DEFINE top == Len(path)
           Bad == {n \in 1 .. top :
                     \A k \in 1 .. n : path[k] = path[n] => \E m \in 2 .. k : SeenBefore(path, m)}
<1>1. /\ top \in Nat /\ path \in Seq(W)
      /\ \A n \in 1 .. top - 1 : CallersOf(path[n], W) = {path[n + 1]}
    <2>1. path \in Seq(W) /\ \A n \in 1 .. top - 1 : CallersOf(path[n], W) = {path[n + 1]}
        BY DEF IsChain
    <2>2. top \in Nat
        BY <2>1, LenProperties
    <2> QED
        BY <2>1, <2>2
<1> SUFFICES ASSUME Bad # {} PROVE FALSE
    OBVIOUS
<1>2. PICK n \in Bad : \A m \in Bad : n <= m
    <2>1. Bad \subseteq Nat
        OBVIOUS
    <2> HIDE DEF Bad
    <2> QED
        BY <2>1, LeastOf
<1>3. /\ n \in 1 .. top
      /\ \A k \in 1 .. n : path[k] = path[n] => \E m \in 2 .. k : SeenBefore(path, m)
    OBVIOUS
<1>4. n # 1
    <2>1. n = 1 => 1 \in 1 .. n /\ 2 .. 1 = {}
        OBVIOUS
    <2> QED
        BY <1>3, <2>1
<1>5. n - 1 \in 1 .. top /\ n - 1 \in 1 .. top - 1 /\ (n - 1) + 1 = n /\ ~(n <= n - 1)
    BY <1>1, <1>3, <1>4
<1>6. PICK k \in 1 .. n - 1 : path[k] = path[n - 1] /\ \A m \in 2 .. k : ~SeenBefore(path, m)
    BY <1>2, <1>5
<1>7. /\ k \in 1 .. top - 1 /\ k + 1 \in 1 .. n /\ k + 1 \in 1 .. top /\ (k + 1) - 1 = k
      /\ 2 .. k + 1 = 2 .. k \cup {k + 1}
    BY <1>1, <1>3, <1>6
<1>8. path[k + 1] = path[n]
    <2>1. CallersOf(path[k], W) = {path[k + 1]} /\ CallersOf(path[n - 1], W) = {path[n]}
        BY <1>1, <1>5, <1>7
    <2> QED
        BY <1>6, <2>1
<1>9. CASE ~SeenBefore(path, k + 1)
    BY <1>3, <1>6, <1>7, <1>8, <1>9
<1>10. CASE SeenBefore(path, k + 1)
    <2>1. PICK m \in 1 .. k : Key(path[m]) = Key(path[k + 1])
        BY <1>7, <1>10 DEF SeenBefore
    <2>2. path[k + 1] \in CallersOf(path[k], W)
        BY <1>1, <1>7
    <2>3. path[k + 1] \in W /\ path[k + 1].span # None
        BY <2>2, OneCaller
    <2>4. path[m] \in W
        BY <1>1, <1>7, <2>1
    <2>5. path[k + 1] = path[m]
        BY <2>1, <2>3, <2>4 DEF KeysAreUnique, Key
    <2>6. m \in 1 .. n /\ 2 .. m \subseteq 2 .. k
        BY <1>3, <1>6, <2>1
    <2> QED
        BY <1>3, <1>6, <1>8, <2>5, <2>6
<1> QED
    BY <1>9, <1>10

(* The failing services found are those the trace shows above.             *)
LEMMA FailingAboveAreFound ==
    ASSUME NEW W, IsWindow(W), KeysAreUnique(W), NEW s \in W
    PROVE  FailingAncestorServices(s, W) = {p.service : p \in Failed(Above(s, W))} \ {s.service}
<1> DEFINE path == Climb(s, W)
           Seen(n) == \E m \in 1 .. n - 1 : Key(path[m]) = Key(path[n])
           climbed == {n \in 2 .. Len(path) : \A m \in 2 .. n : ~Seen(m)}
           found == {path[n].service : n \in {n \in climbed :
                        path[n].error /\ path[n].service # s.service}}
<1>1. FailingAncestorServices(s, W) = found
    BY DEF FailingAncestorServices
<1>2. IsChain(path, MaxHops, s, W)
    BY ClimbIsChain
<1>3. path[1] = s /\ Len(path) \in Nat
    BY <1>2, DetectorsAssumption DEF IsChain
<1> HIDE DEF path
<1>4. Above(s, W) = {path[n] : n \in 2 .. Len(path)}
    BY <1>2, ChainIsAncestry
<1>5. ASSUME NEW x \in found PROVE x \in {p.service : p \in Failed(Above(s, W))} \ {s.service}
    <2>1. PICK n \in 2 .. Len(path) : path[n].error /\ path[n].service # s.service /\ x = path[n].service
        BY <1>5
    <2> QED
        BY <1>4, <2>1 DEF Failed
<1>6. ASSUME NEW x \in {p.service : p \in Failed(Above(s, W))} \ {s.service} PROVE x \in found
    <2>1. PICK p \in Above(s, W) : p.error /\ x = p.service /\ x # s.service
        BY <1>6 DEF Failed
    <2>2. PICK n \in 2 .. Len(path) : p = path[n]
        BY <1>4, <2>1
    <2>3. n \in 1 .. Len(path)
        BY <1>3, <2>2
    <2>4. \A i \in 1 .. Len(path) :
             \E k \in 1 .. i : path[k] = path[i] /\ \A m \in 2 .. k : ~Seen(m)
        BY <1>2, ClimbedBeforeItStops DEF SeenBefore
    <2>5. PICK k \in 1 .. n : path[k] = path[n] /\ \A m \in 2 .. k : ~Seen(m)
        BY <2>3, <2>4
    <2>6. k # 1
        BY <1>3, <2>1, <2>2, <2>5
    <2>7. k \in 2 .. Len(path)
        BY <1>3, <2>3, <2>5, <2>6
    <2>8. k \in climbed
        BY <2>5, <2>7
    <2> QED
        BY <2>1, <2>2, <2>5, <2>8
<1> QED
    BY <1>1, <1>5, <1>6

(* Without loops the depth of a service is that of its longest chain.      *)
LEMMA DepthIsAncestry ==
    ASSUME NEW W, IsWindow(W), KeysAreUnique(W), NEW service \in DOMAIN ServiceDepths(W),
           \A s \in OfService(service, W) : ~InLoop(s, W)
    PROVE  ServiceDepths(W)[service]
             = Max({Cardinality(Above(s, W)) : s \in OfService(service, W)})
<1>1. ASSUME NEW s \in OfService(service, W)
      PROVE  Len(Climb(s, W)) - 1 = Cardinality(Above(s, W))
    <2>1. s \in W /\ ~InLoop(s, W)
        BY DEF OfService
    <2> QED
        BY <2>1, ClimbIsChain, ChainCounts
<1>2. service \in {s.service : s \in W}
    BY DEF ServiceDepths
<1>3. ServiceDepths(W)[service] = Max({Len(Climb(s, W)) - 1 : s \in OfService(service, W)})
    BY <1>2 DEF ServiceDepths
<1>4. {Len(Climb(s, W)) - 1 : s \in OfService(service, W)}
        = {Cardinality(Above(s, W)) : s \in OfService(service, W)}
    BY <1>1
<1> QED
    BY <1>3, <1>4

(* A failure is laid on a service below another only when the trace says   *)
(* so, even when instrumentation closes a loop; and without loops the      *)
(* depth of a service is the longest chain of calls that reaches it, both  *)
(* up to the ceiling of hops.                                              *)
THEOREM TheClimbFollowsTheTrace == DetectionSpec => []ClimbFollowsTheTrace
<1>1. WindowsInv => ClimbFollowsTheTrace
    <2> SUFFICES ASSUME WindowsInv, KeysAreUnique(incident) PROVE
            /\ \A s \in Failed(incident) :
                 FailingAncestorServices(s, incident) =
                   {p.service : p \in Failed(Above(s, incident))} \ {s.service}
            /\ \A service \in DOMAIN ServiceDepths(incident) :
                 (\A s \in OfService(service, incident) : ~InLoop(s, incident)) =>
                    ServiceDepths(incident)[service]
                      = Max({Cardinality(Above(s, incident)) : s \in OfService(service, incident)})
        BY DEF ClimbFollowsTheTrace
    <2>1. IsWindow(incident)
        BY WindowsTyped
    <2>2. \A s \in Failed(incident) : s \in incident
        BY DEF Failed
    <2> QED
        BY <2>1, <2>2, FailingAboveAreFound, DepthIsAncestry
<1> QED
    BY <1>1, WindowsKept, PTL

(* What a chain goes through twice it goes through again.                  *)
LEMMA ChainsRepeat ==
    ASSUME NEW W, NEW s, NEW path, IsChain(path, MaxHops, s, W),
           NEW i \in 1 .. Len(path), NEW j \in 1 .. Len(path), i < j, path[i] = path[j]
    PROVE  path[i + (Len(path) - j)] = path[Len(path)]
<1> DEFINE m == Len(path)
           Bad == {d \in 0 .. m - j : path[i + d] # path[j + d]}
<1>1. path \in Seq(W) /\ \A n \in 1 .. m - 1 : CallersOf(path[n], W) = {path[n + 1]}
    BY DEF IsChain
<1>2. m \in Nat /\ i \in 1 .. m /\ j \in 1 .. m
    BY <1>1, LenProperties
<1> HIDE DEF m
<1>3. Bad = {}
    <2> SUFFICES ASSUME Bad # {} PROVE FALSE
        OBVIOUS
    <2>1. PICK d \in Bad : \A e \in Bad : d <= e
        <3>1. Bad \subseteq Nat
            BY <1>2
        <3> HIDE DEF Bad
        <3> QED
            BY <3>1, LeastOf
    <2>2. d \in 0 .. m - j /\ path[i + d] # path[j + d]
        OBVIOUS
    <2>3. d # 0
        BY <1>2, <2>2
    <2>4. d - 1 \in 0 .. m - j /\ ~(d <= d - 1)
        BY <1>2, <2>2, <2>3
    <2>5. path[i + (d - 1)] = path[j + (d - 1)]
        BY <2>1, <2>4
    <2>6. /\ i + (d - 1) \in 1 .. m - 1 /\ i + (d - 1) + 1 = i + d
          /\ j + (d - 1) \in 1 .. m - 1 /\ j + (d - 1) + 1 = j + d
        BY <1>2, <2>2, <2>3
    <2>7. /\ CallersOf(path[i + (d - 1)], W) = {path[i + d]}
          /\ CallersOf(path[j + (d - 1)], W) = {path[j + d]}
        BY <1>1, <2>6
    <2> QED
        BY <2>2, <2>5, <2>7
<1>4. m - j \in 0 .. m - j /\ j + (m - j) = m
    BY <1>2
<1> QED
    BY <1>3, <1>4 DEF m

(* The ceiling of hops loses nobody in a window of no more signals than    *)
(* hops: who called one of those the climb knows is one of them, so what   *)
(* TheClimbFollowsTheTrace says holds at any distance.                     *)
THEOREM TheCeilingLosesNobody ==
    ASSUME NEW W, IsWindow(W), KeysAreUnique(W), NEW s \in W, Cardinality(W) <= MaxHops
    PROVE  \A p \in Above(s, W) \cup {s} : CallersOf(p, W) \subseteq Above(s, W)
<1> DEFINE path == Climb(s, W)
           m == Len(path)
<1>1. IsChain(path, MaxHops, s, W)
    BY ClimbIsChain
<1> HIDE DEF path
<1>2. /\ path \in Seq(W) /\ m \in 1 .. MaxHops + 1 /\ path[1] = s
      /\ \A n \in 1 .. m - 1 : CallersOf(path[n], W) = {path[n + 1]}
      /\ m = MaxHops + 1 \/ CallersOf(path[m], W) = {}
    BY <1>1 DEF IsChain
<1>3. Above(s, W) = {path[n] : n \in 2 .. m}
    BY <1>1, ChainIsAncestry
<1>4. MaxHops \in Nat
    BY DetectorsAssumption
<1> HIDE DEF m
<1>5. CallersOf(path[m], W) \subseteq Above(s, W)
    <2>1. CASE CallersOf(path[m], W) = {}
        BY <2>1
    <2>2. CASE m = MaxHops + 1
        <3> DEFINE S == 1 .. m
        <3>1. IsFiniteSet(W) /\ Cardinality(W) \in Nat
            BY FS_CardinalityType DEF IsWindow
        <3>2. IsFiniteSet(S) /\ Cardinality(S) = m
            <4>1. Cardinality(S) = IF 1 > m THEN 0 ELSE m - 1 + 1
                BY <1>2, <1>4, FS_Interval
            <4> QED
                BY <1>2, <1>4, <4>1, FS_Interval
        <3>3. Cardinality(W) < Cardinality(S)
            BY <1>4, <2>2, <3>1, <3>2
        <3>4. path \in [S -> W]
            BY <1>2, LenProperties DEF m
        <3>5. PICK x \in S, y \in S : x # y /\ path[x] = path[y]
            <4> HIDE DEF S
            <4> QED
                BY <3>1, <3>2, <3>3, <3>4, FS_PigeonHole
        <3>6. PICK i \in 1 .. m, j \in 1 .. m : i < j /\ path[i] = path[j]
            BY <1>2, <1>4, <3>5
        <3>7. path[i + (m - j)] = path[m]
            BY <1>1, <3>6, ChainsRepeat DEF m
        <3>8. i + (m - j) \in 1 .. m - 1 /\ i + (m - j) + 1 \in 2 .. m
            BY <1>2, <1>4, <3>6
        <3>9. CallersOf(path[m], W) = {path[i + (m - j) + 1]}
            BY <1>2, <3>7, <3>8
        <3> QED
            BY <1>3, <3>8, <3>9
    <2> QED
        BY <1>2, <2>1, <2>2
<1>6. ASSUME NEW p \in Above(s, W) \cup {s} PROVE CallersOf(p, W) \subseteq Above(s, W)
    <2>1. PICK n \in 1 .. m : p = path[n]
        BY <1>2, <1>3, <1>4
    <2>2. CASE n = m
        BY <1>5, <2>1, <2>2
    <2>3. CASE n # m
        <3>1. n \in 1 .. m - 1 /\ n + 1 \in 2 .. m
            BY <1>2, <1>4, <2>3
        <3> QED
            BY <1>2, <1>3, <2>1, <3>1
    <2> QED
        BY <2>2, <2>3
<1> QED
    BY <1>6

(* A record of log hides the caller of a failed span because it takes its  *)
(* key; where no two signals share a key, no caller that failed is missed. *)
THEOREM OnlyASharedKeyHidesACaller ==
    DetectionSpec => [](KeysAreUnique(incident) => FailedCallerIsSeen)
<1>1. WindowsInv => (KeysAreUnique(incident) => FailedCallerIsSeen)
    <2> SUFFICES ASSUME WindowsInv, KeysAreUnique(incident),
                        NEW s \in Failed(incident), NEW p \in Failed(incident),
                        p \in CallersOf(s, incident), p.service # s.service
                 PROVE  p.service \in FailingAncestorServices(s, incident)
        BY DEF FailedCallerIsSeen
    <2>1. IsWindow(incident) /\ s \in incident /\ p.error
        BY WindowsTyped DEF Failed
    <2> DEFINE path == Climb(s, incident)
    <2>2. IsChain(path, MaxHops, s, incident)
        BY <2>1, ClimbIsChain
    <2>3. Above(s, incident) = {path[n] : n \in 2 .. Len(path)}
        BY <2>1, <2>2, ChainIsAncestry
    <2> HIDE DEF path
    <2>4. MaxHops \in Nat /\ MaxHops > 0
        BY DetectorsAssumption
    <2>5. 1 \in 1 .. Len(path) - 1
        <3>1. /\ Len(path) \in 1 .. MaxHops + 1 /\ path[1] = s
              /\ Len(path) = MaxHops + 1 \/ CallersOf(path[Len(path)], incident) = {}
            BY <2>2 DEF IsChain
        <3>2. CallersOf(s, incident) # {}
            OBVIOUS
        <3>3. CASE Len(path) = 1
            <4>1. CallersOf(path[Len(path)], incident) = CallersOf(s, incident)
                BY <3>1, <3>3
            <4>2. Len(path) = MaxHops + 1
                BY <3>1, <3>2, <4>1
            <4> QED
                BY <2>4, <3>3, <4>2
        <3> QED
            BY <2>4, <3>1, <3>3
    <2>6. p = path[2]
        <3>1. path[1] = s /\ CallersOf(path[1], incident) = {path[1 + 1]}
            BY <2>2, <2>5 DEF IsChain
        <3> QED
            BY <3>1
    <2>7. p \in Failed(Above(s, incident))
        BY <2>1, <2>3, <2>5, <2>6 DEF Failed
    <2> QED
        BY <2>1, <2>7, FailingAboveAreFound
<1> QED
    BY <1>1, WindowsKept, PTL

=============================================================================
