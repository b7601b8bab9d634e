------------------------------ MODULE Ranking ------------------------------
(***************************************************************************)
(* From findings to the ordered suspects of a diagnosis, the second half   *)
(* of DiagnoseIncidentInScope: the symptoms of every service of the scope, *)
(* the proximity findings of the services that have one, Rank over all of  *)
(* them, and the tie-break by depth over what Rank returned.               *)
(*                                                                         *)
(* Simplifications: what a detector finds in the telemetry is chosen, not  *)
(* computed; scores and weights are integers, a contribution is exact (the *)
(* rounding of floats is left out) and the last clamp changes nothing, for *)
(* weights sum at most one (config.go); confidence, reasons and            *)
(* limitations are carried along by the code and decide nothing.           *)
(***************************************************************************)
EXTENDS Integers, FiniteSets, SequencesExt

CONSTANTS
  Services,  \* services of the scope
  Commits,   \* commits that may have been deployed
  Classes,   \* classes of weight
  ClassOf,   \* weightClassForRule
  Weight,    \* weight configured for each class
  Unit,      \* the score of a finding that is certain
  Symptoms,  \* what detectors may find in one service: scores of rules
  Nearby,    \* what proximity may find: scores of a schema change (0: none)
             \* and of a deployment with its commit (0: none)
  Depths,    \* depths the spans of the incident may give to services
  TopNs      \* values of investigation.top_suspects

Support == "deployment_proximity"

ASSUME RankingAssumption ==
  /\ Services \subseteq Nat \ {0} /\ Commits \subseteq Nat \ {0}
  /\ IsFiniteSet(Services) /\ IsFiniteSet(Commits)
  /\ Services \cap Commits = {}  \* identifiers of the two never coincide
  /\ IsFiniteSet(Classes) /\ IsFiniteSet(DOMAIN ClassOf)
  /\ Support \in Classes /\ Weight \in [Classes -> Nat]
  /\ \A rule \in DOMAIN ClassOf : ClassOf[rule] \in Classes
  /\ \A rule \in {"schema_change_proximity", "deployment_proximity"} :
       rule \in DOMAIN ClassOf /\ ClassOf[rule] = Support
  /\ Unit \in Nat \ {0}
  /\ \A found \in Symptoms :
       DOMAIN found \subseteq DOMAIN ClassOf
       /\ \A rule \in DOMAIN found : found[rule] \in 0 .. Unit
  /\ Nearby \subseteq [schema : 0 .. Unit, commit : Commits \cup {0},
                      deploy : 0 .. Unit]
  /\ \A d \in Depths : DOMAIN d \subseteq Services /\ d \in [DOMAIN d -> Nat]
  /\ TopNs \subseteq Int

VARIABLES
  pc,        \* where the diagnosis is
  topN,      \* config.TopN
  next,      \* services of the scope not visited yet in this pass
  findings,  \* findings, in the order they were appended
  at,        \* findings Rank has accumulated
  owner,     \* accumulator.serviceName of each subject, 0 while there is none
  byClass,   \* accumulator.byWeightClass of each subject
  score,     \* score of each subject, 0 when it is not a suspect
  suspects,  \* what Rank returned, then what the tie-break left
  depths     \* serviceDepths(incident)

request == <<topN, depths>>
ranked  == <<at, owner, byClass, score, suspects>>
vars    == <<pc, request, next, findings, ranked>>

Subjects == Services \cup Commits
Nothing  == [c \in Classes |-> 0]

IsFirst(s, S) == s \in S /\ \A t \in S : s <= t

\* The sum of f over S, counted in its units.
Units(f, S) == UNION {{x} \X (1 .. f[x]) : x \in S}
Total(f, S) == Cardinality(Units(f, S))
-----------------------------------------------------------------------------
Init ==
  /\ pc = "observe"
  /\ topN \in TopNs /\ depths \in Depths
  /\ next = Services
  /\ findings = <<>> /\ at = 0
  /\ owner = [x \in Subjects |-> 0]
  /\ byClass = [x \in Subjects |-> Nothing]
  /\ score = [x \in Subjects |-> 0]
  /\ suspects = <<>>

Finding(subject, service, rule, value) ==
  [subject |-> subject, service |-> service, rule |-> rule, score |-> value]

\* detection.Run and the detectors across services: what they found in s.
Observe(s) ==
  /\ pc = "observe" /\ IsFirst(s, next)
  /\ \E found \in Symptoms :
       findings' = findings \o
         SetToSeq({Finding(s, s, r, found[r]) : r \in DOMAIN found})
  /\ next' = IF next = {s} THEN Services ELSE next \ {s}
  /\ pc' = IF next = {s} THEN "corroborate" ELSE pc
  /\ UNCHANGED <<request, ranked>>

Symptomatic(s) == \E i \in DOMAIN findings : findings[i].service = s

\* The strongest deployment accuses the service and the commit alike.
ProximityOf(s, near) ==
  (IF near.schema = 0 THEN <<>>
   ELSE <<Finding(s, s, "schema_change_proximity", near.schema)>>)
  \o (IF near.commit = 0 THEN <<>>
      ELSE <<Finding(s, s, "deployment_proximity", near.deploy),
             Finding(near.commit, s, "deployment_proximity", near.deploy)>>)

\* corroboratedProximityFindings: a service without symptom is skipped.
Corroborate(s) ==
  /\ pc = "corroborate" /\ IsFirst(s, next)
  /\ \/ UNCHANGED findings
     \/ /\ Symptomatic(s)
        /\ \E near \in Nearby : findings' = findings \o ProximityOf(s, near)
  /\ next' = next \ {s}
  /\ pc' = IF next = {s} THEN "rank" ELSE pc
  /\ UNCHANGED <<request, ranked>>

\* config.Validate.
Reject ==
  /\ pc = "rank" /\ at = 0 /\ topN <= 0
  /\ pc' = "failed"
  /\ UNCHANGED <<request, next, findings, ranked>>

\* One turn of the loop of Rank: the first finding about a subject says whose
\* it is; a class without weight is skipped.
Accumulate ==
  /\ pc = "rank" /\ topN > 0 /\ at < Len(findings)
  /\ at' = at + 1
  /\ LET f == findings[at + 1]
         class == ClassOf[f.rule]
     IN  IF Weight[class] = 0 THEN UNCHANGED <<owner, byClass>>
         ELSE /\ owner' = [owner EXCEPT ![f.subject] =
                             IF @ = 0 THEN f.service ELSE @]
              /\ byClass' = [byClass EXCEPT ![f.subject][class] =
                               @ + f.score * Weight[class]]
  /\ UNCHANGED <<pc, request, next, findings, score, suspects>>

\* Mutant: the rules of one class add up freely.
Uncapped(x, c) == byClass[x][c]

\* What a class contributes, limited to its weight.
Capped(x, c) ==
  IF byClass[x][c] < Unit * Weight[c] THEN byClass[x][c] ELSE Unit * Weight[c]

\* The part of the score that was measured, and the part that supports it.
Measured(x) ==
  Total([c \in Classes |-> Capped(x, c)], Classes \ {Support})

Least(a, b) == IF a < b THEN a ELSE b

\* Mutant: only commits have a ceiling.
ServiceExempt(x) ==
  IF x \in Commits
  THEN IF owner[x] = 0 THEN 0 ELSE Least(Capped(x, Support), Measured(owner[x]))
  ELSE Capped(x, Support)

\* limitSupport: support never weighs more than the symptom of its service.
LimitSupport(x) ==
  IF x \in Commits
  THEN IF owner[x] = 0 THEN 0 ELSE Least(Capped(x, Support), Measured(owner[x]))
  ELSE Least(Capped(x, Support), Measured(x))

ScoreOf(x) == Measured(x) + LimitSupport(x)

\* Rank scores who was accused, drops a zero, sorts and cuts.
Score ==
  /\ pc = "rank" /\ topN > 0 /\ at = Len(findings)
  /\ score' = [x \in Subjects |-> ScoreOf(x)]
  /\ LET accused == {x \in Subjects : score'[x] > 0}
         Ahead(x, y) == \/ score'[x] > score'[y]
                        \/ score'[x] = score'[y] /\ x < y
         Sorts(list) ==
           /\ ToSet(list) = accused
           /\ \A i, j \in DOMAIN list : i < j => Ahead(list[i], list[j])
     IN  \E sorted \in [1 .. Cardinality(accused) -> accused] :
           /\ Sorts(sorted)
           /\ suspects' = SubSeq(sorted, 1, Least(topN, Len(sorted)))
  /\ pc' = "tie"
  /\ UNCHANGED <<request, next, findings, at, owner, byClass>>

Known(x) == x \in DOMAIN depths

\* Mutant: who is nearer to the edge comes first.
ShallowFirst(x, y) ==
  IF score[x] # score[y] THEN score[x] > score[y]
  ELSE IF Known(x) /\ Known(y) /\ depths[x] # depths[y]
       THEN depths[x] < depths[y]
       ELSE x < y

\* The comparison of applyDependencyTieBreak; depths may be unknown.
Deeper(x, y) ==
  IF score[x] # score[y] THEN score[x] > score[y]
  ELSE IF Known(x) /\ Known(y) /\ depths[x] # depths[y]
       THEN depths[x] > depths[y]
       ELSE x < y

\* sort.SliceStable of a short slice: each one moves left past those it
\* precedes, up to the first it does not.
Placed(list, x) ==
  LET stays == {i \in DOMAIN list : ~Deeper(x, list[i])}
      after == IF stays = {} THEN 0 ELSE Max(stays)
  IN  InsertAt(list, after + 1, x)

\* What the sort has made of the first n suspects.
Sorted[n \in 0 .. Len(suspects)] ==
  IF n = 0 THEN <<>> ELSE Placed(Sorted[n - 1], suspects[n])

TieBreak ==
  /\ pc = "tie"
  /\ suspects' = IF Len(suspects) < 2 \/ DOMAIN depths = {} THEN suspects
                 ELSE Sorted[Len(suspects)]
  /\ pc' = "done"
  /\ UNCHANGED <<request, next, findings, at, owner, byClass, score>>

Next ==
  \/ \E s \in Services : Observe(s) \/ Corroborate(s)
  \/ Reject \/ Accumulate \/ Score \/ TieBreak

Spec == Init /\ [][Next]_vars
-----------------------------------------------------------------------------
TypeOK ==
  /\ pc \in {"observe", "corroborate", "rank", "tie", "done", "failed"}
  /\ topN \in TopNs /\ depths \in Depths
  /\ next \in SUBSET Services
  /\ \A f \in ToSet(findings) :
       f \in [subject : Subjects, service : Services,
             rule : DOMAIN ClassOf, score : 0 .. Unit]
  /\ at \in 0 .. Len(findings)
  /\ owner \in [Subjects -> Services \cup {0}]
  /\ byClass \in [Subjects -> [Classes -> Nat]]
  /\ score \in [Subjects -> Nat]
  /\ ToSet(suspects) \subseteq Subjects

\* References: the findings themselves, without the accumulators.
Found    == ToSet(findings)
Value(f) == f.score * Weight[ClassOf[f.rule]]

SymptomIn(s, c) ==
  LET worth == [i \in DOMAIN findings |-> Value(findings[i])]
      about == {i \in DOMAIN findings :
                  findings[i].subject = s /\ ClassOf[findings[i].rule] = c}
  IN  Least(Total(worth, about), Unit * Weight[c])

SymptomOf(s) ==
  Total([c \in Classes |-> SymptomIn(s, c)], Classes \ {Support})

DeployedIn(c) == {f.service : f \in {g \in Found : g.subject = c}}

Scored     == pc \in {"tie", "done"}
Listed(x)  == x \in ToSet(suspects)
RankOf(x)  == CHOOSE i \in DOMAIN suspects : suspects[i] = x

(***************************************************************************)
(* Nobody is a suspect on proximity alone: a service has a measured        *)
(* symptom of its own, and a commit scores no more than some service with  *)
(* a symptom in which it was deployed (ranking.go: "proximidade sozinha    *)
(* não acusa ninguém").                                                    *)
(***************************************************************************)
ProximityNeverAccuses ==
  \A x \in ToSet(suspects) :
    \E s \in (IF x \in Commits THEN DeployedIn(x) ELSE {x}) :
      SymptomOf(s) > 0 /\ score[x] <= score[s]

(***************************************************************************)
(* A service whose symptoms, class by class up to its weight, are more     *)
(* than twice those of another is ahead of it, whatever number of rules    *)
(* share a class and whatever changed near either (ADR 0010).              *)
(***************************************************************************)
SupportNeverDecides ==
  \A a, b \in Services :
    Scored /\ Listed(b) /\ SymptomOf(a) > 2 * SymptomOf(b)
      => Listed(a) /\ RankOf(a) < RankOf(b)

\* Every suspect with the score of x is a service of known depth.
TieIsComparable(x) ==
  \A y \in ToSet(suspects) : score[y] = score[x] => Known(y)

(***************************************************************************)
(* The answer is the best scores in order, nobody ahead of a higher score  *)
(* and nobody left out that scores more than one listed; among equals of   *)
(* known depth the deepest comes first.                                    *)
(***************************************************************************)
BestFirstThenDeepest ==
  pc = "done" =>
    /\ Len(suspects) <= topN
    /\ \A x \in ToSet(suspects) :
         \A y \in Subjects : score[y] > score[x] => Listed(y) /\ RankOf(y) < RankOf(x)
    /\ \A i, j \in DOMAIN suspects :
         LET x == suspects[i]
             y == suspects[j]
         IN  i < j /\ score[x] = score[y] /\ TieIsComparable(x)
               => depths[x] >= depths[y]

(***************************************************************************)
(* Refuted by the code (see README.md): ADR 0009 decides that of tied      *)
(* suspects the one furthest from the edge comes first, but Rank has cut   *)
(* the list in alphabetical order before the tie is broken.                *)
(***************************************************************************)
DeepestOfTieListed ==
  pc = "done" =>
    \A x, y \in DOMAIN depths :
      Listed(x) /\ score[x] = score[y] /\ depths[y] > depths[x] => Listed(y)

(***************************************************************************)
(* Refuted by the code (see README.md): ranking.go:227 says that a         *)
(* commit deployed in a service that is failing keeps being pointed at;    *)
(* one deployed in two services answers for the first of them alone.       *)
(***************************************************************************)
FailingDeployAccused ==
  Scored =>
    \A f \in Found :
      f.subject \in Commits /\ Value(f) > 0 /\ SymptomOf(f.service) > 0
        => score[f.subject] > 0

=============================================================================
