--------------------------- MODULE ScopeExpansion --------------------------
(***************************************************************************)
(* How a diagnosis chooses the services it compares (resolveScope): a list *)
(* given by the operator, every service of the window, the entry service   *)
(* alone, or the services reached by walking over shared traces, level by  *)
(* level.                                                                  *)
(*                                                                         *)
(* Each level is one query, outside any transaction, so that telemetry is  *)
(* ingested between two levels.  Names and trace ids are naturals: the     *)
(* queries order by them and cut with LIMIT.                               *)
(*                                                                         *)
(* Simplifications: a row is a service, a trace and whether its timestamp  *)
(* is inside the window of the incident; retention, which only removes     *)
(* rows far older than an incident under diagnosis, does not run.          *)
(***************************************************************************)
EXTENDS Integers, FiniteSets, FiniteSetsExt

CONSTANTS
  Services,       \* service names
  Traces,         \* trace ids
  Rows,           \* rows of telemetry that may exist
  Entry,          \* EntryService
  Lists,          \* lists of services an operator may give
  Depths,         \* values of --depth
  MaxServices,    \* --max-services
  DefaultDepth,   \* DefaultScopeDepth
  MaxDepth,       \* MaxScopeDepth
  MaxTraces       \* maxScopeTraces

ASSUME ScopeAssumption ==
  /\ Services \subseteq Nat /\ Traces \subseteq Nat
  /\ Rows \subseteq [service : Services, trace : Traces, inside : BOOLEAN]
  /\ IsFiniteSet(Rows)
  /\ Entry \in Services
  /\ Lists \subseteq SUBSET Services
  /\ Depths \subseteq Int
  /\ MaxServices \in Nat \ {0}
  /\ DefaultDepth \in 1 .. MaxDepth /\ MaxDepth \in Nat
  /\ MaxTraces \in Nat \ {0}

VARIABLES
  rows,        \* telemetry stored
  pc,          \* where resolveScope is
  discovery,   \* DiagnosisScope.Discovery
  services,    \* DiagnosisScope.Services
  distances,   \* DiagnosisScope.Distances
  frontier,    \* services the next level starts from
  level,       \* level of the next query
  depth,       \* depth of the request, normalised
  reached,     \* DiagnosisScope.Depth
  traceCount,  \* DiagnosisScope.TraceCount
  truncated,   \* DiagnosisScope.Truncated
  rowsAtStart  \* history: telemetry when the expansion started

answer == <<services, distances, reached, traceCount, truncated>>
walk   == <<frontier, level, depth>>
vars   == <<rows, pc, discovery, answer, walk, rowsAtStart>>

\* ORDER BY ... ASC LIMIT n.
First(n, S) == {x \in S : Cardinality({y \in S : y < x}) < n}

InWindow(stored) == {r \in stored : r.inside}

\* The inner query: traces of these services in the window.
TracesOf(group, stored) ==
  {r.trace : r \in {q \in InWindow(stored) : q.service \in group}}

\* The outer query, which the window does not bound.
ServicesIn(traces, stored) ==
  {r.service : r \in {q \in stored : q.trace \in traces}}

\* Mutant: one service more than the scope can take is not asked for.
NeighboursWithoutMargin(group) ==
  First(MaxServices, ServicesIn(First(MaxTraces, TracesOf(group, rows)), rows))

\* ListServicesSharingTraces and ListServicesSharingTracesWithAny, asked for
\* one service more than fits.
Neighbours(group) ==
  First(MaxServices + 1,
        ServicesIn(First(MaxTraces, TracesOf(group, rows)), rows))
-----------------------------------------------------------------------------
Init ==
  /\ rows \in SUBSET Rows
  /\ pc = "idle" /\ discovery = "none"
  /\ services = {} /\ distances = <<>>
  /\ frontier = {} /\ level = 0 /\ depth = 0 /\ reached = 0
  /\ traceCount = 0 /\ truncated = FALSE
  /\ rowsAtStart = {}

\* What the other modes answer: no distance, no count of traces.
Answer(how, found) ==
  /\ discovery' = how
  /\ services' = First(MaxServices, found)
  /\ truncated' = (Cardinality(found) > MaxServices)
  /\ pc' = "done"
  /\ UNCHANGED <<rows, distances, reached, traceCount, walk, rowsAtStart>>

ResolveList ==
  /\ pc = "idle"
  /\ \E list \in Lists : list # {} /\ Answer("list", list)

\* --all: an empty window is an error.
ResolveAll ==
  /\ pc = "idle"
  /\ LET found == First(MaxServices + 1, {r.service : r \in InWindow(rows)})
     IN  found # {} /\ Answer("window", found)

ResolveEntryOnly ==
  /\ pc = "idle"
  /\ Answer("entry", {Entry})

NormalDepth(d) ==
  IF d <= 0 THEN DefaultDepth ELSE IF d > MaxDepth THEN MaxDepth ELSE d

\* expandScopeByTraces begins.
StartExpansion ==
  /\ pc = "idle"
  /\ \E d \in Depths : depth' = NormalDepth(d)
  /\ services' = {Entry}
  /\ distances' = [s \in {Entry} |-> 0]
  /\ frontier' = {Entry}
  /\ level' = 1
  /\ discovery' = "traces"
  /\ pc' = "level"
  /\ rowsAtStart' = rows
  /\ UNCHANGED <<rows, reached, traceCount, truncated>>

\* Mutant: every service known starts the next level again.
FrontierOfAll(added) == services \cup added

\* Only who was just discovered starts the next level.
NextFrontier(added) == added

\* Mutant: a level that discovered nobody counts as walked.
DepthOfLevel(added) == level

ReachedBy(added) == IF added = {} THEN reached ELSE level

\* One level: what the query answered, less who is known, while there is room.
Expand ==
  /\ pc = "level"
  /\ LET unknown == Neighbours(frontier) \ services
         room    == MaxServices - Cardinality(services)
         added   == First(room, unknown)
         over    == added = {} \/ level = depth
     IN  /\ services' = services \cup added
         /\ distances' = [s \in services \cup added |->
                            IF s \in services THEN distances[s] ELSE level]
         /\ truncated' = (truncated \/ Cardinality(unknown) > room)
         /\ reached' = ReachedBy(added)
         /\ frontier' = NextFrontier(added)
         /\ level' = IF over THEN level ELSE level + 1
         /\ pc' = IF level = 1 THEN (IF over THEN "last_count" ELSE "count")
                               ELSE (IF over THEN "done" ELSE "level")
  /\ UNCHANGED <<rows, discovery, depth, traceCount, rowsAtStart>>

\* countScopeTraces: a second query of the first level, at a later moment.
CountTraces ==
  /\ pc \in {"count", "last_count"}
  /\ traceCount' = Cardinality(First(MaxTraces, TracesOf({Entry}, rows)))
  /\ pc' = IF pc = "count" THEN "level" ELSE "done"
  /\ UNCHANGED <<rows, discovery, services, distances, reached, truncated,
                 walk, rowsAtStart>>

\* An error of a query, or a cancelled context: there is no scope.
Fail ==
  /\ pc \in {"idle", "level", "count", "last_count"}
  /\ pc' = "failed"
  /\ services' = {} /\ distances' = <<>>
  /\ reached' = 0 /\ traceCount' = 0 /\ truncated' = FALSE
  /\ UNCHANGED <<rows, discovery, walk, rowsAtStart>>

\* Telemetry arrives while the scope is being walked.
Ingest(r) ==
  /\ r \notin rows
  /\ rows' = rows \cup {r}
  /\ UNCHANGED <<pc, discovery, answer, walk, rowsAtStart>>

Next ==
  \/ ResolveList \/ ResolveAll \/ ResolveEntryOnly
  \/ StartExpansion \/ Expand \/ CountTraces \/ Fail
  \/ \E r \in Rows : Ingest(r)

Spec == Init /\ [][Next]_vars
-----------------------------------------------------------------------------
TypeOK ==
  /\ rows \in SUBSET Rows /\ rowsAtStart \in SUBSET rows
  /\ pc \in {"idle", "level", "count", "last_count", "done", "failed"}
  /\ discovery \in {"none", "list", "window", "entry", "traces"}
  /\ services \in SUBSET Services
  /\ distances \in [DOMAIN distances -> Nat]
  /\ DOMAIN distances \in {{}, services}
  /\ frontier \in SUBSET Services
  /\ level \in Nat /\ depth \in Nat /\ reached \in Nat /\ traceCount \in Nat
  /\ truncated \in BOOLEAN

Expanded == pc = "done" /\ discovery = "traces"

(***************************************************************************)
(* The distance of a service is explained by what was observed: it appears *)
(* in a trace that a service one hop nearer crossed inside the window      *)
(* ("a distância explica por que um serviço entrou na comparação").        *)
(***************************************************************************)
EveryHopExplained ==
  \A s \in DOMAIN distances :
    distances[s] > 0 =>
      \E p \in DOMAIN distances :
        /\ distances[p] = distances[s] - 1
        /\ s \in ServicesIn(TracesOf({p}, rows), rows)

(***************************************************************************)
(* The scope never outgrows its limits, and the depth announced is that of *)
(* the furthest service, not the one asked for.                            *)
(***************************************************************************)
ScopeWithinLimits ==
  /\ Cardinality(services) <= MaxServices
  /\ Expanded => /\ \A s \in services : distances[s] <= reached
                 /\ \E s \in services : distances[s] = reached
                 /\ reached <= MaxDepth

\* Services at most k hops from the entry in the telemetry of the start.
WithinHops[k \in 0 .. MaxDepth] ==
  IF k = 0 THEN {Entry}
  ELSE WithinHops[k - 1] \cup
         ServicesIn(TracesOf(WithinHops[k - 1], rowsAtStart), rowsAtStart)

\* Nobody who was there when the expansion started was left out or is
\* presented further than it is.
Complete ==
  \A k \in 0 .. depth : \A s \in WithinHops[k] :
    s \in services /\ distances[s] <= k

TracesFit == Cardinality({r.trace : r \in InWindow(rows)}) <= MaxTraces

(***************************************************************************)
(* A scope not declared truncated is complete up to the depth asked for,   *)
(* although telemetry keeps arriving between levels, as long as no query   *)
(* had more traces than it can take.                                       *)
(***************************************************************************)
CompleteUnlessTruncated ==
  Expanded /\ ~truncated /\ TracesFit => Complete

(***************************************************************************)
(* Refuted by the code (see README.md): ADR 0009 says that when the        *)
(* limit of services or of traces cuts the scope, the output declares it.  *)
(***************************************************************************)
EveryCutIsDeclared == Expanded /\ ~truncated => Complete

=============================================================================
