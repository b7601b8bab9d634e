-------------------------- MODULE SchemaProximity --------------------------
(***************************************************************************)
(* What a diagnosis makes of the changes SchemaCatalog derives: the batch  *)
(* read of DiagnoseIncidentInScope, then DetectSchemaChangeProximity.      *)
(* Both only read, so they are operators over the state, evaluated for     *)
(* every start an incident may have.                                       *)
(*                                                                         *)
(* Simplifications: the service has a symptom and database spans, and the  *)
(* limit of rows of the query is not reached; score and confidence, which  *)
(* grade what is blamed, are left out.                                     *)
(***************************************************************************)
EXTENDS SchemaCatalog

CONSTANTS
  Starts,    \* starts an incident may have
  Lookback,  \* SchemaChangeLookback
  Queried    \* objects of the tables the service queries

ASSUME ProximityAssumption ==
  Starts \subseteq Nat /\ Lookback \in Nat /\ Queried \subseteq Objects

\* loadScopeSchemaChanges and the WHERE clause of ListSchemaChangesForScope.
Loaded(start) ==
  {x \in changes : start - Lookback <= Before(x) /\ Before(x) <= start}

Age(start, x)    == start - Before(x)
Inside(start, x) == IF Age(start, x) < 0 THEN -Age(start, x) ELSE 0

\* The changes that reach the service and may precede the incident.
MayPrecede(start, x) ==
  /\ x.object \in Queried
  /\ After(x) < start
  /\ Age(start, x) <= Lookback

Candidates(start) == {x \in Loaded(start) : MayPrecede(start, x)}

\* Less overlap with the incident first, then the nearest; the identifier
\* decides between equals.
Selected(start) ==
  {x \in Candidates(start) :
     \A y \in Candidates(start) :
       \/ Inside(start, x) < Inside(start, y)
       \/ /\ Inside(start, x) = Inside(start, y)
          /\ Age(start, x) <= Age(start, y)}
-----------------------------------------------------------------------------
(***************************************************************************)
(* A change blamed as certainly earlier (no overlap with the incident)     *)
(* really happened before the incident: it is not a response to it, nor    *)
(* the work of a collection that was slow to read (ADR 0019).              *)
(***************************************************************************)
CertainBlameIsEarlier ==
  \A start \in Starts : \A x \in Selected(start) :
    Inside(start, x) = 0 /\ Watched(x) /\ HasColumn(seen[x.from])
      => \E m \in migrations : m.object = x.object /\ m.at <= start

(***************************************************************************)
(* Refuted by the code (see the finding): ADR 0019 decides that a change   *)
(* enters as soon as some possible instant of it precedes the incident,    *)
(* even if the collection that revealed it came after the start.           *)
(***************************************************************************)
StraddlingChangePresented ==
  \A start \in Starts :
    (\E x \in changes : MayPrecede(start, x)) => Selected(start) # {}

=============================================================================
