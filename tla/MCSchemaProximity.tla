------------------------- MODULE MCSchemaProximity -------------------------
(* Instances of SchemaProximity, and with it of SchemaCatalog. *)
EXTENDS SchemaProximity, TLC

CONSTANTS c1, c2, c3, amount, amountIdx

\* A column and an index on it: the least a blind read distinguishes.
TwoObjects == {amount, amountIdx}
TwoKinds   == (amount :> "column") @@ (amountIdx :> "index")

\* A column changes type; an index is there or not.
TwoDetails == (amount :> {1, 2}) @@ (amountIdx :> {1})

\* SELECT on the tables, or no longer.
AllOrNothing == {{}, TwoObjects}
AlwaysGranted == {TwoObjects}

\* Collections are interchangeable.
AnyCollection == Permutations(Collections)
=============================================================================
