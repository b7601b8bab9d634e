--------------------------- MODULE SchemaVersions ---------------------------
(* What schema_migrations promises of a Faultmap store, whoever migrates it:  *)
(* the statements of version 1, then of version 2, and so on, each committed  *)
(* once and in whole.  Migration implements this.                             *)
EXTENDS Naturals, Sequences

CONSTANT N                      \* the last version of the list

VARIABLE applied                \* the versions whose statements took effect

Init == applied = << >>

ApplyNext ==
  /\ Len(applied) < N
  /\ applied' = Append(applied, Len(applied) + 1)

Next == ApplyNext

Spec == Init /\ [][Next]_applied
=============================================================================
