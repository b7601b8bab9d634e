---------------------------- MODULE MCMigration ----------------------------
(* An instance of Migration small enough for TLC: three processes, one of them  *)
(* with the binary of the previous release, and three versions of which the   *)
(* second may run twice.                                                      *)
EXTENDS Migration

CONSTANTS p1, p2, p3

OneIsOlder == [p \in Procs |-> IF p = p1 THEN N - 1 ELSE N]
=============================================================================
