-------------------------- MODULE MCScopeExpansion -------------------------
(* Instances of ScopeExpansion small enough for TLC. *)
EXTENDS ScopeExpansion

Row(s, t, w) == [service |-> s, trace |-> t, inside |-> w]

\* Service 2 is the entry.  Two services are one hop away, through a trace of
\* the user; two more only share traces of another routine with them.  One
\* service appears in a trace only outside the window, one hop is also open
\* by a second, later way.
FiveServices == 1 .. 5
ThreeTraces  == 1 .. 3
ChainRows    == {Row(2, 1, TRUE), Row(3, 1, TRUE), Row(1, 1, FALSE),
                 Row(3, 2, TRUE), Row(4, 2, TRUE), Row(4, 3, TRUE),
                 Row(5, 3, TRUE), Row(2, 3, TRUE), Row(1, 2, TRUE)}
SomeLists    == {{1, 3}, 1 .. 5}

\* A depth below zero, one in range, one beyond the ceiling.
SomeDepths   == {-1, 2, 4}
=============================================================================
