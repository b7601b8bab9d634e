---------------------------- MODULE MCRetention ----------------------------
(* Instances of Retention small enough for TLC. *)
EXTENDS Retention

\* Two signals, both expired.
TwoSignals    == 1 .. 2
TwoStamps     == <<1, 2>>

\* Three collections of one base; the last one is not expired.
ThreeCatalogs == 1 .. 3
ThreeCaptures == <<1, 2, 3>>
ThreeBases    == <<"orders", "orders", "orders">>
=============================================================================
