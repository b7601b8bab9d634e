--------------------------- MODULE MCChangeImport ---------------------------
(***************************************************************************)
(* Four deployments, numbered 9 to 12, three of them at the same instant,  *)
(* of two commits.  As text 9 comes last of them: of those of one instant  *)
(* the query answers 10 first, which is neither the least nor the greatest *)
(* number.  Two imports of different services over overlapping windows and *)
(* one of the deployments alone, with pages that hold three.               *)
(***************************************************************************)
EXTENDS ChangeImport

Numbers == 9 .. 12
Instants == [d \in Numbers |-> IF d = 12 THEN 4 ELSE 2]
Installs == [d \in Numbers |-> IF d \in {9, 11} THEN 1 ELSE 2]
Texts == [d \in Numbers |-> IF d = 9 THEN 13 ELSE d]
Pushes == [c \in Shas |-> <<1, 3>>[c]]

CONSTANTS i1, i2, i3, checkout, cart

Requests ==
    (i1 :> [service |-> checkout, since |-> 2, until |-> 4,
            commits |-> TRUE, deployments |-> TRUE])
    @@ (i2 :> [service |-> cart, since |-> 3, until |-> 4,
               commits |-> TRUE, deployments |-> TRUE])
    @@ (i3 :> [service |-> checkout, since |-> 0, until |-> 2,
               commits |-> FALSE, deployments |-> TRUE])
=============================================================================
