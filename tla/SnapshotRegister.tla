-------------------------- MODULE SnapshotRegister --------------------------
(***************************************************************************)
(* What the storage promises of diagnoses: a register for each incident,   *)
(* written whole, once, by one of the investigations of that incident, and *)
(* never changed again.                                                    *)
(***************************************************************************)
CONSTANTS Incidents, Investigations, Nobody

VARIABLE published

Init == published = [c \in Incidents |-> Nobody]

Publish(c, i) ==
    /\ published[c] = Nobody
    /\ published' = [published EXCEPT ![c] = i]

Next == \E c \in Incidents, i \in Investigations : Publish(c, i)

Spec == Init /\ [][Next]_published
=============================================================================
