---------------------------- MODULE MCIngestion ----------------------------
(* Instances of Ingestion small enough for TLC. *)
EXTENDS Ingestion

\* Two batches with the same ids in a different order, one of which repeats an
\* id, one without signals, and the three that are not saved.
AllBatches == {"forth", "back", "bare", "empty", "broken", "mixed"}

AllContents ==
  [b \in AllBatches |->
     CASE b = "forth" -> <<1, 2>>
       [] b = "back"  -> <<2, 2, 1>>
       [] b = "mixed" -> <<1>>
       [] OTHER       -> <<>>]

AllVerdicts ==
  [b \in AllBatches |->
     CASE b = "empty"  -> "empty"
       [] b = "broken" -> "malformed"
       [] b = "mixed"  -> "invalid"
       [] OTHER        -> "valid"]
=============================================================================
