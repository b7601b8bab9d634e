----------------------------- MODULE MCRanking -----------------------------
(* Instances of Ranking small enough for TLC. *)
EXTENDS Ranking

\* Two rules of one class, one of another, one that is a symptom but supports.
SevenRules ==
  [error_rate_delta |-> "error_rate_delta",
   retry_storm |-> "graph_proximity",
   trace_correlation |-> "graph_proximity",
   log_correlation |-> "log_correlation",
   version_regression |-> Support,
   schema_change_proximity |-> Support,
   deployment_proximity |-> Support]

FourClasses == {"error_rate_delta", "graph_proximity", "log_correlation", Support}

\* An error rate outweighs the graph; log_correlation is switched off.
FourWeights ==
  [c \in FourClasses |-> CASE c = "error_rate_delta" -> 5
                           [] c = "graph_proximity"  -> 2
                           [] c = Support            -> 3
                           [] OTHER                  -> 0]

\* Healthy, failing, retrying, retrying by two rules, a worse canary, failing
\* in its logs alone.
SixSymptoms ==
  {<<>>, [error_rate_delta |-> 2], [retry_storm |-> 1],
   [retry_storm |-> 2, trace_correlation |-> 2], [version_regression |-> 1],
   [log_correlation |-> 2]}

\* A deployment just before, one that happened at the edge of the window, a
\* migration with the deployment.
ThreeNearby ==
  {[schema |-> 0, commit |-> 5, deploy |-> 2],
   [schema |-> 0, commit |-> 5, deploy |-> 0],
   [schema |-> 2, commit |-> 0, deploy |-> 0]}

\* A chain from 1 to 3, the same with an unknown service, no depth at all.
SomeDepths == {[s \in 1 .. 3 |-> s], [s \in {1, 3} |-> s], <<>>}
=============================================================================
