--------------------------- MODULE MCJobPipeline ---------------------------
(* Instances of JobPipeline for TLC. *)
EXTENDS JobPipeline, TLC

CONSTANTS j1, j2, t1, t2, c1, c2

\* j2 is urgent and was created later
MCPriority == [j \in Jobs |-> IF j = j2 THEN 30 ELSE 10]
MCCreatedAt == [j \in Jobs |-> IF j = j2 THEN 2 ELSE 1]

\* success, a handler exception, a missing handler, and a permanent failure that also asks
\* for a human review
FourOutcomes == {{}, {"retryable"}, {"critical"}, {"plain", "review"}}
FewOutcomes == {{}, {"retryable"}, {"critical"}}
TwoOutcomes == {{}, {"retryable"}}

ThreadSymmetry == Permutations({t1, t2}) \cup Permutations({c1, c2})
=============================================================================
