--------------------------- MODULE MCFoundryRuns ---------------------------
(* FoundryRuns for TLC: the ranking of the papers and the replicas' clocks. *)
EXTENDS FoundryRuns, TLC

CONSTANTS d1, d2

(* d1 is the better paper. *)
Ranking == [d \in Docs |-> IF d = d1 THEN 2 ELSE 1]

(* Every replica is configured with the same hour: midnight. *)
SameHour == [w \in Workers |-> 0]

Replicas == Permutations(Workers)

(* A daily run that was started and a manual run that was requested end.    *)
RunsEnd == DailyRunsEnd /\ ManualRunsEnd
=============================================================================
