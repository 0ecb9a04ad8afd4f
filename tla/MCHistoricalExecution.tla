------------------------ MODULE MCHistoricalExecution ------------------------
(* A small instance: three requests whose identities sort 1, 2, 3, and two *)
(* consumers, one content with a single observation and one asking for two. *)
EXTENDS HistoricalExecution

MCRequests == 1..3
MCDependencies == {"quick", "deep"}
MCMinimum == [d \in MCDependencies |-> IF d = "quick" THEN 1 ELSE 2]
MCIdRank == [r \in MCRequests |-> r]
=============================================================================
