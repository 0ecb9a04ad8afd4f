----------------------- MODULE MCHistoricalAcquisition -----------------------
(* Three requests and two consumers.  The bars that answer one request do  *)
(* not validate for another, while an empty answer does.                   *)
EXTENDS HistoricalAcquisition

MCRequests == 1..3
MCDependencies == {"quick", "deep"}
MCMinimum == [d \in MCDependencies |-> IF d = "quick" THEN 1 ELSE 2]
MCIdRank == [r \in MCRequests |-> r]
MCLimit == [r \in MCRequests |-> IF r = 3 THEN 2 ELSE 1]
=============================================================================
