--------------------------- MODULE MCReportMonths ---------------------------
(* Instances of ProjectsReport over the ends of months of unlike lengths.  *)
EXTENDS ProjectsReport

(* Five months: the third has the 28 days of February, the fifth has 30.   *)
LengthsOfMonths == [m \in 0..4 |-> IF m = 2 THEN 28 ELSE IF m = 4 THEN 30 ELSE 31]
=============================================================================
