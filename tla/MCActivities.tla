---------------------------- MODULE MCActivities ----------------------------
(* Instances of ProjectActivities.                                         *)
EXTENDS ProjectActivities, TLC

CONSTANTS w1, u1, d1, d2, m1

OneMonth == [d \in Dates |-> m1]
=============================================================================
