------------------------------- MODULE MCO365 -------------------------------
(* Instances of O365Sync.                                                  *)
EXTENDS O365Sync, TLC

CONSTANTS r1, r2, t1, t2, t3, e1, e2, e3, slot1, slot2, site, home, away, none

Mixed == {[edits |-> 3, choices |-> 0], [edits |-> 2, choices |-> 1], [edits |-> 1, choices |-> 2]}
=============================================================================
