----------------------------- MODULE MCBooking -----------------------------
(* Instances of Booking.  Week-end dates keep certification, which has     *)
(* runs of its own, out of the state space where it plays no part.         *)
EXTENDS Booking, TLC

CONSTANTS w1, w2, b1, b2, u1, u2, d1, d2, m1, s1, s2, visitor, site, home, none

MCSymmetry ==
    Permutations({w1, w2}) \cup Permutations({b1, b2})
        \cup Permutations({s1, s2})
(* The two statuses are alike when neither is on-site at first.            *)
RaceSymmetry == MCSymmetry \cup Permutations({site, home})
MCRoles == [a \in Actors |-> {"activity_viewer"}]
NoLeads == {}
OneMonth == [d \in Dates |-> m1]
NothingBlocked == [u \in Users |-> {}]
=============================================================================
