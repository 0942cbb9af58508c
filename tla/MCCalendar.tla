----------------------------- MODULE MCCalendar -----------------------------
(* Instances of Calendar: one employee u1, an administrator, a manager.    *)
EXTENDS Calendar, TLC

CONSTANTS w1, w2, u1, u2, boss, d1, d2, d3, m1, m2, site, home, none

WorkerSymmetry == Permutations({w1, w2})
RolesOfAll == (u1 :> {"activity_viewer"}) @@ (u2 :> {"activity_viewer"}) @@ (boss :> {"global"})
MCRoles == [a \in Actors |-> RolesOfAll[a]]
NoLeads == {}
BossLeads == {<<boss, u1>>}
NothingBlocked == [u \in Users |-> {}]
HolidayD3 == [u \in Users |-> {d3}]

DatesApart == (d1 :> m1) @@ (d3 :> m2)
(* Swapping the two dates with their months leaves DatesApart as it is.    *)
SwapMonths == (d1 :> d3) @@ (d3 :> d1) @@ (m1 :> m2) @@ (m2 :> m1)
RaceSymmetry == WorkerSymmetry \cup {SwapMonths}
OneMonth == [d \in {d1, d2} |-> m1]
TwoMonths == (d1 :> m1) @@ (d2 :> m1) @@ (d3 :> m2)
=============================================================================
