------------------------------- MODULE Halves -------------------------------
(***************************************************************************)
(* The half-day algebra of presence rows and desk reservations.  A user    *)
(* and a date own at most one row per half; a day is therefore a function  *)
(* from halves to a status, NoStatus standing for "no such row".           *)
(***************************************************************************)

CONSTANT NoStatus      \* the absence of a presences row

Half == {"full", "AM", "PM"}

(* What a request may carry as "half": a half, or nothing.                 *)
HalfArg == Half \cup {"none"}

NoDay == [h \in Half |-> NoStatus]

(* Two halves of one day that cannot both be occupied by the same thing.   *)
HalfOverlaps(h, k) == h = "full" \/ k = "full" \/ h = k

(* The rows SetPresences deletes before it upserts half h.                 *)
Displaced(h) == IF h = "full" THEN {"AM", "PM"} ELSE {"full"}

(* Half rows survive a declaration of the full day.                        *)
SetDayKeepingHalves(day, h, s) == [day EXCEPT ![h] = s]

(* One iteration of the loop in DB.SetPresences.                           *)
SetDay(day, h, s) ==
    [k \in Half |-> IF k = h THEN s
                    ELSE IF k \in Displaced(h) THEN NoStatus ELSE day[k]]

(* DB.ClearPresences on one date: every row when the request names no      *)
(* half, otherwise exactly that half's row.                                *)
ClearDay(day, h) ==
    [k \in Half |-> IF h = "none" \/ k = h THEN NoStatus ELSE day[k]]

(* The same over several dates of one user's rows.                         *)
SetDays(rows, dates, h, s) ==
    [d \in DOMAIN rows |-> IF d \in dates THEN SetDay(rows[d], h, s) ELSE rows[d]]

ClearDays(rows, dates, h) ==
    [d \in DOMAIN rows |-> IF d \in dates THEN ClearDay(rows[d], h) ELSE rows[d]]

(* At least one half of the day has a status.                              *)
Declared(day) == \E h \in Half : day[h] # NoStatus

(* The full-day row and a half-day row never coexist.                      *)
ExclusiveDay(day) ==
    day["full"] # NoStatus => day["AM"] = NoStatus /\ day["PM"] = NoStatus
=============================================================================
