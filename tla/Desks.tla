-------------------------------- MODULE Desks --------------------------------
(***************************************************************************)
(* The desks of the floor plans and what the pages show of them            *)
(* (internal/handlers/floorplan.go over internal/db): the plan of a day    *)
(* (FloorplanPage, SeatsAPI), the picker over several days                 *)
(* (ListSeatsWithStatusForDatesAPI) and the marks of the calendar, each    *)
(* computed by code of its own from the rows that DB.ReserveSeat counts.   *)
(* A reservation is one step here; its races are those of Booking.         *)
(*                                                                         *)
(* Foreign keys hold on the one pooled connection that ran the PRAGMA, so  *)
(* a statement may find them enforced or not.                              *)
(***************************************************************************)
EXTENDS Naturals, FiniteSets, Halves

CONSTANTS Plans, Desks, Sitters,   \* floor plans, seats, and users who reserve
          DeskDates,
          Visitors,                \* names of guests
          MaxDeskRows              \* reservations held at a time (a bound)

Unmade == "unmade"
Deleted == "deleted"

ASSUME DesksAssumption ==
    /\ "self" \notin Visitors /\ MaxDeskRows \in Nat
    /\ Unmade \notin Plans /\ Deleted \notin Plans

VARIABLES
    planRow,     \* floorplans: not created yet, there, or deleted
    seatPlan,    \* floorplan_id of each row of seats; Unmade without a row
    taken,       \* rows of seat_reservations
    unenforced   \* history: desks that a statement without foreign keys orphaned

deskVars == <<planRow, seatPlan, taken, unenforced>>

TakenRow == [desk : Desks, user : Sitters, date : DeskDates, half : Half,
             guest : Visitors \cup {"self"}]

DesksTypeOK ==
    /\ planRow \in [Plans -> {Unmade, "there", Deleted}]
    /\ seatPlan \in [Desks -> Plans \cup {Unmade, Deleted}]
    /\ taken \subseteq TakenRow
    /\ unenforced \subseteq Desks

DesksInit ==
    /\ planRow = [p \in Plans |-> Unmade]
    /\ seatPlan = [s \in Desks |-> Unmade]
    /\ taken = {} /\ unenforced = {}

-----------------------------------------------------------------------------
(* Administration.                                                         *)

CreatePlan(p) ==
    /\ planRow[p] = Unmade
    /\ planRow' = [planRow EXCEPT ![p] = "there"]
    /\ UNCHANGED <<seatPlan, taken, unenforced>>

(* The id of a plan that is gone is refused where foreign keys hold.       *)
CreateSeat(s, p) ==
    /\ seatPlan[s] = Unmade /\ planRow[p] # Unmade
    /\ seatPlan' = [seatPlan EXCEPT ![s] = p]
    /\ unenforced' = IF planRow[p] = "there" THEN unenforced ELSE unenforced \cup {s}
    /\ UNCHANGED <<planRow, taken>>

(* Label and place only, by UpdateSeat or RenameSeat.                      *)
UpdateSeat(s) == seatPlan[s] # Unmade /\ UNCHANGED deskVars

RowsOf(ss) == {r \in taken : r.desk \in ss}

DeleteSeat(s) ==
    /\ seatPlan[s] \in Plans
    /\ seatPlan' = [seatPlan EXCEPT ![s] = Deleted]
    /\ \/ taken' = taken \ RowsOf({s}) /\ UNCHANGED unenforced
       \/ unenforced' = unenforced \cup {s} /\ UNCHANGED taken
    /\ UNCHANGED planRow

(* ON DELETE CASCADE from the plan to its seats and their reservations.    *)
DeletePlan(p) ==
    /\ planRow[p] = "there"
    /\ planRow' = [planRow EXCEPT ![p] = Deleted]
    /\ LET ss == {s \in Desks : seatPlan[s] = p}
       IN  \/ /\ seatPlan' = [s \in Desks |-> IF s \in ss THEN Deleted ELSE seatPlan[s]]
              /\ taken' = taken \ RowsOf(ss) /\ UNCHANGED unenforced
           \/ unenforced' = unenforced \cup ss /\ UNCHANGED <<seatPlan, taken>>

-----------------------------------------------------------------------------
(* Reserving and cancelling.                                               *)

(* The two counts of DB.ReserveSeat.                                       *)
SeatTaken(s, d, half) ==
    \E r \in taken : r.desk = s /\ r.date = d /\ HalfOverlaps(r.half, half)

AlreadySeated(u, d, half, g) ==
    \E r \in taken : /\ r.user = u /\ r.guest = g
                     /\ r.date = d /\ HalfOverlaps(r.half, half)

(* A seat that the sender's page still shows may be gone.                  *)
Reserve(u, s, d, half, g) ==
    /\ seatPlan[s] # Unmade
    /\ Cardinality(taken) < MaxDeskRows
    /\ ~SeatTaken(s, d, half) /\ ~AlreadySeated(u, d, half, g)
    /\ taken' = taken \cup {[desk |-> s, user |-> u, date |-> d, half |-> half, guest |-> g]}
    /\ unenforced' = IF seatPlan[s] \in Plans THEN unenforced ELSE unenforced \cup {s}
    /\ UNCHANGED <<planRow, seatPlan>>

CancelOne(r) ==
    /\ r \in taken
    /\ taken' = taken \ {r}
    /\ UNCHANGED <<planRow, seatPlan, unenforced>>

-----------------------------------------------------------------------------
(* What the pages show.                                                    *)

SeatsOfPlan(p) == {s \in Desks : seatPlan[s] = p}

ListedPlans == {p \in Plans : planRow[p] = "there"}

(* The rows of a seat that conflict with the half on one of the dates.     *)
Conflicting(s, dates, half) ==
    {r \in taken : r.desk = s /\ r.date \in dates /\ HalfOverlaps(r.half, half)}

NoName == "nobody"
NoRow == [desk |-> Unmade]

GuestNames(rs) == {r.guest : r \in rs} \ {"self"}

(* The name is the last guest's of rows that come in no stated order.      *)
AnyName(rs) == IF GuestNames(rs) = {} THEN {NoName} ELSE GuestNames(rs)

(* A seat shown: its status, the row that a click cancels, a name.         *)
SeatShown(status, row, name) == [status |-> status, row |-> row, name |-> name]

Free == SeatShown("free", NoRow, NoName)

Mine(r) == IF r.guest = "self" THEN SeatShown("mine", r, NoName)
                               ELSE SeatShown("mine_guest", r, r.guest)

(* What GetSeatsWithStatus may show u of a seat: one's own reservation     *)
(* before anybody else's, and of several the last one read.                *)
SeatStatus(s, u, d, half) ==
    LET rs == Conflicting(s, {d}, half)
        own == {r \in rs : r.user = u}
    IN  IF own # {} THEN {Mine(r) : r \in own}
        ELSE IF rs = {} THEN {Free}
        ELSE {SeatShown("taken", NoRow, name) : name \in AnyName(rs)}

(* buildSeatResults: a reservation for oneself before one for a guest,     *)
(* whose name may be that of another user's guest on another date, and no  *)
(* reservation to cancel.                                                  *)
SeatResult(rs, u) ==
    LET own == {r \in rs : r.user = u}
    IN  IF "self" \in {r.guest : r \in own} THEN {SeatShown("mine", NoRow, NoName)}
        ELSE IF own # {} THEN {SeatShown("mine_guest", NoRow, name) : name \in AnyName(rs)}
        ELSE IF rs = {} THEN {Free}
        ELSE {SeatShown("taken", NoRow, name) : name \in AnyName(rs)}

(* A reservation of a half is not seen by who asks for the day.            *)
SeatStatusForSameHalf(s, u, dates, half) ==
    SeatResult({r \in Conflicting(s, dates, half) : r.half = half}, u)

(* GetSeatsWithStatusForDates.                                             *)
SeatStatusForDates(s, u, dates, half) == SeatResult(Conflicting(s, dates, half), u)

(* The calendar's marks: GetUserReservationDates, the same for a team, and *)
(* GetUserReservationDetails with the guests.                              *)
ReservationDates(u) == {r.date : r \in {x \in taken : x.user = u /\ x.guest = "self"}}

UsersReservationDates(us) ==
    [u \in us |-> {d \in DeskDates : \E r \in taken : r.user = u /\ r.guest = "self" /\ r.date = d}]

ReservationDetails(u, d) ==
    LET rs == {r \in taken : r.user = u /\ r.date = d}
    IN  [hasSelf |-> \E r \in rs : r.guest = "self", guestNames |-> GuestNames(rs)]

(* The plan as someone off-site sees it: every seat free, none to click.   *)
FloorplanPage(p, u, d, half, isOnSite) ==
    [s \in SeatsOfPlan(p) |-> IF isOnSite THEN SeatStatus(s, u, d, half) ELSE {Free}]

(* The same when the page asks again: off-site there are no seats.         *)
SeatsAPI(p, u, d, half, isOnSite) ==
    [s \in IF isOnSite THEN SeatsOfPlan(p) ELSE {} |-> SeatStatus(s, u, d, half)]

ListSeatsWithStatusForDatesAPI(p, u, dates, half) ==
    [s \in SeatsOfPlan(p) |-> SeatStatusForDates(s, u, dates, half)]

DesksNext ==
    \/ \E p \in Plans : CreatePlan(p) \/ DeletePlan(p) \/ \E s \in Desks : CreateSeat(s, p)
    \/ \E s \in Desks : UpdateSeat(s) \/ DeleteSeat(s)
    \/ \E u \in Sitters, s \in Desks, d \in DeskDates, half \in Half, g \in Visitors \cup {"self"} :
          Reserve(u, s, d, half, g)
    \/ \E r \in taken : CancelOne(r)

DesksSpec == DesksInit /\ [][DesksNext]_deskVars

-----------------------------------------------------------------------------
(* Properties.                                                             *)

(* The picker shows a seat as free for some days when a reservation of     *)
(* them finds it free on every one, and the floor plan agrees with it on   *)
(* one day, but for which of two of one's own reservations a seat shows.   *)
PickerAgrees ==
    \A p \in Plans : \A s \in SeatsOfPlan(p) :
        \A u \in Sitters, half \in Half, dates \in (SUBSET DeskDates) \ {{}} :
            \A offered \in ListSeatsWithStatusForDatesAPI(p, u, dates, half)[s] :
                /\ offered.status = "free" <=> \A d \in dates : ~SeatTaken(s, d, half)
                /\ \A d \in dates : \A seen \in FloorplanPage(p, u, d, half, TRUE)[s] :
                      dates = {d} => \/ seen.status = offered.status
                                     \/ {seen.status, offered.status} = {"mine", "mine_guest"}

(* Whoever is refused a desk for being seated already, or finds the day    *)
(* marked in the calendar, finds the reservation on some floor plan, with  *)
(* the row to cancel, unless its desk or plan was deleted, or it was made  *)
(* after that, by a connection without foreign keys.                       *)
RefusalsAreShown ==
    \A u \in Sitters, d \in DeskDates :
        /\ d \in ReservationDates(u) <=> AlreadySeated(u, d, "full", "self")
        /\ ReservationDetails(u, d).hasSelf <=> d \in UsersReservationDates(Sitters)[u]
        /\ \A r \in taken : r.user = u /\ r.date = d /\ r.desk \notin unenforced =>
              \E p \in ListedPlans :
                  /\ r.desk \in SeatsOfPlan(p)
                  /\ \E seen \in SeatsAPI(p, u, d, r.half, TRUE)[r.desk] : seen.row = r

DesksTold == PickerAgrees /\ RefusalsAreShown
=============================================================================
