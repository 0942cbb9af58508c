------------------------------ MODULE Booking ------------------------------
(***************************************************************************)
(* Desk reservations (internal/handlers/floorplan.go over internal/db)     *)
(* beside the calendar, whose edits cancel them.  Reservations live in     *)
(* another database than presences, so nothing spans a reservation's       *)
(* on-site lookup, its two counts and its insert, nor an edit's write and  *)
(* its cancellation: each is a step, interleaved with everyone else's.     *)
(***************************************************************************)
EXTENDS Calendar, Naturals

CONSTANTS Bookers,            \* reservation requests in flight at once
          Seats,
          Guests,             \* guest names, up to letter case and blanks
          BookedHalves,       \* values of "half" that reservations carry (a bound)
          OnSiteStatuses,     \* statuses first configured as on-site
          MaxBookings         \* bound on the reservations ever made

ASSUME BookingAssumption ==
    /\ ~DisableFloorplans
    /\ "self" \notin Guests
    /\ BookedHalves \subseteq HalfArg
    /\ OnSiteStatuses \subseteq Statuses
    /\ MaxBookings \in Nat

VARIABLES
    reservations, \* seat_reservations
    nextId,       \* its AUTOINCREMENT id
    onSite,       \* the statuses whose on_site flag is set
    cleanup,      \* what each calendar worker still has to cancel
    stage,        \* where each reservation request is
    order         \* what it asks, and the date it is at

bookingVars == <<reservations, nextId, onSite, cleanup, stage, order>>
systemVars == <<calendarVars, bookingVars>>

Ids == 1 .. MaxBookings

(* A reservation is for its user, or for one of the user's guests.         *)
Sitter == {"self"} \cup Guests

(* rivals, uncounted and overtaken are history: the reservations of the    *)
(* same date inserted between this one's seat count and its insert; which  *)
(* of its counts failed where they would have refused it; and whether the  *)
(* user's presence of the date changed between the on-site lookup and the  *)
(* insert, the on-site flag it rests on changed since the lookup, or a     *)
(* cancellation due of it failed or was lost to a restart.                 *)
Reservation == [id : Ids, seat : Seats, user : Users, date : Dates, half : Half,
                sitter : Sitter, rivals : SUBSET Ids,
                uncounted : SUBSET {"seat", "sitter"}, overtaken : BOOLEAN]

NoOrder == [todo |-> {}]

Order == [user : Users, seat : Seats, half : Half, sitter : Sitter,
          todo : SUBSET Dates, date : Dates, rivals : SUBSET Ids,
          uncounted : SUBSET {"seat", "sitter"}, overtaken : BOOLEAN]

NoCleanup == [todo |-> {}, dates |-> {}]

BookingTypeOK ==
    /\ TypeOK
    /\ reservations \subseteq Reservation
    /\ nextId \in 1 .. MaxBookings + 1
    /\ onSite \subseteq Statuses
    /\ cleanup \in [Workers -> [todo : SUBSET Dates, dates : SUBSET Dates]]
    /\ stage \in [Bookers -> {"idle", "site", "seat", "sitter", "insert"}]
    /\ order \in [Bookers -> Order \cup {NoOrder}]
    /\ \A b \in Bookers : stage[b] # "idle" => order[b] \in Order

BookingInit ==
    /\ CalendarInit
    /\ reservations = {}
    /\ nextId = 1
    /\ onSite = OnSiteStatuses
    /\ cleanup = [w \in Workers |-> NoCleanup]
    /\ stage = [b \in Bookers |-> "idle"]
    /\ order = [b \in Bookers |-> NoOrder]

(* GetUserOnSiteStatus: some half of the day, whichever is to be booked.   *)
OnSiteOn(u, d) == \E h \in Half : presence[u][d][h] \in onSite

-----------------------------------------------------------------------------
(* Reserving.                                                              *)

(* The half is stored as the request carries it.                           *)
AcceptRawHalf(b, u, dates, s, h, g) ==
    /\ stage[b] = "idle"
    /\ nextId \in Ids
    /\ stage' = [stage EXCEPT ![b] = "site"]
    /\ order' = [order EXCEPT ![b] =
          [user |-> u, seat |-> s, half |-> h, sitter |-> g, todo |-> dates,
           date |-> CHOOSE d \in dates : TRUE, rivals |-> {}, uncounted |-> {},
           overtaken |-> FALSE]]

(* The common start of both handlers: an omitted half is the full day.     *)
Accept(b, u, dates, s, h, g) ==
    /\ stage[b] = "idle"
    /\ nextId \in Ids
    /\ stage' = [stage EXCEPT ![b] = "site"]
    /\ order' = [order EXCEPT ![b] =
          [user |-> u, seat |-> s, half |-> FullByDefault(h), sitter |-> g, todo |-> dates,
           date |-> CHOOSE d \in dates : TRUE, rivals |-> {}, uncounted |-> {},
           overtaken |-> FALSE]]

(* POST /api/reservations: for oneself, one date.                          *)
ReserveSeat(b) ==
    /\ \E u \in Users, d \in Dates, s \in Seats, h \in BookedHalves, g \in Sitter :
         Accept(b, u, {d}, s, h, g)
    /\ UNCHANGED <<calendarVars, reservations, nextId, onSite, cleanup>>

(* POST /api/reservations/bulk: several dates, perhaps for someone else.   *)
BulkReserveSeats(b) ==
    /\ \E a \in Actors, u \in Users, dates \in (SUBSET Dates) \ {{}},
          s \in Seats, h \in BookedHalves, g \in Sitter :
         /\ CanEditPresenceFor(a, u)
         /\ Accept(b, u, dates, s, h, g)
    /\ UNCHANGED <<calendarVars, reservations, nextId, onSite, cleanup>>

Advance(b, to) == stage' = [stage EXCEPT ![b] = to]

(* The date is reserved or given up: on to the next one, or answer.        *)
LeaveDate(b) ==
    IF order[b].todo = {}
    THEN /\ Advance(b, "idle")
         /\ order' = [order EXCEPT ![b] = NoOrder]
    ELSE /\ Advance(b, "site")
         /\ UNCHANGED order

(* A failed lookup counts as off-site.                                     *)
OnSiteLookup(b) ==
    /\ stage[b] = "site"
    /\ \E d \in order[b].todo :
         LET left == order[b].todo \ {d}
         IN  \/ /\ OnSiteOn(order[b].user, d)
                /\ Advance(b, "seat")
                /\ order' = [order EXCEPT ![b].todo = left, ![b].date = d,
                                          ![b].overtaken = FALSE]
             \/ /\ ~OnSiteOn(order[b].user, d) \/ Faults
                /\ Advance(b, IF left = {} THEN "idle" ELSE "site")
                /\ order' = [order EXCEPT ![b] = IF left = {} THEN NoOrder
                                                 ELSE [@ EXCEPT !.todo = left]]
    /\ UNCHANGED <<calendarVars, reservations, nextId, onSite, cleanup>>

Taken(o) ==
    \E r \in reservations :
        r.seat = o.seat /\ r.date = o.date /\ HalfOverlaps(r.half, o.half)

Seated(o) ==
    \E r \in reservations : /\ r.user = o.user /\ r.sitter = o.sitter
                            /\ r.date = o.date /\ HalfOverlaps(r.half, o.half)

(* Only a reservation of the very same half makes the seat taken: what the *)
(* unique index alone would refuse.                                        *)
SeatCountSameHalf(b) ==
    /\ stage[b] = "seat"
    /\ \/ /\ \E r \in reservations : /\ r.seat = order[b].seat /\ r.date = order[b].date
                                     /\ r.half = order[b].half
          /\ LeaveDate(b)
       \/ /\ \A r \in reservations : \/ r.seat # order[b].seat \/ r.date # order[b].date
                                     \/ r.half # order[b].half
          /\ Advance(b, "sitter")
          /\ order' = [order EXCEPT ![b].rivals = {}, ![b].uncounted = {}]
    /\ UNCHANGED <<calendarVars, reservations, nextId, onSite, cleanup>>

(* The first count of DB.ReserveSeat; its error is dropped, leaving 0.     *)
SeatCount(b) ==
    /\ stage[b] = "seat"
    /\ \/ /\ Taken(order[b])
          /\ LeaveDate(b)
       \/ /\ ~Taken(order[b]) \/ Faults
          /\ Advance(b, "sitter")
          /\ order' = [order EXCEPT ![b].rivals = {},
                          ![b].uncounted = IF Taken(order[b]) THEN {"seat"} ELSE {}]
    /\ UNCHANGED <<calendarVars, reservations, nextId, onSite, cleanup>>

(* The second count, for the user or for the guest; likewise.              *)
SitterCount(b) ==
    /\ stage[b] = "sitter"
    /\ \/ /\ Seated(order[b])
          /\ LeaveDate(b)
       \/ /\ ~Seated(order[b]) \/ Faults
          /\ Advance(b, "insert")
          /\ order' = [order EXCEPT ![b].uncounted =
                          IF Seated(order[b]) THEN @ \cup {"sitter"} ELSE @]
    /\ UNCHANGED <<calendarVars, reservations, nextId, onSite, cleanup>>

(* UNIQUE(seat_id, date, half)                                             *)
Duplicate(o) ==
    \E r \in reservations : r.seat = o.seat /\ r.date = o.date /\ r.half = o.half

NewReservation(o) ==
    [id |-> nextId, seat |-> o.seat, user |-> o.user, date |-> o.date, half |-> o.half,
     sitter |-> o.sitter, rivals |-> o.rivals, uncounted |-> o.uncounted,
     overtaken |-> o.overtaken]

(* The INSERT; the other requests' counts of the date miss it (history).   *)
InsertReservation(b) ==
    /\ stage[b] = "insert"
    /\ nextId \in Ids
    /\ ~Duplicate(order[b])
    /\ reservations' = reservations \cup {NewReservation(order[b])}
    /\ nextId' = nextId + 1
    /\ Advance(b, IF order[b].todo = {} THEN "idle" ELSE "site")
    /\ order' = [c \in Bookers |->
          IF c = b
          THEN IF order[b].todo = {} THEN NoOrder ELSE order[b]
          ELSE IF stage[c] \in {"sitter", "insert"} /\ order[c].date = order[b].date
          THEN [order[c] EXCEPT !.rivals = @ \cup {nextId}]
          ELSE order[c]]
    /\ UNCHANGED <<calendarVars, onSite, cleanup>>

(* The unique index, an error or the bound refuses it.                     *)
InsertFails(b) ==
    /\ stage[b] = "insert"
    /\ Duplicate(order[b]) \/ Faults \/ nextId \notin Ids
    /\ LeaveDate(b)
    /\ UNCHANGED <<calendarVars, reservations, nextId, onSite, cleanup>>

-----------------------------------------------------------------------------
(* Cancelling.                                                             *)

(* A cancellation that did not take place is remembered (history).         *)
Spared(rs) == {IF r \in rs THEN [r EXCEPT !.overtaken = TRUE] ELSE r : r \in reservations}

(* The reservations of u on some dates: all, the user's own or the guests'.*)
ReservationsOf(u, dates, type) ==
    {r \in reservations : /\ r.user = u /\ r.date \in dates
                          /\ type = "self" => r.sitter = "self"
                          /\ type = "guest" => r.sitter # "self"}

(* DELETE /api/reservations/{id}: one's own reservation.                   *)
CancelReservation(r) ==
    /\ r \in reservations
    /\ reservations' = reservations \ {r}
    /\ UNCHANGED <<calendarVars, nextId, onSite, cleanup, stage, order>>

(* DELETE /api/reservations/bulk.                                          *)
CancelReservationsByDates(a, u, dates, type) ==
    /\ CanEditPresenceFor(a, u)
    /\ reservations' = reservations \ ReservationsOf(u, dates, type)
    /\ UNCHANGED <<calendarVars, nextId, onSite, cleanup, stage, order>>

-----------------------------------------------------------------------------
(* What the calendar's edits do to reservations.                           *)

(* b has looked up u's presence of one of the dates and not inserted yet.  *)
PastLookup(b, u, dates) ==
    /\ stage[b] \in {"seat", "sitter", "insert"}
    /\ order[b].user = u /\ order[b].date \in dates

(* The write itself: a set is to cancel all its dates, a clear those that  *)
(* a scan finds off-site.                                                  *)
EditPresences(w) ==
    /\ Write(w)
    /\ cleanup' = [cleanup EXCEPT ![w] =
          IF req[w].op = "set" THEN [todo |-> {}, dates |-> req[w].dates]
                               ELSE [todo |-> req[w].dates, dates |-> {}]]
    /\ order' = [b \in Bookers |->
          IF PastLookup(b, req[w].user, req[w].dates)
          THEN [order[b] EXCEPT !.overtaken = TRUE] ELSE order[b]]
    /\ UNCHANGED <<reservations, nextId, onSite, stage>>

ScanTo(w, left, found) ==
    /\ cleanup' = [cleanup EXCEPT ![w] = [todo |-> left, dates |-> found]]
    /\ IF left # {} THEN UNCHANGED <<pc, req>>
       ELSE Goto(w, IF found = {} THEN "log" ELSE "cancel")

(* Dates where the user is still on-site are the ones cancelled.           *)
ScanDateInverted(w) ==
    /\ pc[w] = "scan"
    /\ \E d \in cleanup[w].todo :
         ScanTo(w, cleanup[w].todo \ {d},
                IF OnSiteOn(req[w].user, d) THEN cleanup[w].dates \cup {d}
                                            ELSE cleanup[w].dates)
    /\ UNCHANGED <<presence, certified, lastLog, armed, dirty, early, behind, astray,
                   reservations, nextId, onSite, stage, order>>

(* ClearPresences looks every date up again; a failed lookup keeps the     *)
(* date's reservations.                                                    *)
ScanDate(w) ==
    /\ pc[w] = "scan"
    /\ \E d \in cleanup[w].todo :
         LET left == cleanup[w].todo \ {d}
         IN  \/ /\ ~OnSiteOn(req[w].user, d)
                /\ ScanTo(w, left, cleanup[w].dates \cup {d})
                /\ UNCHANGED reservations
             \/ /\ OnSiteOn(req[w].user, d) \/ Faults
                /\ ScanTo(w, left, cleanup[w].dates)
                /\ reservations' = IF OnSiteOn(req[w].user, d) THEN reservations
                                   ELSE Spared(ReservationsOf(req[w].user, {d}, "all"))
    /\ UNCHANGED <<presence, certified, lastLog, armed, dirty, early, behind, astray,
                   nextId, onSite, stage, order>>

(* A failed cancellation ends the request instead of being logged.         *)
CancelOnDatesOrAnswer(w) ==
    /\ pc[w] = "cancel"
    /\ cleanup' = [cleanup EXCEPT ![w] = NoCleanup]
    /\ \/ /\ reservations' =
                reservations \ ReservationsOf(req[w].user, cleanup[w].dates, "all")
          /\ Goto(w, "log")
       \/ Faults /\ Answer(w) /\ UNCHANGED reservations
    /\ UNCHANGED <<presence, certified, lastLog, armed, dirty, early, behind, astray,
                   nextId, onSite, stage, order>>

(* CancelUserReservationsForDates, guests' reservations included; on an    *)
(* error the handlers log a warning and go on.                             *)
CancelOnDates(w) ==
    /\ pc[w] = "cancel"
    /\ \/ reservations' =
             reservations \ ReservationsOf(req[w].user, cleanup[w].dates, "all")
       \/ /\ Faults
          /\ reservations' = Spared(ReservationsOf(req[w].user, cleanup[w].dates, "all"))
    /\ cleanup' = [cleanup EXCEPT ![w] = NoCleanup]
    /\ Goto(w, "log")
    /\ UNCHANGED <<presence, certified, lastLog, armed, dirty, early, behind, astray,
                   nextId, onSite, stage, order>>

(* DB.UpdateStatus turns the on-site flag of a status on or off and leaves *)
(* the reservations alone.                                                 *)
UpdateStatus(s) ==
    /\ onSite' = (onSite \ {s}) \cup ({s} \ onSite)
    /\ LET Rests(u, d) == \E h \in Half : presence[u][d][h] = s
       IN  /\ reservations' = {IF Rests(r.user, r.date)
                               THEN [r EXCEPT !.overtaken = TRUE] ELSE r : r \in reservations}
           /\ order' = [b \in Bookers |->
                 IF \E u \in Users, d \in Dates : PastLookup(b, u, {d}) /\ Rests(u, d)
                 THEN [order[b] EXCEPT !.overtaken = TRUE] ELSE order[b]]
    /\ UNCHANGED <<calendarVars, nextId, cleanup, stage>>

(* An edit is about to cancel what u has booked on d.                      *)
CleanupPending(u, d) ==
    \E w \in Workers : /\ pc[w] \in {"scan", "cancel"} /\ req[w].user = u
                       /\ d \in cleanup[w].todo \cup cleanup[w].dates

RestartAll ==
    /\ Restart
    /\ cleanup' = [w \in Workers |-> NoCleanup]
    /\ stage' = [b \in Bookers |-> "idle"]
    /\ order' = [b \in Bookers |-> NoOrder]
    /\ reservations' = Spared({r \in reservations : CleanupPending(r.user, r.date)})
    /\ UNCHANGED <<nextId, onSite>>

-----------------------------------------------------------------------------

BookerStep(b) ==
    \/ OnSiteLookup(b) \/ SeatCount(b) \/ SitterCount(b)
    \/ InsertReservation(b) \/ InsertFails(b)

BookingNext ==
    \/ RequestNext /\ UNCHANGED bookingVars
    \/ \E w \in Workers : EditPresences(w) \/ ScanDate(w) \/ CancelOnDates(w)
    \/ \E b \in Bookers : ReserveSeat(b) \/ BulkReserveSeats(b) \/ BookerStep(b)
    \/ \E r \in reservations : CancelReservation(r)
    \/ \E a \in Actors, u \in Users, dates \in SUBSET Dates, type \in {"all", "self", "guest"} :
          CancelReservationsByDates(a, u, dates, type)
    \/ \E s \in Statuses : UpdateStatus(s)
    \/ RestartAll

BookingSpec == BookingInit /\ [][BookingNext]_systemVars

-----------------------------------------------------------------------------
(* Properties.                                                             *)

SameSeat(i, j) == i.seat = j.seat
SameSitter(i, j) == i.user = j.user /\ i.sitter = j.sitter

(* Two reservations of one desk, or for one person, overlap only when the  *)
(* later was past its seat count before the earlier was inserted, or when  *)
(* the very count that would have refused it failed; the unique index does *)
(* not see a full day against a half, nor another seat.                    *)
OverlapsWereConcurrent ==
    \A i, j \in reservations :
        i.id < j.id /\ i.date = j.date /\ HalfOverlaps(i.half, j.half) =>
            /\ SameSeat(i, j) => i.id \in j.rivals \/ "seat" \in j.uncounted
            /\ SameSitter(i, j) => i.id \in j.rivals \/ "sitter" \in j.uncounted

(* The reservations of someone who is not on-site that day are about to be *)
(* cancelled by the edit that took the presence away, unless the presence  *)
(* changed between the reservation's lookup and insert, a status lost its  *)
(* on-site flag, or that cancellation failed or was lost to a restart.     *)
OffSiteWasOvertaken ==
    \A r \in reservations :
        OnSiteOn(r.user, r.date) \/ r.overtaken \/ CleanupPending(r.user, r.date)

(* With the floor plan's steps added, the calendar still behaves as the    *)
(* calendar module says, whose theorems therefore hold of the whole.       *)
ImplementsCalendar == CalendarSpec
=============================================================================
