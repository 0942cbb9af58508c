------------------------- MODULE ReservationProofs -------------------------
(***************************************************************************)
(* Theorems about Booking, for every number of requests, seats, dates and  *)
(* guests.  Adding desk reservations leaves the calendar's behaviours what *)
(* the calendar module allows, so that its theorems hold of the whole; in  *)
(* what follows the calendar enters only through TypeOK.                   *)
(***************************************************************************)
EXTENDS Booking, CalendarProofs

-----------------------------------------------------------------------------
(* The calendar beside reservations.                                       *)

(* The scan of a clear and the cancellation are, for the calendar, the     *)
(* cleanup step it leaves open, or no step at all.                         *)
LEMMA CleanupRefines ==
    ASSUME NEW w \in Workers, ScanDate(w) \/ CancelOnDates(w)
    PROVE  CancelReservations(w) \/ UNCHANGED calendarVars
  <1>1. CASE ScanDate(w)
    <2>1. PICK left, found : ScanTo(w, left, found)
      BY <1>1 DEF ScanDate
    <2>2. QED
      BY <1>1, <2>1 DEF ScanDate, ScanTo, CancelReservations, calendarVars
  <1>2. CASE CancelOnDates(w)
    BY <1>2 DEF CancelOnDates, CancelReservations
  <1>3. QED
    BY <1>1, <1>2

(* A reservation request or a change of a status's flag is no step of the  *)
(* calendar.                                                               *)
LEMMA BookerFrame ==
    ASSUME NEW b \in Bookers, ReserveSeat(b) \/ BulkReserveSeats(b) \/ BookerStep(b)
    PROVE  UNCHANGED calendarVars
  BY DEF ReserveSeat, BulkReserveSeats, BookerStep, OnSiteLookup, SeatCount,
         SitterCount, InsertReservation, InsertFails

LEMMA NextRefines == [BookingNext]_systemVars => [CalendarNext]_calendarVars
  <1> SUFFICES ASSUME [BookingNext]_systemVars PROVE [CalendarNext]_calendarVars
    OBVIOUS
  <1>1. CASE RequestNext /\ UNCHANGED bookingVars
    BY <1>1 DEF CalendarNext
  <1>2. ASSUME NEW w \in Workers, EditPresences(w) PROVE CalendarNext
    BY <1>2 DEF EditPresences, CalendarNext
  <1>3. ASSUME NEW w \in Workers, ScanDate(w) \/ CancelOnDates(w)
        PROVE  [CalendarNext]_calendarVars
    BY <1>3, CleanupRefines DEF CalendarNext
  <1>4. ASSUME NEW b \in Bookers, ReserveSeat(b) \/ BulkReserveSeats(b) \/ BookerStep(b)
        PROVE  UNCHANGED calendarVars
    BY <1>4, BookerFrame
  <1>5. ASSUME NEW r, CancelReservation(r) PROVE UNCHANGED calendarVars
    BY <1>5 DEF CancelReservation
  <1>6. ASSUME NEW a, NEW u, NEW dates, NEW type,
               CancelReservationsByDates(a, u, dates, type)
        PROVE  UNCHANGED calendarVars
    BY <1>6 DEF CancelReservationsByDates
  <1>7. ASSUME NEW s, UpdateStatus(s) PROVE UNCHANGED calendarVars
    BY <1>7 DEF UpdateStatus
  <1>8. CASE RestartAll
    BY <1>8 DEF RestartAll, CalendarNext
  <1>9. CASE UNCHANGED systemVars
    BY <1>9 DEF systemVars
  <1>10. QED
    BY <1>1, <1>2, <1>3, <1>4, <1>5, <1>6, <1>7, <1>8, <1>9 DEF BookingNext

(* The system with desk reservations implements the calendar.              *)
THEOREM BookingRefinesCalendar == BookingSpec => ImplementsCalendar
  <1>1. BookingInit => CalendarInit
    BY DEF BookingInit
  <1>2. QED
    BY <1>1, NextRefines, PTL DEF BookingSpec, CalendarSpec, ImplementsCalendar

(* Hence a day's rows stay exclusive, a certified month changes only       *)
(* through overtaken requests and the log tells the state but where it was *)
(* lost or reordered, while desks are reserved and cancelled.              *)
THEOREM BookingKeepsCalendarSafe ==
    BookingSpec => /\ []HalvesExclusive /\ []LateWritersWereEarly /\ FrozenUnlessEarly
                   /\ []LastLogTellsState
  <1>1. BookingSpec => CalendarSpec
    BY BookingRefinesCalendar DEF ImplementsCalendar
  <1>2. QED
    BY <1>1, HalvesAlwaysExclusive, LateWritersAlwaysEarly, CertifiedFreeze, LogTellsState

-----------------------------------------------------------------------------
(* The reservations.                                                       *)

Stage == {"idle", "site", "seat", "sitter", "insert"}

Cleanup == [todo : SUBSET Dates, dates : SUBSET Dates]

(* BookingTypeOK without the calendar's part.                              *)
DeskTypes ==
    /\ reservations \subseteq Reservation
    /\ nextId \in 1 .. MaxBookings + 1
    /\ onSite \subseteq Statuses
    /\ cleanup \in [Workers -> Cleanup]
    /\ stage \in [Bookers -> Stage]
    /\ order \in [Bookers -> Order \cup {NoOrder}]
    /\ \A b \in Bookers : stage[b] # "idle" => order[b] \in Order

LEMMA DeskTypesSuffice == TypeOK /\ DeskTypes => BookingTypeOK
  BY DEF DeskTypes, BookingTypeOK, Stage, Cleanup

-----------------------------------------------------------------------------
(* The types of the reservations' variables.                               *)

LEMMA InitDeskTypes == BookingInit => DeskTypes
  BY BookingAssumption DEF BookingInit, DeskTypes, Stage, Cleanup, NoCleanup, NoOrder

(* A reservation request moves to another stage with another order.        *)
LEMMA MoveTypes ==
    ASSUME DeskTypes, NEW b \in Bookers, NEW to \in Stage, NEW o \in Order \cup {NoOrder},
           to # "idle" => o \in Order,
           stage' = [stage EXCEPT ![b] = to], order' = [order EXCEPT ![b] = o],
           UNCHANGED <<reservations, nextId, onSite, cleanup>>
    PROVE  DeskTypes'
  BY DEF DeskTypes

(* What a handler accepts is an order.                                     *)
LEMMA AcceptTypes ==
    ASSUME DeskTypes, NEW b \in Bookers, NEW u \in Users, NEW dates \in SUBSET Dates,
           dates # {}, NEW s \in Seats, NEW h \in BookedHalves, NEW g \in Sitter,
           Accept(b, u, dates, s, h, g), UNCHANGED <<reservations, nextId, onSite, cleanup>>
    PROVE  DeskTypes'
  <1> DEFINE o == [user |-> u, seat |-> s, half |-> FullByDefault(h), sitter |-> g,
                   todo |-> dates, date |-> CHOOSE d \in dates : TRUE,
                   rivals |-> {}, uncounted |-> {}, overtaken |-> FALSE]
  <1>1. FullByDefault(h) \in Half
    BY BookingAssumption DEF FullByDefault, BookingAssumption, HalfArg, Half
  <1>2. (CHOOSE d \in dates : TRUE) \in Dates
    OBVIOUS
  <1>3. o \in Order
    BY <1>1, <1>2 DEF Order
  <1>4. stage' = [stage EXCEPT ![b] = "site"] /\ order' = [order EXCEPT ![b] = o]
    BY DEF Accept
  <1> HIDE DEF o
  <1>5. QED
    BY <1>3, <1>4, MoveTypes DEF Stage

LEMMA LeaveTypes ==
    ASSUME DeskTypes, NEW b \in Bookers, stage[b] # "idle", LeaveDate(b),
           UNCHANGED <<reservations, nextId, onSite, cleanup>>
    PROVE  DeskTypes'
  BY DEF DeskTypes, LeaveDate, Advance, Stage, NoOrder

LEMMA BookerTypes ==
    ASSUME DeskTypes, NEW b \in Bookers, ReserveSeat(b) \/ BulkReserveSeats(b) \/ BookerStep(b)
    PROVE  DeskTypes'
  <1>1. CASE ReserveSeat(b)
    <2>1. PICK u \in Users, d \in Dates, s \in Seats, h \in BookedHalves, g \in Sitter :
             Accept(b, u, {d}, s, h, g)
      BY <1>1 DEF ReserveSeat
    <2>2. {d} \in SUBSET Dates /\ {d} # {}
      OBVIOUS
    <2>3. QED
      BY <1>1, <2>1, <2>2, AcceptTypes DEF ReserveSeat
  <1>2. CASE BulkReserveSeats(b)
    <2>1. PICK u \in Users, dates \in (SUBSET Dates) \ {{}}, s \in Seats,
               h \in BookedHalves, g \in Sitter : Accept(b, u, dates, s, h, g)
      BY <1>2 DEF BulkReserveSeats
    <2>2. QED
      BY <1>2, <2>1, AcceptTypes DEF BulkReserveSeats
  <1>3. CASE OnSiteLookup(b)
    <2>1. order[b] \in Order /\ stage[b] = "site"
      BY <1>3 DEF OnSiteLookup, DeskTypes
    <2>2. PICK d \in order[b].todo :
             \/ /\ Advance(b, "seat")
                /\ order' = [order EXCEPT ![b].todo = order[b].todo \ {d}, ![b].date = d,
                                          ![b].overtaken = FALSE]
             \/ /\ Advance(b, IF order[b].todo \ {d} = {} THEN "idle" ELSE "site")
                /\ order' = [order EXCEPT ![b] =
                      IF order[b].todo \ {d} = {} THEN NoOrder
                      ELSE [@ EXCEPT !.todo = order[b].todo \ {d}]]
      BY <1>3 DEF OnSiteLookup
    <2>3. d \in Dates /\ order[b].todo \ {d} \in SUBSET Dates
      BY <2>1 DEF Order
    <2>4. CASE /\ Advance(b, "seat")
               /\ order' = [order EXCEPT ![b].todo = order[b].todo \ {d}, ![b].date = d,
                                         ![b].overtaken = FALSE]
      <3> DEFINE o == [order[b] EXCEPT !.todo = order[b].todo \ {d}, !.date = d,
                                       !.overtaken = FALSE]
      <3>1. o \in Order
        BY <2>1, <2>3 DEF Order
      <3>2. order' = [order EXCEPT ![b] = o]
        BY <2>4, <2>1 DEF DeskTypes
      <3> HIDE DEF o
      <3>3. QED
        BY <1>3, <2>4, <3>1, <3>2, MoveTypes DEF OnSiteLookup, Advance, Stage
    <2>5. CASE /\ Advance(b, IF order[b].todo \ {d} = {} THEN "idle" ELSE "site")
               /\ order' = [order EXCEPT ![b] =
                     IF order[b].todo \ {d} = {} THEN NoOrder
                     ELSE [@ EXCEPT !.todo = order[b].todo \ {d}]]
      <3> DEFINE o == IF order[b].todo \ {d} = {} THEN NoOrder
                      ELSE [order[b] EXCEPT !.todo = order[b].todo \ {d}]
      <3> DEFINE to == IF order[b].todo \ {d} = {} THEN "idle" ELSE "site"
      <3>1. /\ o \in Order \cup {NoOrder} /\ to \in Stage
            /\ to # "idle" => o \in Order
        BY <2>1, <2>3 DEF Order, Stage
      <3>2. order' = [order EXCEPT ![b] = o] /\ stage' = [stage EXCEPT ![b] = to]
        BY <2>5 DEF Advance
      <3> HIDE DEF o, to
      <3>3. QED
        BY <1>3, <3>1, <3>2, MoveTypes DEF OnSiteLookup
    <2>6. QED
      BY <2>2, <2>4, <2>5
  <1>4. CASE SeatCount(b)
    <2>1. order[b] \in Order /\ stage[b] = "seat"
      BY <1>4 DEF SeatCount, DeskTypes
    <2>2. CASE LeaveDate(b)
      BY <1>4, <2>1, <2>2, LeaveTypes DEF SeatCount
    <2>3. CASE /\ Advance(b, "sitter")
               /\ order' = [order EXCEPT ![b].rivals = {},
                               ![b].uncounted = IF Taken(order[b]) THEN {"seat"} ELSE {}]
      <3> DEFINE o == [order[b] EXCEPT !.rivals = {},
                          !.uncounted = IF Taken(order[b]) THEN {"seat"} ELSE {}]
      <3>1. o \in Order
        BY <2>1 DEF Order
      <3>2. order' = [order EXCEPT ![b] = o]
        BY <2>3
      <3> HIDE DEF o
      <3>3. QED
        BY <1>4, <2>3, <3>1, <3>2, MoveTypes DEF SeatCount, Advance, Stage
    <2>4. QED
      BY <1>4, <2>2, <2>3 DEF SeatCount
  <1>5. CASE SitterCount(b)
    <2>1. order[b] \in Order /\ stage[b] = "sitter"
      BY <1>5 DEF SitterCount, DeskTypes
    <2>2. CASE LeaveDate(b)
      BY <1>5, <2>1, <2>2, LeaveTypes DEF SitterCount
    <2>3. CASE /\ Advance(b, "insert")
               /\ order' = [order EXCEPT ![b].uncounted =
                               IF Seated(order[b]) THEN @ \cup {"sitter"} ELSE @]
      <3> DEFINE o == [order[b] EXCEPT !.uncounted =
                          IF Seated(order[b]) THEN @ \cup {"sitter"} ELSE @]
      <3>1. o \in Order
        BY <2>1 DEF Order
      <3>2. order' = [order EXCEPT ![b] = o]
        BY <2>1, <2>3 DEF DeskTypes
      <3> HIDE DEF o
      <3>3. QED
        BY <1>5, <2>3, <3>1, <3>2, MoveTypes DEF SitterCount, Advance, Stage
    <2>4. QED
      BY <1>5, <2>2, <2>3 DEF SitterCount
  <1>6. CASE InsertReservation(b)
    <2>1. order[b] \in Order /\ stage[b] = "insert" /\ nextId \in Ids
      BY <1>6 DEF InsertReservation, DeskTypes
    <2>2. NewReservation(order[b]) \in Reservation
      BY <2>1 DEF NewReservation, Reservation, Order
    <2>3. nextId' \in 1 .. MaxBookings + 1
      BY <1>6, <2>1, BookingAssumption DEF InsertReservation, Ids, BookingAssumption
    <2>4. stage' \in [Bookers -> Stage]
      BY <1>6 DEF InsertReservation, Advance, DeskTypes, Stage
    <2>5. ASSUME NEW c \in Bookers
          PROVE  /\ order'[c] \in Order \cup {NoOrder}
                 /\ stage'[c] # "idle" => order'[c] \in Order
      <3>1. CASE c = b
        BY <1>6, <2>1, <3>1 DEF InsertReservation, Advance, DeskTypes
      <3>2. CASE c # b /\ stage[c] \in {"sitter", "insert"}
        <4>1. order[c] \in Order
          BY <3>2 DEF DeskTypes
        <4>2. [order[c] EXCEPT !.rivals = @ \cup {nextId}] \in Order
          BY <4>1, <2>1 DEF Order
        <4>3. order'[c] \in {order[c], [order[c] EXCEPT !.rivals = @ \cup {nextId}]}
          BY <1>6, <3>2 DEF InsertReservation
        <4>4. QED
          BY <4>1, <4>2, <4>3
      <3>3. CASE c # b /\ stage[c] \notin {"sitter", "insert"}
        BY <1>6, <3>3 DEF InsertReservation, Advance, DeskTypes
      <3>4. QED
        BY <3>1, <3>2, <3>3
    <2>6. order' \in [Bookers -> Order \cup {NoOrder}]
      <3>1. order' = [c \in Bookers |-> order'[c]]
        BY <1>6 DEF InsertReservation
      <3>2. QED
        BY <2>5, <3>1
    <2>7. QED
      BY <1>6, <2>2, <2>3, <2>4, <2>5, <2>6 DEF InsertReservation, DeskTypes
  <1>7. CASE InsertFails(b)
    BY <1>7, LeaveTypes DEF InsertFails
  <1>8. QED
    BY <1>1, <1>2, <1>3, <1>4, <1>5, <1>6, <1>7 DEF BookerStep

(* Reservations and orders are kept as they are, removed, or marked as     *)
(* overtaken; nothing else happens to them outside of their own requests.  *)
Overtakes(r, q) == r = q \/ r = [q EXCEPT !.overtaken = TRUE]

OnlyOvertaken ==
    /\ \A r \in reservations' : \E q \in reservations : Overtakes(r, q)
    /\ order' = [b \in Bookers |-> order'[b]]
    /\ \A b \in Bookers : \/ order'[b] = order[b]
                          \/ stage[b] # "idle" /\ Overtakes(order'[b], order[b])
    /\ UNCHANGED <<nextId, stage>>

LEMMA OvertakenTypes ==
    ASSUME DeskTypes, OnlyOvertaken, onSite' \subseteq Statuses, cleanup' \in [Workers -> Cleanup]
    PROVE  DeskTypes'
  <1>1. reservations' \subseteq Reservation
    BY DEF OnlyOvertaken, Overtakes, DeskTypes, Reservation
  <1>2. ASSUME NEW b \in Bookers
        PROVE  /\ order'[b] \in Order \cup {NoOrder}
               /\ stage'[b] # "idle" => order'[b] \in Order
    <2>1. CASE order'[b] = order[b]
      BY <2>1 DEF OnlyOvertaken, DeskTypes
    <2>2. CASE stage[b] # "idle" /\ Overtakes(order'[b], order[b])
      <3>1. order[b] \in Order
        BY <2>2 DEF DeskTypes
      <3>2. QED
        BY <2>2, <3>1 DEF Overtakes, Order
    <2>3. QED
      BY <2>1, <2>2 DEF OnlyOvertaken
  <1>3. order' \in [Bookers -> Order \cup {NoOrder}]
    BY <1>2 DEF OnlyOvertaken
  <1>4. QED
    BY <1>1, <1>2, <1>3 DEF OnlyOvertaken, DeskTypes

(* The edits of presences and statuses do no more to them than that.       *)
LEMMA EditOvertakes ==
    ASSUME TypeOK, DeskTypes, NEW w \in Workers, EditPresences(w)
    PROVE  OnlyOvertaken /\ UNCHANGED onSite /\ cleanup' \in [Workers -> Cleanup]
  <1>1. OnlyOvertaken
    <2>1. order' = [b \in Bookers |-> order'[b]]
      BY DEF EditPresences
    <2>2. \A b \in Bookers : \/ order'[b] = order[b]
                             \/ stage[b] # "idle" /\ Overtakes(order'[b], order[b])
      BY DEF EditPresences, Overtakes, PastLookup
    <2>3. UNCHANGED <<reservations, nextId, stage>>
      BY DEF EditPresences
    <2>4. QED
      BY <2>1, <2>2, <2>3 DEF OnlyOvertaken, Overtakes
  <1>2. pc[w] = "write"
    BY DEF EditPresences, Write, SetWrite, ClearWrite
  <1>3. req[w].dates \in SUBSET Dates
    BY <1>2 DEF TypeOK, Request
  <1>4. cleanup' \in [Workers -> Cleanup]
    BY <1>3 DEF EditPresences, DeskTypes, Cleanup
  <1>5. QED
    BY <1>1, <1>4 DEF EditPresences

(* Marking some of the reservations as spared is no more than that.        *)
LEMMA SparedOvertakes ==
    ASSUME NEW rs, reservations' = Spared(rs)
    PROVE  \A r \in reservations' : \E q \in reservations : Overtakes(r, q)
  BY DEF Spared, Overtakes

LEMMA CleanupOvertakes ==
    ASSUME DeskTypes, NEW w \in Workers, ScanDate(w) \/ CancelOnDates(w)
    PROVE  OnlyOvertaken /\ UNCHANGED onSite /\ cleanup' \in [Workers -> Cleanup]
  <1>1. cleanup[w] \in Cleanup
    BY DEF DeskTypes
  <1>2. order' = [b \in Bookers |-> order[b]]
    BY DEF DeskTypes, ScanDate, CancelOnDates
  <1>3. CASE ScanDate(w)
    <2>1. PICK d \in cleanup[w].todo, found \in SUBSET Dates :
             cleanup' = [cleanup EXCEPT ![w] = [todo |-> cleanup[w].todo \ {d}, dates |-> found]]
      BY <1>1, <1>3 DEF ScanDate, ScanTo, Cleanup
    <2>2. [todo |-> cleanup[w].todo \ {d}, dates |-> found] \in Cleanup
      BY <1>1 DEF Cleanup
    <2>3. cleanup' \in [Workers -> Cleanup]
      BY <2>1, <2>2 DEF DeskTypes
    <2>4. CASE UNCHANGED reservations
      BY <1>2, <1>3, <2>3, <2>4 DEF ScanDate, OnlyOvertaken, Overtakes
    <2>5. CASE \E rs : reservations' = Spared(rs)
      BY <1>2, <1>3, <2>3, <2>5, SparedOvertakes DEF ScanDate, OnlyOvertaken
    <2>6. UNCHANGED reservations \/ \E rs : reservations' = Spared(rs)
      BY <1>3 DEF ScanDate
    <2>7. QED
      BY <2>4, <2>5, <2>6
  <1>4. CASE CancelOnDates(w)
    <2>1. NoCleanup \in Cleanup
      BY DEF NoCleanup, Cleanup
    <2>2. cleanup' \in [Workers -> Cleanup]
      BY <1>4, <2>1 DEF CancelOnDates, DeskTypes
    <2>3. \A r \in reservations' : \E q \in reservations : Overtakes(r, q)
      <3>1. CASE reservations' \subseteq reservations
        BY <3>1 DEF Overtakes
      <3>2. CASE \E rs : reservations' = Spared(rs)
        BY <3>2, SparedOvertakes
      <3>3. QED
        BY <1>4, <3>1, <3>2 DEF CancelOnDates
    <2>4. QED
      BY <1>2, <1>4, <2>2, <2>3 DEF CancelOnDates, OnlyOvertaken
  <1>5. QED
    BY <1>3, <1>4

LEMMA StatusOvertakes ==
    ASSUME DeskTypes, NEW s \in Statuses, UpdateStatus(s)
    PROVE  OnlyOvertaken /\ onSite' \subseteq Statuses /\ UNCHANGED cleanup
  <1>1. \A r \in reservations' : \E q \in reservations : Overtakes(r, q)
    BY DEF UpdateStatus, Overtakes
  <1>2. \A b \in Bookers : \/ order'[b] = order[b]
                           \/ stage[b] # "idle" /\ Overtakes(order'[b], order[b])
    BY DEF UpdateStatus, Overtakes, PastLookup
  <1>3. order' = [b \in Bookers |-> order'[b]]
    BY DEF UpdateStatus
  <1>4. QED
    BY <1>1, <1>2, <1>3 DEF UpdateStatus, OnlyOvertaken, DeskTypes

LEMMA CancelOvertakes ==
    ASSUME DeskTypes, reservations' \subseteq reservations,
           UNCHANGED <<nextId, onSite, cleanup, stage, order>>
    PROVE  OnlyOvertaken
  <1>1. order' = [b \in Bookers |-> order[b]]
    BY DEF DeskTypes
  <1>2. QED
    BY <1>1 DEF OnlyOvertaken, Overtakes

(* The steps that leave the reservations' own variables to the others.     *)
LEMMA OtherSteps ==
    ASSUME TypeOK, DeskTypes, [BookingNext]_systemVars
    PROVE  \/ \E b \in Bookers : ReserveSeat(b) \/ BulkReserveSeats(b) \/ BookerStep(b)
           \/ RestartAll
           \/ /\ OnlyOvertaken /\ onSite' \subseteq Statuses
              /\ cleanup' \in [Workers -> Cleanup]
  <1> DEFINE Kept == /\ OnlyOvertaken /\ onSite' \subseteq Statuses
                     /\ cleanup' \in [Workers -> Cleanup]
  <1>1. onSite \subseteq Statuses /\ cleanup \in [Workers -> Cleanup]
    BY DEF DeskTypes
  <1>2. CASE UNCHANGED bookingVars
    BY <1>1, <1>2, CancelOvertakes DEF bookingVars
  <1>3. ASSUME NEW w \in Workers, EditPresences(w) PROVE Kept
    BY <1>1, <1>3, EditOvertakes
  <1>4. ASSUME NEW w \in Workers, ScanDate(w) \/ CancelOnDates(w) PROVE Kept
    BY <1>1, <1>4, CleanupOvertakes
  <1>5. ASSUME NEW r, CancelReservation(r) PROVE Kept
    BY <1>1, <1>5, CancelOvertakes DEF CancelReservation
  <1>6. ASSUME NEW a, NEW u, NEW dates, NEW type,
               CancelReservationsByDates(a, u, dates, type)
        PROVE  Kept
    BY <1>1, <1>6, CancelOvertakes DEF CancelReservationsByDates
  <1>7. ASSUME NEW s \in Statuses, UpdateStatus(s) PROVE Kept
    BY <1>1, <1>7, StatusOvertakes
  <1>8. CASE UNCHANGED systemVars
    BY <1>2, <1>8 DEF systemVars, bookingVars
  <1> HIDE DEF Kept
  <1>9. Kept => /\ OnlyOvertaken /\ onSite' \subseteq Statuses
                /\ cleanup' \in [Workers -> Cleanup]
    BY DEF Kept
  <1>10. QED
    BY <1>2, <1>3, <1>4, <1>5, <1>6, <1>7, <1>8, <1>9 DEF BookingNext

LEMMA NextDeskTypes == TypeOK /\ DeskTypes /\ [BookingNext]_systemVars => DeskTypes'
  <1> SUFFICES ASSUME TypeOK, DeskTypes, [BookingNext]_systemVars PROVE DeskTypes'
    OBVIOUS
  <1>1. CASE RestartAll
    <2>1. \A r \in reservations' : \E q \in reservations : Overtakes(r, q)
      BY <1>1, SparedOvertakes DEF RestartAll
    <2>2. reservations' \subseteq Reservation
      BY <2>1 DEF Overtakes, DeskTypes, Reservation
    <2>3. QED
      BY <1>1, <2>2 DEF RestartAll, DeskTypes, NoCleanup, Cleanup, Stage
  <1>2. QED
    BY <1>1, OtherSteps, BookerTypes, OvertakenTypes

(* The type invariant of the component, whatever fails or restarts.        *)
THEOREM BookingTypeCorrect == BookingSpec => []BookingTypeOK
  <1>1. BookingSpec => []TypeOK
    BY BookingRefinesCalendar, CalendarTypeOK DEF ImplementsCalendar
  <1>2. BookingSpec /\ []TypeOK => []DeskTypes
    BY InitDeskTypes, NextDeskTypes, PTL DEF BookingSpec
  <1>3. QED
    BY <1>1, <1>2, DeskTypesSuffice, PTL

-----------------------------------------------------------------------------
(* Who may overlap whom.                                                   *)

(* What a request for o knows of reservation r once at stage s: past the   *)
(* count of the seat, no overlapping reservation of the seat but a rival,  *)
(* unless the count failed; past the count of the sitter, none of the      *)
(* sitter either.                                                          *)
KnownTo(r, s, o) ==
    r.date = o.date /\ HalfOverlaps(r.half, o.half) =>
        /\ s \in {"sitter", "insert"} /\ SameSeat(r, o) =>
              r.id \in o.rivals \/ "seat" \in o.uncounted
        /\ s = "insert" /\ SameSitter(r, o) =>
              r.id \in o.rivals \/ "sitter" \in o.uncounted

(* What OverlapsWereConcurrent says of an earlier i overlapping j.         *)
OverlapExcused(i, j) ==
    /\ SameSeat(i, j) => i.id \in j.rivals \/ "seat" \in j.uncounted
    /\ SameSitter(i, j) => i.id \in j.rivals \/ "sitter" \in j.uncounted

RivalsInv ==
    /\ \A r \in reservations : r.id < nextId
    /\ \A b \in Bookers, r \in reservations : KnownTo(r, stage[b], order[b])
    /\ OverlapsWereConcurrent

LEMMA InitRivals == BookingInit => RivalsInv
  BY DEF BookingInit, RivalsInv, OverlapsWereConcurrent

(* Reservations stay, and each request is where it was, before its counts, *)
(* or knows of them all.                                                   *)
LEMMA RequestRivals ==
    ASSUME RivalsInv, UNCHANGED <<reservations, nextId>>,
           \A b \in Bookers :
              \/ stage'[b] = stage[b] /\ order'[b] = order[b]
              \/ stage'[b] \notin {"sitter", "insert"}
              \/ \A r \in reservations : KnownTo(r, stage'[b], order'[b])
    PROVE  RivalsInv'
  <1>1. ASSUME NEW b \in Bookers, NEW r \in reservations'
        PROVE  KnownTo(r, stage'[b], order'[b])
    BY DEF RivalsInv, KnownTo
  <1>2. QED
    BY <1>1 DEF RivalsInv, OverlapsWereConcurrent, KnownTo

(* The steps of a request before its counts pass, or when one fails.       *)
LEMMA EarlyRivals ==
    ASSUME DeskTypes, RivalsInv, NEW b \in Bookers,
           \/ ReserveSeat(b) \/ BulkReserveSeats(b) \/ OnSiteLookup(b) \/ InsertFails(b)
           \/ LeaveDate(b) /\ UNCHANGED <<reservations, nextId>>
    PROVE  RivalsInv'
  <1>1. stage'[b] \notin {"sitter", "insert"}
    BY DEF DeskTypes, ReserveSeat, BulkReserveSeats, Accept, OnSiteLookup, InsertFails,
           LeaveDate, Advance
  <1>2. \A c \in Bookers : c # b => stage'[c] = stage[c] /\ order'[c] = order[c]
    BY DEF DeskTypes, ReserveSeat, BulkReserveSeats, Accept, OnSiteLookup, InsertFails,
           LeaveDate, Advance
  <1>3. UNCHANGED <<reservations, nextId>>
    BY DEF ReserveSeat, BulkReserveSeats, OnSiteLookup, InsertFails
  <1>4. QED
    BY <1>1, <1>2, <1>3, RequestRivals

(* The seat's count passes when the seat is free, or fails and is noted.   *)
LEMMA SeatCountRivals ==
    ASSUME DeskTypes, RivalsInv, NEW b \in Bookers, SeatCount(b)
    PROVE  RivalsInv'
  <1>1. CASE LeaveDate(b)
    BY <1>1, EarlyRivals DEF SeatCount
  <1>2. CASE /\ Advance(b, "sitter")
             /\ order' = [order EXCEPT ![b].rivals = {},
                             ![b].uncounted = IF Taken(order[b]) THEN {"seat"} ELSE {}]
    <2>1. order[b] \in Order
      BY DEF SeatCount, DeskTypes
    <2>2. /\ stage'[b] = "sitter"
          /\ order'[b] = [order[b] EXCEPT !.rivals = {},
                             !.uncounted = IF Taken(order[b]) THEN {"seat"} ELSE {}]
      BY <1>2 DEF DeskTypes, Advance
    <2>3. ASSUME NEW r \in reservations PROVE KnownTo(r, stage'[b], order'[b])
      <3>1. /\ order'[b].seat = order[b].seat /\ order'[b].date = order[b].date
            /\ order'[b].half = order[b].half
            /\ Taken(order[b]) => "seat" \in order'[b].uncounted
        BY <2>1, <2>2 DEF Order
      <3>2. QED
        BY <2>2, <3>1 DEF KnownTo, Taken, SameSeat
    <2>4. \A c \in Bookers : c # b => stage'[c] = stage[c] /\ order'[c] = order[c]
      BY <1>2 DEF DeskTypes, Advance
    <2>5. QED
      BY <2>3, <2>4, RequestRivals DEF SeatCount
  <1>3. QED
    BY <1>1, <1>2 DEF SeatCount

(* And the sitter's, when the sitter has no seat, or fails and is noted.   *)
LEMMA SitterCountRivals ==
    ASSUME DeskTypes, RivalsInv, NEW b \in Bookers, SitterCount(b)
    PROVE  RivalsInv'
  <1>1. CASE LeaveDate(b)
    BY <1>1, EarlyRivals DEF SitterCount
  <1>2. CASE /\ Advance(b, "insert")
             /\ order' = [order EXCEPT ![b].uncounted =
                             IF Seated(order[b]) THEN @ \cup {"sitter"} ELSE @]
    <2>1. /\ order[b] \in Order /\ stage[b] = "sitter" /\ stage'[b] = "insert"
          /\ order'[b] = [order[b] EXCEPT !.uncounted =
                             IF Seated(order[b]) THEN @ \cup {"sitter"} ELSE @]
      BY <1>2 DEF DeskTypes, Advance, SitterCount
    <2>2. /\ order'[b].seat = order[b].seat /\ order'[b].date = order[b].date
          /\ order'[b].half = order[b].half /\ order'[b].user = order[b].user
          /\ order'[b].sitter = order[b].sitter /\ order'[b].rivals = order[b].rivals
          /\ order[b].uncounted \subseteq order'[b].uncounted
          /\ Seated(order[b]) => "sitter" \in order'[b].uncounted
      BY <2>1 DEF Order
    <2>3. ASSUME NEW r \in reservations PROVE KnownTo(r, stage'[b], order'[b])
      <3>1. KnownTo(r, stage[b], order[b])
        BY DEF RivalsInv
      <3>2. QED
        BY <2>1, <2>2, <3>1 DEF KnownTo, Seated, SameSeat, SameSitter
    <2>4. \A c \in Bookers : c # b => stage'[c] = stage[c] /\ order'[c] = order[c]
      BY <1>2 DEF DeskTypes, Advance
    <2>5. QED
      BY <2>3, <2>4, RequestRivals DEF SitterCount
  <1>3. QED
    BY <1>1, <1>2 DEF SitterCount

(* The insert makes the new reservation a rival of every other request for *)
(* the date, and takes the request's own rivals with it.                   *)
LEMMA InsertRivals ==
    ASSUME DeskTypes, RivalsInv, NEW b \in Bookers, InsertReservation(b)
    PROVE  RivalsInv'
  <1> DEFINE new == NewReservation(order[b])
  <1>1. order[b] \in Order /\ stage[b] = "insert" /\ nextId \in Nat
    BY DEF InsertReservation, DeskTypes
  <1>2. reservations' = reservations \cup {new} /\ nextId' = nextId + 1
    BY DEF InsertReservation
  <1>3. /\ new.id = nextId /\ new.rivals = order[b].rivals /\ new.date = order[b].date
        /\ new.half = order[b].half /\ new.seat = order[b].seat
        /\ new.user = order[b].user /\ new.sitter = order[b].sitter
        /\ new.uncounted = order[b].uncounted
    BY DEF NewReservation
  <1>4. \A r \in reservations : r.id \in Nat /\ r.id < nextId
    BY DEF RivalsInv, DeskTypes, Reservation, Ids
  <1> HIDE DEF new
  <1>5. \A r \in reservations' : r.id < nextId'
    BY <1>1, <1>2, <1>3, <1>4
  <1>6. ASSUME NEW c \in Bookers, NEW r \in reservations'
        PROVE  KnownTo(r, stage'[c], order'[c])
    <2>1. CASE c = b
      BY <2>1 DEF InsertReservation, Advance, DeskTypes, KnownTo
    <2>2. CASE c # b /\ stage[c] \in {"sitter", "insert"}
      <3>1. order[c] \in Order /\ stage'[c] = stage[c]
        BY <2>2 DEF DeskTypes, InsertReservation, Advance
      <3>2. CASE order[c].date = order[b].date
        <4>1. order'[c] = [order[c] EXCEPT !.rivals = @ \cup {nextId}]
          BY <2>2, <3>2 DEF InsertReservation
        <4>2. CASE r = new
          BY <1>3, <3>1, <4>1, <4>2 DEF KnownTo, Order
        <4>3. CASE r \in reservations
          <5>1. KnownTo(r, stage[c], order[c])
            BY <4>3 DEF RivalsInv
          <5>2. QED
            BY <3>1, <4>1, <5>1 DEF KnownTo, Order, SameSeat, SameSitter
        <4>4. QED
          BY <1>2, <4>2, <4>3
      <3>3. CASE order[c].date # order[b].date
        <4>1. order'[c] = order[c]
          BY <2>2, <3>3 DEF InsertReservation
        <4>2. CASE r = new
          BY <1>3, <3>3, <4>1, <4>2 DEF KnownTo
        <4>3. CASE r \in reservations
          BY <3>1, <4>1, <4>3 DEF RivalsInv
        <4>4. QED
          BY <1>2, <4>2, <4>3
      <3>4. QED
        BY <3>2, <3>3
    <2>3. CASE c # b /\ stage[c] \notin {"sitter", "insert"}
      <3>1. stage'[c] = stage[c]
        BY <2>3 DEF InsertReservation, Advance, DeskTypes
      <3>2. QED
        BY <2>3, <3>1 DEF KnownTo
    <2>4. QED
      BY <2>1, <2>2, <2>3
  <1>7. ASSUME NEW i \in reservations', NEW j \in reservations',
               i.id < j.id, i.date = j.date, HalfOverlaps(i.half, j.half)
        PROVE  OverlapExcused(i, j)
    <2>1. CASE i \in reservations /\ j \in reservations
      BY <1>7, <2>1 DEF RivalsInv, OverlapsWereConcurrent, OverlapExcused
    <2>2. CASE i = new
      BY <1>1, <1>2, <1>3, <1>4, <1>7, <2>2
    <2>3. CASE i \in reservations /\ j = new
      <3>1. KnownTo(i, stage[b], order[b])
        BY <2>3 DEF RivalsInv
      <3>2. QED
        BY <1>1, <1>3, <1>7, <2>3, <3>1 DEF KnownTo, SameSeat, SameSitter, OverlapExcused
    <2>4. QED
      BY <1>2, <2>1, <2>2, <2>3
  <1>8. OverlapsWereConcurrent'
    BY <1>7 DEF OverlapsWereConcurrent, OverlapExcused
  <1>9. QED
    BY <1>5, <1>6, <1>8 DEF RivalsInv

(* Whoever removes or marks reservations makes no overlap.                 *)
LEMMA OtherRivals == ASSUME DeskTypes, RivalsInv, OnlyOvertaken PROVE RivalsInv'
  <1>1. ASSUME NEW r \in reservations'
        PROVE  \E q \in reservations :
                 /\ r.id = q.id /\ r.seat = q.seat /\ r.user = q.user /\ r.date = q.date
                 /\ r.half = q.half /\ r.sitter = q.sitter /\ r.rivals = q.rivals
                 /\ r.uncounted = q.uncounted
    BY DEF OnlyOvertaken, Overtakes, DeskTypes, Reservation
  <1>2. ASSUME NEW b \in Bookers, stage[b] # "idle"
        PROVE  /\ order'[b].date = order[b].date /\ order'[b].half = order[b].half
               /\ order'[b].seat = order[b].seat /\ order'[b].user = order[b].user
               /\ order'[b].sitter = order[b].sitter /\ order'[b].rivals = order[b].rivals
               /\ order'[b].uncounted = order[b].uncounted
    BY <1>2 DEF OnlyOvertaken, Overtakes, DeskTypes, Order
  <1>3. \A r \in reservations' : r.id < nextId'
    BY <1>1 DEF RivalsInv, OnlyOvertaken
  <1>4. ASSUME NEW b \in Bookers, NEW r \in reservations'
        PROVE  KnownTo(r, stage'[b], order'[b])
    <2>1. PICK q \in reservations :
            /\ r.id = q.id /\ r.seat = q.seat /\ r.user = q.user /\ r.date = q.date
            /\ r.half = q.half /\ r.sitter = q.sitter
      BY <1>1
    <2>2. KnownTo(q, stage[b], order[b])
      BY DEF RivalsInv
    <2>3. stage'[b] = stage[b]
      BY DEF OnlyOvertaken
    <2>4. QED
      BY <1>2, <2>1, <2>2, <2>3 DEF KnownTo, SameSeat, SameSitter
  <1>5. OverlapsWereConcurrent'
    <2> SUFFICES ASSUME NEW i \in reservations', NEW j \in reservations',
                        i.id < j.id, i.date = j.date, HalfOverlaps(i.half, j.half)
                 PROVE  OverlapExcused(i, j)
      BY DEF OverlapsWereConcurrent, OverlapExcused
    <2>1. PICK p \in reservations :
            /\ i.id = p.id /\ i.seat = p.seat /\ i.user = p.user /\ i.date = p.date
            /\ i.half = p.half /\ i.sitter = p.sitter
      BY <1>1
    <2>2. PICK q \in reservations :
            /\ j.id = q.id /\ j.seat = q.seat /\ j.user = q.user /\ j.date = q.date
            /\ j.half = q.half /\ j.sitter = q.sitter /\ j.rivals = q.rivals
            /\ j.uncounted = q.uncounted
      BY <1>1
    <2>3. QED
      BY <2>1, <2>2 DEF RivalsInv, OverlapsWereConcurrent, OverlapExcused, SameSeat, SameSitter
  <1>6. QED
    BY <1>3, <1>4, <1>5 DEF RivalsInv

(* A restart forgets every request; what is booked stays, marked or not.   *)
LEMMA RestartRivals ==
    ASSUME DeskTypes, RivalsInv, UNCHANGED nextId,
           \A b \in Bookers : stage'[b] = "idle",
           \A r \in reservations' : \E q \in reservations : Overtakes(r, q)
    PROVE  RivalsInv'
  <1>1. ASSUME NEW r \in reservations'
        PROVE  \E q \in reservations :
                 /\ r.id = q.id /\ r.seat = q.seat /\ r.user = q.user /\ r.date = q.date
                 /\ r.half = q.half /\ r.sitter = q.sitter /\ r.rivals = q.rivals
                 /\ r.uncounted = q.uncounted
    BY DEF Overtakes, DeskTypes, Reservation
  <1>2. \A r \in reservations' : r.id < nextId'
    BY <1>1 DEF RivalsInv
  <1>3. \A b \in Bookers, r \in reservations' : KnownTo(r, stage'[b], order'[b])
    BY DEF KnownTo
  <1>4. OverlapsWereConcurrent'
    <2> SUFFICES ASSUME NEW i \in reservations', NEW j \in reservations',
                        i.id < j.id, i.date = j.date, HalfOverlaps(i.half, j.half)
                 PROVE  OverlapExcused(i, j)
      BY DEF OverlapsWereConcurrent, OverlapExcused
    <2>1. PICK p \in reservations :
            /\ i.id = p.id /\ i.seat = p.seat /\ i.user = p.user /\ i.date = p.date
            /\ i.half = p.half /\ i.sitter = p.sitter
      BY <1>1
    <2>2. PICK q \in reservations :
            /\ j.id = q.id /\ j.seat = q.seat /\ j.user = q.user /\ j.date = q.date
            /\ j.half = q.half /\ j.sitter = q.sitter /\ j.rivals = q.rivals
            /\ j.uncounted = q.uncounted
      BY <1>1
    <2>3. QED
      BY <2>1, <2>2 DEF RivalsInv, OverlapsWereConcurrent, OverlapExcused, SameSeat, SameSitter
  <1>5. QED
    BY <1>2, <1>3, <1>4 DEF RivalsInv

LEMMA NextRivals ==
    TypeOK /\ DeskTypes /\ RivalsInv /\ [BookingNext]_systemVars => RivalsInv'
  <1> SUFFICES ASSUME TypeOK, DeskTypes, RivalsInv, [BookingNext]_systemVars
               PROVE  RivalsInv'
    OBVIOUS
  <1>1. ASSUME NEW b \in Bookers, ReserveSeat(b) \/ BulkReserveSeats(b) \/ BookerStep(b)
        PROVE  RivalsInv'
    BY <1>1, EarlyRivals, SeatCountRivals, SitterCountRivals, InsertRivals DEF BookerStep
  <1>2. CASE RestartAll
    <2>1. \A b \in Bookers : stage'[b] = "idle"
      BY <1>2 DEF RestartAll
    <2>2. \A r \in reservations' : \E q \in reservations : Overtakes(r, q)
      BY <1>2, SparedOvertakes DEF RestartAll
    <2>3. QED
      BY <1>2, <2>1, <2>2, RestartRivals DEF RestartAll
  <1>3. QED
    BY <1>1, <1>2, OtherSteps, OtherRivals

(* Two reservations of a desk or of a person overlap only when both were   *)
(* asked for at once, or when the count that looks for the first of them   *)
(* failed: neither cancellations nor edits nor restarts open another way.  *)
THEOREM OverlapsAlwaysConcurrent == BookingSpec => []OverlapsWereConcurrent
  <1>1. BookingSpec => []TypeOK
    BY BookingRefinesCalendar, CalendarTypeOK DEF ImplementsCalendar
  <1>2. BookingSpec /\ []TypeOK => []DeskTypes
    BY InitDeskTypes, NextDeskTypes, PTL DEF BookingSpec
  <1>3. BookingSpec /\ []TypeOK /\ []DeskTypes => []RivalsInv
    BY InitRivals, NextRivals, PTL DEF BookingSpec
  <1>4. RivalsInv => OverlapsWereConcurrent
    BY DEF RivalsInv
  <1>5. QED
    BY <1>1, <1>2, <1>3, <1>4, PTL

-----------------------------------------------------------------------------
(* Who is seated off-site.                                                 *)

PastSite(b) == stage[b] \in {"seat", "sitter", "insert"}

(* OffSiteWasOvertaken needs as much of a request past its lookup, whose   *)
(* reservation it will be, and that no scan is left once the cancellation  *)
(* is due.                                                                 *)
SeatedOnSite ==
    /\ OffSiteWasOvertaken
    /\ \A b \in Bookers :
          PastSite(b) => OnSiteOn(order[b].user, order[b].date) \/ order[b].overtaken
    /\ \A w \in Workers : pc[w] = "cancel" => cleanup[w].todo = {}

LEMMA InitSeated == BookingInit => SeatedOnSite
  BY DEF BookingInit, CalendarInit, SeatedOnSite, OffSiteWasOvertaken, PastSite

(* The presences, the flags and the cleanups stay.                         *)
SiteFrame == UNCHANGED <<presence, onSite, pc, req, cleanup>>

LEMMA SiteFrameKeeps ==
    ASSUME SiteFrame
    PROVE  /\ \A u, d : (OnSiteOn(u, d)' <=> OnSiteOn(u, d))
           /\ \A u, d : (CleanupPending(u, d)' <=> CleanupPending(u, d))
  BY DEF SiteFrame, OnSiteOn, CleanupPending

(* A request moves: before or out of its lookup, or as it was.             *)
LEMMA BookerSeated ==
    ASSUME TypeOK, DeskTypes, SeatedOnSite, NEW b \in Bookers,
           ReserveSeat(b) \/ BulkReserveSeats(b) \/ BookerStep(b)
    PROVE  SeatedOnSite'
  <1>1. SiteFrame
    BY BookerFrame DEF calendarVars, SiteFrame, ReserveSeat, BulkReserveSeats, BookerStep,
           OnSiteLookup, SeatCount, SitterCount, InsertReservation, InsertFails
  <1>2. \A w \in Workers : pc'[w] = "cancel" => cleanup'[w].todo = {}
    BY <1>1 DEF SiteFrame, SeatedOnSite
  <1>3. ASSUME reservations' = reservations,
               \A c \in Bookers : c # b => stage'[c] = stage[c] /\ order'[c] = order[c],
               PastSite(b)' => OnSiteOn(order'[b].user, order'[b].date) \/ order'[b].overtaken
        PROVE  SeatedOnSite'
    <2>1. OffSiteWasOvertaken'
      BY <1>1, <1>3, SiteFrameKeeps DEF SeatedOnSite, OffSiteWasOvertaken
    <2>2. ASSUME NEW c \in Bookers, PastSite(c)'
          PROVE  OnSiteOn(order'[c].user, order'[c].date) \/ order'[c].overtaken
      BY <1>3, <2>2 DEF SeatedOnSite, PastSite
    <2>3. \A c \in Bookers : OnSiteOn(order'[c].user, order'[c].date)
             => OnSiteOn(order[c].user, order[c].date)'
      BY <1>1, SiteFrameKeeps DEF OnSiteOn, SiteFrame
    <2>4. QED
      BY <1>2, <2>1, <2>2, <2>3 DEF SeatedOnSite
  <1>4. CASE ReserveSeat(b) \/ BulkReserveSeats(b)
    <2>1. /\ reservations' = reservations /\ ~PastSite(b)'
          /\ \A c \in Bookers : c # b => stage'[c] = stage[c] /\ order'[c] = order[c]
      BY <1>4 DEF ReserveSeat, BulkReserveSeats, Accept, PastSite, DeskTypes
    <2>2. QED
      BY <1>3, <2>1
  <1>5. CASE InsertFails(b) \/ (LeaveDate(b) /\ UNCHANGED reservations)
    <2>1. /\ reservations' = reservations /\ ~PastSite(b)'
          /\ \A c \in Bookers : c # b => stage'[c] = stage[c] /\ order'[c] = order[c]
      BY <1>5 DEF InsertFails, LeaveDate, Advance, PastSite, DeskTypes
    <2>2. QED
      BY <1>3, <2>1
  <1>6. CASE OnSiteLookup(b)
    <2>1. order[b] \in Order /\ stage[b] = "site"
      BY <1>6 DEF OnSiteLookup, DeskTypes
    <2>2. /\ reservations' = reservations
          /\ \A c \in Bookers : c # b => stage'[c] = stage[c] /\ order'[c] = order[c]
      BY <1>6 DEF OnSiteLookup, Advance, DeskTypes
    <2>3. \/ ~PastSite(b)'
          \/ OnSiteOn(order'[b].user, order'[b].date)
      <3>1. PICK d \in order[b].todo :
               \/ /\ OnSiteOn(order[b].user, d)
                  /\ order' = [order EXCEPT ![b].todo = order[b].todo \ {d}, ![b].date = d,
                                            ![b].overtaken = FALSE]
               \/ Advance(b, IF order[b].todo \ {d} = {} THEN "idle" ELSE "site")
        BY <1>6 DEF OnSiteLookup
      <3>2. CASE /\ OnSiteOn(order[b].user, d)
                 /\ order' = [order EXCEPT ![b].todo = order[b].todo \ {d}, ![b].date = d,
                                           ![b].overtaken = FALSE]
        <4>1. order'[b].user = order[b].user /\ order'[b].date = d
          BY <2>1, <3>2 DEF Order, DeskTypes
        <4>2. QED
          BY <3>2, <4>1
      <3>3. CASE Advance(b, IF order[b].todo \ {d} = {} THEN "idle" ELSE "site")
        BY <3>3 DEF Advance, PastSite, DeskTypes
      <3>4. QED
        BY <3>1, <3>2, <3>3
    <2>4. QED
      BY <1>3, <2>2, <2>3
  <1>7. CASE SeatCount(b) \/ SitterCount(b)
    <2>1. CASE LeaveDate(b)
      BY <1>5, <1>7, <2>1 DEF SeatCount, SitterCount
    <2>2. CASE ~LeaveDate(b)
      <3>1. order[b] \in Order /\ PastSite(b)
        BY <1>7 DEF SeatCount, SitterCount, DeskTypes, PastSite
      <3>2. /\ reservations' = reservations
            /\ \A c \in Bookers : c # b => stage'[c] = stage[c] /\ order'[c] = order[c]
        BY <1>7, <2>2 DEF SeatCount, SitterCount, Advance, DeskTypes
      <3>3. \/ order' = [order EXCEPT ![b].rivals = {},
                            ![b].uncounted = IF Taken(order[b]) THEN {"seat"} ELSE {}]
            \/ order' = [order EXCEPT ![b].uncounted =
                            IF Seated(order[b]) THEN @ \cup {"sitter"} ELSE @]
        BY <1>7, <2>2 DEF SeatCount, SitterCount
      <3>4. /\ order'[b].user = order[b].user /\ order'[b].date = order[b].date
            /\ order'[b].overtaken = order[b].overtaken
        BY <3>1, <3>3 DEF Order, DeskTypes
      <3>5. OnSiteOn(order'[b].user, order'[b].date) \/ order'[b].overtaken
        BY <3>1, <3>4 DEF SeatedOnSite
      <3>6. QED
        BY <1>3, <3>2, <3>5
    <2>3. QED
      BY <2>1, <2>2
  <1>8. CASE InsertReservation(b)
    <2> DEFINE new == NewReservation(order[b])
    <2>1. /\ reservations' = reservations \cup {new} /\ PastSite(b)
          /\ new.user = order[b].user /\ new.date = order[b].date
          /\ new.overtaken = order[b].overtaken
      BY <1>8 DEF InsertReservation, NewReservation, PastSite
    <2>2. OnSiteOn(new.user, new.date) \/ new.overtaken
      BY <2>1 DEF SeatedOnSite
    <2> HIDE DEF new
    <2>3. OffSiteWasOvertaken'
      BY <1>1, <2>1, <2>2, SiteFrameKeeps DEF SeatedOnSite, OffSiteWasOvertaken
    <2>4. ASSUME NEW c \in Bookers, PastSite(c)'
          PROVE  (OnSiteOn(order[c].user, order[c].date) \/ order[c].overtaken)'
      <3>1. c # b /\ PastSite(c) /\ order[c] \in Order
        BY <1>8, <2>4 DEF InsertReservation, Advance, PastSite, DeskTypes
      <3>2. order'[c] \in {order[c], [order[c] EXCEPT !.rivals = @ \cup {nextId}]}
        BY <1>8, <3>1 DEF InsertReservation
      <3>3. /\ order'[c].user = order[c].user /\ order'[c].date = order[c].date
            /\ order'[c].overtaken = order[c].overtaken
        BY <3>1, <3>2 DEF Order
      <3>4. OnSiteOn(order[c].user, order[c].date) \/ order[c].overtaken
        BY <3>1 DEF SeatedOnSite
      <3>5. QED
        BY <1>1, <3>3, <3>4 DEF OnSiteOn, SiteFrame
    <2>5. QED
      BY <1>2, <2>3, <2>4 DEF SeatedOnSite
  <1>9. QED
    BY <1>4, <1>5, <1>6, <1>7, <1>8 DEF BookerStep

(* The edit marks every request past its lookup of one of its days, and is *)
(* to cancel what is booked on them.                                       *)
LEMMA EditSeated ==
    ASSUME TypeOK, DeskTypes, SeatedOnSite, NEW w \in Workers, EditPresences(w)
    PROVE  SeatedOnSite'
  <1> DEFINE x == req[w].user
  <1> DEFINE dates == req[w].dates
  <1>1. /\ pc[w] = "write" /\ req' = req /\ pc'[w] \in {"cancel", "scan"}
        /\ pc'[w] = "cancel" <=> req[w].op = "set"
        /\ \A v \in Workers : v # w => pc'[v] = pc[v]
    BY BookingAssumption
    DEF EditPresences, Write, SetWrite, ClearWrite, Goto, TypeOK, BookingAssumption
  <1>2. /\ cleanup'[w] = IF req[w].op = "set" THEN [todo |-> {}, dates |-> dates]
                         ELSE [todo |-> dates, dates |-> {}]
        /\ \A v \in Workers : v # w => cleanup'[v] = cleanup[v]
    BY DEF EditPresences, DeskTypes
  <1>3. \A u, d : u = x /\ d \in dates => CleanupPending(u, d)'
    BY <1>1, <1>2 DEF CleanupPending
  <1>4. \A u, d : CleanupPending(u, d) => CleanupPending(u, d)'
    BY <1>1, <1>2 DEF CleanupPending
  <1>5. req[w] \in Request
    BY <1>1 DEF TypeOK
  <1>6. \A u \in Users, d \in Dates : u # x \/ d \notin dates => presence'[u][d] = presence[u][d]
    <2>1. x \in Users /\ presence \in [Users -> [Dates -> Day]]
      BY <1>5 DEF Request, TypeOK, Day, StatusValue
    <2>2. \E rows : /\ presence' = [presence EXCEPT ![x] = rows]
                    /\ \A d \in Dates : d \notin dates => rows[d] = presence[x][d]
      BY <2>1 DEF EditPresences, Write, SetWrite, ClearWrite, SetDays, ClearDays
    <2>3. QED
      BY <2>1, <2>2
  <1>7. onSite' = onSite /\ reservations' = reservations /\ stage' = stage
    BY DEF EditPresences
  <1>8. \A u \in Users, d \in Dates : u # x \/ d \notin dates => (OnSiteOn(u, d)' <=> OnSiteOn(u, d))
    BY <1>6, <1>7 DEF OnSiteOn
  <1>9. OffSiteWasOvertaken'
    <2> SUFFICES ASSUME NEW r \in reservations
                 PROVE  OnSiteOn(r.user, r.date)' \/ r.overtaken \/ CleanupPending(r.user, r.date)'
      BY <1>7 DEF OffSiteWasOvertaken
    <2>1. r.user \in Users /\ r.date \in Dates
      BY DEF DeskTypes, Reservation
    <2>2. OnSiteOn(r.user, r.date) \/ r.overtaken \/ CleanupPending(r.user, r.date)
      BY DEF SeatedOnSite, OffSiteWasOvertaken
    <2>3. CASE r.user = x /\ r.date \in dates
      BY <1>3, <2>3
    <2>4. CASE ~(r.user = x /\ r.date \in dates)
      <3>1. OnSiteOn(r.user, r.date)' <=> OnSiteOn(r.user, r.date)
        BY <1>8, <2>1, <2>4
      <3>2. CleanupPending(r.user, r.date) => CleanupPending(r.user, r.date)'
        BY <1>4
      <3>3. QED
        BY <2>2, <3>1, <3>2
    <2>5. QED
      BY <2>3, <2>4
  <1>10. ASSUME NEW b \in Bookers, PastSite(b)'
         PROVE  (OnSiteOn(order[b].user, order[b].date) \/ order[b].overtaken)'
    <2>1. PastSite(b) /\ order[b] \in Order
      BY <1>7, <1>10 DEF PastSite, DeskTypes
    <2>2. CASE PastLookup(b, x, dates)
      <3>1. order'[b] = [order[b] EXCEPT !.overtaken = TRUE]
        BY <2>2 DEF EditPresences
      <3>2. QED
        BY <2>1, <3>1 DEF Order
    <2>3. CASE ~PastLookup(b, x, dates)
      <3>1. order'[b] = order[b] /\ (order[b].user # x \/ order[b].date \notin dates)
        BY <2>1, <2>3 DEF EditPresences, PastLookup, PastSite
      <3>2. order[b].user \in Users /\ order[b].date \in Dates
        BY <2>1 DEF Order
      <3>3. OnSiteOn(order[b].user, order[b].date)
               <=> \E h \in Half : presence'[order[b].user][order[b].date][h] \in onSite'
        BY <1>8, <3>1, <3>2 DEF OnSiteOn
      <3>4. QED
        BY <2>1, <3>1, <3>3 DEF SeatedOnSite, OnSiteOn
    <2>4. QED
      BY <2>2, <2>3
  <1>11. \A v \in Workers : pc'[v] = "cancel" => cleanup'[v].todo = {}
    BY <1>1, <1>2 DEF SeatedOnSite
  <1>12. QED
    BY <1>9, <1>10, <1>11 DEF SeatedOnSite

(* Presences, flags and requests stay: what remains to be seen is that no  *)
(* reservation of someone off-site escapes its cancellation.               *)
LEMMA CleanupKeeps ==
    ASSUME DeskTypes, SeatedOnSite, UNCHANGED <<presence, onSite, stage, order>>,
           \A w \in Workers : pc'[w] = "cancel" => cleanup'[w].todo = {},
           \A r \in reservations' :
              r.overtaken \/ (r \in reservations
                 /\ (CleanupPending(r.user, r.date) =>
                        OnSiteOn(r.user, r.date) \/ CleanupPending(r.user, r.date)'))
    PROVE  SeatedOnSite'
  <1>1. \A u, d : OnSiteOn(u, d)' <=> OnSiteOn(u, d)
    BY DEF OnSiteOn
  <1>2. OffSiteWasOvertaken'
    BY <1>1 DEF SeatedOnSite, OffSiteWasOvertaken
  <1>3. ASSUME NEW b \in Bookers, PastSite(b)'
        PROVE  (OnSiteOn(order[b].user, order[b].date) \/ order[b].overtaken)'
    BY <1>3 DEF SeatedOnSite, PastSite, OnSiteOn
  <1>4. QED
    BY <1>2, <1>3 DEF SeatedOnSite

LEMMA SparedMarks ==
    ASSUME DeskTypes, NEW rs, NEW r \in Spared(rs)
    PROVE  r.overtaken \/ (r \in reservations /\ r \notin rs)
  BY DEF Spared, DeskTypes, Reservation

LEMMA CleanupSeated ==
    ASSUME TypeOK, DeskTypes, SeatedOnSite, NEW w \in Workers, ScanDate(w) \/ CancelOnDates(w)
    PROVE  SeatedOnSite'
  <1>1. cleanup[w] \in Cleanup /\ UNCHANGED <<presence, onSite, stage, order, req>>
    BY DEF DeskTypes, ScanDate, ScanTo, CancelOnDates, Goto
  <1>2. CASE ScanDate(w)
    <2>1. PICK d \in cleanup[w].todo :
             \/ /\ ~OnSiteOn(req[w].user, d)
                /\ ScanTo(w, cleanup[w].todo \ {d}, cleanup[w].dates \cup {d})
                /\ UNCHANGED reservations
             \/ /\ ScanTo(w, cleanup[w].todo \ {d}, cleanup[w].dates)
                /\ reservations' = IF OnSiteOn(req[w].user, d) THEN reservations
                                   ELSE Spared(ReservationsOf(req[w].user, {d}, "all"))
      BY <1>2 DEF ScanDate
    <2> DEFINE left == cleanup[w].todo \ {d}
    <2>2. PICK found \in {cleanup[w].dates, cleanup[w].dates \cup {d}} : ScanTo(w, left, found)
      BY <2>1
    <2>3. /\ cleanup' = [cleanup EXCEPT ![w] = [todo |-> left, dates |-> found]]
          /\ pc[w] = "scan"
          /\ \A v \in Workers : v # w => pc'[v] = pc[v]
          /\ left # {} => pc'[w] = "scan"
          /\ left = {} => pc'[w] = IF found = {} THEN "log" ELSE "cancel"
      BY <1>2, <2>2 DEF ScanDate, ScanTo, Goto, TypeOK
    <2>4. /\ cleanup'[w].todo = left /\ cleanup'[w].dates = found
          /\ \A v \in Workers : v # w => cleanup'[v] = cleanup[v]
      BY <2>3 DEF DeskTypes
    <2>5. \A v \in Workers : pc'[v] = "cancel" => cleanup'[v].todo = {}
      BY <2>3, <2>4 DEF SeatedOnSite
    <2>6. \A u, e : /\ CleanupPending(u, e) /\ ~CleanupPending(u, e)' => u = req[w].user /\ e = d
                    /\ d \in found => (CleanupPending(u, e) => CleanupPending(u, e)')
      BY <1>1, <2>1, <2>3, <2>4 DEF CleanupPending
    <2>7. ASSUME NEW r \in reservations'
          PROVE  r.overtaken \/ (r \in reservations
                    /\ (CleanupPending(r.user, r.date) =>
                           OnSiteOn(r.user, r.date) \/ CleanupPending(r.user, r.date)'))
      <3>1. CASE OnSiteOn(req[w].user, d)
        BY <2>1, <2>6, <3>1
      <3>2. CASE ~OnSiteOn(req[w].user, d) /\ UNCHANGED reservations
                 /\ ScanTo(w, left, cleanup[w].dates \cup {d})
        <4>1. cleanup'[w] = [todo |-> left, dates |-> cleanup[w].dates \cup {d}]
          BY <3>2 DEF ScanTo, DeskTypes
        <4>2. d \in found
          BY <2>4, <4>1
        <4>3. QED
          BY <2>6, <3>2, <4>2
      <3>3. CASE reservations' = Spared(ReservationsOf(req[w].user, {d}, "all"))
        <4>1. r.overtaken \/ (r \in reservations /\ r \notin ReservationsOf(req[w].user, {d}, "all"))
          BY <3>3, SparedMarks
        <4>2. QED
          BY <2>6, <4>1 DEF ReservationsOf
      <3>4. QED
        BY <2>1, <3>1, <3>2, <3>3
    <2>8. QED
      BY <1>1, <2>5, <2>7, CleanupKeeps
  <1>3. CASE CancelOnDates(w)
    <2>1. /\ pc[w] = "cancel" /\ cleanup[w].todo = {}
          /\ \A v \in Workers : v # w => pc'[v] = pc[v] /\ cleanup'[v] = cleanup[v]
          /\ pc'[w] = "log"
      BY <1>3 DEF CancelOnDates, Goto, SeatedOnSite, DeskTypes, TypeOK
    <2>2. \A v \in Workers : pc'[v] = "cancel" => cleanup'[v].todo = {}
      BY <2>1 DEF SeatedOnSite
    <2>3. \A u, e : CleanupPending(u, e) /\ ~CleanupPending(u, e)'
             => u = req[w].user /\ e \in cleanup[w].dates
      BY <1>1, <2>1 DEF CleanupPending
    <2>4. ASSUME NEW r \in reservations'
          PROVE  r.overtaken
                 \/ (r \in reservations /\ r \notin ReservationsOf(req[w].user, cleanup[w].dates, "all"))
      <3>1. CASE reservations' = reservations \ ReservationsOf(req[w].user, cleanup[w].dates, "all")
        BY <3>1
      <3>2. CASE reservations' = Spared(ReservationsOf(req[w].user, cleanup[w].dates, "all"))
        BY <3>2, SparedMarks
      <3>3. QED
        BY <1>3, <3>1, <3>2 DEF CancelOnDates
    <2>5. ASSUME NEW r \in reservations'
          PROVE  r.overtaken \/ (r \in reservations
                    /\ (CleanupPending(r.user, r.date) =>
                           OnSiteOn(r.user, r.date) \/ CleanupPending(r.user, r.date)'))
      BY <2>3, <2>4 DEF ReservationsOf
    <2>6. QED
      BY <1>1, <2>2, <2>5, CleanupKeeps
  <1>4. QED
    BY <1>2, <1>3

(* No other step of a calendar request starts, ends or moves a cleanup.    *)
LEMMA RequestLeavesCleanups ==
    ASSUME TypeOK, RequestNext
    PROVE  /\ presence' = presence
           /\ \A w \in Workers : pc'[w] = "cancel" => pc[w] = "cancel"
           /\ \A w \in Workers : pc[w] \in {"scan", "cancel"}
                 => pc'[w] = pc[w] /\ req'[w] = req[w]
  <1> DEFINE Left == /\ presence' = presence
                     /\ \A w \in Workers : pc'[w] = "cancel" => pc[w] = "cancel"
                     /\ \A w \in Workers : pc[w] \in {"scan", "cancel"}
                           => pc'[w] = pc[w] /\ req'[w] = req[w]
  <1>1. ASSUME NEW w \in Workers, NEW to \in {"check", "write", "trigger", "idle"},
               pc[w] \notin {"scan", "cancel"}, presence' = presence,
               pc' = [pc EXCEPT ![w] = to], \E r : req' \in {req, [req EXCEPT ![w] = r]}
        PROVE  Left
    BY <1>1 DEF TypeOK
  <1> HIDE DEF Left
  <1>2. ASSUME NEW w \in Workers, SetPresences(w) \/ ClearPresences(w) \/ CertifyMonth(w)
        PROVE  Left
    BY <1>1, <1>2 DEF SetPresences, ClearPresences, CertifyMonth, Begin
  <1>3. ASSUME NEW w \in Workers, CheckMonth(w) PROVE Left
    <2>1. PICK m \in req[w].todo :
             \/ Answer(w)
             \/ /\ req' = [req EXCEPT ![w] = [req[w] EXCEPT !.todo = req[w].todo \ {m}]]
                /\ pc' = [pc EXCEPT ![w] = IF req[w].todo = {m} THEN "write" ELSE "check"]
      BY <1>3 DEF CheckMonth, TypeOK
    <2>2. pc[w] = "check" /\ presence' = presence
      BY <1>3 DEF CheckMonth
    <2>3. QED
      BY <1>1, <2>1, <2>2 DEF Answer
  <1>4. ASSUME NEW w \in Workers, CertifyInsert(w) \/ StatementFails(w) \/ Trigger(w)
        PROVE  Left
    BY <1>1, <1>4 DEF CertifyInsert, StatementFails, Trigger, Answer
  <1>5. ASSUME NEW w \in Workers, LogPresenceAction(w) \/ TailFails(w) PROVE Left
    BY <1>1, <1>5 DEF LogPresenceAction, TailFails, AfterLog, Answer, Goto
  <1>6. ASSUME UNCHANGED <<presence, pc, req>> PROVE Left
    BY <1>6 DEF Left
  <1>7. Left
    BY <1>2, <1>3, <1>4, <1>5, <1>6 DEF RequestNext, Step, DecertifyMonth, TimerFires
  <1>8. QED
    BY <1>7 DEF Left

(* A status's flag marks whatever rests on it.                             *)
LEMMA StatusSeated ==
    ASSUME DeskTypes, SeatedOnSite, NEW s \in Statuses, UpdateStatus(s)
    PROVE  SeatedOnSite'
  <1> DEFINE Rests(u, d) == \E h \in Half : presence[u][d][h] = s
  <1>1. /\ presence' = presence /\ UNCHANGED <<pc, req, cleanup, stage>>
        /\ onSite' = (onSite \ {s}) \cup ({s} \ onSite)
    BY DEF UpdateStatus, calendarVars
  <1>2. \A u, d : ~Rests(u, d) => (OnSiteOn(u, d) => OnSiteOn(u, d)')
    BY <1>1 DEF OnSiteOn
  <1>3. \A u, d : CleanupPending(u, d)' <=> CleanupPending(u, d)
    BY <1>1 DEF CleanupPending
  <1>4. ASSUME NEW r \in reservations'
        PROVE  OnSiteOn(r.user, r.date)' \/ r.overtaken \/ CleanupPending(r.user, r.date)'
    <2>1. PICK q \in reservations :
             r = IF Rests(q.user, q.date) THEN [q EXCEPT !.overtaken = TRUE] ELSE q
      BY <1>4 DEF UpdateStatus
    <2>2. q \in Reservation
      BY DEF DeskTypes
    <2>3. CASE Rests(q.user, q.date)
      <3>1. r.overtaken
        BY <2>1, <2>2, <2>3 DEF Reservation
      <3>2. QED
        BY <3>1
    <2>4. CASE ~Rests(q.user, q.date)
      <3>1. r = q
        BY <2>1, <2>4
      <3>2. OnSiteOn(q.user, q.date) \/ q.overtaken \/ CleanupPending(q.user, q.date)
        BY DEF SeatedOnSite, OffSiteWasOvertaken
      <3>3. OnSiteOn(q.user, q.date) => OnSiteOn(q.user, q.date)'
        BY <1>2, <2>4
      <3>4. CleanupPending(q.user, q.date) => CleanupPending(q.user, q.date)'
        BY <1>3
      <3>5. OnSiteOn(q.user, q.date)' \/ q.overtaken \/ CleanupPending(q.user, q.date)'
        BY <3>2, <3>3, <3>4
      <3>6. QED
        BY <3>1, <3>5
    <2>5. QED
      BY <2>3, <2>4
  <1>5. ASSUME NEW b \in Bookers, PastSite(b)'
        PROVE  (OnSiteOn(order[b].user, order[b].date) \/ order[b].overtaken)'
    <2>1. PastSite(b) /\ order[b] \in Order
      BY <1>1, <1>5 DEF PastSite, DeskTypes
    <2>2. order[b].user \in Users /\ order[b].date \in Dates
      BY <2>1 DEF Order
    <2>3. CASE Rests(order[b].user, order[b].date)
      <3>1. \E u \in Users, d \in Dates : PastLookup(b, u, {d}) /\ Rests(u, d)
        BY <2>1, <2>2, <2>3 DEF PastLookup, PastSite
      <3>2. order'[b] = [order[b] EXCEPT !.overtaken = TRUE]
        BY <3>1 DEF UpdateStatus
      <3>3. QED
        BY <2>1, <3>2 DEF Order
    <2>4. CASE ~Rests(order[b].user, order[b].date)
      <3>1. ~\E u \in Users, d \in Dates : PastLookup(b, u, {d}) /\ Rests(u, d)
        BY <2>4 DEF PastLookup
      <3>2. order'[b] = order[b]
        BY <3>1 DEF UpdateStatus
      <3>3. QED
        BY <1>1, <2>1, <2>4, <3>2 DEF SeatedOnSite, OnSiteOn
    <2>5. QED
      BY <2>3, <2>4
  <1>6. \A w \in Workers : pc'[w] = "cancel" => cleanup'[w].todo = {}
    BY <1>1 DEF SeatedOnSite
  <1>7. QED
    BY <1>4, <1>5, <1>6 DEF SeatedOnSite, OffSiteWasOvertaken

LEMMA NextSeated == TypeOK /\ DeskTypes /\ SeatedOnSite /\ [BookingNext]_systemVars => SeatedOnSite'
  <1> SUFFICES ASSUME TypeOK, DeskTypes, SeatedOnSite, [BookingNext]_systemVars
               PROVE  SeatedOnSite'
    OBVIOUS
  <1>1. \A w \in Workers : pc[w] = "cancel" => cleanup[w].todo = {}
    BY DEF SeatedOnSite
  <1>2. CASE RequestNext /\ UNCHANGED bookingVars
    <2>1. /\ UNCHANGED <<presence, onSite, stage, order, cleanup, reservations>>
          /\ \A w \in Workers : pc'[w] = "cancel" => pc[w] = "cancel"
          /\ \A w \in Workers : pc[w] \in {"scan", "cancel"}
                => pc'[w] = pc[w] /\ req'[w] = req[w]
      BY <1>2, RequestLeavesCleanups DEF bookingVars
    <2>2. \A u, d : CleanupPending(u, d) => CleanupPending(u, d)'
      BY <2>1 DEF CleanupPending
    <2>3. QED
      BY <1>1, <2>1, <2>2, CleanupKeeps
  <1>3. ASSUME NEW w \in Workers, EditPresences(w) \/ ScanDate(w) \/ CancelOnDates(w)
        PROVE  SeatedOnSite'
    BY <1>3, EditSeated, CleanupSeated
  <1>4. ASSUME NEW b \in Bookers, ReserveSeat(b) \/ BulkReserveSeats(b) \/ BookerStep(b)
        PROVE  SeatedOnSite'
    BY <1>4, BookerSeated
  <1>5. CASE reservations' \subseteq reservations
             /\ UNCHANGED <<calendarVars, nextId, onSite, cleanup, stage, order>>
    <2>1. UNCHANGED <<presence, onSite, stage, order, cleanup, pc, req>>
      BY <1>5 DEF calendarVars
    <2>2. \A u, d : CleanupPending(u, d) => CleanupPending(u, d)'
      BY <2>1 DEF CleanupPending
    <2>3. QED
      BY <1>1, <1>5, <2>1, <2>2, CleanupKeeps
  <1>6. ASSUME NEW r, CancelReservation(r) PROVE SeatedOnSite'
    BY <1>5, <1>6 DEF CancelReservation
  <1>7. ASSUME NEW a, NEW u, NEW dates, NEW type, CancelReservationsByDates(a, u, dates, type)
        PROVE  SeatedOnSite'
    BY <1>5, <1>7 DEF CancelReservationsByDates
  <1>8. ASSUME NEW s \in Statuses, UpdateStatus(s) PROVE SeatedOnSite'
    BY <1>8, StatusSeated
  <1>9. CASE RestartAll
    <2>1. /\ presence' = presence /\ onSite' = onSite
          /\ \A b \in Bookers : stage'[b] = "idle"
          /\ \A w \in Workers : pc'[w] = "idle"
      BY <1>9 DEF RestartAll, Restart
    <2>2. ASSUME NEW r \in reservations'
          PROVE  r.overtaken \/ OnSiteOn(r.user, r.date)'
      <3>1. r.overtaken \/ (r \in reservations
                  /\ r \notin {q \in reservations : CleanupPending(q.user, q.date)})
        BY <1>9, <2>2, SparedMarks DEF RestartAll
      <3>2. QED
        BY <2>1, <3>1 DEF SeatedOnSite, OffSiteWasOvertaken, OnSiteOn
    <2>3. QED
      BY <2>1, <2>2 DEF SeatedOnSite, OffSiteWasOvertaken, PastSite
  <1>10. CASE UNCHANGED systemVars
    BY <1>5, <1>10 DEF systemVars, bookingVars
  <1>11. QED
    BY <1>2, <1>3, <1>4, <1>6, <1>7, <1>8, <1>9, <1>10 DEF BookingNext

(* Whoever holds a desk of a day without being on-site has it cancelled    *)
(* shortly, or kept it because the presence or its status changed between  *)
(* the lookup and the insert, or because that cancellation was lost:       *)
(* whatever the interleaving, the faults and the restarts.                 *)
THEOREM OffSiteAlwaysOvertaken == BookingSpec => []OffSiteWasOvertaken
  <1>1. BookingSpec => []TypeOK
    BY BookingRefinesCalendar, CalendarTypeOK DEF ImplementsCalendar
  <1>2. BookingSpec /\ []TypeOK => []DeskTypes
    BY InitDeskTypes, NextDeskTypes, PTL DEF BookingSpec
  <1>3. BookingSpec /\ []TypeOK /\ []DeskTypes => []SeatedOnSite
    BY InitSeated, NextSeated, PTL DEF BookingSpec
  <1>4. SeatedOnSite => OffSiteWasOvertaken
    BY DEF SeatedOnSite
  <1>5. QED
    BY <1>1, <1>2, <1>3, <1>4, PTL
=============================================================================
