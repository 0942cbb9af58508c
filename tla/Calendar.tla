------------------------------ MODULE Calendar ------------------------------
(***************************************************************************)
(* The personal calendar: declaring and clearing presences, certifying and *)
(* decertifying a month, the presence log and the automatic Office 365     *)
(* trigger (internal/handlers/calendar.go over internal/db).               *)
(*                                                                         *)
(* net/http runs every request in its own goroutine and no lock spans the  *)
(* statements of one handler, so a request is a worker w with a program    *)
(* counter pc[w], and each database statement (or transaction) is one      *)
(* step.  The handlers' reservation cleanup at pc "cancel" (set) and       *)
(* "scan" (clear) exists only when the floor plan module is enabled; it    *)
(* touches nothing of the calendar, and module Booking details it.         *)
(***************************************************************************)
EXTENDS Halves

CONSTANTS Workers,            \* requests in flight at once
          Actors,             \* authenticated people who send requests
          Users,              \* those whose declarations are followed
          Roles,              \* [Actors -> SUBSET STRING], users.roles
          Leads,              \* pairs <<leader, member>> of active teams
          Dates, Months, MonthOf,
          WorkingDays,        \* dates that are not week-end days
          Blocked,            \* [Users -> SUBSET Dates]: non-imputable holidays
          Statuses,
          AskedHalves,        \* values of "half" that requests carry (a bound)
          AutoSync,           \* users connected to Office 365 with auto-sync on
          DisableFloorplans,  \* DISABLE_FLOORPLANS
          Faults              \* whether statements may fail and the server restart

ASSUME CalendarAssumption ==
    /\ Users \subseteq Actors
    /\ AutoSync \subseteq Users
    /\ MonthOf \in [Dates -> Months]
    /\ WorkingDays \subseteq Dates
    /\ Blocked \in [Users -> SUBSET Dates]
    /\ NoStatus \notin Statuses
    /\ AskedHalves \subseteq HalfArg
    /\ DisableFloorplans \in BOOLEAN
    /\ Faults \in BOOLEAN

VARIABLES
    presence,     \* presences: [Users -> [Dates -> [Half -> status or NoStatus]]]
    certified,    \* declaration_certifications: set of <<user, month>>
    lastLog,      \* newest presence_logs row of each user and date
    armed,        \* debounce timers in memory: <<user, month, turn>>, where a
                  \* timer and the one it replaces differ in their turn
    pc,           \* where each worker's request is
    req,          \* what each worker's request asks
    (* History variables, never read by the code. *)
    dirty,        \* <<user, month>> changed since its last synchronisation
    early,        \* early[w]: months certified after w's certification check
                  \* of them and before w's write
    behind,       \* behind[w]: dates another edit of the user wrote after w's
                  \* write of them and before w's log row
    astray        \* <<user, date>> whose newest write has no log row, or one
                  \* older than that of an earlier write

calendarVars == <<presence, certified, lastLog, armed, pc, req,
                  dirty, early, behind, astray>>

Declarable == [u \in Users |-> WorkingDays \ Blocked[u]]

Ledger == INSTANCE CertificationLedger
              WITH presence <- presence, certified <- certified, Declarable <- Declarable

NoReq == [op |-> "none"]
NoLog == [action |-> "none"]

Request == [op : {"set", "clear", "certify"}, actor : Actors, user : Users,
            dates : SUBSET Dates, half : HalfArg,
            status : Statuses \cup {NoStatus}, todo : SUBSET Months]

LogEntry == [action : {"set", "clear"}, actor : Actors,
             status : Statuses \cup {NoStatus}, half : Half]

Phase == {"idle", "check", "write", "scan", "cancel", "log", "trigger"}

TypeOK ==
    /\ presence \in [Users -> [Dates -> [Half -> Statuses \cup {NoStatus}]]]
    /\ certified \subseteq Users \X Months
    /\ lastLog \in [Users -> [Dates -> LogEntry \cup {NoLog}]]
    /\ armed \subseteq Users \X Months \X BOOLEAN
    /\ pc \in [Workers -> Phase]
    /\ req \in [Workers -> Request \cup {NoReq}]
    /\ \A w \in Workers : pc[w] # "idle" => req[w] \in Request
    /\ dirty \subseteq Users \X Months
    /\ early \in [Workers -> SUBSET (Users \X Months)]
    /\ behind \in [Workers -> SUBSET Dates]
    /\ astray \subseteq Users \X Dates

CalendarInit ==
    /\ presence = [u \in Users |-> [d \in Dates |-> NoDay]]
    /\ certified = {}
    /\ lastLog = [u \in Users |-> [d \in Dates |-> NoLog]]
    /\ armed = {}
    /\ pc = [w \in Workers |-> "idle"]
    /\ req = [w \in Workers |-> NoReq]
    /\ dirty = {}
    /\ early = [w \in Workers |-> {}]
    /\ behind = [w \in Workers |-> {}]
    /\ astray = {}

-----------------------------------------------------------------------------
(* Permissions.                                                            *)

HasRole(a, role) == "global" \in Roles[a] \/ role \in Roles[a]

CanEditPresenceFor(a, u) ==
    HasRole(a, "team_manager") \/ a = u \/ <<a, u>> \in Leads

CanDecertify(a, u) == HasRole(a, "activity_viewer") \/ <<a, u>> \in Leads

-----------------------------------------------------------------------------
(* A request's way through its handler.                                    *)

MonthsOf(dates) == {MonthOf[d] : d \in dates}

(* An omitted half means the full day, in SetPresences and in the log.     *)
FullByDefault(h) == IF h = "none" THEN "full" ELSE h

Goto(w, phase) == pc' = [pc EXCEPT ![w] = phase] /\ UNCHANGED req

Answer(w) ==
    /\ pc' = [pc EXCEPT ![w] = "idle"]
    /\ req' = [req EXCEPT ![w] = NoReq]

Begin(w, r, phase) ==
    /\ pc[w] = "idle"
    /\ pc' = [pc EXCEPT ![w] = phase]
    /\ req' = [req EXCEPT ![w] = r]

(* SetPresences up to the certification check.  The holiday map's error is *)
(* dropped, so a failed read lets blocked dates through.                   *)
SetPresences(w) ==
    /\ \E a \in Actors, u \in Users, dates \in (SUBSET Dates) \ {{}},
          h \in AskedHalves, s \in Statuses :
         /\ CanEditPresenceFor(a, u)
         /\ dates \cap Blocked[u] = {} \/ Faults
         /\ Begin(w, [op |-> "set", actor |-> a, user |-> u, dates |-> dates,
                      half |-> FullByDefault(h), status |-> s,
                      todo |-> MonthsOf(dates)], "check")
    /\ UNCHANGED <<presence, certified, lastLog, armed, dirty, early, behind, astray>>

ClearPresences(w) ==
    /\ \E a \in Actors, u \in Users, dates \in (SUBSET Dates) \ {{}}, h \in AskedHalves :
         /\ CanEditPresenceFor(a, u)
         /\ Begin(w, [op |-> "clear", actor |-> a, user |-> u, dates |-> dates,
                      half |-> h, status |-> NoStatus,
                      todo |-> MonthsOf(dates)], "check")
    /\ UNCHANGED <<presence, certified, lastLog, armed, dirty, early, behind, astray>>

(* Only the month of one of the dates is looked up.                        *)
CheckOneMonth(w) ==
    /\ pc[w] = "check"
    /\ \E m \in req[w].todo :
         IF <<req[w].user, m>> \in certified
         THEN Answer(w)
         ELSE /\ req' = [req EXCEPT ![w].todo = {}]
              /\ pc' = [pc EXCEPT ![w] = "write"]
    /\ UNCHANGED <<presence, certified, lastLog, armed, dirty, early, behind, astray>>

(* certifiedMonthFromDates: one IsMonthCertified query per month, HTTP 423 *)
(* at the first certified one.                                             *)
CheckMonth(w) ==
    /\ pc[w] = "check"
    /\ \E m \in req[w].todo :
         IF <<req[w].user, m>> \in certified
         THEN Answer(w)
         ELSE /\ req' = [req EXCEPT ![w].todo = @ \ {m}]
              /\ pc' = [pc EXCEPT ![w] = IF req[w].todo = {m} THEN "write" ELSE @]
    /\ UNCHANGED <<presence, certified, lastLog, armed, dirty, early, behind, astray>>

(* w has written day d of u and not yet its log row.                       *)
Unlogged(w, u, d) ==
    pc[w] \in {"scan", "cancel", "log"} /\ req[w].user = u /\ d \in req[w].dates

Edited(w) ==
    /\ early' = [early EXCEPT ![w] = {}]
    /\ behind' = [v \in Workers |->
          behind[v] \cup {d \in req[w].dates : Unlogged(v, req[w].user, d)}]
    /\ dirty' = dirty \cup ((AutoSync \cap {req[w].user}) \X MonthsOf(req[w].dates))

(* The transaction of DB.SetPresences.                                     *)
SetWrite(w) ==
    /\ pc[w] = "write" /\ req[w].op = "set"
    /\ presence' = [presence EXCEPT ![req[w].user] =
                       SetDays(@, req[w].dates, req[w].half, req[w].status)]
    /\ Edited(w)
    /\ Goto(w, IF DisableFloorplans THEN "log" ELSE "cancel")
    /\ UNCHANGED <<certified, lastLog, armed, astray>>

(* The single DELETE of DB.ClearPresences.                                 *)
ClearWrite(w) ==
    /\ pc[w] = "write" /\ req[w].op = "clear"
    /\ presence' = [presence EXCEPT ![req[w].user] =
                       ClearDays(@, req[w].dates, req[w].half)]
    /\ Edited(w)
    /\ Goto(w, IF DisableFloorplans THEN "log" ELSE "scan")
    /\ UNCHANGED <<certified, lastLog, armed, astray>>

(* The reservations of the edited dates are cancelled; a failure is only   *)
(* logged, and the handler goes on.                                        *)
CancelReservations(w) ==
    /\ pc[w] \in {"scan", "cancel"}
    /\ \/ Goto(w, "log")
       \/ pc[w] = "scan" /\ Goto(w, "cancel")
    /\ UNCHANGED <<presence, certified, lastLog, armed, dirty, early, behind, astray>>

(* Only declarations queue a synchronisation, clears are forgotten.        *)
AfterLogOfSet(w) ==
    IF req[w].op = "set" /\ req[w].user \in AutoSync THEN Goto(w, "trigger") ELSE Answer(w)

(* A month is queued when the user has auto-synchronisation on.            *)
AfterLog(w) ==
    IF req[w].user \in AutoSync THEN Goto(w, "trigger") ELSE Answer(w)

(* Which newest log rows no longer, or again, are of the newest write      *)
(* (history): w's row comes after the rows of the edits that overtook it.  *)
Logged(w) ==
    /\ astray' = (astray \ ({req[w].user} \X req[w].dates)) \cup ({req[w].user} \X behind[w])
    /\ behind' = [behind EXCEPT ![w] = {}]

(* The log row keeps the status and drops the half.                        *)
LogFullDay(w) ==
    /\ pc[w] = "log"
    /\ lastLog' = [lastLog EXCEPT ![req[w].user] =
          [d \in Dates |-> IF d \in req[w].dates
                           THEN [action |-> req[w].op, actor |-> req[w].actor,
                                 status |-> req[w].status, half |-> "full"]
                           ELSE @[d]]]
    /\ Logged(w)
    /\ AfterLog(w)
    /\ UNCHANGED <<presence, certified, armed, dirty, early>>

(* The half is logged as the request carries it.                           *)
LogRawHalf(w) ==
    /\ pc[w] = "log"
    /\ lastLog' = [lastLog EXCEPT ![req[w].user] =
          [d \in Dates |-> IF d \in req[w].dates
                           THEN [action |-> req[w].op, actor |-> req[w].actor,
                                 status |-> req[w].status, half |-> req[w].half]
                           ELSE @[d]]]
    /\ Logged(w)
    /\ AfterLog(w)
    /\ UNCHANGED <<presence, certified, armed, dirty, early>>

(* LogPresenceAction: its own transaction, after and apart from the write. *)
LogPresenceAction(w) ==
    /\ pc[w] = "log"
    /\ lastLog' = [lastLog EXCEPT ![req[w].user] =
          [d \in Dates |-> IF d \in req[w].dates
                           THEN [action |-> req[w].op, actor |-> req[w].actor,
                                 status |-> req[w].status,
                                 half |-> FullByDefault(req[w].half)]
                           ELSE @[d]]]
    /\ Logged(w)
    /\ AfterLog(w)
    /\ UNCHANGED <<presence, certified, armed, dirty, early>>

(* Debouncer.Trigger: the month's timer, if any, is stopped and another    *)
(* one started, with its whole delay to come.                              *)
Rearmed(u, m) ==
    (armed \ {<<u, m, TRUE>>, <<u, m, FALSE>>}) \cup {<<u, m, <<u, m, FALSE>> \in armed>>}

(* The tail of both handlers: one debounced synchronisation, of the month  *)
(* of Dates[0]; any of the dates may come first.                           *)
Trigger(w) ==
    /\ pc[w] = "trigger"
    /\ \E d \in req[w].dates : armed' = Rearmed(req[w].user, MonthOf[d])
    /\ Answer(w)
    /\ UNCHANGED <<presence, certified, lastLog, dirty, early, behind, astray>>

(* The debounce timer elapses and SyncMonth copies the month to Outlook.   *)
TimerFires(u, m, turn) ==
    /\ <<u, m, turn>> \in armed
    /\ armed' = armed \ {<<u, m, turn>>}
    /\ dirty' = dirty \ {<<u, m>>}
    /\ UNCHANGED <<presence, certified, lastLog, pc, req, early, behind, astray>>

-----------------------------------------------------------------------------
(* Certification.                                                          *)

(* w has looked up month m of user u and not yet written.                  *)
PastCheck(w, u, m) ==
    /\ pc[w] \in {"check", "write"}
    /\ req[w].op \in {"set", "clear"}
    /\ req[w].user = u
    /\ m \in MonthsOf(req[w].dates) \ req[w].todo

(* Any declared day makes the month certifiable.                           *)
CertifyMonthAny(w) ==
    /\ \E u \in Users, m \in Months :
         /\ \E d \in Declarable[u] \cap Ledger!DatesOf(m) : Declared(presence[u][d])
         /\ Begin(w, [op |-> "certify", actor |-> u, user |-> u,
                      dates |-> Ledger!DatesOf(m), half |-> "none",
                      status |-> NoStatus, todo |-> {m}], "write")
    /\ UNCHANGED <<presence, certified, lastLog, armed, dirty, early, behind, astray>>

(* CertifyMonth up to the insert: the caller's own month must be complete. *)
(* With the holiday map lost to an error, holidays count as declarable.    *)
CertifyMonth(w) ==
    /\ \E u \in Users, m \in Months :
         /\ \/ Ledger!Complete(presence[u], Declarable[u], m)
            \/ Faults /\ Ledger!Complete(presence[u], WorkingDays, m)
         /\ Begin(w, [op |-> "certify", actor |-> u, user |-> u,
                      dates |-> Ledger!DatesOf(m), half |-> "none",
                      status |-> NoStatus, todo |-> {m}], "write")
    /\ UNCHANGED <<presence, certified, lastLog, armed, dirty, early, behind, astray>>

(* DB.CertifyMonth: INSERT OR IGNORE.                                      *)
CertifyInsert(w) ==
    /\ pc[w] = "write" /\ req[w].op = "certify"
    /\ LET u == req[w].user
           new == ({u} \X req[w].todo) \ certified
       IN  /\ certified' = certified \cup new
           /\ early' = [v \in Workers |->
                 early[v] \cup {um \in new : PastCheck(v, um[1], um[2])}]
    /\ Answer(w)
    /\ UNCHANGED <<presence, lastLog, armed, dirty, behind, astray>>

(* DecertifyMonth: permission and one DELETE.                              *)
DecertifyMonth(a, u, m) ==
    /\ CanDecertify(a, u)
    /\ <<u, m>> \in certified
    /\ certified' = certified \ {<<u, m>>}
    /\ early' = [v \in Workers |-> early[v] \ {<<u, m>>}]
    /\ UNCHANGED <<presence, lastLog, armed, pc, req, dirty, behind, astray>>

-----------------------------------------------------------------------------
(* Failures.                                                               *)

(* The certification query or the write returns an error: HTTP 500.        *)
StatementFails(w) ==
    /\ Faults
    /\ pc[w] \in {"check", "write"}
    /\ Answer(w)
    /\ early' = [early EXCEPT ![w] = {}]
    /\ UNCHANGED <<presence, certified, lastLog, armed, dirty, behind, astray>>

(* The errors of the log insert and of the token read are ignored.         *)
TailFails(w) ==
    /\ Faults
    /\ \/ /\ pc[w] = "log"
          /\ AfterLog(w)
          /\ astray' = astray \cup ({req[w].user} \X (req[w].dates \ behind[w]))
          /\ behind' = [behind EXCEPT ![w] = {}]
       \/ pc[w] = "trigger" /\ Answer(w) /\ UNCHANGED <<behind, astray>>
    /\ UNCHANGED <<presence, certified, lastLog, armed, dirty, early>>

(* The process stops: requests in flight and timers are gone.              *)
Restart ==
    /\ Faults
    /\ pc' = [w \in Workers |-> "idle"]
    /\ req' = [w \in Workers |-> NoReq]
    /\ early' = [w \in Workers |-> {}]
    /\ armed' = {}
    /\ behind' = [w \in Workers |-> {}]
    /\ astray' = astray \cup {ud \in Users \X Dates :
                               \E w \in Workers : /\ Unlogged(w, ud[1], ud[2])
                                                  /\ ud[2] \notin behind[w]}
    /\ UNCHANGED <<presence, certified, lastLog, dirty>>

-----------------------------------------------------------------------------

Step(w) == CheckMonth(w) \/ CertifyInsert(w) \/ LogPresenceAction(w) \/ Trigger(w)

Write(w) == SetWrite(w) \/ ClearWrite(w)

(* The steps the floor plan module has no part in.                         *)
RequestNext ==
    \/ \E w \in Workers :
          \/ SetPresences(w) \/ ClearPresences(w) \/ CertifyMonth(w)
          \/ Step(w) \/ StatementFails(w) \/ TailFails(w)
    \/ \E a \in Actors, u \in Users, m \in Months : DecertifyMonth(a, u, m)
    \/ \E u \in Users, m \in Months, turn \in BOOLEAN : TimerFires(u, m, turn)

CalendarNext ==
    \/ RequestNext
    \/ \E w \in Workers : Write(w) \/ CancelReservations(w)
    \/ Restart

CalendarSpec == CalendarInit /\ [][CalendarNext]_calendarVars

(* A goroutine that can take its next step takes it, and a timer that is   *)
(* not replaced meanwhile elapses.                                         *)
CalendarFairness ==
    /\ \A w \in Workers : WF_calendarVars(Step(w) \/ Write(w) \/ CancelReservations(w))
    /\ \A u \in Users, m \in Months, turn \in BOOLEAN :
          WF_calendarVars(TimerFires(u, m, turn))

FairCalendarSpec == CalendarSpec /\ CalendarFairness

-----------------------------------------------------------------------------
(* Properties.                                                             *)

(* However requests interleave, fail or restart, a user's day never holds  *)
(* a full-day row beside a half-day row: the delete and the upsert of      *)
(* DB.SetPresences are one transaction, and a clear only removes rows.     *)
HalvesExclusive ==
    \A u \in Users, d \in Dates : ExclusiveDay(presence[u][d])

(* A request that is past its certification check of a month that is now   *)
(* certified had passed it before the certification was inserted: the      *)
(* check of every touched month is what locks a month for later requests.  *)
LateWritersWereEarly ==
    \A w \in Workers, u \in Users, m \in Months :
        <<u, m>> \in certified /\ PastCheck(w, u, m) => <<u, m>> \in early[w]

(* A certified month changes only through such a request, and each of them *)
(* changes it once: no request started after the certification can.        *)
OnlyOvertakenWrites ==
    \A u \in Users, d \in Dates :
        presence'[u][d] # presence[u][d] /\ <<u, MonthOf[d]>> \in certified
          => \E w \in Workers : <<u, MonthOf[d]>> \in early[w] /\ early'[w] = {}

FrozenUnlessEarly == [][OnlyOvertakenWrites]_calendarVars

(* When requests do not overlap, the handlers implement the ledger, which  *)
(* certifies only complete months and freezes them.                        *)
ImplementsLedger == Ledger!LedgerSpec

(* With no edit of a day between its write and its log row, the newest log *)
(* entry tells the state of the row it names, and a day without entries is *)
(* empty, unless a log row was lost or two edits logged the day in another *)
(* order than they wrote it: GetPresenceOverrides takes it for the final   *)
(* state.                                                                  *)
LastLogTellsState ==
    \A u \in Users, d \in Dates :
        LET e == lastLog[u][d]
        IN  (\A w \in Workers : ~Unlogged(w, u, d)) /\ <<u, d>> \notin astray =>
                IF e = NoLog THEN presence[u][d] = NoDay
                             ELSE presence[u][d][e.half] = e.status

(* A timer of the month is replaced before it fires.                       *)
Postponed(u, m) ==
    \E turn \in BOOLEAN : <<u, m, turn>> \in armed /\ <<u, m, ~turn>> \in armed'

(* Every month an auto-synchronised user changes is eventually copied to   *)
(* the user's Outlook calendar, unless edits of the month keep coming,     *)
(* each before the timer of the one before fires.                          *)
AutoSyncCatchesUp ==
    \A u \in Users, m \in Months :
        \/ <<u, m>> \in dirty ~> <<u, m>> \notin dirty
        \/ []<><<Postponed(u, m)>>_calendarVars
=============================================================================
