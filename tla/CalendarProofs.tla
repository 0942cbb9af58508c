--------------------------- MODULE CalendarProofs ---------------------------
(***************************************************************************)
(* Theorems about Calendar, for every number of users, dates, statuses and *)
(* concurrent requests, with failures and restarts: what holds however the *)
(* handlers interleave, and, at the end, what they promise when requests   *)
(* do not disturb one another: they implement the certification ledger,    *)
(* and the newest log entry of a day tells its state.                      *)
(***************************************************************************)
EXTENDS Calendar, TLAPS

StatusValue == Statuses \cup {NoStatus}
Day == [Half -> StatusValue]

(* What a request in a given phase looks like: past the start only edits   *)
(* are in the handlers' other phases, an edit that reached its write has   *)
(* looked up every month, and a certification names the one month it found *)
(* complete.  TypeOK needs the first conjunct for the log row.             *)
RequestShape ==
    \A w \in Workers :
        /\ pc[w] \in {"check", "scan", "cancel", "log", "trigger"}
              => req[w].op \in {"set", "clear"}
        /\ pc[w] = "write" /\ req[w].op # "certify" => req[w].todo = {}
        /\ pc[w] # "idle" /\ req[w].op = "set"
              => req[w].half \in Half /\ req[w].status \in Statuses
        /\ pc[w] = "write" /\ req[w].op = "certify"
              => \E m \in Months : req[w].todo = {m}

TypeInv == TypeOK /\ RequestShape

-----------------------------------------------------------------------------
(* Setting or clearing a half of a well-formed day gives a well-formed day.*)
LEMMA DayTyping ==
    ASSUME NEW day \in Day, NEW h, NEW s \in StatusValue
    PROVE  SetDay(day, h, s) \in Day /\ ClearDay(day, h) \in Day
  BY DEF Day, StatusValue, SetDay, ClearDay, Displaced, Half

(* The delete that goes with the upsert of SetPresences keeps a full-day   *)
(* row and half-day rows apart, and a clear cannot bring them together.    *)
LEMMA DayExclusive ==
    ASSUME NEW day \in Day, ExclusiveDay(day), NEW h \in HalfArg, NEW s \in StatusValue
    PROVE  ExclusiveDay(SetDay(day, h, s)) /\ ExclusiveDay(ClearDay(day, h))
  BY DEF Day, StatusValue, SetDay, ClearDay, Displaced, Half, HalfArg, ExclusiveDay

LEMMA EmptyDay == NoDay \in Day /\ ExclusiveDay(NoDay)
  BY DEF NoDay, Day, StatusValue, ExclusiveDay, Half

(* The same over the rows of one user.                                     *)
LEMMA RowsTyping ==
    ASSUME NEW rows \in [Dates -> Day], NEW dates, NEW h, NEW s \in StatusValue
    PROVE  /\ SetDays(rows, dates, h, s) \in [Dates -> Day]
           /\ ClearDays(rows, dates, h) \in [Dates -> Day]
  BY DayTyping DEF SetDays, ClearDays

LEMMA RowsExclusive ==
    ASSUME NEW rows \in [Dates -> Day], \A d \in Dates : ExclusiveDay(rows[d]),
           NEW dates, NEW h \in HalfArg, NEW s \in StatusValue
    PROVE  \A d \in Dates : /\ ExclusiveDay(SetDays(rows, dates, h, s)[d])
                            /\ ExclusiveDay(ClearDays(rows, dates, h)[d])
  BY DayExclusive DEF SetDays, ClearDays

-----------------------------------------------------------------------------
(* Type correctness.                                                       *)

LEMMA InitTypeInv == CalendarInit => TypeInv
  BY EmptyDay DEF CalendarInit, TypeInv, TypeOK, RequestShape, Day, StatusValue,
                  NoReq, NoLog, Phase

(* The record a request starts with.                                       *)
LEMMA BeginTyping ==
    ASSUME TypeInv, NEW w \in Workers, NEW r \in Request, NEW phase \in {"check", "write"},
           \/ /\ phase = "check" /\ r.op \in {"set", "clear"}
              /\ r.op = "set" => r.half \in Half /\ r.status \in Statuses
           \/ /\ phase = "write" /\ r.op = "certify"
              /\ \E m \in Months : r.todo = {m},
           Begin(w, r, phase),
           UNCHANGED <<presence, certified, lastLog, armed, dirty, early, behind, astray>>
    PROVE  TypeInv'
  BY DEF TypeInv, TypeOK, RequestShape, Begin, Phase

(* A request that ends, or only moves on to a phase it may be in.          *)
LEMMA AnswerTyping ==
    ASSUME TypeInv, NEW w \in Workers, Answer(w)
    PROVE  /\ pc' \in [Workers -> Phase]
           /\ req' \in [Workers -> Request \cup {NoReq}]
           /\ \A v \in Workers : pc'[v] # "idle" => req'[v] \in Request
           /\ RequestShape'
  BY DEF TypeInv, TypeOK, RequestShape, Answer, Phase

LEMMA GotoTyping ==
    ASSUME TypeInv, NEW w \in Workers, NEW phase \in Phase, Goto(w, phase),
           phase # "write", pc[w] # "idle", req[w].op \in {"set", "clear"}
    PROVE  /\ pc' \in [Workers -> Phase]
           /\ req' \in [Workers -> Request \cup {NoReq}]
           /\ \A v \in Workers : pc'[v] # "idle" => req'[v] \in Request
           /\ RequestShape'
  BY DEF TypeInv, TypeOK, RequestShape, Goto, Phase

(* The history of the log rows is one of users and dates.                  *)
LEMMA LoggedTyping ==
    ASSUME TypeInv, NEW w \in Workers, req[w] \in Request, Logged(w)
    PROVE  behind' \in [Workers -> SUBSET Dates] /\ astray' \subseteq Users \X Dates
  BY DEF TypeInv, TypeOK, Request, Logged

LEMMA NextTypeInv == TypeInv /\ [CalendarNext]_calendarVars => TypeInv'
  <1> SUFFICES ASSUME TypeInv, [CalendarNext]_calendarVars PROVE TypeInv'
    OBVIOUS
  <1> USE CalendarAssumption
  <1>1. ASSUME NEW w \in Workers, SetPresences(w) PROVE TypeInv'
    <2>1. PICK a \in Actors, u \in Users, dates \in (SUBSET Dates) \ {{}},
               h \in AskedHalves, s \in Statuses :
             Begin(w, [op |-> "set", actor |-> a, user |-> u, dates |-> dates,
                       half |-> FullByDefault(h), status |-> s,
                       todo |-> MonthsOf(dates)], "check")
      BY <1>1 DEF SetPresences
    <2>2. /\ MonthsOf(dates) \in SUBSET Months
          /\ FullByDefault(h) \in HalfArg /\ FullByDefault(h) \in Half
      BY DEF MonthsOf, FullByDefault, HalfArg, Half, CalendarAssumption
    <2>3. [op |-> "set", actor |-> a, user |-> u, dates |-> dates,
           half |-> FullByDefault(h), status |-> s, todo |-> MonthsOf(dates)] \in Request
      BY <2>2 DEF Request
    <2>4. QED
      BY <1>1, <2>1, <2>2, <2>3, BeginTyping DEF SetPresences
  <1>2. ASSUME NEW w \in Workers, ClearPresences(w) PROVE TypeInv'
    <2>1. PICK a \in Actors, u \in Users, dates \in (SUBSET Dates) \ {{}},
               h \in AskedHalves :
             Begin(w, [op |-> "clear", actor |-> a, user |-> u, dates |-> dates,
                       half |-> h, status |-> NoStatus,
                       todo |-> MonthsOf(dates)], "check")
      BY <1>2 DEF ClearPresences
    <2>2. MonthsOf(dates) \in SUBSET Months /\ h \in HalfArg
      BY DEF MonthsOf, CalendarAssumption
    <2>3. [op |-> "clear", actor |-> a, user |-> u, dates |-> dates,
           half |-> h, status |-> NoStatus, todo |-> MonthsOf(dates)] \in Request
      BY <2>2 DEF Request
    <2>4. QED
      BY <1>2, <2>1, <2>3, BeginTyping DEF ClearPresences
  <1>3. ASSUME NEW w \in Workers, CertifyMonth(w) PROVE TypeInv'
    <2>1. PICK u \in Users, m \in Months :
             Begin(w, [op |-> "certify", actor |-> u, user |-> u,
                       dates |-> Ledger!DatesOf(m), half |-> "none",
                       status |-> NoStatus, todo |-> {m}], "write")
      BY <1>3 DEF CertifyMonth
    <2>2. [op |-> "certify", actor |-> u, user |-> u, dates |-> Ledger!DatesOf(m),
           half |-> "none", status |-> NoStatus, todo |-> {m}] \in Request
      BY DEF Request, Ledger!DatesOf, HalfArg, CalendarAssumption
    <2>3. QED
      BY <1>3, <2>1, <2>2, BeginTyping DEF CertifyMonth
  <1>4. ASSUME NEW w \in Workers, CheckMonth(w) PROVE TypeInv'
    <2>1. PICK m \in req[w].todo :
             IF <<req[w].user, m>> \in certified
             THEN Answer(w)
             ELSE /\ req' = [req EXCEPT ![w].todo = @ \ {m}]
                  /\ pc' = [pc EXCEPT ![w] = IF req[w].todo = {m} THEN "write" ELSE @]
      BY <1>4 DEF CheckMonth
    <2>2. CASE <<req[w].user, m>> \in certified
      BY <1>4, <2>1, <2>2, AnswerTyping DEF CheckMonth, TypeInv, TypeOK
    <2>3. CASE <<req[w].user, m>> \notin certified
      <3>1. req[w] \in Request /\ req[w].op \in {"set", "clear"}
        BY <1>4 DEF CheckMonth, TypeInv, TypeOK, RequestShape
      <3> DEFINE r == [req[w] EXCEPT !.todo = @ \ {m}]
      <3>2. /\ r \in Request /\ r.todo = req[w].todo \ {m}
            /\ r.op = req[w].op /\ r.half = req[w].half /\ r.status = req[w].status
        BY <3>1 DEF Request
      <3>3. req' = [req EXCEPT ![w] = r]
        BY <2>1, <2>3
      <3> HIDE DEF r
      <3>4. /\ pc' \in [Workers -> Phase]
            /\ \A v \in Workers : v # w => pc'[v] = pc[v]
            /\ pc'[w] = IF req[w].todo = {m} THEN "write" ELSE "check"
        BY <1>4, <2>1, <2>3 DEF CheckMonth, TypeInv, TypeOK, Phase
      <3>5. TypeOK'
        BY <1>4, <3>1, <3>2, <3>3, <3>4 DEF CheckMonth, TypeInv, TypeOK
      <3>6. req'[w] = r /\ \A v \in Workers : v # w => req'[v] = req[v]
        BY <3>3 DEF TypeInv, TypeOK
      <3>7. RequestShape'
        BY <1>4, <3>1, <3>2, <3>4, <3>6 DEF CheckMonth, TypeInv, RequestShape
      <3>8. QED
        BY <3>5, <3>7 DEF TypeInv
    <2>4. QED
      BY <2>2, <2>3
  <1>5. ASSUME NEW w \in Workers, SetWrite(w) PROVE TypeInv'
    <2>1. req[w] \in Request
      BY <1>5 DEF SetWrite, TypeInv, TypeOK
    <2>2. presence' \in [Users -> [Dates -> Day]]
      BY <1>5, <2>1, RowsTyping DEF SetWrite, TypeInv, TypeOK, Request, Day, StatusValue
    <2>3. /\ dirty' \subseteq Users \X Months /\ early' \in [Workers -> SUBSET (Users \X Months)]
          /\ behind' \in [Workers -> SUBSET Dates]
      BY <1>5, <2>1 DEF SetWrite, Edited, TypeInv, TypeOK, Request, MonthsOf, CalendarAssumption
    <2>4. QED
      BY <1>5, <2>2, <2>3, GotoTyping
         DEF SetWrite, TypeInv, TypeOK, Phase, Day, StatusValue
  <1>6. ASSUME NEW w \in Workers, ClearWrite(w) PROVE TypeInv'
    <2>1. req[w] \in Request
      BY <1>6 DEF ClearWrite, TypeInv, TypeOK
    <2>2. presence' \in [Users -> [Dates -> Day]]
      BY <1>6, <2>1, RowsTyping DEF ClearWrite, TypeInv, TypeOK, Request, Day, StatusValue
    <2>3. /\ dirty' \subseteq Users \X Months /\ early' \in [Workers -> SUBSET (Users \X Months)]
          /\ behind' \in [Workers -> SUBSET Dates]
      BY <1>6, <2>1 DEF ClearWrite, Edited, TypeInv, TypeOK, Request, MonthsOf, CalendarAssumption
    <2>4. QED
      BY <1>6, <2>2, <2>3, GotoTyping
         DEF ClearWrite, TypeInv, TypeOK, Phase, Day, StatusValue
  <1>7. ASSUME NEW w \in Workers, CertifyInsert(w) PROVE TypeInv'
    <2>1. ({req[w].user} \X req[w].todo) \ certified \subseteq Users \X Months
      BY <1>7 DEF CertifyInsert, TypeInv, TypeOK, Request
    <2>2. QED
      BY <1>7, <2>1, AnswerTyping DEF CertifyInsert, TypeInv, TypeOK
  <1>8. ASSUME NEW w \in Workers, LogPresenceAction(w) PROVE TypeInv'
    <2>1. req[w] \in Request /\ req[w].op \in {"set", "clear"}
      BY <1>8 DEF LogPresenceAction, TypeInv, TypeOK, RequestShape
    <2>2. [action |-> req[w].op, actor |-> req[w].actor, status |-> req[w].status,
           half |-> FullByDefault(req[w].half)] \in LogEntry
      BY <2>1 DEF Request, LogEntry, FullByDefault, HalfArg, Half
    <2>3. lastLog' \in [Users -> [Dates -> LogEntry \cup {NoLog}]]
      BY <1>8, <2>1, <2>2 DEF LogPresenceAction, TypeInv, TypeOK
    <2>4. behind' \in [Workers -> SUBSET Dates] /\ astray' \subseteq Users \X Dates
      BY <1>8, <2>1, LoggedTyping DEF LogPresenceAction
    <2>5. QED
      BY <1>8, <2>1, <2>3, <2>4, AnswerTyping, GotoTyping
         DEF LogPresenceAction, AfterLog, TypeInv, TypeOK, Phase
  <1>9. ASSUME NEW w \in Workers, Trigger(w) PROVE TypeInv'
    <2>1. PICK d \in req[w].dates : armed' = Rearmed(req[w].user, MonthOf[d])
      BY <1>9 DEF Trigger
    <2>2. req[w].user \in Users /\ MonthOf[d] \in Months
      BY <1>9, <2>1, CalendarAssumption DEF Trigger, TypeInv, TypeOK, Request, CalendarAssumption
    <2>3. armed' \subseteq Users \X Months \X BOOLEAN
      <3> DEFINE x == req[w].user
                 n == MonthOf[d]
                 b == <<x, n, FALSE>> \in armed
      <3>1. <<x, n, b>> \in Users \X Months \X BOOLEAN
        <4>1. b \in BOOLEAN
          OBVIOUS
        <4> HIDE DEF b
        <4>2. QED
          BY <2>2, <4>1
      <3>2. armed \subseteq Users \X Months \X BOOLEAN
        BY DEF TypeInv, TypeOK
      <3>3. armed' = (armed \ {<<x, n, TRUE>>, <<x, n, FALSE>>}) \cup {<<x, n, b>>}
        BY <2>1 DEF Rearmed
      <3> HIDE DEF x, n, b
      <3>4. QED
        BY <3>1, <3>2, <3>3, Zenon
    <2>4. QED
      BY <1>9, <2>3, AnswerTyping DEF Trigger, TypeInv, TypeOK
  <1>10. ASSUME NEW w \in Workers, StatementFails(w) PROVE TypeInv'
    BY <1>10, AnswerTyping DEF StatementFails, TypeInv, TypeOK
  <1>11. ASSUME NEW w \in Workers, TailFails(w) PROVE TypeInv'
    <2>1. behind' \in [Workers -> SUBSET Dates] /\ astray' \subseteq Users \X Dates
      <3>1. req[w] \in Request
        BY <1>11 DEF TailFails, TypeInv, TypeOK
      <3>2. QED
        BY <1>11, <3>1 DEF TailFails, TypeInv, TypeOK, Request
    <2>2. QED
      BY <1>11, <2>1, AnswerTyping, GotoTyping
         DEF TailFails, AfterLog, TypeInv, TypeOK, Phase, RequestShape
  <1>12. ASSUME NEW a \in Actors, NEW u \in Users, NEW m \in Months, DecertifyMonth(a, u, m)
         PROVE  TypeInv'
    BY <1>12 DEF DecertifyMonth, TypeInv, TypeOK, RequestShape
  <1>13. ASSUME NEW u \in Users, NEW m \in Months, NEW turn \in BOOLEAN, TimerFires(u, m, turn)
         PROVE  TypeInv'
    BY <1>13 DEF TimerFires, TypeInv, TypeOK, RequestShape
  <1>14. CASE Restart
    BY <1>14 DEF Restart, TypeInv, TypeOK, RequestShape, Phase
  <1>15. CASE UNCHANGED calendarVars
    BY <1>15 DEF calendarVars, TypeInv, TypeOK, RequestShape
  <1>16. ASSUME NEW w \in Workers, CancelReservations(w) PROVE TypeInv'
    BY <1>16, GotoTyping DEF CancelReservations, TypeInv, TypeOK, Phase, RequestShape
  <1>17. QED
    BY <1>1, <1>2, <1>3, <1>4, <1>5, <1>6, <1>7, <1>8, <1>9, <1>10, <1>11, <1>12,
       <1>13, <1>14, <1>15, <1>16 DEF CalendarNext, RequestNext, Step, Write

(* Every behaviour is well typed.                                          *)
THEOREM TypeCorrect == CalendarSpec => []TypeInv
  <1>1. QED
    BY InitTypeInv, NextTypeInv, PTL DEF CalendarSpec

(* In particular the type invariant of the component holds.                *)
THEOREM CalendarTypeOK == CalendarSpec => []TypeOK
  <1>1. TypeInv => TypeOK
    BY DEF TypeInv
  <1>2. QED
    BY <1>1, TypeCorrect, PTL

-----------------------------------------------------------------------------
(* The steps that touch presences and those that touch certifications.     *)

LEMMA PresenceFrame ==
    ASSUME [CalendarNext]_calendarVars
    PROVE  \/ UNCHANGED presence
           \/ \E w \in Workers : SetWrite(w) \/ ClearWrite(w)
  BY DEF CalendarNext, RequestNext, calendarVars, Step, Write, SetPresences, ClearPresences, CertifyMonth,
         CheckMonth, CertifyInsert, LogPresenceAction, Trigger, StatementFails,
         TailFails, DecertifyMonth, TimerFires, CancelReservations, Restart

(* No interleaving, failure or restart puts a half-day row beside a        *)
(* full-day row.                                                           *)
LEMMA NextExclusive ==
    TypeInv /\ HalvesExclusive /\ [CalendarNext]_calendarVars => HalvesExclusive'
  <1> SUFFICES ASSUME TypeInv, HalvesExclusive, [CalendarNext]_calendarVars
               PROVE  HalvesExclusive'
    OBVIOUS
  <1>0. presence \in [Users -> [Dates -> Day]]
    BY DEF TypeInv, TypeOK, Day, StatusValue
  <1>1. ASSUME NEW w \in Workers, SetWrite(w) PROVE HalvesExclusive'
    <2>1. /\ req[w].user \in Users /\ req[w].half \in HalfArg
          /\ req[w].status \in StatusValue
      BY <1>1 DEF SetWrite, TypeInv, TypeOK, Request, StatusValue
    <2>2. \A d \in Dates : ExclusiveDay(
             SetDays(presence[req[w].user], req[w].dates, req[w].half, req[w].status)[d])
      BY <1>0, <2>1, RowsExclusive DEF HalvesExclusive
    <2>3. QED
      BY <1>0, <1>1, <2>1, <2>2 DEF SetWrite, HalvesExclusive
  <1>2. ASSUME NEW w \in Workers, ClearWrite(w) PROVE HalvesExclusive'
    <2>1. /\ req[w].user \in Users /\ req[w].half \in HalfArg
          /\ NoStatus \in StatusValue
      BY <1>2 DEF ClearWrite, TypeInv, TypeOK, Request, StatusValue
    <2>2. \A d \in Dates : ExclusiveDay(
             ClearDays(presence[req[w].user], req[w].dates, req[w].half)[d])
      BY <1>0, <2>1, RowsExclusive DEF HalvesExclusive
    <2>3. QED
      BY <1>0, <1>2, <2>1, <2>2 DEF ClearWrite, HalvesExclusive
  <1>3. CASE UNCHANGED presence
    BY <1>3 DEF HalvesExclusive
  <1>4. QED
    BY <1>1, <1>2, <1>3, PresenceFrame

(* HalvesExclusive holds in every state of every behaviour.                *)
THEOREM HalvesAlwaysExclusive == CalendarSpec => []HalvesExclusive
  <1>1. CalendarInit => HalvesExclusive
    BY EmptyDay DEF CalendarInit, HalvesExclusive
  <1>2. QED
    BY <1>1, TypeCorrect, NextExclusive, PTL DEF CalendarSpec

-----------------------------------------------------------------------------
(* Certification and the requests it overtakes.                            *)

LEMMA NextLateWriters ==
    TypeInv /\ LateWritersWereEarly /\ [CalendarNext]_calendarVars => LateWritersWereEarly'
  <1> SUFFICES ASSUME TypeInv, LateWritersWereEarly, [CalendarNext]_calendarVars,
                      NEW v \in Workers, NEW u \in Users, NEW m \in Months,
                      <<u, m>> \in certified', PastCheck(v, u, m)'
               PROVE  <<u, m>> \in early'[v]
    BY DEF LateWritersWereEarly
  <1> USE DEF TypeInv, TypeOK
  <1>1. ASSUME NEW w \in Workers, SetPresences(w) \/ ClearPresences(w) \/ CertifyMonth(w)
        PROVE  <<u, m>> \in early'[v]
    <2>1. CASE v = w
      BY <1>1, <2>1 DEF SetPresences, ClearPresences, CertifyMonth, Begin, PastCheck
    <2>2. CASE v # w
      BY <1>1, <2>2 DEF SetPresences, ClearPresences, CertifyMonth, Begin, PastCheck,
                        LateWritersWereEarly
    <2>3. QED
      BY <2>1, <2>2
  <1>2. ASSUME NEW w \in Workers, CheckMonth(w) PROVE <<u, m>> \in early'[v]
    <2>1. PICK n \in req[w].todo :
             IF <<req[w].user, n>> \in certified
             THEN Answer(w)
             ELSE /\ req' = [req EXCEPT ![w].todo = @ \ {n}]
                  /\ pc' = [pc EXCEPT ![w] = IF req[w].todo = {n} THEN "write" ELSE @]
      BY <1>2 DEF CheckMonth
    <2>2. UNCHANGED <<certified, early>>
      BY <1>2 DEF CheckMonth
    <2>3. CASE v # w
      <3>1. req'[v] = req[v] /\ pc'[v] = pc[v]
        BY <2>1, <2>3 DEF Answer
      <3>2. QED
        BY <2>2, <3>1 DEF PastCheck, LateWritersWereEarly
    <2>4. CASE v = w /\ <<req[w].user, n>> \in certified
      BY <2>1, <2>4 DEF Answer, PastCheck
    <2>5. CASE v = w /\ <<req[w].user, n>> \notin certified
      <3> DEFINE r == [req[w] EXCEPT !.todo = @ \ {n}]
      <3>1. req[w] \in Request /\ pc[w] = "check"
        BY <1>2 DEF CheckMonth
      <3>2. /\ r.op = req[w].op /\ r.user = req[w].user /\ r.dates = req[w].dates
            /\ r.todo = req[w].todo \ {n}
        BY <3>1 DEF Request
      <3>3. req'[w] = r
        BY <2>1, <2>5
      <3> HIDE DEF r
      <3>4. m # n /\ PastCheck(w, u, m)
        BY <2>2, <2>5, <3>1, <3>2, <3>3 DEF PastCheck
      <3>5. QED
        BY <2>2, <2>5, <3>4 DEF LateWritersWereEarly
    <2>6. QED
      BY <2>3, <2>4, <2>5
  <1>3. ASSUME NEW w \in Workers, SetWrite(w) \/ ClearWrite(w)
        PROVE  <<u, m>> \in early'[v]
    <2>1. CASE v = w
      BY <1>3, <2>1 DEF SetWrite, ClearWrite, Goto, PastCheck
    <2>2. CASE v # w
      BY <1>3, <2>2 DEF SetWrite, ClearWrite, Goto, Edited, PastCheck, LateWritersWereEarly
    <2>3. QED
      BY <2>1, <2>2
  <1>4. ASSUME NEW w \in Workers, CertifyInsert(w) PROVE <<u, m>> \in early'[v]
    <2> DEFINE new == ({req[w].user} \X req[w].todo) \ certified
    <2>1. v # w
      BY <1>4 DEF CertifyInsert, Answer, PastCheck
    <2>2. PastCheck(v, u, m)
      BY <1>4, <2>1 DEF CertifyInsert, Answer, PastCheck
    <2>3. CASE <<u, m>> \in certified
      BY <1>4, <2>2, <2>3 DEF CertifyInsert, LateWritersWereEarly
    <2>4. CASE <<u, m>> \notin certified
      BY <1>4, <2>2, <2>4 DEF CertifyInsert
    <2>5. QED
      BY <2>3, <2>4
  <1>5. ASSUME NEW w \in Workers, \/ LogPresenceAction(w) \/ Trigger(w) \/ TailFails(w)
                                \/ CancelReservations(w)
        PROVE  <<u, m>> \in early'[v]
    BY <1>5 DEF LogPresenceAction, CancelReservations, Trigger, TailFails, AfterLog, Goto, Answer, PastCheck,
                LateWritersWereEarly
  <1>6. ASSUME NEW w \in Workers, StatementFails(w) PROVE <<u, m>> \in early'[v]
    BY <1>6 DEF StatementFails, Answer, PastCheck, LateWritersWereEarly
  <1>7. ASSUME NEW a \in Actors, NEW x \in Users, NEW n \in Months, DecertifyMonth(a, x, n)
        PROVE  <<u, m>> \in early'[v]
    BY <1>7 DEF DecertifyMonth, PastCheck, LateWritersWereEarly
  <1>8. ASSUME NEW x \in Users, NEW n \in Months, NEW turn \in BOOLEAN, TimerFires(x, n, turn)
        PROVE  <<u, m>> \in early'[v]
    BY <1>8 DEF TimerFires, PastCheck, LateWritersWereEarly
  <1>9. CASE Restart
    BY <1>9 DEF Restart, PastCheck
  <1>10. CASE UNCHANGED calendarVars
    BY <1>10 DEF calendarVars, PastCheck, LateWritersWereEarly
  <1> HIDE DEF TypeInv, TypeOK
  <1>11. CASE RequestNext
    BY <1>1, <1>2, <1>4, <1>5, <1>6, <1>7, <1>8, <1>11 DEF RequestNext, Step
  <1>12. QED
    BY <1>3, <1>5, <1>9, <1>10, <1>11 DEF CalendarNext, Write

(* Every request past its check of a certified month passed it before the  *)
(* certification.                                                          *)
THEOREM LateWritersAlwaysEarly == CalendarSpec => []LateWritersWereEarly
  <1>1. CalendarInit => LateWritersWereEarly
    BY DEF CalendarInit, LateWritersWereEarly
  <1>2. QED
    BY <1>1, TypeCorrect, NextLateWriters, PTL DEF CalendarSpec

(* A certified month changes only through requests overtaken by its        *)
(* certification, once for each of them.                                   *)
THEOREM CertifiedFreeze == CalendarSpec => FrozenUnlessEarly
  <1>1. TypeInv /\ LateWritersWereEarly /\ [CalendarNext]_calendarVars
          => OnlyOvertakenWrites
    <2> SUFFICES ASSUME TypeInv, LateWritersWereEarly, [CalendarNext]_calendarVars,
                        NEW u \in Users, NEW d \in Dates,
                        presence'[u][d] # presence[u][d], <<u, MonthOf[d]>> \in certified
                 PROVE  \E w \in Workers : <<u, MonthOf[d]>> \in early[w] /\ early'[w] = {}
      BY DEF OnlyOvertakenWrites
    <2>1. PICK w \in Workers : SetWrite(w) \/ ClearWrite(w)
      BY PresenceFrame
    <2>2. req[w].user = u /\ d \in req[w].dates
      <3>1. \E h, s : presence' = [presence EXCEPT ![req[w].user] =
                                     SetDays(@, req[w].dates, h, s)]
                    \/ presence' = [presence EXCEPT ![req[w].user] =
                                      ClearDays(@, req[w].dates, h)]
        BY <2>1 DEF SetWrite, ClearWrite
      <3>2. presence \in [Users -> [Dates -> Day]]
        BY DEF TypeInv, TypeOK, Day, StatusValue
      <3>3. presence[u] \in [Dates -> Day]
        BY <3>2
      <3>4. QED
        BY <3>1, <3>2, <3>3 DEF SetDays, ClearDays
    <2>3. MonthOf[d] \in MonthsOf(req[w].dates) /\ MonthOf[d] \in Months
      BY <2>2, CalendarAssumption DEF MonthsOf, CalendarAssumption
    <2>4. pc[w] = "write" /\ req[w].op \in {"set", "clear"} /\ req[w].todo = {}
      BY <2>1 DEF SetWrite, ClearWrite, TypeInv, RequestShape
    <2>5. PastCheck(w, u, MonthOf[d])
      BY <2>2, <2>3, <2>4 DEF PastCheck
    <2>6. <<u, MonthOf[d]>> \in early[w]
      BY <2>3, <2>5 DEF LateWritersWereEarly
    <2>7. early'[w] = {}
      BY <2>1 DEF SetWrite, ClearWrite, Edited, TypeInv, TypeOK
    <2>8. QED
      BY <2>6, <2>7
  <1>2. QED
    BY <1>1, TypeCorrect, LateWritersAlwaysEarly, PTL DEF CalendarSpec, FrozenUnlessEarly

-----------------------------------------------------------------------------
(* The refinement.                                                         *)

(* The ledger's half-day algebra is the calendar's.                        *)
LEMMA SameHalves == Ledger!Half = Half /\ Ledger!HalfArg = HalfArg /\ Ledger!NoDay = NoDay
  BY DEF Ledger!Half, Half, Ledger!HalfArg, HalfArg, Ledger!NoDay, NoDay

LEMMA SameEdits ==
    ASSUME NEW rows, NEW dates, NEW h, NEW s
    PROVE  /\ Ledger!SetDays(rows, dates, h, s) = SetDays(rows, dates, h, s)
           /\ Ledger!ClearDays(rows, dates, h) = ClearDays(rows, dates, h)
  BY DEF Ledger!Half, Half, Ledger!SetDays, SetDays, Ledger!SetDay, SetDay,
         Ledger!Displaced, Displaced, Ledger!ClearDays, ClearDays, Ledger!ClearDay, ClearDay

(* No request in flight acts on a check that another has overtaken: no     *)
(* month was certified between an edit's check of it and its write, and a  *)
(* certification about to be written is of a month that is complete.       *)
Undisturbed ==
    \A w \in Workers :
        /\ early[w] = {}
        /\ pc[w] = "write" /\ req[w].op = "certify" =>
              \A m \in req[w].todo :
                  Ledger!Complete(presence[req[w].user], Declarable[req[w].user], m)

(* An edit that is about to be written found all of its months open, and   *)
(* they still are.                                                         *)
LEMMA WriteFindsOpen ==
    ASSUME TypeInv, LateWritersWereEarly, Undisturbed, NEW w \in Workers,
           pc[w] = "write", req[w].op \in {"set", "clear"}
    PROVE  /\ req[w] \in Request /\ req[w].user \in Users /\ req[w].dates \in SUBSET Dates
           /\ Ledger!Open(req[w].user, req[w].dates)
  <1>1. /\ req[w] \in Request /\ req[w].user \in Users /\ req[w].dates \in SUBSET Dates
        /\ req[w].todo = {}
    BY DEF TypeInv, TypeOK, RequestShape, Request
  <1>2. ASSUME NEW d \in req[w].dates PROVE <<req[w].user, MonthOf[d]>> \notin certified
    <2>1. d \in Dates /\ MonthOf[d] \in Months /\ MonthOf[d] \in MonthsOf(req[w].dates)
      BY <1>1, CalendarAssumption DEF MonthsOf, CalendarAssumption
    <2>2. PastCheck(w, req[w].user, MonthOf[d])
      BY <1>1, <2>1 DEF PastCheck
    <2>3. QED
      BY <1>1, <2>1, <2>2 DEF LateWritersWereEarly, Undisturbed
  <1>3. QED
    BY <1>1, <1>2 DEF Ledger!Open

LEMMA UndisturbedStep ==
    TypeInv /\ LateWritersWereEarly /\ Undisturbed /\ [CalendarNext]_calendarVars
        => [Ledger!LedgerNext]_(Ledger!ledgerVars)
  <1> SUFFICES ASSUME TypeInv, LateWritersWereEarly, Undisturbed, [CalendarNext]_calendarVars
               PROVE  Ledger!LedgerNext \/ UNCHANGED <<presence, certified>>
    BY DEF Ledger!ledgerVars
  <1>1. ASSUME NEW w \in Workers, SetWrite(w) PROVE Ledger!LedgerNext
    <2>1. pc[w] = "write" /\ req[w].op = "set"
      BY <1>1 DEF SetWrite
    <2>2. /\ req[w].user \in Users /\ req[w].dates \in SUBSET Dates
          /\ Ledger!Open(req[w].user, req[w].dates)
      BY <2>1, WriteFindsOpen
    <2>3. req[w].half \in Half /\ req[w].status \in Statuses
      BY <2>1 DEF TypeInv, RequestShape
    <2>4. Ledger!Declare(req[w].user, req[w].dates, req[w].half, req[w].status)
      <3>1. Ledger!SetDays(presence[req[w].user], req[w].dates, req[w].half, req[w].status)
               = SetDays(presence[req[w].user], req[w].dates, req[w].half, req[w].status)
        BY SameEdits
      <3>2. QED
        BY <1>1, <2>2, <3>1 DEF SetWrite, Ledger!Declare
    <2>5. QED
      BY <2>2, <2>3, <2>4, SameHalves DEF Ledger!LedgerNext
  <1>2. ASSUME NEW w \in Workers, ClearWrite(w) PROVE Ledger!LedgerNext
    <2>1. pc[w] = "write" /\ req[w].op = "clear"
      BY <1>2 DEF ClearWrite
    <2>2. /\ req[w] \in Request /\ req[w].user \in Users /\ req[w].dates \in SUBSET Dates
          /\ Ledger!Open(req[w].user, req[w].dates)
      BY <2>1, WriteFindsOpen
    <2>3. req[w].half \in HalfArg
      BY <2>2 DEF Request
    <2>4. Ledger!Clear(req[w].user, req[w].dates, req[w].half)
      BY <1>2, <2>2, SameEdits DEF ClearWrite, Ledger!Clear
    <2>5. QED
      BY <2>2, <2>3, <2>4, SameHalves DEF Ledger!LedgerNext
  <1>3. ASSUME NEW w \in Workers, CertifyInsert(w) PROVE Ledger!LedgerNext
    <2>1. pc[w] = "write" /\ req[w].op = "certify" /\ req[w].user \in Users
      BY <1>3 DEF CertifyInsert, TypeInv, TypeOK, Request
    <2>2. PICK m \in Months : req[w].todo = {m}
      BY <2>1 DEF TypeInv, RequestShape
    <2>3. Ledger!Complete(presence[req[w].user], Declarable[req[w].user], m)
      BY <2>1, <2>2 DEF Undisturbed
    <2>4. certified' = certified \cup {<<req[w].user, m>>} /\ presence' = presence
      BY <1>3, <2>2 DEF CertifyInsert
    <2>5. QED
      BY <2>1, <2>3, <2>4 DEF Ledger!LedgerNext, Ledger!Certify
  <1>4. ASSUME NEW a \in Actors, NEW u \in Users, NEW m \in Months, DecertifyMonth(a, u, m)
        PROVE  Ledger!LedgerNext
    BY <1>4 DEF DecertifyMonth, Ledger!LedgerNext, Ledger!Decertify
  <1>5. ASSUME \/ \E w \in Workers :
                     \/ SetPresences(w) \/ ClearPresences(w) \/ CertifyMonth(w)
                     \/ CheckMonth(w) \/ LogPresenceAction(w) \/ Trigger(w)
                     \/ StatementFails(w) \/ TailFails(w) \/ CancelReservations(w)
               \/ \E u \in Users, m \in Months, turn \in BOOLEAN : TimerFires(u, m, turn)
               \/ Restart \/ UNCHANGED calendarVars
        PROVE  UNCHANGED <<presence, certified>>
    BY <1>5 DEF SetPresences, ClearPresences, CertifyMonth, CheckMonth, LogPresenceAction,
                Trigger, StatementFails, TailFails, CancelReservations, TimerFires, Restart,
                calendarVars
  <1>6. QED
    BY <1>1, <1>2, <1>3, <1>4, <1>5 DEF CalendarNext, RequestNext, Step, Write

LEMMA InitLedger == CalendarInit => Ledger!LedgerInit
  BY SameHalves DEF CalendarInit, Ledger!LedgerInit

(* However many requests there are, and whatever fails or restarts: while  *)
(* none acts on a check that was overtaken, the handlers implement the     *)
(* ledger, so that only complete months are certified and certified months *)
(* do not change.                                                          *)
THEOREM UndisturbedImplementsLedger == CalendarSpec /\ []Undisturbed => ImplementsLedger
  <1>1. QED
    BY InitLedger, UndisturbedStep, TypeCorrect, LateWritersAlwaysEarly, PTL
    DEF CalendarSpec, ImplementsLedger, Ledger!LedgerSpec

OneAtATime == \A v, w \in Workers : v = w

LEMMA OneAtATimeUndisturbed ==
    ASSUME OneAtATime, ~Faults, TypeInv, Undisturbed, [CalendarNext]_calendarVars
    PROVE  Undisturbed'
  <1> SUFFICES ASSUME NEW w \in Workers
               PROVE  /\ early'[w] = {}
                      /\ pc'[w] = "write" /\ req'[w].op = "certify" =>
                            \A m \in req'[w].todo :
                               Ledger!Complete(presence'[req'[w].user], Declarable[req'[w].user], m)
    BY DEF Undisturbed
  <1>0. /\ Workers = {w} /\ early[w] = {}
        /\ early \in [Workers -> SUBSET (Users \X Months)]
    BY DEF OneAtATime, Undisturbed, TypeInv, TypeOK
  <1>1. CASE SetPresences(w) \/ ClearPresences(w)
    BY <1>0, <1>1 DEF SetPresences, ClearPresences, Begin, TypeInv, TypeOK
  <1>2. CASE CertifyMonth(w)
    <2>1. PICK u \in Users, m \in Months :
             /\ Ledger!Complete(presence[u], Declarable[u], m)
             /\ Begin(w, [op |-> "certify", actor |-> u, user |-> u,
                          dates |-> Ledger!DatesOf(m), half |-> "none",
                          status |-> NoStatus, todo |-> {m}], "write")
      BY <1>2 DEF CertifyMonth
    <2>2. req'[w].user = u /\ req'[w].todo = {m}
      BY <2>1 DEF Begin, TypeInv, TypeOK
    <2>3. UNCHANGED <<presence, early>>
      BY <1>2 DEF CertifyMonth
    <2>4. QED
      BY <1>0, <2>1, <2>2, <2>3
  <1>3. CASE CheckMonth(w)
    <2>1. pc[w] = "check" /\ req[w] \in Request /\ req[w].op \in {"set", "clear"}
      BY <1>3 DEF CheckMonth, TypeInv, TypeOK, RequestShape
    <2>2. early' = early
      BY <1>3 DEF CheckMonth
    <2>3. pc'[w] = "idle" \/ req'[w].op = req[w].op
      BY <1>3, <2>1 DEF CheckMonth, Answer, TypeInv, TypeOK, Request
    <2>4. QED
      BY <1>0, <2>1, <2>2, <2>3
  <1>4. CASE SetWrite(w) \/ ClearWrite(w)
    BY <1>0, <1>4 DEF SetWrite, ClearWrite, Edited, Goto, TypeInv, TypeOK
  <1>5. CASE CertifyInsert(w)
    BY <1>0, <1>5 DEF CertifyInsert, PastCheck, Answer, TypeInv, TypeOK
  <1>6. CASE LogPresenceAction(w) \/ Trigger(w) \/ CancelReservations(w)
    BY <1>0, <1>6 DEF LogPresenceAction, AfterLog, Trigger, CancelReservations, Goto, Answer,
                      TypeInv, TypeOK
  <1>7. CASE \E a \in Actors, u \in Users, m \in Months : DecertifyMonth(a, u, m)
    <2>1. early'[w] = {} /\ UNCHANGED <<presence, pc, req>>
      BY <1>0, <1>7 DEF DecertifyMonth
    <2>2. QED
      BY <2>1 DEF Undisturbed
  <1>8. CASE \/ \E u \in Users, m \in Months, turn \in BOOLEAN : TimerFires(u, m, turn)
             \/ UNCHANGED calendarVars
    <2>1. UNCHANGED <<presence, pc, req, early>>
      BY <1>8 DEF TimerFires, calendarVars
    <2>2. QED
      BY <2>1 DEF Undisturbed
  <1>9. QED
    BY <1>0, <1>1, <1>2, <1>3, <1>4, <1>5, <1>6, <1>7, <1>8
    DEF CalendarNext, RequestNext, Step, Write, StatementFails, TailFails, Restart

(* A single worker without failures is never disturbed, so the handlers,   *)
(* run one after the other, implement the ledger.                          *)
THEOREM SerialImplementsLedger ==
    ASSUME OneAtATime, ~Faults
    PROVE  CalendarSpec => ImplementsLedger
  <1>1. CalendarInit => Undisturbed
    BY DEF CalendarInit, Undisturbed
  <1>2. TypeInv /\ Undisturbed /\ [CalendarNext]_calendarVars => Undisturbed'
    BY OneAtATimeUndisturbed
  <1>3. QED
    BY <1>1, <1>2, TypeCorrect, UndisturbedImplementsLedger, PTL DEF CalendarSpec

-----------------------------------------------------------------------------
(* The presence log.                                                       *)

Told(u, d) ==
    IF lastLog[u][d] = NoLog THEN presence[u][d] = NoDay
                             ELSE presence[u][d][lastLog[u][d].half] = lastLog[u][d].status

(* The newest write of the day is not waiting for its log row.             *)
NewestLogged(u, d) == \A w \in Workers : Unlogged(w, u, d) => d \in behind[w]

(* LastLogTellsState needs that a request not behind is about to log the   *)
(* day as it is, and that it holds while requests that are behind have yet *)
(* to log.                                                                 *)
LogFollows ==
    /\ \A w \in Workers :
          /\ pc[w] # "idle" /\ req[w].op = "clear" => req[w].status = NoStatus
          /\ pc[w] \notin {"scan", "cancel", "log"} => behind[w] = {}
    /\ \A w \in Workers, u \in Users, d \in Dates :
          Unlogged(w, u, d) /\ d \notin behind[w]
              => presence[u][d][FullByDefault(req[w].half)] = req[w].status
    /\ \A u \in Users, d \in Dates :
          <<u, d>> \notin astray /\ NewestLogged(u, d) => Told(u, d)

LEMMA InitLogFollows == CalendarInit => LogFollows
  BY DEF CalendarInit, LogFollows, Unlogged, Told

LEMMA FollowedLogTells == LogFollows => LastLogTellsState
  BY DEF LogFollows, NewestLogged, LastLogTellsState, Told

(* A step that leaves presences, log and its history alone, and no request *)
(* less logged, keeps the log.                                             *)
LEMMA LogUntouched ==
    ASSUME LogFollows, UNCHANGED <<presence, lastLog, behind, astray>>,
           \A w \in Workers, u \in Users, d \in Dates :
              /\ Unlogged(w, u, d)' <=> Unlogged(w, u, d)
              /\ Unlogged(w, u, d) => /\ req'[w].half = req[w].half
                                      /\ req'[w].status = req[w].status,
           \A w \in Workers :
              /\ pc'[w] # "idle" /\ req'[w].op = "clear" => req'[w].status = NoStatus
              /\ pc'[w] \notin {"scan", "cancel", "log"} => behind[w] = {}
    PROVE  LogFollows'
  BY DEF LogFollows, NewestLogged, Told

(* The edit of a day is what the request is about to log; those that have  *)
(* not logged theirs are behind.                                           *)
LEMMA WriteIsLogged ==
    ASSUME TypeInv, LogFollows, NEW w \in Workers, SetWrite(w) \/ ClearWrite(w)
    PROVE  LogFollows'
  <1> DEFINE x == req[w].user
  <1> DEFINE dates == req[w].dates
  <1> DEFINE h == FullByDefault(req[w].half)
  <1>1. pc[w] = "write" /\ req[w] \in Request /\ req[w].op \in {"set", "clear"}
    BY DEF SetWrite, ClearWrite, TypeInv, TypeOK
  <1>2. x \in Users /\ dates \subseteq Dates /\ h \in Half
    BY <1>1 DEF Request, FullByDefault, HalfArg, Half
  <1>3. presence \in [Users -> [Dates -> Day]]
    BY DEF TypeInv, TypeOK, Day, StatusValue
  <1>4. /\ \A u \in Users, d \in Dates : u # x \/ d \notin dates => presence'[u][d] = presence[u][d]
        /\ \A d \in dates : presence'[x][d][h] = req[w].status
    <2>1. CASE SetWrite(w)
      <3>1. req[w].half \in Half /\ h = req[w].half
        BY <1>1, <2>1 DEF SetWrite, TypeInv, RequestShape, FullByDefault, Half
      <3>2. presence' = [presence EXCEPT ![x] =
                            SetDays(presence[x], dates, req[w].half, req[w].status)]
        BY <2>1 DEF SetWrite
      <3>3. \A d \in Dates : SetDays(presence[x], dates, req[w].half, req[w].status)[d]
               = IF d \in dates THEN SetDay(presence[x][d], req[w].half, req[w].status)
                 ELSE presence[x][d]
        BY <1>2, <1>3 DEF SetDays
      <3>4. \A d \in Dates : SetDay(presence[x][d], req[w].half, req[w].status)[h] = req[w].status
        BY <3>1 DEF SetDay
      <3>5. QED
        BY <1>2, <1>3, <3>2, <3>3, <3>4
    <2>2. CASE ClearWrite(w)
      <3>1. req[w].status = NoStatus
        BY <1>1, <2>2 DEF ClearWrite, LogFollows
      <3>2. presence' = [presence EXCEPT ![x] = ClearDays(presence[x], dates, req[w].half)]
        BY <2>2 DEF ClearWrite
      <3>3. \A d \in Dates : ClearDays(presence[x], dates, req[w].half)[d]
               = IF d \in dates THEN ClearDay(presence[x][d], req[w].half) ELSE presence[x][d]
        BY <1>2, <1>3 DEF ClearDays
      <3>4. \A d \in Dates : ClearDay(presence[x][d], req[w].half)[h] = NoStatus
        BY <1>2 DEF ClearDay, FullByDefault
      <3>5. QED
        BY <1>2, <1>3, <3>1, <3>2, <3>3, <3>4
    <2>3. QED
      BY <2>1, <2>2
  <1>5. /\ pc'[w] \in {"scan", "cancel", "log"} /\ req' = req
        /\ lastLog' = lastLog /\ astray' = astray
        /\ \A v \in Workers : v # w => pc'[v] = pc[v]
    BY DEF SetWrite, ClearWrite, Goto, TypeInv, TypeOK
  <1>6. \A v \in Workers :
           behind'[v] = behind[v] \cup {d \in dates : Unlogged(v, x, d)}
    BY DEF SetWrite, ClearWrite, Edited
  <1>7. \A v \in Workers, u \in Users, d \in Dates :
           /\ v # w => (Unlogged(v, u, d)' <=> Unlogged(v, u, d))
           /\ ~Unlogged(w, u, d)
           /\ Unlogged(w, u, d)' <=> u = x /\ d \in dates
    BY <1>1, <1>5 DEF Unlogged
  <1>8. behind'[w] = {}
    BY <1>1, <1>2, <1>6, <1>7 DEF LogFollows
  <1>9. ASSUME NEW v \in Workers
        PROVE  /\ pc'[v] # "idle" /\ req'[v].op = "clear" => req'[v].status = NoStatus
               /\ pc'[v] \notin {"scan", "cancel", "log"} => behind'[v] = {}
    <2>1. CASE v = w
      BY <2>1, <1>1, <1>5, <1>8 DEF LogFollows
    <2>2. CASE v # w
      BY <2>2, <1>2, <1>5, <1>6 DEF LogFollows, Unlogged
    <2>3. QED
      BY <2>1, <2>2
  <1>10. ASSUME NEW v \in Workers, NEW u \in Users, NEW d \in Dates,
                Unlogged(v, u, d)', d \notin behind'[v]
         PROVE  presence'[u][d][FullByDefault(req'[v].half)] = req'[v].status
    <2>1. CASE v = w
      BY <2>1, <1>4, <1>5, <1>7, <1>10
    <2>2. CASE v # w
      <3>1. Unlogged(v, u, d) /\ d \notin behind[v] /\ (u # x \/ d \notin dates)
        BY <2>2, <1>6, <1>7, <1>10
      <3>2. QED
        BY <3>1, <1>4, <1>5 DEF LogFollows
    <2>3. QED
      BY <2>1, <2>2
  <1>11. ASSUME NEW u \in Users, NEW d \in Dates,
                <<u, d>> \notin astray', NewestLogged(u, d)'
         PROVE  Told(u, d)'
    <2>1. u # x \/ d \notin dates
      BY <1>7, <1>8, <1>11 DEF NewestLogged
    <2>2. \A v \in Workers : Unlogged(v, u, d) => d \in behind'[v]
      BY <1>7, <1>11 DEF NewestLogged
    <2>3. \A v \in Workers : Unlogged(v, u, d) => d \in behind[v]
      <3>1. ASSUME NEW v \in Workers, Unlogged(v, u, d), d \notin behind[v] PROVE FALSE
        <4>1. d \in dates /\ Unlogged(v, x, d)
          BY <1>6, <2>2, <3>1
        <4>2. u = x
          BY <3>1, <4>1 DEF Unlogged
        <4>3. QED
          BY <2>1, <4>1, <4>2
      <3>2. QED
        BY <3>1
    <2>4. QED
      BY <1>4, <1>5, <1>11, <2>1, <2>3 DEF LogFollows, NewestLogged, Told
  <1>12. QED
    BY <1>9, <1>10, <1>11 DEF LogFollows

(* What the end of a request's log step leaves, row or no row.             *)
LEMMA LogLeft ==
    ASSUME TypeInv, LogFollows, NEW w \in Workers, pc[w] = "log", AfterLog(w),
           UNCHANGED presence, behind' = [behind EXCEPT ![w] = {}]
    PROVE  /\ \A v \in Workers, u \in Users, d \in Dates :
                 /\ v # w => /\ Unlogged(v, u, d)' <=> Unlogged(v, u, d)
                             /\ req'[v] = req[v] /\ behind'[v] = behind[v]
                 /\ ~Unlogged(w, u, d)'
                 /\ Unlogged(w, u, d) <=> u = req[w].user /\ d \in req[w].dates
           /\ \A v \in Workers :
                 /\ pc'[v] # "idle" /\ req'[v].op = "clear" => req'[v].status = NoStatus
                 /\ pc'[v] \notin {"scan", "cancel", "log"} => behind'[v] = {}
           /\ \A v \in Workers, u \in Users, d \in Dates :
                 Unlogged(v, u, d)' /\ d \notin behind'[v]
                     => presence'[u][d][FullByDefault(req'[v].half)] = req'[v].status
  <1>1. /\ pc'[w] \in {"trigger", "idle"}
        /\ \A v \in Workers : v # w => pc'[v] = pc[v] /\ req'[v] = req[v]
        /\ pc'[w] = "trigger" => req'[w] = req[w]
    BY DEF AfterLog, Goto, Answer, TypeInv, TypeOK
  <1>2. behind'[w] = {} /\ \A v \in Workers : v # w => behind'[v] = behind[v]
    BY DEF TypeInv, TypeOK
  <1>3. \A v \in Workers, u \in Users, d \in Dates :
           /\ v # w => (Unlogged(v, u, d)' <=> Unlogged(v, u, d))
           /\ ~Unlogged(w, u, d)'
           /\ Unlogged(w, u, d) <=> u = req[w].user /\ d \in req[w].dates
    BY <1>1 DEF Unlogged
  <1>4. QED
    BY <1>1, <1>2, <1>3 DEF LogFollows

LEMMA LoggedTells ==
    ASSUME TypeInv, LogFollows, NEW w \in Workers, LogPresenceAction(w)
    PROVE  LogFollows'
  <1> DEFINE x == req[w].user
  <1> DEFINE entry == [action |-> req[w].op, actor |-> req[w].actor, status |-> req[w].status,
                       half |-> FullByDefault(req[w].half)]
  <1>1. pc[w] = "log" /\ req[w] \in Request
    BY DEF LogPresenceAction, TypeInv, TypeOK
  <1>2. x \in Users /\ req[w].dates \subseteq Dates
    BY <1>1 DEF Request
  <1>3. lastLog' = [lastLog EXCEPT ![x] =
                       [d \in Dates |-> IF d \in req[w].dates THEN entry ELSE @[d]]]
    BY DEF LogPresenceAction
  <1>4. entry.status = req[w].status /\ entry.half = FullByDefault(req[w].half)
    OBVIOUS
  <1>5. entry # NoLog
    <2>1. req[w].op \in {"set", "clear"}
      BY <1>1 DEF TypeInv, RequestShape
    <2>2. entry.action # NoLog.action
      BY <2>1 DEF NoLog
    <2>3. QED
      BY <2>2
  <1> HIDE DEF entry
  <1>6. \A u \in Users, d \in Dates :
           lastLog'[u][d] = IF u = x /\ d \in req[w].dates THEN entry ELSE lastLog[u][d]
    BY <1>2, <1>3 DEF TypeInv, TypeOK
  <1>7. /\ presence' = presence /\ AfterLog(w) /\ behind' = [behind EXCEPT ![w] = {}]
        /\ astray' = (astray \ ({x} \X req[w].dates)) \cup ({x} \X behind[w])
    BY DEF LogPresenceAction, Logged
  <1>8. ASSUME NEW u \in Users, NEW d \in Dates, <<u, d>> \notin astray', NewestLogged(u, d)'
        PROVE  Told(u, d)'
    <2>1. CASE u = x /\ d \in req[w].dates
      <3>1. d \notin behind[w]
        BY <1>7, <1>8, <2>1
      <3>2. presence[u][d][FullByDefault(req[w].half)] = req[w].status
        BY <1>1, <2>1, <3>1 DEF LogFollows, Unlogged
      <3>3. QED
        BY <2>1, <3>2, <1>4, <1>5, <1>6, <1>7 DEF Told
    <2>2. CASE ~(u = x /\ d \in req[w].dates)
      <3>1. <<u, d>> \notin astray
        BY <1>7, <1>8, <2>2
      <3>2. NewestLogged(u, d)
        BY <1>1, <1>7, <1>8, <2>2, LogLeft DEF NewestLogged
      <3>3. QED
        BY <2>2, <3>1, <3>2, <1>6, <1>7 DEF LogFollows, Told
    <2>3. QED
      BY <2>1, <2>2
  <1>9. QED
    BY <1>1, <1>7, <1>8, LogLeft DEF LogFollows

(* A log row that is not written leaves its days astray, unless a newer    *)
(* write tells or will tell them.                                          *)
LEMMA LogLost ==
    ASSUME TypeInv, LogFollows, NEW w \in Workers, TailFails(w), pc[w] = "log"
    PROVE  LogFollows'
  <1>1. /\ UNCHANGED <<presence, lastLog>> /\ AfterLog(w) /\ behind' = [behind EXCEPT ![w] = {}]
        /\ astray' = astray \cup ({req[w].user} \X (req[w].dates \ behind[w]))
    BY DEF TailFails
  <1>2. ASSUME NEW u \in Users, NEW d \in Dates, <<u, d>> \notin astray', NewestLogged(u, d)'
        PROVE  Told(u, d)'
    <2>1. <<u, d>> \notin astray /\ (Unlogged(w, u, d) => d \in behind[w])
      BY <1>1, <1>2, LogLeft
    <2>2. NewestLogged(u, d)
      BY <1>1, <1>2, <2>1, LogLeft DEF NewestLogged
    <2>3. QED
      BY <1>1, <2>1, <2>2 DEF LogFollows, Told
  <1>3. QED
    BY <1>1, <1>2, LogLeft DEF LogFollows

(* So does a restart.                                                      *)
LEMMA RestartLosesLogs ==
    ASSUME TypeInv, LogFollows, Restart
    PROVE  LogFollows'
  <1>1. /\ UNCHANGED <<presence, lastLog>>
        /\ \A w \in Workers : pc'[w] = "idle" /\ behind'[w] = {}
    BY DEF Restart
  <1>2. ASSUME NEW u \in Users, NEW d \in Dates, <<u, d>> \notin astray'
        PROVE  Told(u, d)'
    <2>1. <<u, d>> \notin astray /\ NewestLogged(u, d)
      BY <1>2 DEF Restart, NewestLogged
    <2>2. QED
      BY <1>1, <2>1 DEF LogFollows, Told
  <1>3. QED
    BY <1>1, <1>2 DEF LogFollows, Unlogged

LEMMA LogStep ==
    ASSUME TypeInv, LogFollows, [CalendarNext]_calendarVars
    PROVE  LogFollows'
  <1> USE DEF TypeInv, TypeOK
  <1>1. ASSUME NEW w \in Workers, SetPresences(w) \/ ClearPresences(w) \/ CertifyMonth(w)
        PROVE  LogFollows'
    <2>1. /\ pc[w] = "idle" /\ pc'[w] \in {"check", "write"}
          /\ req'[w].op = "clear" => req'[w].status = NoStatus
      BY <1>1 DEF SetPresences, ClearPresences, CertifyMonth, Begin
    <2>2. /\ \A v \in Workers : v # w => pc'[v] = pc[v] /\ req'[v] = req[v]
          /\ UNCHANGED <<presence, lastLog, behind, astray>>
      BY <1>1 DEF SetPresences, ClearPresences, CertifyMonth, Begin
    <2>3. \A v \in Workers, u \in Users, d \in Dates :
             /\ Unlogged(v, u, d)' <=> Unlogged(v, u, d)
             /\ Unlogged(v, u, d) => req'[v] = req[v]
      BY <2>1, <2>2 DEF Unlogged
    <2>4. \A v \in Workers :
             /\ pc'[v] # "idle" /\ req'[v].op = "clear" => req'[v].status = NoStatus
             /\ pc'[v] \notin {"scan", "cancel", "log"} => behind[v] = {}
      BY <2>1, <2>2 DEF LogFollows
    <2>5. QED
      BY <2>2, <2>3, <2>4, LogUntouched
  <1>2. ASSUME NEW w \in Workers, CheckMonth(w)
        PROVE  LogFollows'
    <2>1. pc[w] = "check" /\ req[w] \in Request
      BY <1>2 DEF CheckMonth
    <2>2. \/ pc'[w] = "idle"
          \/ pc'[w] \in {"check", "write"} /\ req'[w].op = req[w].op /\ req'[w].status = req[w].status
      BY <1>2, <2>1 DEF CheckMonth, Answer, Request
    <2>3. /\ \A v \in Workers : v # w => pc'[v] = pc[v] /\ req'[v] = req[v]
          /\ UNCHANGED <<presence, lastLog, behind, astray>>
      BY <1>2 DEF CheckMonth, Answer
    <2>4. QED
      BY <2>1, <2>2, <2>3, LogUntouched DEF LogFollows, Unlogged
  <1>3. ASSUME NEW w \in Workers, SetWrite(w) \/ ClearWrite(w)
        PROVE  LogFollows'
    BY <1>3, WriteIsLogged
  <1>4. ASSUME NEW w \in Workers, CancelReservations(w)
        PROVE  LogFollows'
    <2>1. /\ pc[w] \in {"scan", "cancel"} /\ pc'[w] \in {"cancel", "log"} /\ req' = req
          /\ \A v \in Workers : v # w => pc'[v] = pc[v]
          /\ UNCHANGED <<presence, lastLog, behind, astray>>
      BY <1>4 DEF CancelReservations, Goto
    <2>2. QED
      BY <2>1, LogUntouched DEF LogFollows, Unlogged
  <1>5. ASSUME NEW w \in Workers,
               \/ CertifyInsert(w) \/ Trigger(w) \/ StatementFails(w)
               \/ TailFails(w) /\ pc[w] # "log"
        PROVE  LogFollows'
    <2>1. /\ pc[w] \in {"check", "write", "trigger"} /\ pc'[w] = "idle"
          /\ \A v \in Workers : v # w => pc'[v] = pc[v] /\ req'[v] = req[v]
          /\ UNCHANGED <<presence, lastLog, behind, astray>>
      BY <1>5 DEF CertifyInsert, Trigger, StatementFails, TailFails, Answer
    <2>2. QED
      BY <2>1, LogUntouched DEF LogFollows, Unlogged
  <1>6. ASSUME NEW w \in Workers, LogPresenceAction(w)
        PROVE  LogFollows'
    BY <1>6, LoggedTells
  <1>7. ASSUME NEW w \in Workers, TailFails(w), pc[w] = "log"
        PROVE  LogFollows'
    BY <1>7, LogLost
  <1>8. CASE \/ \E a \in Actors, u \in Users, m \in Months : DecertifyMonth(a, u, m)
             \/ \E u \in Users, m \in Months, turn \in BOOLEAN : TimerFires(u, m, turn)
             \/ UNCHANGED calendarVars
    <2>1. UNCHANGED <<presence, lastLog, pc, req, behind, astray>>
      BY <1>8 DEF DecertifyMonth, TimerFires, calendarVars
    <2>2. QED
      BY <2>1, LogUntouched DEF LogFollows, Unlogged
  <1>9. CASE Restart
    BY <1>9, RestartLosesLogs
  <1>10. QED
    BY <1>1, <1>2, <1>3, <1>4, <1>5, <1>6, <1>7, <1>8, <1>9
    DEF CalendarNext, RequestNext, Step, Write

(* However many edits of a user overlap and whatever fails, the newest log *)
(* entry of a day tells the state of the row it names once the writes of   *)
(* the day are logged, unless a row was lost or came out of order.         *)
THEOREM LogTellsState == CalendarSpec => []LastLogTellsState
  <1>1. TypeInv /\ LogFollows /\ [CalendarNext]_calendarVars => LogFollows'
    BY LogStep
  <1>2. QED
    BY <1>1, InitLogFollows, FollowedLogTells, TypeCorrect, PTL DEF CalendarSpec

(* Neither happens while no statement fails and no two edits of a user are *)
(* in flight at once, however many users edit at once.                     *)
Editing(w) == pc[w] # "idle" /\ req[w].op # "certify"

EditsApart ==
    \A v, w \in Workers : Editing(v) /\ Editing(w) /\ req[v].user = req[w].user => v = w

NothingLost == astray = {} /\ \A w \in Workers : behind[w] = {}

LEMMA ApartLosesNothing ==
    ASSUME ~Faults, TypeInv, EditsApart, NothingLost, [CalendarNext]_calendarVars
    PROVE  NothingLost'
  <1>1. ASSUME NEW w \in Workers, SetWrite(w) \/ ClearWrite(w)
        PROVE  NothingLost'
    <2>1. pc[w] = "write" /\ req[w].op \in {"set", "clear"}
      BY <1>1 DEF SetWrite, ClearWrite
    <2>2. \A v \in Workers, d \in req[w].dates : ~Unlogged(v, req[w].user, d)
      BY <2>1 DEF EditsApart, Editing, Unlogged, TypeInv, RequestShape
    <2>3. \A v \in Workers :
             behind'[v] = behind[v] \cup {d \in req[w].dates : Unlogged(v, req[w].user, d)}
      BY <1>1 DEF SetWrite, ClearWrite, Edited
    <2>4. QED
      BY <1>1, <2>2, <2>3 DEF SetWrite, ClearWrite, NothingLost
  <1>2. ASSUME NEW w \in Workers, LogPresenceAction(w)
        PROVE  NothingLost'
    BY <1>2 DEF LogPresenceAction, Logged, NothingLost, TypeInv, TypeOK
  <1>3. CASE UNCHANGED <<behind, astray>>
    BY <1>3 DEF NothingLost
  <1>4. QED
    BY <1>1, <1>2, <1>3
    DEF CalendarNext, RequestNext, Step, Write, calendarVars, SetPresences, ClearPresences,
        CertifyMonth, CheckMonth, CertifyInsert, Trigger, StatementFails, TailFails,
        CancelReservations, DecertifyMonth, TimerFires, Restart

(* So then the newest log entry always tells the state.                    *)
THEOREM ApartLogTellsAll ==
    ASSUME ~Faults
    PROVE  CalendarSpec /\ []EditsApart => [](LastLogTellsState /\ astray = {})
  <1>1. CalendarInit => NothingLost
    BY DEF CalendarInit, NothingLost
  <1>2. TypeInv /\ EditsApart /\ NothingLost /\ [CalendarNext]_calendarVars => NothingLost'
    BY ApartLosesNothing
  <1>3. NothingLost => astray = {}
    BY DEF NothingLost
  <1>4. QED
    BY <1>1, <1>2, <1>3, TypeCorrect, LogTellsState, PTL DEF CalendarSpec
=============================================================================
