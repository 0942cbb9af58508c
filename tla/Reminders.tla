------------------------------ MODULE Reminders ------------------------------
(***************************************************************************)
(* The reminders worker (internal/reminders/service.go), the forced run of *)
(* an administrator, and the notifications they write                      *)
(* (internal/db/notifications.go, internal/handlers/notifications.go).     *)
(* A run reads and writes one member and one kind at a time, beside edits, *)
(* acknowledgements and the other run; the worker's memory of the day it   *)
(* last ran is lost in a restart.                                          *)
(***************************************************************************)
EXTENDS Naturals, FiniteSets

CONSTANTS Members,
          Crews,           \* the teams that remind their members
          Horizon,         \* per team and kind, how many working days it looks at; 0 is off
          LastDay,         \* the dates are 1 .. LastDay
          Weekends,        \* those of them that are Saturdays and Sundays
          Vacations,         \* per member, the holidays
          FirstDate,       \* the date a behaviour begins on
          DaysAtFirst,     \* what the members' dates may hold then
          MaxNotices,      \* notifications in a behaviour (a bound)
          MaxUpsets        \* edits and failures in a behaviour (a bound)

Kinds == {"presence", "activity"}

ReminderDates == 1 .. LastDay

(* A date without presence, with one, with a billable one, and with        *)
(* activities that reach the billable weight.                              *)
DayState == {"none", "declared", "billable", "covered"}

ASSUME RemindersAssumption ==
    /\ Members # {} /\ Crews # {}
    /\ Horizon \in [Crews -> [Kinds -> Nat]]
    /\ LastDay \in Nat \ {0} /\ FirstDate \in ReminderDates
    /\ Vacations \in [Members -> SUBSET ReminderDates]
    /\ DaysAtFirst \subseteq [Members -> [ReminderDates -> DayState]]
    /\ MaxNotices \in Nat /\ MaxUpsets \in Nat

VARIABLES
    thisDay,
    window,       \* it is between 09:00 and 09:05
    lastRunDate,  \* of the worker; 0 since its start
    crew,         \* team_members, by team
    inactive,     \* disabled users
    day,          \* what each member's dates hold
    notices,      \* notifications
    run,          \* the runs of CheckAndSendReminders
    (* History variables, never read by the code. *)
    upsets,       \* edits and failures so far
    steady        \* members nothing happened to since the worker's run began

remindersVars == <<thisDay, window, lastRunDate, crew, inactive, day, notices, run, upsets, steady>>

(* blind is history: the lookup before it had failed.                      *)
Notice == [id : 1 .. MaxNotices, to : Members, kind : Kinds \cup {"info"}, date : ReminderDates,
           by : {"worker", "forced", "admin"}, blind : BOOLEAN, acknowledged : BOOLEAN]

NoRun == [step |-> "idle"]

Run == [step : {"team", "look", "read", "send"}, forced : BOOLEAN,
        teams : SUBSET Crews,                \* not begun
        left : SUBSET (Members \X Kinds),    \* of the team begun
        team : Crews, to : Members, kind : Kinds, blind : BOOLEAN]

RemindersTypeOK ==
    /\ thisDay \in ReminderDates /\ window \in BOOLEAN /\ lastRunDate \in ReminderDates \cup {0}
    /\ crew \in [Crews -> SUBSET Members] /\ inactive \subseteq Members
    /\ day \in [Members -> [ReminderDates -> DayState]]
    /\ notices \subseteq Notice
    /\ run \in [{"worker", "forced"} -> Run \cup {NoRun}]
    /\ upsets \in 0 .. MaxUpsets /\ steady \subseteq Members

RemindersInit ==
    /\ thisDay = FirstDate /\ window = FALSE /\ lastRunDate = 0
    /\ crew = [t \in Crews |-> Members] /\ inactive = {}
    /\ day \in DaysAtFirst
    /\ notices = {} /\ run = [r \in {"worker", "forced"} |-> NoRun]
    /\ upsets = 0 /\ steady = {}

-----------------------------------------------------------------------------
(* What a member is reminded of.                                           *)

WorkingDates(off) == ReminderDates \ (Weekends \cup off)

(* The first n working days from today on, and the last n before it.       *)
UpcomingWorkingDays(off, n) ==
    {d \in WorkingDates(off) :
        d >= thisDay /\ Cardinality(WorkingDates(off) \cap thisDay .. d) <= n}
PastWorkingDays(off, n) ==
    {d \in WorkingDates(off) :
        d < thisDay /\ Cardinality(WorkingDates(off) \cap d .. thisDay - 1) <= n}

(* Lacking(m, kind, n, off): with these holidays, m has something of this  *)
(* kind to complete.                                                       *)
Lacking(m, kind, n, off) ==
    IF kind = "presence" THEN \E d \in UpcomingWorkingDays(off, n) : day[m][d] = "none"
                         ELSE \E d \in PastWorkingDays(off, n) : day[m][d] = "billable"

(* The lookup counts what is still unread.                                 *)
HasUnreadToday(m, kind) ==
    \E n \in notices : n.to = m /\ n.kind = kind /\ n.date = thisDay /\ ~n.acknowledged

(* The lookup does not tell one kind of reminder from the other.           *)
HasReminderToday(m, kind) ==
    \E n \in notices : n.to = m /\ n.kind # "info" /\ n.date = thisDay

HasNotificationToday(m, kind) ==
    \E n \in notices : n.to = m /\ n.kind = kind /\ n.date = thisDay

NewId == CHOOSE i \in 1 .. MaxNotices : \A n \in notices : n.id # i

-----------------------------------------------------------------------------
(* A run of CheckAndSendReminders.                                         *)

Upset == upsets < MaxUpsets /\ upsets' = upsets + 1

BeginRun(r, teams) ==
    run' = [run EXCEPT ![r] =
        [step |-> "team", forced |-> r = "forced", teams |-> teams, left |-> {},
         team |-> CHOOSE t \in Crews : TRUE, to |-> CHOOSE m \in Members : TRUE,
         kind |-> "presence", blind |-> FALSE]]

(* A tick in the window of a weekday on which the worker has not run; if   *)
(* the teams cannot be listed the day counts as run all the same.          *)
WorkerTick ==
    /\ window /\ thisDay \notin Weekends /\ lastRunDate # thisDay
    /\ run["worker"] = NoRun
    /\ lastRunDate' = thisDay
    /\ \/ BeginRun("worker", Crews) /\ steady' = Members /\ UNCHANGED upsets
       \/ Upset /\ UNCHANGED <<run, steady>>
    /\ UNCHANGED <<thisDay, window, crew, inactive, day, notices>>

(* POST /api/admin/teams/{id}/remind: one team, whatever was sent today.   *)
TriggerTeamReminders(t) ==
    /\ run["forced"] = NoRun
    /\ BeginRun("forced", {t})
    /\ UNCHANGED <<thisDay, window, lastRunDate, crew, inactive, day, notices, upsets, steady>>

(* With nobody left of this team, on to the next one, or to the end.       *)
Onward(r, left) ==
    run' = [run EXCEPT ![r] =
        IF left # {} THEN [@ EXCEPT !.step = "look", !.left = left]
        ELSE IF run[r].teams # {} THEN [@ EXCEPT !.step = "team", !.left = {}]
        ELSE NoRun]

(* The members of a team, read at once; a failure skips the team.          *)
OpenTeam(r) ==
    /\ run[r].step = "team"
    /\ \E t \in run[r].teams :
         LET kinds == {k \in Kinds : Horizon[t][k] > 0}
             rest == run[r].teams \ {t}
             left == (crew[t] \ inactive) \X kinds
         IN  \/ /\ run' = [run EXCEPT ![r] =
                       IF left # {}
                       THEN [@ EXCEPT !.step = "look", !.team = t, !.teams = rest, !.left = left]
                       ELSE IF rest # {} THEN [@ EXCEPT !.teams = rest] ELSE NoRun]
                /\ UNCHANGED <<upsets, steady>>
             \/ /\ Upset
                /\ run' = [run EXCEPT ![r] =
                       IF rest # {} THEN [@ EXCEPT !.teams = rest] ELSE NoRun]
                /\ steady' = steady \ crew[t]
    /\ UNCHANGED <<thisDay, window, lastRunDate, crew, inactive, day, notices>>

(* Presence before activity, unless the run is forced past the lookup;     *)
(* a lookup that fails counts as nothing sent.                             *)
LookUp(r) ==
    /\ run[r].step = "look"
    /\ \E p \in run[r].left :
         LET Read(blind) == run' = [run EXCEPT ![r].step = "read", ![r].to = p[1],
                                               ![r].kind = p[2], ![r].blind = blind,
                                               ![r].left = @ \ {p}]
         IN  /\ p[2] = "activity" => <<p[1], "presence">> \notin run[r].left
             /\ \/ /\ run[r].forced \/ ~HasNotificationToday(p[1], p[2])
                   /\ Read(FALSE) /\ UNCHANGED upsets
                \/ /\ ~run[r].forced /\ HasNotificationToday(p[1], p[2])
                   /\ Onward(r, run[r].left \ {p}) /\ UNCHANGED upsets
                \/ ~run[r].forced /\ Upset /\ Read(TRUE)
    /\ UNCHANGED <<thisDay, window, lastRunDate, crew, inactive, day, notices, steady>>

(* The holidays, then the days: without the holidays every weekday is a    *)
(* working day, without the days nobody is reminded.                       *)
CheckDays(r) ==
    /\ run[r].step = "read"
    /\ LET m == run[r].to
           n == Horizon[run[r].team][run[r].kind]
           Decide(off) == IF Lacking(m, run[r].kind, n, off)
                          THEN run' = [run EXCEPT ![r].step = "send"]
                          ELSE Onward(r, run[r].left)
       IN  \/ Decide(Vacations[m]) /\ UNCHANGED <<upsets, steady>>
           \/ Upset /\ steady' = steady \ {m} /\ (Decide({}) \/ Onward(r, run[r].left))
    /\ UNCHANGED <<thisDay, window, lastRunDate, crew, inactive, day, notices>>

(* CreateNotification; a failure is not retried.                           *)
Send(r) ==
    /\ run[r].step = "send"
    /\ \/ /\ Cardinality(notices) < MaxNotices
          /\ notices' = notices \cup
                {[id |-> NewId, to |-> run[r].to, kind |-> run[r].kind, date |-> thisDay,
                  by |-> r, blind |-> run[r].blind, acknowledged |-> FALSE]}
          /\ UNCHANGED <<upsets, steady>>
       \/ Upset /\ steady' = steady \ {run[r].to} /\ UNCHANGED notices
    /\ Onward(r, run[r].left)
    /\ UNCHANGED <<thisDay, window, lastRunDate, crew, inactive, day>>

-----------------------------------------------------------------------------
(* Everything else that happens meanwhile.                                 *)

(* The clock.  A run is over well before midnight.                         *)
Clock ==
    /\ \/ ~window /\ window' = TRUE /\ UNCHANGED thisDay
       \/ /\ \A r \in DOMAIN run : run[r] = NoRun
          /\ thisDay < LastDay
          /\ thisDay' = thisDay + 1 /\ window' = FALSE
    /\ UNCHANGED <<lastRunDate, crew, inactive, day, notices, run, upsets, steady>>

(* A presence or the activities of a date are edited.                      *)
EditDay(m, d, s) ==
    /\ Upset /\ day[m][d] # s
    /\ day' = [day EXCEPT ![m][d] = s]
    /\ steady' = steady \ {m}
    /\ UNCHANGED <<thisDay, window, lastRunDate, crew, inactive, notices, run>>

(* A member leaves a team or joins it again.                               *)
EditCrew(m, t) ==
    /\ Upset
    /\ crew' = [crew EXCEPT ![t] = IF m \in @ THEN @ \ {m} ELSE @ \cup {m}]
    /\ steady' = steady \ {m}
    /\ UNCHANGED <<thisDay, window, lastRunDate, inactive, day, notices, run>>

SetDisabled(m) ==
    /\ Upset
    /\ inactive' = IF m \in inactive THEN inactive \ {m} ELSE inactive \cup {m}
    /\ steady' = steady \ {m}
    /\ UNCHANGED <<thisDay, window, lastRunDate, crew, day, notices, run>>

AcknowledgeNotification(n) ==
    /\ n \in notices /\ ~n.acknowledged
    /\ notices' = (notices \ {n}) \cup {[n EXCEPT !.acknowledged = TRUE]}
    /\ UNCHANGED <<thisDay, window, lastRunDate, crew, inactive, day, run, upsets, steady>>

AdminDeleteNotification(n) ==
    /\ n \in notices /\ Upset
    /\ notices' = notices \ {n}
    /\ steady' = steady \ {n.to}
    /\ UNCHANGED <<thisDay, window, lastRunDate, crew, inactive, day, run>>

(* The active ones of a team, of any type; one statement and one           *)
(* transaction for all.                                                    *)
AdminSendNotification(t, kind) ==
    /\ Upset
    /\ LET to == crew[t] \ inactive
       IN  /\ Cardinality(notices) + Cardinality(to) <= MaxNotices
           /\ \E ids \in [to -> 1 .. MaxNotices] :
                /\ \A m, o \in to : m # o => ids[m] # ids[o]
                /\ \A m \in to, n \in notices : ids[m] # n.id
                /\ notices' = notices \cup
                     {[id |-> ids[m], to |-> m, kind |-> kind, date |-> thisDay, by |-> "admin",
                       blind |-> FALSE, acknowledged |-> FALSE] : m \in to}
    /\ UNCHANGED <<thisDay, window, lastRunDate, crew, inactive, day, run, steady>>

RestartReminders ==
    /\ Upset
    /\ lastRunDate' = 0 /\ run' = [r \in DOMAIN run |-> NoRun] /\ steady' = {}
    /\ UNCHANGED <<thisDay, window, crew, inactive, day, notices>>

RemindersNext ==
    \/ WorkerTick
    \/ \E t \in Crews : TriggerTeamReminders(t)
    \/ \E r \in DOMAIN run : OpenTeam(r) \/ LookUp(r) \/ CheckDays(r) \/ Send(r)
    \/ Clock
    \/ \E m \in Members : \E d \in ReminderDates, s \in DayState : EditDay(m, d, s)
    \/ \E m \in Members : SetDisabled(m) \/ \E t \in Crews : EditCrew(m, t)
    \/ \E n \in notices : AcknowledgeNotification(n) \/ AdminDeleteNotification(n)
    \/ \E t \in Crews, k \in Kinds \cup {"info"} : AdminSendNotification(t, k)
    \/ RestartReminders

RemindersSpec == RemindersInit /\ [][RemindersNext]_remindersVars

-----------------------------------------------------------------------------
(* Properties.                                                             *)

(* However many teams someone is in, whatever restarts the worker within   *)
(* its window and whatever was acknowledged meanwhile, the worker reminds  *)
(* nobody of the same thing twice in a day, unless its lookup had failed   *)
(* (HasNotificationToday before CreateNotification).                       *)
RemindedOnceADay ==
    \A m, n \in notices :
        /\ m # n /\ m.by = "worker" /\ n.by = "worker"
        /\ m.to = n.to /\ m.kind = n.kind /\ m.date = n.date
        => m.blind \/ n.blind

Told(m, kind) == \E n \in notices : n.to = m /\ n.kind = kind /\ n.date = thisDay

Owed(m, kind) ==
    \E t \in Crews : m \in crew[t] /\ Lacking(m, kind, Horizon[t][kind], Vacations[m])

(* When the worker's run ends, every active member who still has something *)
(* to complete by the measure of one of the teams has a notification of    *)
(* that kind of the day, but for those whom an edit or a failure touched   *)
(* since the run began.                                                    *)
NobodyForgotten ==
    [][run["worker"] # NoRun /\ run'["worker"] = NoRun
       => \A m \in steady' \ inactive, k \in Kinds : Owed(m, k) => Told(m, k)']_remindersVars
=============================================================================
