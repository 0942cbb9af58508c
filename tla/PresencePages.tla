---------------------------- MODULE PresencePages ----------------------------
(***************************************************************************)
(* What is shown of presences and of their log: the calendar page of one   *)
(* viewer with the table of the team (handlers/calendar.go), and the log   *)
(* pages (handlers/admin.go, settings.go, admin_users.go).  The calendar   *)
(* reads one table after another while presences are edited, each edit     *)
(* being a write and then a log row, and while members come and go.        *)
(***************************************************************************)
EXTENDS Naturals, Sequences, FiniteSets

CONSTANTS Colleagues,      \* who may be members of the team shown
          Viewer,          \* whose page it is
          TeamManagers,    \* may edit everyone's presences, the others their own
          CalendarDates,   \* the dates of the month shown
          StatusNames,
          LogLimit,        \* rows a log page lists at most
          MaxPageEvents,   \* edits, failures and ticks in a behaviour (a bound)
          MaxSeconds       \* the clock's range (a bound)

TheMonth == 0              \* stands for the month in what a page has seen change

ASSUME PresencePagesAssumption ==
    /\ TheMonth \notin CalendarDates
    /\ Viewer \in Colleagues /\ TeamManagers \subseteq Colleagues
    /\ LogLimit \in Nat \ {0} /\ MaxPageEvents \in Nat /\ MaxSeconds \in Nat \ {0}

VARIABLES
    cell,       \* presences: the status of each person and date, or "none"
    logbook,    \* presence_logs, in the order of their ids
    second,     \* the clock, to the second of created_at
    pending,    \* per person who edits, what was written and is not logged
    roster,     \* user_teams
    ratified,   \* declaration_certifications of the month
    view,       \* the calendar page being built
    pageEvents  \* edits, failures and ticks so far (history)

pagesVars == <<cell, logbook, second, pending, roster, ratified, view, pageEvents>>

LogRow == [user : Colleagues, actor : Colleagues, date : CalendarDates,
           action : {"set", "clear"}, at : 1 .. MaxSeconds]

Awaited == [user : Colleagues, actor : Colleagues, date : CalendarDates, action : {"set", "clear"}]
NotPending == [action |-> "none"]

Marked == [actor : Colleagues, action : {"set", "clear"}]
NoMark == [actor |-> "nobody", action |-> "none"]

Cells == [CalendarDates -> StatusNames \cup {"none"}]
MarksOfDates == [CalendarDates -> Marked \cup {NoMark}]

(* A row without a departure date, with one within the month shown, with   *)
(* an earlier one, or no row.                                              *)
Membership == {"member", "departed", "left", "gone"}

NoView == [step |-> "none"]

(* crossed and blind are history: what was written since the page began,   *)
(* and whether a query whose error is dropped failed.                      *)
View == [step : {"marks", "lock", "team", "members", "cells", "memberMarks", "locks", "shown"},
          own : Cells, ownMarks : MarksOfDates, ownLock : BOOLEAN,
          members : SUBSET Colleagues, cells : [Colleagues -> Cells],
          marks : [Colleagues -> MarksOfDates], locks : SUBSET Colleagues,
          crossed : SUBSET (Colleagues \X (CalendarDates \cup {TheMonth})), blind : BOOLEAN]

PresencePagesTypeOK ==
    /\ cell \in [Colleagues -> Cells]
    /\ logbook \in Seq(LogRow)
    /\ second \in 1 .. MaxSeconds
    /\ pending \in [Colleagues -> Awaited \cup {NotPending}]
    /\ roster \in [Colleagues -> Membership]
    /\ ratified \subseteq Colleagues
    /\ view \in View \cup {NoView}
    /\ pageEvents \in 0 .. MaxPageEvents

PresencePagesInit ==
    /\ cell = [p \in Colleagues |-> [d \in CalendarDates |-> "none"]]
    /\ logbook = <<>> /\ second = 1
    /\ pending = [a \in Colleagues |-> NotPending]
    /\ roster = [p \in Colleagues |-> "member"]
    /\ ratified = {} /\ view = NoView /\ pageEvents = 0

-----------------------------------------------------------------------------
(* The queries.                                                            *)

(* The last row of each date by created_at and id, if somebody else wrote  *)
(* it.                                                                     *)
LogRowsOf(p, d) == {i \in DOMAIN logbook : logbook[i].user = p /\ logbook[i].date = d}
Latest(rows) == CHOOSE i \in rows : \A j \in rows : j <= i

OverrideOf(row) == IF row.actor = row.user THEN NoMark
                   ELSE [actor |-> row.actor, action |-> row.action]

GetPresenceOverrides(people) ==
    [p \in Colleagues |-> [d \in CalendarDates |->
        IF p \in people /\ LogRowsOf(p, d) # {} THEN OverrideOf(logbook[Latest(LogRowsOf(p, d))])
                                             ELSE NoMark]]

GetPresences(people) ==
    [p \in Colleagues |-> IF p \in people THEN cell[p] ELSE [d \in CalendarDates |-> "none"]]

(* GetTeamMembersAt, GetAllTeamMembers and GetTeamMembers.                 *)
MembersOfMonth == {p \in Colleagues : roster[p] \in {"member", "departed"}}
AllMembers == {p \in Colleagues : roster[p] # "gone"}
PresentMembers == {p \in Colleagues : roster[p] = "member"}

LoggedSince(people, since) ==
    {i \in DOMAIN logbook : logbook[i].user \in people /\ logbook[i].at >= since}

Foremost(rows) == {i \in rows : Cardinality({j \in rows : j > i}) < LogLimit}

GetTeamLogsOfPresent(people, since) ==
    Foremost(LoggedSince(people \cap PresentMembers, since))

(* Newest first by created_at and id, LogLimit rows at most; departed      *)
(* members are included.                                                   *)
GetTeamLogs(people, since) == Foremost(LoggedSince(people \cap AllMembers, since))

(* The rows of one person are ordered by created_at alone: the pages that  *)
(* may be answered.                                                        *)
GetUserLogs(p, since) ==
    LET logged == LoggedSince({p}, since)
    IN  {rows \in SUBSET logged :
            /\ Cardinality(rows) = IF Cardinality(logged) < LogLimit THEN Cardinality(logged)
                                                                   ELSE LogLimit
            /\ \A i \in rows, j \in logged \ rows : logbook[j].at <= logbook[i].at}

(* The row may be the first of its date on one of the pages.               *)
MayLead(i, pages) ==
    \E rows \in pages :
        i \in rows /\ \A j \in rows :
            logbook[j].date = logbook[i].date => logbook[j].at <= logbook[i].at

-----------------------------------------------------------------------------
(* The log pages, of a period that the reader chooses: of the team or of   *)
(* one member of it, of a person for those who manage the person, and of   *)
(* oneself.                                                                *)

TeamLogsPage(reader, people, since) ==
    IF reader \in TeamManagers THEN GetTeamLogs(people, since) ELSE {}

MemberLogsPage(reader, p, since) ==
    IF reader \in TeamManagers THEN GetUserLogs(p, since) ELSE {{}}

MyLogsPage(reader, since) == GetUserLogs(reader, since)

-----------------------------------------------------------------------------
(* Edits.  The lookup of the certification is part of the write here;      *)
(* Calendar has them apart.                                                *)

Crossed(what) == IF view = NoView THEN view
                 ELSE [view EXCEPT !.crossed = @ \cup what]

PageEvent == pageEvents < MaxPageEvents /\ pageEvents' = pageEvents + 1

MayEdit(a, p) == a = p \/ a \in TeamManagers

(* SetPresences and ClearPresences up to the log.                          *)
EditPresence(a, p, d, s) ==
    /\ MayEdit(a, p) /\ pending[a] = NotPending /\ p \notin ratified
    /\ PageEvent
    /\ cell' = [cell EXCEPT ![p][d] = s]
    /\ pending' = [pending EXCEPT ![a] =
          [user |-> p, actor |-> a, date |-> d,
           action |-> IF s = "none" THEN "clear" ELSE "set"]]
    /\ view' = Crossed({<<p, d>>})
    /\ UNCHANGED <<logbook, second, roster, ratified>>

LogEdit(a) ==
    /\ pending[a] # NotPending
    /\ logbook' = Append(logbook,
          [user |-> pending[a].user, actor |-> a, date |-> pending[a].date,
           action |-> pending[a].action, at |-> second])
    /\ pending' = [pending EXCEPT ![a] = NotPending]
    /\ view' = Crossed({<<pending[a].user, pending[a].date>>})
    /\ UNCHANGED <<cell, second, roster, ratified, pageEvents>>

(* A log that fails is a line in the server's own log.                     *)
LogFails(a) ==
    /\ pending[a] # NotPending
    /\ pending' = [pending EXCEPT ![a] = NotPending] /\ PageEvent
    /\ UNCHANGED <<cell, logbook, second, roster, ratified, view>>

Ratify(p) ==
    /\ PageEvent
    /\ p \notin ratified /\ \A d \in CalendarDates : cell[p][d] # "none"
    /\ ratified' = ratified \cup {p}
    /\ view' = Crossed({<<p, TheMonth>>})
    /\ UNCHANGED <<cell, logbook, second, pending, roster>>

Unratify(p) ==
    /\ PageEvent
    /\ p \in ratified
    /\ ratified' = ratified \ {p}
    /\ view' = Crossed({<<p, TheMonth>>})
    /\ UNCHANGED <<cell, logbook, second, pending, roster>>

(* A departure date, a removal, or a return.                               *)
EditRoster(p, state) ==
    /\ roster[p] # state /\ PageEvent
    /\ roster' = [roster EXCEPT ![p] = state]
    /\ view' = Crossed({p} \X (CalendarDates \cup {TheMonth}))
    /\ UNCHANGED <<cell, logbook, second, pending, ratified>>

SecondPasses ==
    /\ second < MaxSeconds /\ second' = second + 1
    /\ PageEvent
    /\ UNCHANGED <<cell, logbook, pending, roster, ratified, view>>

-----------------------------------------------------------------------------
(* CalendarPage.                                                           *)

PageReads == UNCHANGED <<cell, logbook, second, pending, roster, ratified, pageEvents>>

(* An error of this query ends the page.                                   *)
CalendarPage ==
    /\ view = NoView
    /\ view' = [step |-> "marks", own |-> GetPresences({Viewer})[Viewer],
                 ownMarks |-> GetPresenceOverrides({})[Viewer], ownLock |-> FALSE, members |-> {},
                 cells |-> GetPresences({}), marks |-> GetPresenceOverrides({}), locks |-> {},
                 crossed |-> {}, blind |-> FALSE]
    /\ PageReads

(* The others count for nothing when they fail, and the page goes on.      *)
Fill(step, next, filled) ==
    /\ view.step = step
    /\ view' = [filled EXCEPT !.step = next]
    /\ PageReads
Missed(step, next) ==
    /\ view.step = step
    /\ view' = [view EXCEPT !.step = next, !.blind = TRUE]
    /\ PageEvent
    /\ UNCHANGED <<cell, logbook, second, pending, roster, ratified>>

ReadOwnMarks ==
    \/ Fill("marks", "lock", [view EXCEPT !.ownMarks = GetPresenceOverrides({Viewer})[Viewer]])
    \/ Missed("marks", "lock")
ReadOwnLock ==
    \/ Fill("lock", "team", [view EXCEPT !.ownLock = Viewer \in ratified])
    \/ Missed("lock", "team")

(* GetUserTeams names the teams one has not left; a team without members   *)
(* of the month is left out.                                               *)
ReadOwnTeams ==
    \/ Fill("team", IF Viewer \in PresentMembers THEN "members" ELSE "shown", view)
    \/ Missed("team", "shown")
ReadMembers ==
    \/ Fill("members", IF MembersOfMonth = {} THEN "shown" ELSE "cells",
             [view EXCEPT !.members = MembersOfMonth])
    \/ Missed("members", "shown")

ReadCells ==
    \/ Fill("cells", "memberMarks", [view EXCEPT !.cells = GetPresences(view.members)])
    \/ Missed("cells", "memberMarks")
ReadMemberMarks ==
    \/ Fill("memberMarks", "locks", [view EXCEPT !.marks = GetPresenceOverrides(view.members)])
    \/ Missed("memberMarks", "locks")
ReadLocks ==
    \/ Fill("locks", "shown", [view EXCEPT !.locks = ratified \cap view.members])
    \/ Missed("locks", "shown")

CloseView == view.step = "shown" /\ view' = NoView /\ PageReads

PresencePagesNext ==
    \/ \E a \in Colleagues :
          \/ \E p \in Colleagues, d \in CalendarDates, s \in StatusNames \cup {"none"} :
                EditPresence(a, p, d, s)
          \/ LogEdit(a) \/ LogFails(a)
    \/ \E p \in Colleagues : Ratify(p) \/ Unratify(p)
    \/ \E p \in Colleagues, x \in Membership : EditRoster(p, x)
    \/ SecondPasses
    \/ CalendarPage \/ ReadOwnMarks \/ ReadOwnLock \/ ReadOwnTeams
    \/ ReadMembers \/ ReadCells \/ ReadMemberMarks \/ ReadLocks \/ CloseView

PresencePagesSpec == PresencePagesInit /\ [][PresencePagesNext]_pagesVars

-----------------------------------------------------------------------------
(* Properties.                                                             *)

(* One's own calendar and one's row in the team's table are the same.      *)
OwnRowAgrees(d) ==
    Viewer \in view.members =>
        /\ view.own[d] = view.cells[Viewer][d]
        /\ view.ownMarks[d] = view.marks[Viewer][d]

(* A date marked as changed by somebody else is so explained by the first  *)
(* row the team's log page lists for it, and a date whose first row is     *)
(* somebody else's is marked, however far back the page looks, for the     *)
(* whole team or for the member; the member's own page may begin with it.  *)
MarkExplained(p, d) ==
    \A reader \in TeamManagers, people \in {Colleagues, {p}}, since \in 1 .. second :
        LET rows == TeamLogsPage(reader, people, since)
            of == rows \cap LogRowsOf(p, d)
            reaches == Cardinality(rows) < LogLimit
                       /\ \E i \in LogRowsOf(p, d) : logbook[i].at >= since
        IN  /\ view.marks[p][d] # NoMark /\ reaches => of # {}
            /\ of # {} =>
                  /\ view.marks[p][d] = OverrideOf(logbook[Latest(of)])
                  /\ MayLead(Latest(of), MemberLogsPage(reader, p, since))
                  /\ MayLead(Latest(of), MyLogsPage(p, since))

(* Whatever is edited between its queries, a calendar page whose queries   *)
(* all succeeded contradicts itself, or the log pages opened beside it, at *)
(* no date but those that were edited since it began.                      *)
PagesAgree ==
    view.step = "shown" /\ ~view.blind =>
        /\ \A d \in CalendarDates :
              /\ <<Viewer, d>> \notin view.crossed => OwnRowAgrees(d)
              /\ \A p \in view.members : <<p, d>> \notin view.crossed => MarkExplained(p, d)
        /\ Viewer \in view.members /\ <<Viewer, TheMonth>> \notin view.crossed
              => (view.ownLock <=> Viewer \in view.locks)
=============================================================================
