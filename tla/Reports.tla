------------------------------ MODULE Reports ------------------------------
(***************************************************************************)
(* The activity page of a team over a period, with the summary of all      *)
(* teams above it (handlers/activity.go and the statistics and holiday     *)
(* maps of db.go).  The page makes its queries one after another while     *)
(* others edit the calendar, and goes on with what it has when one fails.  *)
(* Amounts are counted in half-days.                                       *)
(***************************************************************************)
EXTENDS Halves, Naturals, Totals, Functions

CONSTANTS People,
          Teams,
          Period,        \* dates of the period
          Weekend,       \* those of them that are Saturdays and Sundays
          Marks,         \* statuses
          Billable, OnSite,      \* the statuses with these flags
          HomeCountries, \* what the country of each one's site may be; NoCountry without one
          NoCountry,
          HolidayTables, \* what the holidays table may hold to begin with
          Memberships,   \* memberships of the teams to begin with
          MaxReportEdits \* edits and failing queries in a behaviour (a bound)

(* holidays.date is unique; a holiday of no countries is everyone's.       *)
Holiday == [countries : SUBSET {c[u] : c \in HomeCountries, u \in People}, imputed : BOOLEAN]
NoHoliday == [imputed |-> TRUE]

ASSUME ReportsAssumption ==
    /\ IsFiniteSet(People) /\ IsFiniteSet(Period)
    /\ Weekend \subseteq Period /\ Billable \subseteq Marks /\ OnSite \subseteq Marks
    /\ NoStatus \notin Marks
    /\ HolidayTables \subseteq [Period -> Holiday \cup {NoHoliday}]
    /\ Memberships \subseteq [Teams -> SUBSET People]
    /\ MaxReportEdits \in Nat

VARIABLES
    rows,         \* presences of the period
    homes,        \* each person's country, by the site
    holidays,     \* the holidays table
    teams,        \* members of each team as of the period's first day
    page,         \* what the page has read so far
    reportEdits   \* edits and failures still to come

reportVars == <<rows, homes, holidays, teams, page, reportEdits>>

Stats == [set : Nat, billable : Nat, onSite : Nat]
NoStats == [set |-> 0, billable |-> 0, onSite |-> 0]

(* The figures of a page that are compared: the totals with the footer of  *)
(* the daily table and with the summary, the days not set, and the dates   *)
(* marked as off.  unsure: those that an edit between their queries, or a  *)
(* query that failed, may have led astray.                                 *)
Compared == {"footer", "summary", "expected", "marked"}

NoPage == [stage |-> "idle"]
Page == [stage : {"stats", "mark", "footer", "holidays", "everyone", "summary", "shown"},
         team : Teams, members : SUBSET People, everyone : SUBSET People, totals : Stats,
         marked : SUBSET Period, expected : Nat, footer : Stats, summary : Stats,
         unsure : SUBSET Compared]

ReportsTypeOK ==
    /\ rows \in [People -> [Period -> [Half -> Marks \cup {NoStatus}]]]
    /\ homes \in HomeCountries
    /\ holidays \in [Period -> Holiday \cup {NoHoliday}]
    /\ teams \in [Teams -> SUBSET People]
    /\ page \in Page \cup {NoPage}
    /\ reportEdits \in 0..MaxReportEdits

ReportsInit ==
    /\ rows = [u \in People |-> [d \in Period |-> NoDay]]
    /\ homes \in HomeCountries
    /\ holidays \in HolidayTables
    /\ teams \in Memberships
    /\ page = NoPage
    /\ reportEdits = MaxReportEdits

-----------------------------------------------------------------------------
(* Holiday maps: for each date nothing, a holiday that may still be        *)
(* imputed, or a day off.                                                  *)

HolidayMap(dates) ==
    [d \in Period |-> IF d \notin dates THEN "none"
                      ELSE IF holidays[d].imputed THEN "imputed" ELSE "off"]

Holidays == {d \in Period : holidays[d] # NoHoliday}

(* UserMatchesHoliday.                                                     *)
UserMatches(u, holiday) == holiday.countries = {} \/ homes[u] \in holiday.countries

(* CountriesMatchHoliday with the countries of the members' sites.         *)
TeamMatches(members, holiday) ==
    LET countries == {homes[u] : u \in members} \ {NoCountry}
    IN  holiday.countries = {} \/ (countries # {} /\ countries \subseteq holiday.countries)

(* GetUserHolidayMap, which the calendar and the certification go by.      *)
GetUserHolidayMap(u) == HolidayMap({d \in Holidays : UserMatches(u, holidays[d])})

(* Every holiday is taken for everyone's.                                  *)
UsersHolidayMapsOfAll(members, dates, sited) == [u \in members |-> HolidayMap(dates)]

(* The maps of several users from one query each for the holidays and the  *)
(* sites, which the reports go by: of the dates and the sites it got, the  *)
(* others being taken for no holidays and for no site.                     *)
GetUsersHolidayMaps(members, dates, sited) ==
    [u \in members |-> HolidayMap({d \in dates :
        IF u \in sited THEN UserMatches(u, holidays[d]) ELSE holidays[d].countries = {}})]

GetTeamHolidayMap(members, dates) == HolidayMap({d \in dates : TeamMatches(members, holidays[d])})

(* computeWorkingDaysFromRange: Mondays to Fridays but for days off.       *)
DaysOff(map) == {d \in Period : map[d] = "off"}
WorkingDays(map) == Period \ (Weekend \cup DaysOff(map))

-----------------------------------------------------------------------------
(* Statistics.                                                             *)

Weight(half) == IF half = "full" THEN 2 ELSE 1

Add(x, y) == [f \in DOMAIN NoStats |-> x[f] + y[f]]
Total(stats) == FoldFunction(Add, NoStats, stats)

RowStats(status, half) ==
    [set |-> IF status \in Marks THEN Weight(half) ELSE 0,
     billable |-> IF status \in Billable THEN Weight(half) ELSE 0,
     onSite |-> IF status \in OnSite THEN Weight(half) ELSE 0]

DayStats(u, d) == Total([h \in Half |-> RowStats(rows[u][d][h], h)])

(* The loop over one member's presences in GetTeamStats and GetTeamsStats. *)
UserStats(u) == Total([d \in Period |-> DayStats(u, d)])
StatsOf(people) == Total([u \in people |-> UserStats(u)])

(* computeDayBillableOnSite, over the dates of the page.                   *)
Footer(members) ==
    Total([d \in Period |-> Total([u \in members |-> DayStats(u, d)])])

-----------------------------------------------------------------------------
(* ActivityPage.  A query that fails is logged nowhere: its figures are    *)
(* unsure, and the page is shown with them.                                *)

Astray(figures) == page.unsure \cup figures

Disturbed == reportEdits > 0 /\ reportEdits' = reportEdits - 1

ActivityPage(t) ==
    /\ page = NoPage
    /\ page' = [stage |-> "stats", team |-> t, members |-> teams[t], everyone |-> {},
                totals |-> NoStats, marked |-> {}, expected |-> 0, footer |-> NoStats,
                summary |-> NoStats, unsure |-> {}]
    /\ UNCHANGED <<rows, homes, holidays, teams, reportEdits>>

(* GetTeamStats has the members and reads their presences; the totals are  *)
(* those of computeStatusTotals.  When it fails the page is of nobody.     *)
GetTeamStats ==
    /\ page.stage = "stats"
    /\ \/ /\ page' = [page EXCEPT !.stage = "mark",
                                 !.totals = StatsOf(page.members)]
          /\ UNCHANGED reportEdits
       \/ /\ page' = [page EXCEPT !.stage = "mark", !.members = {}, !.totals = NoStats,
                                 !.unsure = Astray({"expected", "summary"})]
          /\ Disturbed
    /\ UNCHANGED <<rows, homes, holidays, teams>>

(* The dates marked as off are the team's, whose members are read again.   *)
(* Holidays it does not get are not marked; a member whose site it does    *)
(* not get counts for none, and without the members every holiday counts.  *)
ShowMarked(marked, figures) ==
    page' = [page EXCEPT !.stage = "footer", !.marked = marked, !.unsure = Astray(figures)]

MarkDaysOff ==
    /\ page.stage = "mark"
    /\ LET now == teams[page.team]
       IN  \/ /\ ShowMarked(DaysOff(GetTeamHolidayMap(now, Holidays)), {})
              /\ UNCHANGED reportEdits
           \/ /\ \E dates \in SUBSET Holidays :
                    \/ ShowMarked(DaysOff(GetTeamHolidayMap(now, dates)), {})
                    \/ \E sited \in SUBSET now :
                          ShowMarked(DaysOff(GetTeamHolidayMap(sited, dates)), {"marked"})
                    \/ ShowMarked(DaysOff(HolidayMap(dates)), {"marked"})
              /\ Disturbed
    /\ UNCHANGED <<rows, homes, holidays, teams>>

(* The members are read again for the daily table.                         *)
ReadDaysOfTeam ==
    /\ page.stage = "footer"
    /\ page' = [page EXCEPT !.stage = "holidays", !.footer = Footer(teams[page.team])]
    /\ UNCHANGED <<rows, homes, holidays, teams, reportEdits>>

(* buildActivityMemberData reads the presences again, for the daily table, *)
(* or a part of them when GetPresences fails.                              *)
ShowFooter(footer, figures) ==
    page' = [page EXCEPT !.stage = "holidays", !.footer = footer, !.unsure = Astray(figures)]

ReadDays ==
    /\ page.stage = "footer"
    /\ \/ ShowFooter(Footer(page.members), {}) /\ UNCHANGED reportEdits
       \/ /\ \E read \in SUBSET page.members : ShowFooter(Footer(read), {"footer"})
          /\ Disturbed
    /\ UNCHANGED <<rows, homes, holidays, teams>>

(* The days expected of the members together.                              *)
ExpectedBy(maps) == SumOf([u \in page.members |-> 2 * Cardinality(WorkingDays(maps[u]))])

(* GetUsersHolidayMaps, or what it has got when it fails.                  *)
ShowExpected(expected, figures) ==
    page' = [page EXCEPT !.stage = "everyone", !.expected = expected, !.unsure = Astray(figures)]

CountWorkingDays ==
    /\ page.stage = "holidays"
    /\ LET maps(dates, sited) == GetUsersHolidayMaps(page.members, dates, sited)
       IN  \/ /\ ShowExpected(ExpectedBy(maps(Holidays, page.members)), {})
              /\ UNCHANGED reportEdits
           \/ /\ \E dates \in SUBSET Holidays, sited \in SUBSET page.members :
                    ShowExpected(ExpectedBy(maps(dates, sited)), {"expected"})
              /\ Disturbed
    /\ UNCHANGED <<rows, homes, holidays, teams>>

(* GetTeamsMembersAt of all teams: distinct people.                        *)
Everyone ==
    /\ page.stage = "everyone"
    /\ page' = [page EXCEPT !.stage = "summary", !.everyone = UNION {teams[t] : t \in Teams}]
    /\ UNCHANGED <<rows, homes, holidays, teams, reportEdits>>

(* computeExecSummary with the statistics of GetTeamsStats, of nobody when *)
(* one of its queries failed.                                              *)
Summary ==
    /\ page.stage = "summary"
    /\ \/ /\ page' = [page EXCEPT !.stage = "shown",
                                 !.summary = StatsOf(page.everyone)]
          /\ UNCHANGED reportEdits
       \/ /\ page' = [page EXCEPT !.stage = "shown", !.everyone = {},
                                 !.unsure = Astray({"summary"})]
          /\ Disturbed
    /\ UNCHANGED <<rows, homes, holidays, teams>>

ClosePage ==
    /\ page.stage = "shown"
    /\ page' = NoPage
    /\ UNCHANGED <<rows, homes, holidays, teams, reportEdits>>

-----------------------------------------------------------------------------
(* Edits beside the page.  A presence matters to a figure between the      *)
(* reading of the totals and of what they are compared with, a holiday     *)
(* once its dates were read, and a member of the team until the dates are  *)
(* marked; everything else about the page an edit leaves as it is.         *)

RowsRead == {"mark", "footer", "holidays", "everyone", "summary"}

RowMatters == [footer |-> {"mark", "footer"}, summary |-> RowsRead, expected |-> RowsRead]
HolidayMatters == [marked |-> RowsRead \ {"mark"}, expected |-> {"everyone", "summary"}]
MemberMatters == [marked |-> {"stats", "mark"}]

Edit(matters) ==
    /\ page.stage # "shown" /\ Disturbed
    /\ page' = IF page = NoPage THEN NoPage
               ELSE [page EXCEPT !.unsure =
                        Astray({f \in DOMAIN matters : page.stage \in matters[f]})]

(* SetPresences refuses the user's days off, and no other day.             *)
DeclareDay(u, d, h, s) ==
    /\ Edit(RowMatters)
    /\ GetUserHolidayMap(u)[d] # "off"
    /\ rows' = [rows EXCEPT ![u][d] = SetDay(@, h, s)]
    /\ UNCHANGED <<homes, holidays, teams>>

(* CreateHoliday or UpdateHoliday, on a date some may have declared.       *)
SetHoliday(d, holiday) ==
    /\ Edit(HolidayMatters)
    /\ holidays' = [holidays EXCEPT ![d] = holiday]
    /\ UNCHANGED <<rows, homes, teams>>

(* AddTeamMember or RemoveTeamMember.                                      *)
ChangeMember(t, u) ==
    /\ Edit(MemberMatters)
    /\ teams' = [teams EXCEPT ![t] = IF u \in @ THEN @ \ {u} ELSE @ \cup {u}]
    /\ UNCHANGED <<rows, homes, holidays>>

ReportsNext ==
    \/ \E t \in Teams : ActivityPage(t)
    \/ GetTeamStats \/ MarkDaysOff \/ ReadDays \/ CountWorkingDays
    \/ Everyone \/ Summary \/ ClosePage
    \/ \E u \in People, d \in Period, h \in Half, s \in Marks : DeclareDay(u, d, h, s)
    \/ \E d \in Period, table \in HolidayTables : SetHoliday(d, table[d])
    \/ \E t \in Teams, u \in People : ChangeMember(t, u)

ReportsSpec == ReportsInit /\ [][ReportsNext]_reportVars

-----------------------------------------------------------------------------
(* Properties.                                                             *)

Sure(figure) == page.stage = "shown" /\ figure \notin page.unsure

(* The three totals of a page agree, though they come from three queries   *)
(* and are added up along different lines: those of the members with the   *)
(* footer of the daily table, and, but for those that only one of the two  *)
(* lists of people has, with the summary, which counts everyone once.      *)
(* Whoever joins or leaves a team between the queries changes neither.     *)
PageAddsUp ==
    /\ Sure("footer") => /\ page.footer.billable = page.totals.billable
                         /\ page.footer.onSite = page.totals.onSite
    /\ Sure("summary") => Add(page.summary, StatsOf(page.members \ page.everyone))
                             = Add(page.totals, StatsOf(page.everyone \ page.members))

(* Half-days that u has still to declare, as the calendar takes them.      *)
Missing(u) ==
    SumOf([d \in WorkingDays(GetUserHolidayMap(u)) |-> 2 - DayStats(u, d).set])

NotSet == IF page.expected > page.totals.set THEN page.expected - page.totals.set ELSE 0

(* The days the page shows as not set are exactly those its members can    *)
(* and should still declare, unless somebody declared a weekend or a day   *)
(* that became a holiday afterwards: such a day hides a missing one.  And  *)
(* no day marked as off is missing of a member whose site has a country.   *)
MissingDaysTold ==
    /\ Sure("expected") /\ (\A u \in page.members, d \in Period :
           DayStats(u, d).set > 0 => d \in WorkingDays(GetUserHolidayMap(u)))
         => NotSet = SumOf([u \in page.members |-> Missing(u)])
    /\ Sure("marked") => \A u \in page.members : homes[u] # NoCountry =>
         page.marked \cap WorkingDays(GetUserHolidayMap(u)) = {}

(* The page of a user or a team, in its figures and in its days.           *)
PageReconciles == PageAddsUp /\ MissingDaysTold
=============================================================================
