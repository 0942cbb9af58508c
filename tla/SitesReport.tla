---------------------------- MODULE SitesReport ----------------------------
(***************************************************************************)
(* The sites report of a month (handlers/sites_report.go): presences on    *)
(* site are attributed to sites, added up, and broken down by domain and   *)
(* team.  Reservations are read first and presences later, from two        *)
(* databases; the error of every query is dropped and the sheet shown      *)
(* without what it did not get.  Amounts are counted in half-days.         *)
(***************************************************************************)
EXTENDS Halves, Naturals, Totals

CONSTANTS Staff,         \* active users
          Sites,
          Corporate,     \* the sites that are not NotCorporateSite
          NoSite,
          Month,         \* dates of the month
          Weekdays,      \* Mondays to Fridays among them
          SiteOff,       \* site: its holidays in GetHolidayMap
          SiteGuests,    \* names of the guests users reserve desks for
          Domains,       \* domain: its teams
          Loose,         \* the teams without a domain
          HomeSites,     \* what the users' home sites may be
          StaffTeams,    \* what the users' teams may be
          MaxSiteEdits   \* edits and failing queries in a behaviour (a bound)

SiteTeams == Loose \cup UNION {Domains[m] : m \in DOMAIN Domains}

ASSUME SitesAssumption ==
    /\ IsFiniteSet(Staff) /\ IsFiniteSet(DOMAIN Domains)
    /\ HomeSites \subseteq [Staff -> Sites \cup {NoSite}]
    /\ StaffTeams \subseteq [Staff -> SUBSET SiteTeams]
    /\ NoSite \notin Sites /\ Corporate \subseteq Sites /\ Weekdays \subseteq Month
    /\ "self" \notin SiteGuests /\ MaxSiteEdits \in Nat

VARIABLES
    home,         \* users.site_id
    memberOf,     \* user_teams of those who have not left
    onSite,       \* presences rows with a status that is on site
    desks,        \* seat_reservations rows with the site of their seat
    report,       \* what the handler has read and computed
    siteEdits     \* edits still to come

siteVars == <<home, memberOf, onSite, desks, report, siteEdits>>

PresenceRow == [user : Staff, date : Month, half : Half]
DeskRow == [user : Staff, date : Month, half : Half, site : Sites,
            sitter : SiteGuests \cup {"self"}]

(* The queries of what the report looks up: the users of each site, the    *)
(* users with their sites, the teams with their domains, the memberships.  *)
(* One that fails gives nothing here.                                      *)
Lookup == {"attached", "users", "teams", "members"}

(* dropped are the lookups that failed; lost (history) are for each user   *)
(* the dates whose reservations were not all got, or changed since.        *)
NoReport == [stage |-> "idle"]
Report == [stage : {"presences", "shown"}, dropped : SUBSET Lookup, desks : SUBSET DeskRow,
           siteOf : [Staff -> [Month -> Sites \cup {NoSite}]], presences : SUBSET PresenceRow,
           lost : [Staff -> SUBSET Month]]

SitesTypeOK ==
    /\ home \in [Staff -> Sites \cup {NoSite}]
    /\ memberOf \in [Staff -> SUBSET SiteTeams]
    /\ onSite \subseteq PresenceRow
    /\ desks \subseteq DeskRow
    /\ report \in Report \cup {NoReport}
    /\ siteEdits \in 0..MaxSiteEdits

SitesInit ==
    /\ home \in HomeSites
    /\ memberOf \in StaffTeams
    /\ onSite = {}
    /\ desks = {}
    /\ report = NoReport
    /\ siteEdits = MaxSiteEdits

HalfWeight(rows) == SumOf([r \in rows |-> IF r.half = "full" THEN 2 ELSE 1])

-----------------------------------------------------------------------------
(* Attribution.                                                            *)

(* The only corporate site, or else the only site.                         *)
SingleSite ==
    IF Cardinality(Corporate) = 1 THEN CHOOSE s \in Corporate : TRUE
    ELSE IF Cardinality(Sites) = 1 THEN CHOOSE s \in Sites : TRUE
    ELSE NoSite

(* userToSite.                                                             *)
HomeOf(u) == IF "users" \in report.dropped THEN NoSite ELSE home[u]

(* The home site before the desk.                                          *)
HomeSiteFirst(p) ==
    IF HomeOf(p.user) # NoSite THEN HomeOf(p.user)
    ELSE IF report.siteOf[p.user][p.date] # NoSite THEN report.siteOf[p.user][p.date]
    ELSE SingleSite

(* A desk reserved that day, be it a guest's, the user's home site, the    *)
(* single site.                                                            *)
AttributedSite(p) ==
    IF report.siteOf[p.user][p.date] # NoSite THEN report.siteOf[p.user][p.date]
    ELSE IF HomeOf(p.user) # NoSite THEN HomeOf(p.user)
    ELSE SingleSite

Homeless(dropped) == IF "users" \in dropped THEN {} ELSE {u \in Staff : home[u] = NoSite}

(* activeUsersBySite: when nobody is attached to the single site, all the  *)
(* users without a site are.                                               *)
Attached(s) ==
    LET there == IF "attached" \in report.dropped THEN {} ELSE {u \in Staff : home[u] = s}
    IN  IF s = SingleSite /\ there = {} THEN Homeless(report.dropped) ELSE there

(* They are entered into a map that is nil when the users of each site     *)
(* could not be read: the request ends without a page.                     *)
WritesNilMap(dropped) ==
    "attached" \in dropped /\ SingleSite # NoSite /\ Homeless(dropped) # {}

-----------------------------------------------------------------------------
(* Totals of one site.                                                     *)

Counted(s) == Weekdays \ SiteOff[s]     \* dates whose rows are added up

SitePresences(s) == {p \in report.presences : AttributedSite(p) = s /\ p.date \in Counted(s)}
SiteDesks(s) == {r \in report.desks : r.site = s /\ r.date \in Counted(s)}

(* Team 0 is where users without a team are counted; its domain 0 is also  *)
(* that of the teams without a domain and of the teams not looked up.      *)
NoTeam == "0"
TeamsOf(u) == IF "members" \in report.dropped \/ memberOf[u] = {} THEN {NoTeam} ELSE memberOf[u]
Placed == IF "teams" \in report.dropped THEN {} ELSE SiteTeams \ Loose
DomainTeams(m) == IF m = NoTeam THEN {NoTeam} \cup (SiteTeams \ Placed) ELSE Domains[m] \cap Placed
AllDomains == DOMAIN Domains \cup {NoTeam}

InDomain(u, m) == TeamsOf(u) \cap DomainTeams(m) # {}
InTeam(rows, t) == {r \in rows : t \in TeamsOf(r.user)}
TeamTotal(rows, t) == HalfWeight(InTeam(rows, t))

(* Once for every team of the domain the user is in.                       *)
DomainTotalByTeam(rows, m) == SumOf([t \in DomainTeams(m) |-> TeamTotal(rows, t)])

(* A row counts once for a domain, whatever the user's teams there.        *)
DomainTotal(rows, m) == HalfWeight({r \in rows : InDomain(r.user, m)})

-----------------------------------------------------------------------------
(* buildSitesReportData.                                                   *)

(* A query that fails costs one of the edits still to come.                *)
MayFail(failed) ==
    /\ failed => siteEdits > 0
    /\ siteEdits' = IF failed THEN siteEdits - 1 ELSE siteEdits

(* GetMonthlySiteReservations comes in no order: of a user's desks at two  *)
(* sites on one day, guests' included, either may be the last that is      *)
(* kept.  A failure leaves the rows got before it.                         *)
ReadReservations(got, dropped) ==
    /\ report = NoReport /\ ~WritesNilMap(dropped)
    /\ got \subseteq desks /\ MayFail(got # desks \/ dropped # {})
    /\ \E siteOf \in [Staff -> [Month -> Sites \cup {NoSite}]] :
          /\ \A u \in Staff, d \in Month :
                LET sites == {r.site : r \in {x \in got : x.user = u /\ x.date = d}}
                IN  IF sites = {} THEN siteOf[u][d] = NoSite ELSE siteOf[u][d] \in sites
          /\ report' = [stage |-> "presences", dropped |-> dropped, desks |-> got,
                        siteOf |-> siteOf, presences |-> {},
                        lost |-> [u \in Staff |-> {r.date : r \in {x \in desks \ got : x.user = u}}]]
    /\ UNCHANGED <<home, memberOf, onSite, desks>>

(* GetMonthlyOnSitePresences likewise.                                     *)
ReadPresences(got) ==
    /\ report.stage = "presences"
    /\ got \subseteq onSite /\ MayFail(got # onSite)
    /\ report' = [report EXCEPT !.stage = "shown", !.presences = got]
    /\ UNCHANGED <<home, memberOf, onSite, desks>>

CloseReport ==
    /\ report.stage = "shown"
    /\ report' = NoReport
    /\ UNCHANGED <<home, memberOf, onSite, desks, siteEdits>>

-----------------------------------------------------------------------------
(* Edits beside the report.                                                *)

SiteEdit(u, dates) ==
    /\ report.stage # "shown" /\ siteEdits > 0
    /\ siteEdits' = siteEdits - 1
    /\ report' = IF report = NoReport THEN NoReport ELSE [report EXCEPT !.lost[u] = @ \cup dates]

Clashes(r, rows) ==
    {x \in rows : x.user = r.user /\ x.date = r.date /\ HalfOverlaps(x.half, r.half)}

(* SetPresences with a status on site.                                     *)
DeclareOnSite(p) ==
    /\ SiteEdit(p.user, {})
    /\ onSite' = (onSite \ Clashes(p, onSite)) \cup {p}
    /\ UNCHANGED <<home, memberOf, desks>>

(* ReserveSeat, on a day the user has declared on site in part or in full, *)
(* beside no desk of the same user for the same sitter.                    *)
ReserveDesk(r) ==
    /\ SiteEdit(r.user, {r.date})
    /\ \E p \in onSite : p.user = r.user /\ p.date = r.date
    /\ \A x \in Clashes(r, desks) : x.sitter # r.sitter
    /\ desks' = desks \cup {r}
    /\ UNCHANGED <<home, memberOf, onSite>>

CancelDesk(r) ==
    /\ SiteEdit(r.user, {r.date})
    /\ r \in desks
    /\ desks' = desks \ {r}
    /\ UNCHANGED <<home, memberOf, onSite>>

SitesNext ==
    \/ \E got \in SUBSET desks, dropped \in SUBSET Lookup : ReadReservations(got, dropped)
    \/ \E got \in SUBSET onSite : ReadPresences(got)
    \/ CloseReport
    \/ \E p \in PresenceRow : DeclareOnSite(p)
    \/ \E r \in DeskRow : ReserveDesk(r) \/ CancelDesk(r)

SitesSpec == SitesInit /\ [][SitesNext]_siteVars

-----------------------------------------------------------------------------
(* Properties.                                                             *)

(* A presence counts at the site of the desk its user reserved for that    *)
(* half, whatever was declared between the two queries, unless the user's  *)
(* desks that day, those for guests included, are at two sites, were not   *)
(* all got, or changed since they were read.                               *)
CountedWhereReserved ==
    report.stage = "shown" =>
        \A p \in report.presences : \A r \in Clashes(p, desks) :
            /\ r.sitter = "self" /\ r.date \notin report.lost[r.user]
            /\ \A x \in desks : x.user = r.user /\ x.date = r.date => x.site = r.site
            => AttributedSite(p) = r.site

(* The domains of a site, the one of the teams without a domain included,  *)
(* add up to the site in presences, desks and people, as long as nobody is *)
(* in teams of two domains, however many teams of one domain they are in,  *)
(* and whichever lookup failed.                                            *)
DomainsAddUp ==
    report.stage = "shown" /\ (\A u \in Staff : Cardinality({m \in AllDomains : InDomain(u, m)}) = 1) =>
        \A s \in Sites :
            /\ SumOf([m \in AllDomains |-> DomainTotal(SitePresences(s), m)])
                 = HalfWeight(SitePresences(s))
            /\ SumOf([m \in AllDomains |-> DomainTotal(SiteDesks(s), m)])
                 = HalfWeight(SiteDesks(s))
            /\ SumOf([m \in AllDomains |-> Cardinality({u \in Attached(s) : InDomain(u, m)})])
                 = Cardinality(Attached(s))

(* The sheet of a site, person by person and domain by domain.             *)
SitesReconcile == CountedWhereReserved /\ DomainsAddUp
=============================================================================
