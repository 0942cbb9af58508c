----------------------------- MODULE MCServices -----------------------------
(***************************************************************************)
(* The components that share no table with one another, as one state       *)
(* machine: a behaviour picks one of them and leaves the others as they    *)
(* begin, which loses nothing since no step of one reads another.          *)
(***************************************************************************)
EXTENDS Accounts, LoginLimiter, Passkeys, Reports, SitesReport, ProjectsReport, Startup,
        Reminders, Directory, Desks, PlanImages, TeamRoster, News, Impersonation,
        PresencePages, TLC

CONSTANTS a1, a2, b1, b2, c1, c2, k1, v1

VARIABLE picked       \* the component of this behaviour

servicesVars == <<picked, accountVars, limiterVars, passkeyVars, reportVars, siteVars,
                  projectsReportVars, startupVars, remindersVars, directoryVars,
                  deskVars, planVars, teamVars, newsVars, impersonationVars, pagesVars>>

Components == {"accounts", "limiter", "passkeys", "activity", "sites", "projects",
               "startup", "reminders", "directory", "desks", "images", "teams",
               "news", "impersonation", "pages"}

(* One initial state of a component that is not picked.                    *)
Pinned(component, choice) == picked # component => choice

ServicesInit ==
    /\ picked \in Components
    /\ AccountsInit
    /\ Pinned("accounts", account.password = CHOOSE p \in Passwords : TRUE)
    /\ Pinned("accounts", ~account.legacy)
    /\ Pinned("accounts", account.profile = CHOOSE f \in Profiles : TRUE)
    /\ LimiterInit
    /\ PasskeysInit /\ Pinned("passkeys", \A k \in Keys : credentials[k] = NotStored)
    /\ ReportsInit
    /\ Pinned("activity", homes = CHOOSE h \in HomeCountries : TRUE)
    /\ Pinned("activity", holidays = CHOOSE h \in HolidayTables : TRUE)
    /\ Pinned("activity", teams = CHOOSE m \in Memberships : TRUE)
    /\ SitesInit
    /\ Pinned("sites", home = CHOOSE h \in HomeSites : TRUE)
    /\ Pinned("sites", memberOf = CHOOSE m \in StaffTeams : TRUE)
    /\ ProjectsReportInit
    /\ StartupInit
    /\ RemindersInit
    /\ DirectoryInit /\ DesksInit /\ PlanImagesInit /\ TeamsInit
    /\ NewsInit /\ PresencePagesInit
    /\ ImpersonationInit /\ Pinned("impersonation", \A u \in Users : rank[u] = "global")
    /\ Pinned("startup", presences = Table(TRUE, Rows) /\ ~roleLeader)

(* The other components stay as they are.                                  *)
OthersStay ==
    /\ UNCHANGED picked
    /\ IF picked = "accounts" THEN TRUE ELSE UNCHANGED accountVars
    /\ IF picked = "limiter" THEN TRUE ELSE UNCHANGED limiterVars
    /\ IF picked = "passkeys" THEN TRUE ELSE UNCHANGED passkeyVars
    /\ IF picked = "activity" THEN TRUE ELSE UNCHANGED reportVars
    /\ IF picked = "sites" THEN TRUE ELSE UNCHANGED siteVars
    /\ IF picked = "projects" THEN TRUE ELSE UNCHANGED projectsReportVars
    /\ IF picked = "startup" THEN TRUE ELSE UNCHANGED startupVars
    /\ IF picked = "reminders" THEN TRUE ELSE UNCHANGED remindersVars
    /\ IF picked = "directory" THEN TRUE ELSE UNCHANGED directoryVars
    /\ IF picked = "desks" THEN TRUE ELSE UNCHANGED deskVars
    /\ IF picked = "images" THEN TRUE ELSE UNCHANGED planVars
    /\ IF picked = "teams" THEN TRUE ELSE UNCHANGED teamVars
    /\ IF picked = "news" THEN TRUE ELSE UNCHANGED newsVars
    /\ IF picked = "impersonation" THEN TRUE ELSE UNCHANGED impersonationVars
    /\ IF picked = "pages" THEN TRUE ELSE UNCHANGED pagesVars

ServicesNext ==
    /\ OthersStay
    /\ \/ picked = "accounts" /\ AccountsNext
       \/ picked = "limiter" /\ LimiterNext
       \/ picked = "passkeys" /\ PasskeysNext
       \/ picked = "activity" /\ ReportsNext
       \/ picked = "sites" /\ SitesNext
       \/ picked = "projects" /\ ProjectsReportNext
       \/ picked = "startup" /\ StartupNext
       \/ picked = "reminders" /\ RemindersNext
       \/ picked = "directory" /\ DirectoryNext
       \/ picked = "desks" /\ DesksNext
       \/ picked = "images" /\ PlanImagesNext
       \/ picked = "teams" /\ TeamsNext
       \/ picked = "news" /\ NewsNext
       \/ picked = "impersonation" /\ ImpersonationNext
       \/ picked = "pages" /\ PresencePagesNext

ServicesSpec == ServicesInit /\ [][ServicesNext]_servicesVars

(* The state of the picked component is well-typed; the others stay as     *)
(* they begin, which behaviours that pick them check.                      *)
ServicesTypeOK ==
    /\ picked \in Components
    /\ picked = "accounts" => AccountsTypeOK
    /\ picked = "limiter" => LimiterTypeOK
    /\ picked = "passkeys" => PasskeysTypeOK
    /\ picked = "activity" => ReportsTypeOK
    /\ picked = "sites" => SitesTypeOK
    /\ picked = "projects" => ProjectsReportTypeOK
    /\ picked = "startup" => StartupTypeOK
    /\ picked = "reminders" => RemindersTypeOK
    /\ picked = "directory" => DirectoryTypeOK
    /\ picked = "desks" => DesksTypeOK
    /\ picked = "images" => PlanImagesTypeOK
    /\ picked = "teams" => TeamsTypeOK
    /\ picked = "news" => NewsTypeOK
    /\ picked = "impersonation" => ImpersonationTypeOK
    /\ picked = "pages" => PresencePagesTypeOK

(* Two people of different countries, or one of none, and a holiday that   *)
(* is everyone's, that is one country's and imputed, or another's and off. *)
MCHomeCountries == {[p1 |-> "FR", p2 |-> "MA"], [p1 |-> "FR", p2 |-> "none"]}
MCHolidayTables ==
    {<<NoHoliday, h>> : h \in {NoHoliday, [countries |-> {"FR"}, imputed |-> TRUE],
                               [countries |-> {"MA"}, imputed |-> FALSE],
                               [countries |-> {}, imputed |-> FALSE]}}
MCMemberships == {[t1 |-> {"p1", "p2"}, t2 |-> {"p2"}]}

MCSiteOff == [s1 |-> {2}, s2 |-> {}]
MCDomains == [d1 |-> {"t1", "t2"}, d2 |-> {"t3"}]
MCHomeSites == {[p1 |-> "s1", p2 |-> "none"], [p1 |-> "none", p2 |-> "none"]}
MCStaffTeams == {[p1 |-> {"t1", "t2"}, p2 |-> {"t4", "t5"}], [p1 |-> {"t1", "t4"}, p2 |-> {}]}

(* Five months, the second from the start being February of 28 days and    *)
(* the fourth of 30.                                                       *)
MCLengths == [m \in 0..4 |-> IF m = 2 THEN 28 ELSE IF m = 4 THEN 30 ELSE 31]

(* One team that asks one working day of each kind, another that asks two  *)
(* of presence; the day before the first had a billable presence.          *)
MCHorizon == [r1 |-> [presence |-> 1, activity |-> 1], r2 |-> [presence |-> 2, activity |-> 0]]
MCVacations == [m \in Members |-> {}]
MCDaysAtFirst ==
    {[m \in Members |-> [d \in ReminderDates |-> IF d = 1 THEN "billable" ELSE "none"]]}

MCKindOf == [s1 |-> "site", d1 |-> "domain", x1 |-> "status",
             u1 |-> "user", f1 |-> "plan", t1 |-> "team", p1 |-> "presence"]

(* Four dates, the last two in the next month; windows that end at a       *)
(* midnight, that begin at one, and that recur.                            *)
MCDayOfMonth == [d \in 1..4 |-> IF d = 1 THEN 30 ELSE IF d = 2 THEN 31 ELSE d - 2]
MCWindows == {[from |-> 1, to |-> 2, recurring |-> FALSE], [from |-> 2, to |-> 3, recurring |-> FALSE],
              [from |-> 3, to |-> 4, recurring |-> TRUE], [from |-> 1, to |-> 1, recurring |-> TRUE]}

(* The names are shared by the components that are symmetric in theirs.    *)
MCServicesSymmetry ==
    Permutations({a1, a2}) \cup Permutations({b1, b2}) \cup Permutations({c1, c2})
=============================================================================
