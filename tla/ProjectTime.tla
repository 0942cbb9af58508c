---------------------------- MODULE ProjectTime ----------------------------
(***************************************************************************)
(* Days one user declares on projects for one month, in percentage mode    *)
(* (projects.go, project_certifications.go, db/projects.go): what may be   *)
(* declared depends on three databases, read one statement after another   *)
(* and written at the end with nothing held in between.                    *)
(***************************************************************************)
EXTENDS Naturals, FiniteSetsExt

CONSTANTS Projects,
          Settings,      \* what the projects rows may hold
          Savers,        \* requests in progress at once (a bound)
          MaxDays        \* days of the month in the instance (a bound)

(* access: no member is listed, the user is, or only others are.           *)
Setting == [active : BOOLEAN, ended : BOOLEAN, access : {"open", "listed", "others"}]

ASSUME ProjectTimeAssumption ==
    IsFiniteSet(Projects) /\ MaxDays \in Nat /\ Settings \subseteq Setting

VARIABLES
    projects,     \* projects and project_members rows
    declared,     \* project_time_entries of the month; 0 is no row
    billableDays, \* what the presences of the month add up to
    locked,       \* project_certifications has a row for the month
    oversees,     \* the user is projects_manager or projects_viewer
    savers        \* requests between two of their statements

timeVars == <<projects, declared, billableDays, locked, oversees, savers>>

NoSave == [stage |-> "idle"]

(* overtaken: what it has read was changed since, or a read failed; early: *)
(* it looked for a certification before there was one.                     *)
Save == [stage : {"lookup", "project", "members", "member", "billable", "total", "entries",
                  "write", "covered", "sum", "lock"},
         project : Projects \cup {"none"}, days : 0..MaxDays, cap : 0..MaxDays,
         total : 0..(MaxDays * Cardinality(Projects)),
         overtaken : BOOLEAN, early : BOOLEAN]

TimeTypeOK ==
    /\ projects \in [Projects -> Settings]
    /\ declared \in [Projects -> 0..MaxDays]
    /\ billableDays \in 0..MaxDays
    /\ locked \in BOOLEAN /\ oversees \in BOOLEAN
    /\ savers \in [Savers -> Save \cup {NoSave}]

TimeInit ==
    /\ projects \in [Projects -> Settings]
    /\ declared = [p \in Projects |-> 0]
    /\ billableDays = MaxDays
    /\ locked = FALSE
    /\ oversees \in BOOLEAN
    /\ savers = [s \in Savers |-> NoSave]

SumDeclared(d) == MapThenSumSet(LAMBDA p : d[p], Projects)

In(s, stage) == savers[s] # NoSave /\ savers[s].stage = stage
Proceed(s, stage) == savers' = [savers EXCEPT ![s].stage = stage]
Refuse(s) == savers' = [savers EXCEPT ![s] = NoSave]

Reading == {"total", "entries", "write", "sum", "lock"}

(* A write takes effect under the requests that have read already.         *)
Disturbed(t) == IF savers[t] # NoSave /\ savers[t].stage \in Reading
                THEN [savers[t] EXCEPT !.overtaken = TRUE] ELSE savers[t]

-----------------------------------------------------------------------------
(* What is accepted.                                                       *)

Declarable(p) == projects[p].active /\ ~projects[p].ended

-----------------------------------------------------------------------------
(* What is offered: the projects that the page and its API list, in one    *)
(* query, with the user's own days, the billable days and the totals.      *)

ListActiveProjectsForMonth == {p \in Projects : Declarable(p)}

ListOpenProjectsForMonth ==
    {p \in ListActiveProjectsForMonth : projects[p].access = "open"}

ListActiveProjectsForMonthAndUser ==
    {p \in ListActiveProjectsForMonth : projects[p].access \in {"open", "listed"}}

ListProjectsForUser ==
    IF oversees THEN ListActiveProjectsForMonth ELSE ListActiveProjectsForMonthAndUser

ProjectsPage ==
    [listed |-> ListProjectsForUser, days |-> declared, billable |-> billableDays,
     total |-> SumDeclared(declared), certified |-> locked]

-----------------------------------------------------------------------------
(* SetProjectTime.                                                         *)

SetProjectTime(s, p, n) ==
    /\ savers[s] = NoSave
    /\ savers' = [savers EXCEPT ![s] =
          [stage |-> "lookup", project |-> p, days |-> n, cap |-> 0, total |-> 0,
           overtaken |-> FALSE, early |-> FALSE]]
    /\ UNCHANGED <<projects, declared, billableDays, locked, oversees>>

(* The certification is looked up for a change of the total only.          *)
LookUpLockForDays(s) ==
    /\ In(s, "lookup")
    /\ IF locked /\ savers[s].days > 0 THEN Refuse(s) ELSE Proceed(s, "project")
    /\ UNCHANGED <<projects, declared, billableDays, locked, oversees>>

LookUpLock(s) ==
    /\ In(s, "lookup")
    /\ IF locked THEN Refuse(s) ELSE Proceed(s, "project")
    /\ UNCHANGED <<projects, declared, billableDays, locked, oversees>>

(* Removing an entry is not checked against the billable days.  What was   *)
(* read of the project is not used any more.                               *)
Admit(s) == savers' = [savers EXCEPT ![s].overtaken = FALSE,
                                     ![s].stage = IF savers[s].days > 0 THEN "billable" ELSE "write"]

LookUpProject(s) ==
    /\ In(s, "project")
    /\ IF ~Declarable(savers[s].project) THEN Refuse(s)
       ELSE IF oversees THEN Admit(s) ELSE Proceed(s, "members")
    /\ UNCHANGED <<projects, declared, billableDays, locked, oversees>>

(* IsUserAssignedToProject: all members are counted, then this one.        *)
CountMembers(s) ==
    /\ In(s, "members")
    /\ IF projects[savers[s].project].access = "open" THEN Admit(s) ELSE Proceed(s, "member")
    /\ UNCHANGED <<projects, declared, billableDays, locked, oversees>>

CountMember(s) ==
    /\ In(s, "member")
    /\ IF projects[savers[s].project].access = "listed" THEN Admit(s) ELSE Refuse(s)
    /\ UNCHANGED <<projects, declared, billableDays, locked, oversees>>

(* exceedsBillableCap: three queries, whose errors count as zero.          *)
ReadBillable(s) ==
    /\ In(s, "billable")
    /\ \E cap \in {billableDays, 0} :
          savers' = [savers EXCEPT ![s].stage = "total", ![s].cap = cap]
    /\ UNCHANGED <<projects, declared, billableDays, locked, oversees>>

SumEntries(s) ==
    /\ In(s, "total")
    /\ \/ savers' = [savers EXCEPT ![s].stage = "entries", ![s].total = SumDeclared(declared)]
       \/ savers' = [savers EXCEPT ![s].stage = "entries", ![s].total = 0, ![s].overtaken = TRUE]
    /\ UNCHANGED <<projects, declared, billableDays, locked, oversees>>

(* What was read is not used any more.                                     *)
Write(s) == savers' = [savers EXCEPT ![s].stage = "write", ![s].cap = 0, ![s].total = 0]

(* The cap holds for one project at a time.                                *)
CompareAlone(s) ==
    /\ In(s, "entries")
    /\ IF savers[s].days > savers[s].cap THEN Refuse(s) ELSE Write(s)
    /\ UNCHANGED <<projects, declared, billableDays, locked, oversees>>

Compare(s) ==
    /\ In(s, "entries")
    /\ \E existing \in {declared[savers[s].project], 0} :
          IF savers[s].total + savers[s].days > savers[s].cap + existing
          THEN Refuse(s) ELSE Write(s)
    /\ UNCHANGED <<projects, declared, billableDays, locked, oversees>>

(* SetProjectTimeEntry: one upsert, or a deletion for no days.             *)
WriteEntry(s) ==
    /\ In(s, "write")
    /\ declared' = [declared EXCEPT ![savers[s].project] = savers[s].days]
    /\ savers' = [t \in Savers |-> IF t = s THEN NoSave ELSE Disturbed(t)]
    /\ UNCHANGED <<projects, billableDays, locked, oversees>>

-----------------------------------------------------------------------------
(* Certification.                                                          *)

CertifyTime(s) ==
    /\ savers[s] = NoSave
    /\ savers' = [savers EXCEPT ![s] =
          [stage |-> "covered", project |-> "none", days |-> 0,
           cap |-> 0, total |-> 0, overtaken |-> FALSE, early |-> FALSE]]
    /\ UNCHANGED <<projects, declared, billableDays, locked, oversees>>

(* userProjectDeclaration reads both sums and takes an error for zero.     *)
ReadCover(s) ==
    /\ In(s, "covered")
    /\ \E cap \in {billableDays, 0} :
          savers' = [savers EXCEPT ![s].stage = "sum", ![s].cap = cap]
    /\ UNCHANGED <<projects, declared, billableDays, locked, oversees>>

DeclarationComplete(billable, total) == billable > 0 /\ total >= billable

ReadDeclared(s) ==
    /\ In(s, "sum")
    /\ \E total \in {SumDeclared(declared), 0} :
          IF DeclarationComplete(savers[s].cap, total)
          THEN savers' = [savers EXCEPT ![s].stage = "lock", ![s].cap = 0]
          ELSE Refuse(s)
    /\ UNCHANGED <<projects, declared, billableDays, locked, oversees>>

(* INSERT OR IGNORE.  Edits that have looked already are early from now on.*)
LockTime(s) ==
    /\ In(s, "lock")
    /\ locked' = TRUE
    /\ savers' = [t \in Savers |->
          IF t = s THEN NoSave
          ELSE IF savers[t] # NoSave /\ savers[t].stage \notin {"lookup", "covered", "sum", "lock"}
               THEN [savers[t] EXCEPT !.early = TRUE] ELSE savers[t]]
    /\ UNCHANGED <<projects, declared, billableDays, oversees>>

DecertifyTime ==
    /\ locked
    /\ locked' = FALSE
    /\ UNCHANGED <<projects, declared, billableDays, oversees, savers>>

-----------------------------------------------------------------------------
(* Around the user.                                                        *)

(* An edit of the calendar, or of a status, which no certification of the  *)
(* project time prevents.                                                  *)
PresenceChanges(n) ==
    /\ n # billableDays
    /\ billableDays' = n
    /\ savers' = [t \in Savers |-> Disturbed(t)]
    /\ UNCHANGED <<projects, declared, locked, oversees>>

(* A request that has looked the project up goes on with what it was.      *)
ChangeProject(p, x) ==
    /\ x \in Settings /\ x # projects[p]
    /\ projects' = [projects EXCEPT ![p] = x]
    /\ savers' = [t \in Savers |->
          IF (In(t, "members") \/ In(t, "member")) /\ savers[t].project = p
          THEN [savers[t] EXCEPT !.overtaken = TRUE] ELSE savers[t]]
    /\ UNCHANGED <<declared, billableDays, locked, oversees>>

(* The row in one statement, the list of members in one transaction.       *)
UpdateProject(p, active, ended) ==
    ChangeProject(p, [projects[p] EXCEPT !.active = active, !.ended = ended])
SetProjectMembers(p, access) == ChangeProject(p, [projects[p] EXCEPT !.access = access])

StatementRefused(s) ==
    /\ savers[s] # NoSave
    /\ Refuse(s)
    /\ UNCHANGED <<projects, declared, billableDays, locked, oversees>>

TimeNext ==
    \/ \E s \in Savers :
          \/ \E p \in Projects, n \in 0..MaxDays : SetProjectTime(s, p, n)
          \/ LookUpLock(s) \/ LookUpProject(s) \/ CountMembers(s) \/ CountMember(s)
          \/ ReadBillable(s) \/ SumEntries(s) \/ Compare(s) \/ WriteEntry(s)
          \/ CertifyTime(s) \/ ReadCover(s) \/ ReadDeclared(s) \/ LockTime(s)
          \/ StatementRefused(s)
    \/ DecertifyTime
    \/ \E n \in 0..MaxDays : PresenceChanges(n)
    \/ \E p \in Projects :
          \/ \E active, ended \in BOOLEAN : UpdateProject(p, active, ended)
          \/ \E access \in {"open", "listed", "others"} : SetProjectMembers(p, access)

TimeSpec == TimeInit /\ [][TimeNext]_timeVars

-----------------------------------------------------------------------------
(* Properties.                                                             *)

Admits(s) == In(s, "project") \/ In(s, "members") \/ In(s, "member")

(* One query lists a project, three checks let a save of it through.       *)
ListedIsAccepted(s) ==
    Admits(s) /\ ~savers[s].overtaken =>
        LET listed == savers[s].project \in ProjectsPage.listed
        IN  /\ (In(s, "billable") \/ In(s, "write"))' => listed
            /\ (LookUpProject(s) \/ CountMembers(s) \/ CountMember(s)) /\ savers'[s] = NoSave
                  => ~listed

WithinBillable(s) ==
    In(s, "write") /\ WriteEntry(s) /\ savers[s].days > 0 /\ ~savers[s].overtaken
        => ProjectsPage.total' <= ProjectsPage.billable'

(* A save keeps what the page promises: it is let through for the projects *)
(* listed and for no other, and leaves the total within the billable days, *)
(* unless another write or an edit came between its statements.            *)
SavesMatchPage == [][\A s \in Savers : ListedIsAccepted(s) /\ WithinBillable(s)]_timeVars

(* The days of a certified month stay as they were certified: only a save  *)
(* that had looked before there was a certification still writes.          *)
CertifiedTimeKept ==
    [][locked /\ declared' # declared =>
          \E s \in Savers : In(s, "write") /\ savers[s].early]_timeVars
=============================================================================
