--------------------------- MODULE ProjectsReport ---------------------------
(***************************************************************************)
(* The projects report of one project (handlers/projects.go and            *)
(* db/projects.go): which months it covers and what it adds up.  Months    *)
(* are numbered from a first one on; a date is a month and a day of it.    *)
(***************************************************************************)
EXTENDS Naturals, Totals, Functions

CONSTANTS Declarers,     \* users with time entries on the project
          Lengths,       \* month: its number of days
          MaxMonths,     \* the cap of 24 months a report covers
          MaxEntries     \* entries in a behaviour (a bound)

Months == DOMAIN Lengths

ASSUME ProjectsReportAssumption ==
    /\ IsFiniteSet(Months) /\ 2 \in Months /\ IsFiniteSet(Declarers)
    /\ Lengths \in [0..(Cardinality(Months) - 1) -> 28..31]
    /\ MaxMonths \in Nat \ {0, 1, 2} /\ MaxEntries \in Nat

VARIABLES
    today,        \* the server's clock
    entries,      \* project_time_entries of the project, in days
    sheet         \* the report as it was rendered, and for what range

projectsReportVars == <<today, entries, sheet>>

NoSheet == [keys |-> <<>>]

(* range: the months asked for, empty when none or an invalid one was.     *)
Sheet == [keys : UNION {[1..n -> Months] : n \in 1..MaxMonths}, range : SUBSET Months,
          totals : [Months -> Nat], past : [Declarers -> Nat], toDate : [Declarers -> Nat],
          all : [Declarers -> Nat], day : [month : Months, day : 1..31]]

ProjectsReportTypeOK ==
    /\ today \in [month : Months, day : 1..31]
    /\ entries \in [Declarers -> [Months -> 0..MaxEntries]]
    /\ sheet \in Sheet \cup {NoSheet}

ProjectsReportInit ==
    /\ today = [month |-> 2, day |-> Lengths[2]]
    /\ entries = [u \in Declarers |-> [m \in Months |-> 0]]
    /\ sheet = NoSheet

AllOf(u) == SumOf(entries[u])

-----------------------------------------------------------------------------
(* Months.                                                                 *)

(* The month of today.AddDate(0, -i, 0): a day the month does not have     *)
(* falls into the month after it.                                          *)
MonthBack(i) ==
    LET m == today.month - i IN IF today.day > Lengths[m] THEN m + 1 ELSE m

DefaultKeys == [k \in 1..3 |-> MonthBack(3 - k)]

(* The cap takes the last months.                                          *)
BuildMonthKeysBackwards(from, to) ==
    LET n == Min({MaxMonths, to - from + 1}) IN [k \in 1..n |-> to - n + k]

(* buildMonthKeysFromRange.                                                *)
BuildMonthKeysFromRange(from, to) ==
    IF from > to THEN <<>> ELSE [k \in 1..Min({MaxMonths, to - from + 1}) |-> from + k - 1]

-----------------------------------------------------------------------------
(* Totals: one term for every key.                                         *)

Positions(keys) == DOMAIN keys

(* enrichReportTotals: the last key is the current month.                  *)
Past(u, keys) ==
    SumOf([k \in {i \in Positions(keys) : keys[i] < keys[Cardinality(Positions(keys))]}
              |-> entries[u][keys[k]]])

ToDate(u, keys) == SumOf([k \in Positions(keys) |-> entries[u][keys[k]]])

(* buildProjectReportRow adds every user's days once for each key.         *)
MonthTotal(m, keys) ==
    Cardinality({k \in Positions(keys) : keys[k] = m})
        * SumOf([u \in Declarers |-> entries[u][m]])

Render(keys, range) ==
    sheet' = [keys |-> keys, range |-> range, day |-> today,
              totals |-> [m \in Months |-> MonthTotal(m, keys)],
              past |-> [u \in Declarers |-> Past(u, keys)],
              toDate |-> [u \in Declarers |-> ToDate(u, keys)],
              all |-> [u \in Declarers |-> AllOf(u)]]

(* ProjectsReportPage and ProjectsReportAPI without dates.                 *)
DefaultReport ==
    /\ sheet = NoSheet
    /\ Render(DefaultKeys, {})
    /\ UNCHANGED <<today, entries>>

(* With dates; an invalid range falls back to the default.                 *)
RangeReport(from, to) ==
    /\ sheet = NoSheet
    /\ LET keys == BuildMonthKeysFromRange(from, to)
       IN  IF keys = <<>> THEN Render(DefaultKeys, {}) ELSE Render(keys, from..to)
    /\ UNCHANGED <<today, entries>>

CloseSheet ==
    /\ sheet # NoSheet
    /\ sheet' = NoSheet
    /\ UNCHANGED <<today, entries>>

-----------------------------------------------------------------------------

(* Days get declared for a month that has begun.                           *)
DeclareDays(u, m) ==
    /\ sheet = NoSheet
    /\ m <= today.month
    /\ SumOf([v \in Declarers |-> AllOf(v)]) < MaxEntries
    /\ entries' = [entries EXCEPT ![u][m] = @ + 1]
    /\ UNCHANGED <<today, sheet>>

NextDay ==
    /\ sheet = NoSheet
    /\ IF today.day < Lengths[today.month] THEN today' = [today EXCEPT !.day = @ + 1]
       ELSE today.month + 1 \in Months /\ today' = [month |-> today.month + 1, day |-> 1]
    /\ UNCHANGED <<entries, sheet>>

ProjectsReportNext ==
    \/ DefaultReport
    \/ \E from, to \in Months : RangeReport(from, to)
    \/ CloseSheet
    \/ \E u \in Declarers, m \in Months : DeclareDays(u, m)
    \/ NextDay

ProjectsReportSpec == ProjectsReportInit /\ [][ProjectsReportNext]_projectsReportVars

-----------------------------------------------------------------------------
(* Properties.                                                             *)

KeySet == {sheet.keys[k] : k \in DOMAIN sheet.keys}

(* A report for a range covers its months from the first one on, each once,*)
(* and its columns reconcile: the months add up to the users' days to date,*)
(* the days before the last month with them to the same, and nobody has    *)
(* more days to date than were ever declared.                              *)
RangeReconciles ==
    (sheet # NoSheet /\ sheet.range # {}) =>
        LET first == Min(sheet.range)
            last == sheet.keys[Cardinality(DOMAIN sheet.keys)]
            dates == SumOf(sheet.toDate)
            before == SumOf(sheet.past)
            columns == SumOf(sheet.totals)
        IN  /\ KeySet = {m \in sheet.range : m < first + MaxMonths}
            /\ IsInjective(sheet.keys)
            /\ columns = dates
            /\ before + sheet.totals[last] = dates
            /\ \A u \in Declarers : sheet.toDate[u] <= sheet.all[u]

(* "Build month keys: from date range when provided, else current + 2      *)
(* previous", the comment in ProjectsReportPage says.                      *)
DefaultIsThreeMonths ==
    (sheet # NoSheet /\ sheet.range = {}) =>
        sheet.keys = [k \in 1..3 |-> sheet.day.month - 3 + k]
=============================================================================
