---------------------------- MODULE MCTimesheets ----------------------------
(***************************************************************************)
(* The two ways of declaring time, as one state machine: a team's sheets   *)
(* are manual (ProjectActivities) or in percentages (ProjectTime), which   *)
(* write different tables; a behaviour is of one of them and leaves the    *)
(* other as it begins.                                                     *)
(***************************************************************************)
EXTENDS ProjectActivities, ProjectTime, TLC

CONSTANTS w1, w2, u1, d1, m1, a1, a2, b1, b2

VARIABLE manual       \* timesheets_managed_manually of the behaviour's team

timesheetsVars == <<manual, activityVars, timeVars>>

TimesheetsInit ==
    /\ manual \in BOOLEAN
    /\ ActivitiesInit /\ TimeInit
    /\ manual => ~oversees /\ \A p \in Projects : projects[p] = CHOOSE x \in Settings : TRUE

TimesheetsNext ==
    \/ manual /\ ActivitiesNext /\ UNCHANGED <<manual, timeVars>>
    \/ ~manual /\ TimeNext /\ UNCHANGED <<manual, activityVars>>

TimesheetsSpec == TimesheetsInit /\ [][TimesheetsNext]_timesheetsVars

TimesheetsTypeOK == manual \in BOOLEAN /\ ActivitiesTypeOK /\ TimeTypeOK

OneMonth == [d \in Dates |-> m1]

(* The settings that tell the branches of SetProjectTime apart.            *)
MCSettings == {[active |-> TRUE, ended |-> FALSE, access |-> "open"],
               [active |-> TRUE, ended |-> FALSE, access |-> "listed"],
               [active |-> TRUE, ended |-> TRUE, access |-> "listed"],
               [active |-> TRUE, ended |-> FALSE, access |-> "others"]}

TimesheetsSymmetry == Permutations({w1, w2}) \cup Permutations({a1, a2}) \cup Permutations({b1, b2})
=============================================================================
