------------------------------ MODULE Startup ------------------------------
(***************************************************************************)
(* A start of the server on SQLite files of an earlier version             *)
(* (internal/db/db.go): legacy roles, the presences table that gets its    *)
(* half column, the copy of app.db, and the default statuses.  Statements  *)
(* run one by one, no transaction spans two of them, and the server may    *)
(* stop between any two.  A statement whose error is dropped may fail and  *)
(* the start goes on; one whose error ends the start is a Stop.            *)
(***************************************************************************)
EXTENDS Naturals, FiniteSets

CONSTANTS Rows,          \* ids of presences rows
          Defaults,      \* number of default statuses
          MaxStarts,     \* starts in a behaviour (a bound)
          MaxDropped    \* kinds of statement that fail in a behaviour (a bound)

ASSUME StartupAssumption ==
    Defaults \in Nat \ {0} /\ MaxStarts \in Nat /\ MaxDropped \in Nat

VARIABLES
    stage,        \* what the start has come to
    presences,    \* the presences table
    staging,      \* presences_new
    appDB,        \* app.db: there or renamed, and its presences rows
    roleLeader,   \* users.role still holds team_leader
    leaderRow,    \* the team_leaders row of that user
    statuses,     \* how many statuses there are
    seeded,       \* of these, how many the start that runs has inserted
    starts,       \* starts so far
    (* History variables, never read by the code. *)
    removed,      \* rows a user removed
    failed,       \* statements that failed without the start giving up
    torn          \* starts were stopped at these of the stages rename and seed

startupVars == <<stage, presences, staging, appDB, roleLeader, leaderRow, statuses, seeded,
                 starts, removed, failed, torn>>

NoTable == [half |-> FALSE, exists |-> FALSE, rows |-> {}]
Table(half, rs) == [half |-> half, exists |-> TRUE, rows |-> rs]
Tables == [half : BOOLEAN, exists : BOOLEAN, rows : SUBSET Rows]

Stages == {"stopped", "leaders", "roles", "create", "staging", "copy", "drop", "rename",
           "legacy", "renameApp", "count", "seed", "running"}

(* The statements whose errors are dropped.                                *)
Statements == {"leaders", "half", "staging", "copy", "drop", "rename", "legacy", "renameApp",
               "count"}

Drops(s) ==
    /\ Cardinality(failed \cup {s}) <= MaxDropped
    /\ failed' = failed \cup {s}

StartupTypeOK ==
    /\ stage \in Stages
    /\ presences \in Tables /\ staging \in Tables
    /\ appDB \in [there : BOOLEAN, half : BOOLEAN, rows : SUBSET Rows]
    /\ roleLeader \in BOOLEAN /\ leaderRow \in BOOLEAN
    /\ statuses \in Nat /\ seeded \in 0..Defaults
    /\ starts \in 0..MaxStarts
    /\ removed \subseteq Rows
    /\ failed \subseteq Statements /\ torn \subseteq {"rename", "seed"}

(* Files of an earlier version: the five databases with or without the     *)
(* half column, or app.db alone, older or newer.                           *)
StartupInit ==
    /\ stage = "stopped"
    /\ \/ /\ presences \in {Table(half, Rows) : half \in BOOLEAN}
          /\ appDB = [there |-> FALSE, half |-> FALSE, rows |-> {}]
          /\ statuses = Defaults
       \/ /\ presences = NoTable
          /\ appDB \in {[there |-> TRUE, half |-> half, rows |-> Rows] : half \in BOOLEAN}
          /\ statuses = 0
    /\ staging = NoTable
    /\ roleLeader \in BOOLEAN /\ leaderRow = FALSE
    /\ starts = 0 /\ seeded = 0
    /\ removed = {} /\ failed = {} /\ torn = {}

Advance(from, to) == stage = from /\ stage' = to

-----------------------------------------------------------------------------
(* migrateCore and migratePresence.                                        *)

Start ==
    /\ Advance("stopped", "leaders")
    /\ starts < MaxStarts /\ starts' = starts + 1
    /\ seeded' = 0
    /\ UNCHANGED <<presences, staging, appDB, roleLeader, leaderRow, statuses, removed, failed, torn>>

(* A team leader by role becomes one by team.                              *)
InsertLeaders ==
    /\ Advance("leaders", "roles")
    /\ \/ leaderRow' = (leaderRow \/ roleLeader) /\ UNCHANGED failed
       \/ UNCHANGED leaderRow /\ Drops("leaders")
    /\ UNCHANGED <<presences, staging, appDB, roleLeader, statuses, seeded, starts, removed, torn>>

CleanRoles ==
    /\ Advance("roles", "create")
    /\ roleLeader' \in {FALSE, roleLeader}
    /\ UNCHANGED <<presences, staging, appDB, leaderRow, statuses, seeded, starts, removed, failed,
                   torn>>

(* Every start migrates the table, whatever columns it has.                *)
MigrateAlways ==
    /\ Advance("create", "staging")
    /\ presences' = IF presences.exists THEN presences ELSE Table(TRUE, {})
    /\ UNCHANGED <<staging, appDB, roleLeader, leaderRow, statuses, seeded, starts, removed, failed,
                   torn>>

(* CREATE TABLE IF NOT EXISTS presences, then the look for its half        *)
(* column: a look that fails finds none.                                   *)
CreatePresences ==
    /\ stage = "create"
    /\ presences' = IF presences.exists THEN presences ELSE Table(TRUE, {})
    /\ \/ stage' = (IF presences'.half THEN "legacy" ELSE "staging") /\ UNCHANGED failed
       \/ presences'.half /\ stage' = "staging" /\ Drops("half")
    /\ UNCHANGED <<staging, appDB, roleLeader, leaderRow, statuses, seeded, starts, removed, torn>>

(* CREATE TABLE presences_new changes nothing when an earlier start left   *)
(* one.                                                                    *)
CreateStaging ==
    /\ Advance("staging", "copy")
    /\ \/ staging' = (IF staging.exists THEN staging ELSE Table(TRUE, {})) /\ UNCHANGED failed
       \/ ~staging.exists /\ UNCHANGED staging /\ Drops("staging")
    /\ UNCHANGED <<presences, appDB, roleLeader, leaderRow, statuses, seeded, starts, removed, torn>>

(* One INSERT ... SELECT: all rows, or none when there is no presences_new *)
(* or one of them is there already.  It writes whole days: a half copied   *)
(* so is a row that is lost.                                               *)
CopyRows ==
    /\ Advance("copy", "drop")
    /\ \/ /\ \E halves \in SUBSET presences.rows :
              /\ halves # {} => presences.half
              /\ staging' = IF staging.exists /\ staging.rows \cap presences.rows = {}
                            THEN [staging EXCEPT !.rows = @ \cup (presences.rows \ halves)]
                            ELSE staging
          /\ UNCHANGED failed
       \/ UNCHANGED staging /\ Drops("copy")
    /\ UNCHANGED <<presences, appDB, roleLeader, leaderRow, statuses, seeded, starts, removed, torn>>

DropPresences ==
    /\ Advance("drop", "rename")
    /\ \/ presences' = NoTable /\ UNCHANGED failed
       \/ UNCHANGED presences /\ Drops("drop")
    /\ UNCHANGED <<staging, appDB, roleLeader, leaderRow, statuses, seeded, starts, removed, torn>>

(* Nothing is renamed when there is no presences_new, or presences is      *)
(* still there.                                                            *)
RenameStaging ==
    /\ Advance("rename", "legacy")
    /\ \/ /\ staging.exists /\ ~presences.exists
          /\ presences' = staging /\ staging' = NoTable
          /\ UNCHANGED failed
       \/ /\ ~staging.exists \/ presences.exists
          /\ UNCHANGED <<presences, staging, failed>>
       \/ UNCHANGED <<presences, staging>> /\ Drops("rename")
    /\ UNCHANGED <<appDB, roleLeader, leaderRow, statuses, seeded, starts, removed, torn>>

-----------------------------------------------------------------------------
(* migrateLegacy and SeedDefaults.                                         *)

(* The rows of app.db that are not there yet, a table in a transaction and *)
(* errors, of a row too, only logged or dropped.  A query that fails, as on*)
(* a table without half, counts as a table without rows.                   *)
CopyLegacy ==
    /\ stage = "legacy"
    /\ IF appDB.there
       THEN LET rows == IF appDB.half /\ presences.half THEN appDB.rows ELSE {}
                full == IF statuses < Defaults THEN Defaults ELSE statuses
            IN  /\ stage' = "renameApp"
                /\ \/ /\ presences' = [presences EXCEPT !.rows = @ \cup rows]
                      /\ statuses' = full
                      /\ UNCHANGED failed
                   \/ /\ \E some \in SUBSET rows :
                             presences' = [presences EXCEPT !.rows = @ \cup some]
                      /\ statuses' \in {statuses, full}
                      /\ Drops("legacy")
       ELSE stage' = "count" /\ UNCHANGED <<presences, statuses, failed>>
    /\ UNCHANGED <<staging, appDB, roleLeader, leaderRow, seeded, starts, removed, torn>>

(* Whatever became of the copies; when app.db cannot be renamed the next   *)
(* start copies it again.                                                  *)
RenameAppDB ==
    /\ Advance("renameApp", "count")
    /\ \/ appDB' = [appDB EXCEPT !.there = FALSE] /\ UNCHANGED failed
       \/ UNCHANGED appDB /\ Drops("renameApp")
    /\ UNCHANGED <<presences, staging, roleLeader, leaderRow, statuses, seeded, starts, removed, torn>>

(* A count that fails is 0.                                                *)
CountStatuses ==
    /\ stage = "count"
    /\ \/ stage' = (IF statuses = 0 THEN "seed" ELSE "running") /\ UNCHANGED failed
       \/ statuses # 0 /\ stage' = "seed" /\ Drops("count")
    /\ UNCHANGED <<presences, staging, appDB, roleLeader, leaderRow, statuses, seeded, starts,
                   removed, torn>>

(* One status too many.                                                    *)
SeedOneMore ==
    /\ stage = "seed"
    /\ statuses' = statuses + 1 /\ seeded' = seeded + 1
    /\ stage' = IF seeded' > Defaults THEN "running" ELSE "seed"
    /\ UNCHANGED <<presences, staging, appDB, roleLeader, leaderRow, starts, removed, failed, torn>>

(* One statement for each default status.                                  *)
SeedStatus ==
    /\ stage = "seed"
    /\ statuses' = statuses + 1 /\ seeded' = seeded + 1
    /\ stage' = IF seeded' = Defaults THEN "running" ELSE "seed"
    /\ UNCHANGED <<presences, staging, appDB, roleLeader, leaderRow, starts, removed, failed, torn>>

-----------------------------------------------------------------------------

(* DELETE FROM presences of a day, which needs no half column.             *)
RemoveRow(r) ==
    /\ stage = "running" /\ r \in presences.rows
    /\ presences' = [presences EXCEPT !.rows = @ \ {r}]
    /\ removed' = removed \cup {r}
    /\ UNCHANGED <<stage, staging, appDB, roleLeader, leaderRow, statuses, seeded, starts, failed,
                   torn>>

Stop ==
    /\ stage # "stopped"
    /\ stage' = "stopped"
    /\ torn' = torn \cup ({stage} \cap {"rename", "seed"})
    /\ UNCHANGED <<presences, staging, appDB, roleLeader, leaderRow, statuses, seeded, starts,
                   removed, failed>>

StartupNext ==
    \/ Start \/ InsertLeaders \/ CleanRoles \/ CreatePresences \/ CreateStaging \/ CopyRows
    \/ DropPresences \/ RenameStaging \/ CopyLegacy \/ RenameAppDB
    \/ CountStatuses \/ SeedStatus
    \/ \E r \in Rows : RemoveRow(r)
    \/ Stop

StartupSpec == StartupInit /\ [][StartupNext]_startupVars

-----------------------------------------------------------------------------
(* Properties.                                                             *)

(* However often a start is stopped and tried again, a running server has  *)
(* every presences row of before that no user removed, unless, without the *)
(* start giving up, the look for the half column, a copy, or the creation  *)
(* or the renaming of the new table failed, app.db was too old to have     *)
(* halves, or a start stopped just between dropping the old table and      *)
(* renaming the new one.  So has it all default statuses, unless a start   *)
(* stopped among them, none of them twice, unless counting them failed,    *)
(* and the leaders of before, unless inserting them failed.                *)
StartKeepsRows ==
    stage = "running" =>
        /\ (/\ failed \cap {"half", "staging", "copy", "rename", "legacy"} = {}
            /\ appDB.rows = {} \/ appDB.half
            /\ "rename" \notin torn)
               => Rows \subseteq presences.rows \cup removed
        /\ "seed" \notin torn => statuses >= Defaults
        /\ "count" \notin failed => statuses <= Defaults
        /\ "leaders" \notin failed => roleLeader \in {FALSE, leaderRow}

(* A row that a user removed comes back only when app.db was copied again  *)
(* because it could not be renamed, or an old presences_new took the place *)
(* of presences: the old table could not be dropped in the start that made *)
(* it, or a table that has halves was migrated again.                      *)
RemovedStaysRemoved ==
    presences.rows \cap removed # {} => failed \cap {"renameApp", "drop", "half"} # {}

(* Nothing lost and nothing brought back.                                  *)
StartIsSafe == StartKeepsRows /\ RemovedStaysRemoved
=============================================================================
