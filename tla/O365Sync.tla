------------------------------ MODULE O365Sync ------------------------------
(***************************************************************************)
(* Office 365 synchronisation of one user's month: the debouncer and its   *)
(* timers, SyncMonth run by timers and by hand, the user's OAuth token     *)
(* (internal/o365, internal/db/o365.go, internal/handlers/o365.go), and    *)
(* the user's Outlook calendar beyond it.                                  *)
(*                                                                         *)
(* No lock is held during a run, so runs overlap; every statement and      *)
(* every call to Microsoft Graph is a step.  A slot stands for a date and  *)
(* a half of it.                                                           *)
(***************************************************************************)
EXTENDS Naturals

CONSTANTS Slots, Statuses, NoStatus,
          Synced,        \* statuses whose O365ShowAs is not empty
          Runs,          \* executions of SyncMonth at once (a bound)
          Timers,        \* timers alive at once (a bound)
          Events,        \* ids of Outlook events in use at once (a bound)
          Budgets,       \* initial values of left (a bound)
          Faults         \* whether calls and statements may fail and the server restart

NoTimer == "none"
NoEvent == "none"

ASSUME SyncAssumption ==
    /\ Slots # {}
    /\ NoStatus \notin Statuses
    /\ Synced \subseteq Statuses
    /\ "callback" \notin Runs /\ NoTimer \notin Timers /\ NoEvent \notin Events
    /\ Budgets \subseteq [edits : Nat, choices : Nat]
    /\ Faults \in BOOLEAN

VARIABLES
    presence,     \* the month's presences rows
    editing,      \* an edit is between its write and its call of Trigger
    entry,        \* Debouncer.timers[key]
    armed,        \* timers that will fire
    fired,        \* timers whose callback waits for the debouncer's lock
    runs,         \* executions of SyncMonth
    records,      \* calendar_sync_events rows
    outlook,      \* the application's events in the user's calendar
    token,        \* the user_o365_tokens row
    callback,     \* an OAuth callback on its way through ExchangeCode
    purging,      \* Disconnect is between its two deletes
    left,         \* edits and choices the user may still make
    (* History variables, never read by the code. *)
    owed,         \* a change was queued and no clean run has copied it yet
    inSync,       \* a clean run has copied what is still declared
    upset,        \* two runs overlapped, something failed or was disconnected
    discarded,    \* events the user deleted in Outlook
    wanted,       \* what the user last asked of the token
    late,         \* who read the token before that and has not written it yet
    swayed        \* someone late has written it

syncVars == <<presence, editing, entry, armed, fired, runs, records, outlook, token,
              callback, purging, left, owed, inSync, upset, discarded, wanted, late, swayed>>

timerVars == <<entry, armed, fired>>
choiceVars == <<token, wanted, late, swayed, callback, purging>>

NoRecord == [event |-> NoEvent]
NoToken == [fresh |-> FALSE]

Declaration == [Slots -> Statuses \cup {NoStatus}]
SyncRecord == [event : Events, status : Synced]
Event == [id : Events, slot : Slots, status : Synced]
Token == [autoSync : BOOLEAN, fresh : BOOLEAN]
Choice == [connected : BOOLEAN, autoSync : BOOLEAN]
Disconnected == [connected |-> FALSE, autoSync |-> FALSE]

RunStage == {"idle", "token", "refresh", "insertToken", "updateToken", "presences",
             "records", "slots", "count", "insert", "update", "forget"}

Run == [stage : RunStage, autoSync : BOOLEAN, view : Declaration,
        known : [Slots -> SyncRecord \cup {NoRecord}], todo : SUBSET Slots,
        unsaved : SUBSET Slots,  \* whose update failed: still in existingMap
        slot : Slots, event : Events \cup {NoEvent},
        clean : BOOLEAN]         \* history: undisturbed so far

NoRun == [stage |-> "idle", autoSync |-> FALSE, view |-> [s \in Slots |-> NoStatus],
          known |-> [s \in Slots |-> NoRecord], todo |-> {}, unsaved |-> {},
          slot |-> CHOOSE s \in Slots : TRUE, event |-> NoEvent,
          clean |-> FALSE]

NoCallback == [stage |-> "idle", autoSync |-> FALSE]

SyncTypeOK ==
    /\ presence \in Declaration
    /\ editing \in BOOLEAN
    /\ entry \in Timers \cup {NoTimer}
    /\ armed \subseteq Timers /\ fired \subseteq Timers /\ armed \cap fired = {}
    /\ runs \in [Runs -> Run]
    /\ records \in [Slots -> SyncRecord \cup {NoRecord}]
    /\ outlook \subseteq Event
    /\ token \in Token \cup {NoToken}
    /\ callback \in [stage : {"idle", "count", "insert", "update"}, autoSync : BOOLEAN]
    /\ purging \in BOOLEAN
    /\ left \in [edits : Nat, choices : Nat]
    /\ {owed, inSync, upset, swayed} \subseteq BOOLEAN
    /\ discarded \subseteq Events
    /\ wanted \in Choice
    /\ late \subseteq Runs \cup {"callback"}

(* A connected user with nothing declared and nothing synchronised yet.    *)
SyncInit ==
    /\ presence = [s \in Slots |-> NoStatus]
    /\ editing = FALSE
    /\ entry = NoTimer /\ armed = {} /\ fired = {}
    /\ runs = [r \in Runs |-> NoRun]
    /\ records = [s \in Slots |-> NoRecord]
    /\ outlook = {}
    /\ token = [autoSync |-> TRUE, fresh |-> TRUE]
    /\ callback = NoCallback
    /\ purging = FALSE
    /\ left \in Budgets
    /\ owed = FALSE /\ inSync = TRUE /\ upset = FALSE
    /\ discarded = {}
    /\ wanted = [connected |-> TRUE, autoSync |-> TRUE]
    /\ late = {} /\ swayed = FALSE

-----------------------------------------------------------------------------
(* Edits and the debouncer.                                                *)

(* SetPresences or ClearPresences writes a row of the month.               *)
EditPresence(s, v) ==
    /\ ~editing /\ left.edits > 0 /\ presence[s] # v
    /\ presence' = [presence EXCEPT ![s] = v]
    /\ editing' = TRUE
    /\ left' = [left EXCEPT !.edits = @ - 1]
    /\ inSync' = FALSE
    /\ UNCHANGED <<timerVars, runs, records, outlook, choiceVars, owed, upset, discarded>>

(* A call within the interval stops the timer and arms none.               *)
TriggerDropped ==
    IF entry # NoTimer THEN armed' = armed \ {entry} /\ UNCHANGED <<entry, fired>>
    ELSE \E t \in Timers \ (armed \cup fired) :
            armed' = armed \cup {t} /\ entry' = t /\ UNCHANGED fired

(* Trigger under the debouncer's lock: Stop has no effect on a timer that  *)
(* has fired already.                                                      *)
Trigger ==
    \E t \in Timers \ (armed \cup fired \cup {entry}) :
        /\ armed' = (armed \ {entry}) \cup {t}
        /\ entry' = t
        /\ UNCHANGED fired

(* The tail of both handlers.                                              *)
QueueSync ==
    /\ editing
    /\ editing' = FALSE
    /\ IF token # NoToken /\ token.autoSync
       THEN Trigger /\ owed' = TRUE
       ELSE UNCHANGED <<timerVars, owed>>
    /\ UNCHANGED <<presence, runs, records, outlook, choiceVars, left, inSync, upset, discarded>>

(* The timer goes off again and again.                                     *)
TimerRepeats(t) ==
    /\ t \in armed
    /\ fired' = fired \cup {t}
    /\ UNCHANGED <<presence, editing, entry, armed, runs, records, outlook, choiceVars, left,
                   owed, inSync, upset, discarded>>

TimerElapses(t) ==
    /\ t \in armed
    /\ armed' = armed \ {t}
    /\ fired' = fired \cup {t}
    /\ UNCHANGED <<presence, editing, entry, runs, records, outlook, choiceVars, left,
                   owed, inSync, upset, discarded>>

Active(r) == runs[r].stage # "idle"

(* SyncMonth begins; a run beside it is no longer alone.                   *)
Start(r) ==
    /\ ~Active(r)
    /\ runs' = [q \in Runs |->
          IF q = r THEN [NoRun EXCEPT !.stage = "token", !.clean = \A p \in Runs : ~Active(p)]
                   ELSE [runs[q] EXCEPT !.clean = FALSE]]
    /\ upset' = (upset \/ \E p \in Runs : Active(p))

(* The callback takes the lock, deletes the key, whichever timer it holds  *)
(* now, and synchronises.                                                  *)
TimerCallback(t, r) ==
    /\ t \in fired
    /\ fired' = fired \ {t}
    /\ entry' = NoTimer
    /\ Start(r)
    /\ UNCHANGED <<presence, editing, armed, records, outlook, choiceVars, left,
                   owed, inSync, discarded>>

(* POST /api/o365/sync.                                                    *)
SyncByHand(r) ==
    /\ left.choices > 0
    /\ left' = [left EXCEPT !.choices = @ - 1]
    /\ Start(r)
    /\ UNCHANGED <<presence, editing, timerVars, records, outlook, choiceVars,
                   owed, inSync, discarded>>

-----------------------------------------------------------------------------
(* The token.                                                              *)

(* Those between their read of the token and their write.                  *)
HoldingToken ==
    {r \in Runs : runs[r].stage \in {"refresh", "insertToken", "updateToken"}}
        \cup (IF callback.stage = "idle" THEN {} ELSE {"callback"})

DeleteToken ==
    /\ token' = NoToken
    /\ wanted' = Disconnected
    /\ late' = late \cup HoldingToken

(* The second statement of SaveUserO365Token, an INSERT or an UPDATE as    *)
(* its count decided; the first fails on a row, the second on none.        *)
SaveToken(who, insert, auto) ==
    /\ token' = IF (token = NoToken) = insert THEN [autoSync |-> auto, fresh |-> TRUE]
                                              ELSE token
    /\ late' = late \ {who}
    /\ swayed' = (swayed \/ who \in late)

RunTo(r, stage) == runs' = [runs EXCEPT ![r].stage = stage]

EndRun(r) == runs' = [runs EXCEPT ![r] = NoRun]

(* The run reports an error: nothing of its month is known to be copied.   *)
FailRun(r) == EndRun(r) /\ upset' = TRUE

(* GetValidAccessToken: the row is read, and used unless about to expire.  *)
ReadToken(r) ==
    /\ runs[r].stage = "token"
    /\ \/ token = NoToken /\ FailRun(r)
       \/ /\ token # NoToken
          /\ runs' = [runs EXCEPT ![r].autoSync = token.autoSync,
                                  ![r].stage = IF token.fresh THEN "presences" ELSE "refresh"]
          /\ UNCHANGED upset
    /\ UNCHANGED <<presence, editing, timerVars, records, outlook, choiceVars, left,
                   owed, inSync, discarded>>

(* Microsoft answers the refresh; then the count of SaveUserO365Token.     *)
RefreshToken(r) ==
    /\ runs[r].stage = "refresh"
    /\ RunTo(r, IF token = NoToken THEN "insertToken" ELSE "updateToken")
    /\ UNCHANGED <<presence, editing, timerVars, records, outlook, choiceVars, left,
                   owed, inSync, upset, discarded>>

(* Microsoft no longer accepts the refresh token: the user is disconnected.*)
GrantRevoked(r) ==
    /\ Faults
    /\ runs[r].stage = "refresh"
    /\ token' = NoToken /\ wanted' = Disconnected
    /\ late' = (late \cup HoldingToken) \ {r}
    /\ FailRun(r)
    /\ UNCHANGED <<presence, editing, timerVars, records, outlook, callback, purging, left,
                   owed, inSync, discarded, swayed>>

(* The row is refreshed with auto-sync off.                                *)
SaveRefreshedReset(r) ==
    /\ runs[r].stage \in {"insertToken", "updateToken"}
    /\ LET insert == runs[r].stage = "insertToken"
       IN  /\ SaveToken(r, insert, FALSE)
           /\ IF insert /\ token # NoToken THEN FailRun(r)
              ELSE RunTo(r, "presences") /\ UNCHANGED upset
    /\ UNCHANGED <<presence, editing, timerVars, records, outlook, wanted, callback, purging,
                   left, owed, inSync, discarded>>

(* The refreshed row gets back the auto-sync flag it was read with.        *)
SaveRefreshed(r) ==
    /\ runs[r].stage \in {"insertToken", "updateToken"}
    /\ LET insert == runs[r].stage = "insertToken"
       IN  /\ SaveToken(r, insert, runs[r].autoSync)
           /\ IF insert /\ token # NoToken THEN FailRun(r)
              ELSE RunTo(r, "presences") /\ UNCHANGED upset
    /\ UNCHANGED <<presence, editing, timerVars, records, outlook, wanted, callback, purging,
                   left, owed, inSync, discarded>>

TokenExpires ==
    /\ token # NoToken /\ token.fresh
    /\ token' = [token EXCEPT !.fresh = FALSE]
    /\ UNCHANGED <<presence, editing, timerVars, runs, records, outlook, wanted, late, swayed,
                   callback, purging, left, owed, inSync, upset, discarded>>

(* ExchangeCode has its tokens from Microsoft and reads the flag to keep.  *)
Connect ==
    /\ callback.stage = "idle" /\ left.choices > 0
    /\ left' = [left EXCEPT !.choices = @ - 1]
    /\ callback' = [stage |-> "count", autoSync |-> token # NoToken /\ token.autoSync]
    /\ UNCHANGED <<presence, editing, timerVars, runs, records, outlook, token, wanted, late,
                   swayed, purging, owed, inSync, upset, discarded>>

ConnectCount ==
    /\ callback.stage = "count"
    /\ callback' = [callback EXCEPT !.stage = IF token = NoToken THEN "insert" ELSE "update"]
    /\ UNCHANGED <<presence, editing, timerVars, runs, records, outlook, token, wanted, late,
                   swayed, purging, left, owed, inSync, upset, discarded>>

ConnectSave ==
    /\ callback.stage \in {"insert", "update"}
    /\ SaveToken("callback", callback.stage = "insert", callback.autoSync)
    /\ wanted' = [wanted EXCEPT !.connected = TRUE]
    /\ callback' = NoCallback
    /\ UNCHANGED <<presence, editing, timerVars, runs, records, outlook, purging, left,
                   owed, inSync, upset, discarded>>

(* What was queued is owed no more once auto-sync is switched off.         *)
ToggleAutoSync(v) ==
    /\ left.choices > 0
    /\ left' = [left EXCEPT !.choices = @ - 1]
    /\ IF token = NoToken THEN UNCHANGED <<token, wanted, late>>
       ELSE /\ token' = [token EXCEPT !.autoSync = v]
            /\ wanted' = [wanted EXCEPT !.autoSync = v]
            /\ late' = late \cup HoldingToken
    /\ owed' = (owed /\ v)
    /\ UNCHANGED <<presence, editing, timerVars, runs, records, outlook, swayed, callback,
                   purging, inSync, upset, discarded>>

Disconnect ==
    /\ ~purging /\ left.choices > 0
    /\ left' = [left EXCEPT !.choices = @ - 1]
    /\ DeleteToken
    /\ purging' = TRUE
    /\ upset' = TRUE
    /\ UNCHANGED <<presence, editing, timerVars, runs, records, outlook, swayed, callback,
                   owed, inSync, discarded>>

(* DeleteAllCalendarSyncEventsForUser; the events stay in Outlook.         *)
PurgeRecords ==
    /\ purging
    /\ purging' = FALSE
    /\ records' = [s \in Slots |-> NoRecord]
    /\ runs' = [r \in Runs |-> [runs[r] EXCEPT !.clean = FALSE]]
    /\ inSync' = FALSE
    /\ UNCHANGED <<presence, editing, timerVars, outlook, token, wanted, late, swayed,
                   callback, left, owed, upset, discarded>>

-----------------------------------------------------------------------------
(* SyncMonth.                                                              *)

ReadPresences(r) ==
    /\ runs[r].stage = "presences"
    /\ runs' = [runs EXCEPT ![r].view = presence, ![r].stage = "records"]
    /\ UNCHANGED <<presence, editing, timerVars, records, outlook, choiceVars, left,
                   owed, inSync, upset, discarded>>

(* Cleared slots, which have no row any more, are forgotten.               *)
OutdatedDeclared(view, known) ==
    {s \in Slots : IF view[s] \in Synced
                   THEN known[s] = NoRecord \/ known[s].status # view[s]
                   ELSE view[s] # NoStatus /\ known[s] # NoRecord}

(* The slots whose record does not tell what is declared.                  *)
Outdated(view, known) ==
    {s \in Slots : IF view[s] \in Synced
                   THEN known[s] = NoRecord \/ known[s].status # view[s]
                   ELSE known[s] # NoRecord}

ReadRecords(r) ==
    /\ runs[r].stage = "records"
    /\ runs' = [runs EXCEPT ![r].known = records, ![r].stage = "slots",
                            ![r].todo = Outdated(runs[r].view, records)]
    /\ UNCHANGED <<presence, editing, timerVars, records, outlook, choiceVars, left,
                   owed, inSync, upset, discarded>>

(* Declared slots first, in any order, then what is left of existingMap:   *)
(* slots without a declaration, and those whose update failed.             *)
NextSlots(r) ==
    LET declared == {s \in runs[r].todo \ runs[r].unsaved : runs[r].view[s] # NoStatus}
    IN  IF declared # {} THEN declared ELSE runs[r].todo

ToUpsert(r, s) == runs[r].view[s] \in Synced /\ s \notin runs[r].unsaved

(* Graph never uses an id again; one nobody remembers may serve as new.    *)
NewEvents ==
    Events \ ({e.id : e \in outlook} \cup {records[s].event : s \in Slots}
                \cup {runs[r].event : r \in Runs}
                \cup {runs[r].known[s].event : r \in Runs, s \in Slots})

(* An event is created even for a slot that has one.                       *)
UpsertAnew(r, s, e) ==
    /\ ToUpsert(r, s)
    /\ e \in NewEvents
    /\ outlook' = outlook \cup {[id |-> e, slot |-> s, status |-> runs[r].view[s]]}
    /\ discarded' = discarded \ {e}

(* CreateEvent, or UpdateEvent with its answer 404 followed by a creation. *)
Upsert(r, s, e) ==
    LET kept == {x \in outlook : x.id = runs[r].known[s].event}
    IN  /\ ToUpsert(r, s)
        /\ IF kept = {} THEN e \in NewEvents /\ e = CHOOSE x \in NewEvents : TRUE
                        ELSE e = runs[r].known[s].event
        /\ outlook' = (outlook \ kept)
              \cup {[id |-> e, slot |-> s, status |-> runs[r].view[s]]}
        /\ discarded' = discarded \ {e}

(* DeleteEvent; an event that is gone is no error.                         *)
Remove(r, s) ==
    /\ ~ToUpsert(r, s)
    /\ outlook' = {x \in outlook : x.id # runs[r].known[s].event}
    /\ UNCHANGED discarded

AtSlot(r, s, e, stage) ==
    runs' = [runs EXCEPT ![r].todo = @ \ {s}, ![r].slot = s, ![r].event = e, ![r].stage = stage]

CallGraph(r) ==
    /\ runs[r].stage = "slots"
    /\ \E s \in NextSlots(r) :
         \/ \E e \in Events : Upsert(r, s, e) /\ AtSlot(r, s, e, "count")
         \/ Remove(r, s) /\ AtSlot(r, s, NoEvent, "forget")
    /\ UNCHANGED <<presence, editing, timerVars, records, choiceVars, left,
                   owed, inSync, upset>>

(* The call fails, or its answer is lost.  A slot without a record is      *)
(* skipped; one with a record is left to the second loop, which takes its  *)
(* event for that of a cleared presence; the record of an event that could *)
(* not be removed is deleted all the same.                                 *)
GraphFails(r) ==
    /\ Faults
    /\ runs[r].stage = "slots"
    /\ \E s \in NextSlots(r) :
         /\ \/ UNCHANGED <<outlook, discarded>>
            \/ (\E e \in Events : Upsert(r, s, e)) \/ Remove(r, s)
         /\ LET later == ToUpsert(r, s) /\ runs[r].known[s] # NoRecord
            IN  runs' = [runs EXCEPT ![r].slot = s, ![r].clean = FALSE,
                            ![r].todo = IF later THEN @ ELSE @ \ {s},
                            ![r].unsaved = IF later THEN @ \cup {s} ELSE @,
                            ![r].stage = IF ToUpsert(r, s) THEN "slots" ELSE "forget"]
    /\ upset' = TRUE
    /\ UNCHANGED <<presence, editing, timerVars, records, choiceVars, left, owed, inSync>>

(* SaveCalendarSyncEvent: a count, then an INSERT or an UPDATE.            *)
CountRecord(r) ==
    /\ runs[r].stage = "count"
    /\ RunTo(r, IF records[runs[r].slot] = NoRecord THEN "insert" ELSE "update")
    /\ UNCHANGED <<presence, editing, timerVars, records, outlook, choiceVars, left,
                   owed, inSync, upset, discarded>>

SlotDone(r) == runs' = [runs EXCEPT ![r].stage = "slots", ![r].event = NoEvent]

SaveRecord(r) ==
    /\ runs[r].stage \in {"insert", "update"}
    /\ LET s == runs[r].slot
       IN  records' = [records EXCEPT ![s] =
                          IF (@ = NoRecord) = (runs[r].stage = "insert")
                          THEN [event |-> runs[r].event, status |-> runs[r].view[s]]
                          ELSE @]
    /\ SlotDone(r)
    /\ UNCHANGED <<presence, editing, timerVars, outlook, choiceVars, left,
                   owed, inSync, upset, discarded>>

ForgetRecord(r) ==
    /\ runs[r].stage = "forget"
    /\ records' = [records EXCEPT ![runs[r].slot] = NoRecord]
    /\ SlotDone(r)
    /\ UNCHANGED <<presence, editing, timerVars, outlook, choiceVars, left,
                   owed, inSync, upset, discarded>>

(* The errors of these statements are logged or dropped.                   *)
RecordFails(r) ==
    /\ Faults
    /\ runs[r].stage \in {"count", "insert", "update", "forget"}
    /\ runs' = [runs EXCEPT ![r].stage = "slots", ![r].event = NoEvent, ![r].clean = FALSE]
    /\ upset' = TRUE
    /\ UNCHANGED <<presence, editing, timerVars, records, outlook, choiceVars, left,
                   owed, inSync, discarded>>

(* A query of the run, or its token refresh, fails.                        *)
RunFails(r) ==
    /\ Faults
    /\ runs[r].stage \in {"token", "refresh", "insertToken", "updateToken",
                          "presences", "records"}
    /\ FailRun(r)
    /\ late' = late \ {r}
    /\ UNCHANGED <<presence, editing, timerVars, records, outlook, token, wanted, swayed,
                   callback, purging, left, owed, inSync, discarded>>

FinishRun(r) ==
    /\ runs[r].stage = "slots" /\ runs[r].todo = {}
    /\ LET copied == runs[r].clean /\ runs[r].view = presence
       IN  /\ inSync' = (inSync \/ copied)
           /\ owed' = (owed /\ ~copied)
    /\ EndRun(r)
    /\ UNCHANGED <<presence, editing, timerVars, records, outlook, choiceVars, left,
                   upset, discarded>>

-----------------------------------------------------------------------------
(* Outside the run.                                                        *)

(* The user deletes an event in Outlook.                                   *)
DiscardEvent(e) ==
    /\ left.choices > 0
    /\ left' = [left EXCEPT !.choices = @ - 1]
    /\ e \in outlook
    /\ outlook' = outlook \ {e}
    /\ discarded' = discarded \cup {e.id}
    /\ UNCHANGED <<presence, editing, timerVars, runs, records, choiceVars, owed, inSync, upset>>

(* The server stops: timers, runs and requests are gone.                   *)
RestartSync ==
    /\ Faults
    /\ editing' = FALSE
    /\ entry' = NoTimer /\ armed' = {} /\ fired' = {}
    /\ runs' = [r \in Runs |-> NoRun]
    /\ callback' = NoCallback
    /\ purging' = FALSE
    /\ late' = {}
    /\ upset' = TRUE
    /\ UNCHANGED <<presence, records, outlook, token, wanted, swayed, left,
                   owed, inSync, discarded>>

RunStep(r) ==
    \/ ReadToken(r) \/ RefreshToken(r) \/ SaveRefreshed(r)
    \/ ReadPresences(r) \/ ReadRecords(r) \/ CallGraph(r)
    \/ CountRecord(r) \/ SaveRecord(r) \/ ForgetRecord(r) \/ FinishRun(r)

SyncNext ==
    \/ \E s \in Slots, v \in Statuses \cup {NoStatus} : EditPresence(s, v)
    \/ QueueSync
    \/ \E t \in Timers : TimerElapses(t) \/ \E r \in Runs : TimerCallback(t, r)
    \/ \E r \in Runs :
          \/ SyncByHand(r) \/ RunStep(r)
          \/ GrantRevoked(r) \/ GraphFails(r) \/ RecordFails(r) \/ RunFails(r)
    \/ TokenExpires
    \/ Connect \/ ConnectCount \/ ConnectSave
    \/ \E v \in BOOLEAN : ToggleAutoSync(v)
    \/ Disconnect \/ PurgeRecords
    \/ \E e \in outlook : DiscardEvent(e)
    \/ RestartSync

SyncSpec == SyncInit /\ [][SyncNext]_syncVars

(* A timer elapses, its callback gets the lock, and goroutines go on.      *)
SyncFairness ==
    /\ WF_syncVars(QueueSync)
    /\ \A t \in Timers : /\ WF_syncVars(TimerElapses(t))
                         /\ WF_syncVars(\E r \in Runs : TimerCallback(t, r))
    /\ \A r \in Runs : WF_syncVars(RunStep(r))

FairSyncSpec == SyncSpec /\ SyncFairness

-----------------------------------------------------------------------------
(* Properties.                                                             *)

(* Whatever failed, overlapped or was lost before, one run that is alone   *)
(* from start to end and meets no error repairs the bookkeeping: from then *)
(* until the next edit the records tell exactly what is declared.          *)
CleanRunRepairs ==
    inSync => \A s \in Slots : /\ records[s] # NoRecord <=> presence[s] \in Synced
                               /\ records[s] # NoRecord => records[s].status = presence[s]

Held(e) == \E r \in Runs : runs[r].event = e.id

(* An event that no record leads to, which nothing will ever remove, comes *)
(* only from overlapping runs, a failure or a disconnection; and a record  *)
(* tells what its event shows unless the user deleted that.                *)
NoOrphanUnlessUpset ==
    upset \/ /\ \A e \in outlook : Held(e) \/ records[e.slot].event = e.id
             /\ \A s \in Slots : records[s] # NoRecord =>
                   \/ records[s].event \in discarded
                   \/ \E e \in outlook : e.id = records[s].event /\ e.slot = s
                          /\ (e.status = records[s].status \/ Held(e))
                   \/ \E r \in Runs : runs[r].stage = "forget" /\ runs[r].slot = s

(* The token row is there, and its auto-sync flag set, as the user last    *)
(* chose, unless a refresh or a callback that had read the row before the  *)
(* choice wrote it back afterwards.                                        *)
ChoiceKept ==
    token # NoToken /\ ~swayed
        => wanted.connected /\ token.autoSync = wanted.autoSync

(* A queued change is copied by a clean run, unless something upsets it.   *)
QueuedIsCopied == []~upset => (owed ~> ~owed)

(* What SyncMonth says of its second loop: a run removes from Outlook only *)
(* events whose presence it found cleared, or not eligible.                *)
OnlyClearedRemoved ==
    [][\A e \in outlook :
          (\A x \in outlook' : x.id # e.id) =>
             DiscardEvent(e) \/ \E r \in Runs : /\ runs[r].stage = "slots"
                                               /\ runs[r].view[e.slot] \notin Synced]_syncVars
=============================================================================
