----------------------------- MODULE O365Proofs -----------------------------
(***************************************************************************)
(* Theorems about the Office 365 synchronisation, for every number of      *)
(* slots, runs, timers and events.                                         *)
(***************************************************************************)
EXTENDS O365Sync, TLAPS

-----------------------------------------------------------------------------
(* What a run and the tables say of each other.                            *)

Looping == {"slots", "count", "insert", "update", "forget"}
Saving == {"count", "insert", "update"}
Refreshing == {"refresh", "insertToken", "updateToken"}

(* An event waits to be recorded, and only for a status that is synced.    *)
RunShape ==
    \A r \in Runs :
        /\ runs[r].event # NoEvent <=> runs[r].stage \in Saving
        /\ runs[r].stage \in Saving => runs[r].view[runs[r].slot] \in Synced

(* The token and those who will write it have the flag that the user last  *)
(* chose, or are known to be late.                                         *)
ChoiceCarried ==
    ~swayed =>
        /\ token # NoToken => wanted.connected /\ token.autoSync = wanted.autoSync
        /\ token = NoToken => ~wanted.autoSync
        /\ \A r \in Runs \ late : runs[r].stage \in Refreshing =>
              wanted.connected /\ runs[r].autoSync = wanted.autoSync
        /\ callback.stage # "idle" /\ "callback" \notin late =>
              callback.autoSync = wanted.autoSync

Alone(r) == \A q \in Runs : Active(q) => q = r

Tells(record, status) ==
    /\ record # NoRecord <=> status \in Synced
    /\ record # NoRecord => record.status = status

(* What a run that is still clean has not come to is as it read it, and    *)
(* what it is past is as it was declared.                                  *)
CleanRun(x) ==
    /\ x.unsaved = {}
    /\ x.stage = "forget" => x.view[x.slot] \notin Synced
    /\ x.stage = "insert" => records[x.slot] = NoRecord
    /\ x.stage = "update" => records[x.slot] # NoRecord
    /\ x.stage \in Looping =>
          \A s \in Slots : \/ s \in x.todo
                           \/ s = x.slot /\ x.stage # "slots"
                           \/ Tells(records[s], x.view[s])

CleanSoFar == \A r \in Runs : runs[r].clean => Alone(r) /\ CleanRun(runs[r])

(* While nothing is declared that is not copied, no run finds anything to  *)
(* do.                                                                     *)
QuietRun(x) ==
    /\ x.stage = "records" => x.view = presence
    /\ x.stage \in Looping => x.stage = "slots" /\ x.todo = {}

NothingToDo ==
    inSync => /\ \A s \in Slots : Tells(records[s], presence[s])
              /\ \A r \in Runs : QuietRun(runs[r])

(* What the one run that is active knows of records and events.            *)
KnownRun(x) ==
    /\ x.unsaved = {}
    /\ x.stage \in Looping => \A s \in x.todo : records[s] = x.known[s]
    /\ x.stage \in Saving =>
          /\ x.slot \notin x.todo
          /\ \A e \in outlook : /\ e.slot = x.slot <=> e.id = x.event
                                /\ e.id = x.event => e.status = x.view[x.slot]
          /\ \A s \in Slots : s # x.slot => records[s].event # x.event
          /\ x.event \in discarded \/ \E e \in outlook : e.id = x.event
          /\ x.stage = "insert" => records[x.slot] = NoRecord
          /\ x.stage = "update" => records[x.slot] # NoRecord
    /\ x.stage = "forget" =>
          x.slot \notin x.todo /\ \A e \in outlook : e.slot # x.slot

(* NoOrphanUnlessUpset when x is the only run.                             *)
Orphanless(x) ==
    /\ \A e \in outlook : x.event = e.id \/ records[e.slot].event = e.id
    /\ \A s \in Slots : records[s] # NoRecord =>
          \/ records[s].event \in discarded
          \/ \E e \in outlook : e.id = records[s].event /\ e.slot = s
                 /\ (e.status = records[s].status \/ x.event = e.id)
          \/ x.stage = "forget" /\ x.slot = s

Apart ==
    \A s, t \in Slots : records[s] # NoRecord /\ records[s].event = records[t].event => s = t

EventsKnown ==
    upset \/ /\ ~purging /\ \A r \in Runs : Active(r) => Alone(r)
             /\ \A r \in Runs : KnownRun(runs[r])
             /\ Apart

(* The inductive invariant: the properties and what carries them.          *)
SyncInv ==
    /\ SyncTypeOK /\ RunShape /\ ChoiceCarried /\ CleanSoFar /\ NothingToDo
    /\ EventsKnown /\ NoOrphanUnlessUpset

(* The stages a run goes through, told apart.                              *)
LEMMA StagesApart ==
    /\ \A g \in Looping : g # "idle" /\ g # "records" /\ g \notin Refreshing
    /\ \A g \in Saving : g \in Looping /\ g # "slots" /\ g # "forget"
    /\ \A g \in Refreshing : g # "idle" /\ g # "records"
    /\ "idle" \notin Looping /\ "forget" \in Looping /\ "slots" \in Looping
    /\ "slots" \notin Saving /\ "forget" \notin Saving /\ "records" \notin Looping
  BY DEF Looping, Saving, Refreshing

(* What a run that is over is.                                             *)
LEMMA IdleFits ==
    /\ NoRun \in Run /\ NoRun.stage = "idle" /\ NoRun.event = NoEvent /\ ~NoRun.clean
    /\ NoRun.unsaved = {} /\ NoRun.todo = {}
  <1>1. (CHOOSE s \in Slots : TRUE) \in Slots
    BY SyncAssumption
  <1>2. QED
    BY <1>1 DEF NoRun, Run, RunStage, Declaration

LEMMA RunKinds ==
    ASSUME NEW x \in Run
    PROVE  /\ x.stage \in RunStage /\ x.autoSync \in BOOLEAN /\ x.view \in Declaration
           /\ x.known \in [Slots -> SyncRecord \cup {NoRecord}] /\ x.todo \subseteq Slots
           /\ x.unsaved \subseteq Slots /\ x.slot \in Slots /\ x.event \in Events \cup {NoEvent}
           /\ x.clean \in BOOLEAN
  BY DEF Run

LEMMA RecordKinds ==
    /\ NoRecord.event = NoEvent
    /\ \A x \in SyncRecord : x.event \in Events /\ x.status \in Synced /\ x # NoRecord
    /\ \A x \in SyncRecord \cup {NoRecord} : x # NoRecord <=> x.event # NoEvent
    /\ \A e \in Event : e.id \in Events /\ e.slot \in Slots /\ e.status \in Synced
                        /\ e.id # NoEvent
  BY SyncAssumption DEF NoRecord, SyncRecord, Event

LEMMA TokenKinds ==
    /\ \A t \in Token : t.autoSync \in BOOLEAN /\ t.fresh \in BOOLEAN
    /\ \A c \in Choice : c.autoSync \in BOOLEAN /\ c.connected \in BOOLEAN
    /\ Disconnected \in Choice /\ ~Disconnected.autoSync /\ ~Disconnected.connected
  BY DEF Token, Choice, Disconnected

(* What is typed beside the runs.                                          *)
RestTyped ==
    /\ presence \in Declaration
    /\ editing \in BOOLEAN
    /\ entry \in Timers \cup {NoTimer}
    /\ armed \subseteq Timers /\ fired \subseteq Timers /\ armed \cap fired = {}
    /\ records \in [Slots -> SyncRecord \cup {NoRecord}]
    /\ outlook \subseteq Event
    /\ token \in Token \cup {NoToken}
    /\ callback \in [stage : {"idle", "count", "insert", "update"}, autoSync : BOOLEAN]
    /\ purging \in BOOLEAN
    /\ left \in [edits : Nat, choices : Nat]
    /\ owed \in BOOLEAN /\ inSync \in BOOLEAN /\ upset \in BOOLEAN /\ swayed \in BOOLEAN
    /\ discarded \subseteq Events
    /\ wanted \in Choice
    /\ late \subseteq Runs \cup {"callback"}

(* The type invariant, without and with the runs.                          *)
LEMMA TypesSplit == SyncTypeOK <=> RestTyped /\ runs \in [Runs -> Run]
  <1>1. {owed, inSync, upset, swayed} \subseteq BOOLEAN
           <=> owed \in BOOLEAN /\ inSync \in BOOLEAN /\ upset \in BOOLEAN /\ swayed \in BOOLEAN
    OBVIOUS
  <1>2. QED
    BY <1>1 DEF SyncTypeOK, RestTyped

(* One run moves.                                                          *)
LEMMA RunMoves ==
    ASSUME SyncTypeOK, NEW r \in Runs, NEW x \in Run, runs' = [runs EXCEPT ![r] = x]
    PROVE  /\ runs' \in [Runs -> Run] /\ runs'[r] = x
           /\ \A q \in Runs : q # r => runs'[q] = runs[q]
  BY DEF SyncTypeOK

(* With one run active, only its event is held.                            *)
LEMMA OneRun ==
    ASSUME SyncTypeOK, RunShape, NEW r \in Runs, Alone(r), ~upset
    PROVE  NoOrphanUnlessUpset <=> Orphanless(runs[r])
  <1>1. \A q \in Runs : q # r => runs[q].stage = "idle" /\ runs[q].event = NoEvent
    BY StagesApart DEF Alone, Active, RunShape, Looping
  <1>2. \A e \in outlook : Held(e) <=> runs[r].event = e.id
    BY <1>1, RecordKinds DEF SyncTypeOK, Held
  <1>3. \A s \in Slots :
           (\E q \in Runs : runs[q].stage = "forget" /\ runs[q].slot = s)
              <=> runs[r].stage = "forget" /\ runs[r].slot = s
    BY <1>1
  <1>4. QED
    BY <1>2, <1>3 DEF NoOrphanUnlessUpset, Orphanless

(* A step of an active run, to x.                                          *)
LEMMA MoveStep ==
    ASSUME SyncInv, NEW r \in Runs, Active(r), NEW x \in Run, runs' = [runs EXCEPT ![r] = x],
           RestTyped', UNCHANGED <<presence, purging>>, ChoiceCarried',
           x.event # NoEvent <=> x.stage \in Saving,
           x.stage \in Saving => x.view[x.slot] \in Synced,
           x.clean => runs[r].clean /\ CleanRun(x)',
           inSync' => \/ inSync /\ QuietRun(x) /\ UNCHANGED records
                      \/ x = NoRun /\ Alone(r) /\ \A s \in Slots : Tells(records'[s], presence[s]),
           upset' \/ (~upset /\ KnownRun(x)' /\ Orphanless(x)' /\ Apart')
    PROVE  SyncInv'
  <1>1. /\ runs' \in [Runs -> Run] /\ runs'[r] = x
        /\ \A q \in Runs : q # r => runs'[q] = runs[q]
    BY RunMoves DEF SyncInv
  <1>2. SyncTypeOK'
    <2>1. RestTyped' /\ runs' \in [Runs -> Run]
      BY <1>1
    <2>2. QED
      BY <2>1 DEF SyncTypeOK, RestTyped
  <1>3. RunShape'
    BY <1>1 DEF SyncInv, RunShape
  <1>4. CleanSoFar'
    <2> SUFFICES ASSUME NEW q \in Runs, runs'[q].clean PROVE Alone(q)' /\ CleanRun(runs[q])'
      BY DEF CleanSoFar
    <2>1. q = r
      BY <1>1 DEF SyncInv, CleanSoFar, Alone
    <2>2. x.clean /\ Alone(r)
      BY <1>1, <2>1 DEF SyncInv, CleanSoFar
    <2>3. Alone(r)'
      BY <1>1, <2>2 DEF Alone, Active
    <2>4. CleanRun(runs[q])'
      BY <1>1, <2>1, <2>2 DEF CleanRun
    <2>5. QED
      BY <2>1, <2>3, <2>4 DEF Alone
  <1>5. NothingToDo'
    <2> SUFFICES ASSUME inSync' PROVE /\ \A s \in Slots : Tells(records[s], presence[s])'
                                      /\ \A q \in Runs : QuietRun(runs[q])'
      BY DEF NothingToDo
    <2>1. CASE inSync /\ QuietRun(x) /\ UNCHANGED records
      <3>1. \A s \in Slots : Tells(records[s], presence[s])'
        BY <2>1 DEF SyncInv, NothingToDo, Tells
      <3>2. \A q \in Runs : QuietRun(runs[q])'
        BY <1>1, <2>1 DEF SyncInv, NothingToDo, QuietRun
      <3>3. QED
        BY <3>1, <3>2
    <2>2. CASE x = NoRun /\ Alone(r) /\ \A s \in Slots : Tells(records'[s], presence[s])
      <3>1. \A q \in Runs : runs'[q].stage = "idle"
        BY <1>1, <2>2, IdleFits DEF Alone, Active
      <3>2. \A s \in Slots : Tells(records[s], presence[s])'
        BY <2>2 DEF Tells
      <3>3. QED
        BY <3>1, <3>2, StagesApart DEF QuietRun
    <2>3. QED
      BY <2>1, <2>2
  <1>6. ASSUME ~upset' PROVE EventsKnown' /\ NoOrphanUnlessUpset'
    <2>1. /\ ~upset /\ KnownRun(x)' /\ Orphanless(x)' /\ Apart'
          /\ ~purging /\ Alone(r) /\ \A q \in Runs : KnownRun(runs[q])
      BY <1>6 DEF SyncInv, EventsKnown
    <2>2. \A q \in Runs : q # r => runs'[q] = runs[q] /\ runs[q].stage = "idle"
      BY <1>1, <2>1 DEF Alone, Active
    <2>3. Alone(r)' /\ \A q \in Runs : Active(q)' => Alone(q)'
      BY <2>2 DEF Alone, Active
    <2>4. \A q \in Runs : KnownRun(runs[q])'
      <3>1. KnownRun(runs[r])'
        BY <1>1, <2>1 DEF KnownRun
      <3>2. ASSUME NEW q \in Runs, q # r PROVE KnownRun(runs[q])'
        <4>1. runs'[q].stage = "idle" /\ runs'[q].unsaved = {}
          BY <2>1, <2>2, <3>2 DEF KnownRun
        <4>2. QED
          BY <4>1, StagesApart DEF KnownRun
      <3>3. QED
        BY <3>1, <3>2
    <2>5. EventsKnown'
      BY <2>1, <2>3, <2>4 DEF EventsKnown
    <2>6. \A e \in outlook' : x.event = e.id => Held(e)'
      BY <1>1 DEF Held
    <2>7. NoOrphanUnlessUpset'
      BY <1>1, <2>1, <2>6 DEF Orphanless, NoOrphanUnlessUpset
    <2>8. QED
      BY <2>5, <2>7
  <1>7. EventsKnown' /\ NoOrphanUnlessUpset'
    BY <1>6 DEF EventsKnown, NoOrphanUnlessUpset
  <1>8. QED
    BY <1>2, <1>3, <1>4, <1>5, <1>7 DEF SyncInv

-----------------------------------------------------------------------------
(* A run on its way to its slots, and the token.                           *)

(* What a step of a run alone leaves as it is.                             *)
restVars == <<presence, editing, timerVars, records, outlook, choiceVars, left,
              owed, inSync, upset, discarded>>

(* Everything beside the runs stands.                                      *)
LEMMA RestStands == SyncTypeOK /\ UNCHANGED restVars => RestTyped'
  BY TypesSplit DEF RestTyped, restVars, timerVars, choiceVars

(* While nothing is upset the run that is active is alone, and knows what  *)
(* it needs.                                                               *)
LEMMA Calm ==
    ASSUME SyncInv, NEW r \in Runs, Active(r), ~upset
    PROVE  Alone(r) /\ KnownRun(runs[r]) /\ Orphanless(runs[r]) /\ Apart /\ ~purging
  BY OneRun DEF SyncInv, EventsKnown

(* What the user chose stands while the token and its readers do.          *)
LEMMA ChoiceStands ==
    ASSUME SyncInv, NEW r \in Runs, NEW x \in Run, runs' = [runs EXCEPT ![r] = x],
           UNCHANGED choiceVars,
           x.stage \in Refreshing => runs[r].stage \in Refreshing /\ x.autoSync = runs[r].autoSync
    PROVE  ChoiceCarried'
  <1>1. runs'[r] = x /\ \A q \in Runs : q # r => runs'[q] = runs[q]
    BY RunMoves DEF SyncInv
  <1>2. QED
    BY <1>1 DEF SyncInv, ChoiceCarried, choiceVars

(* A run that ends in an error.                                            *)
LEMMA FailStep ==
    ASSUME SyncInv, NEW r \in Runs, Active(r), FailRun(r), RestTyped', ChoiceCarried',
           UNCHANGED <<presence, records, purging, inSync>>
    PROVE  SyncInv'
  <1>1. runs' = [runs EXCEPT ![r] = NoRun] /\ upset'
    BY DEF FailRun, EndRun
  <1>2. QuietRun(NoRun)
    BY IdleFits, StagesApart DEF QuietRun
  <1>3. NoRun.stage \notin Saving
    BY IdleFits DEF Saving
  <1>4. inSync' => inSync /\ QuietRun(NoRun) /\ UNCHANGED records
    BY <1>2
  <1>5. QED
    BY <1>1, <1>3, <1>4, IdleFits, MoveStep

(* A run goes on to another stage, beside its slots.                       *)
LEMMA OnwardStep ==
    ASSUME SyncInv, NEW r \in Runs, NEW x \in Run, runs' = [runs EXCEPT ![r] = x],
           RestTyped', ChoiceCarried',
           UNCHANGED <<presence, records, outlook, purging, inSync, upset, discarded>>,
           runs[r].stage \in Refreshing \cup {"token", "presences"},
           x.stage \in Refreshing \cup {"presences", "records"},
           x.clean = runs[r].clean, x.unsaved = runs[r].unsaved, x.event = runs[r].event,
           x.stage = "records" => x.view = presence
    PROVE  SyncInv'
  <1>1. /\ runs[r].stage \notin Saving /\ runs[r].stage # "idle" /\ runs[r].stage # "forget"
        /\ x.stage \notin Looping /\ x.stage \notin Saving /\ x.stage # "forget"
        /\ x.stage # "insert" /\ x.stage # "update"
    BY DEF Refreshing, Saving, Looping
  <1>2. Active(r) /\ x.event = NoEvent
    BY <1>1 DEF Active, SyncInv, RunShape
  <1>3. x.clean => runs[r].clean /\ CleanRun(x)'
    BY <1>1 DEF CleanRun, SyncInv, CleanSoFar
  <1>4. QuietRun(x)
    BY <1>1 DEF QuietRun
  <1>5. upset' \/ (~upset /\ KnownRun(x)' /\ Orphanless(x)' /\ Apart')
    <2> SUFFICES ASSUME ~upset PROVE KnownRun(x)' /\ Orphanless(x)' /\ Apart'
      OBVIOUS
    <2>1. KnownRun(runs[r]) /\ Orphanless(runs[r]) /\ Apart
      BY <1>2, Calm
    <2>2. KnownRun(x)'
      BY <1>1, <2>1 DEF KnownRun
    <2>3. Orphanless(x)'
      BY <1>1, <2>1 DEF Orphanless
    <2>4. QED
      BY <2>1, <2>2, <2>3 DEF Apart
  <1>6. QED
    BY <1>1, <1>2, <1>3, <1>4, <1>5, MoveStep

LEMMA ReadTokenStep ==
    ASSUME SyncInv, NEW r \in Runs, ReadToken(r)
    PROVE  SyncInv'
  <1>1. /\ SyncTypeOK /\ runs[r] \in Run /\ runs[r].stage = "token" /\ Active(r)
        /\ UNCHANGED <<presence, editing, timerVars, records, outlook, choiceVars, left,
                       owed, inSync, discarded>>
    BY DEF SyncInv, SyncTypeOK, ReadToken, Active
  <1>2. CASE token = NoToken /\ FailRun(r)
    <2>1. RestTyped'
      BY <1>1, <1>2, TypesSplit DEF RestTyped, FailRun, timerVars, choiceVars
    <2>2. ChoiceCarried'
      BY <1>1, <1>2, ChoiceStands, IdleFits, StagesApart DEF FailRun, EndRun
    <2>3. QED
      BY <1>1, <1>2, <2>1, <2>2, FailStep DEF choiceVars
  <1>3. CASE /\ token # NoToken
             /\ runs' = [runs EXCEPT ![r].autoSync = token.autoSync,
                            ![r].stage = IF token.fresh THEN "presences" ELSE "refresh"]
             /\ UNCHANGED upset
    <2> DEFINE x == [runs[r] EXCEPT !.autoSync = token.autoSync,
                                    !.stage = IF token.fresh THEN "presences" ELSE "refresh"]
    <2>1. token \in Token /\ token.autoSync \in BOOLEAN
      BY <1>1, <1>3, TokenKinds DEF SyncTypeOK
    <2>2. /\ x \in Run /\ x.stage \in {"presences", "refresh"} /\ x.autoSync = token.autoSync
          /\ x.clean = runs[r].clean /\ x.unsaved = runs[r].unsaved /\ x.event = runs[r].event
      BY <1>1, <2>1 DEF Run, RunStage
    <2>3. runs' = [runs EXCEPT ![r] = x]
      BY <1>1, <1>3 DEF SyncTypeOK
    <2> HIDE DEF x
    <2>4. RestTyped'
      BY <1>1, <1>3, RestStands DEF restVars
    <2>5. ChoiceCarried'
      <3>1. runs'[r] = x /\ \A q \in Runs : q # r => runs'[q] = runs[q]
        BY <1>1, <2>2, <2>3, RunMoves
      <3>2. QED
        BY <1>1, <1>3, <2>2, <3>1 DEF SyncInv, ChoiceCarried, choiceVars
    <2>6. QED
      BY <1>1, <1>3, <2>2, <2>3, <2>4, <2>5, OnwardStep DEF Refreshing, choiceVars
  <1>4. QED
    BY <1>2, <1>3 DEF ReadToken

LEMMA RefreshTokenStep ==
    ASSUME SyncInv, NEW r \in Runs, RefreshToken(r)
    PROVE  SyncInv'
  <1>1. /\ SyncTypeOK /\ runs[r] \in Run /\ runs[r].stage = "refresh" /\ UNCHANGED restVars
    BY DEF SyncInv, SyncTypeOK, RefreshToken, restVars
  <1> DEFINE x == [runs[r] EXCEPT !.stage = IF token = NoToken THEN "insertToken" ELSE "updateToken"]
  <1>2. /\ x \in Run /\ x.stage \in {"insertToken", "updateToken"}
        /\ x.autoSync = runs[r].autoSync /\ x.clean = runs[r].clean
        /\ x.unsaved = runs[r].unsaved /\ x.event = runs[r].event
    BY <1>1 DEF Run, RunStage
  <1>3. runs' = [runs EXCEPT ![r] = x]
    BY <1>1 DEF SyncTypeOK, RefreshToken, RunTo
  <1> HIDE DEF x
  <1>4. RestTyped'
    BY <1>1, RestStands
  <1>5. ChoiceCarried'
    BY <1>1, <1>2, <1>3, ChoiceStands DEF Refreshing, restVars
  <1>6. QED
    BY <1>1, <1>2, <1>3, <1>4, <1>5, OnwardStep DEF Refreshing, restVars, choiceVars

(* A token is saved with the flag its writer read.                         *)
LEMMA SaveKeepsChoice ==
    ASSUME SyncInv, NEW who \in Runs \cup {"callback"}, NEW auto \in BOOLEAN, NEW insert \in BOOLEAN,
           SaveToken(who, insert, auto),
           ~swayed /\ who \notin late => auto = wanted.autoSync,
           wanted' = wanted \/ wanted' = [wanted EXCEPT !.connected = TRUE],
           ~swayed /\ who \notin late => wanted'.connected,
           \A q \in Runs : q # who /\ runs'[q].stage \in Refreshing =>
               runs[q].stage \in Refreshing /\ runs'[q].autoSync = runs[q].autoSync,
           who \in Runs => runs'[who].stage \notin Refreshing,
           callback' = IF who = "callback" THEN NoCallback ELSE callback
    PROVE  /\ ChoiceCarried' /\ token' \in Token \cup {NoToken} /\ late' \subseteq late
           /\ swayed' \in BOOLEAN /\ wanted' \in Choice
  <1>1. /\ token' = IF (token = NoToken) = insert THEN [autoSync |-> auto, fresh |-> TRUE]
                                                  ELSE token
        /\ late' = late \ {who} /\ swayed' = (swayed \/ who \in late)
    BY DEF SaveToken
  <1>2. /\ token \in Token \cup {NoToken} /\ wanted \in Choice
        /\ swayed \in BOOLEAN /\ late \subseteq Runs \cup {"callback"}
    BY TypesSplit DEF SyncInv, RestTyped
  <1> DEFINE new == [autoSync |-> auto, fresh |-> TRUE]
  <1>3. new \in Token /\ new.autoSync = auto /\ new # NoToken
    <2>1. new \in Token /\ new.autoSync = auto
      BY DEF Token
    <2>2. new # NoToken
      BY DEF NoToken
    <2>3. QED
      BY <2>1, <2>2
  <1>4. token' \in {new, token}
    BY <1>1
  <1>5. /\ wanted' \in Choice /\ wanted'.autoSync = wanted.autoSync
        /\ wanted.connected => wanted'.connected
    BY <1>2, TokenKinds DEF Choice
  <1>6. swayed' \in BOOLEAN
    BY <1>1
  <1>7. ASSUME ~swayed' PROVE ~swayed /\ who \notin late
    BY <1>1, <1>7
  <1>8. ASSUME ~swayed'
        PROVE  /\ token' # NoToken => wanted'.connected /\ token'.autoSync = wanted'.autoSync
               /\ token' = NoToken => ~wanted'.autoSync
    <2>1. auto = wanted'.autoSync /\ wanted'.connected
      BY <1>5, <1>7, <1>8
    <2>2. CASE token' = new
      BY <1>3, <2>1, <2>2
    <2>3. CASE token' = token
      BY <1>5, <1>7, <1>8, <2>3 DEF SyncInv, ChoiceCarried
    <2>4. QED
      BY <1>4, <2>2, <2>3
  <1>9. ASSUME ~swayed', NEW q \in Runs \ late', runs'[q].stage \in Refreshing
        PROVE  wanted'.connected /\ runs'[q].autoSync = wanted'.autoSync
    <2>1. q # who /\ q \notin late
      BY <1>1, <1>9
    <2>2. QED
      BY <1>5, <1>7, <1>9, <2>1 DEF SyncInv, ChoiceCarried
  <1>10. ASSUME ~swayed', callback'.stage # "idle", "callback" \notin late'
         PROVE  callback'.autoSync = wanted'.autoSync
    <2>1. who # "callback" /\ callback' = callback
      BY <1>10 DEF NoCallback
    <2>2. QED
      BY <1>1, <1>5, <1>7, <1>10, <2>1 DEF SyncInv, ChoiceCarried
  <1>11. ChoiceCarried'
    BY <1>8, <1>9, <1>10 DEF ChoiceCarried
  <1>12. QED
    BY <1>1, <1>2, <1>3, <1>4, <1>5, <1>6, <1>11

LEMMA SaveRefreshedStep ==
    ASSUME SyncInv, NEW r \in Runs, SaveRefreshed(r)
    PROVE  SyncInv'
  <1> DEFINE insert == runs[r].stage = "insertToken"
  <1>1. /\ SyncTypeOK /\ runs[r] \in Run /\ runs[r].stage \in {"insertToken", "updateToken"}
        /\ Active(r) /\ runs[r].stage \in Refreshing /\ runs[r].autoSync \in BOOLEAN
        /\ UNCHANGED <<presence, editing, timerVars, records, outlook, wanted, callback, purging,
                       left, owed, inSync, discarded>>
    BY RunKinds DEF SyncInv, SyncTypeOK, SaveRefreshed, Active, Refreshing
  <1>2. SaveToken(r, insert, runs[r].autoSync) /\ insert \in BOOLEAN
    BY DEF SaveRefreshed
  <1> DEFINE x == [runs[r] EXCEPT !.stage = "presences"]
  <1>3. /\ x \in Run /\ x.stage = "presences" /\ x.clean = runs[r].clean
        /\ x.unsaved = runs[r].unsaved /\ x.event = runs[r].event
    BY <1>1 DEF Run, RunStage
  <1>4. \/ FailRun(r)
        \/ runs' = [runs EXCEPT ![r] = x] /\ UNCHANGED upset
    BY <1>1 DEF SyncTypeOK, SaveRefreshed, RunTo
  <1> HIDE DEF x, insert
  <1>5. /\ runs'[r].stage \notin Refreshing /\ \A q \in Runs : q # r => runs'[q] = runs[q]
        /\ upset' \in BOOLEAN
    <2>1. CASE FailRun(r)
      BY <1>1, <2>1, RunMoves, IdleFits, StagesApart DEF FailRun, EndRun
    <2>2. CASE runs' = [runs EXCEPT ![r] = x] /\ UNCHANGED upset
      <3>1. "presences" \notin Refreshing /\ upset \in BOOLEAN
        BY <1>1, TypesSplit DEF Refreshing, RestTyped
      <3>2. QED
        BY <1>1, <1>3, <2>2, <3>1, RunMoves
    <2>3. QED
      BY <1>4, <2>1, <2>2
  <1>6. ~swayed /\ r \notin late => runs[r].autoSync = wanted.autoSync /\ wanted.connected
    BY <1>1 DEF SyncInv, ChoiceCarried
  <1>7. r \in Runs \cup {"callback"} /\ r # "callback"
    BY SyncAssumption
  <1>8. /\ ChoiceCarried' /\ token' \in Token \cup {NoToken} /\ late' \subseteq late
        /\ swayed' \in BOOLEAN /\ wanted' \in Choice
    BY <1>1, <1>2, <1>5, <1>6, <1>7, SaveKeepsChoice
  <1>9. RestTyped'
    BY <1>1, <1>5, <1>8, TypesSplit DEF RestTyped, timerVars
  <1>10. CASE FailRun(r)
    BY <1>1, <1>8, <1>9, <1>10, FailStep
  <1>11. CASE runs' = [runs EXCEPT ![r] = x] /\ UNCHANGED upset
    BY <1>1, <1>3, <1>8, <1>9, <1>11, OnwardStep
  <1>12. QED
    BY <1>4, <1>10, <1>11

LEMMA GrantRevokedStep ==
    ASSUME SyncInv, NEW r \in Runs, GrantRevoked(r)
    PROVE  SyncInv'
  <1>1. /\ SyncTypeOK /\ runs[r].stage = "refresh" /\ Active(r) /\ FailRun(r)
        /\ token' = NoToken /\ wanted' = Disconnected /\ late' = (late \cup HoldingToken) \ {r}
        /\ UNCHANGED <<presence, editing, timerVars, records, outlook, callback, purging, left,
                       owed, inSync, discarded, swayed>>
    BY DEF SyncInv, GrantRevoked, Active
  <1>2. /\ runs'[r].stage = "idle" /\ \A q \in Runs : q # r => runs'[q] = runs[q]
    BY <1>1, RunMoves, IdleFits DEF FailRun, EndRun
  <1>3. HoldingToken \subseteq Runs \cup {"callback"}
    BY DEF HoldingToken
  <1>4. RestTyped'
    BY <1>1, <1>3, TypesSplit, TokenKinds DEF RestTyped, timerVars, FailRun
  <1>5. ChoiceCarried'
    <2>1. \A q \in Runs \ late' : runs'[q].stage \notin Refreshing
      BY <1>1, <1>2, StagesApart DEF HoldingToken, Refreshing
    <2>2. callback'.stage # "idle" => "callback" \in late'
      BY <1>1, SyncAssumption DEF HoldingToken
    <2>3. QED
      BY <1>1, <2>1, <2>2, TokenKinds DEF ChoiceCarried
  <1>6. QED
    BY <1>1, <1>4, <1>5, FailStep

LEMMA RunFailsStep ==
    ASSUME SyncInv, NEW r \in Runs, RunFails(r)
    PROVE  SyncInv'
  <1>1. /\ SyncTypeOK /\ Active(r) /\ FailRun(r) /\ late' = late \ {r}
        /\ UNCHANGED <<presence, editing, timerVars, records, outlook, token, wanted, swayed,
                       callback, purging, left, owed, inSync, discarded>>
    BY DEF SyncInv, RunFails, Active
  <1>2. /\ runs'[r].stage = "idle" /\ \A q \in Runs : q # r => runs'[q] = runs[q]
    BY <1>1, RunMoves, IdleFits DEF FailRun, EndRun
  <1>3. RestTyped'
    BY <1>1, TypesSplit DEF RestTyped, timerVars, FailRun
  <1>4. ChoiceCarried'
    <2>1. "callback" \in late => "callback" \in late'
      BY <1>1, SyncAssumption
    <2>2. QED
      BY <1>1, <1>2, <2>1, StagesApart DEF SyncInv, ChoiceCarried
  <1>5. QED
    BY <1>1, <1>3, <1>4, FailStep

LEMMA ReadPresencesStep ==
    ASSUME SyncInv, NEW r \in Runs, ReadPresences(r)
    PROVE  SyncInv'
  <1>1. /\ SyncTypeOK /\ runs[r] \in Run /\ runs[r].stage = "presences" /\ UNCHANGED restVars
        /\ presence \in Declaration
    BY TypesSplit DEF SyncInv, SyncTypeOK, ReadPresences, restVars
  <1> DEFINE x == [runs[r] EXCEPT !.view = presence, !.stage = "records"]
  <1>2. /\ x \in Run /\ x.stage = "records" /\ x.view = presence /\ x.clean = runs[r].clean
        /\ x.unsaved = runs[r].unsaved /\ x.event = runs[r].event
    BY <1>1 DEF Run, RunStage
  <1>3. runs' = [runs EXCEPT ![r] = x]
    BY <1>1 DEF SyncTypeOK, ReadPresences
  <1> HIDE DEF x
  <1>4. RestTyped'
    BY <1>1, RestStands
  <1>5. ChoiceCarried'
    BY <1>1, <1>2, <1>3, ChoiceStands, StagesApart DEF Refreshing, restVars
  <1>6. QED
    BY <1>1, <1>2, <1>3, <1>4, <1>5, OnwardStep DEF restVars, choiceVars

-----------------------------------------------------------------------------
(* A run and its slots.                                                    *)

(* A run with something to do tells that not all is copied.                *)
LEMMA BusyLoop ==
    ASSUME SyncInv, NEW r \in Runs, runs[r].stage \in Looping,
           runs[r].stage # "slots" \/ runs[r].todo # {}
    PROVE  ~inSync
  BY DEF SyncInv, NothingToDo, QuietRun

(* What holds of a run among its slots.                                    *)
LEMMA LoopFacts ==
    ASSUME SyncInv, NEW r \in Runs, runs[r].stage \in Looping
    PROVE  /\ SyncTypeOK /\ runs[r] \in Run /\ Active(r)
           /\ runs[r].event # NoEvent <=> runs[r].stage \in Saving
           /\ runs[r].stage \in Saving => runs[r].view[runs[r].slot] \in Synced
           /\ runs[r].clean => Alone(r) /\ CleanRun(runs[r])
           /\ records \in [Slots -> SyncRecord \cup {NoRecord}] /\ outlook \subseteq Event
  BY StagesApart DEF SyncInv, SyncTypeOK, Active, RunShape, CleanSoFar

LEMMA ReadRecordsStep ==
    ASSUME SyncInv, NEW r \in Runs, ReadRecords(r)
    PROVE  SyncInv'
  <1>1. /\ SyncTypeOK /\ runs[r] \in Run /\ runs[r].stage = "records" /\ UNCHANGED restVars
        /\ records \in [Slots -> SyncRecord \cup {NoRecord}] /\ Active(r)
        /\ runs[r].event = NoEvent /\ runs[r].view \in Declaration
    BY StagesApart, RunKinds, TypesSplit
    DEF SyncInv, SyncTypeOK, ReadRecords, restVars, RunShape, Active, Saving
  <1>2. PICK x \in Run :
             /\ x.stage = "slots" /\ x.known = records /\ x.view = runs[r].view
             /\ x.todo = Outdated(x.view, records) /\ x.event = NoEvent
             /\ x.clean = runs[r].clean /\ x.unsaved = runs[r].unsaved
             /\ runs' = [runs EXCEPT ![r] = x]
    <2> DEFINE y == [runs[r] EXCEPT !.known = records, !.stage = "slots",
                                    !.todo = Outdated(runs[r].view, records)]
    <2>1. /\ y \in Run /\ y.stage = "slots" /\ y.known = records /\ y.view = runs[r].view
          /\ y.todo = Outdated(y.view, records) /\ y.event = NoEvent
          /\ y.clean = runs[r].clean /\ y.unsaved = runs[r].unsaved
      BY <1>1 DEF Run, RunStage, Outdated
    <2>2. runs' = [runs EXCEPT ![r] = y]
      BY <1>1 DEF SyncTypeOK, ReadRecords
    <2> HIDE DEF y
    <2>3. QED
      BY <2>1, <2>2
  <1>4. RestTyped'
    BY <1>1, RestStands
  <1>5. ChoiceCarried'
    BY <1>1, <1>2, ChoiceStands, StagesApart DEF Refreshing, restVars
  <1>6. \A s \in Slots : s \in x.todo <=> ~Tells(records[s], x.view[s])
    BY <1>2 DEF Outdated, Tells
  <1>7. x.clean => runs[r].clean /\ CleanRun(x)'
    BY <1>1, <1>2, <1>6 DEF SyncInv, CleanSoFar, CleanRun, Tells, restVars
  <1>8. inSync => QuietRun(x)
    <2> SUFFICES ASSUME inSync PROVE QuietRun(x)
      OBVIOUS
    <2>1. x.view = presence /\ \A s \in Slots : Tells(records[s], presence[s])
      BY <1>1, <1>2 DEF SyncInv, NothingToDo, QuietRun
    <2>2. x.todo \subseteq Slots
      BY <1>2 DEF Outdated
    <2>3. x.todo = {}
      BY <1>6, <2>1, <2>2
    <2>4. QED
      BY <1>2, <2>3 DEF QuietRun
  <1>9. upset' \/ (~upset /\ KnownRun(x)' /\ Orphanless(x)' /\ Apart')
    <2> SUFFICES ASSUME ~upset PROVE KnownRun(x)' /\ Orphanless(x)' /\ Apart'
      BY <1>1 DEF restVars
    <2>1. KnownRun(runs[r]) /\ Orphanless(runs[r]) /\ Apart
      BY <1>1, Calm
    <2>2. KnownRun(x)'
      BY <1>1, <1>2, <2>1 DEF KnownRun, Saving, Looping, Outdated, restVars
    <2>3. Orphanless(x)'
      BY <1>1, <1>2, <2>1 DEF Orphanless, restVars
    <2>4. QED
      BY <1>1, <2>1, <2>2, <2>3 DEF Apart, restVars
  <1>10. /\ inSync' => inSync /\ QuietRun(x) /\ UNCHANGED records
         /\ UNCHANGED <<presence, purging>>
    BY <1>1, <1>8 DEF restVars, choiceVars
  <1>11. x.stage \notin Saving
    BY <1>2 DEF Saving
  <1>12. QED
    BY <1>1, <1>2, <1>4, <1>5, <1>7, <1>9, <1>10, <1>11, MoveStep

(* A slot that the loop comes to.                                          *)
LEMMA NextFacts ==
    ASSUME SyncInv, NEW r \in Runs, runs[r].stage = "slots", NEW s \in NextSlots(r)
    PROVE  s \in runs[r].todo /\ s \in Slots /\ ~inSync
  <1>1. s \in runs[r].todo
    BY DEF NextSlots
  <1>2. QED
    BY <1>1, LoopFacts, BusyLoop, RunKinds DEF Looping

LEMMA UpsertTyped ==
    ASSUME SyncInv, NEW r \in Runs, runs[r].stage = "slots", NEW s \in Slots,
           NEW e \in Events, Upsert(r, s, e)
    PROVE  outlook' \subseteq Event /\ discarded' \subseteq Events
  <1>1. runs[r].view[s] \in Synced /\ outlook \subseteq Event /\ discarded \subseteq Events
    BY DEF Upsert, ToUpsert, SyncInv, SyncTypeOK
  <1>2. [id |-> e, slot |-> s, status |-> runs[r].view[s]] \in Event
    BY <1>1 DEF Event
  <1>3. QED
    BY <1>1, <1>2 DEF Upsert

(* With one run, an event is either its slot's own or another slot's.      *)
LEMMA OwnEvents ==
    ASSUME SyncInv, ~upset, NEW r \in Runs, runs[r].stage = "slots", NEW s \in runs[r].todo
    PROVE  /\ runs[r].known[s] = records[s] /\ s \in Slots
           /\ \A o \in outlook : records[o.slot].event = o.id /\ o.slot \in Slots
           /\ \A o \in outlook : o.slot = s => o.id = runs[r].known[s].event
           /\ \A t \in Slots : records[t] # NoRecord =>
                 \/ records[t].event \in discarded
                 \/ \E o \in outlook : o.id = records[t].event /\ o.slot = t
                       /\ o.status = records[t].status
           /\ \A t \in Slots : records[t] # NoRecord /\ records[t].event = records[s].event
                 => t = s
           /\ runs[r].unsaved = {} /\ Apart
  <1>1. runs[r].stage \in Looping /\ runs[r].stage # "forget" /\ runs[r].stage \notin Saving
    BY DEF Looping, Saving
  <1>2. /\ runs[r] \in Run /\ Active(r) /\ runs[r].event = NoEvent /\ outlook \subseteq Event
    BY <1>1, LoopFacts
  <1>3. KnownRun(runs[r]) /\ Orphanless(runs[r]) /\ Apart
    BY <1>2, Calm
  <1>4. s \in Slots /\ runs[r].known[s] = records[s] /\ runs[r].unsaved = {}
    BY <1>1, <1>2, <1>3, RunKinds DEF KnownRun
  <1>5. \A o \in outlook : o.slot \in Slots /\ o.id # NoEvent
    BY <1>2, RecordKinds
  <1>6. \A o \in outlook : records[o.slot].event = o.id
    BY <1>2, <1>3, <1>5 DEF Orphanless
  <1>7. \A t \in Slots : records[t] # NoRecord =>
                 \/ records[t].event \in discarded
                 \/ \E o \in outlook : o.id = records[t].event /\ o.slot = t
                       /\ o.status = records[t].status
    BY <1>1, <1>2, <1>3, <1>5 DEF Orphanless
  <1>8. \A t \in Slots : records[t] # NoRecord /\ records[t].event = records[s].event => t = s
    BY <1>3, <1>4 DEF Apart
  <1>9. QED
    BY <1>3, <1>4, <1>5, <1>6, <1>7, <1>8

(* An event is created for a slot, or brought up to date.                  *)
LEMMA UpsertKnown ==
    ASSUME SyncInv, ~upset, NEW r \in Runs, runs[r].stage = "slots", NEW s \in runs[r].todo,
           NEW e \in Events, Upsert(r, s, e), NEW x \in Run, UNCHANGED records,
           x.stage = "count", x.slot = s, x.event = e, x.view = runs[r].view,
           x.known = runs[r].known, x.todo = runs[r].todo \ {s}, x.unsaved = runs[r].unsaved
    PROVE  KnownRun(x)' /\ Orphanless(x)' /\ Apart'
  <1> DEFINE kept == {o \in outlook : o.id = runs[r].known[s].event}
             new == [id |-> e, slot |-> s, status |-> runs[r].view[s]]
  <1>1. /\ IF kept = {} THEN e \in NewEvents ELSE e = runs[r].known[s].event
        /\ outlook' = (outlook \ kept) \cup {new} /\ discarded' = discarded \ {e}
    BY DEF Upsert
  <1>2. /\ runs[r].known[s] = records[s] /\ s \in Slots
        /\ \A o \in outlook : records[o.slot].event = o.id /\ o.slot \in Slots
        /\ \A o \in outlook : o.slot = s => o.id = runs[r].known[s].event
        /\ \A t \in Slots : records[t] # NoRecord =>
                 \/ records[t].event \in discarded
                 \/ \E o \in outlook : o.id = records[t].event /\ o.slot = t
                       /\ o.status = records[t].status
        /\ \A t \in Slots : records[t] # NoRecord /\ records[t].event = records[s].event => t = s
        /\ runs[r].unsaved = {} /\ Apart
    BY OwnEvents
  <1>3. new.id = e /\ new.slot = s /\ new.status = x.view[s]
    OBVIOUS
  <1>4. e # NoEvent /\ records \in [Slots -> SyncRecord \cup {NoRecord}]
    BY SyncAssumption DEF SyncInv, SyncTypeOK
  <1>5. \A o \in outlook \ kept : o.id # e /\ o.slot # s
    <2> SUFFICES ASSUME NEW o \in outlook \ kept PROVE o.id # e /\ o.slot # s
      OBVIOUS
    <2>1. o.slot # s /\ o.id # runs[r].known[s].event
      BY <1>2
    <2>2. kept = {} => o.id # e
      BY <1>1 DEF NewEvents
    <2>3. QED
      BY <1>1, <2>1, <2>2
  <1>6. \A t \in Slots : t # s => records[t].event # e
    <2> SUFFICES ASSUME NEW t \in Slots, t # s PROVE records[t].event # e
      OBVIOUS
    <2>1. kept = {} => records[t].event # e
      BY <1>1 DEF NewEvents
    <2>2. CASE kept # {}
      <3>1. e = records[s].event
        BY <1>1, <1>2, <2>2
      <3>2. ASSUME records[t].event = e PROVE FALSE
        <4>1. records[t] # NoRecord
          BY <1>4, <3>2, RecordKinds
        <4>2. QED
          BY <1>2, <3>1, <3>2, <4>1
      <3>3. QED
        BY <3>2
    <2>3. QED
      BY <2>1, <2>2
  <1>7. runs[r].stage \in Looping
    BY DEF Looping
  <1>8. \A t \in runs[r].todo : records[t] = runs[r].known[t]
    <2>1. Active(r)
      BY DEF Active
    <2>2. QED
      BY <1>7, <2>1, Calm DEF KnownRun
  <1> HIDE DEF new
  <1>9. KnownRun(x)'
    <2>1. \A o \in outlook' : /\ o.slot = x.slot <=> o.id = x.event
                              /\ o.id = x.event => o.status = x.view[x.slot]
      <3> SUFFICES ASSUME NEW o \in outlook'
                   PROVE  /\ o.slot = x.slot <=> o.id = x.event
                          /\ o.id = x.event => o.status = x.view[x.slot]
        OBVIOUS
      <3>1. CASE o = new
        BY <1>3, <3>1
      <3>2. CASE o \in outlook \ kept
        BY <1>5, <3>2
      <3>3. QED
        BY <1>1, <3>1, <3>2
    <2>2. \E o \in outlook' : o.id = x.event
      BY <1>1, <1>3
    <2>3. QED
      BY <1>2, <1>6, <1>8, <2>1, <2>2 DEF KnownRun
  <1>10. \A o \in outlook' : x.event = o.id \/ records[o.slot].event = o.id
    BY <1>1, <1>2, <1>3
  <1>11. ASSUME NEW t \in Slots, records[t] # NoRecord
         PROVE  \/ records[t].event \in discarded'
                \/ \E o \in outlook' : o.id = records[t].event /\ o.slot = t
                      /\ (o.status = records[t].status \/ x.event = o.id)
    <2>1. new \in outlook'
      BY <1>1
    <2>2. CASE records[t].event = e
      <3>1. t = s
        BY <1>6, <2>2
      <3>2. QED
        BY <1>3, <2>1, <2>2, <3>1
    <2>3. CASE records[t].event # e /\ records[t].event \in discarded
      BY <1>1, <2>3
    <2>4. CASE records[t].event # e /\ records[t].event \notin discarded
      <3>1. PICK o \in outlook : o.id = records[t].event /\ o.slot = t
                                   /\ o.status = records[t].status
        BY <1>2, <1>11, <2>4
      <3>2. CASE o \in kept
        <4>1. t = s
          BY <1>2, <1>11, <3>1, <3>2
        <4>2. kept # {}
          BY <3>2
        <4>3. e = records[s].event
          BY <1>1, <1>2, <4>2
        <4>4. QED
          BY <2>4, <4>1, <4>3
      <3>3. CASE o \notin kept
        <4>1. o \in outlook'
          BY <1>1, <3>1, <3>3
        <4>2. QED
          BY <3>1, <4>1
      <3>4. QED
        BY <3>2, <3>3
    <2>5. QED
      BY <2>2, <2>3, <2>4
  <1>12. Orphanless(x)'
    BY <1>10, <1>11 DEF Orphanless
  <1>13. QED
    BY <1>2, <1>9, <1>12 DEF Apart

(* The event of a slot is removed.                                         *)
LEMMA RemoveKnown ==
    ASSUME SyncInv, ~upset, NEW r \in Runs, runs[r].stage = "slots", NEW s \in runs[r].todo,
           Remove(r, s), NEW x \in Run, UNCHANGED records,
           x.stage = "forget", x.slot = s, x.event = NoEvent,
           x.known = runs[r].known, x.todo = runs[r].todo \ {s}, x.unsaved = runs[r].unsaved
    PROVE  KnownRun(x)' /\ Orphanless(x)' /\ Apart'
  <1>1. /\ outlook' = {o \in outlook : o.id # runs[r].known[s].event} /\ UNCHANGED discarded
    BY DEF Remove
  <1>2. /\ runs[r].known[s] = records[s] /\ s \in Slots
        /\ \A o \in outlook : records[o.slot].event = o.id /\ o.slot \in Slots
        /\ \A o \in outlook : o.slot = s => o.id = runs[r].known[s].event
        /\ \A t \in Slots : records[t] # NoRecord =>
                 \/ records[t].event \in discarded
                 \/ \E o \in outlook : o.id = records[t].event /\ o.slot = t
                       /\ o.status = records[t].status
        /\ \A t \in Slots : records[t] # NoRecord /\ records[t].event = records[s].event => t = s
        /\ runs[r].unsaved = {} /\ Apart
    BY OwnEvents
  <1>3. runs[r].stage \in Looping /\ "forget" \notin Saving
    BY DEF Looping, Saving
  <1>4. \A t \in runs[r].todo : records[t] = runs[r].known[t]
    <2>1. Active(r)
      BY DEF Active
    <2>2. QED
      BY <1>3, <2>1, Calm DEF KnownRun
  <1>5. KnownRun(x)'
    BY <1>1, <1>2, <1>3, <1>4 DEF KnownRun
  <1>6. ASSUME NEW t \in Slots, records[t] # NoRecord
        PROVE  \/ records[t].event \in discarded'
               \/ \E o \in outlook' : o.id = records[t].event /\ o.slot = t
                      /\ o.status = records[t].status
               \/ t = s
    <2>1. CASE records[t].event \in discarded
      BY <1>1, <2>1
    <2>2. CASE records[t].event \notin discarded /\ t # s
      <3>1. PICK o \in outlook : o.id = records[t].event /\ o.slot = t
                                   /\ o.status = records[t].status
        BY <1>2, <1>6, <2>2
      <3>2. o \in outlook'
        BY <1>1, <1>2, <1>6, <2>2, <3>1
      <3>3. QED
        BY <3>1, <3>2
    <2>3. QED
      BY <2>1, <2>2
  <1>7. Orphanless(x)'
    BY <1>1, <1>2, <1>6 DEF Orphanless
  <1>8. QED
    BY <1>2, <1>5, <1>7 DEF Apart

(* A run takes a slot.                                                     *)
SlotTaken(y, x, s, e, stage) ==
    /\ x.stage = stage /\ x.slot = s /\ x.event = e /\ x.view = y.view
    /\ x.known = y.known /\ x.todo = y.todo \ {s} /\ x.unsaved = y.unsaved
    /\ x.clean = y.clean /\ x.autoSync = y.autoSync

LEMMA SlotTakes ==
    ASSUME SyncTypeOK, NEW r \in Runs, NEW s \in Slots, NEW e \in Events \cup {NoEvent},
           NEW stage \in RunStage, AtSlot(r, s, e, stage)
    PROVE  \E x \in Run : SlotTaken(runs[r], x, s, e, stage) /\ runs' = [runs EXCEPT ![r] = x]
  <1> DEFINE x == [runs[r] EXCEPT !.todo = @ \ {s}, !.slot = s, !.event = e, !.stage = stage]
  <1>1. runs[r] \in Run
    BY DEF SyncTypeOK
  <1>2. x \in Run /\ SlotTaken(runs[r], x, s, e, stage)
    BY <1>1 DEF Run, SlotTaken
  <1>3. runs' = [runs EXCEPT ![r] = x]
    BY DEF SyncTypeOK, AtSlot
  <1> HIDE DEF x
  <1>4. QED
    BY <1>2, <1>3

LEMMA CallGraphStep ==
    ASSUME SyncInv, NEW r \in Runs, CallGraph(r)
    PROVE  SyncInv'
  <1>1. /\ runs[r].stage = "slots" /\ runs[r].stage \in Looping
        /\ UNCHANGED <<presence, editing, timerVars, records, choiceVars, left,
                       owed, inSync, upset>>
    BY DEF CallGraph, Looping
  <1>2. /\ SyncTypeOK /\ runs[r] \in Run /\ Active(r) /\ (runs[r].clean => CleanRun(runs[r]))
        /\ runs[r].todo \subseteq Slots
    BY <1>1, LoopFacts, RunKinds
  <1>3. PICK s \in NextSlots(r) :
             \/ \E e \in Events : Upsert(r, s, e) /\ AtSlot(r, s, e, "count")
             \/ Remove(r, s) /\ AtSlot(r, s, NoEvent, "forget")
    BY DEF CallGraph
  <1>4. s \in runs[r].todo /\ s \in Slots /\ ~inSync
    BY <1>1, NextFacts
  <1>5. CASE \E e \in Events : Upsert(r, s, e) /\ AtSlot(r, s, e, "count")
    <2>1. PICK e \in Events : Upsert(r, s, e) /\ AtSlot(r, s, e, "count")
      BY <1>5
    <2>2. PICK x \in Run : SlotTaken(runs[r], x, s, e, "count") /\ runs' = [runs EXCEPT ![r] = x]
      BY <1>2, <1>4, <2>1, SlotTakes DEF RunStage
    <2>3. /\ x.stage = "count" /\ x.slot = s /\ x.event = e /\ x.view = runs[r].view
          /\ x.known = runs[r].known /\ x.todo = runs[r].todo \ {s} /\ x.unsaved = runs[r].unsaved
          /\ x.clean = runs[r].clean
      BY <2>2 DEF SlotTaken
    <2>4. RestTyped'
      <3>1. outlook' \subseteq Event /\ discarded' \subseteq Events
        BY <1>1, <1>4, <2>1, UpsertTyped
      <3>2. QED
        BY <1>1, <1>2, <3>1, TypesSplit DEF RestTyped, timerVars, choiceVars
    <2>5. ChoiceCarried'
      BY <1>1, <2>2, <2>3, ChoiceStands DEF Refreshing
    <2>6. e # NoEvent /\ x.view[x.slot] \in Synced /\ x.stage \in Saving
      BY <2>1, <2>3, SyncAssumption DEF Upsert, ToUpsert, Saving
    <2>7. x.clean => runs[r].clean /\ CleanRun(x)'
      BY <1>1, <1>2, <2>3 DEF CleanRun, Tells
    <2>8. upset' \/ (~upset /\ KnownRun(x)' /\ Orphanless(x)' /\ Apart')
      BY <1>1, <1>4, <2>1, <2>3, UpsertKnown
    <2>9. QED
      BY <1>1, <1>2, <1>4, <2>2, <2>3, <2>4, <2>5, <2>6, <2>7, <2>8, MoveStep DEF choiceVars
  <1>6. CASE Remove(r, s) /\ AtSlot(r, s, NoEvent, "forget")
    <2>2. PICK x \in Run : /\ SlotTaken(runs[r], x, s, NoEvent, "forget")
                           /\ runs' = [runs EXCEPT ![r] = x]
      BY <1>2, <1>4, <1>6, SlotTakes DEF RunStage
    <2>3. /\ x.stage = "forget" /\ x.slot = s /\ x.event = NoEvent
          /\ x.view = runs[r].view /\ x.clean = runs[r].clean
          /\ x.known = runs[r].known /\ x.todo = runs[r].todo \ {s} /\ x.unsaved = runs[r].unsaved
      BY <2>2 DEF SlotTaken
    <2>4. RestTyped'
      BY <1>1, <1>2, <1>6, TypesSplit DEF RestTyped, timerVars, choiceVars, Remove
    <2>5. ChoiceCarried'
      BY <1>1, <2>2, <2>3, ChoiceStands DEF Refreshing
    <2>6. x.stage \notin Saving
      BY <2>3 DEF Saving
    <2>7. x.clean => runs[r].clean /\ CleanRun(x)'
      BY <1>1, <1>2, <1>6, <2>3 DEF CleanRun, Tells, Remove, ToUpsert
    <2>8. upset' \/ (~upset /\ KnownRun(x)' /\ Orphanless(x)' /\ Apart')
      BY <1>1, <1>4, <1>6, <2>3, RemoveKnown
    <2>9. QED
      BY <1>1, <1>2, <1>4, <2>2, <2>3, <2>4, <2>5, <2>6, <2>7, <2>8, MoveStep DEF choiceVars
  <1>7. QED
    BY <1>3, <1>5, <1>6

LEMMA CountRecordStep ==
    ASSUME SyncInv, NEW r \in Runs, CountRecord(r)
    PROVE  SyncInv'
  <1>1. /\ runs[r].stage = "count" /\ runs[r].stage \in Looping /\ runs[r].stage \in Saving
        /\ UNCHANGED restVars
    BY DEF CountRecord, Looping, Saving, restVars
  <1>2. /\ SyncTypeOK /\ runs[r] \in Run /\ Active(r) /\ runs[r].event # NoEvent
        /\ runs[r].view[runs[r].slot] \in Synced /\ runs[r].slot \in Slots
        /\ (runs[r].clean => CleanRun(runs[r])) /\ ~inSync
    BY <1>1, LoopFacts, RunKinds, BusyLoop
  <1>3. PICK x \in Run :
             /\ x.stage = IF records[runs[r].slot] = NoRecord THEN "insert" ELSE "update"
             /\ x.view = runs[r].view /\ x.known = runs[r].known /\ x.todo = runs[r].todo
             /\ x.unsaved = runs[r].unsaved /\ x.slot = runs[r].slot /\ x.event = runs[r].event
             /\ x.clean = runs[r].clean /\ runs' = [runs EXCEPT ![r] = x]
    <2> DEFINE y == [runs[r] EXCEPT !.stage = IF records[runs[r].slot] = NoRecord
                                              THEN "insert" ELSE "update"]
    <2>1. /\ y \in Run /\ y.stage = IF records[runs[r].slot] = NoRecord THEN "insert" ELSE "update"
          /\ y.view = runs[r].view /\ y.known = runs[r].known /\ y.todo = runs[r].todo
          /\ y.unsaved = runs[r].unsaved /\ y.slot = runs[r].slot /\ y.event = runs[r].event
          /\ y.clean = runs[r].clean
      BY <1>2 DEF Run, RunStage
    <2>2. runs' = [runs EXCEPT ![r] = y]
      BY <1>2 DEF SyncTypeOK, CountRecord, RunTo
    <2> HIDE DEF y
    <2>3. QED
      BY <2>1, <2>2
  <1>4. x.stage \in Saving /\ x.stage \in Looping /\ x.stage # "forget" /\ x.stage # "slots"
    BY <1>3 DEF Saving, Looping
  <1>5. RestTyped'
    BY <1>1, <1>2, RestStands
  <1>6. ChoiceCarried'
    BY <1>1, <1>3, <1>4, ChoiceStands, StagesApart DEF restVars
  <1>7. x.clean => runs[r].clean /\ CleanRun(x)'
    <2> SUFFICES ASSUME x.clean PROVE CleanRun(x)'
      BY <1>3
    <2>1. CleanRun(runs[r]) /\ UNCHANGED records
      BY <1>1, <1>2, <1>3 DEF restVars
    <2>2. \A s \in Slots : \/ s \in x.todo
                           \/ s = x.slot /\ x.stage # "slots"
                           \/ Tells(records'[s], x.view[s])
      BY <1>1, <1>3, <1>4, <2>1 DEF CleanRun
    <2>3. QED
      BY <1>3, <1>4, <2>1, <2>2 DEF CleanRun, Tells
  <1>8. upset' \/ (~upset /\ KnownRun(x)' /\ Orphanless(x)' /\ Apart')
    <2> SUFFICES ASSUME ~upset PROVE KnownRun(x)' /\ Orphanless(x)' /\ Apart'
      BY <1>1 DEF restVars
    <2>1. KnownRun(runs[r]) /\ Orphanless(runs[r]) /\ Apart
      BY <1>2, Calm
    <2>2. UNCHANGED <<records, outlook, discarded>>
      BY <1>1 DEF restVars
    <2>3. KnownRun(x)'
      BY <1>1, <1>3, <1>4, <2>1, <2>2 DEF KnownRun
    <2>4. Orphanless(x)'
      BY <1>1, <1>3, <2>1, <2>2 DEF Orphanless
    <2>5. QED
      BY <2>1, <2>2, <2>3, <2>4 DEF Apart
  <1>9. ~inSync' /\ UNCHANGED <<presence, purging>>
    BY <1>1, <1>2 DEF restVars, choiceVars
  <1>10. QED
    BY <1>2, <1>3, <1>4, <1>5, <1>6, <1>7, <1>8, <1>9, MoveStep

(* The slot is done.                                                       *)
Done(y, x) ==
    /\ x.stage = "slots" /\ x.event = NoEvent /\ x.slot = y.slot /\ x.view = y.view
    /\ x.known = y.known /\ x.todo = y.todo /\ x.unsaved = y.unsaved /\ x.clean = y.clean

LEMMA SlotEnds ==
    ASSUME SyncTypeOK, NEW r \in Runs, SlotDone(r)
    PROVE  \E x \in Run : Done(runs[r], x) /\ runs' = [runs EXCEPT ![r] = x]
  <1> DEFINE x == [runs[r] EXCEPT !.stage = "slots", !.event = NoEvent]
  <1>1. runs[r] \in Run
    BY DEF SyncTypeOK
  <1>2. x \in Run /\ Done(runs[r], x)
    BY <1>1 DEF Run, RunStage, Done
  <1>3. runs' = [runs EXCEPT ![r] = x]
    BY DEF SyncTypeOK, SlotDone
  <1> HIDE DEF x
  <1>4. QED
    BY <1>2, <1>3

LEMMA SaveRecordStep ==
    ASSUME SyncInv, NEW r \in Runs, SaveRecord(r)
    PROVE  SyncInv'
  <1> DEFINE s == runs[r].slot
             new == [event |-> runs[r].event, status |-> runs[r].view[s]]
  <1>1. /\ runs[r].stage \in {"insert", "update"} /\ runs[r].stage \in Looping
        /\ runs[r].stage \in Saving
        /\ records' = [records EXCEPT ![s] = IF (@ = NoRecord) = (runs[r].stage = "insert")
                                             THEN new ELSE @]
        /\ SlotDone(r)
        /\ UNCHANGED <<presence, editing, timerVars, outlook, choiceVars, left,
                       owed, inSync, upset, discarded>>
    BY DEF SaveRecord, Looping, Saving
  <1>2. /\ SyncTypeOK /\ runs[r] \in Run /\ Active(r) /\ runs[r].event # NoEvent
        /\ runs[r].view[s] \in Synced /\ s \in Slots /\ runs[r].event \in Events
        /\ (runs[r].clean => CleanRun(runs[r])) /\ ~inSync
        /\ records \in [Slots -> SyncRecord \cup {NoRecord}] /\ outlook \subseteq Event
    BY <1>1, LoopFacts, RunKinds, BusyLoop
  <1>3. PICK x \in Run : Done(runs[r], x) /\ runs' = [runs EXCEPT ![r] = x]
    BY <1>1, <1>2, SlotEnds
  <1>4. /\ x.stage = "slots" /\ x.event = NoEvent /\ x.slot = s /\ x.view = runs[r].view
        /\ x.known = runs[r].known /\ x.todo = runs[r].todo /\ x.unsaved = runs[r].unsaved
        /\ x.clean = runs[r].clean
    BY <1>3 DEF Done
  <1>5. x.stage \notin Saving /\ x.stage \in Looping /\ x.stage \notin Refreshing
    BY <1>4 DEF Saving, Looping, Refreshing
  <1>6. new \in SyncRecord /\ new # NoRecord /\ new.event = runs[r].event
        /\ new.status = runs[r].view[s]
    BY <1>2, RecordKinds DEF SyncRecord
  <1>7. /\ records' \in [Slots -> SyncRecord \cup {NoRecord}]
        /\ \A t \in Slots : t # s => records'[t] = records[t]
        /\ (records[s] = NoRecord) = (runs[r].stage = "insert") => records'[s] = new
    BY <1>1, <1>2, <1>6
  <1> HIDE DEF new
  <1>8. RestTyped'
    BY <1>1, <1>2, <1>7, TypesSplit DEF RestTyped, timerVars, choiceVars
  <1>9. ChoiceCarried'
    BY <1>1, <1>3, <1>5, ChoiceStands
  <1>10. x.clean => runs[r].clean /\ CleanRun(x)'
    <2> SUFFICES ASSUME x.clean PROVE CleanRun(x)'
      BY <1>4
    <2>1. CleanRun(runs[r])
      BY <1>2, <1>4
    <2>2. records'[s] = new
      BY <1>1, <1>7, <2>1 DEF CleanRun
    <2>3. Tells(records'[s], x.view[s])
      BY <1>2, <1>4, <1>6, <2>2 DEF Tells
    <2>4. ASSUME NEW t \in Slots, t # s PROVE t \in x.todo \/ Tells(records'[t], x.view[t])
      <3>1. t \in runs[r].todo \/ Tells(records[t], runs[r].view[t])
        BY <1>1, <2>1, <2>4 DEF CleanRun
      <3>2. records'[t] = records[t]
        BY <1>7, <2>4
      <3>3. QED
        BY <1>4, <3>1, <3>2
    <2>5. \A t \in Slots : t \in x.todo \/ Tells(records'[t], x.view[t])
      BY <2>3, <2>4
    <2>6. QED
      BY <1>4, <2>1, <2>5 DEF CleanRun, Tells
  <1>11. upset' \/ (~upset /\ KnownRun(x)' /\ Orphanless(x)' /\ Apart')
    <2> SUFFICES ASSUME ~upset PROVE KnownRun(x)' /\ Orphanless(x)' /\ Apart'
      BY <1>1
    <2>1. KnownRun(runs[r]) /\ Orphanless(runs[r]) /\ Apart
      BY <1>2, Calm
    <2>2. /\ runs[r].unsaved = {} /\ \A t \in runs[r].todo : records[t] = runs[r].known[t]
          /\ s \notin runs[r].todo
          /\ \A o \in outlook : /\ o.slot = s <=> o.id = runs[r].event
                                /\ o.id = runs[r].event => o.status = runs[r].view[s]
          /\ \A t \in Slots : t # s => records[t].event # runs[r].event
          /\ runs[r].event \in discarded \/ \E o \in outlook : o.id = runs[r].event
          /\ runs[r].stage = "insert" => records[s] = NoRecord
          /\ runs[r].stage = "update" => records[s] # NoRecord
      BY <1>1, <2>1 DEF KnownRun
    <2>3. records'[s] = new /\ records'[s].event = runs[r].event
      BY <1>1, <1>6, <1>7, <2>2
    <2>4. runs[r].todo \subseteq Slots
      BY <1>2, RunKinds
    <2>5. KnownRun(x)'
      <3>1. \A t \in x.todo : records'[t] = x.known[t]
        BY <1>4, <1>7, <2>2, <2>4
      <3>2. QED
        BY <1>4, <1>5, <2>2, <3>1 DEF KnownRun
    <2>6. \A o \in outlook' : records'[o.slot].event = o.id
      <3> SUFFICES ASSUME NEW o \in outlook PROVE records'[o.slot].event = o.id
        BY <1>1
      <3>1. o.slot \in Slots
        BY <1>2, RecordKinds
      <3>2. CASE o.slot = s
        BY <2>2, <2>3, <3>2
      <3>3. CASE o.slot # s
        BY <1>7, <2>1, <2>2, <3>1, <3>3 DEF Orphanless
      <3>4. QED
        BY <3>2, <3>3
    <2>7. ASSUME NEW t \in Slots, records'[t] # NoRecord
          PROVE  \/ records'[t].event \in discarded
                 \/ \E o \in outlook : o.id = records'[t].event /\ o.slot = t
                        /\ o.status = records'[t].status
      <3>1. CASE t = s
        BY <1>6, <2>2, <2>3, <3>1
      <3>2. CASE t # s
        <4>1. records'[t] = records[t] /\ runs[r].stage # "forget"
          BY <1>1, <1>7, <3>2
        <4>2. CASE records[t].event \in discarded
          BY <4>1, <4>2
        <4>3. CASE records[t].event \notin discarded
          <5>1. PICK o \in outlook : o.id = records[t].event /\ o.slot = t
                                       /\ (o.status = records[t].status \/ runs[r].event = o.id)
            BY <2>1, <2>7, <4>1, <4>3 DEF Orphanless
          <5>2. o.id # runs[r].event
            BY <2>2, <3>2, <5>1
          <5>3. QED
            BY <4>1, <5>1, <5>2
        <4>4. QED
          BY <4>2, <4>3
      <3>3. QED
        BY <3>1, <3>2
    <2>8. Orphanless(x)'
      BY <1>1, <2>6, <2>7 DEF Orphanless
    <2>9. Apart'
      <3> SUFFICES ASSUME NEW a \in Slots, NEW b \in Slots, records'[a] # NoRecord,
                          records'[a].event = records'[b].event
                   PROVE  a = b
        BY DEF Apart
      <3>1. CASE a # s /\ b # s
        BY <1>7, <2>1, <3>1 DEF Apart
      <3>2. CASE a = s /\ b # s
        BY <1>7, <2>2, <2>3, <3>2
      <3>3. CASE a # s /\ b = s
        BY <1>7, <2>2, <2>3, <3>3
      <3>4. QED
        BY <3>1, <3>2, <3>3
    <2>10. QED
      BY <2>5, <2>8, <2>9
  <1>12. ~inSync' /\ UNCHANGED <<presence, purging>>
    BY <1>1, <1>2 DEF choiceVars
  <1>13. QED
    BY <1>2, <1>3, <1>4, <1>5, <1>8, <1>9, <1>10, <1>11, <1>12, MoveStep

LEMMA ForgetRecordStep ==
    ASSUME SyncInv, NEW r \in Runs, ForgetRecord(r)
    PROVE  SyncInv'
  <1> DEFINE s == runs[r].slot
  <1>1. /\ runs[r].stage = "forget" /\ runs[r].stage \in Looping /\ runs[r].stage \notin Saving
        /\ records' = [records EXCEPT ![s] = NoRecord] /\ SlotDone(r)
        /\ UNCHANGED <<presence, editing, timerVars, outlook, choiceVars, left,
                       owed, inSync, upset, discarded>>
    BY DEF ForgetRecord, Looping, Saving
  <1>2. /\ SyncTypeOK /\ runs[r] \in Run /\ Active(r) /\ runs[r].event = NoEvent /\ s \in Slots
        /\ (runs[r].clean => CleanRun(runs[r])) /\ ~inSync
        /\ records \in [Slots -> SyncRecord \cup {NoRecord}] /\ outlook \subseteq Event
        /\ runs[r].todo \subseteq Slots
    BY <1>1, LoopFacts, RunKinds, BusyLoop
  <1>3. PICK x \in Run : Done(runs[r], x) /\ runs' = [runs EXCEPT ![r] = x]
    BY <1>1, <1>2, SlotEnds
  <1>4. /\ x.stage = "slots" /\ x.event = NoEvent /\ x.slot = s /\ x.view = runs[r].view
        /\ x.known = runs[r].known /\ x.todo = runs[r].todo /\ x.unsaved = runs[r].unsaved
        /\ x.clean = runs[r].clean
    BY <1>3 DEF Done
  <1>5. x.stage \notin Saving /\ x.stage \in Looping /\ x.stage \notin Refreshing
    BY <1>4 DEF Saving, Looping, Refreshing
  <1>6. /\ records' \in [Slots -> SyncRecord \cup {NoRecord}] /\ records'[s] = NoRecord
        /\ \A t \in Slots : t # s => records'[t] = records[t]
    BY <1>1, <1>2
  <1>7. RestTyped'
    BY <1>1, <1>2, <1>6, TypesSplit DEF RestTyped, timerVars, choiceVars
  <1>8. ChoiceCarried'
    BY <1>1, <1>3, <1>5, ChoiceStands
  <1>9. x.clean => runs[r].clean /\ CleanRun(x)'
    <2> SUFFICES ASSUME x.clean PROVE CleanRun(x)'
      BY <1>4
    <2>1. CleanRun(runs[r])
      BY <1>2, <1>4
    <2>2. Tells(records'[s], x.view[s])
      BY <1>1, <1>4, <1>6, <2>1 DEF Tells, CleanRun
    <2>3. ASSUME NEW t \in Slots, t # s PROVE t \in x.todo \/ Tells(records'[t], x.view[t])
      <3>1. t \in runs[r].todo \/ Tells(records[t], runs[r].view[t])
        BY <1>1, <2>1, <2>3 DEF CleanRun
      <3>2. records'[t] = records[t]
        BY <1>6, <2>3
      <3>3. QED
        BY <1>4, <3>1, <3>2
    <2>4. \A t \in Slots : t \in x.todo \/ Tells(records'[t], x.view[t])
      BY <2>2, <2>3
    <2>5. QED
      BY <1>4, <2>1, <2>4 DEF CleanRun, Tells
  <1>10. upset' \/ (~upset /\ KnownRun(x)' /\ Orphanless(x)' /\ Apart')
    <2> SUFFICES ASSUME ~upset PROVE KnownRun(x)' /\ Orphanless(x)' /\ Apart'
      BY <1>1
    <2>1. KnownRun(runs[r]) /\ Orphanless(runs[r]) /\ Apart
      BY <1>2, Calm
    <2>2. /\ runs[r].unsaved = {} /\ \A t \in runs[r].todo : records[t] = runs[r].known[t]
          /\ s \notin runs[r].todo /\ \A o \in outlook : o.slot # s
      BY <1>1, <2>1 DEF KnownRun
    <2>3. KnownRun(x)'
      <3>1. \A t \in x.todo : records'[t] = x.known[t]
        BY <1>2, <1>4, <1>6, <2>2
      <3>2. QED
        BY <1>4, <1>5, <2>2, <3>1 DEF KnownRun
    <2>4. \A o \in outlook' : records'[o.slot].event = o.id
      <3>1. \A o \in outlook : o.slot \in Slots /\ o.slot # s /\ o.id # NoEvent
        BY <1>2, <2>2, RecordKinds
      <3>2. QED
        BY <1>1, <1>2, <1>6, <2>1, <3>1 DEF Orphanless
    <2>5. ASSUME NEW t \in Slots, records'[t] # NoRecord
          PROVE  \/ records'[t].event \in discarded
                 \/ \E o \in outlook : o.id = records'[t].event /\ o.slot = t
                        /\ (o.status = records'[t].status \/ x.event = o.id)
      <3>1. t # s /\ records'[t] = records[t]
        BY <1>6, <2>5
      <3>2. QED
        BY <1>2, <1>4, <2>1, <2>5, <3>1 DEF Orphanless
    <2>6. Orphanless(x)'
      BY <1>1, <2>4, <2>5 DEF Orphanless
    <2>7. Apart'
      <3> SUFFICES ASSUME NEW a \in Slots, NEW b \in Slots, records'[a] # NoRecord,
                          records'[a].event = records'[b].event
                   PROVE  a = b
        BY DEF Apart
      <3>1. a # s /\ records'[a] = records[a]
        BY <1>6
      <3>2. CASE b # s
        BY <1>6, <2>1, <3>1, <3>2 DEF Apart
      <3>3. CASE b = s
        <4>1. records'[b].event = NoEvent
          BY <1>6, <3>3, RecordKinds
        <4>2. records'[a].event # NoEvent
          BY <1>6, RecordKinds
        <4>3. QED
          BY <4>1, <4>2
      <3>4. QED
        BY <3>2, <3>3
    <2>8. QED
      BY <2>3, <2>6, <2>7
  <1>11. ~inSync' /\ UNCHANGED <<presence, purging>>
    BY <1>1, <1>2 DEF choiceVars
  <1>12. QED
    BY <1>2, <1>3, <1>4, <1>5, <1>7, <1>8, <1>9, <1>10, <1>11, MoveStep

LEMMA FinishRunStep ==
    ASSUME SyncInv, NEW r \in Runs, FinishRun(r)
    PROVE  SyncInv'
  <1>1. /\ runs[r].stage = "slots" /\ runs[r].todo = {} /\ runs[r].stage \in Looping
        /\ runs[r].stage \notin Saving
        /\ inSync' = (inSync \/ (runs[r].clean /\ runs[r].view = presence))
        /\ runs' = [runs EXCEPT ![r] = NoRun] /\ owed' \in BOOLEAN
        /\ UNCHANGED <<presence, editing, timerVars, records, outlook, choiceVars, left,
                       upset, discarded>>
    BY DEF FinishRun, EndRun, Looping, Saving
  <1>2. /\ SyncTypeOK /\ runs[r] \in Run /\ Active(r) /\ runs[r].event = NoEvent
        /\ (runs[r].clean => Alone(r) /\ CleanRun(runs[r]))
    BY <1>1, LoopFacts
  <1>3. /\ NoRun \in Run /\ NoRun.stage \notin Saving /\ NoRun.stage \notin Refreshing
        /\ NoRun.stage \notin Looping /\ NoRun.stage # "forget" /\ NoRun.event = NoEvent
        /\ QuietRun(NoRun)
    BY IdleFits, StagesApart DEF QuietRun, Saving, Looping
  <1>4. RestTyped'
    <2>1. inSync' \in BOOLEAN
      BY <1>1
    <2>2. QED
      BY <1>1, <1>2, <2>1, TypesSplit DEF RestTyped, timerVars, choiceVars
  <1>5. ChoiceCarried'
    BY <1>1, <1>3, ChoiceStands
  <1>6. inSync' => \/ inSync /\ QuietRun(NoRun) /\ UNCHANGED records
                   \/ NoRun = NoRun /\ Alone(r) /\ \A s \in Slots : Tells(records'[s], presence[s])
    <2>1. ASSUME runs[r].clean, runs[r].view = presence
          PROVE  Alone(r) /\ \A s \in Slots : Tells(records'[s], presence[s])
      BY <1>1, <1>2, <2>1 DEF CleanRun
    <2>2. QED
      BY <1>1, <1>3, <2>1
  <1>7. upset' \/ (~upset /\ KnownRun(NoRun)' /\ Orphanless(NoRun)' /\ Apart')
    <2> SUFFICES ASSUME ~upset PROVE KnownRun(NoRun)' /\ Orphanless(NoRun)' /\ Apart'
      BY <1>1
    <2>1. KnownRun(runs[r]) /\ Orphanless(runs[r]) /\ Apart
      BY <1>2, Calm
    <2>2. KnownRun(NoRun)'
      BY <1>3, IdleFits DEF KnownRun
    <2>3. Orphanless(NoRun)'
      BY <1>1, <1>2, <1>3, <2>1 DEF Orphanless
    <2>4. QED
      BY <1>1, <2>1, <2>2, <2>3 DEF Apart
  <1>8. ~NoRun.clean /\ UNCHANGED <<presence, purging>>
    BY <1>1, IdleFits DEF choiceVars
  <1>9. QED
    BY <1>1, <1>2, <1>3, <1>4, <1>5, <1>6, <1>7, <1>8, MoveStep

(* A run that goes on in its loop after an error.                          *)
LEMMA StumbleStep ==
    ASSUME SyncInv, NEW r \in Runs, NEW x \in Run, runs' = [runs EXCEPT ![r] = x],
           runs[r].stage \in Looping, ~inSync, upset' = TRUE,
           x.stage \in {"slots", "forget"}, x.event = NoEvent, ~x.clean,
           outlook' \subseteq Event, discarded' \subseteq Events,
           UNCHANGED <<presence, editing, timerVars, records, choiceVars, left, owed, inSync>>
    PROVE  SyncInv'
  <1>1. x.stage \notin Saving /\ x.stage \notin Refreshing
    BY DEF Saving, Refreshing
  <1>2. SyncTypeOK /\ Active(r)
    BY LoopFacts
  <1>3. RestTyped'
    BY <1>2, TypesSplit DEF RestTyped, timerVars, choiceVars
  <1>4. ChoiceCarried'
    BY <1>1, ChoiceStands
  <1>5. QED
    BY <1>1, <1>2, <1>3, <1>4, MoveStep DEF choiceVars

LEMMA RecordFailsStep ==
    ASSUME SyncInv, NEW r \in Runs, RecordFails(r)
    PROVE  SyncInv'
  <1>1. /\ runs[r].stage \in Looping /\ runs[r].stage # "slots"
        /\ upset' = TRUE
        /\ UNCHANGED <<presence, editing, timerVars, records, outlook, choiceVars, left,
                       owed, inSync, discarded>>
    BY DEF RecordFails, Looping
  <1>2. SyncTypeOK /\ runs[r] \in Run /\ ~inSync
    BY <1>1, LoopFacts, BusyLoop
  <1>3. PICK x \in Run : /\ x.stage = "slots" /\ x.event = NoEvent /\ ~x.clean
                         /\ runs' = [runs EXCEPT ![r] = x]
    <2> DEFINE y == [runs[r] EXCEPT !.stage = "slots", !.event = NoEvent, !.clean = FALSE]
    <2>1. y \in Run /\ y.stage = "slots" /\ y.event = NoEvent /\ ~y.clean
      BY <1>2 DEF Run, RunStage
    <2>2. runs' = [runs EXCEPT ![r] = y]
      BY <1>2 DEF SyncTypeOK, RecordFails
    <2> HIDE DEF y
    <2>3. QED
      BY <2>1, <2>2
  <1>4. outlook' \subseteq Event /\ discarded' \subseteq Events
    BY <1>1, <1>2 DEF SyncTypeOK
  <1>5. QED
    BY <1>1, <1>2, <1>3, <1>4, StumbleStep

LEMMA GraphFailsStep ==
    ASSUME SyncInv, NEW r \in Runs, GraphFails(r)
    PROVE  SyncInv'
  <1>1. /\ runs[r].stage = "slots" /\ runs[r].stage \in Looping /\ runs[r].stage \notin Saving
        /\ upset' = TRUE
        /\ UNCHANGED <<presence, editing, timerVars, records, choiceVars, left, owed, inSync>>
    BY DEF GraphFails, Looping, Saving
  <1>2. SyncTypeOK /\ runs[r] \in Run /\ runs[r].event = NoEvent /\ outlook \subseteq Event
    BY <1>1, LoopFacts
  <1> DEFINE later(s) == ToUpsert(r, s) /\ runs[r].known[s] # NoRecord
  <1>3. PICK s \in NextSlots(r) :
             /\ \/ UNCHANGED <<outlook, discarded>>
                \/ (\E e \in Events : Upsert(r, s, e)) \/ Remove(r, s)
             /\ runs' = [runs EXCEPT ![r].slot = s, ![r].clean = FALSE,
                            ![r].todo = IF later(s) THEN @ ELSE @ \ {s},
                            ![r].unsaved = IF later(s) THEN @ \cup {s} ELSE @,
                            ![r].stage = IF ToUpsert(r, s) THEN "slots" ELSE "forget"]
    BY DEF GraphFails
  <1>4. s \in Slots /\ ~inSync
    BY <1>1, NextFacts
  <1>5. PICK x \in Run : /\ x.stage \in {"slots", "forget"} /\ x.event = NoEvent /\ ~x.clean
                         /\ runs' = [runs EXCEPT ![r] = x]
    <2> DEFINE y == [runs[r] EXCEPT !.slot = s, !.clean = FALSE,
                            !.todo = IF later(s) THEN @ ELSE @ \ {s},
                            !.unsaved = IF later(s) THEN @ \cup {s} ELSE @,
                            !.stage = IF ToUpsert(r, s) THEN "slots" ELSE "forget"]
    <2> HIDE DEF later
    <2>1. y \in Run /\ y.stage \in {"slots", "forget"} /\ y.event = NoEvent /\ ~y.clean
      BY <1>2, <1>4 DEF Run, RunStage
    <2>2. runs' = [runs EXCEPT ![r] = y]
      BY <1>2, <1>3 DEF SyncTypeOK
    <2> HIDE DEF y
    <2>3. QED
      BY <2>1, <2>2
  <1>6. outlook' \subseteq Event /\ discarded' \subseteq Events
    <2>1. CASE UNCHANGED <<outlook, discarded>>
      BY <1>2, <2>1 DEF SyncTypeOK
    <2>2. CASE \E e \in Events : Upsert(r, s, e)
      BY <1>1, <1>4, <2>2, UpsertTyped
    <2>3. CASE Remove(r, s)
      BY <1>2, <2>3 DEF Remove, SyncTypeOK
    <2>4. QED
      BY <1>3, <2>1, <2>2, <2>3
  <1>7. QED
    BY <1>1, <1>4, <1>5, <1>6, StumbleStep

-----------------------------------------------------------------------------
(* Runs that begin, and what happens beside them.                          *)

(* SyncMonth begins: whoever was running is no longer alone.               *)
LEMMA StartStep ==
    ASSUME SyncInv, NEW r \in Runs, Start(r), RestTyped',
           UNCHANGED <<presence, records, outlook, choiceVars, inSync, discarded>>
    PROVE  SyncInv'
  <1>1. SyncTypeOK /\ runs \in [Runs -> Run] /\ runs[r].stage = "idle" /\ upset \in BOOLEAN
    BY TypesSplit DEF SyncInv, SyncTypeOK, Start, Active, RestTyped
  <1>2. upset' = (upset \/ \E p \in Runs : Active(p))
    BY DEF Start
  <1> DEFINE first == [NoRun EXCEPT !.stage = "token", !.clean = \A p \in Runs : ~Active(p)]
             beside(q) == [runs[q] EXCEPT !.clean = FALSE]
  <1>3. runs' = [q \in Runs |-> IF q = r THEN first ELSE beside(q)]
    BY DEF Start
  <1>4. /\ first \in Run /\ first.stage = "token" /\ first.unsaved = {} /\ first.event = NoEvent
        /\ first.clean => \A p \in Runs : ~Active(p)
    BY IdleFits DEF Run, RunStage
  <1>5. \A q \in Runs :
           /\ beside(q) \in Run /\ ~beside(q).clean
           /\ beside(q).stage = runs[q].stage /\ beside(q).event = runs[q].event
           /\ beside(q).view = runs[q].view /\ beside(q).slot = runs[q].slot
           /\ beside(q).todo = runs[q].todo /\ beside(q).unsaved = runs[q].unsaved
           /\ beside(q).autoSync = runs[q].autoSync
    BY <1>1 DEF Run
  <1> HIDE DEF first, beside
  <1>6. /\ runs' \in [Runs -> Run] /\ runs'[r].stage = "token" /\ runs'[r].unsaved = {}
        /\ runs'[r].event = NoEvent /\ (runs'[r].clean => \A p \in Runs : ~Active(p))
        /\ \A q \in Runs : q # r =>
              /\ ~runs'[q].clean
              /\ runs'[q].stage = runs[q].stage /\ runs'[q].event = runs[q].event
              /\ runs'[q].view = runs[q].view /\ runs'[q].slot = runs[q].slot
              /\ runs'[q].todo = runs[q].todo /\ runs'[q].unsaved = runs[q].unsaved
              /\ runs'[q].autoSync = runs[q].autoSync
    BY <1>3, <1>4, <1>5
  <1>7. "token" \notin Saving /\ "token" \notin Looping /\ "token" \notin Refreshing
    BY DEF Saving, Looping, Refreshing
  <1>8. SyncTypeOK'
    <2>1. runs' \in [Runs -> Run]
      BY <1>6
    <2>2. QED
      BY <2>1 DEF SyncTypeOK, RestTyped
  <1>9. RunShape'
    BY <1>6, <1>7 DEF SyncInv, RunShape
  <1>10. ChoiceCarried'
    BY <1>6, <1>7 DEF SyncInv, ChoiceCarried, choiceVars
  <1>11. CleanSoFar'
    <2> SUFFICES ASSUME NEW q \in Runs, runs'[q].clean PROVE Alone(q)' /\ CleanRun(runs[q])'
      BY DEF CleanSoFar
    <2>1. q = r /\ \A p \in Runs : runs[p].stage = "idle"
      BY <1>6 DEF Active
    <2>2. \A p \in Runs : p # r => runs'[p].stage = "idle"
      BY <1>6, <2>1
    <2>3. CleanRun(runs[q])'
      BY <1>6, <1>7, <2>1 DEF CleanRun
    <2>4. QED
      BY <2>1, <2>2, <2>3 DEF Alone, Active
  <1>12. NothingToDo'
    <2> SUFFICES ASSUME inSync
                 PROVE  /\ \A s \in Slots : Tells(records[s], presence[s])'
                        /\ \A q \in Runs : QuietRun(runs[q])'
      BY DEF NothingToDo
    <2>1. \A s \in Slots : Tells(records[s], presence[s])'
      BY DEF SyncInv, NothingToDo, Tells
    <2>2. ASSUME NEW q \in Runs PROVE QuietRun(runs[q])'
      <3>1. QuietRun(runs[q])
        BY DEF SyncInv, NothingToDo
      <3>2. QED
        BY <1>6, <1>7, <3>1 DEF QuietRun
    <2>3. QED
      BY <2>1, <2>2
  <1>13. ASSUME ~upset' PROVE EventsKnown' /\ NoOrphanUnlessUpset'
    <2>1. ~upset /\ \A p \in Runs : runs[p].stage = "idle"
      BY <1>2, <1>13 DEF Active
    <2>2. /\ ~purging /\ \A q \in Runs : KnownRun(runs[q])
          /\ Apart
      BY <2>1 DEF SyncInv, EventsKnown
    <2>3. \A p \in Runs : runs[p].event = NoEvent
      BY <2>1, StagesApart DEF SyncInv, RunShape
    <2>4. \A p \in Runs : p # r => runs'[p].stage = "idle"
      BY <1>6, <2>1
    <2>5. \A q \in Runs : KnownRun(runs[q])'
      <3> SUFFICES ASSUME NEW q \in Runs PROVE KnownRun(runs[q])'
        OBVIOUS
      <3>1. runs'[q].unsaved = {}
        BY <1>6, <2>2 DEF KnownRun
      <3>2. runs'[q].stage \in {"idle", "token"}
        BY <1>6, <2>4
      <3>3. runs'[q].stage \notin Looping /\ runs'[q].stage \notin Saving
            /\ runs'[q].stage # "forget"
        BY <3>2 DEF Looping, Saving
      <3>4. QED
        BY <3>1, <3>3 DEF KnownRun
    <2>6. EventsKnown'
      BY <2>2, <2>4, <2>5 DEF EventsKnown, Alone, Active, Apart, choiceVars
    <2>7. \A e \in outlook : ~Held(e)
      BY <2>3, RecordKinds, <1>1 DEF Held, SyncTypeOK
    <2>8. \A e \in outlook : records[e.slot].event = e.id
      BY <2>1, <2>7 DEF SyncInv, NoOrphanUnlessUpset
    <2>9. \A s \in Slots : records[s] # NoRecord =>
             \/ records[s].event \in discarded
             \/ \E e \in outlook : e.id = records[s].event /\ e.slot = s
                    /\ e.status = records[s].status
      BY <2>1, <2>7 DEF SyncInv, NoOrphanUnlessUpset
    <2>10. NoOrphanUnlessUpset'
      BY <2>8, <2>9 DEF NoOrphanUnlessUpset
    <2>11. QED
      BY <2>6, <2>10
  <1>14. EventsKnown' /\ NoOrphanUnlessUpset'
    BY <1>13 DEF EventsKnown, NoOrphanUnlessUpset
  <1>15. QED
    BY <1>8, <1>9, <1>10, <1>11, <1>12, <1>14 DEF SyncInv

(* A step beside the runs, their records and the calendar.                 *)
LEMMA BesideStep ==
    ASSUME SyncInv, RestTyped', ChoiceCarried', UNCHANGED <<runs, records, outlook, discarded>>,
           inSync' => inSync /\ presence' = presence,
           upset' \/ (~upset /\ (~purging => ~purging'))
    PROVE  SyncInv'
  <1>1. SyncTypeOK'
    BY DEF SyncInv, SyncTypeOK, RestTyped
  <1>2. RunShape'
    BY DEF SyncInv, RunShape
  <1>3. CleanSoFar'
    BY DEF SyncInv, CleanSoFar, CleanRun, Alone, Active, Tells
  <1>4. NothingToDo'
    BY DEF SyncInv, NothingToDo, QuietRun, Tells
  <1>5. EventsKnown'
    BY DEF SyncInv, EventsKnown, KnownRun, Alone, Active, Apart
  <1>6. NoOrphanUnlessUpset'
    BY DEF SyncInv, NoOrphanUnlessUpset, Held
  <1>7. QED
    BY <1>1, <1>2, <1>3, <1>4, <1>5, <1>6 DEF SyncInv

(* A step of the edits and timers.                                         *)
LEMMA TimersStep ==
    ASSUME SyncInv, RestTyped', UNCHANGED <<runs, records, outlook, discarded, choiceVars, upset>>,
           inSync' => inSync /\ presence' = presence
    PROVE  SyncInv'
  <1>1. ChoiceCarried'
    BY DEF SyncInv, ChoiceCarried, choiceVars
  <1>2. upset \in BOOLEAN
    BY TypesSplit DEF SyncInv, RestTyped
  <1>3. QED
    <2>1. CASE upset
      BY <1>1, <2>1, BesideStep
    <2>2. CASE ~upset
      BY <1>1, <2>2, BesideStep DEF choiceVars
    <2>3. QED
      BY <2>1, <2>2

LEMMA TypedNow ==
    ASSUME SyncInv
    PROVE  SyncTypeOK /\ RestTyped /\ runs \in [Runs -> Run]
  BY TypesSplit DEF SyncInv

LEMMA EditPresenceStep ==
    ASSUME SyncInv, NEW s \in Slots, NEW v \in Statuses \cup {NoStatus}, EditPresence(s, v)
    PROVE  SyncInv'
  <1>1. RestTyped
    BY TypedNow
  <1>2. presence' \in Declaration
    BY <1>1 DEF RestTyped, EditPresence, Declaration
  <1>3. left' \in [edits : Nat, choices : Nat]
    BY <1>1 DEF RestTyped, EditPresence
  <1>4. RestTyped'
    BY <1>1, <1>2, <1>3 DEF RestTyped, EditPresence, timerVars, choiceVars
  <1>5. QED
    BY <1>4, TimersStep DEF EditPresence

LEMMA QueueSyncStep ==
    ASSUME SyncInv, QueueSync
    PROVE  SyncInv'
  <1>1. RestTyped
    BY TypedNow
  <1>2. /\ entry' \in Timers \cup {NoTimer} /\ armed' \subseteq Timers /\ fired' \subseteq Timers
        /\ armed' \cap fired' = {} /\ owed' \in BOOLEAN
    <2>1. CASE Trigger /\ owed' = TRUE
      BY <1>1, <2>1 DEF RestTyped, Trigger
    <2>2. CASE UNCHANGED <<timerVars, owed>>
      BY <1>1, <2>2 DEF RestTyped, timerVars
    <2>3. QED
      BY <2>1, <2>2 DEF QueueSync
  <1>3. RestTyped'
    BY <1>1, <1>2 DEF RestTyped, QueueSync, choiceVars
  <1>4. QED
    BY <1>3, TimersStep DEF QueueSync

LEMMA TimerElapsesStep ==
    ASSUME SyncInv, NEW t \in Timers, TimerElapses(t)
    PROVE  SyncInv'
  <1>1. RestTyped
    BY TypedNow
  <1>2. armed' \subseteq Timers /\ fired' \subseteq Timers /\ armed' \cap fired' = {}
    BY <1>1 DEF RestTyped, TimerElapses
  <1>3. RestTyped'
    BY <1>1, <1>2 DEF RestTyped, TimerElapses, choiceVars
  <1>4. QED
    BY <1>3, TimersStep DEF TimerElapses

LEMMA StartsTyped ==
    ASSUME RestTyped, NEW r \in Runs, Start(r)
    PROVE  upset' \in BOOLEAN
  BY DEF Start, RestTyped

LEMMA TimerCallbackStep ==
    ASSUME SyncInv, NEW t \in Timers, NEW r \in Runs, TimerCallback(t, r)
    PROVE  SyncInv'
  <1>1. RestTyped /\ Start(r)
    BY TypedNow DEF TimerCallback
  <1>2. /\ entry' \in Timers \cup {NoTimer} /\ fired' \subseteq Timers
        /\ armed' \cap fired' = {} /\ upset' \in BOOLEAN
    BY <1>1, StartsTyped DEF RestTyped, TimerCallback
  <1>3. RestTyped'
    BY <1>1, <1>2 DEF RestTyped, TimerCallback, choiceVars
  <1>4. QED
    BY <1>1, <1>3, StartStep DEF TimerCallback

LEMMA SyncByHandStep ==
    ASSUME SyncInv, NEW r \in Runs, SyncByHand(r)
    PROVE  SyncInv'
  <1>1. RestTyped /\ Start(r)
    BY TypedNow DEF SyncByHand
  <1>2. left' \in [edits : Nat, choices : Nat] /\ upset' \in BOOLEAN
    BY <1>1, StartsTyped DEF RestTyped, SyncByHand
  <1>3. RestTyped'
    BY <1>1, <1>2 DEF RestTyped, SyncByHand, choiceVars, timerVars
  <1>4. QED
    BY <1>1, <1>3, StartStep DEF SyncByHand

(* A step of the token beside the runs.                                    *)
LEMMA TokenStep ==
    ASSUME SyncInv, RestTyped', ChoiceCarried',
           UNCHANGED <<presence, runs, records, outlook, discarded, inSync, purging, upset>>
    PROVE  SyncInv'
  <1>1. upset \in BOOLEAN
    BY TypedNow DEF RestTyped
  <1>2. CASE upset
    BY <1>2, BesideStep
  <1>3. CASE ~upset
    BY <1>3, BesideStep
  <1>4. QED
    BY <1>1, <1>2, <1>3

LEMMA TokenExpiresStep ==
    ASSUME SyncInv, TokenExpires
    PROVE  SyncInv'
  <1>1. RestTyped /\ token \in Token /\ token # NoToken
    BY TypedNow DEF TokenExpires, RestTyped
  <1>2. token' \in Token /\ token'.autoSync = token.autoSync
    BY <1>1 DEF TokenExpires, Token
  <1>3. token' # NoToken
    BY <1>2 DEF Token, NoToken
  <1>4. RestTyped'
    BY <1>1, <1>2 DEF RestTyped, TokenExpires, timerVars
  <1>5. ChoiceCarried'
    BY <1>1, <1>2, <1>3 DEF SyncInv, ChoiceCarried, TokenExpires
  <1>6. QED
    BY <1>4, <1>5, TokenStep DEF TokenExpires

LEMMA SpendChoice ==
    ASSUME RestTyped, left' = [left EXCEPT !.choices = @ - 1], left.choices > 0
    PROVE  left' \in [edits : Nat, choices : Nat]
  BY DEF RestTyped

LEMMA ConnectStep ==
    ASSUME SyncInv, Connect
    PROVE  SyncInv'
  <1>1. RestTyped /\ left' \in [edits : Nat, choices : Nat]
    BY TypedNow, SpendChoice DEF Connect
  <1> DEFINE flag == token # NoToken /\ token.autoSync
  <1>2. flag \in BOOLEAN
    BY <1>1, TokenKinds DEF RestTyped
  <1>3. callback' = [stage |-> "count", autoSync |-> flag]
    BY DEF Connect
  <1>4. wanted.autoSync \in BOOLEAN
    BY <1>1, TokenKinds DEF RestTyped
  <1>5. ~swayed => flag = wanted.autoSync
    <2>1. CASE token = NoToken
      BY <1>4, <2>1 DEF SyncInv, ChoiceCarried
    <2>2. CASE token # NoToken
      BY <1>1, <1>4, <2>2, TokenKinds DEF SyncInv, ChoiceCarried, RestTyped
    <2>3. QED
      BY <2>1, <2>2
  <1> HIDE DEF flag
  <1>6. RestTyped'
    BY <1>1, <1>2, <1>3 DEF RestTyped, Connect, timerVars
  <1>7. ChoiceCarried'
    BY <1>3, <1>5 DEF SyncInv, ChoiceCarried, Connect
  <1>8. QED
    BY <1>6, <1>7, TokenStep DEF Connect

LEMMA ConnectCountStep ==
    ASSUME SyncInv, ConnectCount
    PROVE  SyncInv'
  <1>1. RestTyped
    BY TypedNow
  <1>2. /\ callback' \in [stage : {"idle", "count", "insert", "update"}, autoSync : BOOLEAN]
        /\ callback'.autoSync = callback.autoSync
    BY <1>1 DEF RestTyped, ConnectCount
  <1>3. RestTyped'
    BY <1>1, <1>2 DEF RestTyped, ConnectCount, timerVars
  <1>4. ChoiceCarried'
    <2>1. callback.stage # "idle"
      BY DEF ConnectCount
    <2>2. QED
      BY <1>2, <2>1 DEF SyncInv, ChoiceCarried, ConnectCount
  <1>5. QED
    BY <1>3, <1>4, TokenStep DEF ConnectCount

LEMMA ConnectSaveStep ==
    ASSUME SyncInv, ConnectSave
    PROVE  SyncInv'
  <1>1. RestTyped /\ callback.stage # "idle" /\ callback.autoSync \in BOOLEAN
    BY TypedNow DEF ConnectSave, RestTyped
  <1> DEFINE insert == callback.stage = "insert"
  <1>2. SaveToken("callback", insert, callback.autoSync) /\ insert \in BOOLEAN
    BY DEF ConnectSave
  <1> HIDE DEF insert
  <1>3. wanted' = [wanted EXCEPT !.connected = TRUE] /\ wanted'.connected
    BY <1>1 DEF ConnectSave, RestTyped, Choice
  <1>4. ~swayed /\ "callback" \notin late => callback.autoSync = wanted.autoSync
    BY <1>1 DEF SyncInv, ChoiceCarried
  <1>5. "callback" \in Runs \cup {"callback"} /\ "callback" \notin Runs
    BY SyncAssumption
  <1>6. runs' = runs /\ callback' = NoCallback
    BY DEF ConnectSave
  <1>7. /\ ChoiceCarried' /\ token' \in Token \cup {NoToken} /\ late' \subseteq late
        /\ swayed' \in BOOLEAN /\ wanted' \in Choice
    BY <1>1, <1>2, <1>3, <1>4, <1>5, <1>6, SaveKeepsChoice
  <1>8. NoCallback \in [stage : {"idle", "count", "insert", "update"}, autoSync : BOOLEAN]
    BY DEF NoCallback
  <1>9. RestTyped'
    BY <1>1, <1>6, <1>7, <1>8 DEF RestTyped, ConnectSave, timerVars
  <1>10. QED
    BY <1>7, <1>9, TokenStep DEF ConnectSave

LEMMA HoldersTyped ==
    /\ HoldingToken \subseteq Runs \cup {"callback"}
    /\ \A r \in Runs : runs[r].stage \in Refreshing => r \in HoldingToken
    /\ callback.stage # "idle" => "callback" \in HoldingToken
  BY DEF HoldingToken, Refreshing

LEMMA ToggleAutoSyncStep ==
    ASSUME SyncInv, NEW v \in BOOLEAN, ToggleAutoSync(v)
    PROVE  SyncInv'
  <1>1. /\ RestTyped /\ left' \in [edits : Nat, choices : Nat] /\ owed' \in BOOLEAN
        /\ UNCHANGED <<presence, editing, timerVars, runs, records, outlook, swayed, callback,
                       purging, inSync, upset, discarded>>
    BY TypedNow, SpendChoice DEF ToggleAutoSync
  <1>2. CASE UNCHANGED <<token, wanted, late>>
    <2>1. RestTyped'
      BY <1>1, <1>2 DEF RestTyped, timerVars
    <2>2. ChoiceCarried'
      BY <1>1, <1>2 DEF SyncInv, ChoiceCarried
    <2>3. QED
      BY <1>1, <2>1, <2>2, TokenStep
  <1>3. CASE /\ token # NoToken
             /\ token' = [token EXCEPT !.autoSync = v]
             /\ wanted' = [wanted EXCEPT !.autoSync = v]
             /\ late' = late \cup HoldingToken
    <2>1. token \in Token /\ wanted \in Choice
      BY <1>1, <1>3 DEF RestTyped
    <2>2. token' \in Token /\ token'.autoSync = v
      BY <1>3, <2>1 DEF Token
    <2>3. wanted' \in Choice /\ wanted'.autoSync = v /\ wanted'.connected = wanted.connected
      BY <1>3, <2>1 DEF Choice
    <2>4. token' # NoToken
      BY <2>2 DEF Token, NoToken
    <2>5. RestTyped'
      BY <1>1, <1>3, <2>2, <2>3, HoldersTyped DEF RestTyped, timerVars
    <2>6. ChoiceCarried'
      BY <1>1, <1>3, <2>2, <2>3, <2>4, HoldersTyped DEF SyncInv, ChoiceCarried
    <2>7. QED
      BY <1>1, <2>5, <2>6, TokenStep
  <1>4. QED
    BY <1>2, <1>3 DEF ToggleAutoSync

LEMMA DisconnectStep ==
    ASSUME SyncInv, Disconnect
    PROVE  SyncInv'
  <1>1. /\ RestTyped /\ left' \in [edits : Nat, choices : Nat]
        /\ token' = NoToken /\ wanted' = Disconnected /\ late' = late \cup HoldingToken
        /\ purging' = TRUE /\ upset' = TRUE
        /\ UNCHANGED <<presence, editing, timerVars, runs, records, outlook, swayed, callback,
                       owed, inSync, discarded>>
    BY TypedNow, SpendChoice DEF Disconnect, DeleteToken
  <1>2. RestTyped'
    BY <1>1, TokenKinds, HoldersTyped DEF RestTyped, timerVars
  <1>3. ChoiceCarried'
    BY <1>1, TokenKinds, HoldersTyped DEF ChoiceCarried
  <1>4. QED
    BY <1>1, <1>2, <1>3, BesideStep

LEMMA PurgeRecordsStep ==
    ASSUME SyncInv, PurgeRecords
    PROVE  SyncInv'
  <1>1. /\ RestTyped /\ runs \in [Runs -> Run] /\ purging /\ purging' = FALSE
        /\ records' = [s \in Slots |-> NoRecord] /\ inSync' = FALSE
        /\ UNCHANGED <<presence, editing, timerVars, outlook, token, wanted, late, swayed,
                       callback, left, owed, upset, discarded>>
    BY TypedNow DEF PurgeRecords
  <1>2. upset'
    BY <1>1 DEF SyncInv, EventsKnown
  <1>3. RestTyped'
    BY <1>1 DEF RestTyped, timerVars
  <1> DEFINE spoilt(q) == [runs[q] EXCEPT !.clean = FALSE]
  <1>4. \A q \in Runs :
           /\ spoilt(q) \in Run /\ ~spoilt(q).clean
           /\ spoilt(q).stage = runs[q].stage /\ spoilt(q).event = runs[q].event
           /\ spoilt(q).view = runs[q].view /\ spoilt(q).slot = runs[q].slot
           /\ spoilt(q).autoSync = runs[q].autoSync
    BY <1>1 DEF Run
  <1>5. runs' = [q \in Runs |-> spoilt(q)]
    BY DEF PurgeRecords
  <1> HIDE DEF spoilt
  <1>6. /\ runs' \in [Runs -> Run]
        /\ \A q \in Runs :
              /\ ~runs'[q].clean
              /\ runs'[q].stage = runs[q].stage /\ runs'[q].event = runs[q].event
              /\ runs'[q].view = runs[q].view /\ runs'[q].slot = runs[q].slot
              /\ runs'[q].autoSync = runs[q].autoSync
    BY <1>4, <1>5
  <1>7. SyncTypeOK'
    <2>1. runs' \in [Runs -> Run]
      BY <1>6
    <2>2. QED
      BY <1>3, <2>1 DEF SyncTypeOK, RestTyped
  <1>8. RunShape'
    BY <1>6 DEF SyncInv, RunShape
  <1>9. ChoiceCarried'
    BY <1>1, <1>6 DEF SyncInv, ChoiceCarried
  <1>10. CleanSoFar' /\ NothingToDo' /\ EventsKnown' /\ NoOrphanUnlessUpset'
    BY <1>1, <1>2, <1>6 DEF CleanSoFar, NothingToDo, EventsKnown, NoOrphanUnlessUpset
  <1>11. QED
    BY <1>7, <1>8, <1>9, <1>10 DEF SyncInv

LEMMA DiscardEventStep ==
    ASSUME SyncInv, NEW d \in outlook, DiscardEvent(d)
    PROVE  SyncInv'
  <1>1. /\ RestTyped /\ left' \in [edits : Nat, choices : Nat]
        /\ outlook' = outlook \ {d} /\ discarded' = discarded \cup {d.id}
        /\ UNCHANGED <<presence, editing, timerVars, runs, records, choiceVars, owed,
                       inSync, upset>>
    BY TypedNow, SpendChoice DEF DiscardEvent
  <1>2. d.id \in Events
    BY <1>1, RecordKinds DEF RestTyped
  <1>3. RestTyped'
    BY <1>1, <1>2 DEF RestTyped, timerVars, choiceVars
  <1>4. SyncTypeOK' /\ RunShape' /\ ChoiceCarried'
    <2>1. SyncTypeOK'
      BY <1>1, <1>3 DEF SyncInv, SyncTypeOK, RestTyped
    <2>2. QED
      BY <1>1, <2>1 DEF SyncInv, RunShape, ChoiceCarried, choiceVars
  <1>5. CleanSoFar' /\ NothingToDo'
    BY <1>1 DEF SyncInv, CleanSoFar, CleanRun, Alone, Active, Tells, NothingToDo, QuietRun
  <1>6. EventsKnown'
    <2> SUFFICES ASSUME ~upset PROVE EventsKnown'
      BY <1>1 DEF EventsKnown
    <2>1. ASSUME NEW r \in Runs, KnownRun(runs[r]) PROVE KnownRun(runs[r])'
      BY <1>1, <2>1 DEF KnownRun
    <2>2. QED
      BY <1>1, <2>1 DEF SyncInv, EventsKnown, Alone, Active, Apart, choiceVars
  <1>7. NoOrphanUnlessUpset'
    <2> SUFFICES ASSUME ~upset PROVE NoOrphanUnlessUpset'
      BY <1>1 DEF NoOrphanUnlessUpset
    <2>1. \A e \in outlook : Held(e) <=> Held(e)'
      BY <1>1 DEF Held
    <2>2. QED
      BY <1>1, <2>1 DEF SyncInv, NoOrphanUnlessUpset
  <1>8. QED
    BY <1>4, <1>5, <1>6, <1>7 DEF SyncInv

LEMMA RestartSyncStep ==
    ASSUME SyncInv, RestartSync
    PROVE  SyncInv'
  <1>1. /\ RestTyped /\ editing' = FALSE /\ entry' = NoTimer /\ armed' = {} /\ fired' = {}
        /\ runs' = [q \in Runs |-> NoRun] /\ callback' = NoCallback /\ purging' = FALSE
        /\ late' = {} /\ upset' = TRUE
        /\ UNCHANGED <<presence, records, outlook, token, wanted, swayed, left,
                       owed, inSync, discarded>>
    BY TypedNow DEF RestartSync
  <1>2. NoCallback \in [stage : {"idle", "count", "insert", "update"}, autoSync : BOOLEAN]
    BY DEF NoCallback
  <1>3. RestTyped'
    BY <1>1, <1>2 DEF RestTyped
  <1>4. /\ runs' \in [Runs -> Run]
        /\ \A q \in Runs : runs'[q].stage = "idle" /\ runs'[q].event = NoEvent
                           /\ ~runs'[q].clean
    BY <1>1, IdleFits
  <1>5. SyncTypeOK'
    <2>1. runs' \in [Runs -> Run]
      BY <1>4
    <2>2. QED
      BY <1>3, <2>1 DEF SyncTypeOK, RestTyped
  <1>6. /\ "idle" \notin Saving /\ "idle" \notin Looping /\ "idle" \notin Refreshing
    BY DEF Saving, Looping, Refreshing
  <1>7. RunShape' /\ CleanSoFar' /\ EventsKnown' /\ NoOrphanUnlessUpset'
    BY <1>1, <1>4, <1>6 DEF RunShape, CleanSoFar, EventsKnown, NoOrphanUnlessUpset
  <1>8. ChoiceCarried'
    BY <1>1, <1>4, <1>6 DEF SyncInv, ChoiceCarried, NoCallback
  <1>9. NothingToDo'
    BY <1>1, <1>4, <1>6 DEF SyncInv, NothingToDo, QuietRun, Tells
  <1>10. QED
    BY <1>5, <1>7, <1>8, <1>9 DEF SyncInv

LEMMA SyncBegins == SyncInit => SyncInv
  <1> SUFFICES ASSUME SyncInit PROVE SyncInv
    OBVIOUS
  <1>1. /\ runs \in [Runs -> Run]
        /\ \A q \in Runs : runs[q].stage = "idle" /\ runs[q].event = NoEvent /\ ~runs[q].clean
                           /\ runs[q].unsaved = {}
    BY IdleFits DEF SyncInit
  <1>2. /\ token \in Token /\ token # NoToken /\ token.autoSync /\ wanted \in Choice
        /\ wanted.autoSync /\ wanted.connected
    BY DEF SyncInit, Token, Choice, NoToken
  <1>3. NoCallback \in [stage : {"idle", "count", "insert", "update"}, autoSync : BOOLEAN]
        /\ NoCallback.stage = "idle"
    BY DEF NoCallback
  <1>4. presence \in Declaration /\ left \in [edits : Nat, choices : Nat]
    BY SyncAssumption DEF SyncInit, Declaration
  <1>5. RestTyped
    BY <1>2, <1>3, <1>4 DEF SyncInit, RestTyped
  <1>6. SyncTypeOK
    BY <1>1, <1>5, TypesSplit
  <1>7. /\ "idle" \notin Saving /\ "idle" \notin Looping /\ "idle" \notin Refreshing
    BY DEF Saving, Looping, Refreshing
  <1>8. RunShape /\ CleanSoFar
    BY <1>1, <1>7 DEF RunShape, CleanSoFar
  <1>9. ChoiceCarried
    BY <1>1, <1>2, <1>3, <1>7 DEF SyncInit, ChoiceCarried
  <1>10. NothingToDo
    BY <1>1, <1>7, SyncAssumption DEF SyncInit, NothingToDo, QuietRun, Tells
  <1>11. EventsKnown /\ NoOrphanUnlessUpset
    BY <1>1, <1>7 DEF SyncInit, EventsKnown, NoOrphanUnlessUpset, KnownRun, Alone, Active, Apart
  <1>12. QED
    BY <1>6, <1>8, <1>9, <1>10, <1>11 DEF SyncInv

LEMMA SyncPasses ==
    ASSUME SyncInv, UNCHANGED syncVars
    PROVE  SyncInv'
  <1>1. RestTyped'
    BY TypedNow DEF RestTyped, syncVars
  <1>2. QED
    BY <1>1, TimersStep DEF syncVars, choiceVars

LEMMA SyncSteps ==
    ASSUME SyncInv, [SyncNext]_syncVars
    PROVE  SyncInv'
  <1>1. CASE \E s \in Slots, v \in Statuses \cup {NoStatus} : EditPresence(s, v)
    BY <1>1, EditPresenceStep
  <1>2. CASE QueueSync
    BY <1>2, QueueSyncStep
  <1>3. CASE \E t \in Timers : TimerElapses(t) \/ \E r \in Runs : TimerCallback(t, r)
    BY <1>3, TimerElapsesStep, TimerCallbackStep
  <1>4. ASSUME NEW r \in Runs,
               \/ SyncByHand(r) \/ RunStep(r)
               \/ GrantRevoked(r) \/ GraphFails(r) \/ RecordFails(r) \/ RunFails(r)
        PROVE  SyncInv'
    <2>1. CASE ReadToken(r) \/ RefreshToken(r) \/ SaveRefreshed(r) \/ ReadPresences(r)
      BY <2>1, ReadTokenStep, RefreshTokenStep, SaveRefreshedStep, ReadPresencesStep
    <2>2. CASE ReadRecords(r) \/ CallGraph(r) \/ CountRecord(r)
      BY <2>2, ReadRecordsStep, CallGraphStep, CountRecordStep
    <2>3. CASE SaveRecord(r) \/ ForgetRecord(r) \/ FinishRun(r)
      BY <2>3, SaveRecordStep, ForgetRecordStep, FinishRunStep
    <2>4. CASE SyncByHand(r) \/ GrantRevoked(r) \/ GraphFails(r) \/ RecordFails(r) \/ RunFails(r)
      BY <2>4, SyncByHandStep, GrantRevokedStep, GraphFailsStep, RecordFailsStep, RunFailsStep
    <2>5. QED
      BY <1>4, <2>1, <2>2, <2>3, <2>4 DEF RunStep
  <1>5. CASE TokenExpires \/ Connect \/ ConnectCount \/ ConnectSave
    BY <1>5, TokenExpiresStep, ConnectStep, ConnectCountStep, ConnectSaveStep
  <1>6. CASE \E v \in BOOLEAN : ToggleAutoSync(v)
    BY <1>6, ToggleAutoSyncStep
  <1>7. CASE Disconnect \/ PurgeRecords
    BY <1>7, DisconnectStep, PurgeRecordsStep
  <1>8. CASE \E e \in outlook : DiscardEvent(e)
    BY <1>8, DiscardEventStep
  <1>9. CASE RestartSync
    BY <1>9, RestartSyncStep
  <1>10. CASE UNCHANGED syncVars
    BY <1>10, SyncPasses
  <1>11. QED
    BY <1>1, <1>2, <1>3, <1>4, <1>5, <1>6, <1>7, <1>8, <1>9, <1>10 DEF SyncNext

(* The inductive invariant holds throughout.                               *)
LEMMA SyncAlways == SyncSpec => []SyncInv
  BY SyncBegins, SyncSteps, PTL DEF SyncSpec

(* The presences, timers, runs, records, events and token stay well-typed. *)
THEOREM SyncWellTyped == SyncSpec => []SyncTypeOK
  <1>1. SyncInv => SyncTypeOK
    BY DEF SyncInv
  <1>2. QED
    BY <1>1, SyncAlways, PTL

(* SyncMonth repairs the bookkeeping: after a run that was alone from      *)
(* start to end and met no error, and until the next edit, the records     *)
(* tell what is declared, whatever failed or overlapped before.            *)
THEOREM CleanRunsRepair == SyncSpec => []CleanRunRepairs
  <1>1. SyncInv => CleanRunRepairs
    BY DEF SyncInv, NothingToDo, Tells, CleanRunRepairs
  <1>2. QED
    BY <1>1, SyncAlways, PTL

(* SyncMonth and its records lose no event of the user's calendar unless   *)
(* runs overlapped, a call or statement failed or the user disconnected.   *)
THEOREM EventsAreRemembered == SyncSpec => []NoOrphanUnlessUpset
  <1>1. SyncInv => NoOrphanUnlessUpset
    BY DEF SyncInv
  <1>2. QED
    BY <1>1, SyncAlways, PTL

(* Connecting, toggling auto-sync and disconnecting stand, whatever        *)
(* refreshes the token, but for a writer that had read the row before.     *)
THEOREM ChoicesAreKept == SyncSpec => []ChoiceKept
  <1>1. SyncInv => ChoiceKept
    BY DEF SyncInv, ChoiceCarried, ChoiceKept
  <1>2. QED
    BY <1>1, SyncAlways, PTL
=============================================================================
