---------------------------- MODULE ReportProofs ----------------------------
(***************************************************************************)
(* Theorems about what is shown of many records at once, for every number  *)
(* of them: the calendar page beside the log pages (PresencePages), the    *)
(* activity page of a team (Reports), the sites report (SitesReport) and   *)
(* the projects report (ProjectsReport); and, with the theorems of the     *)
(* other two modules, about all the services as one state machine.         *)
(***************************************************************************)
EXTENDS MCServices, AccountProofs, AdministrationProofs, FiniteSums, SequenceTheorems, TLAPS

-----------------------------------------------------------------------------
(* The newest row of a set, and the rows that a page of a log lists.       *)

Later(listed, i) == {j \in listed : j > i}

LEMMA LaterParts ==
    ASSUME NEW S, IsFiniteSet(S), NEW i
    PROVE  /\ IsFiniteSet(Later(S, i)) /\ Cardinality(Later(S, i)) \in Nat
           /\ Cardinality(Later(S, i)) <= Cardinality(S)
           /\ \A R \in SUBSET S : Cardinality(Later(R, i)) <= Cardinality(Later(S, i))
  <1>1. IsFiniteSet(Later(S, i)) /\ Cardinality(Later(S, i)) <= Cardinality(S)
    BY FS_Subset DEF Later
  <1>2. ASSUME NEW R \in SUBSET S PROVE Cardinality(Later(R, i)) <= Cardinality(Later(S, i))
    <2>1. Later(R, i) \subseteq Later(S, i)
      BY DEF Later
    <2>2. QED
      BY <1>1, <2>1, FS_Subset
  <1>3. QED
    BY <1>1, <1>2, FS_CardinalityType

Sooner(listed, i) == {j \in listed : j < i}

LEMMA Outermost ==
    ASSUME NEW S, IsFiniteSet(S), S # {}
    PROVE  /\ \E m \in S : \A j \in S : Later(S, j) \subseteq Later(S, m) => Later(S, j) = Later(S, m)
           /\ \E m \in S : \A j \in S : Sooner(S, j) \subseteq Sooner(S, m) => Sooner(S, j) = Sooner(S, m)
  <1> DEFINE T == {Later(S, i) : i \in S}
             U == {Sooner(S, i) : i \in S}
  <1>1. T \in SUBSET (SUBSET S) /\ T # {} /\ U \in SUBSET (SUBSET S) /\ U # {}
    BY DEF Later, Sooner
  <1> HIDE DEF T, U
  <1>2. PICK t \in T : \A r \in T : ~(r \subseteq t /\ r # t)
    BY <1>1, LeastSubset
  <1>3. PICK u \in U : \A r \in U : ~(r \subseteq u /\ r # u)
    BY <1>1, LeastSubset
  <1>4. PICK m \in S : t = Later(S, m)
    BY <1>2 DEF T
  <1>5. PICK n \in S : u = Sooner(S, n)
    BY <1>3 DEF U
  <1>6. \A j \in S : Later(S, j) \in T /\ Sooner(S, j) \in U
    BY DEF T, U
  <1>7. QED
    BY <1>2, <1>3, <1>4, <1>5, <1>6

LEMMA Greatest ==
    ASSUME NEW S, S \subseteq Nat, IsFiniteSet(S), S # {}
    PROVE  \E m \in S : \A j \in S : j <= m
  <1>1. PICK m \in S : \A j \in S : Later(S, j) \subseteq Later(S, m) => Later(S, j) = Later(S, m)
    BY Outermost
  <1>2. ASSUME NEW j \in S, j > m PROVE FALSE
    <2>1. /\ m \in Nat /\ j \in Nat /\ ~(j > j)
          /\ \A k \in S : k \in Nat /\ (k > j => k > m)
      BY <1>2
    <2>2. j \in Later(S, m) /\ j \notin Later(S, j) /\ Later(S, j) \subseteq Later(S, m)
      BY <1>2, <2>1 DEF Later
    <2>3. QED
      BY <1>1, <2>2
  <1>3. \A j \in S : j \in Nat /\ m \in Nat
    OBVIOUS
  <1>4. QED
    BY <1>2, <1>3

LEMMA Least ==
    ASSUME NEW S, S \subseteq Nat, IsFiniteSet(S), S # {}
    PROVE  \E m \in S : \A j \in S : m <= j
  <1>1. PICK m \in S : \A j \in S : Sooner(S, j) \subseteq Sooner(S, m) => Sooner(S, j) = Sooner(S, m)
    BY Outermost
  <1>2. ASSUME NEW j \in S, j < m PROVE FALSE
    <2>1. /\ m \in Nat /\ j \in Nat /\ ~(j < j)
          /\ \A k \in S : k \in Nat /\ (k < j => k < m)
      BY <1>2
    <2>2. j \in Sooner(S, m) /\ j \notin Sooner(S, j) /\ Sooner(S, j) \subseteq Sooner(S, m)
      BY <1>2, <2>1 DEF Sooner
    <2>3. QED
      BY <1>1, <2>2
  <1>3. \A j \in S : j \in Nat /\ m \in Nat
    OBVIOUS
  <1>4. QED
    BY <1>2, <1>3

LEMMA LatestIs ==
    ASSUME NEW S, S \subseteq Nat, IsFiniteSet(S), S # {}
    PROVE  Latest(S) \in S /\ \A j \in S : j <= Latest(S)
  BY Greatest DEF Latest

(* A page lists the newest rows, as many as it may or all there are.       *)
LEMMA ForemostParts ==
    ASSUME NEW S, S \subseteq Nat, IsFiniteSet(S)
    PROVE  /\ Foremost(S) \subseteq S /\ IsFiniteSet(Foremost(S))
           /\ \A i \in Foremost(S), j \in S : j > i => j \in Foremost(S)
           /\ Cardinality(Foremost(S)) =
                 IF Cardinality(S) < LogLimit THEN Cardinality(S) ELSE LogLimit
           /\ Cardinality(Foremost(S)) < LogLimit => Foremost(S) = S
  <1> DEFINE F == Foremost(S)
  <1>0. LogLimit \in Nat /\ LogLimit > 0
    BY PresencePagesAssumption
  <1>1. F = {i \in S : Cardinality(Later(S, i)) < LogLimit} /\ F \subseteq S
    BY DEF Foremost, Later
  <1>2. IsFiniteSet(F) /\ Cardinality(F) \in Nat /\ Cardinality(S) \in Nat
        /\ Cardinality(F) <= Cardinality(S)
    BY <1>1, FS_Subset, FS_CardinalityType
  <1> HIDE DEF F
  <1>3. ASSUME NEW i \in F, NEW j \in S, j > i PROVE j \in F
    <2>1. /\ i \in Nat /\ j \in Nat
          /\ \A k \in S : k \in Nat /\ (k > j => k > i)
      BY <1>1, <1>3
    <2>2. Later(S, j) \subseteq Later(S, i)
      BY <2>1 DEF Later
    <2>3. /\ Cardinality(Later(S, j)) <= Cardinality(Later(S, i))
          /\ Cardinality(Later(S, j)) \in Nat /\ Cardinality(Later(S, i)) \in Nat
      BY <2>2, LaterParts, FS_Subset
    <2>4. QED
      BY <1>0, <1>1, <1>3, <2>3
  <1>4. ASSUME Cardinality(F) < LogLimit PROVE F = S
    <2>1. SUFFICES ASSUME S \ F # {} PROVE FALSE
      BY <1>1
    <2>2. S \ F \in SUBSET Nat /\ IsFiniteSet(S \ F)
      BY FS_Subset
    <2>3. PICK m \in S \ F : \A j \in S \ F : j <= m
      BY <2>1, <2>2, Greatest
    <2>4. Later(S, m) \subseteq F
      BY <2>2, <2>3 DEF Later
    <2>5. Cardinality(Later(S, m)) <= Cardinality(F) /\ Cardinality(Later(S, m)) \in Nat
      BY <1>2, <2>4, LaterParts, FS_Subset
    <2>6. ~(Cardinality(Later(S, m)) < LogLimit)
      BY <1>1, <2>3
    <2>7. QED
      BY <1>0, <1>2, <1>4, <2>5, <2>6
  <1>5. Cardinality(F) <= LogLimit
    <2>1. CASE F = {}
      BY <1>0, <2>1, FS_EmptySet
    <2>2. CASE F # {}
      <3>1. PICK m \in F : \A j \in F : m <= j
        BY <1>1, <1>2, <2>2, Least
      <3>2. \A k \in F \ {m} : k \in S /\ k \in Nat /\ m \in Nat /\ m <= k /\ k # m
        BY <1>1, <3>1
      <3>3. \A k \in F \ {m} : k \in S /\ k > m
        BY <3>2
      <3>4. F \ {m} \subseteq Later(S, m)
        BY <3>3 DEF Later
      <3>5. Cardinality(F \ {m}) = Cardinality(F) - 1 /\ Cardinality(F \ {m}) \in Nat
        BY <1>2, <3>1, FS_RemoveElement, FS_CardinalityType
      <3>6. /\ Cardinality(F \ {m}) <= Cardinality(Later(S, m))
            /\ Cardinality(Later(S, m)) \in Nat
        BY <3>4, LaterParts, FS_Subset
      <3>7. Cardinality(Later(S, m)) < LogLimit
        BY <1>1, <3>1
      <3>8. QED
        BY <1>0, <1>2, <3>5, <3>6, <3>7
    <2>3. QED
      BY <2>1, <2>2
  <1>6. ASSUME Cardinality(S) < LogLimit PROVE F = S
    BY <1>0, <1>2, <1>4, <1>6
  <1>7. Cardinality(F) = IF Cardinality(S) < LogLimit THEN Cardinality(S) ELSE LogLimit
    BY <1>0, <1>2, <1>4, <1>5, <1>6
  <1>8. QED
    BY <1>1, <1>2, <1>3, <1>4, <1>7 DEF F

-----------------------------------------------------------------------------
(* What the log holds, and what a page has read.                           *)

(* Times follow ids.                                                       *)
LogOrdered ==
    \A i, j \in DOMAIN logbook :
        /\ i <= j => logbook[i].at <= logbook[j].at
        /\ logbook[i].at <= second

(* The mark of a date as it is now.                                        *)
Override(p, d) ==
    IF LogRowsOf(p, d) # {} THEN OverrideOf(logbook[Latest(LogRowsOf(p, d))]) ELSE NoMark

OwnMarksRead == {"lock", "team", "members", "cells", "memberMarks", "locks", "shown"}
MembersRead == {"cells", "memberMarks", "locks", "shown"}

NotCrossed(p, d) == <<p, d>> \notin view.crossed

(* What a page has read of a date that was not touched since is still so.  *)
ViewCurrent ==
    view # NoView /\ ~view.blind =>
        /\ \A d \in CalendarDates : NotCrossed(Viewer, d) =>
              /\ view.own[d] = cell[Viewer][d]
              /\ view.step \in OwnMarksRead => view.ownMarks[d] = Override(Viewer, d)
        /\ view.step \in OwnMarksRead \ {"lock"} /\ NotCrossed(Viewer, TheMonth)
              => (view.ownLock <=> Viewer \in ratified)
        /\ view.step \notin MembersRead => view.members = {}
        /\ \A p \in view.members, d \in CalendarDates : NotCrossed(p, d) =>
              /\ p \in MembersOfMonth
              /\ view.step \in MembersRead \ {"cells"} => view.cells[p][d] = cell[p][d]
              /\ view.step \in {"locks", "shown"} => view.marks[p][d] = Override(p, d)
        /\ view.step = "shown" =>
              \A p \in view.members : NotCrossed(p, TheMonth) => (p \in view.locks <=> p \in ratified)

PagesInv == PresencePagesTypeOK /\ LogOrdered /\ ViewCurrent

LEMMA InitPages == PresencePagesInit => PagesInv
  BY PresencePagesAssumption
  DEF PresencePagesInit, PagesInv, PresencePagesTypeOK, LogOrdered, ViewCurrent, Cells,
      NotPending, Membership

LEMMA LogRowsParts ==
    ASSUME PresencePagesTypeOK
    PROVE  /\ DOMAIN logbook \subseteq Nat /\ IsFiniteSet(DOMAIN logbook)
           /\ DOMAIN logbook = 1 .. Len(logbook) /\ Len(logbook) \in Nat
           /\ \A i \in DOMAIN logbook : logbook[i] \in LogRow
           /\ \A p, d : LogRowsOf(p, d) \subseteq DOMAIN logbook
           /\ \A p, d : LogRowsOf(p, d) # {} =>
                 /\ Latest(LogRowsOf(p, d)) \in LogRowsOf(p, d)
                 /\ \A j \in LogRowsOf(p, d) : j <= Latest(LogRowsOf(p, d))
  <1>1. logbook \in Seq(LogRow)
    BY DEF PresencePagesTypeOK
  <1>2. /\ DOMAIN logbook = 1 .. Len(logbook) /\ Len(logbook) \in Nat
        /\ \A i \in DOMAIN logbook : logbook[i] \in LogRow
    BY <1>1
  <1>3. IsFiniteSet(DOMAIN logbook)
    BY <1>2, FS_Interval
  <1>4. DOMAIN logbook \subseteq Nat
    BY <1>2
  <1>5. ASSUME NEW p, NEW d
        PROVE  /\ LogRowsOf(p, d) \subseteq DOMAIN logbook
               /\ LogRowsOf(p, d) # {} =>
                     /\ Latest(LogRowsOf(p, d)) \in LogRowsOf(p, d)
                     /\ \A j \in LogRowsOf(p, d) : j <= Latest(LogRowsOf(p, d))
    <2>1. LogRowsOf(p, d) \subseteq DOMAIN logbook
      BY DEF LogRowsOf
    <2>2. LogRowsOf(p, d) \subseteq Nat /\ IsFiniteSet(LogRowsOf(p, d))
      BY <1>3, <1>4, <2>1, FS_Subset
    <2>3. QED
      BY <2>1, <2>2, LatestIs
  <1>6. QED
    BY <1>2, <1>3, <1>4, <1>5

LEMMA OverridesTyped ==
    ASSUME PresencePagesTypeOK, NEW people
    PROVE  /\ GetPresenceOverrides(people) \in [Colleagues -> MarksOfDates]
           /\ GetPresences(people) \in [Colleagues -> Cells]
           /\ \A p \in Colleagues, d \in CalendarDates : p \in people =>
                 /\ GetPresenceOverrides(people)[p][d] = Override(p, d)
                 /\ GetPresences(people)[p][d] = cell[p][d]
  <1>1. ASSUME NEW p \in Colleagues, NEW d \in CalendarDates
        PROVE  Override(p, d) \in Marked \cup {NoMark}
    <2>1. CASE LogRowsOf(p, d) = {}
      BY <2>1 DEF Override
    <2>2. CASE LogRowsOf(p, d) # {}
      <3>1. logbook[Latest(LogRowsOf(p, d))] \in LogRow
        BY <2>2, LogRowsParts
      <3>2. OverrideOf(logbook[Latest(LogRowsOf(p, d))]) \in Marked \cup {NoMark}
        BY <3>1 DEF OverrideOf, LogRow, Marked
      <3>3. QED
        BY <2>2, <3>2 DEF Override
    <2>3. QED
      BY <2>1, <2>2
  <1>2. GetPresenceOverrides(people)
          = [p \in Colleagues |-> [d \in CalendarDates |->
                IF p \in people THEN Override(p, d) ELSE NoMark]]
    BY DEF GetPresenceOverrides, Override
  <1>3. GetPresenceOverrides(people) \in [Colleagues -> MarksOfDates]
    BY <1>1, <1>2 DEF MarksOfDates
  <1>4. cell \in [Colleagues -> Cells] /\ [d \in CalendarDates |-> "none"] \in Cells
    BY DEF PresencePagesTypeOK, Cells
  <1>5. GetPresences(people) \in [Colleagues -> Cells]
    BY <1>4 DEF GetPresences
  <1>6. QED
    BY <1>2, <1>3, <1>5 DEF GetPresences

-----------------------------------------------------------------------------
(* Edits beside the page.                                                  *)

(* Other dates keep their marks when a row is added.                       *)
LEMMA AppendKeeps ==
    ASSUME PresencePagesTypeOK, NEW row \in LogRow, logbook' = Append(logbook, row),
           NEW p \in Colleagues, NEW d \in CalendarDates, <<p, d>> # <<row.user, row.date>>
    PROVE  Override(p, d)' = Override(p, d)
  <1>1. /\ DOMAIN logbook' = 1 .. Len(logbook) + 1 /\ DOMAIN logbook = 1 .. Len(logbook)
        /\ Len(logbook) \in Nat
        /\ \A i \in DOMAIN logbook : logbook'[i] = logbook[i]
        /\ logbook'[Len(logbook) + 1] = row
    BY DEF PresencePagesTypeOK
  <1>2. LogRowsOf(p, d)' = LogRowsOf(p, d)
    <2>1. \A i : i \in DOMAIN logbook' <=> i \in DOMAIN logbook \/ i = Len(logbook) + 1
      BY <1>1
    <2>2. QED
      BY <1>1, <2>1 DEF LogRowsOf
  <1>3. \A i \in LogRowsOf(p, d) : logbook'[i] = logbook[i]
    BY <1>1 DEF LogRowsOf
  <1>4. CASE LogRowsOf(p, d) = {}
    BY <1>2, <1>4 DEF Override
  <1>5. CASE LogRowsOf(p, d) # {}
    <2>1. Latest(LogRowsOf(p, d)) \in LogRowsOf(p, d)
      BY <1>5, LogRowsParts
    <2>2. logbook'[Latest(LogRowsOf(p, d))] = logbook[Latest(LogRowsOf(p, d))]
      BY <1>3, <2>1
    <2>3. Override(p, d)' = OverrideOf(logbook'[Latest(LogRowsOf(p, d))])
      BY <1>2, <1>5 DEF Override, OverrideOf, Latest
    <2>4. QED
      BY <1>5, <2>2, <2>3 DEF Override
  <1>6. QED
    BY <1>4, <1>5

LEMMA AppendOrdered ==
    ASSUME PresencePagesTypeOK, LogOrdered, NEW row \in LogRow, row.at = second,
           logbook' = Append(logbook, row), second' = second
    PROVE  logbook' \in Seq(LogRow) /\ LogOrdered'
  <1>1. /\ DOMAIN logbook' = 1 .. Len(logbook) + 1 /\ DOMAIN logbook = 1 .. Len(logbook)
        /\ Len(logbook) \in Nat /\ logbook' \in Seq(LogRow)
        /\ \A i \in DOMAIN logbook : logbook'[i] = logbook[i]
        /\ logbook'[Len(logbook) + 1] = row
    BY DEF PresencePagesTypeOK
  <1>2. \A i \in DOMAIN logbook : logbook[i].at \in Nat /\ logbook[i].at <= second
    BY LogRowsParts DEF LogOrdered, LogRow
  <1>3. second \in Nat
    BY DEF PresencePagesTypeOK
  <1>4. ASSUME NEW i \in DOMAIN logbook', NEW j \in DOMAIN logbook'
        PROVE  /\ i <= j => logbook'[i].at <= logbook'[j].at
               /\ logbook'[i].at <= second'
    <2>1. i \in DOMAIN logbook \/ i = Len(logbook) + 1
      BY <1>1
    <2>2. j \in DOMAIN logbook \/ j = Len(logbook) + 1
      BY <1>1
    <2>3. CASE i \in DOMAIN logbook /\ j \in DOMAIN logbook
      BY <1>1, <1>2, <2>3 DEF LogOrdered
    <2>4. CASE i \in DOMAIN logbook /\ j = Len(logbook) + 1
      BY <1>1, <1>2, <2>4
    <2>5. CASE i = Len(logbook) + 1
      <3>1. i <= j => j = i
        BY <1>1, <2>2, <2>5
      <3>2. logbook'[i].at = second
        BY <1>1, <2>5
      <3>3. QED
        BY <1>3, <3>1, <3>2
    <2>6. QED
      BY <2>1, <2>2, <2>3, <2>4, <2>5
  <1>5. QED
    BY <1>1, <1>4 DEF LogOrdered

(* An edit that crosses all it touches leaves what was read current.       *)
LEMMA CrossedKeeps ==
    ASSUME PresencePagesTypeOK, ViewCurrent,
           NEW what, what \subseteq Colleagues \X (CalendarDates \cup {TheMonth}),
           view' = Crossed(what),
           \A p \in Colleagues, d \in CalendarDates : <<p, d>> \notin what =>
               /\ cell'[p][d] = cell[p][d] /\ Override(p, d)' = Override(p, d)
               /\ p \in MembersOfMonth => p \in MembersOfMonth',
           \A p \in Colleagues : <<p, TheMonth>> \notin what => (p \in ratified' <=> p \in ratified)
    PROVE  view' \in View \cup {NoView} /\ ViewCurrent'
  <1>0. view \in View \cup {NoView}
    BY DEF PresencePagesTypeOK
  <1>1. CASE view = NoView
    <2>1. view' = NoView
      BY <1>1 DEF Crossed
    <2>2. QED
      BY <2>1 DEF ViewCurrent
  <1>2. CASE view # NoView
    <2>1. view \in View /\ view' = [view EXCEPT !.crossed = @ \cup what]
      BY <1>0, <1>2 DEF Crossed
    <2>2. /\ view' \in View /\ view'.step = view.step /\ view'.own = view.own
          /\ view'.ownMarks = view.ownMarks /\ view'.ownLock = view.ownLock
          /\ view'.members = view.members /\ view'.cells = view.cells /\ view'.marks = view.marks
          /\ view'.locks = view.locks /\ view'.blind = view.blind
          /\ view'.crossed = view.crossed \cup what
      BY <2>1 DEF View
    <2>3. \A p, d : NotCrossed(p, d)' => NotCrossed(p, d) /\ <<p, d>> \notin what
      BY <2>2 DEF NotCrossed
    <2>4. view.members \subseteq Colleagues /\ Viewer \in Colleagues
      BY <2>1, PresencePagesAssumption DEF View
    <2>5. SUFFICES ASSUME ~view.blind PROVE ViewCurrent'
      BY <2>2 DEF ViewCurrent
    <2>6. \A d \in CalendarDates : NotCrossed(Viewer, d)' =>
              /\ view'.own[d] = cell'[Viewer][d]
              /\ view'.step \in OwnMarksRead => view'.ownMarks[d] = Override(Viewer, d)'
      BY <1>2, <2>2, <2>3, <2>4, <2>5 DEF ViewCurrent
    <2>7. view'.step \in OwnMarksRead \ {"lock"} /\ NotCrossed(Viewer, TheMonth)'
              => (view'.ownLock <=> Viewer \in ratified')
      BY <1>2, <2>2, <2>3, <2>4, <2>5 DEF ViewCurrent
    <2>8. view'.step \notin MembersRead => view'.members = {}
      BY <1>2, <2>2, <2>5 DEF ViewCurrent
    <2>9. ASSUME NEW p \in view'.members, NEW d \in CalendarDates, NotCrossed(p, d)'
          PROVE  /\ p \in MembersOfMonth'
                 /\ view'.step \in MembersRead \ {"cells"} => view'.cells[p][d] = cell'[p][d]
                 /\ view'.step \in {"locks", "shown"} => view'.marks[p][d] = Override(p, d)'
      <3>1. p \in view.members /\ p \in Colleagues /\ NotCrossed(p, d) /\ <<p, d>> \notin what
        BY <2>2, <2>3, <2>4, <2>9
      <3>2. QED
        BY <1>2, <2>2, <2>5, <3>1 DEF ViewCurrent
    <2>10. view'.step = "shown" =>
              \A p \in view'.members : NotCrossed(p, TheMonth)' => (p \in view'.locks <=> p \in ratified')
      BY <1>2, <2>2, <2>3, <2>4, <2>5 DEF ViewCurrent
    <2>11. QED
      BY <2>2, <2>6, <2>7, <2>8, <2>9, <2>10 DEF ViewCurrent
  <1>3. QED
    BY <1>1, <1>2

LEMMA SameOverride ==
    ASSUME UNCHANGED logbook, NEW p, NEW d
    PROVE  Override(p, d)' = Override(p, d)
  BY DEF Override, LogRowsOf, OverrideOf, Latest

LEMMA EditSteps ==
    ASSUME PagesInv,
           \/ \E a, p \in Colleagues, d \in CalendarDates, s \in StatusNames \cup {"none"} :
                 EditPresence(a, p, d, s)
           \/ \E a \in Colleagues : LogEdit(a)
           \/ \E p \in Colleagues : Ratify(p) \/ Unratify(p)
           \/ \E p \in Colleagues, x \in Membership : EditRoster(p, x)
    PROVE  PagesInv'
  <1> USE DEF PagesInv
  <1>0. pageEvents' \in 0 .. MaxPageEvents
    <2>1. pageEvents \in 0 .. MaxPageEvents /\ (PageEvent => pageEvents' \in 0 .. MaxPageEvents)
      BY PresencePagesAssumption DEF PresencePagesTypeOK, PageEvent
    <2>2. PageEvent \/ pageEvents' = pageEvents
      BY Zenon DEF EditPresence, LogEdit, Ratify, Unratify, EditRoster
    <2>3. QED
      BY <2>1, <2>2
  <1>1. ASSUME NEW a \in Colleagues, NEW p \in Colleagues, NEW d \in CalendarDates,
               NEW s \in StatusNames \cup {"none"}, EditPresence(a, p, d, s)
        PROVE  PagesInv'
    <2>1. /\ cell' = [cell EXCEPT ![p][d] = s] /\ view' = Crossed({<<p, d>>})
          /\ UNCHANGED <<logbook, second, roster, ratified>>
          /\ pending' = [pending EXCEPT ![a] =
                [user |-> p, actor |-> a, date |-> d,
                 action |-> IF s = "none" THEN "clear" ELSE "set"]]
      BY <1>1 DEF EditPresence
    <2>2. cell \in [Colleagues -> Cells] /\ cell' \in [Colleagues -> Cells]
      BY <2>1 DEF PresencePagesTypeOK, Cells
    <2>3. \A q \in Colleagues, e \in CalendarDates : <<q, e>> \notin {<<p, d>>} =>
              cell'[q][e] = cell[q][e]
      BY <2>1, <2>2 DEF Cells
    <2>4. view' \in View \cup {NoView} /\ ViewCurrent'
      <3>1. {<<p, d>>} \subseteq Colleagues \X (CalendarDates \cup {TheMonth})
        OBVIOUS
      <3>2. \A q \in Colleagues : q \in MembersOfMonth => q \in MembersOfMonth'
        BY <2>1 DEF MembersOfMonth
      <3>3. \A q \in Colleagues, e \in CalendarDates : Override(q, e)' = Override(q, e)
        BY <2>1, SameOverride
      <3>4. QED
        BY <2>1, <2>3, <3>1, <3>2, <3>3, CrossedKeeps
    <2>5. pending' \in [Colleagues -> Awaited \cup {NotPending}]
      BY <2>1 DEF PresencePagesTypeOK, Awaited
    <2>6. QED
      BY <1>0, <2>1, <2>2, <2>4, <2>5 DEF PresencePagesTypeOK, LogOrdered
  <1>2. ASSUME NEW a \in Colleagues, LogEdit(a)
        PROVE  PagesInv'
    <2> DEFINE row == [user |-> pending[a].user, actor |-> a, date |-> pending[a].date,
                       action |-> pending[a].action, at |-> second]
               w == <<pending[a].user, pending[a].date>>
    <2>1. /\ logbook' = Append(logbook, row) /\ view' = Crossed({w})
          /\ pending' = [pending EXCEPT ![a] = NotPending]
          /\ UNCHANGED <<cell, second, roster, ratified, pageEvents>>
      BY <1>2 DEF LogEdit
    <2>2. pending[a] \in Awaited /\ second \in 1 .. MaxSeconds
      BY <1>2 DEF LogEdit, PresencePagesTypeOK
    <2>3. row \in LogRow /\ row.at = second /\ row.user = pending[a].user /\ row.date = pending[a].date
      BY <2>2 DEF LogRow, Awaited
    <2>4. w \in Colleagues \X CalendarDates
      BY <2>2 DEF Awaited
    <2> HIDE DEF row
    <2>5. logbook' \in Seq(LogRow) /\ LogOrdered'
      BY <2>1, <2>3, AppendOrdered
    <2>6. \A q \in Colleagues, e \in CalendarDates : <<q, e>> \notin {w} =>
              Override(q, e)' = Override(q, e)
      BY <2>1, <2>3, AppendKeeps
    <2> HIDE DEF w
    <2>7. view' \in View \cup {NoView} /\ ViewCurrent'
      <3>1. {w} \subseteq Colleagues \X (CalendarDates \cup {TheMonth})
        BY <2>4
      <3>2. \A q \in Colleagues : q \in MembersOfMonth => q \in MembersOfMonth'
        BY <2>1 DEF MembersOfMonth
      <3>3. QED
        BY <2>1, <2>6, <3>1, <3>2, CrossedKeeps
    <2>8. pending' \in [Colleagues -> Awaited \cup {NotPending}]
      BY <2>1 DEF PresencePagesTypeOK
    <2>9. QED
      BY <1>0, <2>1, <2>5, <2>7, <2>8 DEF PresencePagesTypeOK
  <1>3. ASSUME NEW p \in Colleagues, Ratify(p) \/ Unratify(p)
        PROVE  PagesInv'
    <2>1. /\ view' = Crossed({<<p, TheMonth>>})
          /\ UNCHANGED <<cell, logbook, second, pending, roster>>
          /\ ratified' = ratified \cup {p} \/ ratified' = ratified \ {p}
      BY <1>3 DEF Ratify, Unratify
    <2>2. ratified' \subseteq Colleagues
      BY <2>1 DEF PresencePagesTypeOK
    <2>3. view' \in View \cup {NoView} /\ ViewCurrent'
      <3>1. {<<p, TheMonth>>} \subseteq Colleagues \X (CalendarDates \cup {TheMonth})
        OBVIOUS
      <3>2. \A q \in Colleagues : q \in MembersOfMonth => q \in MembersOfMonth'
        BY <2>1 DEF MembersOfMonth
      <3>3. \A q \in Colleagues, e \in CalendarDates : Override(q, e)' = Override(q, e)
        BY <2>1, SameOverride
      <3>4. \A q \in Colleagues : <<q, TheMonth>> \notin {<<p, TheMonth>>} =>
                (q \in ratified' <=> q \in ratified)
        BY <2>1
      <3>5. QED
        BY <2>1, <3>1, <3>2, <3>3, <3>4, CrossedKeeps
    <2>4. QED
      BY <1>0, <2>1, <2>2, <2>3 DEF PresencePagesTypeOK, LogOrdered
  <1>4. ASSUME NEW p \in Colleagues, NEW x \in Membership, EditRoster(p, x)
        PROVE  PagesInv'
    <2> DEFINE what == {p} \X (CalendarDates \cup {TheMonth})
    <2>1. /\ view' = Crossed(what) /\ roster' = [roster EXCEPT ![p] = x]
          /\ UNCHANGED <<cell, logbook, second, pending, ratified>>
      BY <1>4 DEF EditRoster
    <2>2. roster \in [Colleagues -> Membership] /\ roster' \in [Colleagues -> Membership]
      BY <2>1 DEF PresencePagesTypeOK
    <2>3. view' \in View \cup {NoView} /\ ViewCurrent'
      <3>1. what \subseteq Colleagues \X (CalendarDates \cup {TheMonth})
        OBVIOUS
      <3>2. \A q \in Colleagues, e \in CalendarDates : <<q, e>> \notin what => q # p
        OBVIOUS
      <3> HIDE DEF what
      <3>3. \A q \in Colleagues, e \in CalendarDates : <<q, e>> \notin what =>
                (q \in MembersOfMonth => q \in MembersOfMonth')
        BY <2>1, <2>2, <3>2 DEF MembersOfMonth
      <3>4. \A q \in Colleagues, e \in CalendarDates : Override(q, e)' = Override(q, e)
        BY <2>1, SameOverride
      <3>5. QED
        BY <2>1, <3>1, <3>3, <3>4, CrossedKeeps
    <2>4. QED
      BY <1>0, <2>1, <2>2, <2>3 DEF PresencePagesTypeOK, LogOrdered
  <1>5. QED
    BY <1>1, <1>2, <1>3, <1>4

(* Nothing that a page reads changes with the clock or a lost log row.     *)
LEMMA QuietSteps ==
    ASSUME PagesInv,
           SecondPasses \/ (\E a \in Colleagues : LogFails(a)) \/ UNCHANGED pagesVars
    PROVE  PagesInv'
  <1> USE DEF PagesInv
  <1>1. /\ UNCHANGED <<cell, logbook, roster, ratified, view>>
        /\ second' \in 1 .. MaxSeconds /\ second <= second'
        /\ pending' \in [Colleagues -> Awaited \cup {NotPending}]
        /\ pageEvents' \in 0 .. MaxPageEvents
    BY PresencePagesAssumption
    DEF SecondPasses, LogFails, pagesVars, PresencePagesTypeOK, PageEvent
  <1>2. LogOrdered'
    <2>1. \A i \in DOMAIN logbook : logbook[i].at \in Nat /\ logbook[i].at <= second
      BY LogRowsParts DEF LogOrdered, LogRow
    <2>2. second \in Nat /\ second' \in Nat
      BY <1>1 DEF PresencePagesTypeOK
    <2>3. QED
      BY <1>1, <2>1, <2>2 DEF LogOrdered
  <1>3. ViewCurrent'
    <2>1. MembersOfMonth' = MembersOfMonth /\ \A p, d : Override(p, d)' = Override(p, d)
      BY <1>1, SameOverride DEF MembersOfMonth
    <2>2. \A p, d : NotCrossed(p, d)' <=> NotCrossed(p, d)
      BY <1>1 DEF NotCrossed
    <2>3. QED
      BY <1>1, <2>1, <2>2 DEF ViewCurrent
  <1>4. QED
    BY <1>1, <1>2, <1>3 DEF PresencePagesTypeOK

-----------------------------------------------------------------------------
(* The queries of the page.                                                *)

LEMMA ReadsKeep ==
    ASSUME PagesInv, PageReads, view' \in View \cup {NoView}
    PROVE  /\ PresencePagesTypeOK' /\ LogOrdered'
           /\ MembersOfMonth' = MembersOfMonth /\ \A p, d : Override(p, d)' = Override(p, d)
  <1>1. UNCHANGED <<cell, logbook, second, pending, roster, ratified, pageEvents>>
    BY DEF PageReads
  <1>2. QED
    BY <1>1, SameOverride DEF PagesInv, PresencePagesTypeOK, LogOrdered, MembersOfMonth

LEMMA BeginStep == ASSUME PagesInv, CalendarPage PROVE PagesInv'
  <1> DEFINE v == [step |-> "marks", own |-> GetPresences({Viewer})[Viewer],
                   ownMarks |-> GetPresenceOverrides({})[Viewer], ownLock |-> FALSE, members |-> {},
                   cells |-> GetPresences({}), marks |-> GetPresenceOverrides({}), locks |-> {},
                   crossed |-> {}, blind |-> FALSE]
  <1>1. view' = v /\ PageReads
    BY DEF CalendarPage
  <1>2. PresencePagesTypeOK /\ Viewer \in Colleagues
    BY PresencePagesAssumption DEF PagesInv
  <1>3. v \in View
    <2>1. /\ GetPresences({Viewer})[Viewer] \in Cells
          /\ GetPresenceOverrides({})[Viewer] \in MarksOfDates
          /\ GetPresences({}) \in [Colleagues -> Cells]
          /\ GetPresenceOverrides({}) \in [Colleagues -> MarksOfDates]
      BY <1>2, OverridesTyped
    <2>2. QED
      BY <2>1 DEF View
  <1>4. /\ v.step = "marks" /\ v.members = {}
        /\ \A d \in CalendarDates : v.own[d] = cell[Viewer][d]
    BY <1>2, OverridesTyped
  <1> HIDE DEF v
  <1>5. PresencePagesTypeOK' /\ LogOrdered' /\ cell' = cell
    BY <1>1, <1>3, ReadsKeep DEF PageReads
  <1>6. ViewCurrent'
    BY <1>1, <1>4, <1>5 DEF ViewCurrent, OwnMarksRead, MembersRead
  <1>7. QED
    BY <1>5, <1>6 DEF PagesInv

(* A query answered adds to the page what is there now; one that failed    *)
(* leaves the page blind.                                                  *)
LEMMA MissedStep ==
    ASSUME PagesInv, NEW step, step # "none", NEW next,
           next \in {"lock", "team", "members", "shown", "cells", "memberMarks", "locks"},
           Missed(step, next)
    PROVE  PagesInv'
  <1>1. /\ view.step = step /\ view' = [view EXCEPT !.step = next, !.blind = TRUE]
        /\ UNCHANGED <<cell, logbook, second, pending, roster, ratified>> /\ PageEvent
    BY DEF Missed
  <1>2. view \in View
    BY <1>1 DEF PagesInv, PresencePagesTypeOK, NoView
  <1>3. view' \in View /\ view'.blind
    BY <1>1, <1>2 DEF View
  <1>4. pageEvents' \in 0 .. MaxPageEvents
    BY <1>1, PresencePagesAssumption DEF PageEvent, PagesInv, PresencePagesTypeOK
  <1>5. QED
    BY <1>1, <1>3, <1>4 DEF PagesInv, PresencePagesTypeOK, LogOrdered, ViewCurrent

Steps == {"marks", "lock", "team", "members", "cells", "memberMarks", "locks", "shown"}

(* What a page has read and what it reads now.                             *)
LEMMA FilledParts ==
    ASSUME PagesInv, NEW step \in Steps, NEW next \in Steps, NEW v \in View,
           Fill(step, next, v), v.crossed = view.crossed, v.blind = view.blind, v.own = view.own
    PROVE  /\ view \in View /\ view.step = step /\ PageReads
           /\ view' \in View /\ view'.step = next /\ view'.own = view.own
           /\ view'.ownMarks = v.ownMarks /\ view'.ownLock = v.ownLock /\ view'.members = v.members
           /\ view'.cells = v.cells /\ view'.marks = v.marks /\ view'.locks = v.locks
           /\ view'.crossed = view.crossed /\ view'.blind = view.blind
  <1>1. view.step = step /\ view' = [v EXCEPT !.step = next] /\ PageReads
    BY DEF Fill
  <1>2. view \in View
    BY <1>1 DEF PagesInv, PresencePagesTypeOK, NoView, Steps
  <1>3. QED
    BY <1>1, <1>2 DEF View, Steps

LEMMA FilledStep ==
    ASSUME PagesInv, NEW step \in Steps \ {"shown"}, NEW next \in Steps, NEW v \in View,
           Fill(step, next, v), v.crossed = view.crossed, v.blind = view.blind, v.own = view.own,
           \/ step = "marks" /\ next = "lock"
           \/ step = "lock" /\ next = "team"
           \/ step = "team" /\ next \in {"members", "shown"}
           \/ step = "members" /\ next \in {"cells", "shown"}
           \/ step = "cells" /\ next = "memberMarks"
           \/ step = "memberMarks" /\ next = "locks"
           \/ step = "locks" /\ next = "shown",
           IF step = "marks" THEN v.ownMarks = GetPresenceOverrides({Viewer})[Viewer]
                             ELSE v.ownMarks = view.ownMarks,
           IF step = "lock" THEN v.ownLock <=> Viewer \in ratified ELSE v.ownLock = view.ownLock,
           IF step = "members" THEN v.members = MembersOfMonth /\ (next = "shown" => v.members = {})
                               ELSE v.members = view.members,
           IF step = "cells" THEN v.cells = GetPresences(view.members) ELSE v.cells = view.cells,
           IF step = "memberMarks" THEN v.marks = GetPresenceOverrides(view.members)
                                   ELSE v.marks = view.marks,
           IF step = "locks" THEN v.locks = ratified \cap view.members ELSE v.locks = view.locks
    PROVE  PagesInv'
  <1>1. /\ view \in View /\ view.step = step /\ PageReads
        /\ view' \in View /\ view'.step = next /\ view'.own = view.own
        /\ view'.ownMarks = v.ownMarks /\ view'.ownLock = v.ownLock /\ view'.members = v.members
        /\ view'.cells = v.cells /\ view'.marks = v.marks /\ view'.locks = v.locks
        /\ view'.crossed = view.crossed /\ view'.blind = view.blind
    BY FilledParts
  <1>2. /\ PresencePagesTypeOK' /\ LogOrdered'
        /\ MembersOfMonth' = MembersOfMonth /\ \A p, d : Override(p, d)' = Override(p, d)
        /\ cell' = cell /\ ratified' = ratified
    BY <1>1, ReadsKeep DEF PageReads
  <1>3. PresencePagesTypeOK /\ Viewer \in Colleagues /\ view # NoView
        /\ view.members \subseteq Colleagues /\ MembersOfMonth \subseteq Colleagues
    BY <1>1, PresencePagesAssumption DEF PagesInv, View, NoView, MembersOfMonth, Steps
  <1>4. \A p, d : NotCrossed(p, d)' <=> NotCrossed(p, d)
    BY <1>1 DEF NotCrossed
  <1>5. SUFFICES ASSUME ~view.blind PROVE ViewCurrent'
    BY <1>1, <1>2 DEF PagesInv, ViewCurrent
  <1>6. ViewCurrent
    BY DEF PagesInv
  <1>7. ASSUME NEW d \in CalendarDates, NotCrossed(Viewer, d)
        PROVE  /\ view'.own[d] = cell'[Viewer][d]
               /\ view'.step \in OwnMarksRead => view'.ownMarks[d] = Override(Viewer, d)'
    <2>1. GetPresenceOverrides({Viewer})[Viewer][d] = Override(Viewer, d)
      BY <1>3, OverridesTyped
    <2>2. CASE step = "marks"
      BY <1>1, <1>2, <1>3, <1>5, <1>6, <1>7, <2>1, <2>2 DEF ViewCurrent
    <2>3. CASE step # "marks"
      <3>1. step \in OwnMarksRead
        BY <2>3 DEF Steps, OwnMarksRead
      <3>2. QED
        BY <1>1, <1>2, <1>3, <1>5, <1>6, <1>7, <2>3, <3>1 DEF ViewCurrent
    <2>4. QED
      BY <2>2, <2>3
  <1>8. ASSUME view'.step \in OwnMarksRead \ {"lock"}, NotCrossed(Viewer, TheMonth)
        PROVE  view'.ownLock <=> Viewer \in ratified'
    <2>1. CASE step = "lock"
      BY <1>1, <1>2, <2>1
    <2>2. CASE step # "lock"
      <3>1. step \in OwnMarksRead \ {"lock"}
        BY <1>1, <1>8, <2>2 DEF Steps, OwnMarksRead
      <3>2. view.ownLock <=> Viewer \in ratified
        BY <1>1, <1>3, <1>5, <1>6, <1>8, <3>1 DEF ViewCurrent
      <3>3. QED
        BY <1>1, <1>2, <2>2, <3>2
    <2>3. QED
      BY <2>1, <2>2
  <1>9. view'.step \notin MembersRead => view'.members = {}
    <2>1. next \notin MembersRead => step \notin MembersRead /\ step # "members"
      BY DEF MembersRead, Steps
    <2>2. QED
      BY <1>1, <1>3, <1>5, <1>6, <2>1 DEF ViewCurrent
  <1>10. ASSUME NEW p \in view'.members, NEW d \in CalendarDates, NotCrossed(p, d)
         PROVE  /\ p \in MembersOfMonth'
                /\ view'.step \in MembersRead \ {"cells"} => view'.cells[p][d] = cell'[p][d]
                /\ view'.step \in {"locks", "shown"} => view'.marks[p][d] = Override(p, d)'
    <2>1. CASE step = "members"
      <3>1. p \in MembersOfMonth /\ next = "cells"
        BY <1>1, <1>10, <2>1
      <3>2. QED
        BY <1>1, <1>2, <3>1
    <2>2. CASE step # "members"
      <3>1. p \in view.members /\ p \in Colleagues /\ p \in MembersOfMonth
        BY <1>1, <1>3, <1>5, <1>6, <1>10, <2>2 DEF ViewCurrent
      <3>2. step \in {"cells", "memberMarks", "locks"}
        BY <1>1, <1>3, <1>5, <1>6, <2>2, <3>1 DEF ViewCurrent, Steps, MembersRead
      <3>3. GetPresences(view.members)[p][d] = cell[p][d]
            /\ GetPresenceOverrides(view.members)[p][d] = Override(p, d)
        BY <1>3, <3>1, OverridesTyped
      <3>4. view'.cells[p][d] = cell'[p][d]
        BY <1>1, <1>2, <1>3, <1>5, <1>6, <1>10, <3>1, <3>2, <3>3 DEF ViewCurrent, MembersRead
      <3>5. next \in {"locks", "shown"} => view'.marks[p][d] = Override(p, d)'
        BY <1>1, <1>2, <1>3, <1>5, <1>6, <1>10, <3>1, <3>2, <3>3 DEF ViewCurrent, MembersRead
      <3>6. QED
        BY <1>1, <1>2, <3>1, <3>4, <3>5
    <2>3. QED
      BY <2>1, <2>2
  <1>11. ASSUME view'.step = "shown", NEW p \in view'.members
         PROVE  p \in view'.locks <=> p \in ratified'
    <2>1. CASE step = "locks"
      BY <1>1, <1>2, <1>11, <2>1
    <2>2. CASE step # "locks"
      <3>1. step \in {"team", "members"}
        BY <1>1, <1>11, <2>2
      <3>2. view'.members = {}
        BY <1>1, <1>3, <1>5, <1>6, <1>11, <3>1 DEF ViewCurrent, MembersRead
      <3>3. QED
        BY <1>11, <3>2
    <2>3. QED
      BY <2>1, <2>2
  <1>12. QED
    BY <1>1, <1>4, <1>7, <1>8, <1>9, <1>10, <1>11 DEF ViewCurrent

LEMMA ReadSteps ==
    ASSUME PagesInv,
           \/ ReadOwnMarks \/ ReadOwnLock \/ ReadOwnTeams
           \/ ReadMembers \/ ReadCells \/ ReadMemberMarks \/ ReadLocks
    PROVE  PagesInv'
  <1>0. /\ PresencePagesTypeOK /\ Viewer \in Colleagues /\ ratified \subseteq Colleagues
        /\ MembersOfMonth \subseteq Colleagues
        /\ \A g \in Steps : view.step = g => view \in View
    BY PresencePagesAssumption
    DEF PagesInv, PresencePagesTypeOK, MembersOfMonth, NoView, Steps
  <1>1. CASE \/ Missed("marks", "lock") \/ Missed("lock", "team") \/ Missed("team", "shown")
             \/ Missed("members", "shown") \/ Missed("cells", "memberMarks")
             \/ Missed("memberMarks", "locks") \/ Missed("locks", "shown")
    BY <1>1, MissedStep
  <1>2. CASE Fill("marks", "lock",
                  [view EXCEPT !.ownMarks = GetPresenceOverrides({Viewer})[Viewer]])
    <2> DEFINE v == [view EXCEPT !.ownMarks = GetPresenceOverrides({Viewer})[Viewer]]
    <2>1. view \in View /\ GetPresenceOverrides({Viewer})[Viewer] \in MarksOfDates
      BY <1>0, <1>2, OverridesTyped DEF Fill, Steps
    <2>2. /\ v \in View /\ v.ownMarks = GetPresenceOverrides({Viewer})[Viewer]
          /\ v.crossed = view.crossed /\ v.blind = view.blind /\ v.own = view.own
          /\ v.ownLock = view.ownLock /\ v.members = view.members /\ v.cells = view.cells
          /\ v.marks = view.marks /\ v.locks = view.locks
      BY <2>1 DEF View
    <2> HIDE DEF v
    <2>3. Fill("marks", "lock", v)
      BY <1>2 DEF v
    <2>4. QED
      BY <2>2, <2>3, FilledStep DEF Steps
  <1>3. CASE Fill("lock", "team", [view EXCEPT !.ownLock = Viewer \in ratified])
    <2> DEFINE b == Viewer \in ratified
               v == [view EXCEPT !.ownLock = b]
    <2>1. view \in View
      BY <1>0, <1>3 DEF Fill, Steps
    <2>2. b \in BOOLEAN /\ (b <=> Viewer \in ratified)
      OBVIOUS
    <2>3. Fill("lock", "team", v)
      BY <1>3
    <2> HIDE DEF b
    <2>4. /\ v \in View /\ v.ownLock = b
          /\ v.crossed = view.crossed /\ v.blind = view.blind /\ v.own = view.own
          /\ v.ownMarks = view.ownMarks /\ v.members = view.members /\ v.cells = view.cells
          /\ v.marks = view.marks /\ v.locks = view.locks
      BY <2>1, <2>2 DEF View
    <2> HIDE DEF v
    <2>5. v.ownLock <=> Viewer \in ratified
      BY <2>2, <2>4
    <2>6. QED
      BY <2>3, <2>4, <2>5, FilledStep DEF Steps
  <1>4. CASE Fill("team", IF Viewer \in PresentMembers THEN "members" ELSE "shown", view)
    <2>1. view \in View
      BY <1>0, <1>4 DEF Fill, Steps
    <2>2. PICK next \in {"members", "shown"} : Fill("team", next, view)
      BY <1>4
    <2>3. QED
      BY <2>1, <2>2, FilledStep DEF Steps
  <1>5. CASE Fill("members", IF MembersOfMonth = {} THEN "shown" ELSE "cells",
                  [view EXCEPT !.members = MembersOfMonth])
    <2> DEFINE v == [view EXCEPT !.members = MembersOfMonth]
    <2>1. view \in View
      BY <1>0, <1>5 DEF Fill, Steps
    <2>2. /\ v \in View /\ v.members = MembersOfMonth
          /\ v.crossed = view.crossed /\ v.blind = view.blind /\ v.own = view.own
          /\ v.ownMarks = view.ownMarks /\ v.ownLock = view.ownLock /\ v.cells = view.cells
          /\ v.marks = view.marks /\ v.locks = view.locks
      BY <1>0, <2>1 DEF View
    <2> HIDE DEF v
    <2>3. PICK next \in {"cells", "shown"} :
             Fill("members", next, v) /\ (next = "shown" => MembersOfMonth = {})
      BY <1>5 DEF v
    <2>4. QED
      BY <2>2, <2>3, FilledStep DEF Steps
  <1>6. CASE Fill("cells", "memberMarks", [view EXCEPT !.cells = GetPresences(view.members)])
    <2> DEFINE v == [view EXCEPT !.cells = GetPresences(view.members)]
    <2>1. view \in View /\ GetPresences(view.members) \in [Colleagues -> Cells]
      BY <1>0, <1>6, OverridesTyped DEF Fill, Steps
    <2>2. /\ v \in View /\ v.cells = GetPresences(view.members)
          /\ v.crossed = view.crossed /\ v.blind = view.blind /\ v.own = view.own
          /\ v.ownMarks = view.ownMarks /\ v.ownLock = view.ownLock /\ v.members = view.members
          /\ v.marks = view.marks /\ v.locks = view.locks
      BY <2>1 DEF View
    <2> HIDE DEF v
    <2>3. Fill("cells", "memberMarks", v)
      BY <1>6 DEF v
    <2>4. QED
      BY <2>2, <2>3, FilledStep DEF Steps
  <1>7. CASE Fill("memberMarks", "locks",
                  [view EXCEPT !.marks = GetPresenceOverrides(view.members)])
    <2> DEFINE v == [view EXCEPT !.marks = GetPresenceOverrides(view.members)]
    <2>1. view \in View /\ GetPresenceOverrides(view.members) \in [Colleagues -> MarksOfDates]
      BY <1>0, <1>7, OverridesTyped DEF Fill, Steps
    <2>2. /\ v \in View /\ v.marks = GetPresenceOverrides(view.members)
          /\ v.crossed = view.crossed /\ v.blind = view.blind /\ v.own = view.own
          /\ v.ownMarks = view.ownMarks /\ v.ownLock = view.ownLock /\ v.members = view.members
          /\ v.cells = view.cells /\ v.locks = view.locks
      BY <2>1 DEF View
    <2> HIDE DEF v
    <2>3. Fill("memberMarks", "locks", v)
      BY <1>7 DEF v
    <2>4. QED
      BY <2>2, <2>3, FilledStep DEF Steps
  <1>8. CASE Fill("locks", "shown", [view EXCEPT !.locks = ratified \cap view.members])
    <2> DEFINE v == [view EXCEPT !.locks = ratified \cap view.members]
    <2>1. view \in View /\ ratified \cap view.members \subseteq Colleagues
      BY <1>0, <1>8 DEF Fill, Steps
    <2>2. /\ v \in View /\ v.locks = ratified \cap view.members
          /\ v.crossed = view.crossed /\ v.blind = view.blind /\ v.own = view.own
          /\ v.ownMarks = view.ownMarks /\ v.ownLock = view.ownLock /\ v.members = view.members
          /\ v.cells = view.cells /\ v.marks = view.marks
      BY <2>1 DEF View
    <2> HIDE DEF v
    <2>3. Fill("locks", "shown", v)
      BY <1>8 DEF v
    <2>4. QED
      BY <2>2, <2>3, FilledStep DEF Steps
  <1>9. QED
    BY <1>1, <1>2, <1>3, <1>4, <1>5, <1>6, <1>7, <1>8
    DEF ReadOwnMarks, ReadOwnLock, ReadOwnTeams, ReadMembers, ReadCells, ReadMemberMarks, ReadLocks

LEMMA CloseStep == ASSUME PagesInv, CloseView PROVE PagesInv'
  <1>1. view' = NoView /\ PageReads
    BY DEF CloseView
  <1>2. PresencePagesTypeOK' /\ LogOrdered'
    BY <1>1, ReadsKeep
  <1>3. QED
    BY <1>1, <1>2 DEF PagesInv, ViewCurrent

LEMMA NextPages == PagesInv /\ [PresencePagesNext]_pagesVars => PagesInv'
  BY EditSteps, QuietSteps, BeginStep, ReadSteps, CloseStep DEF PresencePagesNext

(* The state of presences, their log and the pages is well-typed.          *)
THEOREM PagesWellTyped == PresencePagesSpec => []PresencePagesTypeOK
  <1>1. PagesInv => PresencePagesTypeOK
    BY DEF PagesInv
  <1>2. QED
    BY <1>1, InitPages, NextPages, PTL DEF PresencePagesSpec

-----------------------------------------------------------------------------
(* The calendar page beside the log pages.                                 *)

(* A page of one's own rows that lists the newest by id lists the newest   *)
(* by time.                                                                *)
LEMMA NewestIsAPage ==
    ASSUME PresencePagesTypeOK, LogOrdered, NEW p \in Colleagues, NEW since
    PROVE  Foremost(LoggedSince({p}, since)) \in GetUserLogs(p, since)
  <1> DEFINE logged == LoggedSince({p}, since)
             F == Foremost(logged)
  <1>1. logged \subseteq DOMAIN logbook
    BY DEF LoggedSince
  <1>2. logged \subseteq Nat /\ IsFiniteSet(logged)
    BY <1>1, LogRowsParts, FS_Subset
  <1> HIDE DEF logged
  <1>3. /\ F \subseteq logged
        /\ \A i \in F, j \in logged : j > i => j \in F
        /\ Cardinality(F) = IF Cardinality(logged) < LogLimit THEN Cardinality(logged) ELSE LogLimit
    BY <1>2, ForemostParts
  <1>4. ASSUME NEW i \in F, NEW j \in logged \ F PROVE logbook[j].at <= logbook[i].at
    <2>1. i \in Nat /\ j \in Nat /\ ~(j > i)
      BY <1>2, <1>3
    <2>2. j <= i
      BY <2>1
    <2>3. QED
      BY <1>1, <1>3, <2>2 DEF LogOrdered
  <1>5. QED
    BY <1>3, <1>4 DEF GetUserLogs, logged

LEMMA MarksExplained ==
    ASSUME PagesInv, view.step = "shown", NEW p \in Colleagues, NEW d \in CalendarDates,
           p \in MembersOfMonth, view.marks[p][d] = Override(p, d)
    PROVE  MarkExplained(p, d)
  <1>0. PresencePagesTypeOK /\ LogOrdered
    BY DEF PagesInv
  <1>1. SUFFICES ASSUME NEW reader \in TeamManagers, NEW people \in {Colleagues, {p}},
                        NEW since \in 1 .. second
                 PROVE
        LET listed == TeamLogsPage(reader, people, since)
            of == listed \cap LogRowsOf(p, d)
            reaches == Cardinality(listed) < LogLimit
                       /\ \E i \in LogRowsOf(p, d) : logbook[i].at >= since
        IN  /\ view.marks[p][d] # NoMark /\ reaches => of # {}
            /\ of # {} =>
                  /\ view.marks[p][d] = OverrideOf(logbook[Latest(of)])
                  /\ MayLead(Latest(of), MemberLogsPage(reader, p, since))
                  /\ MayLead(Latest(of), MyLogsPage(p, since))
    BY DEF MarkExplained
  <1> DEFINE L == LoggedSince(people \cap AllMembers, since)
             listed == Foremost(L)
             of == listed \cap LogRowsOf(p, d)
             mine == LoggedSince({p}, since)
             last == Latest(LogRowsOf(p, d))
  <1>2. TeamLogsPage(reader, people, since) = listed
    BY DEF TeamLogsPage, GetTeamLogs
  <1>3. L \subseteq Nat /\ IsFiniteSet(L) /\ mine \subseteq Nat /\ IsFiniteSet(mine)
    <2>1. L \subseteq DOMAIN logbook /\ mine \subseteq DOMAIN logbook
      BY DEF LoggedSince
    <2>2. QED
      BY <1>0, <2>1, LogRowsParts, FS_Subset
  <1>4. mine \subseteq L /\ \A i \in LogRowsOf(p, d) : logbook[i].at >= since => i \in mine
    <2>1. p \in people \cap AllMembers
      BY DEF MembersOfMonth, AllMembers
    <2>2. QED
      BY <2>1 DEF LoggedSince, LogRowsOf
  <1>5. \A i \in L : logbook[i].at >= since
    BY DEF LoggedSince
  <1> HIDE DEF L, mine
  <1>6. /\ listed \subseteq L /\ \A i \in listed, j \in L : j > i => j \in listed
        /\ Cardinality(listed) < LogLimit => listed = L
    BY <1>3, ForemostParts
  <1>7. ASSUME Cardinality(listed) < LogLimit, NEW i \in LogRowsOf(p, d), logbook[i].at >= since
        PROVE  of # {}
    BY <1>4, <1>6, <1>7
  <1>8. ASSUME NEW i \in of
        PROVE  /\ last \in of /\ Latest(of) = last
               /\ last \in Foremost(mine) /\ LogRowsOf(p, d) # {}
    <2>1. i \in listed /\ i \in LogRowsOf(p, d) /\ i \in L /\ logbook[i].at >= since
      BY <1>5, <1>6, <1>8
    <2>2. /\ last \in LogRowsOf(p, d) /\ \A j \in LogRowsOf(p, d) : j <= last
          /\ LogRowsOf(p, d) \subseteq DOMAIN logbook /\ DOMAIN logbook \subseteq Nat
          /\ \A j \in DOMAIN logbook : logbook[j] \in LogRow
      BY <1>0, <2>1, LogRowsParts
    <2> HIDE DEF last
    <2>3. i <= last /\ logbook[i].at <= logbook[last].at
      BY <1>0, <2>1, <2>2 DEF LogOrdered
    <2>4. logbook[last].at >= since
      <3>1. logbook[i].at \in Nat /\ logbook[last].at \in Nat /\ since \in Nat
        BY <2>1, <2>2 DEF LogRow
      <3>2. QED
        BY <2>1, <2>3, <3>1
    <2>5. last \in mine /\ last \in L
      BY <1>4, <2>2, <2>4
    <2>6. last \in listed
      <3>1. last = i \/ last > i
        BY <2>1, <2>2, <2>3
      <3>2. QED
        BY <1>6, <2>1, <2>5, <3>1
    <2>7. last \in of /\ \A j \in of : j <= last
      BY <2>2, <2>6
    <2>8. Latest(of) = last
      <3>1. of \subseteq Nat /\ IsFiniteSet(of)
        BY <1>3, <1>6, FS_Subset
      <3>2. Latest(of) \in of /\ \A j \in of : j <= Latest(of)
        BY <2>7, <3>1, LatestIs
      <3> HIDE DEF of
      <3>3. Latest(of) \in Nat /\ last \in Nat
        BY <2>7, <3>1, <3>2
      <3>4. Latest(of) <= last /\ last <= Latest(of)
        BY <2>7, <3>2
      <3>5. QED
        BY <3>3, <3>4
    <2>9. last \in Foremost(mine)
      <3>1. Cardinality(Later(L, last)) < LogLimit
        BY <2>6 DEF Foremost, Later
      <3>2. /\ Cardinality(Later(mine, last)) <= Cardinality(Later(L, last))
            /\ Cardinality(Later(mine, last)) \in Nat /\ Cardinality(Later(L, last)) \in Nat
        BY <1>3, <1>4, LaterParts
      <3>3. Cardinality(Later(mine, last)) < LogLimit
        BY <3>1, <3>2, PresencePagesAssumption
      <3>4. QED
        BY <2>5, <3>3 DEF Foremost, Later
    <2>10. QED
      BY <2>1, <2>7, <2>8, <2>9
  <1>9. ASSUME NEW i \in of PROVE MayLead(last, GetUserLogs(p, since))
    <2>1. Foremost(mine) \in GetUserLogs(p, since) /\ last \in Foremost(mine)
      BY <1>0, <1>8, <1>9, NewestIsAPage DEF mine
    <2>2. ASSUME NEW j \in Foremost(mine), logbook[j].date = logbook[last].date
          PROVE  logbook[j].at <= logbook[last].at
      <3>1. j \in DOMAIN logbook /\ logbook[j].user = p
        BY DEF Foremost, mine, LoggedSince
      <3>2. LogRowsOf(p, d) # {}
        BY <1>8, <1>9
      <3>3. /\ last \in LogRowsOf(p, d) /\ LogRowsOf(p, d) \subseteq DOMAIN logbook
            /\ \A k \in LogRowsOf(p, d) : k <= last
        BY <1>0, <3>2, LogRowsParts
      <3> HIDE DEF last
      <3>4. j \in LogRowsOf(p, d)
        BY <2>2, <3>1, <3>3 DEF LogRowsOf
      <3>5. QED
        BY <1>0, <3>3, <3>4 DEF LogOrdered
    <2> HIDE DEF last
    <2>3. QED
      BY <2>1, <2>2 DEF MayLead
  <1>10. of # {} => view.marks[p][d] = OverrideOf(logbook[last])
    BY <1>8 DEF Override
  <1>11. /\ MemberLogsPage(reader, p, since) = GetUserLogs(p, since)
         /\ MyLogsPage(p, since) = GetUserLogs(p, since)
    BY DEF MemberLogsPage, MyLogsPage
  <1> HIDE DEF last, of, listed
  <1>12. of # {} => Latest(of) = last /\ MayLead(last, GetUserLogs(p, since))
    BY <1>8, <1>9
  <1>13. listed \cap LogRowsOf(p, d) = of
    BY DEF of
  <1>14. QED
    BY <1>2, <1>7, <1>10, <1>11, <1>12, <1>13

LEMMA PagesDoAgree == PagesInv => PagesAgree
  <1> SUFFICES ASSUME PagesInv, view.step = "shown", ~view.blind
               PROVE  /\ \A d \in CalendarDates :
                            /\ <<Viewer, d>> \notin view.crossed => OwnRowAgrees(d)
                            /\ \A p \in view.members : <<p, d>> \notin view.crossed => MarkExplained(p, d)
                      /\ Viewer \in view.members /\ <<Viewer, TheMonth>> \notin view.crossed
                            => (view.ownLock <=> Viewer \in view.locks)
    BY DEF PagesAgree
  <1>1. view \in View /\ view # NoView /\ view.members \subseteq Colleagues /\ ViewCurrent
    BY DEF PagesInv, PresencePagesTypeOK, NoView, View
  <1>2. ASSUME NEW d \in CalendarDates, <<Viewer, d>> \notin view.crossed PROVE OwnRowAgrees(d)
    BY <1>1, <1>2 DEF ViewCurrent, OwnRowAgrees, NotCrossed, OwnMarksRead, MembersRead
  <1>3. ASSUME NEW d \in CalendarDates, NEW p \in view.members, <<p, d>> \notin view.crossed
        PROVE  MarkExplained(p, d)
    <2>1. p \in MembersOfMonth /\ view.marks[p][d] = Override(p, d)
      BY <1>1, <1>3 DEF ViewCurrent, NotCrossed
    <2>2. QED
      BY <1>1, <2>1, MarksExplained
  <1>4. Viewer \in view.members /\ <<Viewer, TheMonth>> \notin view.crossed
            => (view.ownLock <=> Viewer \in view.locks)
    BY <1>1 DEF ViewCurrent, NotCrossed, OwnMarksRead
  <1>5. QED
    BY <1>2, <1>3, <1>4

(* Whatever is edited between the queries of a calendar page, for any      *)
(* members, dates and length of a log page: its own parts agree with one   *)
(* another and its marks with what the log pages list first, at every date *)
(* that was not edited since the page began.                               *)
THEOREM PagesAlwaysAgree == PresencePagesSpec => []PagesAgree
  BY InitPages, NextPages, PagesDoAgree, PTL DEF PresencePagesSpec

-----------------------------------------------------------------------------
(* Sums of statistics, figure by figure.                                   *)

Figures == {"set", "billable", "onSite"}

Figure(v, f) == [x \in DOMAIN v |-> v[x][f]]

MoreStats(v, g, s) == IF s = {} THEN NoStats ELSE Add(v[Some(s)], g[s \ {Some(s)}])

StatSums(v, S) == CHOOSE g : g = [s \in SUBSET S |-> MoreStats(v, g, s)]

LEMMA TotalIsStatSum == \A v : Total(v) = StatSums(v, DOMAIN v)[DOMAIN v]
  BY DEF Total, FoldFunction, FoldFunctionOnSet, MapThenFoldSet, StatSums, Some, MoreStats

LEMMA StatsAre ==
    /\ Stats = [Figures -> Nat] /\ DOMAIN NoStats = Figures
    /\ \A f \in Figures : NoStats[f] = 0
    /\ \A x, y : /\ DOMAIN Add(x, y) = Figures
                 /\ \A f \in Figures : Add(x, y)[f] = x[f] + y[f]
    /\ \A x, y : (DOMAIN x = Figures /\ x = [f \in Figures |-> x[f]]
                   /\ DOMAIN y = Figures /\ y = [f \in Figures |-> y[f]]
                   /\ \A f \in Figures : x[f] = y[f]) => x = y
  <1>1. DOMAIN NoStats = Figures /\ \A f \in Figures : NoStats[f] = 0
    BY DEF NoStats, Figures
  <1>2. ASSUME NEW x, NEW y
        PROVE  DOMAIN Add(x, y) = Figures /\ \A f \in Figures : Add(x, y)[f] = x[f] + y[f]
    BY <1>1 DEF Add
  <1>3. Stats = [Figures -> Nat]
    BY DEF Stats, Figures
  <1>4. QED
    BY <1>1, <1>2, <1>3

LEMMA FigureTyped ==
    ASSUME NEW S, NEW v \in [S -> Stats], NEW f \in Figures
    PROVE  Figure(v, f) \in [S -> Nat] /\ \A x \in S : Figure(v, f)[x] = v[x][f]
  BY StatsAre DEF Figure

(* The figures of a total are the sums of the figures.                     *)
LEMMA TotalFigures ==
    ASSUME NEW S, IsFiniteSet(S), NEW v \in [S -> Stats]
    PROVE  Total(v) \in Stats /\ \A f \in Figures : Total(v)[f] = SumOf(Figure(v, f))
  <1> DEFINE V(f) == Figure(v, f)
             G == [s \in SUBSET S |-> [f \in Figures |-> Sums(V(f), S)[s]]]
  <1>1. \A f \in Figures : \A x \in S : V(f)[x] = v[x][f] /\ V(f)[x] \in Nat
    BY FigureTyped
  <1>2. \A f \in Figures : \A s \in SUBSET S : Sums(V(f), S)[s] \in Nat
    <2>1. ASSUME NEW f \in Figures PROVE \A s \in SUBSET S : Sums(V(f), S)[s] \in Nat
      <3>1. \A x \in S : V(f)[x] \in Nat
        BY <1>1
      <3> HIDE DEF V
      <3>2. QED
        BY <3>1, SumsTake
    <2>2. QED
      BY <2>1
  <1> HIDE DEF V
  <1>3. ASSUME NEW s \in SUBSET S PROVE G[s] = MoreStats(v, G, s)
    <2>1. \A f \in Figures : SumsUp(V(f), Sums(V(f), S), S)
      BY SumsDefined
    <2>2. G[s] = [f \in Figures |-> Sums(V(f), S)[s]]
      OBVIOUS
    <2>3. CASE s = {}
      <3>1. \A f \in Figures : Sums(V(f), S)[s] = 0
        BY <2>1, <2>3 DEF SumsUp, OneMore
      <3>2. NoStats = [f \in Figures |-> 0]
        BY DEF NoStats, Figures
      <3>3. QED
        BY <2>2, <2>3, <3>1, <3>2 DEF MoreStats
    <2>4. CASE s # {}
      <3> DEFINE x == Some(s)
                 t == s \ {x}
      <3>1. x \in S /\ t \in SUBSET S
        BY <2>4, SomeIsIn
      <3>2. \A f \in Figures : Sums(V(f), S)[s] = V(f)[x] + Sums(V(f), S)[t]
        BY <2>1, <2>4 DEF SumsUp, OneMore
      <3>3. \A f \in Figures : V(f)[x] = v[x][f]
        BY <1>1, <3>1
      <3>4. \A f \in Figures : G[t][f] = Sums(V(f), S)[t]
        BY <3>1
      <3>5. MoreStats(v, G, s) = Add(v[x], G[t])
        BY <2>4 DEF MoreStats
      <3> HIDE DEF x, t, G
      <3>6. Add(v[x], G[t]) = [f \in Figures |-> v[x][f] + G[t][f]]
        BY StatsAre DEF Add
      <3>7. [f \in Figures |-> v[x][f] + G[t][f]] = [f \in Figures |-> Sums(V(f), S)[s]]
        BY <3>2, <3>3, <3>4
      <3>8. QED
        BY <2>2, <3>5, <3>6, <3>7
    <2>5. QED
      BY <2>3, <2>4
  <1>4. G = [s \in SUBSET S |-> MoreStats(v, G, s)]
    <2>1. G = [s \in SUBSET S |-> G[s]]
      OBVIOUS
    <2> HIDE DEF G
    <2>2. QED
      BY <1>3, <2>1
  <1> DEFINE g == StatSums(v, S)
             T == {s \in SUBSET S : g[s] # G[s]}
  <1>5. g = [s \in SUBSET S |-> MoreStats(v, g, s)]
    <2> HIDE DEF G
    <2>1. QED
      BY <1>4 DEF StatSums
  <1>6. \A s \in SUBSET S : g[s] = MoreStats(v, g, s)
    <2> HIDE DEF g
    <2>1. QED
      BY <1>5
  <1> HIDE DEF g, G
  <1>7. ASSUME T # {} PROVE FALSE
    <2>1. PICK s \in T : \A t \in T : ~(t \subseteq s /\ t # s)
      <3>1. T \in SUBSET (SUBSET S)
        OBVIOUS
      <3> HIDE DEF T
      <3>2. QED
        BY <1>7, <3>1, LeastSubset
    <2>2. CASE s = {}
      BY <1>3, <1>6, <2>1, <2>2 DEF MoreStats
    <2>3. CASE s # {}
      <3> DEFINE x == Some(s)
                 t == s \ {x}
      <3>1. t \in SUBSET S /\ t \subseteq s /\ t # s
        BY <2>1, <2>3, SomeIsIn
      <3>2. g[t] = G[t]
        BY <2>1, <3>1
      <3>3. g[s] = Add(v[x], g[t]) /\ G[s] = Add(v[x], G[t])
        BY <1>3, <1>6, <2>1, <2>3 DEF MoreStats
      <3>4. QED
        BY <2>1, <3>2, <3>3
    <2>4. QED
      BY <2>2, <2>3
  <1>8. g[S] = G[S] /\ Total(v) = g[S]
    <2>1. S \notin T
      BY <1>7
    <2>2. g[S] = G[S]
      BY <2>1
    <2>3. QED
      BY <2>2, TotalIsStatSum DEF g
  <1>9. G[S] = [f \in Figures |-> Sums(V(f), S)[S]]
    BY DEF G
  <1>10. \A f \in Figures : SumOf(Figure(v, f)) = Sums(V(f), S)[S]
    BY TotalIsSum DEF V, Figure
  <1>11. QED
    BY <1>2, <1>8, <1>9, <1>10, StatsAre

-----------------------------------------------------------------------------
(* The statistics of a day, a person and a team.                           *)

RowsProper ==
    /\ rows \in [People -> [Period -> [Half -> Marks \cup {NoStatus}]]]
    /\ \A u \in People, d \in Period : ExclusiveDay(rows[u][d])

LEMMA HalvesAdd ==
    /\ IsFiniteSet(Half)
    /\ \A v \in [Half -> Nat] : SumOf(v) = v["full"] + v["AM"] + v["PM"]
  <1>1. IsFiniteSet({"full"}) /\ IsFiniteSet({"full", "AM"}) /\ IsFiniteSet(Half)
    <2>1. {"full", "AM"} = {"full"} \cup {"AM"} /\ Half = {"full", "AM"} \cup {"PM"}
      BY DEF Half
    <2>2. IsFiniteSet({"full"})
      BY FS_Singleton
    <2>3. IsFiniteSet({"full", "AM"})
      BY <2>1, <2>2, FS_AddElement
    <2>4. QED
      BY <2>1, <2>2, <2>3, FS_AddElement
  <1>2. ASSUME NEW v \in [Half -> Nat] PROVE SumOf(v) = v["full"] + v["AM"] + v["PM"]
    <2> DEFINE one == {"full"}
               two == {"full", "AM"}
    <2>1. /\ {} \cup {"full"} = one /\ one \cup {"AM"} = two /\ two \cup {"PM"} = Half
          /\ "full" \notin {} /\ "AM" \notin one /\ "PM" \notin two /\ IsFiniteSet({})
      BY FS_EmptySet DEF Half
    <2>2. \A h \in Half : v[h] \in Nat
      OBVIOUS
    <2>3. \A h \in two : v[h] \in Nat
      BY <2>1, <2>2
    <2>4. \A h \in one : v[h] \in Nat
      BY <2>1, <2>3
    <2>5. SumOf(On(v, one)) = v["full"] + SumOf(On(v, {}))
      BY <2>1, <2>4, SumOfOneMore
    <2> HIDE DEF one, two
    <2>6. SumOf(On(v, two)) = v["AM"] + SumOf(On(v, one))
      BY <1>1, <2>1, <2>3, SumOfOneMore DEF one
    <2>7. SumOf(On(v, Half)) = v["PM"] + SumOf(On(v, two))
      BY <1>1, <2>1, <2>2, SumOfOneMore DEF two
    <2>8. SumOf(On(v, {})) = 0 /\ On(v, Half) = v
      BY SumOfNone, OnAll
    <2>9. v["full"] \in Nat /\ v["AM"] \in Nat /\ v["PM"] \in Nat
      BY DEF Half
    <2>10. QED
      BY <2>5, <2>6, <2>7, <2>8, <2>9
  <1>3. QED
    BY <1>1, <1>2

LEMMA RowStatsAre ==
    ASSUME NEW status, NEW half
    PROVE  /\ RowStats(status, half) \in Stats
           /\ RowStats(status, half)["set"] = IF status \in Marks THEN Weight(half) ELSE 0
  BY DEF RowStats, Stats, Weight

LEMMA DayStatsAre ==
    ASSUME RowsProper, NEW u \in People, NEW d \in Period
    PROVE  DayStats(u, d) \in Stats /\ DayStats(u, d)["set"] \in 0..2
  <1> DEFINE dayRows == rows[u][d]
             v == [h \in Half |-> RowStats(dayRows[h], h)]
             w == Figure(v, "set")
  <1>1. v \in [Half -> Stats] /\ IsFiniteSet(Half)
    BY RowStatsAre, HalvesAdd
  <1>2. \A h \in Half : v[h]["set"] = IF dayRows[h] \in Marks THEN Weight(h) ELSE 0
    BY RowStatsAre
  <1>3. DayStats(u, d) = Total(v)
    BY DEF DayStats
  <1>4. dayRows \in [Half -> Marks \cup {NoStatus}] /\ ExclusiveDay(dayRows) /\ NoStatus \notin Marks
    BY ReportsAssumption DEF RowsProper
  <1> HIDE DEF v, dayRows
  <1>5. Total(v) \in Stats /\ Total(v)["set"] = SumOf(w)
    BY <1>1, TotalFigures DEF Figures
  <1>6. w \in [Half -> Nat] /\ \A h \in Half : w[h] = v[h]["set"]
    BY <1>1, FigureTyped DEF Figures
  <1> HIDE DEF w
  <1>7. SumOf(w) = w["full"] + w["AM"] + w["PM"]
    BY <1>6, HalvesAdd
  <1>8. /\ w["full"] = IF dayRows["full"] \in Marks THEN 2 ELSE 0
        /\ w["AM"] = IF dayRows["AM"] \in Marks THEN 1 ELSE 0
        /\ w["PM"] = IF dayRows["PM"] \in Marks THEN 1 ELSE 0
    <2>1. "full" \in Half /\ "AM" \in Half /\ "PM" \in Half
      BY DEF Half
    <2>2. Weight("full") = 2 /\ Weight("AM") = 1 /\ Weight("PM") = 1
      BY DEF Weight
    <2>3. QED
      BY <1>2, <1>6, <2>1, <2>2
  <1>9. SumOf(w) \in 0..2
    <2>1. CASE dayRows["full"] = NoStatus
      BY <1>4, <1>7, <1>8, <2>1
    <2>2. CASE dayRows["full"] # NoStatus
      <3>1. dayRows["AM"] = NoStatus /\ dayRows["PM"] = NoStatus
        BY <1>4, <2>2 DEF ExclusiveDay
      <3>2. QED
        BY <1>4, <1>7, <1>8, <3>1
    <2>3. QED
      BY <2>1, <2>2
  <1>10. QED
    BY <1>3, <1>5, <1>9

(* The days of u in figure f, and the people of date d in it.              *)
DaysOf(u, f) == [d \in Period |-> DayStats(u, d)[f]]
PeopleOn(s, d, f) == [u \in s |-> DayStats(u, d)[f]]

LEMMA UserStatsAre ==
    ASSUME RowsProper, NEW u \in People
    PROVE  /\ UserStats(u) \in Stats
           /\ \A f \in Figures : /\ DaysOf(u, f) \in [Period -> Nat]
                                 /\ UserStats(u)[f] = SumOf(DaysOf(u, f))
  <1> DEFINE v == [d \in Period |-> DayStats(u, d)]
  <1>1. v \in [Period -> Stats] /\ IsFiniteSet(Period)
    BY DayStatsAre, ReportsAssumption
  <1>2. \A f \in Figures : Figure(v, f) = DaysOf(u, f)
    BY DEF Figure, DaysOf
  <1>3. UserStats(u) = Total(v)
    BY DEF UserStats
  <1> HIDE DEF v
  <1>4. Total(v) \in Stats /\ \A f \in Figures : Total(v)[f] = SumOf(Figure(v, f))
    BY <1>1, TotalFigures
  <1>5. \A f \in Figures : Figure(v, f) \in [Period -> Nat]
    BY <1>1, FigureTyped
  <1>6. QED
    BY <1>2, <1>3, <1>4, <1>5

(* What people have together, person by person.                            *)
Each(s, f) == [u \in s |-> UserStats(u)[f]]

LEMMA TogetherAre ==
    ASSUME RowsProper, NEW s \in SUBSET People
    PROVE  /\ IsFiniteSet(s) /\ StatsOf(s) \in Stats
           /\ \A f \in Figures : Each(s, f) \in [s -> Nat] /\ StatsOf(s)[f] = SumOf(Each(s, f))
  <1> DEFINE v == [u \in s |-> UserStats(u)]
  <1>1. v \in [s -> Stats] /\ IsFiniteSet(s)
    BY UserStatsAre, ReportsAssumption, FS_Subset
  <1>2. \A f \in Figures : Figure(v, f) = Each(s, f)
    BY DEF Figure, Each
  <1>3. StatsOf(s) = Total(v)
    BY DEF StatsOf
  <1> HIDE DEF v
  <1>4. Total(v) \in Stats /\ \A f \in Figures : Total(v)[f] = SumOf(Figure(v, f))
    BY <1>1, TotalFigures
  <1>5. \A f \in Figures : Figure(v, f) \in [s -> Nat]
    BY <1>1, FigureTyped
  <1>6. QED
    BY <1>1, <1>2, <1>3, <1>4, <1>5

(* The same, day by day, as the footer has it.                             *)
LEMMA FooterAre ==
    ASSUME RowsProper, NEW s \in SUBSET People
    PROVE  Footer(s) \in Stats /\ \A f \in Figures : Footer(s)[f] = StatsOf(s)[f]
  <1> DEFINE dayOf(d) == Total([u \in s |-> DayStats(u, d)])
             v == [d \in Period |-> dayOf(d)]
  <1>1. ASSUME NEW d \in Period
        PROVE  /\ dayOf(d) \in Stats
               /\ \A f \in Figures : /\ PeopleOn(s, d, f) \in [s -> Nat]
                                     /\ dayOf(d)[f] = SumOf(PeopleOn(s, d, f))
    <2> DEFINE w == [u \in s |-> DayStats(u, d)]
    <2>1. w \in [s -> Stats] /\ IsFiniteSet(s)
      BY DayStatsAre, TogetherAre
    <2>2. \A f \in Figures : Figure(w, f) = PeopleOn(s, d, f)
      BY DEF Figure, PeopleOn
    <2> HIDE DEF w
    <2>3. Total(w) \in Stats /\ \A f \in Figures : Total(w)[f] = SumOf(Figure(w, f))
      BY <2>1, TotalFigures
    <2>4. \A f \in Figures : Figure(w, f) \in [s -> Nat]
      BY <2>1, FigureTyped
    <2>5. QED
      BY <2>2, <2>3, <2>4 DEF w
  <1> HIDE DEF dayOf
  <1>2. v \in [Period -> Stats] /\ IsFiniteSet(Period)
    BY <1>1, ReportsAssumption
  <1>3. Footer(s) = Total(v)
    BY DEF Footer, dayOf
  <1>4. \A d \in Period : v[d] = dayOf(d)
    OBVIOUS
  <1> HIDE DEF v
  <1>5. Total(v) \in Stats /\ \A f \in Figures : Total(v)[f] = SumOf(Figure(v, f))
    BY <1>2, TotalFigures
  <1>6. ASSUME NEW f \in Figures PROVE SumOf(Figure(v, f)) = SumOf(Each(s, f))
    <2> DEFINE t == [u \in s |-> DaysOf(u, f)]
    <2>1. t \in [s -> [Period -> Nat]] /\ IsFiniteSet(s)
      BY UserStatsAre, TogetherAre
    <2>2. Each(s, f) \in [s -> Nat] /\ \A u \in s : Each(s, f)[u] = SumOf(t[u])
      BY UserStatsAre, TogetherAre DEF Each
    <2>3. Figure(v, f) \in [Period -> Nat]
      BY <1>2, FigureTyped
    <2>4. ASSUME NEW d \in Period PROVE Figure(v, f)[d] = SumOf([u \in s |-> t[u][d]])
      <3>1. [u \in s |-> t[u][d]] = PeopleOn(s, d, f)
        BY DEF DaysOf, PeopleOn
      <3>2. Figure(v, f)[d] = dayOf(d)[f]
        BY <1>2, <1>4, FigureTyped
      <3> HIDE DEF t
      <3>3. QED
        BY <1>1, <3>1, <3>2
    <2> HIDE DEF t
    <2>5. SumTable(t, s, Period, Each(s, f), Figure(v, f))
      BY <1>2, <2>1, <2>2, <2>3, <2>4 DEF SumTable
    <2>6. QED
      BY <2>5, RowsAndColumns
  <1>7. QED
    BY <1>3, <1>5, <1>6, TogetherAre

(* Those of a team and the others make everyone.                           *)
LEMMA TogetherSplit ==
    ASSUME RowsProper, NEW s \in SUBSET People, NEW t \in SUBSET s
    PROVE  StatsOf(s) = Add(StatsOf(t), StatsOf(s \ t))
  <1>1. /\ IsFiniteSet(s) /\ t \in SUBSET People /\ s \ t \in SUBSET People
    BY TogetherAre
  <1>2. ASSUME NEW f \in Figures
        PROVE  StatsOf(s)[f] = StatsOf(t)[f] + StatsOf(s \ t)[f]
    <2> DEFINE v == Each(s, f)
    <2>1. v \in [s -> Nat]
      BY TogetherAre
    <2>2. On(v, t) = Each(t, f) /\ On(v, s \ t) = Each(s \ t, f)
      BY DEF On, Each
    <2> HIDE DEF v
    <2>3. SumOf(v) = SumOf(On(v, t)) + SumOf(On(v, s \ t))
      BY <1>1, <2>1, SumOfSplit
    <2>4. /\ StatsOf(s)[f] = SumOf(Each(s, f)) /\ StatsOf(t)[f] = SumOf(Each(t, f))
          /\ StatsOf(s \ t)[f] = SumOf(Each(s \ t, f))
      BY <1>1, TogetherAre
    <2>5. QED
      BY <2>2, <2>3, <2>4 DEF v
  <1>3. StatsOf(s) \in [Figures -> Nat]
    BY TogetherAre, StatsAre
  <1>4. Add(StatsOf(t), StatsOf(s \ t)) = [f \in Figures |-> StatsOf(t)[f] + StatsOf(s \ t)[f]]
    BY StatsAre DEF Add
  <1>5. QED
    BY <1>2, <1>3, <1>4

-----------------------------------------------------------------------------
(* What is still to declare.                                               *)

DaysToDeclare(u) == WorkingDays(GetUserHolidayMap(u))

LEMMA MissingIs ==
    ASSUME RowsProper, NEW u \in People,
           \A d \in Period : DayStats(u, d)["set"] > 0 => d \in DaysToDeclare(u)
    PROVE  /\ Missing(u) \in Nat /\ 2 * Cardinality(DaysToDeclare(u)) \in Nat
           /\ Missing(u) + UserStats(u)["set"] = 2 * Cardinality(DaysToDeclare(u))
  <1> DEFINE W == DaysToDeclare(u)
             v == DaysOf(u, "set")
             a == [d \in W |-> 2 - DayStats(u, d)["set"]]
             b == On(v, W)
  <1>1. W \subseteq Period /\ IsFiniteSet(W) /\ IsFiniteSet(Period) /\ IsFiniteSet(Period \ W)
    <2>1. W \subseteq Period
      BY DEF DaysToDeclare, WorkingDays
    <2> HIDE DEF W
    <2>2. QED
      BY <2>1, ReportsAssumption, FS_Subset
  <1>2. \A d \in Period : DayStats(u, d)["set"] \in 0..2
    BY DayStatsAre
  <1>3. v \in [Period -> Nat] /\ UserStats(u)["set"] = SumOf(v)
    BY UserStatsAre DEF Figures
  <1>4. \A d \in Period : v[d] = DayStats(u, d)["set"]
    BY DEF DaysOf
  <1>5. a \in [W -> Nat] /\ b \in [W -> Nat]
    <2>1. \A d \in W : 2 - DayStats(u, d)["set"] \in Nat
      BY <1>1, <1>2
    <2>2. QED
      BY <1>1, <1>3, <2>1 DEF On
  <1>6. \A d \in W : a[d] + b[d] = 2
    BY <1>1, <1>2, <1>4 DEF On
  <1>7. Missing(u) = SumOf(a)
    BY DEF Missing, DaysToDeclare
  <1>8. \A d \in Period \ W : v[d] = 0
    BY <1>2, <1>4
  <1> HIDE DEF W, v, a
  <1>9. SumOf(v) = SumOf(b)
    <2>1. On(v, Period \ W) \in [Period \ W -> Nat] /\ \A d \in Period \ W : On(v, Period \ W)[d] = 0
      BY <1>3, <1>8 DEF On
    <2>2. SumOf(On(v, Period \ W)) = 0
      BY <1>1, <2>1, SumOfZeros
    <2>3. SumOf(v) = SumOf(b) + SumOf(On(v, Period \ W)) /\ SumOf(b) \in Nat
      BY <1>1, <1>3, <1>5, SumOfSplit, TotalNat
    <2>4. QED
      BY <2>2, <2>3
  <1> HIDE DEF b
  <1>10. SumOf(a) + SumOf(b) = 2 * Cardinality(W)
    <2> DEFINE c == [d \in W |-> a[d] + b[d]]
    <2>1. c \in [W -> Nat] /\ \A d \in W : c[d] = 2
      BY <1>6
    <2>2. SumOf(c) = SumOf(a) + SumOf(b)
      BY <1>1, <1>5, SumOfSums
    <2> HIDE DEF c
    <2>3. SumOf(c) = 2 * Cardinality(W)
      BY <1>1, <2>1, SumOfSame
    <2>4. QED
      BY <2>2, <2>3
  <1>11. SumOf(a) \in Nat /\ Cardinality(W) \in Nat
    BY <1>1, <1>5, TotalNat, FS_CardinalityType
  <1>12. QED
    BY <1>3, <1>7, <1>9, <1>10, <1>11 DEF W

(* The half-days expected of people, as the page has them.                 *)
Expected(s) == SumOf([u \in s |-> 2 * Cardinality(DaysToDeclare(u))])

LEMMA ExpectedIs ==
    ASSUME NEW s \in SUBSET People
    PROVE  /\ Expected(s) \in Nat
           /\ SumOf([u \in s |-> 2 * Cardinality(WorkingDays(
                       GetUsersHolidayMaps(s, Holidays, s)[u]))]) = Expected(s)
  <1>1. \A u \in s : GetUsersHolidayMaps(s, Holidays, s)[u] = GetUserHolidayMap(u)
    BY DEF GetUsersHolidayMaps, GetUserHolidayMap
  <1>2. [u \in s |-> 2 * Cardinality(WorkingDays(GetUsersHolidayMaps(s, Holidays, s)[u]))]
          = [u \in s |-> 2 * Cardinality(DaysToDeclare(u))]
    BY <1>1 DEF DaysToDeclare
  <1>3. \A u \in s : Cardinality(DaysToDeclare(u)) \in Nat
    <2>1. \A u \in s : DaysToDeclare(u) \subseteq Period
      BY DEF DaysToDeclare, WorkingDays
    <2>2. \A u \in s : IsFiniteSet(DaysToDeclare(u))
      BY <2>1, ReportsAssumption, FS_Subset
    <2>3. QED
      BY <2>2, FS_CardinalityType
  <1>4. [u \in s |-> 2 * Cardinality(DaysToDeclare(u))] \in [s -> Nat] /\ IsFiniteSet(s)
    BY <1>3, ReportsAssumption, FS_Subset
  <1>5. QED
    BY <1>2, <1>4, TotalNat DEF Expected

(* Whatever holidays were got, the days expected are a number.             *)
LEMMA ExpectedTyped ==
    ASSUME NEW s \in SUBSET People, NEW maps
    PROVE  SumOf([u \in s |-> 2 * Cardinality(WorkingDays(maps[u]))]) \in Nat
  <1> DEFINE v == [u \in s |-> 2 * Cardinality(WorkingDays(maps[u]))]
  <1>1. \A u \in s : WorkingDays(maps[u]) \subseteq Period
    BY DEF WorkingDays
  <1>2. \A u \in s : Cardinality(WorkingDays(maps[u])) \in Nat
    BY <1>1, ReportsAssumption, FS_Subset, FS_CardinalityType
  <1>3. v \in [s -> Nat] /\ IsFiniteSet(s)
    BY <1>2, ReportsAssumption, FS_Subset
  <1> HIDE DEF v
  <1>4. SumOf(v) \in Nat
    BY <1>3, TotalNat
  <1>5. QED
    BY <1>4 DEF v

LEMMA MissingOfAll ==
    ASSUME RowsProper, NEW s \in SUBSET People,
           \A u \in s, d \in Period : DayStats(u, d)["set"] > 0 => d \in DaysToDeclare(u)
    PROVE  /\ SumOf([u \in s |-> Missing(u)]) \in Nat /\ StatsOf(s)["set"] \in Nat
           /\ SumOf([u \in s |-> Missing(u)]) + StatsOf(s)["set"] = Expected(s)
  <1> DEFINE a == [u \in s |-> Missing(u)]
             b == Each(s, "set")
  <1>1. IsFiniteSet(s) /\ b \in [s -> Nat] /\ StatsOf(s)["set"] = SumOf(b)
    BY TogetherAre DEF Figures
  <1>2. \A u \in s : /\ Missing(u) \in Nat
                     /\ Missing(u) + UserStats(u)["set"] = 2 * Cardinality(DaysToDeclare(u))
    BY MissingIs
  <1>3. a \in [s -> Nat] /\ \A u \in s : b[u] = UserStats(u)["set"]
    BY <1>2 DEF Each
  <1>4. [u \in s |-> 2 * Cardinality(DaysToDeclare(u))] = [u \in s |-> a[u] + b[u]]
    BY <1>2, <1>3
  <1> HIDE DEF a, b
  <1>5. SumOf([u \in s |-> a[u] + b[u]]) = SumOf(a) + SumOf(b)
    BY <1>1, <1>3, SumOfSums
  <1>6. SumOf(a) \in Nat /\ SumOf(b) \in Nat
    BY <1>1, <1>3, TotalNat
  <1>7. QED
    BY <1>1, <1>4, <1>5, <1>6 DEF Expected, a

(* No day off of a team is a day a member with a country has to declare.   *)
LEMMA MarkedIsOff ==
    ASSUME NEW s \in SUBSET People, NEW u \in s, homes[u] # NoCountry, NEW dates \in SUBSET Holidays
    PROVE  DaysOff(GetTeamHolidayMap(s, dates)) \cap DaysToDeclare(u) = {}
  <1> SUFFICES ASSUME NEW d \in DaysOff(GetTeamHolidayMap(s, dates)) PROVE d \notin DaysToDeclare(u)
    OBVIOUS
  <1>1. d \in Period /\ GetTeamHolidayMap(s, dates)[d] = "off"
    BY DEF DaysOff
  <1>2. d \in Holidays /\ TeamMatches(s, holidays[d]) /\ ~holidays[d].imputed
    BY <1>1 DEF GetTeamHolidayMap, HolidayMap
  <1>3. UserMatches(u, holidays[d])
    <2> DEFINE countries == {homes[v] : v \in s} \ {NoCountry}
    <2>1. homes[u] \in countries
      OBVIOUS
    <2>2. holidays[d].countries = {} \/ countries \subseteq holidays[d].countries
      BY <1>2 DEF TeamMatches
    <2>3. QED
      BY <2>1, <2>2 DEF UserMatches
  <1>4. GetUserHolidayMap(u)[d] = "off"
    BY <1>1, <1>2, <1>3 DEF GetUserHolidayMap, HolidayMap
  <1>5. QED
    BY <1>1, <1>4 DEF DaysToDeclare, WorkingDays, DaysOff

-----------------------------------------------------------------------------
(* What the figures that are not in doubt have read is still so.           *)

TotalsHold == page.stage # "stats" => page.totals = StatsOf(page.members)

FooterHolds ==
    "footer" \notin page.unsure =>
        /\ page.stage \in {"mark", "footer"} => TotalsHold
        /\ page.stage \in {"holidays", "everyone", "summary", "shown"} =>
              page.footer.billable = page.totals.billable /\ page.footer.onSite = page.totals.onSite

SummaryHolds ==
    "summary" \notin page.unsure =>
        TotalsHold /\ (page.stage = "shown" => page.summary = StatsOf(page.everyone))

ExpectedHolds ==
    "expected" \notin page.unsure =>
        /\ TotalsHold
        /\ page.stage \in {"everyone", "summary", "shown"} => page.expected = Expected(page.members)

OffDays(marked, s) ==
    \A u \in s : homes[u] # NoCountry => marked \cap DaysToDeclare(u) = {}

MarkedHolds ==
    "marked" \notin page.unsure =>
        IF page.stage \in {"stats", "mark"} THEN page.members \subseteq teams[page.team]
        ELSE OffDays(page.marked, page.members)

FiguresHold == FooterHolds /\ SummaryHolds /\ ExpectedHolds /\ MarkedHolds

ReportsInv == ReportsTypeOK /\ RowsProper /\ (page # NoPage => FiguresHold)

LEMMA InitReports == ReportsInit => ReportsInv
  <1> SUFFICES ASSUME ReportsInit PROVE ReportsInv
    OBVIOUS
  <1>1. rows = [u \in People |-> [d \in Period |-> NoDay]] /\ page = NoPage
    BY DEF ReportsInit
  <1>2. NoDay \in [Half -> Marks \cup {NoStatus}] /\ ExclusiveDay(NoDay)
    BY DEF NoDay, ExclusiveDay, Half
  <1>3. RowsProper
    BY <1>1, <1>2 DEF RowsProper
  <1>4. ReportsTypeOK
    BY <1>1, <1>3, ReportsAssumption DEF ReportsInit, ReportsTypeOK, RowsProper
  <1>5. QED
    BY <1>1, <1>3, <1>4 DEF ReportsInv

LEMMA PageParts ==
    /\ \A p \in Page : p # NoPage /\ p.stage # "idle" /\ p.members \in SUBSET People
    /\ NoPage.stage = "idle"
  BY DEF Page, NoPage

LEMMA PageRead ==
    ASSUME ReportsInv, page.stage # "idle"
    PROVE  /\ page \in Page /\ page.members \in SUBSET People /\ page.everyone \in SUBSET People
           /\ page.unsure \in SUBSET Compared /\ page.team \in Teams
           /\ RowsProper /\ FiguresHold
  <1>1. page \in Page \cup {NoPage}
    BY DEF ReportsInv, ReportsTypeOK
  <1>2. page \in Page
    BY <1>1, PageParts
  <1>3. /\ page.members \in SUBSET People /\ page.everyone \in SUBSET People
        /\ page.unsure \in SUBSET Compared /\ page.team \in Teams
    BY <1>2 DEF Page
  <1>4. page # NoPage
    BY <1>2, PageParts
  <1>5. QED
    BY <1>2, <1>3, <1>4 DEF ReportsInv

LEMMA SameStats ==
    ASSUME rows' = rows
    PROVE  /\ \A u, d : DayStats(u, d)' = DayStats(u, d)
           /\ \A u : UserStats(u)' = UserStats(u)
           /\ \A s : StatsOf(s)' = StatsOf(s)
  <1>1. \A u, d : DayStats(u, d)' = DayStats(u, d)
    BY DEF DayStats
  <1>2. \A u : UserStats(u)' = UserStats(u)
    BY <1>1 DEF UserStats
  <1>3. \A s : StatsOf(s)' = StatsOf(s)
    BY <1>2 DEF StatsOf
  <1>4. QED
    BY <1>1, <1>2, <1>3

LEMMA SameDays ==
    ASSUME UNCHANGED <<homes, holidays>>
    PROVE  /\ \A u : DaysToDeclare(u)' = DaysToDeclare(u)
           /\ \A s : Expected(s)' = Expected(s)
           /\ \A marked, s : OffDays(marked, s)' = OffDays(marked, s)
  <1>1. \A dates : HolidayMap(dates)' = HolidayMap(dates)
    BY DEF HolidayMap
  <1>2. \A u : DaysToDeclare(u)' = DaysToDeclare(u)
    BY <1>1 DEF DaysToDeclare, WorkingDays, DaysOff, GetUserHolidayMap, Holidays, UserMatches
  <1>3. \A s : Expected(s)' = Expected(s)
    BY <1>2 DEF Expected
  <1>4. \A marked, s : OffDays(marked, s)' = OffDays(marked, s)
    BY <1>2 DEF OffDays
  <1>5. QED
    BY <1>2, <1>3, <1>4

LEMMA NobodyHasNothing == RowsProper => StatsOf({}) = NoStats
  <1> SUFFICES ASSUME RowsProper PROVE StatsOf({}) = NoStats
    OBVIOUS
  <1>1. ASSUME NEW f \in Figures PROVE StatsOf({})[f] = 0
    <2> DEFINE v == Each({}, f)
    <2>1. IsFiniteSet({}) /\ v \in [{} -> Nat] /\ StatsOf({})[f] = SumOf(v)
      BY TogetherAre
    <2> HIDE DEF v
    <2>2. SumOf(v) = 0
      BY <2>1, SumOfZeros
    <2>3. QED
      BY <2>1, <2>2
  <1>2. StatsOf({}) \in Stats
    BY TogetherAre
  <1>3. QED
    BY <1>1, <1>2 DEF Figures, Stats, NoStats

-----------------------------------------------------------------------------
(* Edits leave the figures they matter to in doubt, and no others.         *)

LEMMA EditParts ==
    ASSUME ReportsInv, NEW matters, DOMAIN matters \subseteq Compared, Edit(matters)
    PROVE  /\ page' \in Page \cup {NoPage} /\ reportEdits' \in 0..MaxReportEdits
           /\ page # NoPage =>
                 /\ page.stage # "shown" /\ page.stage # "idle"
                 /\ \A f : f \notin page'.unsure =>
                       f \notin page.unsure /\ ~(f \in DOMAIN matters /\ page.stage \in matters[f])
                 /\ page'.stage = page.stage /\ page'.team = page.team
                 /\ page'.members = page.members /\ page'.everyone = page.everyone
                 /\ page'.totals = page.totals /\ page'.marked = page.marked
                 /\ page'.expected = page.expected /\ page'.footer = page.footer
                 /\ page'.summary = page.summary
           /\ page = NoPage => page' = NoPage
  <1> DEFINE astray == {f \in DOMAIN matters : page.stage \in matters[f]}
             unsure == page.unsure \cup astray
  <1>1. page \in Page \cup {NoPage} /\ reportEdits \in 0..MaxReportEdits /\ MaxReportEdits \in Nat
    BY ReportsAssumption DEF ReportsInv, ReportsTypeOK
  <1>2. /\ reportEdits > 0 /\ reportEdits' = reportEdits - 1 /\ page.stage # "shown"
        /\ page' = IF page = NoPage THEN NoPage ELSE [page EXCEPT !.unsure = unsure]
    BY DEF Edit, Disturbed, Astray
  <1>3. reportEdits' \in 0..MaxReportEdits
    BY <1>1, <1>2
  <1>4. CASE page = NoPage
    BY <1>2, <1>3, <1>4
  <1>5. CASE page # NoPage
    <2>1. page \in Page /\ page.stage # "idle"
      BY <1>1, <1>5, PageParts
    <2>2. unsure \in SUBSET Compared
      BY <2>1 DEF Page
    <2>3. \A f : f \notin unsure =>
             f \notin page.unsure /\ ~(f \in DOMAIN matters /\ page.stage \in matters[f])
      OBVIOUS
    <2> HIDE DEF unsure
    <2>4. page' = [page EXCEPT !.unsure = unsure]
      BY <1>2, <1>5
    <2>5. /\ page' \in Page /\ page'.unsure = unsure
          /\ page'.stage = page.stage /\ page'.team = page.team
          /\ page'.members = page.members /\ page'.everyone = page.everyone
          /\ page'.totals = page.totals /\ page'.marked = page.marked
          /\ page'.expected = page.expected /\ page'.footer = page.footer
          /\ page'.summary = page.summary
      BY <2>1, <2>2, <2>4 DEF Page
    <2>6. QED
      BY <1>2, <1>3, <1>5, <2>1, <2>3, <2>5
  <1>6. QED
    BY <1>4, <1>5

LEMMA DeclareDayStep ==
    ASSUME ReportsInv, NEW u \in People, NEW d \in Period, NEW h \in Half, NEW s \in Marks,
           DeclareDay(u, d, h, s)
    PROVE  ReportsInv'
  <1> DEFINE dayRows == rows[u][d]
             new == SetDay(dayRows, h, s)
  <1>1. /\ rows' = [rows EXCEPT ![u][d] = new] /\ UNCHANGED <<homes, holidays, teams>>
        /\ Edit(RowMatters)
    BY DEF DeclareDay
  <1>2. DOMAIN RowMatters = {"footer", "summary", "expected"} /\ DOMAIN RowMatters \subseteq Compared
    BY DEF RowMatters, Compared
  <1>3. /\ RowMatters["footer"] = {"mark", "footer"}
        /\ RowMatters["summary"] = RowsRead /\ RowMatters["expected"] = RowsRead
    BY DEF RowMatters
  <1>4. /\ RowsProper /\ homes \in HomeCountries /\ teams \in [Teams -> SUBSET People]
        /\ holidays \in [Period -> Holiday \cup {NoHoliday}]
    BY DEF ReportsInv, ReportsTypeOK
  <1>5. RowsProper'
    <2>1. dayRows \in [Half -> Marks \cup {NoStatus}] /\ ExclusiveDay(dayRows)
      BY <1>4 DEF RowsProper
    <2> HIDE DEF dayRows
    <2>2. new \in [Half -> Marks \cup {NoStatus}]
      BY <2>1 DEF SetDay
    <2>3. ExclusiveDay(new)
      BY <2>1 DEF SetDay, ExclusiveDay, Half, Displaced
    <2> HIDE DEF new
    <2>4. rows' \in [People -> [Period -> [Half -> Marks \cup {NoStatus}]]]
      BY <1>1, <1>4, <2>2 DEF RowsProper
    <2>5. ASSUME NEW v \in People, NEW e \in Period PROVE ExclusiveDay(rows'[v][e])
      <3>1. rows'[v][e] = new \/ rows'[v][e] = rows[v][e]
        BY <1>1, <1>4 DEF RowsProper
      <3>2. QED
        BY <1>4, <2>3, <3>1 DEF RowsProper
    <2>6. QED
      BY <2>4, <2>5 DEF RowsProper
  <1> HIDE DEF new
  <1>6. page' \in Page \cup {NoPage} /\ reportEdits' \in 0..MaxReportEdits
    BY <1>1, <1>2, EditParts
  <1>7. ASSUME page # NoPage PROVE FiguresHold'
    <2>1. /\ page.stage # "shown" /\ page.stage # "idle"
          /\ \A f \in DOMAIN RowMatters : f \notin page'.unsure =>
                f \notin page.unsure /\ page.stage \notin RowMatters[f]
          /\ "marked" \notin page'.unsure => "marked" \notin page.unsure
          /\ page'.stage = page.stage /\ page'.team = page.team
          /\ page'.members = page.members /\ page'.marked = page.marked
          /\ page'.totals = page.totals /\ page'.footer = page.footer
      BY <1>1, <1>2, <1>7, EditParts
    <2>2. page \in Page /\ FiguresHold
      BY <2>1, PageRead
    <2>3. page.stage \in {"stats"} \cup RowsRead
      BY <2>1, <2>2 DEF Page, RowsRead
    <2>4. FooterHolds'
      <3>1. SUFFICES ASSUME "footer" \notin page'.unsure
                     PROVE  /\ page'.stage \notin {"mark", "footer"}
                            /\ page'.stage \in {"holidays", "everyone", "summary", "shown"} =>
                                  /\ page'.footer.billable = page'.totals.billable
                                  /\ page'.footer.onSite = page'.totals.onSite
        BY DEF FooterHolds
      <3>2. QED
        BY <1>2, <1>3, <2>1, <2>2, <3>1 DEF FiguresHold, FooterHolds
    <2>5. /\ "summary" \notin page'.unsure => page.stage = "stats"
          /\ "expected" \notin page'.unsure => page.stage = "stats"
      BY <1>2, <1>3, <2>1, <2>3
    <2>6. SummaryHolds' /\ ExpectedHolds'
      BY <2>1, <2>5 DEF SummaryHolds, ExpectedHolds, TotalsHold
    <2>7. MarkedHolds'
      BY <1>1, <2>1, <2>2, SameDays DEF FiguresHold, MarkedHolds
    <2>8. QED
      BY <2>4, <2>6, <2>7 DEF FiguresHold
  <1>8. page' # NoPage => page # NoPage
    BY <1>1, <1>2, EditParts
  <1>9. QED
    BY <1>1, <1>4, <1>5, <1>6, <1>7, <1>8 DEF ReportsInv, ReportsTypeOK, RowsProper

LEMMA HolidayStep ==
    ASSUME ReportsInv, NEW d \in Period, NEW holiday \in Holiday \cup {NoHoliday},
           SetHoliday(d, holiday)
    PROVE  ReportsInv'
  <1>1. /\ holidays' = [holidays EXCEPT ![d] = holiday] /\ UNCHANGED <<rows, homes, teams>>
        /\ Edit(HolidayMatters)
    BY DEF SetHoliday
  <1>2. DOMAIN HolidayMatters = {"marked", "expected"} /\ DOMAIN HolidayMatters \subseteq Compared
    BY DEF HolidayMatters, Compared
  <1>3. /\ HolidayMatters["marked"] = {"footer", "holidays", "everyone", "summary"}
        /\ HolidayMatters["expected"] = {"everyone", "summary"}
    BY DEF HolidayMatters, RowsRead
  <1>4. /\ RowsProper /\ homes \in HomeCountries /\ teams \in [Teams -> SUBSET People]
        /\ holidays \in [Period -> Holiday \cup {NoHoliday}]
    BY DEF ReportsInv, ReportsTypeOK
  <1>5. page' \in Page \cup {NoPage} /\ reportEdits' \in 0..MaxReportEdits
    BY <1>1, <1>2, EditParts
  <1>6. ASSUME page # NoPage PROVE FiguresHold'
    <2>1. /\ page.stage # "shown" /\ page.stage # "idle"
          /\ \A f \in DOMAIN HolidayMatters : f \notin page'.unsure =>
                f \notin page.unsure /\ page.stage \notin HolidayMatters[f]
          /\ "footer" \notin page'.unsure => "footer" \notin page.unsure
          /\ "summary" \notin page'.unsure => "summary" \notin page.unsure
          /\ page'.stage = page.stage /\ page'.team = page.team
          /\ page'.members = page.members /\ page'.everyone = page.everyone
          /\ page'.totals = page.totals /\ page'.footer = page.footer
          /\ page'.summary = page.summary
      BY <1>1, <1>2, <1>6, EditParts
    <2>2. page \in Page /\ FiguresHold
      BY <2>1, PageRead
    <2>3. TotalsHold => TotalsHold'
      BY <1>1, <2>1, SameStats DEF TotalsHold
    <2>4. FooterHolds' /\ SummaryHolds'
      BY <1>1, <2>1, <2>2, <2>3 DEF FiguresHold, FooterHolds, SummaryHolds
    <2>5. ExpectedHolds'
      <3>1. "expected" \notin page'.unsure =>
               "expected" \notin page.unsure /\ page.stage \notin {"everyone", "summary", "shown"}
        BY <1>2, <1>3, <2>1
      <3>2. QED
        BY <2>1, <2>2, <2>3, <3>1 DEF FiguresHold, ExpectedHolds
    <2>6. MarkedHolds'
      <3>1. "marked" \notin page'.unsure => "marked" \notin page.unsure /\ page.stage \in {"stats", "mark"}
        BY <1>2, <1>3, <2>1, <2>2 DEF Page
      <3>2. QED
        BY <1>1, <2>1, <2>2, <3>1 DEF FiguresHold, MarkedHolds
    <2>7. QED
      BY <2>4, <2>5, <2>6 DEF FiguresHold
  <1>7. page' # NoPage => page # NoPage
    BY <1>1, <1>2, EditParts
  <1>8. holidays' \in [Period -> Holiday \cup {NoHoliday}] /\ RowsProper'
    BY <1>1, <1>4 DEF RowsProper
  <1>9. QED
    BY <1>1, <1>4, <1>5, <1>6, <1>7, <1>8 DEF ReportsInv, ReportsTypeOK, RowsProper

LEMMA MemberStep ==
    ASSUME ReportsInv, NEW t \in Teams, NEW u \in People, ChangeMember(t, u)
    PROVE  ReportsInv'
  <1>1. /\ teams' = [teams EXCEPT ![t] = IF u \in @ THEN @ \ {u} ELSE @ \cup {u}]
        /\ UNCHANGED <<rows, homes, holidays>> /\ Edit(MemberMatters)
    BY DEF ChangeMember
  <1>2. DOMAIN MemberMatters = {"marked"} /\ DOMAIN MemberMatters \subseteq Compared
    BY DEF MemberMatters, Compared
  <1>3. MemberMatters["marked"] = {"stats", "mark"}
    BY DEF MemberMatters
  <1>4. /\ RowsProper /\ homes \in HomeCountries /\ teams \in [Teams -> SUBSET People]
        /\ holidays \in [Period -> Holiday \cup {NoHoliday}]
    BY DEF ReportsInv, ReportsTypeOK
  <1>5. page' \in Page \cup {NoPage} /\ reportEdits' \in 0..MaxReportEdits
    BY <1>1, <1>2, EditParts
  <1>6. ASSUME page # NoPage PROVE FiguresHold'
    <2>1. /\ page.stage # "shown" /\ page.stage # "idle"
          /\ \A f : f \notin page'.unsure => f \notin page.unsure
          /\ "marked" \notin page'.unsure => page.stage \notin {"stats", "mark"}
          /\ page'.stage = page.stage /\ page'.members = page.members
          /\ page'.everyone = page.everyone /\ page'.marked = page.marked
          /\ page'.totals = page.totals /\ page'.footer = page.footer
          /\ page'.summary = page.summary /\ page'.expected = page.expected
      BY <1>1, <1>2, <1>3, <1>6, EditParts
    <2>2. FiguresHold
      BY <2>1, PageRead
    <2>3. TotalsHold => TotalsHold'
      BY <1>1, <2>1, SameStats DEF TotalsHold
    <2>4. FooterHolds' /\ SummaryHolds'
      BY <1>1, <2>1, <2>2, <2>3 DEF FiguresHold, FooterHolds, SummaryHolds
    <2>5. ExpectedHolds'
      BY <1>1, <2>1, <2>2, <2>3, SameDays DEF FiguresHold, ExpectedHolds
    <2>6. MarkedHolds'
      BY <1>1, <2>1, <2>2, SameDays DEF FiguresHold, MarkedHolds
    <2>7. QED
      BY <2>4, <2>5, <2>6 DEF FiguresHold
  <1>7. page' # NoPage => page # NoPage
    BY <1>1, <1>2, EditParts
  <1>8. teams' \in [Teams -> SUBSET People] /\ RowsProper'
    BY <1>1, <1>4 DEF RowsProper
  <1>9. QED
    BY <1>1, <1>4, <1>5, <1>6, <1>7, <1>8 DEF ReportsInv, ReportsTypeOK, RowsProper

-----------------------------------------------------------------------------
(* The page's queries.                                                     *)

LEMMA ReadParts ==
    ASSUME ReportsInv, UNCHANGED <<rows, homes, holidays, teams>>,
           UNCHANGED reportEdits \/ Disturbed,
           page' \in Page \cup {NoPage}, page' # NoPage => FiguresHold'
    PROVE  ReportsInv'
  <1>1. reportEdits' \in 0..MaxReportEdits
    BY ReportsAssumption DEF ReportsInv, ReportsTypeOK, Disturbed
  <1>2. QED
    BY <1>1 DEF ReportsInv, ReportsTypeOK, RowsProper

(* What was read stays as read, while nothing is edited.                   *)
LEMMA StillSo ==
    ASSUME UNCHANGED <<rows, homes, holidays, teams>>, page'.members = page.members,
           page'.totals = page.totals
    PROVE  /\ TotalsHold /\ page.stage # "stats" => TotalsHold'
           /\ \A s : StatsOf(s)' = StatsOf(s) /\ Expected(s)' = Expected(s)
           /\ \A marked, s : OffDays(marked, s)' = OffDays(marked, s)
  BY SameStats, SameDays DEF TotalsHold

LEMMA ActivityPageStep ==
    ASSUME ReportsInv, NEW t \in Teams, ActivityPage(t) PROVE ReportsInv'
  <1>1. UNCHANGED <<rows, homes, holidays, teams, reportEdits>>
    BY DEF ActivityPage
  <1>2. teams \in [Teams -> SUBSET People]
    BY DEF ReportsInv, ReportsTypeOK
  <1>3. page' = [stage |-> "stats", team |-> t, members |-> teams[t], everyone |-> {},
                 totals |-> NoStats, marked |-> {}, expected |-> 0, footer |-> NoStats,
                 summary |-> NoStats, unsure |-> {}]
    BY DEF ActivityPage
  <1>4. NoStats \in Stats
    BY DEF NoStats, Stats
  <1>5. page' \in Page
    BY <1>2, <1>3, <1>4 DEF Page
  <1>6. page'.members = teams'[page'.team] /\ page'.stage = "stats"
    BY <1>1, <1>3
  <1>7. FiguresHold'
    BY <1>6 DEF FiguresHold, FooterHolds, SummaryHolds, ExpectedHolds, MarkedHolds, TotalsHold
  <1>8. QED
    BY <1>1, <1>5, <1>7, ReadParts

LEMMA TeamStatsStep == ASSUME ReportsInv, GetTeamStats PROVE ReportsInv'
  <1> DEFINE totals == StatsOf(page.members)
             unsure == page.unsure \cup {"expected", "summary"}
  <1>1. /\ UNCHANGED <<rows, homes, holidays, teams>> /\ page.stage = "stats"
        /\ UNCHANGED reportEdits \/ Disturbed
        /\ \/ page' = [page EXCEPT !.stage = "mark", !.totals = totals]
           \/ page' = [page EXCEPT !.stage = "mark", !.members = {}, !.totals = NoStats,
                                  !.unsure = unsure]
    BY DEF GetTeamStats, Astray
  <1>2. /\ page \in Page /\ page.members \in SUBSET People /\ RowsProper /\ FiguresHold
        /\ page.unsure \in SUBSET Compared
    BY <1>1, PageRead
  <1>3. totals \in Stats /\ unsure \in SUBSET Compared
    BY <1>2, TogetherAre DEF Compared
  <1>4. "expected" \in unsure /\ "summary" \in unsure /\ ("marked" \notin unsure => "marked" \notin page.unsure)
    OBVIOUS
  <1>5. CASE page' = [page EXCEPT !.stage = "mark", !.totals = totals]
    <2> HIDE DEF totals
    <2>1. /\ page' \in Page /\ page'.stage = "mark" /\ page'.totals = totals
          /\ page'.members = page.members /\ page'.team = page.team /\ page'.unsure = page.unsure
      BY <1>2, <1>3, <1>5 DEF Page
    <2>2. TotalsHold'
      BY <1>1, <2>1, SameStats DEF TotalsHold, totals
    <2>3. FooterHolds' /\ SummaryHolds' /\ ExpectedHolds'
      BY <2>1, <2>2 DEF FooterHolds, SummaryHolds, ExpectedHolds
    <2>4. MarkedHolds'
      BY <1>1, <1>2, <2>1 DEF FiguresHold, MarkedHolds
    <2>5. QED
      BY <1>1, <2>1, <2>3, <2>4, ReadParts DEF FiguresHold
  <1>6. CASE page' = [page EXCEPT !.stage = "mark", !.members = {}, !.totals = NoStats,
                                  !.unsure = unsure]
    <2> HIDE DEF unsure
    <2>1. NoStats \in Stats
      BY DEF NoStats, Stats
    <2>2. /\ page' \in Page /\ page'.stage = "mark" /\ page'.totals = NoStats
          /\ page'.members = {} /\ page'.unsure = unsure
      BY <1>2, <1>3, <1>6, <2>1 DEF Page
    <2>3. TotalsHold'
      BY <1>1, <1>2, <2>2, NobodyHasNothing, SameStats DEF TotalsHold
    <2>4. FooterHolds' /\ SummaryHolds' /\ ExpectedHolds' /\ MarkedHolds'
      BY <1>4, <2>2, <2>3 DEF FooterHolds, SummaryHolds, ExpectedHolds, MarkedHolds
    <2>5. QED
      BY <1>1, <2>2, <2>4, ReadParts DEF FiguresHold
  <1>7. QED
    BY <1>1, <1>5, <1>6

(* A query of the page that comes after the totals leaves the members and  *)
(* their totals, and what it does not read itself.                         *)
LEMMA QueryKeeps ==
    ASSUME FiguresHold, UNCHANGED <<rows, homes, holidays, teams>>, page.stage # "stats",
           page'.stage # "stats", page'.members = page.members, page'.totals = page.totals,
           page.unsure \subseteq page'.unsure
    PROVE  /\ "footer" \notin page'.unsure /\ page.stage \in {"mark", "footer"} => TotalsHold'
           /\ "summary" \notin page'.unsure \/ "expected" \notin page'.unsure => TotalsHold'
  BY StillSo DEF FiguresHold, FooterHolds, SummaryHolds, ExpectedHolds

LEMMA MarkStep == ASSUME ReportsInv, MarkDaysOff PROVE ReportsInv'
  <1> DEFINE now == teams[page.team]
             unsure == page.unsure \cup {"marked"}
  <1>1. /\ UNCHANGED <<rows, homes, holidays, teams>> /\ page.stage = "mark"
        /\ UNCHANGED reportEdits \/ Disturbed
    BY DEF MarkDaysOff
  <1>2. /\ page \in Page /\ page.members \in SUBSET People /\ RowsProper /\ FiguresHold
        /\ page.unsure \in SUBSET Compared /\ page.team \in Teams /\ now \in SUBSET People
    BY <1>1, PageRead DEF ReportsInv, ReportsTypeOK
  <1>3. unsure \in SUBSET Compared /\ \A map : DaysOff(map) \in SUBSET Period
    BY <1>2 DEF Compared, DaysOff
  <1>4. ASSUME NEW marked \in SUBSET Period
        PROVE  /\ ShowMarked(marked, {}) \/ ShowMarked(marked, {"marked"}) =>
                     /\ page' \in Page /\ page'.stage = "footer" /\ page'.totals = page.totals
                     /\ page'.members = page.members /\ page'.marked = marked
               /\ ShowMarked(marked, {}) => page'.unsure = page.unsure
               /\ ShowMarked(marked, {"marked"}) => page'.unsure = unsure
    <2>1. ASSUME ShowMarked(marked, {})
          PROVE  /\ page' \in Page /\ page'.stage = "footer" /\ page'.totals = page.totals
                 /\ page'.members = page.members /\ page'.marked = marked
                 /\ page'.unsure = page.unsure
      <3>1. page.unsure \cup {} = page.unsure
        OBVIOUS
      <3>2. page' = [page EXCEPT !.stage = "footer", !.marked = marked, !.unsure = page.unsure]
        BY <2>1, <3>1 DEF ShowMarked, Astray
      <3>3. QED
        BY <1>2, <3>2 DEF Page
    <2>2. ASSUME ShowMarked(marked, {"marked"})
          PROVE  /\ page' \in Page /\ page'.stage = "footer" /\ page'.totals = page.totals
                 /\ page'.members = page.members /\ page'.marked = marked
                 /\ page'.unsure = unsure
      <3>1. page' = [page EXCEPT !.stage = "footer", !.marked = marked, !.unsure = unsure]
        BY <2>2 DEF ShowMarked, Astray
      <3> HIDE DEF unsure
      <3>2. QED
        BY <1>2, <1>3, <3>1 DEF Page
    <2> HIDE DEF unsure
    <2>3. QED
      BY <2>1, <2>2
  <1>5. \/ \E dates \in SUBSET Holidays : ShowMarked(DaysOff(GetTeamHolidayMap(now, dates)), {})
        \/ \E map : ShowMarked(DaysOff(map), {"marked"})
    BY DEF MarkDaysOff
  <1> HIDE DEF now, unsure
  <1>6. /\ page' \in Page /\ page'.stage = "footer" /\ page'.totals = page.totals
        /\ page'.members = page.members
        /\ \/ /\ page'.unsure = page.unsure
              /\ \E dates \in SUBSET Holidays :
                    page'.marked = DaysOff(GetTeamHolidayMap(now, dates))
           \/ page'.unsure = unsure
    BY <1>3, <1>4, <1>5
  <1> USE DEF unsure
  <1>7. /\ "footer" \notin page'.unsure => TotalsHold'
        /\ "summary" \notin page'.unsure => TotalsHold'
        /\ "expected" \notin page'.unsure => TotalsHold'
    BY <1>1, <1>2, <1>6, QueryKeeps
  <1>8. FooterHolds' /\ SummaryHolds' /\ ExpectedHolds'
    BY <1>6, <1>7 DEF FooterHolds, SummaryHolds, ExpectedHolds
  <1>9. ASSUME "marked" \notin page'.unsure PROVE OffDays(page'.marked, page'.members)
    <2>1. PICK dates \in SUBSET Holidays : page'.marked = DaysOff(GetTeamHolidayMap(now, dates))
      BY <1>6, <1>9
    <2>2. page.members \subseteq now
      BY <1>1, <1>2, <1>6, <1>9 DEF FiguresHold, MarkedHolds, now
    <2>3. \A u \in now : homes[u] # NoCountry => page'.marked \cap DaysToDeclare(u) = {}
      BY <1>2, <2>1, MarkedIsOff
    <2>4. QED
      BY <1>6, <2>2, <2>3 DEF OffDays
  <1>10. MarkedHolds'
    BY <1>1, <1>6, <1>9, SameDays DEF MarkedHolds
  <1>11. QED
    BY <1>1, <1>6, <1>8, <1>10, ReadParts DEF FiguresHold

LEMMA ReadDaysStep == ASSUME ReportsInv, ReadDays PROVE ReportsInv'
  <1> DEFINE unsure == page.unsure \cup {"footer"}
  <1>1. /\ UNCHANGED <<rows, homes, holidays, teams>> /\ page.stage = "footer"
        /\ UNCHANGED reportEdits \/ Disturbed
    BY DEF ReadDays
  <1>2. /\ page \in Page /\ page.members \in SUBSET People /\ RowsProper /\ FiguresHold
        /\ page.unsure \in SUBSET Compared
    BY <1>1, PageRead
  <1>3. unsure \in SUBSET Compared /\ "footer" \in unsure
    BY <1>2 DEF Compared
  <1>4. /\ \A read \in SUBSET page.members : Footer(read) \in Stats
        /\ Footer(page.members) \in Stats
    BY <1>2, FooterAre
  <1>5. ASSUME NEW footer \in Stats
        PROVE  /\ ShowFooter(footer, {}) \/ ShowFooter(footer, {"footer"}) =>
                     /\ page' \in Page /\ page'.stage = "holidays" /\ page'.totals = page.totals
                     /\ page'.members = page.members /\ page'.marked = page.marked
                     /\ page'.footer = footer
               /\ ShowFooter(footer, {}) => page'.unsure = page.unsure
               /\ ShowFooter(footer, {"footer"}) => page'.unsure = unsure
    <2>1. ASSUME ShowFooter(footer, {})
          PROVE  /\ page' \in Page /\ page'.stage = "holidays" /\ page'.totals = page.totals
                 /\ page'.members = page.members /\ page'.marked = page.marked
                 /\ page'.footer = footer
                 /\ page'.unsure = page.unsure
      <3>1. page.unsure \cup {} = page.unsure
        OBVIOUS
      <3>2. page' = [page EXCEPT !.stage = "holidays", !.footer = footer, !.unsure = page.unsure]
        BY <2>1, <3>1 DEF ShowFooter, Astray
      <3>3. QED
        BY <1>2, <3>2 DEF Page
    <2>2. ASSUME ShowFooter(footer, {"footer"})
          PROVE  /\ page' \in Page /\ page'.stage = "holidays" /\ page'.totals = page.totals
                 /\ page'.members = page.members /\ page'.marked = page.marked
                 /\ page'.footer = footer
                 /\ page'.unsure = unsure
      <3>1. page' = [page EXCEPT !.stage = "holidays", !.footer = footer, !.unsure = unsure]
        BY <2>2 DEF ShowFooter, Astray
      <3> HIDE DEF unsure
      <3>2. QED
        BY <1>2, <1>3, <3>1 DEF Page
    <2> HIDE DEF unsure
    <2>3. QED
      BY <2>1, <2>2
  <1> HIDE DEF unsure
  <1>6. /\ page' \in Page /\ page'.stage = "holidays" /\ page'.totals = page.totals
        /\ page'.members = page.members /\ page'.marked = page.marked
        /\ \/ page'.unsure = page.unsure /\ page'.footer = Footer(page.members)
           \/ page'.unsure = unsure
    <2>1. \/ ShowFooter(Footer(page.members), {})
          \/ \E read \in SUBSET page.members : ShowFooter(Footer(read), {"footer"})
      BY DEF ReadDays
    <2>2. QED
      BY <1>4, <1>5, <2>1
  <1> USE DEF unsure
  <1>7. /\ "footer" \notin page'.unsure => TotalsHold'
        /\ "summary" \notin page'.unsure => TotalsHold'
        /\ "expected" \notin page'.unsure => TotalsHold'
    BY <1>1, <1>2, <1>6, QueryKeeps
  <1>8. ASSUME "footer" \notin page'.unsure
        PROVE  /\ page'.footer.billable = page'.totals.billable
               /\ page'.footer.onSite = page'.totals.onSite
    <2>1. page'.footer = Footer(page.members)
      BY <1>3, <1>6, <1>8
    <2>2. page.totals = StatsOf(page.members)
      BY <1>1, <1>6, <1>7, <1>8, SameStats DEF TotalsHold
    <2>3. \A f \in Figures : page'.footer[f] = page.totals[f]
      BY <1>2, <2>1, <2>2, FooterAre
    <2>4. QED
      BY <1>6, <2>3 DEF Figures
  <1>9. FooterHolds' /\ SummaryHolds' /\ ExpectedHolds'
    BY <1>6, <1>7, <1>8 DEF FooterHolds, SummaryHolds, ExpectedHolds
  <1>10. MarkedHolds'
    <2>1. "marked" \notin page'.unsure => "marked" \notin page.unsure
      BY <1>6
    <2>2. QED
      BY <1>1, <1>2, <1>6, <2>1, SameDays DEF FiguresHold, MarkedHolds
  <1>11. QED
    BY <1>1, <1>6, <1>9, <1>10, ReadParts DEF FiguresHold

LEMMA WorkingDaysStep == ASSUME ReportsInv, CountWorkingDays PROVE ReportsInv'
  <1> DEFINE unsure == page.unsure \cup {"expected"}
             m == page.members
  <1>1. /\ UNCHANGED <<rows, homes, holidays, teams>> /\ page.stage = "holidays"
        /\ UNCHANGED reportEdits \/ Disturbed
    BY DEF CountWorkingDays
  <1>2. /\ page \in Page /\ m \in SUBSET People /\ RowsProper /\ FiguresHold
        /\ page.unsure \in SUBSET Compared
    BY <1>1, PageRead
  <1>3. unsure \in SUBSET Compared /\ "expected" \in unsure
    BY <1>2 DEF Compared
  <1>4. /\ \A maps : ExpectedBy(maps) \in Nat
        /\ ExpectedBy(GetUsersHolidayMaps(m, Holidays, m)) = Expected(m) /\ Expected(m) \in Nat
    BY <1>2, ExpectedTyped, ExpectedIs DEF ExpectedBy
  <1>5. ASSUME NEW expected \in Nat
        PROVE  /\ ShowExpected(expected, {}) \/ ShowExpected(expected, {"expected"}) =>
                     /\ page' \in Page /\ page'.stage = "everyone" /\ page'.totals = page.totals
                     /\ page'.members = m /\ page'.marked = page.marked
                     /\ page'.footer = page.footer /\ page'.expected = expected
               /\ ShowExpected(expected, {}) => page'.unsure = page.unsure
               /\ ShowExpected(expected, {"expected"}) => page'.unsure = unsure
    <2>1. ASSUME ShowExpected(expected, {})
          PROVE  /\ page' \in Page /\ page'.stage = "everyone" /\ page'.totals = page.totals
                 /\ page'.members = m /\ page'.marked = page.marked
                 /\ page'.footer = page.footer /\ page'.expected = expected
                 /\ page'.unsure = page.unsure
      <3>1. page.unsure \cup {} = page.unsure
        OBVIOUS
      <3>2. page' = [page EXCEPT !.stage = "everyone", !.expected = expected, !.unsure = page.unsure]
        BY <2>1, <3>1 DEF ShowExpected, Astray
      <3>3. QED
        BY <1>2, <3>2 DEF Page
    <2>2. ASSUME ShowExpected(expected, {"expected"})
          PROVE  /\ page' \in Page /\ page'.stage = "everyone" /\ page'.totals = page.totals
                 /\ page'.members = m /\ page'.marked = page.marked
                 /\ page'.footer = page.footer /\ page'.expected = expected
                 /\ page'.unsure = unsure
      <3>1. page' = [page EXCEPT !.stage = "everyone", !.expected = expected, !.unsure = unsure]
        BY <2>2 DEF ShowExpected, Astray
      <3> HIDE DEF unsure
      <3>2. QED
        BY <1>2, <1>3, <3>1 DEF Page
    <2> HIDE DEF unsure
    <2>3. QED
      BY <2>1, <2>2
  <1> HIDE DEF unsure
  <1>6. /\ page' \in Page /\ page'.stage = "everyone" /\ page'.totals = page.totals
        /\ page'.members = m /\ page'.marked = page.marked /\ page'.footer = page.footer
        /\ \/ page'.unsure = page.unsure /\ page'.expected = Expected(m)
           \/ page'.unsure = unsure
    <2>1. \/ ShowExpected(ExpectedBy(GetUsersHolidayMaps(m, Holidays, m)), {})
          \/ \E maps : ShowExpected(ExpectedBy(maps), {"expected"})
      BY DEF CountWorkingDays
    <2>2. QED
      BY <1>4, <1>5, <2>1
  <1> USE DEF unsure
  <1>7. /\ "summary" \notin page'.unsure => TotalsHold'
        /\ "expected" \notin page'.unsure => TotalsHold'
        /\ \A f : f \notin page'.unsure => f \notin page.unsure
    BY <1>1, <1>2, <1>6, QueryKeeps
  <1>8. "expected" \notin page'.unsure => page'.expected = Expected(page.members)'
    BY <1>1, <1>3, <1>6, SameDays
  <1>9. FooterHolds'
    BY <1>1, <1>2, <1>6, <1>7 DEF FiguresHold, FooterHolds
  <1>10. SummaryHolds' /\ ExpectedHolds'
    BY <1>6, <1>7, <1>8 DEF SummaryHolds, ExpectedHolds
  <1>11. MarkedHolds'
    BY <1>1, <1>2, <1>6, <1>7, SameDays DEF FiguresHold, MarkedHolds
  <1>12. QED
    BY <1>1, <1>6, <1>9, <1>10, <1>11, ReadParts DEF FiguresHold

LEMMA EveryoneStep == ASSUME ReportsInv, Everyone PROVE ReportsInv'
  <1> DEFINE everyone == UNION {teams[t] : t \in Teams}
  <1>1. /\ UNCHANGED <<rows, homes, holidays, teams, reportEdits>> /\ page.stage = "everyone"
        /\ page' = [page EXCEPT !.stage = "summary", !.everyone = everyone]
    BY DEF Everyone
  <1>2. page \in Page /\ FiguresHold
    BY <1>1, PageRead
  <1>3. everyone \in SUBSET People
    BY DEF ReportsInv, ReportsTypeOK
  <1> HIDE DEF everyone
  <1>4. /\ page' \in Page /\ page'.stage = "summary" /\ page'.unsure = page.unsure
        /\ page'.totals = page.totals /\ page'.marked = page.marked
        /\ page'.members = page.members /\ page'.expected = page.expected
        /\ page'.footer = page.footer
    BY <1>1, <1>2, <1>3 DEF Page
  <1>5. "summary" \notin page'.unsure \/ "expected" \notin page'.unsure => TotalsHold'
    BY <1>1, <1>2, <1>4, QueryKeeps
  <1>6. FooterHolds' /\ SummaryHolds'
    BY <1>1, <1>2, <1>4, <1>5 DEF FiguresHold, FooterHolds, SummaryHolds
  <1>7. ExpectedHolds' /\ MarkedHolds'
    BY <1>1, <1>2, <1>4, <1>5, SameDays DEF FiguresHold, ExpectedHolds, MarkedHolds
  <1>8. QED
    BY <1>1, <1>4, <1>6, <1>7, ReadParts DEF FiguresHold

LEMMA SummaryStep == ASSUME ReportsInv, Summary PROVE ReportsInv'
  <1> DEFINE summary == StatsOf(page.everyone)
             unsure == page.unsure \cup {"summary"}
  <1>1. /\ UNCHANGED <<rows, homes, holidays, teams>> /\ page.stage = "summary"
        /\ UNCHANGED reportEdits \/ Disturbed
        /\ \/ page' = [page EXCEPT !.stage = "shown", !.summary = summary]
           \/ page' = [page EXCEPT !.stage = "shown", !.everyone = {}, !.unsure = unsure]
    BY DEF Summary, Astray
  <1>2. /\ page \in Page /\ page.everyone \in SUBSET People /\ RowsProper /\ FiguresHold
        /\ page.unsure \in SUBSET Compared
    BY <1>1, PageRead
  <1>3. summary \in Stats /\ unsure \in SUBSET Compared /\ "summary" \in unsure
    BY <1>2, TogetherAre DEF Compared
  <1>4. \A f : f \notin unsure => f \notin page.unsure
    OBVIOUS
  <1>5. /\ page' \in Page /\ page'.stage = "shown"
        /\ page'.totals = page.totals /\ page'.marked = page.marked
        /\ page'.members = page.members /\ page'.expected = page.expected
        /\ page'.footer = page.footer
        /\ \/ page'.unsure = page.unsure /\ page'.everyone = page.everyone /\ page'.summary = summary
           \/ page'.unsure = unsure
    <2> HIDE DEF summary, unsure
    <2>1. QED
      BY <1>1, <1>2, <1>3 DEF Page
  <1> HIDE DEF unsure
  <1>6. /\ "summary" \notin page'.unsure \/ "expected" \notin page'.unsure => TotalsHold'
        /\ \A f : f \notin page'.unsure => f \notin page.unsure
    BY <1>1, <1>2, <1>4, <1>5, QueryKeeps
  <1>7. "summary" \notin page'.unsure => page'.summary = StatsOf(page.everyone)'
    BY <1>1, <1>3, <1>5, SameStats
  <1>8. SummaryHolds'
    BY <1>5, <1>6, <1>7 DEF SummaryHolds
  <1>9. FooterHolds'
    BY <1>1, <1>2, <1>5, <1>6 DEF FiguresHold, FooterHolds
  <1>10. ExpectedHolds' /\ MarkedHolds'
    BY <1>1, <1>2, <1>5, <1>6, SameDays DEF FiguresHold, ExpectedHolds, MarkedHolds
  <1>11. QED
    BY <1>1, <1>5, <1>8, <1>9, <1>10, ReadParts DEF FiguresHold

LEMMA ClosePageStep == ASSUME ReportsInv, ClosePage PROVE ReportsInv'
  BY ReadParts DEF ClosePage

LEMMA NextReports == ReportsInv /\ [ReportsNext]_reportVars => ReportsInv'
  <1> SUFFICES ASSUME ReportsInv, [ReportsNext]_reportVars PROVE ReportsInv'
    OBVIOUS
  <1>1. ASSUME NEW t \in Teams, ActivityPage(t) PROVE ReportsInv'
    BY <1>1, ActivityPageStep
  <1>2. CASE GetTeamStats
    BY <1>2, TeamStatsStep
  <1>3. CASE MarkDaysOff
    BY <1>3, MarkStep
  <1>4. CASE ReadDays
    BY <1>4, ReadDaysStep
  <1>5. CASE CountWorkingDays
    BY <1>5, WorkingDaysStep
  <1>6. CASE Everyone
    BY <1>6, EveryoneStep
  <1>7. CASE Summary
    BY <1>7, SummaryStep
  <1>8. CASE ClosePage
    BY <1>8, ClosePageStep
  <1>9. ASSUME NEW u \in People, NEW d \in Period, NEW h \in Half, NEW s \in Marks,
               DeclareDay(u, d, h, s)
        PROVE  ReportsInv'
    BY <1>9, DeclareDayStep
  <1>10. ASSUME NEW d \in Period, NEW table \in HolidayTables, SetHoliday(d, table[d])
         PROVE  ReportsInv'
    <2>1. table[d] \in Holiday \cup {NoHoliday}
      BY ReportsAssumption
    <2>2. QED
      BY <1>10, <2>1, HolidayStep
  <1>11. ASSUME NEW t \in Teams, NEW u \in People, ChangeMember(t, u) PROVE ReportsInv'
    BY <1>11, MemberStep
  <1>12. CASE UNCHANGED reportVars
    <2>1. UNCHANGED <<rows, homes, holidays, teams, page, reportEdits>>
      BY <1>12 DEF reportVars
    <2>2. page # NoPage => FiguresHold'
      <3>1. TotalsHold => TotalsHold'
        BY <2>1, SameStats DEF TotalsHold
      <3>2. FiguresHold => FiguresHold'
        BY <2>1, <3>1, SameStats, SameDays
           DEF FiguresHold, FooterHolds, SummaryHolds, ExpectedHolds, MarkedHolds
      <3>3. QED
        BY <3>2 DEF ReportsInv
    <2>3. QED
      BY <2>1, <2>2, ReadParts DEF ReportsInv, ReportsTypeOK
  <1>13. QED
    BY <1>1, <1>2, <1>3, <1>4, <1>5, <1>6, <1>7, <1>8, <1>9, <1>10, <1>11, <1>12
       DEF ReportsNext

-----------------------------------------------------------------------------
LEMMA PageDoesReconcile == ReportsInv => PageReconciles
  <1> SUFFICES ASSUME ReportsInv, page.stage = "shown" PROVE PageReconciles
    BY DEF PageReconciles, PageAddsUp, MissingDaysTold, Sure
  <1> DEFINE s == page.members
             e == page.everyone
  <1>1. /\ page \in Page /\ RowsProper /\ FiguresHold
        /\ s \in SUBSET People /\ e \in SUBSET People
    BY PageRead
  <1>2. "footer" \notin page.unsure =>
           page.footer.billable = page.totals.billable /\ page.footer.onSite = page.totals.onSite
    BY <1>1 DEF FiguresHold, FooterHolds
  <1>3. ASSUME "summary" \notin page.unsure
        PROVE  Add(page.summary, StatsOf(s \ e)) = Add(page.totals, StatsOf(e \ s))
    <2> DEFINE both == s \cap e
    <2>1. page.totals = StatsOf(s) /\ page.summary = StatsOf(e)
      BY <1>1, <1>3 DEF FiguresHold, SummaryHolds, TotalsHold
    <2>2. s \ both = s \ e /\ e \ both = e \ s /\ both \in SUBSET s /\ both \in SUBSET e
      OBVIOUS
    <2> HIDE DEF both
    <2>3. StatsOf(s) = Add(StatsOf(both), StatsOf(s \ e))
      BY <1>1, <2>2, TogetherSplit
    <2>4. StatsOf(e) = Add(StatsOf(both), StatsOf(e \ s))
      BY <1>1, <2>2, TogetherSplit
    <2>5. /\ StatsOf(both) \in [Figures -> Nat] /\ StatsOf(s \ e) \in [Figures -> Nat]
          /\ StatsOf(e \ s) \in [Figures -> Nat]
      BY <1>1, <2>2, TogetherAre, StatsAre
    <2>6. \A x, y : Add(x, y) = [f \in Figures |-> x[f] + y[f]]
      BY StatsAre DEF Add
    <2> DEFINE x == StatsOf(both)
               y == StatsOf(s \ e)
               z == StatsOf(e \ s)
    <2>7. /\ page.totals = [f \in Figures |-> x[f] + y[f]]
          /\ page.summary = [f \in Figures |-> x[f] + z[f]]
      BY <2>1, <2>3, <2>4, <2>6
    <2>8. x \in [Figures -> Nat] /\ y \in [Figures -> Nat] /\ z \in [Figures -> Nat]
      BY <2>5
    <2> HIDE DEF x, y, z
    <2>9. /\ Add(page.summary, y) = [f \in Figures |-> page.summary[f] + y[f]]
          /\ Add(page.totals, z) = [f \in Figures |-> page.totals[f] + z[f]]
      BY <2>6
    <2>10. \A f \in Figures : page.summary[f] + y[f] = page.totals[f] + z[f]
      BY <2>7, <2>8
    <2>11. Add(page.summary, y) = Add(page.totals, z)
      BY <2>9, <2>10
    <2>12. QED
      BY <2>11 DEF y, z
  <1>4. PageAddsUp
    BY <1>2, <1>3 DEF PageAddsUp, Sure
  <1>5. ASSUME "expected" \notin page.unsure,
               \A u \in s, d \in Period : DayStats(u, d)["set"] > 0 => d \in DaysToDeclare(u)
        PROVE  NotSet = SumOf([u \in s |-> Missing(u)])
    <2> DEFINE missing == SumOf([u \in s |-> Missing(u)])
    <2>1. /\ missing \in Nat /\ StatsOf(s)["set"] \in Nat
          /\ missing + StatsOf(s)["set"] = Expected(s)
      BY <1>1, <1>5, MissingOfAll
    <2>2. page.totals = StatsOf(s) /\ page.expected = Expected(s)
      BY <1>1, <1>5 DEF FiguresHold, ExpectedHolds, TotalsHold
    <2> HIDE DEF missing
    <2>3. page.expected = missing + page.totals.set /\ page.totals.set \in Nat
      BY <2>1, <2>2
    <2>4. NotSet = missing
      BY <2>1, <2>3 DEF NotSet
    <2>5. QED
      BY <2>4 DEF missing
  <1>6. "marked" \notin page.unsure => OffDays(page.marked, s)
    BY <1>1 DEF FiguresHold, MarkedHolds
  <1>7. MissingDaysTold
    BY <1>5, <1>6 DEF MissingDaysTold, Sure, OffDays, DaysToDeclare
  <1>8. QED
    BY <1>4, <1>7 DEF PageReconciles

(* The activity page keeps its types, with no more half-days for anybody   *)
(* than the days have.                                                     *)
THEOREM ReportsWellTyped == ReportsSpec => []ReportsTypeOK
  <1>1. ReportsInv => ReportsTypeOK
    BY DEF ReportsInv
  <1>2. QED
    BY <1>1, InitReports, NextReports, PTL DEF ReportsSpec

(* An activity page reconciles, for every number of people, teams, dates   *)
(* and holidays and whatever is edited between its queries: each figure    *)
(* that no edit between its own queries and no query that failed led       *)
(* astray agrees with the others, so the members' totals are those of the  *)
(* daily table, the summary counts everyone once, and the days shown as    *)
(* not set are those that are to be declared (ActivityPage, GetTeamStats,  *)
(* GetTeamsStats, GetUsersHolidayMaps).                                    *)
THEOREM PagesReconcile == ReportsSpec => []PageReconciles
  <1>1. QED
    BY InitReports, NextReports, PageDoesReconcile, PTL DEF ReportsSpec

-----------------------------------------------------------------------------
(* What a sheet adds up.                                                   *)

SingleDomains == \A u \in Staff : Cardinality({m \in AllDomains : InDomain(u, m)}) = 1

LEMMA DomainsAre ==
    /\ IsFiniteSet(AllDomains)
    /\ SingleDomains => \A u \in Staff : \E m \in AllDomains :
                           InDomain(u, m) /\ \A n \in AllDomains : InDomain(u, n) => n = m
  <1>1. IsFiniteSet(AllDomains)
    BY SitesAssumption, FS_AddElement DEF AllDomains
  <1>2. ASSUME SingleDomains, NEW u \in Staff
        PROVE  \E m \in AllDomains :
                  InDomain(u, m) /\ \A n \in AllDomains : InDomain(u, n) => n = m
    <2> DEFINE ms == {m \in AllDomains : InDomain(u, m)}
    <2>1. IsFiniteSet(ms) /\ Cardinality(ms) = 1
      BY <1>1, <1>2, FS_Subset DEF SingleDomains
    <2>2. PICK m : ms = {m}
      <3> HIDE DEF ms
      <3>1. QED
        BY <2>1, FS_Singleton
    <2>3. QED
      BY <2>2
  <1>3. QED
    BY <1>1, <1>2

Weights(S) == [r \in S |-> IF r.half = "full" THEN 2 ELSE 1]

(* The rows of a site, domain by domain.                                   *)
LEMMA RowsAddUp ==
    ASSUME SingleDomains, NEW S, IsFiniteSet(S), \A r \in S : r.user \in Staff
    PROVE  SumOf([m \in AllDomains |-> DomainTotal(S, m)]) = HalfWeight(S)
  <1> DEFINE v == Weights(S)
             c == [m \in AllDomains |-> {r \in S : InDomain(r.user, m)}]
  <1>1. v \in [S -> Nat] /\ HalfWeight(S) = SumOf(v)
    BY DEF Weights, HalfWeight
  <1>2. c \in [AllDomains -> SUBSET S] /\ \A m \in AllDomains : c[m] = {r \in S : InDomain(r.user, m)}
    OBVIOUS
  <1>3. ASSUME NEW r \in S
        PROVE  \E m \in AllDomains : r \in c[m] /\ \A n \in AllDomains : r \in c[n] => n = m
    <2>1. PICK m \in AllDomains :
             InDomain(r.user, m) /\ \A n \in AllDomains : InDomain(r.user, n) => n = m
      BY DomainsAre
    <2>2. QED
      BY <1>2, <2>1
  <1> HIDE DEF c
  <1>4. ASSUME NEW m \in AllDomains PROVE DomainTotal(S, m) = SumOf(On(v, c[m]))
    <2>1. On(v, c[m]) = Weights(c[m])
      BY <1>2 DEF On, Weights
    <2>2. DomainTotal(S, m) = HalfWeight(c[m])
      BY <1>2 DEF DomainTotal
    <2>3. HalfWeight(c[m]) = SumOf(Weights(c[m]))
      BY DEF HalfWeight, Weights
    <2>4. QED
      BY <2>1, <2>2, <2>3
  <1>5. [m \in AllDomains |-> DomainTotal(S, m)] = [m \in AllDomains |-> SumOf(On(v, c[m]))]
    BY <1>4
  <1>6. IsFiniteSet(AllDomains)
    BY DomainsAre
  <1> HIDE DEF v
  <1>7. SumOf([m \in AllDomains |-> SumOf(On(v, c[m]))]) = SumOf(v)
    BY <1>1, <1>2, <1>3, <1>6, SumOfCells
  <1>8. QED
    BY <1>1, <1>5, <1>7

(* The people of a site, domain by domain.                                 *)
LEMMA PeopleAddUp ==
    ASSUME SingleDomains, NEW S \in SUBSET Staff
    PROVE  SumOf([m \in AllDomains |-> Cardinality({u \in S : InDomain(u, m)})]) = Cardinality(S)
  <1> DEFINE c == [m \in AllDomains |-> {u \in S : InDomain(u, m)}]
  <1>1. IsFiniteSet(S) /\ IsFiniteSet(AllDomains)
    BY SitesAssumption, DomainsAre, FS_Subset
  <1>2. c \in [AllDomains -> SUBSET S] /\ \A m \in AllDomains : c[m] = {u \in S : InDomain(u, m)}
    OBVIOUS
  <1>3. ASSUME NEW u \in S
        PROVE  \E m \in AllDomains : u \in c[m] /\ \A n \in AllDomains : u \in c[n] => n = m
    <2>1. PICK m \in AllDomains :
             InDomain(u, m) /\ \A n \in AllDomains : InDomain(u, n) => n = m
      BY DomainsAre
    <2>2. QED
      BY <1>2, <2>1
  <1>4. [m \in AllDomains |-> Cardinality({u \in S : InDomain(u, m)})]
          = [m \in AllDomains |-> Cardinality(c[m])]
    BY <1>2
  <1> HIDE DEF c
  <1>5. SumOf([m \in AllDomains |-> Cardinality(c[m])]) = Cardinality(S)
    BY <1>1, <1>2, <1>3, CardinalityOfCells
  <1>6. QED
    BY <1>4, <1>5

-----------------------------------------------------------------------------
(* A sheet has of each user's desks on a day the site of one of them,      *)
(* unless they were not all got or changed since.                          *)

SitesOn(u, d) == {r.site : r \in {x \in desks : x.user = u /\ x.date = d}}

ReadWell ==
    report # NoReport =>
        \A u \in Staff, d \in Month : d \notin report.lost[u] =>
            IF SitesOn(u, d) = {} THEN report.siteOf[u][d] = NoSite
            ELSE report.siteOf[u][d] \in SitesOn(u, d)

SitesInv ==
    /\ SitesTypeOK
    /\ IsFiniteSet(onSite) /\ IsFiniteSet(desks)
    /\ report # NoReport => IsFiniteSet(report.desks) /\ IsFiniteSet(report.presences)
    /\ ReadWell

LEMMA InitSites == SitesInit => SitesInv
  <1> SUFFICES ASSUME SitesInit PROVE SitesInv
    OBVIOUS
  <1>1. SitesTypeOK
    BY SitesAssumption DEF SitesInit, SitesTypeOK
  <1>2. QED
    BY <1>1, FS_EmptySet DEF SitesInit, SitesInv, ReadWell

LEMMA ReportParts ==
    /\ \A r \in Report : /\ r # NoReport /\ r.stage # "idle" /\ r.desks \subseteq DeskRow
                         /\ r.presences \subseteq PresenceRow
    /\ NoReport.stage = "idle"
  BY DEF Report, NoReport

LEMMA MayFailKeeps ==
    ASSUME siteEdits \in 0..MaxSiteEdits, NEW b \in BOOLEAN, MayFail(b)
    PROVE  siteEdits' \in 0..MaxSiteEdits
  BY SitesAssumption DEF MayFail

LEMMA ReservationsStep ==
    ASSUME SitesInv, NEW got \in SUBSET desks, NEW dropped \in SUBSET Lookup,
           ReadReservations(got, dropped)
    PROVE  SitesInv'
  <1> DEFINE gone == [u \in Staff |-> {r.date : r \in {x \in desks \ got : x.user = u}}]
  <1>1. PICK siteOf \in [Staff -> [Month -> Sites \cup {NoSite}]] :
          /\ \A u \in Staff, d \in Month :
                LET sites == {r.site : r \in {x \in got : x.user = u /\ x.date = d}}
                IN  IF sites = {} THEN siteOf[u][d] = NoSite ELSE siteOf[u][d] \in sites
          /\ report' = [stage |-> "presences", dropped |-> dropped, desks |-> got,
                        siteOf |-> siteOf, presences |-> {}, lost |-> gone]
    BY DEF ReadReservations
  <1>2. UNCHANGED <<home, memberOf, onSite, desks>> /\ siteEdits' \in 0..MaxSiteEdits
    BY MayFailKeeps DEF ReadReservations, SitesInv, SitesTypeOK
  <1>3. got \subseteq DeskRow /\ IsFiniteSet(got) /\ desks \subseteq DeskRow
    BY FS_Subset DEF SitesInv, SitesTypeOK
  <1>4. gone \in [Staff -> SUBSET Month]
    BY <1>3 DEF DeskRow
  <1>5. report' \in Report
    BY <1>1, <1>3, <1>4 DEF Report
  <1>6. /\ report'.desks = got /\ report'.presences = {} /\ report'.siteOf = siteOf
        /\ report'.lost = gone
    BY <1>1
  <1>7. ASSUME NEW u \in Staff, NEW d \in Month, d \notin gone[u]
        PROVE  {r.site : r \in {x \in got : x.user = u /\ x.date = d}} = SitesOn(u, d)
    <2>1. \A x \in desks : x.user = u /\ x.date = d => x \in got
      BY <1>7
    <2>2. {x \in got : x.user = u /\ x.date = d} = {x \in desks : x.user = u /\ x.date = d}
      BY <2>1
    <2>3. QED
      BY <2>2 DEF SitesOn
  <1>8. ASSUME NEW u \in Staff, NEW d \in Month, d \notin gone[u]
        PROVE  IF SitesOn(u, d) = {} THEN siteOf[u][d] = NoSite ELSE siteOf[u][d] \in SitesOn(u, d)
    <2>1. {r.site : r \in {x \in got : x.user = u /\ x.date = d}} = SitesOn(u, d)
      BY <1>7, <1>8
    <2>2. QED
      BY <1>1, <2>1
  <1> HIDE DEF gone
  <1>9. ReadWell'
    BY <1>2, <1>6, <1>8 DEF ReadWell, SitesOn
  <1>10. QED
    BY <1>2, <1>3, <1>5, <1>6, <1>9, FS_EmptySet DEF SitesInv, SitesTypeOK

LEMMA PresencesStep ==
    ASSUME SitesInv, NEW got \in SUBSET onSite, ReadPresences(got) PROVE SitesInv'
  <1>1. /\ report' = [report EXCEPT !.stage = "shown", !.presences = got]
        /\ report.stage = "presences" /\ UNCHANGED <<home, memberOf, onSite, desks>>
    BY DEF ReadPresences
  <1>2. siteEdits' \in 0..MaxSiteEdits
    BY MayFailKeeps DEF ReadPresences, SitesInv, SitesTypeOK
  <1>3. /\ report \in Report /\ report # NoReport /\ got \subseteq PresenceRow
        /\ IsFiniteSet(got) /\ IsFiniteSet(report.desks)
    BY <1>1, ReportParts, FS_Subset DEF SitesInv, SitesTypeOK
  <1>4. /\ report' \in Report /\ report'.desks = report.desks /\ report'.siteOf = report.siteOf
        /\ report'.presences = got /\ report'.lost = report.lost
    BY <1>1, <1>3 DEF Report
  <1>5. ReadWell'
    BY <1>1, <1>3, <1>4 DEF SitesInv, ReadWell, SitesOn
  <1>6. QED
    BY <1>1, <1>2, <1>3, <1>4, <1>5 DEF SitesInv, SitesTypeOK

LEMMA CloseReportStep == ASSUME SitesInv, CloseReport PROVE SitesInv'
  BY DEF CloseReport, SitesInv, SitesTypeOK, ReadWell

(* Edits leave what was read as it is, and mark it.                        *)
LEMMA SiteEditParts ==
    ASSUME SitesInv, NEW u \in Staff, NEW dates \in SUBSET Month, SiteEdit(u, dates)
    PROVE  /\ report' \in Report \cup {NoReport} /\ siteEdits' \in 0..MaxSiteEdits
           /\ report' # NoReport => /\ report # NoReport
                                    /\ report'.lost = [report.lost EXCEPT ![u] = @ \cup dates]
                                    /\ report'.desks = report.desks
                                    /\ report'.siteOf = report.siteOf
                                    /\ report'.presences = report.presences
  <1>1. report \in Report \cup {NoReport} /\ siteEdits \in 0..MaxSiteEdits /\ MaxSiteEdits \in Nat
    BY SitesAssumption DEF SitesInv, SitesTypeOK
  <1>2. /\ siteEdits > 0 /\ siteEdits' = siteEdits - 1
        /\ report' = IF report = NoReport THEN NoReport
                     ELSE [report EXCEPT !.lost[u] = @ \cup dates]
    BY DEF SiteEdit
  <1>3. siteEdits' \in 0..MaxSiteEdits
    BY <1>1, <1>2
  <1>4. CASE report = NoReport
    BY <1>2, <1>3, <1>4
  <1>5. CASE report # NoReport
    <2> DEFINE lost == [report.lost EXCEPT ![u] = @ \cup dates]
    <2>1. report' = [report EXCEPT !.lost = lost] /\ report \in Report
      BY <1>1, <1>2, <1>5
    <2>2. lost \in [Staff -> SUBSET Month]
      BY <2>1 DEF Report
    <2>3. /\ report' \in Report /\ report'.lost = lost
          /\ report'.desks = report.desks /\ report'.siteOf = report.siteOf
          /\ report'.presences = report.presences
      <3> HIDE DEF lost
      <3>1. QED
        BY <2>1, <2>2 DEF Report
    <2>4. QED
      BY <1>3, <1>5, <2>3
  <1>6. QED
    BY <1>4, <1>5

(* The desks an edit does not mark are those that were there.              *)
LEMMA SiteEditKeeps ==
    ASSUME SitesInv, NEW v \in Staff, NEW dates \in SUBSET Month, SiteEdit(v, dates),
           UNCHANGED <<home, memberOf>>,
           onSite' \subseteq PresenceRow, desks' \subseteq DeskRow,
           IsFiniteSet(onSite'), IsFiniteSet(desks'),
           \A u \in Staff, d \in Month :
               ~(u = v /\ d \in dates) => SitesOn(u, d)' = SitesOn(u, d)
    PROVE  SitesInv'
  <1>1. ASSUME report' # NoReport, NEW u \in Staff, NEW d \in Month, d \notin report'.lost[u]
        PROVE  d \notin report.lost[u] /\ ~(u = v /\ d \in dates)
    <2>1. /\ report # NoReport /\ report \in Report
          /\ report'.lost = [report.lost EXCEPT ![v] = @ \cup dates]
      BY <1>1, SiteEditParts DEF SitesInv, SitesTypeOK
    <2>2. report.lost \in [Staff -> SUBSET Month]
      BY <2>1 DEF Report
    <2>3. QED
      BY <1>1, <2>1, <2>2
  <1>2. ASSUME report' # NoReport, NEW u \in Staff, NEW d \in Month, d \notin report'.lost[u]
        PROVE  IF SitesOn(u, d)' = {} THEN report'.siteOf[u][d] = NoSite
               ELSE report'.siteOf[u][d] \in SitesOn(u, d)'
    <2>1. report # NoReport /\ report'.siteOf = report.siteOf
      BY <1>2, SiteEditParts
    <2>2. d \notin report.lost[u] /\ SitesOn(u, d)' = SitesOn(u, d)
      BY <1>1, <1>2
    <2>3. IF SitesOn(u, d) = {} THEN report.siteOf[u][d] = NoSite
          ELSE report.siteOf[u][d] \in SitesOn(u, d)
      BY <2>1, <2>2 DEF SitesInv, ReadWell
    <2>4. QED
      BY <2>1, <2>2, <2>3
  <1>3. ReadWell'
    BY <1>2 DEF ReadWell
  <1>4. QED
    BY <1>3, SiteEditParts DEF SitesInv, SitesTypeOK

(* One desk more or less, for one user on one date.                        *)
LEMMA OtherDesks ==
    ASSUME NEW D, NEW r, NEW u, NEW d, ~(u = r.user /\ d \in {r.date})
    PROVE  /\ {x \in D \cup {r} : x.user = u /\ x.date = d} = {x \in D : x.user = u /\ x.date = d}
           /\ {x \in D \ {r} : x.user = u /\ x.date = d} = {x \in D : x.user = u /\ x.date = d}
  <1>1. ~(r.user = u /\ r.date = d)
    OBVIOUS
  <1>2. QED
    BY <1>1

LEMMA NextSites == SitesInv /\ [SitesNext]_siteVars => SitesInv'
  <1> SUFFICES ASSUME SitesInv, [SitesNext]_siteVars PROVE SitesInv'
    OBVIOUS
  <1>1. ASSUME NEW got \in SUBSET desks, NEW dropped \in SUBSET Lookup,
               ReadReservations(got, dropped)
        PROVE  SitesInv'
    BY <1>1, ReservationsStep
  <1>2. ASSUME NEW got \in SUBSET onSite, ReadPresences(got) PROVE SitesInv'
    BY <1>2, PresencesStep
  <1>3. CASE CloseReport
    BY <1>3, CloseReportStep
  <1>4. /\ onSite \subseteq PresenceRow /\ desks \subseteq DeskRow
        /\ IsFiniteSet(onSite) /\ IsFiniteSet(desks)
    BY DEF SitesInv, SitesTypeOK
  <1>5. ASSUME NEW p \in PresenceRow, DeclareOnSite(p) PROVE SitesInv'
    <2> DEFINE left == onSite \ Clashes(p, onSite)
    <2>1. /\ SiteEdit(p.user, {}) /\ UNCHANGED <<home, memberOf, desks>> /\ onSite' = left \cup {p}
      BY <1>5 DEF DeclareOnSite
    <2>2. left \subseteq onSite /\ IsFiniteSet(left)
      BY <1>4, FS_Subset
    <2> HIDE DEF left
    <2>3. IsFiniteSet(left \cup {p}) /\ left \cup {p} \subseteq PresenceRow
      BY <1>4, <2>2, FS_AddElement
    <2>4. \A u \in Staff, d \in Month : SitesOn(u, d)' = SitesOn(u, d)
      BY <2>1 DEF SitesOn
    <2>5. p.user \in Staff /\ {} \in SUBSET Month
      BY DEF PresenceRow
    <2>6. QED
      BY <1>4, <2>1, <2>3, <2>4, <2>5, SiteEditKeeps
  <1>6. ASSUME NEW r \in DeskRow, ReserveDesk(r) PROVE SitesInv'
    <2>1. /\ SiteEdit(r.user, {r.date}) /\ UNCHANGED <<home, memberOf, onSite>> /\ desks' = desks \cup {r}
      BY <1>6 DEF ReserveDesk
    <2>2. IsFiniteSet(desks \cup {r}) /\ desks \cup {r} \subseteq DeskRow
      BY <1>4, FS_AddElement
    <2>3. r.user \in Staff /\ {r.date} \in SUBSET Month
      BY DEF DeskRow
    <2>4. ASSUME NEW u \in Staff, NEW d \in Month, ~(u = r.user /\ d \in {r.date})
          PROVE  SitesOn(u, d)' = SitesOn(u, d)
      BY <2>1, <2>4, OtherDesks DEF SitesOn
    <2>5. QED
      BY <1>4, <2>1, <2>2, <2>3, <2>4, SiteEditKeeps
  <1>7. ASSUME NEW r \in DeskRow, CancelDesk(r) PROVE SitesInv'
    <2>1. /\ SiteEdit(r.user, {r.date}) /\ UNCHANGED <<home, memberOf, onSite>> /\ desks' = desks \ {r}
      BY <1>7 DEF CancelDesk
    <2>2. IsFiniteSet(desks \ {r}) /\ desks \ {r} \subseteq DeskRow
      BY <1>4, FS_Subset
    <2>3. r.user \in Staff /\ {r.date} \in SUBSET Month
      BY DEF DeskRow
    <2>4. ASSUME NEW u \in Staff, NEW d \in Month, ~(u = r.user /\ d \in {r.date})
          PROVE  SitesOn(u, d)' = SitesOn(u, d)
      BY <2>1, <2>4, OtherDesks DEF SitesOn
    <2>5. QED
      BY <1>4, <2>1, <2>2, <2>3, <2>4, SiteEditKeeps
  <1>8. CASE UNCHANGED siteVars
    BY <1>8 DEF siteVars, SitesInv, SitesTypeOK, ReadWell, SitesOn
  <1>9. QED
    BY <1>1, <1>2, <1>3, <1>5, <1>6, <1>7, <1>8 DEF SitesNext

-----------------------------------------------------------------------------
LEMMA ReportShown ==
    ASSUME SitesInv, report.stage = "shown"
    PROVE  /\ report \in Report /\ report # NoReport
           /\ report.presences \subseteq PresenceRow /\ report.desks \subseteq DeskRow
           /\ IsFiniteSet(report.presences) /\ IsFiniteSet(report.desks)
  <1>1. report \in Report \cup {NoReport} /\ report # NoReport
    BY ReportParts DEF SitesInv, SitesTypeOK
  <1>2. QED
    BY <1>1, ReportParts DEF SitesInv

LEMMA DoesCountWhereReserved == SitesInv => CountedWhereReserved
  <1> SUFFICES ASSUME SitesInv, report.stage = "shown",
                      NEW p \in report.presences, NEW r \in Clashes(p, desks),
                      r.date \notin report.lost[r.user],
                      \A x \in desks : x.user = r.user /\ x.date = r.date => x.site = r.site
               PROVE  AttributedSite(p) = r.site
    BY DEF CountedWhereReserved
  <1>1. p \in PresenceRow /\ report # NoReport /\ desks \subseteq DeskRow
    BY ReportShown DEF SitesInv, SitesTypeOK
  <1>2. r \in desks /\ r.user = p.user /\ r.date = p.date /\ p.user \in Staff /\ p.date \in Month
    BY <1>1 DEF Clashes, PresenceRow
  <1>3. r.site \in Sites /\ r.site # NoSite
    BY <1>1, <1>2, SitesAssumption DEF DeskRow
  <1>4. SitesOn(p.user, p.date) = {r.site}
    BY <1>2 DEF SitesOn
  <1>5. report.siteOf[p.user][p.date] = r.site
    BY <1>1, <1>2, <1>4 DEF SitesInv, ReadWell
  <1>6. QED
    BY <1>3, <1>5 DEF AttributedSite

LEMMA DomainsDoAddUp == SitesInv => DomainsAddUp
  <1> SUFFICES ASSUME SitesInv, report.stage = "shown", SingleDomains, NEW s \in Sites
               PROVE  /\ SumOf([m \in AllDomains |-> DomainTotal(SitePresences(s), m)])
                           = HalfWeight(SitePresences(s))
                      /\ SumOf([m \in AllDomains |-> DomainTotal(SiteDesks(s), m)])
                           = HalfWeight(SiteDesks(s))
                      /\ SumOf([m \in AllDomains |-> Cardinality({u \in Attached(s) : InDomain(u, m)})])
                           = Cardinality(Attached(s))
    BY DEF DomainsAddUp, SingleDomains
  <1>1. /\ report.presences \subseteq PresenceRow /\ report.desks \subseteq DeskRow
        /\ IsFiniteSet(report.presences) /\ IsFiniteSet(report.desks)
    BY ReportShown
  <1>2. SitePresences(s) \subseteq report.presences /\ SiteDesks(s) \subseteq report.desks
    BY DEF SitePresences, SiteDesks
  <1>3. IsFiniteSet(SitePresences(s)) /\ IsFiniteSet(SiteDesks(s))
    BY <1>1, <1>2, FS_Subset
  <1>4. \A r \in SitePresences(s) \cup SiteDesks(s) : r.user \in Staff
    BY <1>1, <1>2 DEF PresenceRow, DeskRow
  <1>5. Attached(s) \in SUBSET Staff
    BY DEF Attached, Homeless
  <1>6. QED
    BY <1>3, <1>4, <1>5, RowsAddUp, PeopleAddUp

(* The sites report keeps its types.                                       *)
THEOREM SitesWellTyped == SitesSpec => []SitesTypeOK
  <1>1. SitesInv => SitesTypeOK
    BY DEF SitesInv
  <1>2. QED
    BY <1>1, InitSites, NextSites, PTL DEF SitesSpec

(* The sites report counts a presence where its desk is reserved and adds  *)
(* the domains of a site up to the site, whatever fails or changes         *)
(* meanwhile but for the desks it then did not get, for every number of    *)
(* sites, users, domains and rows (buildSitesReportData).                  *)
THEOREM SitesDoReconcile == SitesSpec => []SitesReconcile
  <1>1. SitesInv => SitesReconcile
    BY DoesCountWhereReserved, DomainsDoAddUp DEF SitesReconcile
  <1>2. QED
    BY <1>1, InitSites, NextSites, PTL DEF SitesSpec

-----------------------------------------------------------------------------
(* The months of a project.                                                *)

MonthCount == Cardinality(Months)

LEMMA MonthsAre ==
    /\ MonthCount \in Nat /\ MonthCount > 2 /\ Months = 0..(MonthCount - 1)
    /\ \A m \in Months : Lengths[m] \in 28..31
    /\ IsFiniteSet(Months) /\ IsFiniteSet(Declarers) /\ MaxEntries \in Nat
    /\ MaxMonths \in Nat /\ MaxMonths > 2
  <1>1. MonthCount \in Nat
    BY ProjectsReportAssumption, FS_CardinalityType DEF MonthCount
  <1>2. Months = 0..(MonthCount - 1) /\ \A m \in Months : Lengths[m] \in 28..31
    BY ProjectsReportAssumption DEF Months, MonthCount
  <1>3. 2 \in Months
    BY ProjectsReportAssumption
  <1>4. MonthCount > 2
    BY <1>1, <1>2, <1>3
  <1>5. QED
    BY <1>1, <1>2, <1>4, ProjectsReportAssumption

(* The days everyone declared for a month.                                 *)
Column(m) == SumOf([u \in Declarers |-> entries[u][m]])

EntriesTyped == entries \in [Declarers -> [Months -> Nat]]

LEMMA EntriesParts ==
    ASSUME EntriesTyped
    PROVE  /\ \A u \in Declarers : entries[u] \in [Months -> Nat] /\ AllOf(u) \in Nat
           /\ [u \in Declarers |-> AllOf(u)] \in [Declarers -> Nat]
           /\ \A m \in Months : /\ [u \in Declarers |-> entries[u][m]] \in [Declarers -> Nat]
                                /\ Column(m) \in Nat
  <1>1. \A u \in Declarers : entries[u] \in [Months -> Nat]
    BY DEF EntriesTyped
  <1>2. \A u \in Declarers : SumOf(entries[u]) \in Nat
    BY <1>1, MonthsAre, TotalNat
  <1>3. \A m \in Months : [u \in Declarers |-> entries[u][m]] \in [Declarers -> Nat]
    BY <1>1
  <1>4. \A m \in Months : Column(m) \in Nat
    BY <1>3, MonthsAre, TotalNat DEF Column
  <1>5. QED
    BY <1>1, <1>2, <1>3, <1>4 DEF AllOf

(* Keys are months, none of them twice.                                    *)
IsKeys(keys, n) == /\ n \in Nat \ {0} /\ keys \in [1..n -> Months]

LEMMA PositionsAre ==
    ASSUME NEW n, NEW keys, IsKeys(keys, n)
    PROVE  /\ Positions(keys) = 1..n /\ IsFiniteSet(1..n) /\ Cardinality(1..n) = n
           /\ Cardinality(Positions(keys)) = n /\ n \in 1..n
  <1>1. n \in Nat /\ n >= 1
    BY DEF IsKeys
  <1>2. IsFiniteSet(1..n) /\ Cardinality(1..n) = n
    BY <1>1, FS_Interval
  <1>3. Positions(keys) = 1..n
    BY DEF IsKeys, Positions
  <1>4. QED
    BY <1>1, <1>2, <1>3

(* Whatever the keys, a report has natural numbers.                        *)
LEMMA FiguresTyped ==
    ASSUME EntriesTyped, NEW n, NEW keys, IsKeys(keys, n)
    PROVE  /\ \A u \in Declarers : Past(u, keys) \in Nat /\ ToDate(u, keys) \in Nat
           /\ \A m \in Months : MonthTotal(m, keys) \in Nat
  <1>1. /\ Positions(keys) = 1..n /\ IsFiniteSet(1..n) /\ Cardinality(Positions(keys)) = n
        /\ \A k \in 1..n : keys[k] \in Months
    BY PositionsAre DEF IsKeys
  <1>2. ASSUME NEW u \in Declarers, NEW s \in SUBSET (1..n)
        PROVE  SumOf([k \in s |-> entries[u][keys[k]]]) \in Nat
    <2>1. IsFiniteSet(s)
      BY <1>1, FS_Subset
    <2>2. [k \in s |-> entries[u][keys[k]]] \in [s -> Nat]
      BY <1>1, EntriesParts
    <2>3. QED
      BY <2>1, <2>2, TotalNat
  <1>3. ASSUME NEW u \in Declarers PROVE Past(u, keys) \in Nat /\ ToDate(u, keys) \in Nat
    <2> DEFINE s == {i \in 1..n : keys[i] < keys[n]}
    <2>1. Past(u, keys) = SumOf([k \in s |-> entries[u][keys[k]]])
      BY <1>1 DEF Past
    <2>2. ToDate(u, keys) = SumOf([k \in 1..n |-> entries[u][keys[k]]])
      BY <1>1 DEF ToDate
    <2>3. s \in SUBSET (1..n) /\ 1..n \in SUBSET (1..n)
      OBVIOUS
    <2> HIDE DEF s
    <2>4. QED
      BY <1>2, <2>1, <2>2, <2>3
  <1>4. ASSUME NEW m \in Months PROVE MonthTotal(m, keys) \in Nat
    <2> DEFINE s == {k \in 1..n : keys[k] = m}
    <2>1. IsFiniteSet(s)
      BY <1>1, FS_Subset
    <2>2. Cardinality(s) \in Nat
      BY <2>1, FS_CardinalityType
    <2>3. MonthTotal(m, keys) = Cardinality(s) * Column(m)
      BY <1>1 DEF MonthTotal, Column
    <2> HIDE DEF s
    <2>4. Column(m) \in Nat
      BY EntriesParts
    <2>5. QED
      BY <2>2, <2>3, <2>4, TimesOneMore
  <1>5. QED
    BY <1>3, <1>4

-----------------------------------------------------------------------------
(* A range: its months from the first one on.                              *)

Covered(from, to) == Min({MaxMonths, to - from + 1})

LEMMA CoveredIs ==
    ASSUME NEW from \in Months, NEW to \in Months, from <= to
    PROVE  /\ Covered(from, to) \in Nat /\ Covered(from, to) >= 1
           /\ Covered(from, to) <= MaxMonths /\ from + Covered(from, to) - 1 <= to
           /\ Covered(from, to) = MaxMonths \/ from + Covered(from, to) - 1 = to
  <1> DEFINE a == MaxMonths
             b == to - from + 1
             n == Covered(from, to)
  <1>1. a \in Nat /\ b \in Nat /\ a >= 1 /\ b >= 1 /\ from \in Nat /\ to \in Nat
    BY MonthsAre
  <1>2. n = CHOOSE x \in {a, b} : \A y \in {a, b} : x =< y
    BY DEF Min, Covered
  <1> HIDE DEF n, a, b
  <1>3. \E x \in {a, b} : \A y \in {a, b} : x =< y
    <2>1. CASE a <= b
      BY <1>1, <2>1
    <2>2. CASE ~(a <= b)
      BY <1>1, <2>2
    <2>3. QED
      BY <2>1, <2>2
  <1>4. n \in {a, b} /\ n <= a /\ n <= b
    BY <1>2, <1>3
  <1>5. n = a \/ n = b
    BY <1>4
  <1>6. QED
    BY <1>1, <1>4, <1>5 DEF n, a, b

(* The months of the keys are told apart, and have the keys' places.       *)
LEMMA RangeKeys ==
    ASSUME NEW from \in Months, NEW to \in Months, from <= to, NEW keys,
           keys = BuildMonthKeysFromRange(from, to), NEW n, n = Covered(from, to)
    PROVE  /\ IsKeys(keys, n) /\ n <= MaxMonths
           /\ \A k \in 1..n : keys[k] = from + k - 1
           /\ from..(from + n - 1) \subseteq Months
           /\ keys \in Bijection(1..n, from..(from + n - 1))
           /\ \A m \in from..to : m < from + MaxMonths <=> m \in from..(from + n - 1)
           /\ \A m \in from..(from + n - 1) : m \in from..to
  <1>1. keys = [k \in 1..n |-> from + k - 1]
    BY MonthsAre DEF BuildMonthKeysFromRange, Covered
  <1>2. /\ n \in Nat /\ n >= 1 /\ n <= MaxMonths /\ from + n - 1 <= to
        /\ n = MaxMonths \/ from + n - 1 = to
    BY CoveredIs
  <1>3. from \in Nat /\ to \in Nat /\ MaxMonths \in Nat
    BY MonthsAre
  <1> DEFINE R == from..(from + n - 1)
  <1>4. R \subseteq Months
    BY <1>2, <1>3, MonthsAre
  <1>5. \A k \in 1..n : keys[k] = from + k - 1 /\ keys[k] \in R
    BY <1>1, <1>2, <1>3
  <1>6. keys \in [1..n -> R]
    BY <1>1, <1>5
  <1>7. keys \in [1..n -> Months]
    BY <1>4, <1>6
  <1>8. keys \in Bijection(1..n, R)
    <2>1. ASSUME NEW i \in 1..n, NEW j \in 1..n, keys[i] = keys[j] PROVE i = j
      BY <1>2, <1>3, <1>5, <2>1
    <2>2. ASSUME NEW m \in R PROVE \E k \in 1..n : keys[k] = m
      <3>1. m - from + 1 \in 1..n
        BY <1>2, <1>3
      <3>2. keys[m - from + 1] = m
        BY <1>2, <1>3, <1>5, <3>1
      <3>3. QED
        BY <3>1, <3>2
    <2>3. QED
      BY <1>6, <2>1, <2>2 DEF Bijection, Injection, Surjection, IsInjective
  <1>9. \A m \in from..to : m < from + MaxMonths <=> m \in R
    BY <1>2, <1>3
  <1>10. \A m \in R : m \in from..to
    BY <1>2, <1>3
  <1>11. IsKeys(keys, n)
    BY <1>2, <1>7 DEF IsKeys
  <1>12. QED
    BY <1>2, <1>4, <1>5, <1>8, <1>9, <1>10, <1>11

(* Each user's days to date are those of the months covered.               *)
LEMMA ToDateIs ==
    ASSUME EntriesTyped, NEW n, NEW keys, IsKeys(keys, n), NEW R \in SUBSET Months,
           keys \in Bijection(1..n, R), NEW u \in Declarers
    PROVE  /\ ToDate(u, keys) = SumOf(On(entries[u], R))
           /\ ToDate(u, keys) <= AllOf(u)
  <1> DEFINE v == On(entries[u], R)
             w == [k \in 1..n |-> entries[u][keys[k]]]
  <1>1. Positions(keys) = 1..n /\ IsFiniteSet(1..n) /\ \A k \in 1..n : keys[k] \in R
    BY PositionsAre DEF Bijection, Injection
  <1>2. entries[u] \in [Months -> Nat] /\ v \in [R -> Nat]
    BY EntriesParts DEF On
  <1>3. w \in [1..n -> Nat] /\ \A k \in 1..n : w[k] = v[keys[k]]
    BY <1>1, <1>2 DEF On
  <1>4. ToDate(u, keys) = SumOf(w)
    BY <1>1 DEF ToDate
  <1>5. SumOf(v) <= SumOf(entries[u])
    BY <1>2, MonthsAre, SumOfLess
  <1> DEFINE S == 1..n
  <1>6. IsFiniteSet(S) /\ keys \in Bijection(S, R) /\ w \in [S -> Nat] /\ \A k \in S : w[k] = v[keys[k]]
    BY <1>1, <1>3
  <1> HIDE DEF v, w, S
  <1>7. SumOf(v) = SumOf(w)
    BY <1>2, <1>6, TotalRenamed
  <1>8. QED
    BY <1>4, <1>5, <1>7 DEF v, AllOf

(* The months of a range add up to what the users have to date.            *)
LEMMA ColumnsAddUp ==
    ASSUME EntriesTyped, NEW n, NEW keys, IsKeys(keys, n), NEW R \in SUBSET Months,
           keys \in Bijection(1..n, R)
    PROVE  /\ \A m \in R : MonthTotal(m, keys) = Column(m)
           /\ SumOf([m \in Months |-> MonthTotal(m, keys)])
                = SumOf([u \in Declarers |-> ToDate(u, keys)])
  <1> DEFINE v == [u \in Declarers |-> On(entries[u], R)]
             col == [m \in Months |-> Column(m)]
             all == [m \in Months |-> MonthTotal(m, keys)]
  <1>1. /\ Positions(keys) = 1..n /\ IsFiniteSet(1..n) /\ keys \in [1..n -> R]
        /\ \A i, j \in 1..n : keys[i] = keys[j] => i = j
        /\ \A r \in R : \E i \in 1..n : keys[i] = r
    BY PositionsAre DEF Bijection, Injection, Surjection, IsInjective
  <1>2. IsFiniteSet(R) /\ IsFiniteSet(Months) /\ IsFiniteSet(Declarers)
    BY MonthsAre, FS_Subset
  <1>3. ASSUME NEW m \in Months PROVE all[m] = IF m \in R THEN col[m] ELSE 0
    <2> DEFINE s == {k \in Positions(keys) : keys[k] = m}
    <2>1. MonthTotal(m, keys) = Cardinality(s) * Column(m)
      BY DEF MonthTotal, Column
    <2>2. Column(m) \in Nat
      BY EntriesParts
    <2>3. CASE m \in R
      <3>1. PICK i \in 1..n : keys[i] = m
        BY <1>1, <2>3
      <3>2. s = {i}
        BY <1>1, <3>1
      <3>3. Cardinality(s) = 1
        BY <3>2, FS_Singleton
      <3> HIDE DEF s
      <3>4. Cardinality(s) * Column(m) = Column(m)
        BY <2>2, <3>3
      <3>5. QED
        BY <2>1, <2>3, <3>4
    <2>4. CASE m \notin R
      <3>1. s = {}
        BY <1>1, <2>4
      <3>2. Cardinality(s) = 0
        BY <3>1, FS_EmptySet
      <3> HIDE DEF s
      <3>3. Cardinality(s) * Column(m) = 0
        BY <2>2, <3>2
      <3>4. QED
        BY <2>1, <2>4, <3>3
    <2>5. QED
      BY <2>3, <2>4
  <1>4. col \in [Months -> Nat]
    BY EntriesParts
  <1>5. SumOf(all) = SumOf(On(col, R))
    <2>1. all = [m \in Months |-> IF m \in R THEN col[m] ELSE 0]
      BY <1>3
    <2> HIDE DEF all, col
    <2>2. SumOf([m \in Months |-> IF m \in R THEN col[m] ELSE 0]) = SumOf(On(col, R))
      BY <1>2, <1>4, SumOfChosen
    <2>3. QED
      BY <2>1, <2>2
  <1>6. SumOf([u \in Declarers |-> ToDate(u, keys)]) = SumOf(On(col, R))
    <2> DEFINE row == [u \in Declarers |-> ToDate(u, keys)]
    <2>1. v \in [Declarers -> [R -> Nat]]
      BY EntriesParts DEF On
    <2>2. row \in [Declarers -> Nat] /\ \A u \in Declarers : row[u] = SumOf(v[u])
      BY FiguresTyped, ToDateIs
    <2>3. ASSUME NEW m \in R PROVE On(col, R)[m] = SumOf([u \in Declarers |-> v[u][m]])
      <3>1. [u \in Declarers |-> v[u][m]] = [u \in Declarers |-> entries[u][m]]
        BY DEF On
      <3>2. On(col, R)[m] = Column(m)
        BY DEF On
      <3>3. QED
        BY <3>1, <3>2 DEF Column
    <2>4. On(col, R) \in [R -> Nat]
      BY <1>4 DEF On
    <2> HIDE DEF v, col, row
    <2>5. SumTable(v, Declarers, R, row, On(col, R))
      BY <1>2, <2>1, <2>2, <2>3, <2>4 DEF SumTable
    <2>6. SumOf(row) = SumOf(On(col, R))
      BY <2>5, RowsAndColumns
    <2>7. QED
      BY <2>6 DEF row
  <1>7. \A m \in R : MonthTotal(m, keys) = Column(m)
    BY <1>3
  <1>8. QED
    BY <1>5, <1>6, <1>7

(* What was declared before the last month, and in it.                     *)
LEMMA LastMonthAdds ==
    ASSUME EntriesTyped, NEW n, NEW keys, IsKeys(keys, n),
           \A i, j \in 1..n : keys[i] < keys[j] <=> i < j
    PROVE  SumOf([u \in Declarers |-> ToDate(u, keys)])
             = SumOf([u \in Declarers |-> Past(u, keys)]) + Column(keys[n])
  <1> DEFINE last == [u \in Declarers |-> entries[u][keys[n]]]
             past == [u \in Declarers |-> Past(u, keys)]
             date == [u \in Declarers |-> ToDate(u, keys)]
  <1>1. /\ Positions(keys) = 1..n /\ IsFiniteSet(1..n) /\ n \in 1..n /\ n \in Nat
        /\ Cardinality(Positions(keys)) = n /\ \A k \in 1..n : keys[k] \in Months
    BY PositionsAre DEF IsKeys
  <1>2. {i \in Positions(keys) : keys[i] < keys[Cardinality(Positions(keys))]} = (1..n) \ {n}
    <2>1. \A i \in 1..n : keys[i] < keys[n] <=> i # n
      BY <1>1
    <2>2. QED
      BY <1>1, <2>1
  <1>3. ASSUME NEW u \in Declarers PROVE date[u] = past[u] + last[u]
    <2> DEFINE w == [k \in 1..n |-> entries[u][keys[k]]]
    <2>1. w \in [1..n -> Nat]
      BY <1>1, EntriesParts
    <2>2. w[n] = last[u] /\ last[u] \in Nat
      BY <1>1, EntriesParts
    <2>3. Without(w, n) = [k \in (1..n) \ {n} |-> entries[u][keys[k]]]
      BY DEF Without
    <2>4. past[u] = SumOf(Without(w, n)) /\ past[u] \in Nat
      BY <1>2, <2>3, FiguresTyped DEF Past
    <2>5. date[u] = SumOf(w)
      BY <1>1 DEF ToDate
    <2> HIDE DEF w, last, past, date
    <2>6. SumOf(w) = w[n] + SumOf(Without(w, n))
      BY <1>1, <2>1, TotalTake
    <2>7. QED
      BY <2>2, <2>4, <2>5, <2>6
  <1>4. past \in [Declarers -> Nat] /\ last \in [Declarers -> Nat]
    BY <1>1, EntriesParts, FiguresTyped
  <1>5. date = [u \in Declarers |-> past[u] + last[u]]
    BY <1>3
  <1>6. SumOf(last) = Column(keys[n])
    BY DEF Column
  <1> HIDE DEF date, past, last
  <1>7. SumOf([u \in Declarers |-> past[u] + last[u]]) = SumOf(past) + SumOf(last)
    BY <1>4, MonthsAre, SumOfSums
  <1>8. SumOf(date) = SumOf(past) + SumOf(last)
    BY <1>5, <1>7
  <1>9. QED
    BY <1>6, <1>8 DEF date, past

-----------------------------------------------------------------------------
(* The clock stands on a day of its month, which has two before it.        *)
ProjectsReportInv ==
    /\ ProjectsReportTypeOK
    /\ today.month >= 2 /\ today.day <= Lengths[today.month]
    /\ RangeReconciles

LEMMA NoSheetIsNone == NoSheet \notin Sheet /\ NoSheet.keys = <<>>
  <1>1. ASSUME NEW s \in Sheet PROVE s # NoSheet
    <2>1. s.range \in SUBSET Months /\ DOMAIN s = {"keys", "range", "totals", "past", "toDate", "all", "day"}
      BY DEF Sheet
    <2>2. DOMAIN NoSheet = {"keys"}
      BY DEF NoSheet
    <2>3. QED
      BY <2>1, <2>2
  <1>2. QED
    BY <1>1 DEF NoSheet

LEMMA InitProjectsReport == ProjectsReportInit => ProjectsReportInv
  <1> SUFFICES ASSUME ProjectsReportInit PROVE ProjectsReportInv
    OBVIOUS
  <1>1. 2 \in Months /\ Lengths[2] \in 28..31
    BY MonthsAre
  <1>2. today = [month |-> 2, day |-> Lengths[2]] /\ sheet = NoSheet
    BY DEF ProjectsReportInit
  <1>3. entries \in [Declarers -> [Months -> 0..MaxEntries]]
    BY MonthsAre DEF ProjectsReportInit
  <1>4. ProjectsReportTypeOK
    BY <1>1, <1>2, <1>3 DEF ProjectsReportTypeOK
  <1>5. QED
    BY <1>1, <1>2, <1>4 DEF ProjectsReportInv, RangeReconciles

LEMMA Typed ==
    ASSUME ProjectsReportInv
    PROVE  /\ EntriesTyped /\ entries \in [Declarers -> [Months -> 0..MaxEntries]]
           /\ today \in [month : Months, day : 1..31] /\ today.month \in Months /\ today.month \in Nat
           /\ today.day \in 1..31 /\ today.month >= 2 /\ today.day <= Lengths[today.month]
  <1>1. entries \in [Declarers -> [Months -> 0..MaxEntries]]
    BY DEF ProjectsReportInv, ProjectsReportTypeOK
  <1>2. EntriesTyped
    BY <1>1, MonthsAre DEF EntriesTyped
  <1>3. today \in [month : Months, day : 1..31]
    BY DEF ProjectsReportInv, ProjectsReportTypeOK
  <1>4. QED
    BY <1>1, <1>2, <1>3, MonthsAre DEF ProjectsReportInv

LEMMA DefaultKeysTyped == ProjectsReportInv => IsKeys(DefaultKeys, 3) /\ 3 <= MaxMonths
  <1> SUFFICES ASSUME ProjectsReportInv PROVE IsKeys(DefaultKeys, 3) /\ 3 <= MaxMonths
    OBVIOUS
  <1> DEFINE m == today.month
  <1>1. m \in Nat /\ m >= 2 /\ m <= MonthCount - 1 /\ MonthCount \in Nat /\ today.day <= Lengths[m]
    BY Typed, MonthsAre
  <1>2. ASSUME NEW i \in 0..2 PROVE MonthBack(i) \in Months
    <2> DEFINE b == m - i
    <2>1. b \in Nat /\ b <= m /\ (b # m => b + 1 <= m)
      BY <1>1
    <2>2. b = m => ~(today.day > Lengths[b])
      <3>1. today.day \in 1..31 /\ m \in Months
        BY Typed
      <3>2. Lengths[m] \in 28..31
        BY <3>1, MonthsAre
      <3>3. QED
        BY <1>1, <3>1, <3>2
    <2>3. MonthBack(i) = IF today.day > Lengths[b] THEN b + 1 ELSE b
      BY DEF MonthBack
    <2> HIDE DEF b, m
    <2>4. MonthBack(i) \in Nat /\ MonthBack(i) <= m
      BY <1>1, <2>1, <2>2, <2>3
    <2>5. QED
      BY <1>1, <2>4, MonthsAre
  <1>3. \A k \in 1..3 : 3 - k \in 0..2
    OBVIOUS
  <1>4. DefaultKeys \in [1..3 -> Months]
    BY <1>2, <1>3 DEF DefaultKeys
  <1>5. QED
    BY <1>4, MonthsAre DEF IsKeys

(* A report that is rendered has its type.                                 *)
LEMMA RenderTyped ==
    ASSUME ProjectsReportInv, NEW n, NEW keys, IsKeys(keys, n), n <= MaxMonths,
           NEW range \in SUBSET Months, Render(keys, range)
    PROVE  sheet' \in Sheet /\ sheet' # NoSheet
  <1>1. n \in 1..MaxMonths /\ keys \in [1..n -> Months]
    BY MonthsAre DEF IsKeys
  <1>2. keys \in UNION {[1..k -> Months] : k \in 1..MaxMonths}
    BY <1>1
  <1>3. EntriesTyped /\ today \in [month : Months, day : 1..31]
    BY Typed
  <1> DEFINE totals == [m \in Months |-> MonthTotal(m, keys)]
             past == [u \in Declarers |-> Past(u, keys)]
             toDate == [u \in Declarers |-> ToDate(u, keys)]
             all == [u \in Declarers |-> AllOf(u)]
  <1>4. /\ totals \in [Months -> Nat] /\ past \in [Declarers -> Nat]
        /\ toDate \in [Declarers -> Nat] /\ all \in [Declarers -> Nat]
    BY <1>3, EntriesParts, FiguresTyped
  <1>5. sheet' = [keys |-> keys, range |-> range, day |-> today, totals |-> totals,
                  past |-> past, toDate |-> toDate, all |-> all]
    BY DEF Render
  <1> HIDE DEF totals, past, toDate, all
  <1>6. sheet' \in Sheet
    BY <1>2, <1>3, <1>4, <1>5 DEF Sheet
  <1>7. QED
    BY <1>6, NoSheetIsNone

LEMMA LeastOfRange ==
    ASSUME NEW i \in Nat, NEW j \in Nat, i <= j PROVE Min(i..j) = i
  <1>1. i \in i..j /\ \A y \in i..j : i <= y
    OBVIOUS
  <1>2. \A x \in i..j : (\A y \in i..j : x <= y) => x = i
    OBVIOUS
  <1>3. QED
    BY <1>1, <1>2 DEF Min

(* A report for a range reconciles when it is rendered.                    *)
LEMMA RangeDoesReconcile ==
    ASSUME ProjectsReportInv, NEW from \in Months, NEW to \in Months, from <= to,
           Render(BuildMonthKeysFromRange(from, to), from..to)
    PROVE  RangeReconciles'
  <1> DEFINE keys == BuildMonthKeysFromRange(from, to)
             n == Covered(from, to)
             R == from..(from + n - 1)
             totals == [m \in Months |-> MonthTotal(m, keys)]
             past == [u \in Declarers |-> Past(u, keys)]
             toDate == [u \in Declarers |-> ToDate(u, keys)]
             all == [u \in Declarers |-> AllOf(u)]
  <1>1. sheet' = [keys |-> keys, range |-> from..to, day |-> today, totals |-> totals,
                  past |-> past, toDate |-> toDate, all |-> all]
    BY DEF Render
  <1>2. EntriesTyped
    BY Typed
  <1> HIDE DEF keys, n
  <1>3. /\ IsKeys(keys, n) /\ \A k \in 1..n : keys[k] = from + k - 1
        /\ R \subseteq Months /\ keys \in Bijection(1..n, R)
        /\ \A m \in from..to : m < from + MaxMonths <=> m \in R
        /\ \A m \in R : m \in from..to
    <2>1. keys = BuildMonthKeysFromRange(from, to) /\ n = Covered(from, to)
      BY DEF keys, n
    <2>2. QED
      BY <2>1, RangeKeys
  <1>4. /\ from \in Nat /\ to \in Nat /\ n \in Nat /\ n >= 1
        /\ DOMAIN keys = 1..n /\ Cardinality(1..n) = n /\ n \in 1..n
    BY <1>3, MonthsAre, PositionsAre DEF IsKeys
  <1>5. Min(from..to) = from
    BY <1>4, LeastOfRange
  <1>6. {keys[k] : k \in 1..n} = {m \in from..to : m < from + MaxMonths}
    <2>1. {keys[k] : k \in 1..n} = R
      BY <1>3 DEF Bijection, Injection, Surjection
    <2> HIDE DEF R
    <2>2. R = {m \in from..to : m < from + MaxMonths}
      BY <1>3
    <2>3. QED
      BY <2>1, <2>2
  <1>7. IsInjective(keys)
    BY <1>3 DEF Bijection, Injection
  <1>8. SumOf(totals) = SumOf(toDate) /\ \A m \in R : MonthTotal(m, keys) = Column(m)
    <2> HIDE DEF R
    <2>1. QED
      BY <1>2, <1>3, ColumnsAddUp
  <1>9. keys[n] \in R /\ keys[n] \in Months
    BY <1>3, <1>4 DEF Bijection, Injection
  <1>10. SumOf(toDate) = SumOf(past) + Column(keys[n])
    <2>1. \A i, j \in 1..n : keys[i] < keys[j] <=> i < j
      BY <1>3, <1>4
    <2>2. QED
      BY <1>2, <1>3, <2>1, LastMonthAdds
  <1>11. totals[keys[n]] = Column(keys[n])
    BY <1>8, <1>9
  <1>12. \A u \in Declarers : toDate[u] <= all[u]
    <2> HIDE DEF R
    <2>1. QED
      BY <1>2, <1>3, ToDateIs
  <1>13. /\ sheet'.keys = keys /\ sheet'.range = from..to /\ sheet'.totals = totals
         /\ sheet'.past = past /\ sheet'.toDate = toDate /\ sheet'.all = all
    BY <1>1
  <1> HIDE DEF totals, past, toDate, all, R
  <1>14. /\ KeySet' = {m \in sheet'.range : m < Min(sheet'.range) + MaxMonths}
         /\ IsInjective(sheet'.keys)
         /\ SumOf(sheet'.totals) = SumOf(sheet'.toDate)
         /\ SumOf(sheet'.past) + sheet'.totals[sheet'.keys[Cardinality(DOMAIN sheet'.keys)]]
              = SumOf(sheet'.toDate)
         /\ \A u \in Declarers : sheet'.toDate[u] <= sheet'.all[u]
    BY <1>4, <1>5, <1>6, <1>7, <1>8, <1>10, <1>11, <1>12, <1>13 DEF KeySet
  <1>15. QED
    BY <1>14 DEF RangeReconciles

LEMMA DefaultStep == ASSUME ProjectsReportInv, DefaultReport PROVE ProjectsReportInv'
  <1>1. Render(DefaultKeys, {}) /\ UNCHANGED <<today, entries>>
    BY DEF DefaultReport
  <1>2. sheet' \in Sheet
    BY <1>1, DefaultKeysTyped, RenderTyped
  <1>3. sheet'.range = {}
    BY <1>1 DEF Render
  <1>4. RangeReconciles'
    BY <1>3 DEF RangeReconciles
  <1>5. QED
    BY <1>1, <1>2, <1>4 DEF ProjectsReportInv, ProjectsReportTypeOK

LEMMA RangeStep ==
    ASSUME ProjectsReportInv, NEW from \in Months, NEW to \in Months, RangeReport(from, to)
    PROVE  ProjectsReportInv'
  <1> DEFINE keys == BuildMonthKeysFromRange(from, to)
  <1>1. sheet = NoSheet /\ UNCHANGED <<today, entries>>
    BY DEF RangeReport
  <1>2. from \in Nat /\ to \in Nat
    BY MonthsAre
  <1>3. CASE from > to
    <2>1. keys = <<>>
      BY <1>3 DEF BuildMonthKeysFromRange
    <2>2. DefaultReport
      BY <1>1, <2>1 DEF RangeReport, DefaultReport
    <2>3. QED
      BY <2>2, DefaultStep
  <1>4. CASE from <= to
    <2> DEFINE n == Covered(from, to)
    <2>1. IsKeys(keys, n) /\ n <= MaxMonths
      BY <1>4, RangeKeys
    <2>2. keys # <<>>
      <3>1. 1 \in DOMAIN keys
        BY <2>1 DEF IsKeys
      <3>2. QED
        BY <3>1
    <2>3. Render(keys, from..to)
      BY <2>2 DEF RangeReport
    <2>4. from..to \in SUBSET Months
      BY <1>2, MonthsAre
    <2> HIDE DEF n
    <2>5. sheet' \in Sheet
      <3> HIDE DEF keys
      <3>1. QED
        BY <2>1, <2>3, <2>4, RenderTyped
    <2>6. RangeReconciles'
      BY <1>4, <2>3, RangeDoesReconcile
    <2>7. QED
      BY <1>1, <2>5, <2>6 DEF ProjectsReportInv, ProjectsReportTypeOK
  <1>5. QED
    BY <1>2, <1>3, <1>4

LEMMA SameSheet ==
    ASSUME ProjectsReportInv, sheet' = sheet PROVE RangeReconciles'
  BY DEF ProjectsReportInv, RangeReconciles, KeySet

(* No entry exceeds what was declared in all.                              *)
LEMMA DeclareStep ==
    ASSUME ProjectsReportInv, NEW u \in Declarers, NEW m \in Months, DeclareDays(u, m)
    PROVE  ProjectsReportInv'
  <1> DEFINE all == [v \in Declarers |-> AllOf(v)]
  <1>1. /\ sheet' = sheet /\ today' = today /\ SumOf(all) < MaxEntries
        /\ entries' = [entries EXCEPT ![u][m] = @ + 1]
    BY DEF DeclareDays
  <1>2. EntriesTyped /\ entries \in [Declarers -> [Months -> 0..MaxEntries]] /\ MaxEntries \in Nat
    BY Typed, MonthsAre
  <1>3. entries[u][m] <= AllOf(u) /\ AllOf(u) \in Nat /\ entries[u][m] \in Nat
    <2>1. entries[u] \in [Months -> Nat] /\ AllOf(u) \in Nat
      BY <1>2, EntriesParts
    <2>2. entries[u][m] <= SumOf(entries[u])
      BY <2>1, MonthsAre, SumOfTerm
    <2>3. QED
      BY <2>1, <2>2 DEF AllOf
  <1>4. all[u] <= SumOf(all) /\ SumOf(all) \in Nat /\ all[u] = AllOf(u)
    <2>1. all \in [Declarers -> Nat] /\ all[u] = AllOf(u)
      BY <1>2, EntriesParts
    <2> HIDE DEF all
    <2>2. QED
      BY <2>1, MonthsAre, SumOfTerm, TotalNat
  <1> HIDE DEF all
  <1>5. entries[u][m] + 1 \in 0..MaxEntries
    BY <1>1, <1>2, <1>3, <1>4
  <1>6. entries' \in [Declarers -> [Months -> 0..MaxEntries]]
    BY <1>1, <1>2, <1>5
  <1>7. QED
    BY <1>1, <1>6, SameSheet DEF ProjectsReportInv, ProjectsReportTypeOK

LEMMA NextDayStep == ASSUME ProjectsReportInv, NextDay PROVE ProjectsReportInv'
  <1>1. sheet' = sheet /\ entries' = entries
    BY DEF NextDay
  <1>2. /\ today \in [month : Months, day : 1..31] /\ today.month \in Nat /\ today.day \in 1..31
        /\ today.month \in Months /\ today.month >= 2 /\ Lengths[today.month] \in 28..31
    BY Typed, MonthsAre
  <1>3. /\ today' \in [month : Months, day : 1..31]
        /\ today'.month >= 2 /\ today'.day <= Lengths[today'.month]
    <2>1. CASE today.day < Lengths[today.month]
      <3>1. today' = [today EXCEPT !.day = @ + 1]
        BY <2>1 DEF NextDay
      <3>2. today'.month = today.month /\ today'.day = today.day + 1
        BY <1>2, <3>1
      <3>3. today.day + 1 \in 1..31 /\ today.day + 1 <= Lengths[today.month]
        BY <1>2, <2>1
      <3>4. QED
        BY <1>2, <3>1, <3>2, <3>3
    <2>2. CASE ~(today.day < Lengths[today.month])
      <3>1. today.month + 1 \in Months /\ today' = [month |-> today.month + 1, day |-> 1]
        BY <2>2 DEF NextDay
      <3>2. Lengths[today.month + 1] \in 28..31
        BY <3>1, MonthsAre
      <3>3. QED
        BY <1>2, <3>1, <3>2
    <2>3. QED
      BY <2>1, <2>2
  <1>4. QED
    BY <1>1, <1>3, SameSheet DEF ProjectsReportInv, ProjectsReportTypeOK

LEMMA NextProjectsReport ==
    ProjectsReportInv /\ [ProjectsReportNext]_projectsReportVars => ProjectsReportInv'
  <1> SUFFICES ASSUME ProjectsReportInv, [ProjectsReportNext]_projectsReportVars
               PROVE  ProjectsReportInv'
    OBVIOUS
  <1>1. CASE DefaultReport
    BY <1>1, DefaultStep
  <1>2. ASSUME NEW from \in Months, NEW to \in Months, RangeReport(from, to) PROVE ProjectsReportInv'
    BY <1>2, RangeStep
  <1>3. CASE CloseSheet
    BY <1>3 DEF CloseSheet, ProjectsReportInv, ProjectsReportTypeOK, RangeReconciles
  <1>4. ASSUME NEW u \in Declarers, NEW m \in Months, DeclareDays(u, m) PROVE ProjectsReportInv'
    BY <1>4, DeclareStep
  <1>5. CASE NextDay
    BY <1>5, NextDayStep
  <1>6. CASE UNCHANGED projectsReportVars
    BY <1>6, SameSheet DEF projectsReportVars, ProjectsReportInv, ProjectsReportTypeOK
  <1>7. QED
    BY <1>1, <1>2, <1>3, <1>4, <1>5, <1>6 DEF ProjectsReportNext

(* The clock, the entries and the report of a project keep their types,    *)
(* and the default report finds its months in them.                        *)
THEOREM ProjectsReportWellTyped == ProjectsReportSpec => []ProjectsReportTypeOK
  <1>1. ProjectsReportInv => ProjectsReportTypeOK
    BY DEF ProjectsReportInv
  <1>2. QED
    BY <1>1, InitProjectsReport, NextProjectsReport, PTL DEF ProjectsReportSpec

(* The projects report for a range of months covers them from the first    *)
(* one on and its columns reconcile, for every number of users and months  *)
(* and whatever they declared (buildMonthKeysFromRange and                 *)
(* enrichReportTotals).                                                    *)
THEOREM RangesReconcile == ProjectsReportSpec => []RangeReconciles
  <1>1. ProjectsReportInv => RangeReconciles
    BY DEF ProjectsReportInv
  <1>2. QED
    BY <1>1, InitProjectsReport, NextProjectsReport, PTL DEF ProjectsReportSpec

-----------------------------------------------------------------------------
(* The services as one state machine.                                      *)

(* A behaviour that picks one component is one of every component: the     *)
(* others stand still in one of their initial states.                      *)
LEMMA AccountServices ==
    ServicesSpec => AccountsSpec /\ LimiterSpec /\ PasskeysSpec /\ ImpersonationSpec
  <1>1. ServicesInit => AccountsInit /\ LimiterInit /\ PasskeysInit /\ ImpersonationInit
    BY DEF ServicesInit
  <1>2. [ServicesNext]_servicesVars =>
           /\ [AccountsNext]_accountVars /\ [LimiterNext]_limiterVars
           /\ [PasskeysNext]_passkeyVars /\ [ImpersonationNext]_impersonationVars
    BY DEF ServicesNext, OthersStay, servicesVars
  <1>3. QED
    BY <1>1, <1>2, PTL DEF ServicesSpec, AccountsSpec, LimiterSpec, PasskeysSpec, ImpersonationSpec

LEMMA OfficeServices ==
    ServicesSpec => /\ DirectorySpec /\ DesksSpec /\ PlanImagesSpec /\ TeamsSpec
                    /\ NewsSpec /\ StartupSpec /\ RemindersSpec
  <1>1. ServicesInit => /\ DirectoryInit /\ DesksInit /\ PlanImagesInit /\ TeamsInit
                        /\ NewsInit /\ StartupInit /\ RemindersInit
    BY DEF ServicesInit
  <1>2. [ServicesNext]_servicesVars =>
           /\ [DirectoryNext]_directoryVars /\ [DesksNext]_deskVars
           /\ [PlanImagesNext]_planVars /\ [TeamsNext]_teamVars
           /\ [NewsNext]_newsVars /\ [StartupNext]_startupVars /\ [RemindersNext]_remindersVars
    BY DEF ServicesNext, OthersStay, servicesVars
  <1>3. QED
    BY <1>1, <1>2, PTL DEF ServicesSpec, DirectorySpec, DesksSpec, PlanImagesSpec, TeamsSpec,
                           NewsSpec, StartupSpec, RemindersSpec

LEMMA ReportServices ==
    ServicesSpec => PresencePagesSpec /\ ReportsSpec /\ SitesSpec /\ ProjectsReportSpec
  <1>1. ServicesInit => PresencePagesInit /\ ReportsInit /\ SitesInit /\ ProjectsReportInit
    BY DEF ServicesInit
  <1>2. [ServicesNext]_servicesVars =>
           /\ [PresencePagesNext]_pagesVars /\ [ReportsNext]_reportVars
           /\ [SitesNext]_siteVars /\ [ProjectsReportNext]_projectsReportVars
    BY DEF ServicesNext, OthersStay, servicesVars
  <1>3. QED
    BY <1>1, <1>2, PTL DEF ServicesSpec, PresencePagesSpec, ReportsSpec, SitesSpec, ProjectsReportSpec

(* In every behaviour of all the services the state of the picked one is   *)
(* well-typed.                                                             *)
THEOREM ServicesWellTyped == ServicesSpec => []ServicesTypeOK
  <1>1. ServicesInit => picked \in Components
    BY DEF ServicesInit
  <1>2. picked \in Components /\ [ServicesNext]_servicesVars => (picked \in Components)'
    BY DEF Components, ServicesNext, OthersStay, servicesVars
  <1>3. ServicesSpec => [](picked \in Components)
    BY <1>1, <1>2, PTL DEF ServicesSpec
  <1>4. ServicesSpec => /\ []AccountsTypeOK /\ []LimiterTypeOK /\ []PasskeysTypeOK
                        /\ []ImpersonationTypeOK
    BY AccountServices, AccountsWellTyped, LimiterWellTyped, PasskeysWellTyped,
       ImpersonationWellTyped
  <1>5. ServicesSpec => /\ []DirectoryTypeOK /\ []DesksTypeOK /\ []PlanImagesTypeOK
                        /\ []TeamsTypeOK /\ []NewsTypeOK /\ []StartupTypeOK
                        /\ []RemindersTypeOK
    BY OfficeServices, DirectoryWellTyped, DesksAreTold, ImagesAreKept, MembershipsAreKept,
       BannersStayCurrent, StartsAreSafe, RemindersAreSent
  <1>6. ServicesSpec => /\ []PresencePagesTypeOK /\ []ReportsTypeOK /\ []SitesTypeOK
                        /\ []ProjectsReportTypeOK
    BY ReportServices, PagesWellTyped, ReportsWellTyped, SitesWellTyped, ProjectsReportWellTyped
  <1>7. /\ picked \in Components
        /\ AccountsTypeOK /\ LimiterTypeOK /\ PasskeysTypeOK /\ ImpersonationTypeOK
        /\ DirectoryTypeOK /\ DesksTypeOK /\ PlanImagesTypeOK /\ TeamsTypeOK
        /\ NewsTypeOK /\ StartupTypeOK /\ RemindersTypeOK
        /\ PresencePagesTypeOK /\ ReportsTypeOK /\ SitesTypeOK /\ ProjectsReportTypeOK
        => ServicesTypeOK
    BY DEF ServicesTypeOK
  <1>8. QED
    BY <1>3, <1>4, <1>5, <1>6, <1>7, PTL

(* And it keeps, picked or not, everything its own theorems promise: the   *)
(* components share nothing that one could take from another.              *)
THEOREM ServicesHold ==
    ServicesSpec =>
        /\ []StaleAnswersAreBrief /\ []PasswordChangesHold /\ []PenaltyServed
        /\ CeremoniesHold /\ []ActingEnds
        /\ []DanglingWasLate /\ []DesksTold /\ []ImageKept /\ []MembershipsKept
        /\ []BannersAreCurrent /\ []StartIsSafe /\ []RemindedOnceADay /\ NobodyForgotten
        /\ []PagesAgree /\ []PageReconciles /\ []SitesReconcile /\ []RangeReconciles
  <1>1. ServicesSpec => /\ []StaleAnswersAreBrief /\ []PasswordChangesHold /\ []PenaltyServed
                        /\ CeremoniesHold /\ []ActingEnds
    BY AccountServices, AnswersAreBrieflyStale, PasswordChangesAreKept, PenaltyIsServed,
       CeremoniesAreHeld, ActingAlwaysEnds
  <1>2. ServicesSpec => /\ []DanglingWasLate /\ []DesksTold /\ []ImageKept /\ []MembershipsKept
                        /\ []BannersAreCurrent /\ []StartIsSafe /\ []RemindedOnceADay
                        /\ NobodyForgotten
    BY OfficeServices, DanglingWasAlwaysLate, DesksAreTold, ImagesAreKept, MembershipsAreKept,
       BannersStayCurrent, StartsAreSafe, RemindersAreSent
  <1>3. ServicesSpec => /\ []PagesAgree /\ []PageReconciles /\ []SitesReconcile
                        /\ []RangeReconciles
    BY ReportServices, PagesAlwaysAgree, PagesReconcile, SitesDoReconcile, RangesReconcile
  <1>4. QED
    BY <1>1, <1>2, <1>3
=============================================================================
