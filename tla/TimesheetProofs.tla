-------------------------- MODULE TimesheetProofs --------------------------
(***************************************************************************)
(* Theorems about the two ways of declaring time: manual activities        *)
(* (ProjectActivities) and days on projects (ProjectTime), for every       *)
(* number of users, days, projects and percentages.                        *)
(***************************************************************************)
EXTENDS MCTimesheets, FiniteSums, SequenceTheorems

-----------------------------------------------------------------------------
(* The sums of ProjectActivities.                                          *)

SharesOf(S) == [a \in S |-> a.share]

LEMMA SharesSum ==
    ASSUME NEW S, IsFiniteSet(S)
    PROVE  MapThenSumSet(Share, S) = SumOf(SharesOf(S))
  <1> DEFINE v == SharesOf(S)
             Adds(g) == g = [s \in SUBSET S |->
                               IF s = {} THEN 0 ELSE Share(Some(s)) + g[s \ {Some(s)}]]
             h == CHOOSE g : Adds(g)
  <1>1. \A s \in SUBSET S : s # {} => v[Some(s)] = Share(Some(s))
    BY SomeIsIn DEF SharesOf, Share
  <1>2. Adds(Sums(v, S))
    <2>1. Sums(v, S) = [s \in SUBSET S |-> OneMore(v, Sums(v, S), s)]
      BY SumsEquation
    <2> HIDE DEF v
    <2>2. \A s \in SUBSET S : OneMore(v, Sums(v, S), s)
             = IF s = {} THEN 0 ELSE Share(Some(s)) + Sums(v, S)[s \ {Some(s)}]
      BY <1>1 DEF OneMore
    <2>3. QED
      BY <2>1, <2>2
  <1>3. Adds(h)
    BY <1>2
  <1>4. MapThenSumSet(Share, S) = h[S]
    BY DEF MapThenSumSet, MapThenFoldSet, Some
  <1> HIDE DEF h, v
  <1>5. SumsUp(v, h, S)
    BY <1>1, <1>3 DEF SumsUp, OneMore
  <1>6. h[S] = Sums(v, S)[S]
    <2>1. S \in SUBSET S /\ SumsUp(v, Sums(v, S), S)
      BY SumsDefined
    <2>2. QED
      BY <1>5, <2>1, SumsAgree
  <1>7. DOMAIN v = S
    BY DEF v, SharesOf
  <1>8. QED
    BY <1>4, <1>6, <1>7, TotalIsSum DEF v

OfDay(acts, u, d) == {a \in acts : a.user = u /\ a.date = d}

WithShares(acts) == IsFiniteSet(acts) /\ \A a \in acts : a.share \in Nat

LEMMA DayTotalIs ==
    ASSUME NEW acts, WithShares(acts), NEW u, NEW d
    PROVE  /\ IsFiniteSet(OfDay(acts, u, d)) /\ SharesOf(OfDay(acts, u, d)) \in [OfDay(acts, u, d) -> Nat]
           /\ DayTotal(acts, u, d) = SumOf(SharesOf(OfDay(acts, u, d)))
           /\ DayTotal(acts, u, d) \in Nat
  <1>1. OfDay(acts, u, d) \subseteq acts
    BY DEF OfDay
  <1>2. IsFiniteSet(OfDay(acts, u, d))
    BY <1>1, FS_Subset DEF WithShares
  <1>3. SharesOf(OfDay(acts, u, d)) \in [OfDay(acts, u, d) -> Nat]
    BY <1>1 DEF SharesOf, WithShares
  <1>4. DayTotal(acts, u, d) = SumOf(SharesOf(OfDay(acts, u, d)))
    BY <1>2, SharesSum DEF DayTotal, OfDay
  <1>5. QED
    BY <1>2, <1>3, <1>4, TotalNat

(* A total depends on the activities of the day alone.                     *)
LEMMA DayTotalSame ==
    ASSUME NEW acts, NEW others, NEW u, NEW d, OfDay(acts, u, d) = OfDay(others, u, d)
    PROVE  DayTotal(acts, u, d) = DayTotal(others, u, d)
  BY DEF DayTotal, OfDay

LEMMA DayTotalNone ==
    ASSUME NEW acts, NEW u, NEW d, OfDay(acts, u, d) = {}
    PROVE  DayTotal(acts, u, d) = 0
  <1>1. WithShares({})
    BY FS_EmptySet DEF WithShares
  <1>2. OfDay({}, u, d) = {}
    BY DEF OfDay
  <1>3. DayTotal({}, u, d) = SumOf(SharesOf({})) /\ DOMAIN SharesOf({}) = {}
    BY <1>1, <1>2, DayTotalIs DEF SharesOf
  <1>4. DayTotal(acts, u, d) = DayTotal({}, u, d)
    BY <1>2, DayTotalSame
  <1>5. QED
    BY <1>3, <1>4, TotalEmpty

(* An activity adds its share to its own day, and nothing to another.      *)
LEMMA DayTotalAdds ==
    ASSUME NEW acts, WithShares(acts), NEW a, a \notin acts, a.share \in Nat, NEW u, NEW d
    PROVE  /\ WithShares(acts \cup {a})
           /\ DayTotal(acts \cup {a}, u, d)
                = DayTotal(acts, u, d) + IF a.user = u /\ a.date = d THEN a.share ELSE 0
  <1> DEFINE more == acts \cup {a}
             S == OfDay(more, u, d)
  <1>1. WithShares(more)
    BY FS_AddElement DEF WithShares
  <1>2. DayTotal(acts, u, d) \in Nat
    BY DayTotalIs
  <1>3. CASE a.user = u /\ a.date = d
    <2>1. a \in S /\ S \ {a} = OfDay(acts, u, d)
      BY <1>3 DEF OfDay
    <2>2. IsFiniteSet(S) /\ SharesOf(S) \in [S -> Nat] /\ DayTotal(more, u, d) = SumOf(SharesOf(S))
      BY <1>1, DayTotalIs
    <2>3. SumOf(SharesOf(S)) = SharesOf(S)[a] + SumOf(Without(SharesOf(S), a))
      BY <2>1, <2>2, TotalTake
    <2>4. SharesOf(S)[a] = a.share /\ Without(SharesOf(S), a) = SharesOf(OfDay(acts, u, d))
      <3> HIDE DEF S
      <3>1. DOMAIN SharesOf(S) = S
        BY DEF SharesOf
      <3>2. QED
        BY <2>1, <3>1 DEF SharesOf, Without
    <2>5. DayTotal(acts, u, d) = SumOf(SharesOf(OfDay(acts, u, d)))
      BY DayTotalIs
    <2>6. QED
      BY <1>1, <1>2, <1>3, <2>2, <2>3, <2>4, <2>5
  <1>4. CASE ~(a.user = u /\ a.date = d)
    <2>1. OfDay(more, u, d) = OfDay(acts, u, d)
      BY <1>4 DEF OfDay
    <2>2. QED
      BY <1>1, <1>2, <1>4, <2>1, DayTotalSame
  <1>5. QED
    BY <1>3, <1>4

(* Fewer activities never add up to more.                                  *)
LEMMA DayTotalFewer ==
    ASSUME NEW acts, WithShares(acts), NEW a \in acts, NEW u, NEW d
    PROVE  /\ WithShares(acts \ {a})
           /\ DayTotal(acts \ {a}, u, d) <= DayTotal(acts, u, d)
  <1> DEFINE less == acts \ {a}
  <1>1. WithShares(less) /\ a \notin less /\ a.share \in Nat /\ less \cup {a} = acts
    BY FS_RemoveElement DEF WithShares
  <1>2. DayTotal(less, u, d) \in Nat
    BY <1>1, DayTotalIs
  <1> HIDE DEF less
  <1>3. DayTotal(acts, u, d)
          = DayTotal(less, u, d) + IF a.user = u /\ a.date = d THEN a.share ELSE 0
    BY <1>1, DayTotalAdds
  <1>4. DayTotal(less, u, d) <= DayTotal(acts, u, d)
    BY <1>1, <1>2, <1>3
  <1>5. QED
    BY <1>1, <1>4 DEF less

(* A day that holds no more activities adds up to no more.                 *)
LEMMA DayTotalWithin ==
    ASSUME NEW more, WithShares(more), NEW acts, NEW u, NEW d,
           OfDay(acts, u, d) \subseteq OfDay(more, u, d)
    PROVE  /\ DayTotal(acts, u, d) \in Nat /\ DayTotal(more, u, d) \in Nat
           /\ DayTotal(acts, u, d) <= DayTotal(more, u, d)
  <1> DEFINE R == OfDay(acts, u, d)
             S == OfDay(more, u, d)
  <1>1. IsFiniteSet(S) /\ SharesOf(S) \in [S -> Nat] /\ DayTotal(more, u, d) = SumOf(SharesOf(S))
    BY DayTotalIs
  <1>2. WithShares(R) /\ OfDay(R, u, d) = R
    <2>1. IsFiniteSet(R)
      BY <1>1, FS_Subset
    <2>2. \A a \in R : a.share \in Nat
      BY DEF OfDay, WithShares
    <2>3. OfDay(R, u, d) = R
      BY DEF OfDay
    <2>4. QED
      BY <2>1, <2>2, <2>3 DEF WithShares
  <1> HIDE DEF R, S
  <1>3. DayTotal(R, u, d) = SumOf(SharesOf(R)) /\ DayTotal(R, u, d) \in Nat
    BY <1>2, DayTotalIs
  <1>4. DayTotal(acts, u, d) = DayTotal(R, u, d)
    BY <1>2, DayTotalSame DEF R
  <1>5. R \in SUBSET S /\ On(SharesOf(S), R) = SharesOf(R)
    <2>1. R \in SUBSET S
      BY DEF R, S
    <2>2. QED
      BY <2>1 DEF On, SharesOf
  <1>6. SumOf(SharesOf(R)) <= SumOf(SharesOf(S)) /\ SumOf(SharesOf(S)) \in Nat
    BY <1>1, <1>5, SumOfLess
  <1>7. QED
    BY <1>1, <1>3, <1>4, <1>6

-----------------------------------------------------------------------------
(* Lists of percentages.                                                   *)

LEMMA ListTotalIs == \A l : ListTotal(l) = SumOf(l)
  BY DEF ListTotal, SumOf

LEMMA IntervalFinite == \A n \in Nat : IsFiniteSet(1 .. n)
  <1> SUFFICES ASSUME NEW n \in Nat PROVE IsFiniteSet(1 .. n)
    OBVIOUS
  <1>1. 1 \in Int /\ n \in Int
    OBVIOUS
  <1>2. QED
    BY ONLY <1>1, FS_Interval

LEMMA ListTotalNat ==
    ASSUME NEW l \in Seq(Nat)
    PROVE  ListTotal(l) \in Nat
  <1>1. l \in [1 .. Len(l) -> Nat] /\ Len(l) \in Nat
    BY LenProperties
  <1>2. IsFiniteSet(1 .. Len(l))
    BY <1>1, IntervalFinite
  <1>3. QED
    BY <1>1, <1>2, TotalNat, ListTotalIs

LEMMA ListTotalEmpty == ListTotal(<<>>) = 0
  <1>1. DOMAIN <<>> = {}
    OBVIOUS
  <1>2. QED
    BY <1>1, TotalEmpty, ListTotalIs

LEMMA ListTotalHead ==
    ASSUME NEW l \in Seq(Nat), l # <<>>
    PROVE  ListTotal(l) = Head(l) + ListTotal(Tail(l))
  <1> DEFINE n == Len(l)
             S == 1 .. n - 1
             R == (1 .. n) \ {1}
             f == [i \in S |-> i + 1]
             v == Without(l, 1)
             w == Tail(l)
  <1>1. n \in Nat \ {0} /\ l \in [1 .. n -> Nat] /\ DOMAIN l = 1 .. n /\ IsFiniteSet(1 .. n)
    BY LenProperties, EmptySeq, IntervalFinite
  <1>2. IsFiniteSet(S) /\ f \in [S -> R]
    <2>1. n - 1 \in Nat
      BY <1>1
    <2> HIDE DEF n
    <2>2. QED
      BY <1>1, <2>1, IntervalFinite
  <1>3. /\ \A x, y \in S : f[x] = f[y] => x = y
        /\ \A r \in R : r - 1 \in S /\ f[r - 1] = r
    BY <1>1
  <1>4. v \in [R -> Nat] /\ w \in [S -> Nat] /\ \A i \in S : w[i] = v[f[i]]
    <2>1. v \in [R -> Nat] /\ \A i \in S : v[f[i]] = l[i + 1]
      BY <1>1, <1>2 DEF Without
    <2>2. w \in Seq(Nat) /\ Len(w) = n - 1 /\ \A i \in S : w[i] = l[i + 1]
      BY <1>1, HeadTailProperties
    <2>3. w \in [S -> Nat]
      BY <2>2, LenProperties
    <2>4. QED
      BY <2>1, <2>2, <2>3
  <1>5. \A r \in R : \E x \in S : f[x] = r
    BY <1>3
  <1>6. 1 \in 1 .. n /\ SumOf(l) = l[1] + SumOf(v)
    <2>1. 1 \in 1 .. n
      BY <1>1
    <2> HIDE DEF n
    <2>2. QED
      BY <1>1, <2>1, TotalTake
  <1> HIDE DEF n, S, R, f, v, w
  <1>7. SumOf(v) = SumOf(w)
    <2>1. /\ f \in Bijection(S, R) /\ IsFiniteSet(S) /\ v \in [R -> Nat] /\ w \in [S -> Nat]
          /\ \A x \in S : w[x] = v[f[x]]
      BY <1>2, <1>3, <1>4, <1>5 DEF Bijection, Injection, Surjection, IsInjective
    <2>2. QED
      BY <2>1, TotalRenamed
  <1>8. QED
    BY <1>6, <1>7, ListTotalIs, HeadTailProperties DEF w

-----------------------------------------------------------------------------
(* The types of manual timesheets.                                         *)

LEMMA ListsFacts ==
    /\ <<>> \in Lists
    /\ \A s \in Shares : <<s>> \in Lists /\ Len(<<s>>) = 1
    /\ \A l \in Lists : l \in Seq(Nat) /\ l \in Seq(Shares)
    /\ \A l \in Lists : l # <<>> => Head(l) \in Shares /\ Tail(l) \in Lists
  <1>0. /\ MaxLines \in Nat \ {0} /\ Shares \subseteq Nat
        /\ 0 \in 0 .. MaxLines /\ 1 \in 0 .. MaxLines
    BY ActivitiesAssumption
  <1>1. <<>> \in [1 .. 0 -> Shares] /\ \A s \in Shares : <<s>> \in [1 .. 1 -> Shares]
    OBVIOUS
  <1>2. ASSUME NEW l \in Lists
        PROVE  /\ l \in Seq(Shares) /\ l \in Seq(Nat)
               /\ l # <<>> => Head(l) \in Shares /\ Tail(l) \in Lists
    <2>1. PICK n \in 0 .. MaxLines : l \in [1 .. n -> Shares]
      BY DEF Lists
    <2>2. n \in Nat /\ n <= MaxLines
      BY <1>0, <2>1
    <2>3. l \in Seq(Shares) /\ Len(l) = n
      BY <2>1, <2>2, SeqDef, LenProperties
    <2>4. l \in Seq(Nat)
      <3>1. l \in [1 .. n -> Nat]
        BY <1>0, <2>1
      <3>2. QED
        BY <2>2, <3>1, SeqDef
    <2>5. ASSUME l # <<>> PROVE Head(l) \in Shares /\ Tail(l) \in Lists
      <3>1. /\ Head(l) \in Shares /\ Tail(l) \in Seq(Shares) /\ Len(Tail(l)) = n - 1
            /\ n # 0
        BY <2>3, <2>5, HeadTailProperties, EmptySeq
      <3>2. Tail(l) \in [1 .. Len(Tail(l)) -> Shares]
        BY <3>1, LenProperties
      <3>3. Len(Tail(l)) \in 0 .. MaxLines
        BY <1>0, <2>2, <3>1
      <3>4. QED
        BY <3>1, <3>2, <3>3 DEF Lists
    <2>6. QED
      BY <2>3, <2>4, <2>5
  <1>3. QED
    BY <1>0, <1>1, <1>2 DEF Lists

WeightsOf(rows) == [h \in rows |-> IF h = "full" THEN 100 ELSE 50]

LEMMA WeightSum ==
    ASSUME NEW rows, IsFiniteSet(rows)
    PROVE  WeightOf(rows) = SumOf(WeightsOf(rows))
  <1> DEFINE v == WeightsOf(rows)
             f(x) == IF x = "full" THEN 100 ELSE 50
             Adds(g) == g = [s \in SUBSET rows |->
                               IF s = {} THEN 0 ELSE f(Some(s)) + g[s \ {Some(s)}]]
             h == CHOOSE g : Adds(g)
  <1>1. WeightOf(rows) = h[rows]
    BY DEF WeightOf, MapThenSumSet, MapThenFoldSet, Some
  <1>2. \A s \in SUBSET rows : s # {} => v[Some(s)] = f(Some(s))
    BY SomeIsIn DEF WeightsOf
  <1> HIDE DEF f
  <1>3. Adds(Sums(v, rows))
    <2>1. Sums(v, rows) = [s \in SUBSET rows |-> OneMore(v, Sums(v, rows), s)]
      BY SumsEquation
    <2> HIDE DEF v
    <2>2. \A s \in SUBSET rows : OneMore(v, Sums(v, rows), s)
             = IF s = {} THEN 0 ELSE f(Some(s)) + Sums(v, rows)[s \ {Some(s)}]
      BY <1>2 DEF OneMore
    <2>3. QED
      BY <2>1, <2>2
  <1>4. Adds(h)
    BY <1>3
  <1> HIDE DEF h, v
  <1>5. SumsUp(v, h, rows)
    BY <1>2, <1>4 DEF SumsUp, OneMore
  <1>6. h[rows] = Sums(v, rows)[rows]
    <2>1. rows \in SUBSET rows /\ SumsUp(v, Sums(v, rows), rows)
      BY SumsDefined
    <2>2. QED
      BY <1>5, <2>1, SumsAgree
  <1>7. DOMAIN v = rows
    BY DEF v, WeightsOf
  <1>8. QED
    BY <1>1, <1>6, <1>7, TotalIsSum DEF v

(* A day weighs nothing, a half or a whole.                                *)
LEMMA WeightOfRows == \A rows \in BillableRows : WeightOf(rows) \in Weights
  <1>1. ASSUME NEW h PROVE /\ IsFiniteSet({h}) /\ DOMAIN WeightsOf({h}) = {h}
                           /\ SumOf(WeightsOf({h})) = IF h = "full" THEN 100 ELSE 50
    <2>1. IsFiniteSet({h}) /\ WeightsOf({h}) \in [{h} -> Nat] /\ h \in {h}
      BY FS_Singleton DEF WeightsOf
    <2>2. SumOf(WeightsOf({h})) = WeightsOf({h})[h] + SumOf(Without(WeightsOf({h}), h))
      BY <2>1, TotalTake
    <2>3. DOMAIN Without(WeightsOf({h}), h) = {}
      BY DEF Without, WeightsOf
    <2>4. QED
      BY <2>1, <2>2, <2>3, TotalEmpty DEF WeightsOf
  <1>2. SumOf(WeightsOf({})) = 0 /\ IsFiniteSet({})
    BY TotalEmpty, FS_EmptySet DEF WeightsOf
  <1>3. IsFiniteSet({"AM", "PM"}) /\ SumOf(WeightsOf({"AM", "PM"})) = 100
    <2> DEFINE S == {"AM", "PM"}
    <2>1. IsFiniteSet(S)
      <3>1. S = {"PM"} \cup {"AM"} /\ IsFiniteSet({"PM"})
        BY FS_Singleton
      <3>2. QED
        BY <3>1, FS_AddElement
    <2>2. WeightsOf(S) \in [S -> Nat] /\ "AM" \in S /\ WeightsOf(S)["AM"] = 50
      BY DEF WeightsOf
    <2>3. Without(WeightsOf(S), "AM") = WeightsOf({"PM"})
      BY DEF Without, WeightsOf
    <2>4. SumOf(WeightsOf(S)) = 50 + SumOf(Without(WeightsOf(S), "AM"))
      BY <2>1, <2>2, TotalTake
    <2>5. SumOf(WeightsOf({"PM"})) = 50
      BY <1>1
    <2>6. QED
      BY <2>1, <2>3, <2>4, <2>5
  <1>4. ASSUME NEW rows \in BillableRows PROVE WeightOf(rows) \in Weights
    <2>1. ASSUME NEW h, rows = {h} PROVE WeightOf(rows) \in Weights
      BY <1>1, <2>1, WeightSum DEF Weights
    <2>2. rows = {} \/ (\E h : rows = {h}) \/ rows = {"AM", "PM"}
      BY DEF BillableRows
    <2>3. CASE rows = {} \/ rows = {"AM", "PM"}
      BY <1>2, <1>3, <2>3, WeightSum DEF Weights
    <2>4. QED
      BY <2>1, <2>2, <2>3
  <1>5. QED
    BY <1>4

EditPhases == {"weight", "total", "cert", "write", "fill"}

(* What a request carries at each of its queries.                          *)
FitsPhase(p, r) ==
    /\ p = "idle" => r = NoReq
    /\ p \in EditPhases => r \in Edit
    /\ p \in {"sum", "lock"} => r \in Certification
    /\ p = "weight" => r.op # "delete"
    /\ p = "total" => r.op \in {"create", "update"}
    /\ p = "fill" => r.op = "day" /\ r.shares # <<>>
    /\ r.op \in {"create", "update"} => Len(r.shares) = 1
    /\ r.op \in {"create", "day"} => r.id = 0

Numbered == IsFiniteSet(activities) /\ \A a \in activities : a.id < nextId

ActivityTypes ==
    /\ ActivitiesTypeOK /\ Numbered
    /\ \A w \in Workers : FitsPhase(pc[w], req[w])

Phases == {"idle", "weight", "total", "cert", "write", "fill", "sum", "lock"}
Requests == Edit \cup Certification \cup {NoReq}

(* A request moves on, and nothing is written.                             *)
LEMMA MoveTypes ==
    ASSUME ActivityTypes, NEW w \in Workers, NEW p \in Phases, NEW r \in Requests,
           pc' = [pc EXCEPT ![w] = p], req' = [req EXCEPT ![w] = r], FitsPhase(p, r)
    PROVE  /\ pc' \in [Workers -> Phases] /\ req' \in [Workers -> Requests]
           /\ \A v \in Workers : FitsPhase(pc'[v], req'[v])
  BY DEF ActivityTypes, ActivitiesTypeOK, Phases, Requests

LEMMA QuietTypes ==
    ASSUME ActivityTypes, NEW w \in Workers, Quiet(w),
           pc' \in [Workers -> Phases], req' \in [Workers -> Requests],
           \A v \in Workers : FitsPhase(pc'[v], req'[v])
    PROVE  ActivityTypes'
  <1>1. late' \subseteq Workers /\ crossed' \in [Workers -> SUBSET Dates]
    BY DEF Quiet, ActivityTypes, ActivitiesTypeOK
  <1>2. UNCHANGED <<weight, activities, nextId, certified, peak, blind>>
    BY DEF Quiet
  <1>3. QED
    BY <1>1, <1>2 DEF ActivityTypes, ActivitiesTypeOK, Numbered, Phases, Requests

LEMMA AnswerFits == "idle" \in Phases /\ NoReq \in Requests /\ FitsPhase("idle", NoReq)
  BY DEF FitsPhase, NoReq, EditPhases, Phases, Requests

(* Edits, and what tells them apart.                                       *)
LEMMA EditFacts ==
    ASSUME NEW r \in Edit
    PROVE  /\ r.op \in {"create", "update", "delete", "day"} /\ r.user \in Users
           /\ r.date \in Dates /\ r.id \in Ids \cup {0} /\ r.shares \in Lists
           /\ r.limit \in Weights /\ r \in Requests
  BY DEF Edit, Requests

LEMMA InitTypes == ActivitiesInit => ActivityTypes
  <1> SUFFICES ASSUME ActivitiesInit PROVE ActivityTypes
    OBVIOUS
  <1>1. Numbered
    BY FS_EmptySet DEF ActivitiesInit, Numbered
  <1>2. 1 \in 1 .. MaxActivities + 1
    BY ActivitiesAssumption
  <1>3. ActivitiesTypeOK
    BY <1>2 DEF ActivitiesInit, ActivitiesTypeOK, Weights
  <1>4. QED
    BY <1>1, <1>3, AnswerFits DEF ActivitiesInit, ActivityTypes

LEMMA AnswerTypes ==
    ASSUME ActivityTypes, NEW w \in Workers, Answer(w)
    PROVE  /\ pc' \in [Workers -> Phases] /\ req' \in [Workers -> Requests]
           /\ \A v \in Workers : FitsPhase(pc'[v], req'[v])
  BY MoveTypes, AnswerFits DEF Answer

LEMMA GotoTypes ==
    ASSUME ActivityTypes, NEW w \in Workers, NEW p \in Phases, Goto(w, p), FitsPhase(p, req[w])
    PROVE  /\ pc' \in [Workers -> Phases] /\ req' \in [Workers -> Requests]
           /\ \A v \in Workers : FitsPhase(pc'[v], req'[v])
  <1>1. PICK r \in Requests : r = req[w]
    BY DEF ActivityTypes, ActivitiesTypeOK, Requests
  <1>2. req \in [Workers -> Requests]
    BY DEF ActivityTypes, ActivitiesTypeOK, Requests
  <1>3. req' = [req EXCEPT ![w] = r]
    BY <1>1, <1>2 DEF Goto
  <1>4. pc' = [pc EXCEPT ![w] = p]
    BY DEF Goto
  <1>5. QED
    BY <1>1, <1>3, <1>4, MoveTypes

(* What an edit that is at a query is.                                     *)
LEMMA Editing ==
    ASSUME ActivityTypes, NEW w \in Workers, pc[w] \in EditPhases
    PROVE  req[w] \in Edit /\ FitsPhase(pc[w], req[w])
  BY DEF ActivityTypes, FitsPhase

LEMMA BeginTypes ==
    ASSUME ActivityTypes, NEW w \in Workers,
           \/ CreateProjectActivity(w) \/ UpdateProjectActivity(w) \/ DeleteProjectActivity(w)
           \/ SetDayActivities(w) \/ CertifyProjectMonth(w)
    PROVE  ActivityTypes'
  <1>1. \E p \in Phases, r \in Requests :
          /\ pc' = [pc EXCEPT ![w] = p] /\ req' = [req EXCEPT ![w] = r] /\ FitsPhase(p, r)
    <2>1. CASE CreateProjectActivity(w)
      <3>1. PICK u \in Users, d \in Dates, s \in Shares :
              Begin(w, [op |-> "create", user |-> u, date |-> d, id |-> 0,
                        shares |-> <<s>>, limit |-> 0], "weight")
        BY <2>1 DEF CreateProjectActivity
      <3> DEFINE r == [op |-> "create", user |-> u, date |-> d, id |-> 0,
                       shares |-> <<s>>, limit |-> 0]
      <3>2. r \in Edit /\ FitsPhase("weight", r)
        BY ListsFacts DEF Edit, Weights, FitsPhase, EditPhases
      <3>3. QED
        BY <3>1, <3>2 DEF Begin, Phases, Requests
    <2>2. CASE UpdateProjectActivity(w)
      <3>1. PICK a \in activities, s \in Shares :
              Begin(w, [op |-> "update", user |-> a.user, date |-> a.date, id |-> a.id,
                        shares |-> <<s>>, limit |-> 0], "weight")
        BY <2>2 DEF UpdateProjectActivity
      <3> DEFINE r == [op |-> "update", user |-> a.user, date |-> a.date, id |-> a.id,
                       shares |-> <<s>>, limit |-> 0]
      <3>2. a \in Activity
        BY DEF ActivityTypes, ActivitiesTypeOK
      <3>3. r \in Edit /\ FitsPhase("weight", r)
        BY <3>2, ListsFacts DEF Edit, Weights, FitsPhase, EditPhases, Activity
      <3>4. QED
        BY <3>1, <3>3 DEF Begin, Phases, Requests
    <2>3. CASE DeleteProjectActivity(w)
      <3>1. PICK a \in activities :
              Begin(w, [op |-> "delete", user |-> a.user, date |-> a.date, id |-> a.id,
                        shares |-> <<>>, limit |-> 0], "cert")
        BY <2>3 DEF DeleteProjectActivity
      <3> DEFINE r == [op |-> "delete", user |-> a.user, date |-> a.date, id |-> a.id,
                       shares |-> <<>>, limit |-> 0]
      <3>2. a \in Activity
        BY DEF ActivityTypes, ActivitiesTypeOK
      <3>3. r \in Edit /\ FitsPhase("cert", r)
        BY <3>2, ListsFacts DEF Edit, Weights, FitsPhase, EditPhases, Activity
      <3>4. QED
        BY <3>1, <3>3 DEF Begin, Phases, Requests
    <2>4. CASE SetDayActivities(w)
      <3>1. PICK u \in Users, d \in Dates, l \in Lists :
              Begin(w, [op |-> "day", user |-> u, date |-> d, id |-> 0,
                        shares |-> l, limit |-> 0], "cert")
        BY <2>4 DEF SetDayActivities
      <3> DEFINE r == [op |-> "day", user |-> u, date |-> d, id |-> 0,
                       shares |-> l, limit |-> 0]
      <3>2. r \in Edit /\ FitsPhase("cert", r)
        BY DEF Edit, Weights, FitsPhase, EditPhases
      <3>3. QED
        BY <3>1, <3>2 DEF Begin, Phases, Requests
    <2>5. CASE CertifyProjectMonth(w)
      <3>1. PICK u \in Users, m \in Months :
              Begin(w, [op |-> "certify", user |-> u, month |-> m, weights |-> weight[u]], "sum")
        BY <2>5 DEF CertifyProjectMonth
      <3>2. PICK x \in [Dates -> Weights] : x = weight[u]
        BY DEF ActivityTypes, ActivitiesTypeOK
      <3> DEFINE r == [op |-> "certify", user |-> u, month |-> m, weights |-> x]
      <3>3. r \in Certification /\ FitsPhase("sum", r)
        BY DEF Certification, FitsPhase, EditPhases
      <3>4. QED
        BY <3>1, <3>2, <3>3 DEF Begin, Phases, Requests
    <2>6. QED
      BY <2>1, <2>2, <2>3, <2>4, <2>5
  <1>2. Quiet(w)
    BY DEF CreateProjectActivity, UpdateProjectActivity, DeleteProjectActivity,
           SetDayActivities, CertifyProjectMonth
  <1>3. QED
    BY <1>1, <1>2, MoveTypes, QuietTypes

LEMMA ReadWeightTypes ==
    ASSUME ActivityTypes, NEW w \in Workers, ReadWeight(w)
    PROVE  ActivityTypes'
  <1>1. pc[w] = "weight" /\ req[w] \in Edit /\ FitsPhase(pc[w], req[w])
    BY Editing DEF ReadWeight, EditPhases
  <1>2. CASE Answer(w)
    BY <1>2, AnswerTypes, QuietTypes DEF ReadWeight
  <1>3. CASE req[w].op = "day" /\ Goto(w, "write")
    <2>1. "write" \in Phases /\ FitsPhase("write", req[w])
      BY <1>1, <1>3 DEF Phases, FitsPhase, EditPhases
    <2>2. QED
      BY <1>3, <2>1, GotoTypes, QuietTypes DEF ReadWeight
  <1>4. CASE /\ req[w].op # "day" /\ pc' = [pc EXCEPT ![w] = "total"]
             /\ req' = [req EXCEPT ![w].limit = weight[req[w].user][req[w].date]]
    <2>1. PICK x \in Weights : x = weight[req[w].user][req[w].date]
      BY <1>1, EditFacts DEF ActivityTypes, ActivitiesTypeOK
    <2>2. PICK q \in Edit : q = req[w]
      BY <1>1
    <2> DEFINE r == [q EXCEPT !.limit = x]
    <2>3. /\ r \in Edit /\ r.op = q.op /\ r.shares = q.shares /\ r.id = q.id
      BY DEF Edit
    <2>4. req' = [req EXCEPT ![w] = r]
      BY <1>4, <2>1, <2>2 DEF ActivityTypes, ActivitiesTypeOK
    <2>5. FitsPhase("total", r)
      <3> HIDE DEF r
      <3>1. q.op \in {"create", "update"}
        BY <1>1, <1>4, <2>2, EditFacts DEF FitsPhase
      <3>2. QED
        BY <1>1, <2>2, <2>3, <3>1 DEF FitsPhase, EditPhases
    <2>6. r \in Requests /\ "total" \in Phases
      BY <2>3 DEF Requests, Phases
    <2> HIDE DEF r
    <2>7. QED
      BY <1>4, <2>4, <2>5, <2>6, MoveTypes, QuietTypes DEF ReadWeight
  <1>5. QED
    BY <1>2, <1>3, <1>4 DEF ReadWeight

LEMMA ReadTypes ==
    ASSUME ActivityTypes, NEW w \in Workers,
           \/ ReadTotal(w) \/ RejectIfProjectMonthCertified(w) \/ SumMonth(w) \/ StatementFails(w)
    PROVE  ActivityTypes'
  <1>1. Quiet(w)
    BY DEF ReadTotal, RejectIfProjectMonthCertified, SumMonth, StatementFails
  <1>2. FitsPhase(pc[w], req[w])
    BY DEF ActivityTypes
  <1>3. \/ Answer(w)
        \/ pc[w] = "total" /\ Goto(w, "cert")
        \/ pc[w] = "cert" /\ req[w].op = "day" /\ Goto(w, "weight")
        \/ pc[w] = "cert" /\ req[w].op # "day" /\ Goto(w, "write")
        \/ pc[w] = "cert" /\ req[w].op = "create" /\ Goto(w, "write")
        \/ pc[w] = "sum" /\ Goto(w, "lock")
    BY DEF ReadTotal, RejectIfProjectMonthCertified, SumMonth, StatementFails
  <1>4. /\ {"cert", "weight", "write", "lock"} \subseteq Phases
        /\ pc[w] = "total" => FitsPhase("cert", req[w])
        /\ pc[w] = "cert" /\ req[w].op = "day" => FitsPhase("weight", req[w])
        /\ pc[w] = "cert" => FitsPhase("write", req[w])
        /\ pc[w] = "sum" => FitsPhase("lock", req[w])
    BY <1>2 DEF Phases, FitsPhase, EditPhases
  <1>5. /\ pc' \in [Workers -> Phases] /\ req' \in [Workers -> Requests]
        /\ \A v \in Workers : FitsPhase(pc'[v], req'[v])
    <2>1. CASE Answer(w)
      BY <2>1, AnswerTypes
    <2>2. CASE pc[w] = "total" /\ Goto(w, "cert")
      BY <1>4, <2>2, GotoTypes
    <2>3. CASE pc[w] = "cert" /\ req[w].op = "day" /\ Goto(w, "weight")
      BY <1>4, <2>3, GotoTypes
    <2>4. CASE pc[w] = "cert" /\ Goto(w, "write")
      BY <1>4, <2>4, GotoTypes
    <2>5. CASE pc[w] = "sum" /\ Goto(w, "lock")
      BY <1>4, <2>5, GotoTypes
    <2>6. QED
      BY <1>3, <2>1, <2>2, <2>3, <2>4, <2>5
  <1>6. QED
    BY <1>1, <1>5, QuietTypes

(* The activities that a write leaves.                                     *)
LEMMA WriteTypes ==
    ASSUME ActivityTypes, UNCHANGED <<weight, certified, peak>>,
           NEW w \in Workers, Overtake(w), req[w] \in Edit, blind' \subseteq Ids \cup {0},
           pc' \in [Workers -> Phases], req' \in [Workers -> Requests],
           \A v \in Workers : FitsPhase(pc'[v], req'[v]),
           activities' \subseteq Activity, nextId' \in 1 .. MaxActivities + 1,
           \A a, b \in activities' : a.id = b.id => a = b,
           Numbered'
    PROVE  ActivityTypes'
  <1>1. late' \subseteq Workers /\ crossed' \in [Workers -> SUBSET Dates]
    BY EditFacts DEF Overtake, ActivityTypes, ActivitiesTypeOK
  <1>2. QED
    BY <1>1 DEF ActivityTypes, ActivitiesTypeOK, Phases, Requests

LEMMA InsertTypes ==
    ASSUME ActivityTypes, NEW u \in Users, NEW d \in Dates, NEW s \in Shares, Insert(u, d, s)
    PROVE  /\ activities' \subseteq Activity /\ nextId' \in 1 .. MaxActivities + 1
           /\ \A a, b \in activities' : a.id = b.id => a = b
           /\ Numbered'
  <1> DEFINE new == [id |-> nextId, user |-> u, date |-> d, share |-> s]
  <1>1. /\ new \in Activity /\ new.id = nextId /\ activities' = activities \cup {new}
        /\ nextId \in Ids /\ nextId' = nextId + 1
    BY DEF Insert, Activity
  <1> HIDE DEF new
  <1>2. nextId \in Nat /\ nextId' \in 1 .. MaxActivities + 1 /\ nextId < nextId'
    BY <1>1, ActivitiesAssumption DEF Ids
  <1>3. \A a \in activities : a \in Activity /\ a.id \in Nat /\ a.id < nextId
    BY DEF ActivityTypes, ActivitiesTypeOK, Numbered, Activity, Ids
  <1>4. IsFiniteSet(activities')
    BY <1>1, FS_AddElement DEF ActivityTypes, Numbered
  <1>5. \A a \in activities' : a.id < nextId'
    BY <1>1, <1>2, <1>3
  <1>6. \A a, b \in activities' : a.id = b.id => a = b
    <2>1. \A a \in activities : a.id # new.id
      BY <1>1, <1>2, <1>3
    <2>2. QED
      BY <1>1, <2>1 DEF ActivityTypes, ActivitiesTypeOK
  <1>7. QED
    BY <1>1, <1>2, <1>3, <1>4, <1>5, <1>6 DEF Numbered

LEMMA FewerTypes ==
    ASSUME ActivityTypes, activities' \subseteq activities, UNCHANGED nextId
    PROVE  /\ activities' \subseteq Activity /\ nextId' \in 1 .. MaxActivities + 1
           /\ \A a, b \in activities' : a.id = b.id => a = b
           /\ Numbered'
  BY FS_Subset DEF ActivityTypes, ActivitiesTypeOK, Numbered

(* An update gives the activity with the id, if it is still there, another *)
(* share.                                                                  *)
LEMMA UpdateShape ==
    ASSUME ActivityTypes, NEW i \in Ids \cup {0}, NEW s \in Shares,
           activities' = {IF a.id = i THEN [a EXCEPT !.share = s] ELSE a : a \in activities}
    PROVE  \/ (\A a \in activities : a.id # i) /\ activities' = activities
           \/ \E a \in activities, b \in Activity :
                /\ a.id = i /\ b.id = i /\ b.user = a.user /\ b.date = a.date /\ b.share = s
                /\ {x \in activities : x.id # i} = activities \ {a}
                /\ activities' = (activities \ {a}) \cup {b}
  <1>1. CASE \A a \in activities : a.id # i
    BY <1>1
  <1>2. ASSUME NEW a \in activities, a.id = i
        PROVE  \E b \in Activity :
                 /\ b.id = i /\ b.user = a.user /\ b.date = a.date /\ b.share = s
                 /\ {x \in activities : x.id # i} = activities \ {a}
                 /\ activities' = (activities \ {a}) \cup {b}
    <2> DEFINE b == [a EXCEPT !.share = s]
    <2>1. /\ a \in Activity /\ \A x \in activities : x.id = i => x = a
      BY <1>2 DEF ActivityTypes, ActivitiesTypeOK
    <2>2. /\ b \in Activity /\ b.id = i /\ b.user = a.user /\ b.date = a.date /\ b.share = s
      BY <1>2, <2>1 DEF Activity
    <2> HIDE DEF b
    <2>3. \A x \in activities : (IF x.id = i THEN [x EXCEPT !.share = s] ELSE x)
                                  = IF x = a THEN b ELSE x
      BY <1>2, <2>1 DEF b
    <2>4. activities' = {IF x = a THEN b ELSE x : x \in activities}
      BY <2>3
    <2>5. activities' = (activities \ {a}) \cup {b}
      BY <2>4
    <2>6. {x \in activities : x.id # i} = activities \ {a}
      BY <1>2, <2>1
    <2>7. QED
      BY <2>2, <2>5, <2>6
  <1>3. QED
    BY <1>1, <1>2

LEMMA UpdateTypes ==
    ASSUME ActivityTypes, NEW i \in Ids \cup {0}, NEW s \in Shares, UNCHANGED nextId,
           activities' = {IF a.id = i THEN [a EXCEPT !.share = s] ELSE a : a \in activities}
    PROVE  /\ activities' \subseteq Activity /\ nextId' \in 1 .. MaxActivities + 1
           /\ \A a, b \in activities' : a.id = b.id => a = b
           /\ Numbered'
  <1>1. CASE activities' = activities
    BY <1>1, FewerTypes
  <1>2. ASSUME NEW a \in activities, NEW b \in Activity,
               a.id = i, b.id = i, activities' = (activities \ {a}) \cup {b}
        PROVE  /\ activities' \subseteq Activity
               /\ \A x, y \in activities' : x.id = y.id => x = y
               /\ Numbered'
    <2>1. IsFiniteSet(activities \ {a})
      BY FS_Subset DEF ActivityTypes, Numbered
    <2>2. IsFiniteSet((activities \ {a}) \cup {b})
      BY <2>1, FS_AddElement
    <2>3. \A x \in activities \ {a} : x.id # i
      BY <1>2 DEF ActivityTypes, ActivitiesTypeOK
    <2>4. \A x, y \in activities' : x.id = y.id => x = y
      BY <1>2, <2>3 DEF ActivityTypes, ActivitiesTypeOK
    <2>5. \A x \in activities' : x \in Activity /\ x.id < nextId
      BY <1>2 DEF ActivityTypes, ActivitiesTypeOK, Numbered
    <2>6. QED
      BY <1>2, <2>2, <2>4, <2>5 DEF Numbered
  <1>3. nextId' \in 1 .. MaxActivities + 1
    BY DEF ActivityTypes, ActivitiesTypeOK
  <1>4. CASE activities' # activities
    <2>0. \/ (\A a \in activities : a.id # i) /\ activities' = activities
          \/ \E a \in activities, b \in Activity :
               /\ a.id = i /\ b.id = i /\ b.user = a.user /\ b.date = a.date /\ b.share = s
               /\ {x \in activities : x.id # i} = activities \ {a}
               /\ activities' = (activities \ {a}) \cup {b}
      BY UpdateShape
    <2>1. PICK a \in activities, b \in Activity :
            a.id = i /\ b.id = i /\ activities' = (activities \ {a}) \cup {b}
      BY <1>4, <2>0
    <2>2. QED
      BY <1>2, <1>3, <2>1
  <1>5. QED
    BY <1>1, <1>4

LEMMA ListsLengths == \A l \in Lists : Len(l) \in Nat /\ (Len(l) = 0 <=> l = <<>>)
  <1>1. ASSUME NEW l \in Seq(Shares) PROVE Len(l) \in Nat /\ (Len(l) = 0 <=> l = <<>>)
    BY LenProperties, EmptySeq
  <1>2. QED
    BY <1>1, ListsFacts

LEMMA WriteOneTypes ==
    ASSUME ActivityTypes, NEW w \in Workers, WriteOne(w)
    PROVE  ActivityTypes'
  <1>1. /\ req[w] \in Edit /\ req[w].user \in Users /\ req[w].date \in Dates
        /\ req[w].shares \in Lists /\ req[w].id \in Ids \cup {0} /\ FitsPhase(pc[w], req[w])
    BY Editing, EditFacts DEF WriteOne, EditPhases
  <1>2. req[w].op \in {"create", "update"} => Head(req[w].shares) \in Shares
    <2>1. PICK l \in Lists : l = req[w].shares
      BY <1>1
    <2>2. Len(l) = 0 <=> l = <<>>
      BY ListsLengths
    <2>3. req[w].op \in {"create", "update"} => Len(l) = 1
      BY <1>1, <2>1 DEF FitsPhase
    <2>4. l # <<>> => Head(l) \in Shares
      BY ListsFacts
    <2>5. QED
      BY <2>1, <2>2, <2>3, <2>4
  <1>3. /\ activities' \subseteq Activity /\ nextId' \in 1 .. MaxActivities + 1
        /\ \A a, b \in activities' : a.id = b.id => a = b
        /\ Numbered'
    <2>1. CASE req[w].op = "create" /\ Insert(req[w].user, req[w].date, Head(req[w].shares))
      BY <1>1, <1>2, <2>1, InsertTypes
    <2>2. CASE /\ req[w].op = "update" /\ UNCHANGED nextId
               /\ activities' = {IF a.id = req[w].id
                                 THEN [a EXCEPT !.share = Head(req[w].shares)] ELSE a : a \in activities}
      <3>1. PICK i \in Ids \cup {0}, s \in Shares : i = req[w].id /\ s = Head(req[w].shares)
        BY <1>1, <1>2, <2>2
      <3>2. activities' = {IF a.id = i THEN [a EXCEPT !.share = s] ELSE a : a \in activities}
        BY <2>2, <3>1
      <3>3. QED
        BY <2>2, <3>2, UpdateTypes
    <2>3. CASE activities' \subseteq activities /\ UNCHANGED nextId
      BY <2>3, FewerTypes
    <2>4. QED
      BY <2>1, <2>2, <2>3 DEF WriteOne
  <1>4. /\ Answer(w) /\ Overtake(w) /\ UNCHANGED <<weight, certified, peak>>
        /\ blind' \subseteq Ids \cup {0}
    <2>1. blind \subseteq Ids \cup {0}
      BY DEF ActivityTypes, ActivitiesTypeOK
    <2>2. QED
      BY <1>1, <2>1 DEF WriteOne, Written, Insert
  <1>5. QED
    BY <1>1, <1>3, <1>4, AnswerTypes, WriteTypes

LEMMA WipeTypes ==
    ASSUME ActivityTypes, NEW w \in Workers, WipeDay(w)
    PROVE  ActivityTypes'
  <1>1. req[w] \in Edit /\ FitsPhase(pc[w], req[w])
    BY Editing DEF WipeDay, EditPhases
  <1>2. /\ activities' \subseteq activities /\ UNCHANGED <<weight, nextId, certified, peak>>
        /\ Overtake(w) /\ blind' \subseteq Ids \cup {0}
    BY DEF WipeDay, ActivityTypes, ActivitiesTypeOK
  <1>3. /\ pc' \in [Workers -> Phases] /\ req' \in [Workers -> Requests]
        /\ \A v \in Workers : FitsPhase(pc'[v], req'[v])
    <2>1. CASE Answer(w)
      BY <2>1, AnswerTypes
    <2>2. CASE req[w].shares # <<>> /\ Goto(w, "fill")
      <3>1. "fill" \in Phases /\ FitsPhase("fill", req[w])
        BY <1>1, <2>2 DEF Phases, FitsPhase, EditPhases, WipeDay
      <3>2. QED
        BY <2>2, <3>1, GotoTypes
    <2>3. QED
      BY <2>1, <2>2 DEF WipeDay
  <1>4. QED
    BY <1>1, <1>2, <1>3, FewerTypes, WriteTypes

(* The list that is left of a whole-day save.                              *)
LEMMA RestOfList ==
    ASSUME ActivityTypes, NEW w \in Workers, pc[w] = "fill"
    PROVE  /\ req[w] \in Edit /\ req[w].op = "day"
           /\ req[w].user \in Users /\ req[w].date \in Dates
           /\ req[w].shares \in Lists /\ req[w].shares # <<>>
           /\ Head(req[w].shares) \in Shares /\ Tail(req[w].shares) \in Lists
           /\ Len(req[w].shares) # 1 => Tail(req[w].shares) # <<>>
           /\ Len(req[w].shares) = 1 => Tail(req[w].shares) = <<>>
  <1>1. req[w] \in Edit /\ FitsPhase(pc[w], req[w])
    BY Editing DEF EditPhases
  <1>2. /\ req[w].user \in Users /\ req[w].date \in Dates /\ req[w].shares \in Lists
        /\ req[w].op = "day" /\ req[w].shares # <<>>
    BY <1>1, EditFacts DEF FitsPhase
  <1>3. PICK l \in Lists : l = req[w].shares /\ l # <<>> /\ l \in Seq(Shares)
    BY <1>2, ListsFacts
  <1>4. Head(l) \in Shares /\ Tail(l) \in Lists /\ Tail(l) \in Seq(Shares) /\ Len(Tail(l)) = Len(l) - 1
    BY <1>3, ListsFacts, HeadTailProperties
  <1>5. Len(l) \in Nat /\ (Len(l) # 1 => Tail(l) # <<>>) /\ (Len(l) = 1 => Tail(l) = <<>>)
    <2>1. Len(l) \in Nat
      BY <1>3, ListsLengths
    <2>2. PICK t \in Lists : t = Tail(l) /\ Len(t) = Len(l) - 1
      BY <1>4
    <2>3. Len(t) \in Nat /\ (Len(t) = 0 <=> t = <<>>)
      BY ListsLengths
    <2>4. QED
      BY <2>1, <2>2, <2>3
  <1>6. QED
    BY <1>1, <1>2, <1>3, <1>4, <1>5

LEMMA FillTypes ==
    ASSUME ActivityTypes, NEW w \in Workers, FillDay(w)
    PROVE  ActivityTypes'
  <1>1. PICK q \in Edit : q = req[w] /\ q.op = "day" /\ q.shares # <<>>
                          /\ q.user \in Users /\ q.date \in Dates
                          /\ Head(q.shares) \in Shares /\ Tail(q.shares) \in Lists
                          /\ (Len(q.shares) # 1 => Tail(q.shares) # <<>>)
    BY RestOfList DEF FillDay
  <1>2. /\ Insert(q.user, q.date, Head(q.shares)) /\ UNCHANGED <<weight, certified, peak>>
        /\ Overtake(w) /\ blind' \subseteq Ids \cup {0}
    BY <1>1 DEF FillDay, Insert, Written, ActivityTypes, ActivitiesTypeOK
  <1>3. /\ pc' \in [Workers -> Phases] /\ req' \in [Workers -> Requests]
        /\ \A v \in Workers : FitsPhase(pc'[v], req'[v])
    <2>1. CASE Answer(w)
      BY <2>1, AnswerTypes
    <2>2. CASE Len(q.shares) # 1 /\ UNCHANGED pc /\ req' = [req EXCEPT ![w].shares = Tail(@)]
      <3> DEFINE r == [q EXCEPT !.shares = Tail(q.shares)]
      <3>1. r \in Edit /\ r.op = "day" /\ r.shares = Tail(q.shares) /\ r.id = 0
        <4>1. q.id = 0
          BY <1>1 DEF FillDay, ActivityTypes, FitsPhase
        <4>2. QED
          BY <1>1, <4>1 DEF Edit
      <3>2. req' = [req EXCEPT ![w] = r] /\ pc' = [pc EXCEPT ![w] = "fill"]
        BY <1>1, <2>2 DEF FillDay, ActivityTypes, ActivitiesTypeOK
      <3> HIDE DEF r
      <3>3. FitsPhase("fill", r) /\ r \in Requests /\ "fill" \in Phases
        BY <1>1, <2>2, <3>1 DEF FitsPhase, Requests, Phases, EditPhases
      <3>4. QED
        BY <3>2, <3>3, MoveTypes
    <2>3. QED
      BY <1>1, <2>1, <2>2 DEF FillDay
  <1>4. QED
    BY <1>1, <1>2, <1>3, InsertTypes, WriteTypes

LEMMA LockTypes ==
    ASSUME ActivityTypes, NEW w \in Workers, LockMonth(w)
    PROVE  ActivityTypes'
  <1>1. req[w] \in Certification /\ req[w].user \in Users /\ req[w].month \in Months
    BY DEF LockMonth, ActivityTypes, FitsPhase, Certification
  <1>2. certified' \subseteq Users \X Months
    BY <1>1 DEF LockMonth, ActivityTypes, ActivitiesTypeOK
  <1>3. /\ Answer(w) /\ UNCHANGED <<weight, activities, nextId, peak, blind>>
        /\ late' \subseteq Workers /\ crossed' \in [Workers -> SUBSET Dates]
    BY DEF LockMonth, ActivityTypes, ActivitiesTypeOK
  <1>4. QED
    BY <1>2, <1>3, AnswerTypes DEF ActivityTypes, ActivitiesTypeOK, Numbered, Phases, Requests

LEMMA WeightTypes ==
    ASSUME ActivityTypes, NEW u \in Users, NEW d \in Dates, WeightChanges(u, d)
    PROVE  ActivityTypes'
  <1>1. PICK x \in Weights :
          /\ weight' = [weight EXCEPT ![u][d] = x]
          /\ peak' = [peak EXCEPT ![u][d] = IF x > @ THEN x ELSE @]
    BY WeightOfRows DEF WeightChanges
  <1>2. weight' \in [Users -> [Dates -> Weights]] /\ peak' \in [Users -> [Dates -> Weights]]
    BY <1>1 DEF ActivityTypes, ActivitiesTypeOK
  <1>3. UNCHANGED <<activities, nextId, certified, pc, req, late, crossed, blind>>
    BY DEF WeightChanges
  <1>4. QED
    BY <1>2, <1>3 DEF ActivityTypes, ActivitiesTypeOK, Numbered

LEMMA StepTypes == ActivityTypes /\ [ActivitiesNext]_activityVars => ActivityTypes'
  <1> SUFFICES ASSUME ActivityTypes, [ActivitiesNext]_activityVars PROVE ActivityTypes'
    OBVIOUS
  <1>1. ASSUME NEW w \in Workers,
               \/ CreateProjectActivity(w) \/ UpdateProjectActivity(w) \/ DeleteProjectActivity(w)
               \/ SetDayActivities(w) \/ CertifyProjectMonth(w)
        PROVE  ActivityTypes'
    BY <1>1, BeginTypes
  <1>2. ASSUME NEW w \in Workers, ReadWeight(w) PROVE ActivityTypes'
    BY <1>2, ReadWeightTypes
  <1>3. ASSUME NEW w \in Workers,
               \/ ReadTotal(w) \/ RejectIfProjectMonthCertified(w) \/ SumMonth(w) \/ StatementFails(w)
        PROVE  ActivityTypes'
    BY <1>3, ReadTypes
  <1>4. ASSUME NEW w \in Workers, WriteOne(w) PROVE ActivityTypes'
    BY <1>4, WriteOneTypes
  <1>5. ASSUME NEW w \in Workers, WipeDay(w) PROVE ActivityTypes'
    BY <1>5, WipeTypes
  <1>6. ASSUME NEW w \in Workers, FillDay(w) PROVE ActivityTypes'
    BY <1>6, FillTypes
  <1>7. ASSUME NEW w \in Workers, LockMonth(w) PROVE ActivityTypes'
    BY <1>7, LockTypes
  <1>8. ASSUME NEW u \in Users, NEW m \in Months, DecertifyProjectMonth(u, m) PROVE ActivityTypes'
    BY <1>8 DEF DecertifyProjectMonth, ActivityTypes, ActivitiesTypeOK, Numbered
  <1>9. ASSUME NEW u \in Users, NEW d \in Dates, WeightChanges(u, d) PROVE ActivityTypes'
    BY <1>9, WeightTypes
  <1>10. CASE Restart
    BY <1>10, AnswerFits DEF Restart, ActivityTypes, ActivitiesTypeOK, Numbered
  <1>11. CASE UNCHANGED activityVars
    BY <1>11 DEF activityVars, ActivityTypes, ActivitiesTypeOK, Numbered
  <1>12. QED
    BY <1>1, <1>2, <1>3, <1>4, <1>5, <1>6, <1>7, <1>8, <1>9, <1>10, <1>11 DEF ActivitiesNext

(* Requests of any number of users keep the tables and one another typed,  *)
(* and the ids of project_activities are never used twice.                 *)
THEOREM ActivitiesWellTyped == ActivitiesSpec => []ActivitiesTypeOK
  <1>1. ActivityTypes => ActivitiesTypeOK
    BY DEF ActivityTypes
  <1>2. QED
    BY <1>1, InitTypes, StepTypes, PTL DEF ActivitiesSpec

-----------------------------------------------------------------------------
(* Requests in flight together.                                            *)

OthersThan(i) == {a \in activities : a.id # i}

(* The room that the queries of w's request found is still there, unless   *)
(* another request has added to the day.                                   *)
RoomLeft(w, p, r) ==
    /\ p = "total" => r.limit <= peak[r.user][r.date]
    /\ p = "write" /\ r.op = "day" => ListTotal(r.shares) <= peak[r.user][r.date]
    /\ p = "fill" \/ (p \in {"cert", "write"} /\ r.op \in {"create", "update"}) =>
          \/ r.date \in crossed[w]
          \/ DayTotal(OthersThan(r.id), r.user, r.date) + ListTotal(r.shares) <= peak[r.user][r.date]

(* An update or a deletion keeps to the day of its activity.               *)
TargetFound(r) ==
    r.op \in {"update", "delete"} =>
        r.id < nextId /\ \A a \in activities : a.id = r.id => a.user = r.user /\ a.date = r.date

(* The month that w's request found open is open, or w is late.            *)
Unlocked(w, p, r) ==
    \/ p = "fill"
    \/ p = "write" /\ r.op # "create"
    \/ p = "weight" /\ r.op = "day"
    => ~IsCertified(r) \/ w \in late

(* The days that w's certification found full are full, unless another     *)
(* request has taken away from one.                                        *)
Counted(w, p, r) ==
    p = "lock" => \A d \in Billable(r.weights, r.month) :
                      d \in crossed[w] \/ DayTotal(activities, r.user, d) >= r.weights[d]

RequestHolds(w, p, r) ==
    RoomLeft(w, p, r) /\ TargetFound(r) /\ Unlocked(w, p, r) /\ Counted(w, p, r)

PeakIsPeak == \A u \in Users, d \in Dates : weight[u][d] <= peak[u][d]

ActivitiesSafe ==
    /\ ActivityTypes /\ PeakIsPeak /\ WithinAllocation
    /\ \A w \in Workers : RequestHolds(w, pc[w], req[w])

LEMMA Measured ==
    ASSUME ActivityTypes
    PROVE  /\ WithShares(activities)
           /\ \A acts \in SUBSET activities :
                 WithShares(acts) /\ \A u, d : DayTotal(acts, u, d) \in Nat
           /\ \A u \in Users, d \in Dates : weight[u][d] \in Nat /\ peak[u][d] \in Nat
           /\ \A l \in Lists : ListTotal(l) \in Nat
           /\ \A s \in Shares : s \in Nat
           /\ \A a \in activities : a \in Activity /\ a.id \in Nat \ {0} /\ a.share \in Nat
  <1>1. \A s \in Shares : s \in Nat
    BY ActivitiesAssumption
  <1>2. \A a \in activities : a \in Activity /\ a.id \in Nat \ {0} /\ a.share \in Nat
    BY <1>1 DEF ActivityTypes, ActivitiesTypeOK, Activity, Ids
  <1>3. ASSUME NEW acts \in SUBSET activities
        PROVE  WithShares(acts) /\ \A u, d : DayTotal(acts, u, d) \in Nat
    <2>1. IsFiniteSet(acts)
      BY FS_Subset DEF ActivityTypes, Numbered
    <2>2. WithShares(acts)
      BY <1>2, <2>1 DEF WithShares
    <2>3. QED
      BY <2>2, DayTotalIs
  <1>4. \A u \in Users, d \in Dates : weight[u][d] \in Nat /\ peak[u][d] \in Nat
    <2>1. Weights \subseteq Nat
      BY DEF Weights
    <2>2. QED
      BY <2>1 DEF ActivityTypes, ActivitiesTypeOK
  <1>5. \A l \in Lists : ListTotal(l) \in Nat
    BY ListsFacts, ListTotalNat
  <1>6. activities \in SUBSET activities
    OBVIOUS
  <1>7. QED
    BY <1>1, <1>2, <1>3, <1>4, <1>5, <1>6

LEMMA IdleHolds ==
    ASSUME NEW w, NEW r, r = NoReq
    PROVE  RequestHolds(w, "idle", r) /\ RequestHolds(w, "idle", r)'
  BY DEF RequestHolds, RoomLeft, TargetFound, Unlocked, Counted, NoReq

OthersHold(w) == \A v \in Workers \ {w} : RequestHolds(v, pc[v], req[v])

(* A step is safe when its own request holds and the others' still do.     *)
LEMMA MoveSafe ==
    ASSUME ActivityTypes', PeakIsPeak', WithinAllocation', NEW w \in Workers, OthersHold(w)',
           NEW p, NEW r, pc'[w] = p, req'[w] = r, RequestHolds(w, p, r)'
    PROVE  ActivitiesSafe'
  <1>1. ASSUME NEW v \in Workers PROVE RequestHolds(v, pc[v], req[v])'
    <2>1. CASE v = w
      BY <2>1
    <2>2. CASE v # w
      BY <2>2 DEF OthersHold
    <2>3. QED
      BY <2>1, <2>2
  <1>2. QED
    BY <1>1 DEF ActivitiesSafe

(* A step that writes nothing but its request.                             *)
LEMMA QuietSafe ==
    ASSUME ActivitiesSafe, ActivityTypes', NEW w \in Workers, Quiet(w), NEW p, NEW r,
           pc' = [pc EXCEPT ![w] = p], req' = [req EXCEPT ![w] = r], RequestHolds(w, p, r)
    PROVE  ActivitiesSafe'
  <1>1. /\ UNCHANGED <<weight, activities, nextId, certified, peak, blind>>
        /\ pc'[w] = p /\ req'[w] = r
        /\ p # "idle" => UNCHANGED <<crossed, late>>
    BY DEF Quiet, ActivitiesSafe, ActivityTypes, ActivitiesTypeOK
  <1>2. RequestHolds(w, p, r)'
    <2>1. CASE p = "idle"
      BY <1>1, <2>1 DEF RequestHolds, RoomLeft, TargetFound, Unlocked, Counted
    <2>2. CASE p # "idle"
      BY <1>1, <2>2 DEF RequestHolds, RoomLeft, TargetFound, Unlocked, Counted, OthersThan, IsCertified
    <2>3. QED
      BY <2>1, <2>2
  <1>3. ASSUME NEW v \in Workers \ {w} PROVE RequestHolds(v, pc[v], req[v])'
    <2>1. PICK x, y : x = pc[v] /\ y = req[v]
      OBVIOUS
    <2>2. RequestHolds(v, x, y)
      BY <2>1 DEF ActivitiesSafe
    <2>3. pc'[v] = x /\ req'[v] = y /\ crossed'[v] = crossed[v] /\ (v \in late' <=> v \in late)
      BY <2>1 DEF Quiet, ActivitiesSafe, ActivityTypes, ActivitiesTypeOK
    <2>4. RequestHolds(v, x, y)'
      BY <1>1, <2>2, <2>3
         DEF RequestHolds, RoomLeft, TargetFound, Unlocked, Counted, OthersThan, IsCertified
    <2>5. QED
      BY <2>3, <2>4
  <1>4. PeakIsPeak' /\ WithinAllocation'
    BY <1>1 DEF ActivitiesSafe, PeakIsPeak, WithinAllocation
  <1>5. QED
    BY <1>1, <1>2, <1>3, <1>4, MoveSafe DEF OthersHold

LEMMA InitSafe == ActivitiesInit => ActivitiesSafe
  <1> SUFFICES ASSUME ActivitiesInit PROVE ActivitiesSafe
    OBVIOUS
  <1>1. ActivityTypes
    BY InitTypes
  <1>2. \A u, d : OfDay({a \in activities : a.id \notin blind}, u, d) = {}
    BY DEF ActivitiesInit, OfDay
  <1>3. \A u, d : DayTotal({a \in activities : a.id \notin blind}, u, d) = 0
    BY <1>2, DayTotalNone
  <1>4. \A u \in Users, d \in Dates : weight[u][d] = 0 /\ peak[u][d] = 0
    BY DEF ActivitiesInit
  <1>5. PeakIsPeak /\ WithinAllocation
    BY <1>3, <1>4 DEF PeakIsPeak, WithinAllocation
  <1>6. \A w \in Workers : pc[w] = "idle" /\ req[w] = NoReq
    BY DEF ActivitiesInit
  <1>7. QED
    BY <1>1, <1>5, <1>6, IdleHolds DEF ActivitiesSafe

LEMMA BeginSafe ==
    ASSUME ActivitiesSafe, ActivityTypes', NEW w \in Workers,
           \/ CreateProjectActivity(w) \/ UpdateProjectActivity(w) \/ DeleteProjectActivity(w)
           \/ SetDayActivities(w) \/ CertifyProjectMonth(w)
    PROVE  ActivitiesSafe'
  <1>1. ASSUME NEW p, NEW r, p # "idle", Begin(w, r, p),
               /\ p \notin {"total", "write", "fill", "lock"}
               /\ p = "cert" => r.op \in {"delete", "day"}
               /\ p = "weight" => r.op # "day",
               TargetFound(r)
        PROVE  ActivitiesSafe'
    <2>1. RequestHolds(w, p, r)
      BY <1>1 DEF RequestHolds, RoomLeft, Unlocked, Counted
    <2>2. Quiet(w)
      BY DEF CreateProjectActivity, UpdateProjectActivity, DeleteProjectActivity,
             SetDayActivities, CertifyProjectMonth
    <2>3. pc' = [pc EXCEPT ![w] = p] /\ req' = [req EXCEPT ![w] = r]
      BY <1>1 DEF Begin
    <2>4. QED
      BY <1>1, <2>1, <2>2, <2>3, QuietSafe
  <1>2. CASE CreateProjectActivity(w)
    <2>1. PICK u \in Users, d \in Dates, s \in Shares :
            Begin(w, [op |-> "create", user |-> u, date |-> d, id |-> 0,
                      shares |-> <<s>>, limit |-> 0], "weight")
      BY <1>2 DEF CreateProjectActivity
    <2> DEFINE r == [op |-> "create", user |-> u, date |-> d, id |-> 0,
                     shares |-> <<s>>, limit |-> 0]
    <2>2. r.op = "create" /\ TargetFound(r)
      BY DEF TargetFound
    <2> HIDE DEF r
    <2>3. QED
      BY <1>1, <2>1, <2>2 DEF r
  <1>3. CASE UpdateProjectActivity(w)
    <2>1. PICK a \in activities, s \in Shares :
            Begin(w, [op |-> "update", user |-> a.user, date |-> a.date, id |-> a.id,
                      shares |-> <<s>>, limit |-> 0], "weight")
      BY <1>3 DEF UpdateProjectActivity
    <2> DEFINE r == [op |-> "update", user |-> a.user, date |-> a.date, id |-> a.id,
                     shares |-> <<s>>, limit |-> 0]
    <2>2. r.op = "update" /\ TargetFound(r)
      BY DEF TargetFound, ActivitiesSafe, ActivityTypes, ActivitiesTypeOK, Numbered
    <2> HIDE DEF r
    <2>3. QED
      BY <1>1, <2>1, <2>2 DEF r
  <1>4. CASE DeleteProjectActivity(w)
    <2>1. PICK a \in activities :
            Begin(w, [op |-> "delete", user |-> a.user, date |-> a.date, id |-> a.id,
                      shares |-> <<>>, limit |-> 0], "cert")
      BY <1>4 DEF DeleteProjectActivity
    <2> DEFINE r == [op |-> "delete", user |-> a.user, date |-> a.date, id |-> a.id,
                     shares |-> <<>>, limit |-> 0]
    <2>2. r.op = "delete" /\ TargetFound(r)
      BY DEF TargetFound, ActivitiesSafe, ActivityTypes, ActivitiesTypeOK, Numbered
    <2> HIDE DEF r
    <2>3. QED
      BY <1>1, <2>1, <2>2 DEF r
  <1>5. CASE SetDayActivities(w)
    <2>1. PICK u \in Users, d \in Dates, l \in Lists :
            Begin(w, [op |-> "day", user |-> u, date |-> d, id |-> 0,
                      shares |-> l, limit |-> 0], "cert")
      BY <1>5 DEF SetDayActivities
    <2> DEFINE r == [op |-> "day", user |-> u, date |-> d, id |-> 0,
                     shares |-> l, limit |-> 0]
    <2>2. r.op = "day" /\ TargetFound(r)
      BY DEF TargetFound
    <2> HIDE DEF r
    <2>3. QED
      BY <1>1, <2>1, <2>2 DEF r
  <1>6. CASE CertifyProjectMonth(w)
    <2>1. PICK u \in Users, m \in Months :
            Begin(w, [op |-> "certify", user |-> u, month |-> m, weights |-> weight[u]], "sum")
      BY <1>6 DEF CertifyProjectMonth
    <2>2. PICK x \in [Dates -> Weights] : x = weight[u]
      BY DEF ActivitiesSafe, ActivityTypes, ActivitiesTypeOK
    <2> DEFINE r == [op |-> "certify", user |-> u, month |-> m, weights |-> x]
    <2>3. TargetFound(r)
      BY DEF TargetFound
    <2> HIDE DEF r
    <2>4. Begin(w, r, "sum")
      BY <2>1, <2>2 DEF r
    <2>5. QED
      BY <1>1, <2>3, <2>4
  <1>7. QED
    BY <1>2, <1>3, <1>4, <1>5, <1>6

(* A request that goes on to its next query, or is answered.               *)
LEMMA GotoSafe ==
    ASSUME ActivitiesSafe, ActivityTypes', NEW w \in Workers,
           Quiet(w), NEW p \in Phases, Goto(w, p), RequestHolds(w, p, req[w])
    PROVE  ActivitiesSafe'
  <1>1. PICK r \in Requests : r = req[w]
    BY DEF ActivitiesSafe, ActivityTypes, ActivitiesTypeOK, Requests
  <1>2. req' = [req EXCEPT ![w] = r] /\ pc' = [pc EXCEPT ![w] = p]
    BY <1>1 DEF Goto, ActivitiesSafe, ActivityTypes, ActivitiesTypeOK
  <1>3. QED
    BY <1>1, <1>2, QuietSafe

LEMMA AnswerSafe ==
    ASSUME ActivitiesSafe, ActivityTypes', NEW w \in Workers, Quiet(w), Answer(w)
    PROVE  ActivitiesSafe'
  BY QuietSafe, IdleHolds DEF Answer

LEMMA ReadWeightSafe ==
    ASSUME ActivitiesSafe, ActivityTypes', NEW w \in Workers, ReadWeight(w)
    PROVE  ActivitiesSafe'
  <1>1. /\ pc[w] = "weight" /\ req[w] \in Edit /\ FitsPhase(pc[w], req[w])
        /\ RequestHolds(w, pc[w], req[w])
        /\ Quiet(w)
    BY Editing DEF ReadWeight, EditPhases, ActivitiesSafe
  <1>2. PICK q \in Edit : q = req[w]
    BY <1>1
  <1>3. q.user \in Users /\ q.date \in Dates /\ q.shares \in Lists /\ q \in Requests
    BY EditFacts
  <1>4. PICK x \in Weights : x = weight[q.user][q.date]
    BY <1>3 DEF ActivitiesSafe, ActivityTypes, ActivitiesTypeOK
  <1>5. /\ x \in Nat /\ peak[q.user][q.date] \in Nat /\ x <= peak[q.user][q.date]
        /\ ListTotal(q.shares) \in Nat
    BY <1>3, <1>4, Measured DEF ActivitiesSafe, PeakIsPeak
  <1>6. CASE Answer(w)
    BY <1>1, <1>6, AnswerSafe
  <1>7. CASE /\ q.op = "day" /\ Goto(w, "write")
             /\ ~(x = 0 /\ q.shares # <<>>) /\ ~(x > 0 /\ ListTotal(q.shares) > x)
    <2>1. ListTotal(q.shares) <= peak[q.user][q.date]
      BY <1>5, <1>7, ListTotalEmpty
    <2>2. RequestHolds(w, "write", q)
      BY <1>1, <1>2, <1>7, <2>1 DEF RequestHolds, RoomLeft, TargetFound, Unlocked, Counted
    <2>3. "write" \in Phases
      BY DEF Phases
    <2>4. QED
      BY <1>1, <1>2, <1>7, <2>2, <2>3, GotoSafe
  <1>8. CASE /\ q.op # "day" /\ pc' = [pc EXCEPT ![w] = "total"]
             /\ req' = [req EXCEPT ![w].limit = x]
    <2> DEFINE r == [q EXCEPT !.limit = x]
    <2>1. /\ r.op = q.op /\ r.id = q.id /\ r.user = q.user /\ r.date = q.date /\ r.limit = x
      BY DEF Edit
    <2>2. req' = [req EXCEPT ![w] = r]
      BY <1>2, <1>8 DEF ActivitiesSafe, ActivityTypes, ActivitiesTypeOK
    <2> HIDE DEF r
    <2>3. RequestHolds(w, "total", r)
      BY <1>1, <1>2, <1>5, <2>1 DEF RequestHolds, RoomLeft, TargetFound, Unlocked, Counted
    <2>4. QED
      BY <1>1, <1>8, <2>2, <2>3, QuietSafe
  <1>9. QED
    BY <1>2, <1>4, <1>6, <1>7, <1>8 DEF ReadWeight

LEMMA ReadTotalSafe ==
    ASSUME ActivitiesSafe, ActivityTypes', NEW w \in Workers, ReadTotal(w)
    PROVE  ActivitiesSafe'
  <1>1. /\ pc[w] = "total" /\ req[w] \in Edit /\ RequestHolds(w, pc[w], req[w])
        /\ Quiet(w)
    BY Editing DEF ReadTotal, EditPhases, ActivitiesSafe
  <1>2. PICK q \in Edit : q = req[w]
    BY <1>1
  <1>3. q.user \in Users /\ q.date \in Dates /\ q.shares \in Lists /\ q.limit \in Weights
    BY EditFacts
  <1>4. /\ peak[q.user][q.date] \in Nat /\ q.limit \in Nat /\ ListTotal(q.shares) \in Nat
        /\ DayTotal(OthersThan(q.id), q.user, q.date) \in Nat
    <2>1. OthersThan(q.id) \in SUBSET activities /\ Weights \subseteq Nat
      BY DEF OthersThan, Weights
    <2>2. ActivityTypes
      BY DEF ActivitiesSafe
    <2>3. DayTotal(OthersThan(q.id), q.user, q.date) \in Nat
      BY <2>1, <2>2, Measured
    <2>4. peak[q.user][q.date] \in Nat /\ ListTotal(q.shares) \in Nat
      BY <1>3, <2>2, Measured
    <2>5. QED
      BY <1>3, <2>1, <2>3, <2>4
  <1>5. q.limit <= peak[q.user][q.date]
    BY <1>1, <1>2 DEF RequestHolds, RoomLeft
  <1>6. CASE Answer(w)
    BY <1>1, <1>6, AnswerSafe
  <1>7. CASE /\ Goto(w, "cert")
             /\ ~(DayTotal(OthersThan(q.id), q.user, q.date) + ListTotal(q.shares) > q.limit)
    <2>1. DayTotal(OthersThan(q.id), q.user, q.date) + ListTotal(q.shares) <= peak[q.user][q.date]
      BY <1>4, <1>5, <1>7
    <2>2. RequestHolds(w, "cert", q)
      BY <1>1, <1>2, <2>1 DEF RequestHolds, RoomLeft, TargetFound, Unlocked, Counted
    <2>3. "cert" \in Phases
      BY DEF Phases
    <2>4. QED
      BY <1>1, <1>2, <1>7, <2>2, <2>3, GotoSafe
  <1>8. QED
    BY <1>2, <1>6, <1>7 DEF ReadTotal, OthersThan

LEMMA RejectSafe ==
    ASSUME ActivitiesSafe, ActivityTypes', NEW w \in Workers,
           RejectIfProjectMonthCertified(w)
    PROVE  ActivitiesSafe'
  <1>1. /\ pc[w] = "cert" /\ RequestHolds(w, pc[w], req[w])
        /\ Quiet(w)
        /\ {"weight", "write"} \subseteq Phases
    BY DEF RejectIfProjectMonthCertified, ActivitiesSafe, Phases
  <1>2. CASE Answer(w)
    BY <1>1, <1>2, AnswerSafe
  <1>3. CASE req[w].op = "create" /\ Goto(w, "write")
    <2>1. RequestHolds(w, "write", req[w])
      BY <1>1, <1>3 DEF RequestHolds, RoomLeft, TargetFound, Unlocked, Counted
    <2>2. QED
      BY <1>1, <1>3, <2>1, GotoSafe
  <1>4. CASE ~IsCertified(req[w]) /\ req[w].op = "day" /\ Goto(w, "weight")
    <2>1. RequestHolds(w, "weight", req[w])
      BY <1>1, <1>4 DEF RequestHolds, RoomLeft, TargetFound, Unlocked, Counted
    <2>2. QED
      BY <1>1, <1>4, <2>1, GotoSafe
  <1>5. CASE ~IsCertified(req[w]) /\ req[w].op # "day" /\ Goto(w, "write")
    <2>1. RequestHolds(w, "write", req[w])
      BY <1>1, <1>5 DEF RequestHolds, RoomLeft, TargetFound, Unlocked, Counted
    <2>2. QED
      BY <1>1, <1>5, <2>1, GotoSafe
  <1>6. QED
    BY <1>2, <1>3, <1>4, <1>5 DEF RejectIfProjectMonthCertified

LEMMA SumMonthSafe ==
    ASSUME ActivitiesSafe, ActivityTypes', NEW w \in Workers, SumMonth(w)
    PROVE  ActivitiesSafe'
  <1>1. /\ pc[w] = "sum" /\ RequestHolds(w, pc[w], req[w]) /\ "lock" \in Phases
        /\ Quiet(w)
    BY DEF SumMonth, ActivitiesSafe, Phases
  <1>2. CASE Answer(w)
    BY <1>1, <1>2, AnswerSafe
  <1>3. CASE Covers(activities, req[w].user, req[w].month, req[w].weights) /\ Goto(w, "lock")
    <2>1. RequestHolds(w, "lock", req[w])
      BY <1>1, <1>3 DEF RequestHolds, RoomLeft, TargetFound, Unlocked, Counted, Covers
    <2>2. QED
      BY <1>1, <1>3, <2>1, GotoSafe
  <1>4. QED
    BY <1>2, <1>3 DEF SumMonth

(* The edit that a worker is about to write.                               *)
LEMMA Writing ==
    ASSUME ActivitiesSafe, NEW w \in Workers, pc[w] \in {"write", "fill"}
    PROVE  /\ req[w] \in Edit /\ FitsPhase(pc[w], req[w]) /\ RequestHolds(w, pc[w], req[w])
           /\ req[w].user \in Users /\ req[w].date \in Dates /\ req[w].shares \in Lists
           /\ req[w].id \in Ids \cup {0}
  <1>1. req[w] \in Edit /\ FitsPhase(pc[w], req[w]) /\ RequestHolds(w, pc[w], req[w])
    BY Editing DEF ActivitiesSafe, EditPhases
  <1>2. QED
    BY <1>1, EditFacts

LEMMA NewActivity ==
    ASSUME ActivitiesSafe, NEW u \in Users, NEW d \in Dates, NEW s \in Shares, Insert(u, d, s)
    PROVE  \E b \in Activity : /\ b \notin activities /\ activities' = activities \cup {b}
                               /\ b.user = u /\ b.date = d /\ b.share = s /\ b.id = nextId
  <1> DEFINE new == [id |-> nextId, user |-> u, date |-> d, share |-> s]
  <1>1. /\ new \in Activity /\ new.id = nextId /\ activities' = activities \cup {new}
        /\ new.user = u /\ new.date = d /\ new.share = s
    BY DEF Insert, Activity
  <1> HIDE DEF new
  <1>2. new \notin activities
    BY <1>1, Measured DEF ActivitiesSafe, ActivityTypes, Numbered
  <1>3. QED
    BY <1>1, <1>2

(* A list of one percentage.                                               *)
LEMMA OneShare ==
    ASSUME ActivityTypes, NEW l \in Lists, Len(l) = 1
    PROVE  Head(l) \in Shares /\ Head(l) \in Nat /\ ListTotal(l) = Head(l)
  <1>1. l # <<>> /\ l \in Seq(Nat)
    <2>1. Len(l) = 0 <=> l = <<>>
      BY ListsLengths
    <2>2. l \in Seq(Nat)
      BY ListsFacts
    <2>3. QED
      BY <2>1, <2>2
  <1>2. Head(l) \in Shares /\ Head(l) \in Nat
    BY <1>1, ListsFacts, Measured
  <1>3. PICK t \in Lists : t = Tail(l) /\ Len(t) = Len(l) - 1
    BY <1>1, ListsFacts, HeadTailProperties
  <1>4. t = <<>>
    <2>1. Len(t) = 0 <=> t = <<>>
      BY ListsLengths
    <2>2. QED
      BY <1>3, <2>1
  <1>5. ListTotal(l) = Head(l) + 0
    BY <1>1, <1>3, <1>4, ListTotalHead, ListTotalEmpty
  <1>6. QED
    BY <1>2, <1>5

-----------------------------------------------------------------------------
(* Writes.                                                                 *)

(* What one write of w does: to its own day only, and to the activities    *)
(* that others update or delete nothing that moves them.                   *)
WriteStep(w) ==
    /\ pc[w] \in {"write", "fill"} /\ UNCHANGED <<weight, certified, peak>> /\ Overtake(w)
    /\ \A v \in Workers \ {w} : pc'[v] = pc[v] /\ req'[v] = req[v]
    /\ nextId <= nextId'
    /\ \A a \in activities' : a \notin activities => a.user = req[w].user /\ a.date = req[w].date
    /\ \A a \in activities : a \notin activities' => a.user = req[w].user /\ a.date = req[w].date
    /\ \A a \in activities' : a.id < nextId =>
          \E b \in activities : b.id = a.id /\ b.user = a.user /\ b.date = a.date
    /\ pc[w] = "fill" \/ req[w].op = "create" => activities \subseteq activities'
    /\ pc[w] = "write" /\ req[w].op = "update" =>
          {a \in activities' : a.id # req[w].id} = {a \in activities : a.id # req[w].id}
    /\ pc[w] = "write" /\ req[w].op \in {"delete", "day"} => activities' \subseteq activities

LEMMA StillMeasured ==
    ASSUME ActivityTypes'
    PROVE  WithShares(activities') /\ \A acts \in SUBSET activities' : WithShares(acts)
  <1>1. \A a \in activities' : a.share \in Nat
    <2>1. \A a \in Activity : a.share \in Nat
      <3>1. Shares \subseteq Nat
        BY ActivitiesAssumption
      <3>2. QED
        BY <3>1 DEF Activity
    <2>2. activities' \subseteq Activity
      BY DEF ActivityTypes, ActivitiesTypeOK
    <2>3. QED
      BY <2>1, <2>2
  <1>2. IsFiniteSet(activities')
    BY DEF ActivityTypes, Numbered
  <1>3. ASSUME NEW acts \in SUBSET activities' PROVE WithShares(acts)
    BY <1>1, <1>2, FS_Subset DEF WithShares
  <1>4. QED
    BY <1>1, <1>2, <1>3 DEF WithShares

(* The room that another request had found, when a write leaves it.        *)
LEMMA RoomKept ==
    ASSUME ActivitiesSafe, ActivityTypes', NEW w \in Workers, WriteStep(w),
           NEW v \in Workers \ {w}, NEW p, NEW r \in Edit, p = pc[v], r = req[v],
           RoomLeft(v, p, r), FitsPhase(p, r)
    PROVE  RoomLeft(v, p, r)'
  <1>1. PICK q \in Edit : q = req[w]
    BY Writing DEF WriteStep
  <1>2. /\ q.op \in {"create", "update", "delete", "day"} /\ r.op # "none"
        /\ r.user \in Users /\ r.date \in Dates /\ r.shares \in Lists
        /\ pc[w] \in {"write", "fill"} /\ UNCHANGED peak
    BY EditFacts DEF WriteStep
  <1>3. crossed'[v] = IF Overtakes(w, v) THEN crossed[v] \cup {q.date} ELSE crossed[v]
    BY <1>1 DEF WriteStep, Overtake
  <1>4. ASSUME p = "fill" \/ (p \in {"cert", "write"} /\ r.op \in {"create", "update"}),
               r.date \notin crossed'[v]
        PROVE  DayTotal({a \in activities' : a.id # r.id}, r.user, r.date)
                 + ListTotal(r.shares) <= peak[r.user][r.date]
    <2> DEFINE old == OthersThan(r.id)
               new == {a \in activities' : a.id # r.id}
    <2>1. r.date \notin crossed[v]
      BY <1>3, <1>4
    <2>2. DayTotal(old, r.user, r.date) + ListTotal(r.shares) <= peak[r.user][r.date]
      BY <1>4, <2>1 DEF RoomLeft
    <2>3. OfDay(new, r.user, r.date) \subseteq OfDay(old, r.user, r.date)
      <3>1. CASE q.user # r.user \/ q.date # r.date
        BY <1>1, <3>1 DEF WriteStep, OfDay, OthersThan
      <3>2. CASE q.user = r.user /\ q.date = r.date
        <4>1. ~Overtakes(w, v)
          BY <1>3, <1>4, <3>2
        <4>2. pc[w] = "write" /\ q.op # "create" /\ (q.op = "update" => q.id = r.id)
          BY <1>1, <1>2, <1>4, <3>2, <4>1 DEF Overtakes
        <4>3. new \subseteq old
          BY <1>1, <1>2, <4>2 DEF WriteStep, OthersThan
        <4>4. QED
          BY <4>3 DEF OfDay
      <3>3. QED
        BY <3>1, <3>2
    <2>4. WithShares(old)
      BY Measured DEF OthersThan, ActivitiesSafe
    <2> HIDE DEF old, new
    <2>5. /\ DayTotal(new, r.user, r.date) <= DayTotal(old, r.user, r.date)
          /\ DayTotal(new, r.user, r.date) \in Nat /\ DayTotal(old, r.user, r.date) \in Nat
      BY <2>3, <2>4, DayTotalWithin
    <2>6. ListTotal(r.shares) \in Nat /\ peak[r.user][r.date] \in Nat
      BY <1>2, Measured DEF ActivitiesSafe
    <2>7. DayTotal(new, r.user, r.date) + ListTotal(r.shares) <= peak[r.user][r.date]
      BY <2>2, <2>5, <2>6
    <2>8. QED
      BY <2>7 DEF new
  <1>5. QED
    BY <1>2, <1>4 DEF RoomLeft, OthersThan

LEMMA TargetKept ==
    ASSUME ActivitiesSafe, ActivityTypes', NEW w \in Workers, WriteStep(w),
           NEW r \in Edit, TargetFound(r)
    PROVE  TargetFound(r)'
  <1>1. r.id \in Nat /\ nextId \in Nat /\ nextId' \in Nat /\ nextId <= nextId'
    BY EditFacts, ActivitiesAssumption
       DEF Ids, WriteStep, ActivitiesSafe, ActivityTypes, ActivitiesTypeOK
  <1>2. QED
    BY <1>1 DEF WriteStep, TargetFound

(* The days that another request had found full, when a write leaves them. *)
LEMMA CountKept ==
    ASSUME ActivitiesSafe, ActivityTypes', NEW w \in Workers, WriteStep(w),
           NEW v \in Workers \ {w}, NEW r \in Certification, pc[v] = "lock", r = req[v],
           Counted(v, "lock", r)
    PROVE  Counted(v, "lock", r)'
  <1>1. PICK q \in Edit : q = req[w]
    BY Writing DEF WriteStep
  <1>2. /\ q.op \in {"create", "update", "delete", "day"} /\ r.op # "none"
        /\ r.user \in Users /\ r.weights \in [Dates -> Weights]
        /\ pc[w] \in {"write", "fill"}
    BY EditFacts DEF WriteStep, Certification
  <1>3. crossed'[v] = IF Overtakes(w, v) THEN crossed[v] \cup {q.date} ELSE crossed[v]
    BY <1>1 DEF WriteStep, Overtake
  <1>4. ASSUME NEW d \in Billable(r.weights, r.month), d \notin crossed'[v]
        PROVE  DayTotal(activities', r.user, d) >= r.weights[d]
    <2>1. d \notin crossed[v] /\ d \in Dates /\ MonthOf[d] = r.month
      BY <1>3, <1>4 DEF Billable
    <2>2. DayTotal(activities, r.user, d) >= r.weights[d]
      BY <2>1 DEF Counted
    <2>3. OfDay(activities, r.user, d) \subseteq OfDay(activities', r.user, d)
      <3>1. CASE q.user # r.user \/ q.date # d
        BY <1>1, <3>1 DEF WriteStep, OfDay
      <3>2. CASE q.user = r.user /\ q.date = d
        <4>1. ~Overtakes(w, v)
          BY <1>3, <1>4, <3>2
        <4>2. pc[w] = "fill" \/ q.op = "create"
          BY <1>1, <1>2, <2>1, <3>2, <4>1 DEF Overtakes
        <4>3. QED
          BY <1>1, <4>2 DEF WriteStep, OfDay
      <3>3. QED
        BY <3>1, <3>2
    <2>4. /\ DayTotal(activities, r.user, d) <= DayTotal(activities', r.user, d)
          /\ DayTotal(activities, r.user, d) \in Nat /\ DayTotal(activities', r.user, d) \in Nat
      BY <2>3, StillMeasured, DayTotalWithin
    <2>5. r.weights[d] \in Nat
      BY <1>2, <2>1 DEF Weights
    <2>6. QED
      BY <2>2, <2>4, <2>5
  <1>5. QED
    BY <1>4 DEF Counted, Billable

(* A write leaves what the other requests rest on, or marks it.            *)
LEMMA OthersSafe ==
    ASSUME ActivitiesSafe, ActivityTypes', NEW w \in Workers, WriteStep(w)
    PROVE  OthersHold(w)'
  <1>1. ASSUME NEW v \in Workers \ {w} PROVE RequestHolds(v, pc[v], req[v])'
    <2>1. PICK p, r : p = pc[v] /\ r = req[v]
      OBVIOUS
    <2>2. /\ p \in Phases /\ r \in Requests /\ FitsPhase(p, r) /\ RequestHolds(v, p, r)
          /\ p = pc'[v] /\ r = req'[v]
      BY <2>1 DEF ActivitiesSafe, ActivityTypes, ActivitiesTypeOK, Phases, Requests, WriteStep
    <2>3. Unlocked(v, p, r)'
      <3>1. UNCHANGED certified /\ (v \in late => v \in late')
        BY DEF WriteStep, Overtake
      <3>2. QED
        BY <2>2, <3>1 DEF RequestHolds, Unlocked, IsCertified
    <2>4. CASE r \in Edit
      <3>1. RoomLeft(v, p, r)'
        BY <2>1, <2>2, <2>4, RoomKept DEF RequestHolds
      <3>2. TargetFound(r)'
        BY <2>2, <2>4, TargetKept DEF RequestHolds
      <3>3. p # "lock"
        BY <2>2, <2>4 DEF FitsPhase, Edit, Certification
      <3>4. RequestHolds(v, p, r)'
        BY <2>3, <3>1, <3>2, <3>3 DEF RequestHolds, Counted
      <3>5. QED
        BY <2>2, <3>4
    <2>5. CASE r \notin Edit
      <3>1. r = NoReq \/ r \in Certification
        BY <2>2, <2>5 DEF Requests
      <3>2. r.op \notin {"create", "update", "delete", "day"} /\ p \notin EditPhases
        BY <2>2, <2>5, <3>1 DEF NoReq, Certification, FitsPhase
      <3>3. p = "lock" => r \in Certification
        BY <2>2 DEF FitsPhase
      <3>4. Counted(v, p, r)'
        <4>1. CASE p = "lock"
          BY <2>1, <2>2, <3>3, <4>1, CountKept DEF RequestHolds
        <4>2. CASE p # "lock"
          BY <4>2 DEF Counted
        <4>3. QED
          BY <4>1, <4>2
      <3>5. RequestHolds(v, p, r)'
        BY <2>3, <3>2, <3>4 DEF RequestHolds, RoomLeft, TargetFound, EditPhases
      <3>6. QED
        BY <2>2, <3>5
    <2>6. QED
      BY <2>4, <2>5
  <1>2. QED
    BY <1>1 DEF OthersHold

(* The activities that a write leaves with a day within its allocation.    *)
Kept(w) ==
    \A a \in activities' : a.id \notin blind' =>
        \/ a \in activities /\ a.id \notin blind
        \/ /\ a.user = req[w].user /\ a.date = req[w].date
           /\ DayTotal(activities', req[w].user, req[w].date) <= peak[req[w].user][req[w].date]

LEMMA AllocationKept ==
    ASSUME ActivitiesSafe, ActivityTypes', NEW w \in Workers, UNCHANGED peak, Kept(w)
    PROVE  WithinAllocation'
  <1> DEFINE old == {a \in activities : a.id \notin blind}
             new == {a \in activities' : a.id \notin blind'}
  <1>1. ASSUME NEW u \in Users, NEW d \in Dates PROVE DayTotal(new, u, d) <= peak[u][d]
    <2>1. peak[u][d] \in Nat /\ WithShares(old) /\ WithShares(activities')
      BY Measured, StillMeasured DEF ActivitiesSafe
    <2>2. CASE OfDay(new, u, d) \subseteq OfDay(old, u, d)
      <3>1. DayTotal(old, u, d) <= peak[u][d]
        BY DEF ActivitiesSafe, WithinAllocation
      <3>2. /\ DayTotal(new, u, d) <= DayTotal(old, u, d)
            /\ DayTotal(new, u, d) \in Nat /\ DayTotal(old, u, d) \in Nat
        BY <2>1, <2>2, DayTotalWithin
      <3> HIDE DEF old, new
      <3>3. QED
        BY <2>1, <3>1, <3>2
    <2>3. CASE ~(OfDay(new, u, d) \subseteq OfDay(old, u, d))
      <3>1. PICK a \in new : a.user = u /\ a.date = d /\ a \notin old
        BY <2>3 DEF OfDay
      <3>2. DayTotal(activities', u, d) <= peak[u][d]
        BY <3>1 DEF Kept
      <3>3. OfDay(new, u, d) \subseteq OfDay(activities', u, d)
        BY DEF OfDay
      <3>4. /\ DayTotal(new, u, d) <= DayTotal(activities', u, d)
            /\ DayTotal(new, u, d) \in Nat /\ DayTotal(activities', u, d) \in Nat
        BY <2>1, <3>3, DayTotalWithin
      <3> HIDE DEF new
      <3>5. QED
        BY <2>1, <3>2, <3>4
    <2>4. QED
      BY <2>2, <2>3
  <1>2. QED
    BY <1>1 DEF WithinAllocation

LEMMA InsertKept ==
    ASSUME ActivitiesSafe, ActivityTypes', NEW w \in Workers, NEW r \in Edit, r = req[w],
           NEW s \in Shares, Insert(r.user, r.date, s), blind' = Written(w, nextId),
           \/ r.date \in crossed[w]
           \/ DayTotal(activities, r.user, r.date) + s <= peak[r.user][r.date]
    PROVE  /\ Kept(w) /\ nextId <= nextId' /\ activities \subseteq activities'
           /\ \A a \in activities' : a \notin activities => a.user = r.user /\ a.date = r.date
           /\ \A a \in activities' : a.id < nextId => a \in activities
           /\ DayTotal(activities', r.user, r.date) = DayTotal(activities, r.user, r.date) + s
  <1>0. r.user \in Users /\ r.date \in Dates /\ ActivityTypes
    BY EditFacts DEF ActivitiesSafe
  <1>1. PICK b \in Activity : /\ b \notin activities /\ activities' = activities \cup {b}
                              /\ b.user = r.user /\ b.date = r.date /\ b.share = s /\ b.id = nextId
    BY <1>0, NewActivity
  <1>2. nextId \in Nat /\ nextId' = nextId + 1
    BY <1>0, ActivitiesAssumption DEF Insert, ActivityTypes, ActivitiesTypeOK
  <1>3. DayTotal(activities', r.user, r.date) = DayTotal(activities, r.user, r.date) + s
    <2>1. WithShares(activities) /\ b.share \in Nat /\ b \notin activities
      BY <1>0, <1>1, Measured
    <2>2. DayTotal(activities \cup {b}, r.user, r.date)
            = DayTotal(activities, r.user, r.date)
              + IF b.user = r.user /\ b.date = r.date THEN b.share ELSE 0
      BY <2>1, DayTotalAdds
    <2>3. QED
      BY <1>1, <2>2
  <1>4. \A a \in activities : a.id # nextId
    BY <1>0, <1>2, Measured DEF ActivityTypes, Numbered
  <1>5. Kept(w)
    <2>1. CASE r.date \in crossed[w]
      BY <1>1, <2>1 DEF Written, Kept
    <2>2. CASE r.date \notin crossed[w]
      BY <1>1, <1>3, <1>4, <2>2 DEF Written, Kept
    <2>3. QED
      BY <2>1, <2>2
  <1>6. QED
    BY <1>1, <1>2, <1>3, <1>5

LEMMA UpdateKept ==
    ASSUME ActivitiesSafe, ActivityTypes', NEW w \in Workers, NEW r \in Edit, r = req[w],
           RequestHolds(w, "write", r), r.op = "update", FitsPhase("write", r), UNCHANGED nextId,
           activities' = {IF a.id = r.id THEN [a EXCEPT !.share = Head(r.shares)]
                                         ELSE a : a \in activities},
           blind' = Written(w, r.id)
    PROVE  /\ Kept(w)
           /\ \A a \in activities' : a \notin activities => a.user = r.user /\ a.date = r.date
           /\ \A a \in activities : a \notin activities' => a.user = r.user /\ a.date = r.date
           /\ \A a \in activities' :
                 \E b \in activities : b.id = a.id /\ b.user = a.user /\ b.date = a.date
           /\ {a \in activities' : a.id # r.id} = {a \in activities : a.id # r.id}
  <1>0. ActivityTypes /\ activities \in SUBSET activities
    BY DEF ActivitiesSafe
  <1>1. PICK l \in Lists : l = r.shares
    BY EditFacts
  <1>2. Len(l) = 1
    BY <1>1 DEF FitsPhase
  <1>3. PICK s \in Shares : s = Head(l) /\ ListTotal(l) = s /\ s \in Nat
    BY <1>0, <1>2, OneShare
  <1>4. PICK i \in Ids \cup {0} : i = r.id
    BY EditFacts
  <1>5. \/ (\A a \in activities : a.id # i) /\ activities' = activities
        \/ \E a \in activities, b \in Activity :
             /\ a.id = i /\ b.id = i /\ b.user = a.user /\ b.date = a.date /\ b.share = s
             /\ {x \in activities : x.id # i} = activities \ {a}
             /\ activities' = (activities \ {a}) \cup {b}
    <2>1. activities' = {IF a.id = i THEN [a EXCEPT !.share = s] ELSE a : a \in activities}
      BY <1>1, <1>3, <1>4
    <2>2. ActivityTypes /\ i \in Ids \cup {0} /\ s \in Shares
      BY <1>0
    <2>3. QED
      BY ONLY <2>1, <2>2, UpdateShape
  <1>6. CASE (\A a \in activities : a.id # i) /\ activities' = activities
    BY <1>4, <1>6 DEF Kept, Written
  <1>7. CASE ~((\A a \in activities : a.id # i) /\ activities' = activities)
    <2>1. PICK a \in activities, b \in Activity :
             /\ a.id = i /\ b.id = i /\ b.user = a.user /\ b.date = a.date /\ b.share = s
             /\ OthersThan(i) = activities \ {a}
             /\ activities' = (activities \ {a}) \cup {b}
      BY <1>5, <1>7 DEF OthersThan
    <2>2. a.user = r.user /\ a.date = r.date
      BY <1>4, <2>1 DEF RequestHolds, TargetFound
    <2>3. DayTotal(activities', r.user, r.date) = DayTotal(OthersThan(i), r.user, r.date) + s
      <3>1. WithShares(OthersThan(i)) /\ b \notin OthersThan(i) /\ b.share \in Nat
        BY <1>0, <1>3, <2>1, Measured DEF OthersThan
      <3>2. DayTotal(OthersThan(i) \cup {b}, r.user, r.date)
              = DayTotal(OthersThan(i), r.user, r.date)
                + IF b.user = r.user /\ b.date = r.date THEN b.share ELSE 0
        BY <3>1, DayTotalAdds
      <3>3. QED
        BY <2>1, <2>2, <3>2
    <2>4. \A x \in activities \ {a} : x.id # i
      BY <2>1 DEF OthersThan
    <2>5. {x \in activities' : x.id # i} = {x \in activities : x.id # i}
      BY <2>1, <2>4
    <2>6. Kept(w)
      <3>1. CASE r.date \in crossed[w]
        BY <1>4, <2>5, <3>1 DEF Kept, Written
      <3>2. CASE r.date \notin crossed[w]
        <4>1. DayTotal(activities', r.user, r.date) <= peak[r.user][r.date]
          BY <1>1, <1>3, <1>4, <2>3, <3>2 DEF RequestHolds, RoomLeft
        <4>2. QED
          BY <1>4, <2>1, <2>2, <2>4, <3>2, <4>1 DEF Kept, Written
      <3>3. QED
        BY <3>1, <3>2
    <2>7. QED
      BY <1>4, <2>1, <2>2, <2>5, <2>6
  <1>8. QED
    BY <1>6, <1>7

LEMMA WriteOneSafe ==
    ASSUME ActivitiesSafe, ActivityTypes', NEW w \in Workers, WriteOne(w)
    PROVE  ActivitiesSafe'
  <1>1. /\ pc[w] = "write" /\ Answer(w) /\ Overtake(w) /\ UNCHANGED <<weight, certified, peak>>
        /\ ActivityTypes
    BY DEF WriteOne, ActivitiesSafe
  <1>2. PICK r \in Edit : r = req[w] /\ FitsPhase("write", r) /\ RequestHolds(w, "write", r)
                          /\ r.shares \in Lists
    BY <1>1, Writing
  <1>3. /\ \A v \in Workers \ {w} : pc'[v] = pc[v] /\ req'[v] = req[v]
        /\ pc'[w] = "idle" /\ req'[w] = NoReq
    BY <1>1 DEF Answer, ActivityTypes, ActivitiesTypeOK
  <1>4. nextId \in Nat
    BY <1>1, ActivitiesAssumption DEF ActivityTypes, ActivitiesTypeOK
  <1>5. Kept(w) /\ WriteStep(w)
    <2>1. CASE r.op = "create" /\ Insert(r.user, r.date, Head(r.shares)) /\ blind' = Written(w, nextId)
      <3>1. PICK l \in Lists : l = r.shares /\ Len(l) = 1
        BY <1>2, <2>1 DEF FitsPhase
      <3>2. PICK s \in Shares : s = Head(r.shares) /\ ListTotal(r.shares) = s
        BY <1>1, <3>1, OneShare
      <3>3. OthersThan(r.id) = activities
        BY <1>1, <1>2, <2>1, Measured DEF OthersThan, FitsPhase
      <3>4. \/ r.date \in crossed[w]
            \/ DayTotal(activities, r.user, r.date) + s <= peak[r.user][r.date]
        BY <1>2, <2>1, <3>2, <3>3 DEF RequestHolds, RoomLeft
      <3>5. Insert(r.user, r.date, s)
        BY <2>1, <3>2
      <3>6. /\ Kept(w) /\ nextId <= nextId' /\ activities \subseteq activities'
            /\ \A a \in activities' : a \notin activities => a.user = r.user /\ a.date = r.date
            /\ \A a \in activities' : a.id < nextId => a \in activities
        BY <1>2, <2>1, <3>4, <3>5, InsertKept
      <3>7. QED
        BY <1>1, <1>2, <1>3, <2>1, <3>6 DEF WriteStep
    <2>2. CASE /\ r.op = "update" /\ UNCHANGED nextId /\ blind' = Written(w, r.id)
               /\ activities' = {IF a.id = r.id THEN [a EXCEPT !.share = Head(r.shares)]
                                                ELSE a : a \in activities}
      <3>1. /\ Kept(w)
            /\ \A a \in activities' : a \notin activities => a.user = r.user /\ a.date = r.date
            /\ \A a \in activities : a \notin activities' => a.user = r.user /\ a.date = r.date
            /\ \A a \in activities' :
                  \E b \in activities : b.id = a.id /\ b.user = a.user /\ b.date = a.date
            /\ {a \in activities' : a.id # r.id} = {a \in activities : a.id # r.id}
        BY <1>2, <2>2, UpdateKept
      <3>2. QED
        BY <1>1, <1>2, <1>3, <1>4, <2>2, <3>1 DEF WriteStep
    <2>3. CASE /\ r.op = "delete" /\ UNCHANGED nextId /\ blind' = blind \ {r.id}
               /\ activities' = {a \in activities : a.id # r.id}
      <3>1. \A a \in activities : a.id = r.id => a.user = r.user /\ a.date = r.date
        BY <1>2, <2>3 DEF RequestHolds, TargetFound
      <3>2. Kept(w)
        BY <2>3 DEF Kept
      <3>3. QED
        BY <1>1, <1>2, <1>3, <1>4, <2>3, <3>1, <3>2 DEF WriteStep
    <2>4. QED
      BY <1>2, <2>1, <2>2, <2>3 DEF WriteOne
  <1>6. OthersHold(w)' /\ WithinAllocation' /\ PeakIsPeak'
    BY <1>1, <1>5, OthersSafe, AllocationKept DEF ActivitiesSafe, PeakIsPeak
  <1>7. RequestHolds(w, "idle", NoReq)'
    BY IdleHolds
  <1>8. QED
    BY <1>3, <1>6, <1>7, MoveSafe

LEMMA WipeDaySafe ==
    ASSUME ActivitiesSafe, ActivityTypes', NEW w \in Workers, WipeDay(w)
    PROVE  ActivitiesSafe'
  <1>1. PICK r \in Edit : r = req[w] /\ FitsPhase("write", r) /\ RequestHolds(w, "write", r)
                          /\ r.user \in Users /\ r.date \in Dates /\ r.shares \in Lists
    BY Writing DEF WipeDay
  <1>2. /\ pc[w] = "write" /\ r.op = "day" /\ UNCHANGED <<weight, nextId, certified, peak>>
        /\ activities' = {a \in activities : a.user # r.user \/ a.date # r.date}
        /\ blind' = blind \ {a.id : a \in activities \ activities'}
        /\ Overtake(w) /\ ActivityTypes
    BY <1>1 DEF WipeDay, ActivitiesSafe
  <1>3. nextId \in Nat
    BY <1>2, ActivitiesAssumption DEF ActivityTypes, ActivitiesTypeOK
  <1>4. Kept(w)
    <2>1. \A a, b \in activities : a.id = b.id => a = b
      BY <1>2 DEF ActivityTypes, ActivitiesTypeOK
    <2>2. QED
      BY <1>2, <2>1 DEF Kept
  <1>5. \A v \in Workers \ {w} : pc'[v] = pc[v] /\ req'[v] = req[v]
    BY DEF WipeDay, Answer, Goto, ActivitiesSafe, ActivityTypes, ActivitiesTypeOK
  <1>6. WriteStep(w)
    BY <1>1, <1>2, <1>3, <1>5 DEF WriteStep
  <1>7. OthersHold(w)' /\ WithinAllocation' /\ PeakIsPeak'
    BY <1>2, <1>4, <1>6, OthersSafe, AllocationKept DEF ActivitiesSafe, PeakIsPeak
  <1>8. CASE Answer(w)
    <2>1. pc'[w] = "idle" /\ req'[w] = NoReq
      BY <1>2, <1>8 DEF Answer, ActivityTypes, ActivitiesTypeOK
    <2>2. RequestHolds(w, "idle", NoReq)'
      BY IdleHolds
    <2>3. QED
      BY <1>7, <2>1, <2>2, MoveSafe
  <1>9. CASE r.shares # <<>> /\ Goto(w, "fill")
    <2>1. pc'[w] = "fill" /\ req'[w] = r
      BY <1>1, <1>2, <1>9 DEF Goto, ActivityTypes, ActivitiesTypeOK
    <2>2. {a \in activities' : a.id # r.id} \subseteq activities'
      OBVIOUS
    <2>3. OfDay({a \in activities' : a.id # r.id}, r.user, r.date) = {}
      BY <1>2 DEF OfDay
    <2>4. DayTotal({a \in activities' : a.id # r.id}, r.user, r.date) = 0
      BY <2>3, DayTotalNone
    <2>5. ListTotal(r.shares) <= peak[r.user][r.date] /\ ListTotal(r.shares) \in Nat
      BY <1>1, <1>2, Measured DEF RequestHolds, RoomLeft
    <2>6. RoomLeft(w, "fill", r)'
      BY <1>2, <2>4, <2>5 DEF RoomLeft, OthersThan
    <2>7. ~IsCertified(r) \/ w \in late
      BY <1>1, <1>2 DEF RequestHolds, Unlocked
    <2>8. late' = late
      BY <1>2, <2>1 DEF Overtake
    <2>9. RequestHolds(w, "fill", r)'
      BY <1>2, <2>6, <2>7, <2>8 DEF RequestHolds, TargetFound, Unlocked, Counted, IsCertified
    <2>10. QED
      BY <1>7, <2>1, <2>9, MoveSafe
  <1>10. QED
    BY <1>1, <1>8, <1>9 DEF WipeDay

LEMMA FillDaySafe ==
    ASSUME ActivitiesSafe, ActivityTypes', NEW w \in Workers, FillDay(w)
    PROVE  ActivitiesSafe'
  <1>0. /\ ActivityTypes /\ pc[w] = "fill" /\ UNCHANGED <<weight, certified, peak>>
        /\ Overtake(w) /\ blind' = Written(w, nextId)
    BY DEF ActivitiesSafe, FillDay
  <1>1. PICK r \in Edit : r = req[w] /\ FitsPhase("fill", r) /\ RequestHolds(w, "fill", r)
                          /\ r.user \in Users /\ r.date \in Dates /\ r.shares \in Lists
    BY <1>0, Writing
  <1>2. PICK l \in Lists : l = r.shares
    BY <1>1
  <1>3. l # <<>> /\ r.op = "day" /\ r.id = 0
    BY <1>1, <1>2 DEF FitsPhase
  <1>4. PICK s \in Shares, t \in Lists : s = Head(l) /\ t = Tail(l)
    BY <1>3, ListsFacts
  <1>5. l \in Seq(Nat) /\ s \in Nat /\ ListTotal(t) \in Nat
    BY <1>0, ListsFacts, Measured
  <1>6. ListTotal(l) = s + ListTotal(t)
    BY <1>3, <1>4, <1>5, ListTotalHead
  <1>7. /\ DayTotal(activities, r.user, r.date) \in Nat /\ peak[r.user][r.date] \in Nat
        /\ \/ r.date \in crossed[w]
           \/ DayTotal(activities, r.user, r.date) + (s + ListTotal(t)) <= peak[r.user][r.date]
    <2>1. DayTotal(activities, r.user, r.date) \in Nat
      <3>1. activities \in SUBSET activities
        OBVIOUS
      <3>2. QED
        BY <1>0, <3>1, Measured
    <2>2. OthersThan(r.id) = activities
      BY <1>0, <1>3, Measured DEF OthersThan
    <2>3. \/ r.date \in crossed[w]
          \/ DayTotal(activities, r.user, r.date) + ListTotal(l) <= peak[r.user][r.date]
      BY <1>1, <1>2, <2>2 DEF RequestHolds, RoomLeft
    <2>4. QED
      BY <1>0, <1>1, <1>6, <2>1, <2>3, Measured
  <1>8. Insert(r.user, r.date, s)
    BY <1>1, <1>2, <1>4 DEF FillDay
  <1>9. \/ r.date \in crossed[w]
        \/ DayTotal(activities, r.user, r.date) + s <= peak[r.user][r.date]
    BY <1>5, <1>7
  <1>10. /\ Kept(w) /\ nextId <= nextId' /\ activities \subseteq activities'
         /\ \A a \in activities' : a \notin activities => a.user = r.user /\ a.date = r.date
         /\ \A a \in activities' : a.id < nextId => a \in activities
         /\ DayTotal(activities', r.user, r.date) = DayTotal(activities, r.user, r.date) + s
    BY <1>0, <1>1, <1>8, <1>9, InsertKept
  <1>11. \A v \in Workers \ {w} : pc'[v] = pc[v] /\ req'[v] = req[v]
    BY <1>0 DEF FillDay, Answer, ActivityTypes, ActivitiesTypeOK
  <1>12. WriteStep(w)
    BY <1>0, <1>1, <1>3, <1>10, <1>11 DEF WriteStep
  <1>13. OthersHold(w)' /\ WithinAllocation' /\ PeakIsPeak'
    BY <1>0, <1>10, <1>12, OthersSafe, AllocationKept DEF ActivitiesSafe, PeakIsPeak
  <1>14. CASE Answer(w)
    <2>1. pc'[w] = "idle" /\ req'[w] = NoReq
      BY <1>0, <1>14 DEF Answer, ActivityTypes, ActivitiesTypeOK
    <2>2. RequestHolds(w, "idle", NoReq)'
      BY IdleHolds
    <2>3. QED
      BY <1>13, <2>1, <2>2, MoveSafe
  <1>15. CASE UNCHANGED pc /\ req' = [req EXCEPT ![w].shares = Tail(@)]
    <2> DEFINE q == [r EXCEPT !.shares = t]
    <2>1. q.op = "day" /\ q.user = r.user /\ q.date = r.date /\ q.shares = t /\ q.id = 0
      BY <1>3 DEF Edit
    <2>2. req'[w] = q /\ pc'[w] = "fill"
      BY <1>0, <1>1, <1>2, <1>4, <1>15 DEF ActivityTypes, ActivitiesTypeOK
    <2> HIDE DEF q
    <2>3. crossed'[w] = crossed[w] /\ late' = late
      BY <1>0, <2>2 DEF Overtake
    <2>4. {a \in activities' : a.id # 0} = activities'
      <3>1. \A a \in activities' : a.id # 0
        BY DEF ActivityTypes, ActivitiesTypeOK, Activity, Ids
      <3>2. QED
        BY <3>1
    <2>5. \/ r.date \in crossed'[w]
          \/ DayTotal(activities', r.user, r.date) + ListTotal(t) <= peak[r.user][r.date]
      BY <1>5, <1>7, <1>10, <2>3
    <2>6. ~IsCertified(r) \/ w \in late
      BY <1>1 DEF RequestHolds, Unlocked
    <2>7. PICK z : z = q
      OBVIOUS
    <2>8. RoomLeft(w, "fill", z)'
      BY <1>0, <2>1, <2>4, <2>5, <2>7 DEF RoomLeft, OthersThan
    <2>9. RequestHolds(w, "fill", z)' /\ req'[w] = z
      BY <1>0, <2>1, <2>2, <2>3, <2>6, <2>7, <2>8
         DEF RequestHolds, TargetFound, Unlocked, Counted, IsCertified
    <2>10. QED
      BY <1>13, <2>2, <2>9, MoveSafe
  <1>16. QED
    BY <1>14, <1>15 DEF FillDay

-----------------------------------------------------------------------------
(* The other steps.                                                        *)

LEMMA LockMonthSafe ==
    ASSUME ActivitiesSafe, ActivityTypes', NEW w \in Workers, LockMonth(w)
    PROVE  ActivitiesSafe'
  <1>1. /\ UNCHANGED <<weight, activities, nextId, peak, blind>>
        /\ pc'[w] = "idle" /\ req'[w] = NoReq
        /\ certified' = certified \cup {<<req[w].user, req[w].month>>}
    BY DEF LockMonth, Answer, ActivitiesSafe, ActivityTypes, ActivitiesTypeOK
  <1>2. ASSUME NEW v \in Workers \ {w} PROVE RequestHolds(v, pc[v], req[v])'
    <2>1. PICK p, r : p = pc[v] /\ r = req[v]
      OBVIOUS
    <2>2. p = pc'[v] /\ r = req'[v] /\ crossed'[v] = crossed[v]
      BY <2>1 DEF LockMonth, Answer, ActivitiesSafe, ActivityTypes, ActivitiesTypeOK
    <2>3. RequestHolds(v, p, r)
      BY <2>1 DEF ActivitiesSafe
    <2>4. Unlocked(v, p, r)'
      <3>1. PastLookup(v, req[w].user, req[w].month) => v \in late'
        BY DEF LockMonth
      <3>2. v \in late => v \in late'
        BY DEF LockMonth
      <3>3. QED
        BY <1>1, <2>1, <2>3, <3>1, <3>2 DEF RequestHolds, Unlocked, IsCertified, PastLookup
    <2>5. RequestHolds(v, p, r)'
      BY <1>1, <2>2, <2>3, <2>4 DEF RequestHolds, RoomLeft, TargetFound, Counted, OthersThan
    <2>6. QED
      BY <2>2, <2>5
  <1>3. PeakIsPeak' /\ WithinAllocation'
    BY <1>1 DEF ActivitiesSafe, PeakIsPeak, WithinAllocation
  <1>4. RequestHolds(w, "idle", NoReq)'
    BY IdleHolds
  <1>5. QED
    BY <1>1, <1>2, <1>3, <1>4, MoveSafe DEF OthersHold

LEMMA DecertifySafe ==
    ASSUME ActivitiesSafe, ActivityTypes', NEW u \in Users, NEW m \in Months,
           DecertifyProjectMonth(u, m)
    PROVE  ActivitiesSafe'
  <1>1. /\ certified' \subseteq certified
        /\ UNCHANGED <<weight, activities, nextId, pc, req, peak, late, crossed, blind>>
    BY DEF DecertifyProjectMonth
  <1>2. ASSUME NEW w \in Workers, NEW p, NEW r, RequestHolds(w, p, r) PROVE RequestHolds(w, p, r)'
    BY <1>1, <1>2 DEF RequestHolds, RoomLeft, TargetFound, Unlocked, Counted, OthersThan, IsCertified
  <1>3. ASSUME NEW w \in Workers PROVE RequestHolds(w, pc[w], req[w])'
    <2>1. PICK p, r : p = pc[w] /\ r = req[w]
      OBVIOUS
    <2>2. RequestHolds(w, p, r)'
      BY <1>2, <2>1 DEF ActivitiesSafe
    <2>3. p = pc'[w] /\ r = req'[w]
      BY <1>1, <2>1
    <2>4. QED
      BY <2>2, <2>3
  <1>4. QED
    BY <1>1, <1>3 DEF ActivitiesSafe, PeakIsPeak, WithinAllocation

(* A weight that changes leaves the requests the room they found.          *)
LEMMA WeightSafe ==
    ASSUME ActivitiesSafe, ActivityTypes', NEW u \in Users, NEW d \in Dates, WeightChanges(u, d)
    PROVE  ActivitiesSafe'
  <1>0. ActivityTypes /\ UNCHANGED <<activities, nextId, certified, pc, req, late, crossed, blind>>
    BY DEF ActivitiesSafe, WeightChanges
  <1>1. PICK x \in Weights :
          /\ weight' = [weight EXCEPT ![u][d] = x]
          /\ peak' = [peak EXCEPT ![u][d] = IF x > @ THEN x ELSE @]
    BY WeightOfRows DEF WeightChanges
  <1>2. ASSUME NEW v \in Users, NEW e \in Dates
        PROVE  /\ peak[v][e] \in Nat /\ peak'[v][e] \in Nat /\ peak[v][e] <= peak'[v][e]
               /\ weight'[v][e] <= peak'[v][e]
    <2>1. /\ peak[v][e] \in Nat /\ weight[v][e] \in Nat /\ weight[v][e] <= peak[v][e]
          /\ x \in Nat
      BY <1>0, Measured DEF ActivitiesSafe, PeakIsPeak, Weights
    <2>2. CASE v = u /\ e = d
      <3>1. weight'[v][e] = x /\ peak'[v][e] = IF x > peak[v][e] THEN x ELSE peak[v][e]
        BY <1>0, <1>1, <2>2 DEF ActivityTypes, ActivitiesTypeOK
      <3>2. QED
        BY <2>1, <3>1
    <2>3. CASE ~(v = u /\ e = d)
      <3>1. weight'[v][e] = weight[v][e] /\ peak'[v][e] = peak[v][e]
        BY <1>0, <1>1, <2>3 DEF ActivityTypes, ActivitiesTypeOK
      <3>2. QED
        BY <2>1, <3>1
    <2>4. QED
      BY <2>2, <2>3
  <1>3. PeakIsPeak'
    BY <1>2 DEF PeakIsPeak
  <1>4. \A acts \in SUBSET activities : \A v, e : DayTotal(acts, v, e) \in Nat
    BY <1>0, Measured
  <1>5. WithinAllocation'
    <2> DEFINE acts == {a \in activities : a.id \notin blind}
    <2>1. ASSUME NEW v \in Users, NEW e \in Dates PROVE DayTotal(acts, v, e) <= peak'[v][e]
      <3>1. DayTotal(acts, v, e) <= peak[v][e] /\ DayTotal(acts, v, e) \in Nat
        BY <1>4 DEF ActivitiesSafe, WithinAllocation
      <3> HIDE DEF acts
      <3>2. QED
        BY <1>2, <3>1
    <2>2. QED
      BY <1>0, <2>1 DEF WithinAllocation
  <1>6. ASSUME NEW w \in Workers, NEW p, NEW r \in Edit, RequestHolds(w, p, r)
        PROVE  RequestHolds(w, p, r)'
    <2>1. /\ r.user \in Users /\ r.date \in Dates /\ r.shares \in Lists /\ r.limit \in Weights
      BY EditFacts
    <2>2. /\ ListTotal(r.shares) \in Nat /\ r.limit \in Nat
          /\ DayTotal(OthersThan(r.id), r.user, r.date) \in Nat
      <3>1. OthersThan(r.id) \in SUBSET activities
        BY DEF OthersThan
      <3>2. QED
        BY <1>0, <1>4, <2>1, <3>1, Measured DEF Weights
    <2>3. /\ peak[r.user][r.date] \in Nat /\ peak'[r.user][r.date] \in Nat
          /\ peak[r.user][r.date] <= peak'[r.user][r.date]
      BY <1>2, <2>1
    <2>4. OthersThan(r.id)' = OthersThan(r.id)
      BY <1>0 DEF OthersThan
    <2>5. RoomLeft(w, p, r)'
      <3>1. RoomLeft(w, p, r)
        BY <1>6 DEF RequestHolds
      <3>2. QED
        BY <1>0, <2>2, <2>3, <2>4, <3>1 DEF RoomLeft
    <2>6. QED
      BY <1>0, <1>6, <2>5 DEF RequestHolds, TargetFound, Unlocked, Counted, IsCertified
  <1>7. ASSUME NEW w \in Workers, NEW p, NEW r, p \notin EditPhases,
               r.op \notin {"update", "delete"}, RequestHolds(w, p, r)
        PROVE  RequestHolds(w, p, r)'
    BY <1>0, <1>7 DEF RequestHolds, RoomLeft, TargetFound, Unlocked, Counted, EditPhases
  <1>8. ASSUME NEW w \in Workers PROVE RequestHolds(w, pc[w], req[w])'
    <2>1. PICK p, r : p = pc[w] /\ r = req[w]
      OBVIOUS
    <2>2. p \in Phases /\ FitsPhase(p, r) /\ r \in Requests /\ RequestHolds(w, p, r)
      BY <2>1 DEF ActivitiesSafe, ActivityTypes, ActivitiesTypeOK, Phases, Requests
    <2>3. RequestHolds(w, p, r)'
      <3>1. CASE p \in EditPhases
        BY <1>6, <2>2, <3>1 DEF FitsPhase
      <3>2. CASE p \notin EditPhases
        <4>1. r = NoReq \/ r \in Certification
          BY <2>2, <3>2 DEF FitsPhase, Phases, EditPhases
        <4>2. r.op \notin {"update", "delete"}
          BY <4>1 DEF NoReq, Certification
        <4>3. QED
          BY <1>7, <2>2, <3>2, <4>2
      <3>3. QED
        BY <3>1, <3>2
    <2>4. p = pc'[w] /\ r = req'[w]
      BY <1>0, <2>1
    <2>5. QED
      BY <2>3, <2>4
  <1>9. QED
    BY <1>3, <1>5, <1>8 DEF ActivitiesSafe

LEMMA StopSafe ==
    ASSUME ActivitiesSafe, ActivityTypes', Restart \/ UNCHANGED activityVars
    PROVE  ActivitiesSafe'
  <1>1. CASE Restart
    <2>1. \A w \in Workers : pc'[w] = "idle" /\ req'[w] = NoReq
      BY <1>1 DEF Restart
    <2>2. \A w \in Workers : RequestHolds(w, "idle", NoReq)'
      BY IdleHolds
    <2>3. PeakIsPeak' /\ WithinAllocation'
      BY <1>1 DEF Restart, ActivitiesSafe, PeakIsPeak, WithinAllocation
    <2>4. QED
      BY <2>1, <2>2, <2>3 DEF ActivitiesSafe
  <1>2. CASE UNCHANGED activityVars
    BY <1>2 DEF activityVars, ActivitiesSafe, PeakIsPeak, WithinAllocation, RequestHolds, RoomLeft,
                TargetFound, Unlocked, Counted, OthersThan, IsCertified
  <1>3. QED
    BY <1>1, <1>2

LEMMA StepSafe == ActivitiesSafe /\ [ActivitiesNext]_activityVars => ActivitiesSafe'
  <1> SUFFICES ASSUME ActivitiesSafe, [ActivitiesNext]_activityVars PROVE ActivitiesSafe'
    OBVIOUS
  <1>0. ActivityTypes'
    BY StepTypes DEF ActivitiesSafe
  <1>1. ASSUME NEW w \in Workers,
               \/ CreateProjectActivity(w) \/ UpdateProjectActivity(w) \/ DeleteProjectActivity(w)
               \/ SetDayActivities(w) \/ CertifyProjectMonth(w)
        PROVE  ActivitiesSafe'
    BY <1>0, <1>1, BeginSafe
  <1>2. ASSUME NEW w \in Workers, ReadWeight(w) \/ ReadTotal(w) PROVE ActivitiesSafe'
    BY <1>0, <1>2, ReadWeightSafe, ReadTotalSafe
  <1>3. ASSUME NEW w \in Workers, RejectIfProjectMonthCertified(w) \/ SumMonth(w)
        PROVE  ActivitiesSafe'
    BY <1>0, <1>3, RejectSafe, SumMonthSafe
  <1>4. ASSUME NEW w \in Workers, WriteOne(w) PROVE ActivitiesSafe'
    BY <1>0, <1>4, WriteOneSafe
  <1>5. ASSUME NEW w \in Workers, WipeDay(w) PROVE ActivitiesSafe'
    BY <1>0, <1>5, WipeDaySafe
  <1>6. ASSUME NEW w \in Workers, FillDay(w) PROVE ActivitiesSafe'
    BY <1>0, <1>6, FillDaySafe
  <1>7. ASSUME NEW w \in Workers, LockMonth(w) PROVE ActivitiesSafe'
    BY <1>0, <1>7, LockMonthSafe
  <1>8. ASSUME NEW w \in Workers, StatementFails(w) PROVE ActivitiesSafe'
    BY <1>0, <1>8, AnswerSafe DEF StatementFails
  <1>9. ASSUME NEW u \in Users, NEW m \in Months, DecertifyProjectMonth(u, m)
        PROVE  ActivitiesSafe'
    BY <1>0, <1>9, DecertifySafe
  <1>10. ASSUME NEW u \in Users, NEW d \in Dates, WeightChanges(u, d) PROVE ActivitiesSafe'
    BY <1>0, <1>10, WeightSafe
  <1>11. CASE Restart \/ UNCHANGED activityVars
    BY <1>0, <1>11, StopSafe
  <1>12. QED
    BY <1>1, <1>2, <1>3, <1>4, <1>5, <1>6, <1>7, <1>8, <1>9, <1>10, <1>11 DEF ActivitiesNext

(* What a step does to the activities of a certified month.                *)
KeepsCertified ==
    \A u \in Users, m \in Months :
        <<u, m>> \in certified =>
            \/ OfMonth(activities, u, m) \subseteq OfMonth(activities', u, m)
            \/ \E w \in late : /\ pc[w] = "write" /\ pc'[w] # "write"
                              /\ req[w].user = u /\ MonthOf[req[w].date] = m

LEMMA StepKeepsCertified ==
    ActivitiesSafe /\ [ActivitiesNext]_activityVars => [KeepsCertified]_activityVars
  <1> SUFFICES ASSUME ActivitiesSafe, ActivitiesNext PROVE KeepsCertified
    BY DEF KeepsCertified
  <1>1. CASE activities \subseteq activities'
    BY <1>1 DEF KeepsCertified, OfMonth
  <1>2. ASSUME NEW w \in Workers, WriteOne(w) PROVE KeepsCertified
    <2>1. PICK r \in Edit : r = req[w] /\ RequestHolds(w, "write", r) /\ pc[w] = "write"
      BY <1>2, Writing DEF WriteOne
    <2>2. CASE r.op = "create"
      <3>1. activities \subseteq activities'
        BY <1>2, <2>1, <2>2 DEF WriteOne, Insert
      <3>2. QED
        BY <1>1, <3>1
    <2>3. CASE r.op # "create"
      <3>1. \A a \in activities : a.id # r.id => a \in activities'
        BY <1>2, <2>1, <2>3 DEF WriteOne
      <3>2. r.op \in {"update", "delete"}
        BY <1>2, <2>1, <2>3 DEF WriteOne
      <3>3. \A a \in activities : a.id = r.id => a.user = r.user /\ a.date = r.date
        BY <2>1, <3>2 DEF RequestHolds, TargetFound
      <3>4. ~IsCertified(r) \/ w \in late
        BY <2>1, <2>3 DEF RequestHolds, Unlocked
      <3>5. pc'[w] # "write"
        BY <1>2 DEF WriteOne, Answer, ActivitiesSafe, ActivityTypes, ActivitiesTypeOK
      <3>6. QED
        BY <2>1, <3>1, <3>3, <3>4, <3>5 DEF KeepsCertified, OfMonth, IsCertified
    <2>4. QED
      BY <2>2, <2>3
  <1>3. ASSUME NEW w \in Workers, WipeDay(w) PROVE KeepsCertified
    <2>1. RequestHolds(w, "write", req[w]) /\ req[w].op = "day" /\ pc[w] = "write"
      BY <1>3, Writing DEF WipeDay
    <2>2. ~IsCertified(req[w]) \/ w \in late
      BY <2>1 DEF RequestHolds, Unlocked
    <2>3. pc'[w] # "write"
      BY <1>3 DEF WipeDay, Answer, Goto, ActivitiesSafe, ActivityTypes, ActivitiesTypeOK
    <2>4. \A a \in activities : a.user # req[w].user \/ a.date # req[w].date => a \in activities'
      BY <1>3 DEF WipeDay
    <2>5. QED
      BY <2>1, <2>2, <2>3, <2>4 DEF KeepsCertified, OfMonth, IsCertified
  <1>4. ASSUME NEW w \in Workers, FillDay(w) PROVE KeepsCertified
    BY <1>1, <1>4 DEF FillDay, Insert
  <1>5. QED
    BY <1>1, <1>2, <1>3, <1>4
       DEF ActivitiesNext, CreateProjectActivity, UpdateProjectActivity, DeleteProjectActivity,
           SetDayActivities, ReadWeight, ReadTotal, RejectIfProjectMonthCertified,
           CertifyProjectMonth, SumMonth, LockMonth, StatementFails, DecertifyProjectMonth,
           WeightChanges, Restart, Quiet

(* What a step that certifies a month has counted.                         *)
CertifiesCovered ==
    \A w \in Workers, u \in Users, m \in Months :
        <<u, m>> \in certified' \ certified /\ pc[w] = "lock" /\ pc'[w] = "idle" =>
            \A d \in Billable(weight[u], m) :
                \/ DayTotal(activities, u, d) >= weight[u][d]
                \/ weight[u][d] # req[w].weights[d]
                \/ d \in crossed[w]

LEMMA StepCertifiesCovered ==
    ActivitiesSafe /\ [ActivitiesNext]_activityVars => [CertifiesCovered]_activityVars
  <1> SUFFICES ASSUME ActivitiesSafe, ActivitiesNext,
                      NEW w \in Workers, NEW u \in Users, NEW m \in Months,
                      <<u, m>> \in certified', <<u, m>> \notin certified,
                      pc[w] = "lock", pc'[w] = "idle",
                      NEW d \in Billable(weight[u], m), weight[u][d] = req[w].weights[d],
                      d \notin crossed[w]
               PROVE  DayTotal(activities, u, d) >= weight[u][d]
    BY DEF CertifiesCovered
  <1>1. PICK v \in Workers : LockMonth(v)
    BY DEF ActivitiesNext, CreateProjectActivity, UpdateProjectActivity, DeleteProjectActivity,
           SetDayActivities, ReadWeight, ReadTotal, RejectIfProjectMonthCertified, WriteOne,
           WipeDay, FillDay, CertifyProjectMonth, SumMonth, StatementFails,
           DecertifyProjectMonth, WeightChanges, Restart, Quiet
  <1>2. v = w
    BY <1>1 DEF LockMonth, Answer, ActivitiesSafe, ActivityTypes, ActivitiesTypeOK
  <1>3. u = req[w].user /\ m = req[w].month
    BY <1>1, <1>2 DEF LockMonth
  <1>4. Counted(w, "lock", req[w])
    BY DEF ActivitiesSafe, RequestHolds
  <1>5. d \in Billable(req[w].weights, req[w].month)
    BY <1>3 DEF Billable
  <1>6. QED
    BY <1>3, <1>4, <1>5 DEF Counted

(* Every day stays within the largest weight it has had, but for what a    *)
(* request wrote after another had added to the day it had counted; the    *)
(* activities of a certified month are left alone, but for a request that  *)
(* had looked the month up before; a month is certified only when its      *)
(* billable days are full, but for the days that changed under way.  For   *)
(* any number of users, days, percentages and requests in flight, through  *)
(* restarts, failures and weights that change.                             *)
THEOREM TimesheetsHold ==
    ActivitiesSpec => []WithinAllocation /\ CertifiedActivitiesKept /\ CertifiedWhenCovered
  <1>1. ActivitiesSafe => WithinAllocation
    BY DEF ActivitiesSafe
  <1>2. ActivitiesSpec => [][KeepsCertified]_activityVars
    BY InitSafe, StepSafe, StepKeepsCertified, PTL DEF ActivitiesSpec
  <1>3. ActivitiesSpec => [][CertifiesCovered]_activityVars
    BY InitSafe, StepSafe, StepCertifiesCovered, PTL DEF ActivitiesSpec
  <1>4. ActivitiesSpec => []WithinAllocation
    BY <1>1, InitSafe, StepSafe, PTL DEF ActivitiesSpec
  <1>5. [][KeepsCertified]_activityVars => CertifiedActivitiesKept
    BY DEF KeepsCertified, CertifiedActivitiesKept
  <1>6. [][CertifiesCovered]_activityVars => CertifiedWhenCovered
    BY DEF CertifiesCovered, CertifiedWhenCovered
  <1>7. QED
    BY <1>2, <1>3, <1>4, <1>5, <1>6, PTL

-----------------------------------------------------------------------------
(* What the excuses are for.                                               *)

Undisputed == blind = {} /\ late = {} /\ \A w \in Workers : crossed[w] = {}

LEMMA StepUndisputed ==
    ASSUME \A v, w \in Workers : v = w, ActivityTypes, Undisputed, [ActivitiesNext]_activityVars
    PROVE  Undisputed'
  <1>1. CASE UNCHANGED <<late, crossed, blind>>
    BY <1>1 DEF Undisputed
  <1>2. ASSUME NEW w \in Workers, Quiet(w) PROVE Undisputed'
    BY <1>2 DEF Quiet, Undisputed, ActivityTypes, ActivitiesTypeOK
  <1>3. ASSUME NEW w \in Workers, Overtake(w), blind' \subseteq blind PROVE Undisputed'
    BY <1>3 DEF Overtake, Undisputed, ActivityTypes, ActivitiesTypeOK
  <1>4. ASSUME NEW w \in Workers, WriteOne(w) \/ WipeDay(w) \/ FillDay(w) PROVE Undisputed'
    <2>1. Overtake(w) /\ blind' \subseteq blind
      BY <1>4 DEF WriteOne, WipeDay, FillDay, Written, Undisputed
    <2>2. QED
      BY <1>3, <2>1
  <1>5. ASSUME NEW w \in Workers, LockMonth(w) PROVE Undisputed'
    <2>1. \A v \in Workers : pc[v] = "lock"
      BY <1>5 DEF LockMonth
    <2>2. late' = {}
      BY <1>5, <2>1 DEF LockMonth, PastLookup, Undisputed
    <2>3. QED
      BY <1>5, <2>2 DEF LockMonth, Undisputed, ActivityTypes, ActivitiesTypeOK
  <1>6. CASE Restart
    BY <1>6 DEF Restart, Undisputed
  <1>7. QED
    BY <1>1, <1>2, <1>4, <1>5, <1>6
       DEF ActivitiesNext, CreateProjectActivity, UpdateProjectActivity, DeleteProjectActivity,
           SetDayActivities, ReadWeight, ReadTotal, RejectIfProjectMonthCertified,
           CertifyProjectMonth, SumMonth, StatementFails, DecertifyProjectMonth,
           WeightChanges, activityVars

(* With one request at a time nothing is excused: no day ever holds more   *)
(* than the largest weight it has had, and a certified month loses none    *)
(* of its activities.                                                      *)
THEOREM OneAtATime ==
    ASSUME \A v, w \in Workers : v = w
    PROVE  ActivitiesSpec =>
               /\ [](\A u \in Users, d \in Dates : DayTotal(activities, u, d) <= peak[u][d])
               /\ [][\A u \in Users, m \in Months :
                        <<u, m>> \in certified =>
                            OfMonth(activities, u, m) \subseteq OfMonth(activities', u, m)]_activityVars
  <1> DEFINE Inv == ActivitiesSafe /\ Undisputed
             Fits == \A u \in Users, d \in Dates : DayTotal(activities, u, d) <= peak[u][d]
             Keeps == \A u \in Users, m \in Months :
                        <<u, m>> \in certified =>
                            OfMonth(activities, u, m) \subseteq OfMonth(activities', u, m)
  <1>1. ActivitiesInit => Inv
    BY InitSafe DEF ActivitiesInit, Undisputed
  <1>2. Inv /\ [ActivitiesNext]_activityVars => Inv'
    <2> SUFFICES ASSUME Inv, [ActivitiesNext]_activityVars PROVE Inv'
      OBVIOUS
    <2>1. ActivitiesSafe' /\ ActivityTypes
      BY StepSafe DEF ActivitiesSafe
    <2>2. Undisputed'
      BY <2>1, StepUndisputed
    <2>3. QED
      BY <2>1, <2>2
  <1>3. Inv => Fits
    <2> SUFFICES ASSUME Inv PROVE Fits
      OBVIOUS
    <2>1. {a \in activities : a.id \notin blind} = activities
      BY DEF Undisputed
    <2>2. WithinAllocation
      BY DEF ActivitiesSafe
    <2>3. QED
      BY <2>1, <2>2 DEF WithinAllocation
  <1>4. Inv /\ [ActivitiesNext]_activityVars => [Keeps]_activityVars
    BY StepKeepsCertified DEF KeepsCertified, Undisputed
  <1>5. QED
    BY <1>1, <1>2, <1>3, <1>4, PTL DEF ActivitiesSpec

-----------------------------------------------------------------------------
(* Project time.                                                           *)

Times == [Projects -> 0..MaxDays]

LEMMA DeclaredSum ==
    ASSUME NEW d \in Times
    PROVE  /\ SumDeclared(d) = SumOf(d)
           /\ SumDeclared(d) \in 0..(MaxDays * Cardinality(Projects))
           /\ \A p \in Projects, n \in 0..MaxDays :
                 /\ [d EXCEPT ![p] = n] \in Times
                 /\ SumDeclared([d EXCEPT ![p] = n]) + d[p] = SumDeclared(d) + n
  <1>0. IsFiniteSet(Projects) /\ MaxDays \in Nat
    BY ProjectTimeAssumption
  <1>1. \A e \in Times : SumDeclared(e) = SumOf(e)
    <2>1. \A e \in Times : DOMAIN e = Projects
      BY DEF Times
    <2>2. QED
      BY <2>1 DEF SumDeclared, SumOf
  <1>2. d \in [Projects -> Nat] /\ \A p \in Projects : d[p] <= MaxDays
    BY <1>0 DEF Times
  <1>3. SumOf(d) \in 0..(MaxDays * Cardinality(Projects))
    BY <1>0, <1>2, TotalBounded
  <1>4. ASSUME NEW p \in Projects, NEW n \in 0..MaxDays
        PROVE  /\ [d EXCEPT ![p] = n] \in Times
               /\ SumDeclared([d EXCEPT ![p] = n]) + d[p] = SumDeclared(d) + n
    <2> DEFINE e == [d EXCEPT ![p] = n]
    <2>1. /\ e \in Times /\ e \in [Projects -> Nat] /\ e[p] = n
          /\ \A q \in Projects \ {p} : e[q] = d[q]
      BY <1>0 DEF Times
    <2> HIDE DEF e
    <2>2. SumOf(e) + d[p] = SumOf(d) + e[p]
      BY <1>0, <1>2, <2>1, TotalChanged
    <2>3. QED
      BY <1>1, <2>1, <2>2 DEF e
  <1>5. QED
    BY <1>1, <1>3, <1>4

SaveStages == {"lookup", "project", "members", "member", "billable", "total", "entries", "write"}

(* What a request has found out still holds, unless it was overtaken.      *)
SaveHolds(x) ==
    /\ x.stage \in SaveStages => x.project \in Projects
    /\ x.stage \in SaveStages \ {"lookup"} /\ locked => x.early
    /\ x.stage \in {"members", "member"} /\ ~x.overtaken => Declarable(x.project) /\ ~oversees
    /\ x.stage = "member" /\ ~x.overtaken => projects[x.project].access # "open"
    /\ x.stage \in {"total", "entries"} /\ ~x.overtaken => x.cap <= billableDays
    /\ x.stage = "entries" /\ ~x.overtaken => x.total = SumDeclared(declared)
    /\ x.stage = "write" /\ ~x.overtaken /\ x.days > 0 =>
          SumDeclared(declared) + x.days <= billableDays + declared[x.project]

TimeInv == TimeTypeOK /\ \A s \in Savers : SaveHolds(savers[s])

LEMMA NoSaveHolds == NoSave \notin Save /\ SaveHolds(NoSave)
  BY DEF NoSave, Save, SaveHolds, SaveStages

LEMMA SaveFacts ==
    ASSUME NEW x \in Save
    PROVE  /\ x.stage \in SaveStages \cup {"covered", "sum", "lock"}
           /\ x.project \in Projects \cup {"none"} /\ x.days \in 0..MaxDays /\ x.cap \in 0..MaxDays
           /\ x.total \in 0..(MaxDays * Cardinality(Projects))
           /\ x.overtaken \in BOOLEAN /\ x.early \in BOOLEAN
  BY DEF Save, SaveStages

LEMMA InitTime == TimeInit => TimeInv
  <1> SUFFICES ASSUME TimeInit PROVE TimeInv
    OBVIOUS
  <1>1. TimeTypeOK
    <2>1. 0 \in 0..MaxDays /\ MaxDays \in 0..MaxDays
      BY ProjectTimeAssumption
    <2>2. declared \in [Projects -> 0..MaxDays] /\ billableDays \in 0..MaxDays
      BY <2>1 DEF TimeInit
    <2>3. savers \in [Savers -> Save \cup {NoSave}]
      BY DEF TimeInit
    <2>4. QED
      BY <2>2, <2>3 DEF TimeInit, TimeTypeOK
  <1>2. \A s \in Savers : SaveHolds(savers[s])
    BY NoSaveHolds DEF TimeInit
  <1>3. QED
    BY <1>1, <1>2 DEF TimeInv

(* A step of one request that writes nothing else.                         *)
LEMMA OwnStep ==
    ASSUME TimeInv, NEW s \in Savers, NEW x \in Save \cup {NoSave}, SaveHolds(x),
           savers' = [savers EXCEPT ![s] = x],
           UNCHANGED <<projects, declared, billableDays, locked, oversees>>
    PROVE  TimeInv'
  <1>1. TimeTypeOK'
    BY DEF TimeInv, TimeTypeOK
  <1>2. ASSUME NEW y, SaveHolds(y) PROVE SaveHolds(y)'
    BY <1>2 DEF SaveHolds, Declarable
  <1>3. ASSUME NEW t \in Savers PROVE SaveHolds(savers[t])'
    <2>1. PICK y : y = savers'[t] /\ SaveHolds(y)
      BY DEF TimeInv, TimeTypeOK
    <2>2. QED
      BY <1>2, <2>1
  <1>4. QED
    BY <1>1, <1>3 DEF TimeInv

LEMMA RefuseTime ==
    ASSUME TimeInv, NEW s \in Savers, Refuse(s),
           UNCHANGED <<projects, declared, billableDays, locked, oversees>>
    PROVE  TimeInv'
  BY OwnStep, NoSaveHolds DEF Refuse

(* A request between two statements.                                       *)
LEMMA AtStage ==
    ASSUME TimeInv, NEW s \in Savers, NEW stage, In(s, stage)
    PROVE  savers[s] \in Save /\ SaveHolds(savers[s]) /\ savers[s].stage = stage
  BY DEF In, TimeInv, TimeTypeOK

LEMMA ZeroDays == 0 \in 0..MaxDays /\ 0 \in 0..(MaxDays * Cardinality(Projects))
  <1>1. MaxDays \in Nat /\ Cardinality(Projects) \in Nat
    BY ProjectTimeAssumption, FS_CardinalityType
  <1>2. MaxDays * Cardinality(Projects) \in Nat
    BY <1>1, TimesOneMore
  <1>3. QED
    BY <1>1, <1>2

LEMMA BeginTime ==
    ASSUME TimeInv, NEW s \in Savers,
           (\E p \in Projects, n \in 0..MaxDays : SetProjectTime(s, p, n)) \/ CertifyTime(s)
    PROVE  TimeInv'
  <1>1. ASSUME NEW p \in Projects, NEW n \in 0..MaxDays, SetProjectTime(s, p, n) PROVE TimeInv'
    <2> DEFINE x == [stage |-> "lookup", project |-> p, days |-> n, cap |-> 0, total |-> 0,
                     overtaken |-> FALSE, early |-> FALSE]
    <2>1. x \in Save /\ x.stage = "lookup" /\ x.project = p
      BY ZeroDays DEF Save
    <2>2. /\ savers' = [savers EXCEPT ![s] = x]
          /\ UNCHANGED <<projects, declared, billableDays, locked, oversees>>
      BY <1>1 DEF SetProjectTime
    <2> HIDE DEF x
    <2>3. SaveHolds(x)
      BY <2>1 DEF SaveHolds
    <2>4. QED
      BY <2>1, <2>2, <2>3, OwnStep
  <1>2. CASE CertifyTime(s)
    <2> DEFINE x == [stage |-> "covered", project |-> "none", days |-> 0,
                     cap |-> 0, total |-> 0, overtaken |-> FALSE, early |-> FALSE]
    <2>1. x \in Save /\ x.stage = "covered"
      BY ZeroDays DEF Save
    <2>2. /\ savers' = [savers EXCEPT ![s] = x]
          /\ UNCHANGED <<projects, declared, billableDays, locked, oversees>>
      BY <1>2 DEF CertifyTime
    <2> HIDE DEF x
    <2>3. SaveHolds(x)
      BY <2>1 DEF SaveHolds, SaveStages
    <2>4. QED
      BY <2>1, <2>2, <2>3, OwnStep
  <1>3. QED
    BY <1>1, <1>2

LEMMA LookUpLockStep ==
    ASSUME TimeInv, NEW s \in Savers, LookUpLock(s)
    PROVE  TimeInv'
  <1>1. CASE Refuse(s)
    BY <1>1, RefuseTime DEF LookUpLock
  <1>2. CASE ~locked /\ Proceed(s, "project")
    <2>1. PICK y \in Save : y = savers[s] /\ SaveHolds(y) /\ y.stage = "lookup"
      BY AtStage DEF LookUpLock
    <2> DEFINE x == [y EXCEPT !.stage = "project"]
    <2>2. x \in Save /\ x.stage = "project" /\ x.project = y.project
      BY DEF Save
    <2>3. savers' = [savers EXCEPT ![s] = x]
      BY <1>2, <2>1 DEF Proceed, TimeInv, TimeTypeOK
    <2> HIDE DEF x
    <2>4. SaveHolds(x)
      BY <1>2, <2>1, <2>2 DEF SaveHolds, SaveStages
    <2>5. QED
      BY <2>2, <2>3, <2>4, OwnStep DEF LookUpLock
  <1>3. QED
    BY <1>1, <1>2 DEF LookUpLock

(* A request that the checks of its project let through.                   *)
LEMMA AdmitStep ==
    ASSUME TimeInv, NEW s \in Savers, NEW stage \in {"project", "members", "member"},
           In(s, stage), Admit(s),
           UNCHANGED <<projects, declared, billableDays, locked, oversees>>
    PROVE  TimeInv'
  <1>1. PICK y \in Save : y = savers[s] /\ SaveHolds(y) /\ y.stage = stage
    BY AtStage
  <1> DEFINE x == [y EXCEPT !.overtaken = FALSE,
                            !.stage = IF y.days > 0 THEN "billable" ELSE "write"]
  <1>2. /\ x \in Save /\ x.stage = IF y.days > 0 THEN "billable" ELSE "write"
        /\ x.project = y.project /\ x.early = y.early /\ x.days = y.days
    BY DEF Save
  <1>3. savers' = [savers EXCEPT ![s] = x]
    BY <1>1 DEF Admit, TimeInv, TimeTypeOK
  <1> HIDE DEF x
  <1>4. SaveHolds(x)
    BY <1>1, <1>2 DEF SaveHolds, SaveStages
  <1>5. QED
    BY <1>2, <1>3, <1>4, OwnStep

LEMMA LookUpProjectStep ==
    ASSUME TimeInv, NEW s \in Savers, LookUpProject(s)
    PROVE  TimeInv'
  <1>1. CASE Refuse(s)
    BY <1>1, RefuseTime DEF LookUpProject
  <1>2. CASE Admit(s)
    BY <1>2, AdmitStep DEF LookUpProject
  <1>3. CASE Declarable(savers[s].project) /\ ~oversees /\ Proceed(s, "members")
    <2>1. PICK y \in Save : y = savers[s] /\ SaveHolds(y) /\ y.stage = "project"
      BY AtStage DEF LookUpProject
    <2> DEFINE x == [y EXCEPT !.stage = "members"]
    <2>2. /\ x \in Save /\ x.stage = "members" /\ x.project = y.project /\ x.early = y.early
          /\ x.overtaken = y.overtaken
      BY DEF Save
    <2>3. savers' = [savers EXCEPT ![s] = x]
      BY <1>3, <2>1 DEF Proceed, TimeInv, TimeTypeOK
    <2> HIDE DEF x
    <2>4. SaveHolds(x)
      BY <1>3, <2>1, <2>2 DEF SaveHolds, SaveStages
    <2>5. QED
      BY <2>2, <2>3, <2>4, OwnStep DEF LookUpProject
  <1>4. QED
    BY <1>1, <1>2, <1>3 DEF LookUpProject

LEMMA CountStep ==
    ASSUME TimeInv, NEW s \in Savers, CountMembers(s) \/ CountMember(s)
    PROVE  TimeInv'
  <1>1. CASE Refuse(s)
    BY <1>1, RefuseTime DEF CountMembers, CountMember
  <1>2. CASE Admit(s)
    BY <1>2, AdmitStep DEF CountMembers, CountMember
  <1>3. CASE /\ In(s, "members") /\ projects[savers[s].project].access # "open"
             /\ Proceed(s, "member")
    <2>1. PICK y \in Save : y = savers[s] /\ SaveHolds(y) /\ y.stage = "members"
      BY <1>3, AtStage
    <2> DEFINE x == [y EXCEPT !.stage = "member"]
    <2>2. /\ x \in Save /\ x.stage = "member" /\ x.project = y.project /\ x.early = y.early
          /\ x.overtaken = y.overtaken
      BY DEF Save
    <2>3. savers' = [savers EXCEPT ![s] = x]
      BY <1>3, <2>1 DEF Proceed, TimeInv, TimeTypeOK
    <2> HIDE DEF x
    <2>4. SaveHolds(x)
      BY <1>3, <2>1, <2>2 DEF SaveHolds, SaveStages
    <2>5. QED
      BY <2>2, <2>3, <2>4, OwnStep DEF CountMembers, CountMember
  <1>4. QED
    BY <1>1, <1>2, <1>3 DEF CountMembers, CountMember

LEMMA ReadBillableStep ==
    ASSUME TimeInv, NEW s \in Savers, ReadBillable(s)
    PROVE  TimeInv'
  <1>1. PICK y \in Save : y = savers[s] /\ SaveHolds(y) /\ y.stage = "billable"
    BY AtStage DEF ReadBillable
  <1>2. PICK cap \in {billableDays, 0} :
          savers' = [savers EXCEPT ![s].stage = "total", ![s].cap = cap]
    BY DEF ReadBillable
  <1>3. cap \in 0..MaxDays /\ cap <= billableDays
    BY <1>2, ProjectTimeAssumption DEF TimeInv, TimeTypeOK
  <1> DEFINE x == [y EXCEPT !.stage = "total", !.cap = cap]
  <1>4. /\ x \in Save /\ x.stage = "total" /\ x.project = y.project /\ x.early = y.early
        /\ x.cap = cap
    BY <1>3 DEF Save
  <1>5. savers' = [savers EXCEPT ![s] = x]
    BY <1>1, <1>2 DEF TimeInv, TimeTypeOK
  <1> HIDE DEF x
  <1>6. SaveHolds(x)
    BY <1>1, <1>3, <1>4 DEF SaveHolds, SaveStages
  <1>7. QED
    BY <1>4, <1>5, <1>6, OwnStep DEF ReadBillable

LEMMA SumEntriesStep ==
    ASSUME TimeInv, NEW s \in Savers, SumEntries(s)
    PROVE  TimeInv'
  <1>1. PICK y \in Save : y = savers[s] /\ SaveHolds(y) /\ y.stage = "total"
    BY AtStage DEF SumEntries
  <1>2. CASE savers' = [savers EXCEPT ![s].stage = "entries", ![s].total = SumDeclared(declared)]
    <2>1. PICK n \in 0..(MaxDays * Cardinality(Projects)) : n = SumDeclared(declared)
      BY DeclaredSum DEF TimeInv, TimeTypeOK, Times
    <2> DEFINE x == [y EXCEPT !.stage = "entries", !.total = n]
    <2>2. /\ x \in Save /\ x.stage = "entries" /\ x.project = y.project /\ x.early = y.early
          /\ x.cap = y.cap /\ x.total = n /\ x.overtaken = y.overtaken
      BY DEF Save
    <2>3. savers' = [savers EXCEPT ![s] = x]
      BY <1>1, <1>2, <2>1 DEF TimeInv, TimeTypeOK
    <2> HIDE DEF x
    <2>4. SaveHolds(x)
      BY <1>1, <2>1, <2>2 DEF SaveHolds, SaveStages
    <2>5. QED
      BY <2>2, <2>3, <2>4, OwnStep DEF SumEntries
  <1>3. CASE savers' = [savers EXCEPT ![s].stage = "entries", ![s].total = 0, ![s].overtaken = TRUE]
    <2>1. 0 \in 0..(MaxDays * Cardinality(Projects))
      BY ZeroDays
    <2> DEFINE x == [y EXCEPT !.stage = "entries", !.total = 0, !.overtaken = TRUE]
    <2>2. /\ x \in Save /\ x.stage = "entries" /\ x.project = y.project /\ x.early = y.early
          /\ x.overtaken = TRUE
      BY <2>1 DEF Save
    <2>3. savers' = [savers EXCEPT ![s] = x]
      BY <1>1, <1>3 DEF TimeInv, TimeTypeOK
    <2> HIDE DEF x
    <2>4. SaveHolds(x)
      BY <1>1, <2>2 DEF SaveHolds, SaveStages
    <2>5. QED
      BY <2>2, <2>3, <2>4, OwnStep DEF SumEntries
  <1>4. QED
    BY <1>2, <1>3 DEF SumEntries

LEMMA CompareStep ==
    ASSUME TimeInv, NEW s \in Savers, Compare(s)
    PROVE  TimeInv'
  <1>1. PICK y \in Save : y = savers[s] /\ SaveHolds(y) /\ y.stage = "entries"
    BY AtStage DEF Compare
  <1>2. CASE Refuse(s)
    BY <1>2, RefuseTime DEF Compare
  <1>3. ASSUME NEW existing \in {declared[y.project], 0},
               ~(y.total + y.days > y.cap + existing), Write(s)
        PROVE  TimeInv'
    <2>1. /\ y.project \in Projects /\ y.days \in Nat /\ y.cap \in Nat /\ y.total \in Nat
      BY <1>1, SaveFacts DEF SaveHolds, SaveStages
    <2>2. declared[y.project] \in Nat /\ billableDays \in Nat
      BY <2>1 DEF TimeInv, TimeTypeOK
    <2>3. 0 \in 0..MaxDays /\ 0 \in 0..(MaxDays * Cardinality(Projects))
      BY ZeroDays
    <2> DEFINE x == [y EXCEPT !.stage = "write", !.cap = 0, !.total = 0]
    <2>4. /\ x \in Save /\ x.stage = "write" /\ x.project = y.project /\ x.early = y.early
          /\ x.overtaken = y.overtaken /\ x.days = y.days
      BY <2>3 DEF Save
    <2>5. savers' = [savers EXCEPT ![s] = x]
      BY <1>1, <1>3 DEF Write, TimeInv, TimeTypeOK
    <2> HIDE DEF x
    <2>6. ~y.overtaken => SumDeclared(declared) + y.days <= billableDays + declared[y.project]
      <3>1. ASSUME ~y.overtaken
            PROVE  SumDeclared(declared) + y.days <= billableDays + declared[y.project]
        <4>1. y.cap <= billableDays /\ y.total = SumDeclared(declared)
          BY <1>1, <3>1 DEF SaveHolds
        <4>2. y.total + y.days <= y.cap + existing
          BY <1>3, <2>1, <2>2
        <4>3. existing \in Nat /\ existing <= declared[y.project]
          BY <1>3, <2>2
        <4>4. y.total + y.days <= billableDays + declared[y.project]
          BY <2>1, <2>2, <4>1, <4>2, <4>3
        <4>5. QED
          BY <4>1, <4>4
      <3>2. QED
        BY <3>1
    <2>7. SaveHolds(x)
      BY <1>1, <2>4, <2>6 DEF SaveHolds, SaveStages
    <2>8. QED
      BY <2>4, <2>5, <2>7, OwnStep DEF Compare
  <1>4. QED
    BY <1>1, <1>2, <1>3 DEF Compare

LEMMA CertifyStep ==
    ASSUME TimeInv, NEW s \in Savers, ReadCover(s) \/ ReadDeclared(s)
    PROVE  TimeInv'
  <1>1. CASE Refuse(s)
    BY <1>1, RefuseTime DEF ReadCover, ReadDeclared
  <1>2. ASSUME NEW y \in Save, NEW stage \in {"sum", "lock"}, NEW cap \in 0..MaxDays,
               y = savers[s], savers' = [savers EXCEPT ![s].stage = stage, ![s].cap = cap],
               UNCHANGED <<projects, declared, billableDays, locked, oversees>>
        PROVE  TimeInv'
    <2> DEFINE x == [y EXCEPT !.stage = stage, !.cap = cap]
    <2>1. x \in Save /\ x.stage = stage
      BY DEF Save
    <2>2. savers' = [savers EXCEPT ![s] = x]
      BY <1>2 DEF TimeInv, TimeTypeOK
    <2> HIDE DEF x
    <2>3. SaveHolds(x)
      BY <2>1 DEF SaveHolds, SaveStages
    <2>4. QED
      BY <1>2, <2>1, <2>2, <2>3, OwnStep
  <1>3. 0 \in 0..MaxDays /\ billableDays \in 0..MaxDays
    BY ProjectTimeAssumption DEF TimeInv, TimeTypeOK
  <1>4. CASE ReadCover(s)
    <2>1. savers[s] \in Save
      BY <1>4, AtStage DEF ReadCover
    <2>2. PICK cap \in 0..MaxDays : savers' = [savers EXCEPT ![s].stage = "sum", ![s].cap = cap]
      BY <1>3, <1>4 DEF ReadCover
    <2>3. QED
      BY <1>2, <1>4, <2>1, <2>2 DEF ReadCover
  <1>5. CASE ReadDeclared(s) /\ ~Refuse(s)
    <2>1. savers[s] \in Save
      BY <1>5, AtStage DEF ReadDeclared
    <2>2. savers' = [savers EXCEPT ![s].stage = "lock", ![s].cap = 0]
      BY <1>5 DEF ReadDeclared
    <2>3. QED
      BY <1>2, <1>3, <1>5, <2>1, <2>2 DEF ReadDeclared
  <1>6. QED
    BY <1>1, <1>4, <1>5

(* A write elsewhere overtakes what the requests have read.                *)
LEMMA DisturbedHolds ==
    ASSUME NEW y \in Save \cup {NoSave}, SaveHolds(y), UNCHANGED <<projects, locked, oversees>>,
           NEW z, z = IF y # NoSave /\ y.stage \in Reading THEN [y EXCEPT !.overtaken = TRUE] ELSE y
    PROVE  z \in Save \cup {NoSave} /\ SaveHolds(z)'
  <1>1. CASE y = NoSave
    BY <1>1 DEF NoSave, SaveHolds, SaveStages
  <1>2. CASE y \in Save /\ y.stage \in Reading
    <2>1. /\ z \in Save /\ z.stage = y.stage /\ z.project = y.project /\ z.early = y.early
          /\ z.overtaken = TRUE
      BY <1>2, NoSaveHolds DEF Save
    <2>2. QED
      BY <1>2, <2>1 DEF SaveHolds, Reading
  <1>3. CASE y \in Save /\ y.stage \notin Reading
    BY <1>3 DEF SaveHolds, Reading, Declarable
  <1>4. QED
    BY <1>1, <1>2, <1>3

LEMMA WriteEntryStep ==
    ASSUME TimeInv, NEW s \in Savers, WriteEntry(s)
    PROVE  TimeInv'
  <1>1. PICK y \in Save : y = savers[s] /\ SaveHolds(y) /\ y.stage = "write"
    BY AtStage DEF WriteEntry
  <1>2. y.project \in Projects /\ y.days \in 0..MaxDays
    BY <1>1, SaveFacts DEF SaveHolds, SaveStages
  <1>3. declared' \in [Projects -> 0..MaxDays]
    BY <1>1, <1>2 DEF WriteEntry, TimeInv, TimeTypeOK
  <1>4. UNCHANGED <<projects, billableDays, locked, oversees>>
    BY DEF WriteEntry
  <1>5. ASSUME NEW t \in Savers
        PROVE  savers'[t] \in Save \cup {NoSave} /\ SaveHolds(savers[t])'
    <2>1. CASE t = s
      <3>1. savers'[t] = NoSave
        BY <2>1 DEF WriteEntry
      <3>2. SaveHolds(NoSave)'
        BY DEF SaveHolds, SaveStages, NoSave
      <3>3. QED
        BY <3>1, <3>2
    <2>2. CASE t # s
      <3>1. PICK z : z = savers'[t]
        OBVIOUS
      <3>2. PICK x \in Save \cup {NoSave} : x = savers[t] /\ SaveHolds(x)
        BY DEF TimeInv, TimeTypeOK
      <3>3. z = IF x # NoSave /\ x.stage \in Reading THEN [x EXCEPT !.overtaken = TRUE] ELSE x
        BY <2>2, <3>1, <3>2 DEF WriteEntry, Disturbed
      <3>4. z \in Save \cup {NoSave} /\ SaveHolds(z)'
        BY <1>4, <3>2, <3>3, DisturbedHolds
      <3>5. QED
        BY <3>1, <3>4
    <2>3. QED
      BY <2>1, <2>2
  <1>6. savers' \in [Savers -> Save \cup {NoSave}]
    <2>1. savers' = [t \in Savers |-> savers'[t]]
      BY DEF WriteEntry
    <2>2. QED
      BY <1>5, <2>1
  <1>7. QED
    BY <1>3, <1>4, <1>5, <1>6 DEF TimeInv, TimeTypeOK

LEMMA PresenceStep ==
    ASSUME TimeInv, NEW n \in 0..MaxDays, PresenceChanges(n)
    PROVE  TimeInv'
  <1>1. billableDays' \in 0..MaxDays /\ UNCHANGED <<projects, declared, locked, oversees>>
    BY DEF PresenceChanges
  <1>2. ASSUME NEW t \in Savers
        PROVE  savers'[t] \in Save \cup {NoSave} /\ SaveHolds(savers[t])'
    <2>1. PICK z : z = savers'[t]
      OBVIOUS
    <2>2. PICK x \in Save \cup {NoSave} : x = savers[t] /\ SaveHolds(x)
      BY DEF TimeInv, TimeTypeOK
    <2>3. z = IF x # NoSave /\ x.stage \in Reading THEN [x EXCEPT !.overtaken = TRUE] ELSE x
      BY <2>1, <2>2 DEF PresenceChanges, Disturbed
    <2>4. z \in Save \cup {NoSave} /\ SaveHolds(z)'
      BY <1>1, <2>2, <2>3, DisturbedHolds
    <2>5. QED
      BY <2>1, <2>4
  <1>3. savers' \in [Savers -> Save \cup {NoSave}]
    <2>1. savers' = [t \in Savers |-> savers'[t]]
      BY DEF PresenceChanges
    <2>2. QED
      BY <1>2, <2>1
  <1>4. QED
    BY <1>1, <1>2, <1>3 DEF TimeInv, TimeTypeOK

LEMMA LockTimeStep ==
    ASSUME TimeInv, NEW s \in Savers, LockTime(s)
    PROVE  TimeInv'
  <1>1. locked' = TRUE /\ UNCHANGED <<projects, declared, billableDays, oversees>>
    BY DEF LockTime
  <1>2. ASSUME NEW t \in Savers
        PROVE  savers'[t] \in Save \cup {NoSave} /\ SaveHolds(savers[t])'
    <2>1. PICK z : z = savers'[t]
      OBVIOUS
    <2>2. PICK x \in Save \cup {NoSave} : x = savers[t] /\ SaveHolds(x)
      BY DEF TimeInv, TimeTypeOK
    <2>3. CASE z = NoSave
      <3>1. SaveHolds(z)'
        BY <2>3 DEF SaveHolds, SaveStages, NoSave
      <3>2. QED
        BY <2>1, <2>3, <3>1
    <2>4. CASE x \in Save /\ x.stage \notin {"lookup", "covered", "sum", "lock"}
               /\ z = [x EXCEPT !.early = TRUE]
      <3>1. /\ z \in Save /\ z.stage = x.stage /\ z.project = x.project /\ z.early = TRUE
            /\ z.overtaken = x.overtaken /\ z.days = x.days /\ z.cap = x.cap /\ z.total = x.total
        BY <2>4 DEF Save
      <3> HIDE <2>4
      <3>2. SaveHolds(z)'
        BY <1>1, <2>2, <3>1 DEF SaveHolds, Declarable
      <3>3. QED
        BY <2>1, <3>1, <3>2
    <2>5. CASE x \in Save /\ x.stage \in {"lookup", "covered", "sum", "lock"} /\ z = x
      <3>1. SaveHolds(z)'
        BY <1>1, <2>2, <2>5 DEF SaveHolds, SaveStages
      <3>2. QED
        BY <2>1, <2>5, <3>1
    <2>6. QED
      BY <2>1, <2>2, <2>3, <2>4, <2>5 DEF LockTime
  <1>3. savers' \in [Savers -> Save \cup {NoSave}]
    <2>1. savers' = [t \in Savers |-> savers'[t]]
      BY DEF LockTime
    <2>2. QED
      BY <1>2, <2>1
  <1>4. QED
    BY <1>1, <1>2, <1>3 DEF TimeInv, TimeTypeOK

LEMMA ChangeProjectStep ==
    ASSUME TimeInv, NEW p \in Projects, NEW x, ChangeProject(p, x)
    PROVE  TimeInv'
  <1>1. /\ projects' \in [Projects -> Settings]
        /\ UNCHANGED <<declared, billableDays, locked, oversees>>
        /\ \A q \in Projects : q # p => projects'[q] = projects[q]
    BY DEF ChangeProject, TimeInv, TimeTypeOK
  <1>2. ASSUME NEW t \in Savers
        PROVE  savers'[t] \in Save \cup {NoSave} /\ SaveHolds(savers[t])'
    <2>1. PICK z : z = savers'[t]
      OBVIOUS
    <2>2. PICK y \in Save \cup {NoSave} : y = savers[t] /\ SaveHolds(y)
      BY DEF TimeInv, TimeTypeOK
    <2>3. CASE /\ y \in Save /\ y.stage \in {"members", "member"} /\ y.project = p
               /\ z = [y EXCEPT !.overtaken = TRUE]
      <3>1. /\ z \in Save /\ z.stage = y.stage /\ z.project = y.project /\ z.early = y.early
            /\ z.overtaken = TRUE
        BY <2>3 DEF Save
      <3>2. SaveHolds(z)'
        BY <1>1, <2>2, <2>3, <3>1 DEF SaveHolds
      <3>3. QED
        BY <2>1, <3>1, <3>2
    <2>4. CASE z = y /\ ~(y.stage \in {"members", "member"} /\ y.project = p)
      <3>1. SaveHolds(z)'
        BY <1>1, <2>2, <2>4 DEF SaveHolds, SaveStages, Declarable
      <3>2. QED
        BY <2>1, <2>2, <2>4, <3>1
    <2>5. QED
      BY <2>1, <2>2, <2>3, <2>4, NoSaveHolds DEF ChangeProject, In, NoSave
  <1>3. savers' \in [Savers -> Save \cup {NoSave}]
    <2>1. savers' = [t \in Savers |-> savers'[t]]
      BY DEF ChangeProject
    <2>2. QED
      BY <1>2, <2>1
  <1>4. QED
    BY <1>1, <1>2, <1>3 DEF TimeInv, TimeTypeOK

LEMMA StepTime == TimeInv /\ [TimeNext]_timeVars => TimeInv'
  <1> SUFFICES ASSUME TimeInv, [TimeNext]_timeVars PROVE TimeInv'
    OBVIOUS
  <1>1. ASSUME NEW s \in Savers,
               (\E p \in Projects, n \in 0..MaxDays : SetProjectTime(s, p, n)) \/ CertifyTime(s)
        PROVE  TimeInv'
    BY <1>1, BeginTime
  <1>2. ASSUME NEW s \in Savers,
               LookUpLock(s) \/ LookUpProject(s) \/ CountMembers(s) \/ CountMember(s)
        PROVE  TimeInv'
    BY <1>2, LookUpLockStep, LookUpProjectStep, CountStep
  <1>3. ASSUME NEW s \in Savers, ReadBillable(s) \/ SumEntries(s) \/ Compare(s) PROVE TimeInv'
    BY <1>3, ReadBillableStep, SumEntriesStep, CompareStep
  <1>4. ASSUME NEW s \in Savers, WriteEntry(s) PROVE TimeInv'
    BY <1>4, WriteEntryStep
  <1>5. ASSUME NEW s \in Savers, ReadCover(s) \/ ReadDeclared(s) PROVE TimeInv'
    BY <1>5, CertifyStep
  <1>6. ASSUME NEW s \in Savers, LockTime(s) PROVE TimeInv'
    BY <1>6, LockTimeStep
  <1>7. ASSUME NEW s \in Savers, StatementRefused(s) PROVE TimeInv'
    BY <1>7, RefuseTime DEF StatementRefused
  <1>8. CASE DecertifyTime \/ UNCHANGED timeVars
    <2>1. /\ UNCHANGED <<projects, declared, billableDays, oversees, savers>>
          /\ locked' \in BOOLEAN /\ (locked' => locked)
      <3>1. locked \in BOOLEAN
        BY DEF TimeInv, TimeTypeOK
      <3>2. CASE DecertifyTime
        BY <3>2 DEF DecertifyTime
      <3>3. CASE UNCHANGED timeVars
        <4>1. UNCHANGED <<projects, declared, billableDays, oversees, savers>> /\ UNCHANGED locked
          BY <3>3 DEF timeVars
        <4>2. QED
          BY <3>1, <4>1, Zenon
      <3>4. QED
        BY <1>8, <3>2, <3>3
    <2>2. ASSUME NEW y, SaveHolds(y) PROVE SaveHolds(y)'
      BY <2>1, <2>2 DEF SaveHolds, Declarable
    <2>3. ASSUME NEW t \in Savers PROVE SaveHolds(savers[t])'
      <3>1. PICK y : y = savers'[t] /\ SaveHolds(y)
        BY <2>1 DEF TimeInv
      <3>2. QED
        BY <2>2, <3>1
    <2>4. QED
      BY <2>1, <2>3 DEF TimeInv, TimeTypeOK
  <1>9. ASSUME NEW n \in 0..MaxDays, PresenceChanges(n) PROVE TimeInv'
    BY <1>9, PresenceStep
  <1>10. ASSUME NEW p \in Projects,
                \/ \E active, ended \in BOOLEAN : UpdateProject(p, active, ended)
                \/ \E access \in {"open", "listed", "others"} : SetProjectMembers(p, access)
         PROVE  TimeInv'
    BY <1>10, ChangeProjectStep DEF UpdateProject, SetProjectMembers
  <1>11. QED
    BY <1>1, <1>2, <1>3, <1>4, <1>5, <1>6, <1>7, <1>8, <1>9, <1>10 DEF TimeNext

(* Only its own checks let a request through, or refuse it.                *)
LEMMA ChecksDecide ==
    ASSUME TimeInv, TimeNext, NEW s \in Savers, Admits(s),
           (In(s, "billable") \/ In(s, "write"))'
    PROVE  LookUpProject(s) \/ CountMembers(s) \/ CountMember(s)
  <1>1. PICK y \in Save : y = savers[s] /\ y.stage \in {"project", "members", "member"}
    BY AtStage DEF Admits
  <1>2. savers'[s] # NoSave /\ savers'[s].stage \in {"billable", "write"}
    BY DEF In
  <1>3. ASSUME savers'[s].stage = y.stage PROVE FALSE
    BY <1>1, <1>2, <1>3
  <1>4. ASSUME NEW t \in Savers, t # s,
               \/ \E p \in Projects, n \in 0..MaxDays : SetProjectTime(t, p, n)
               \/ LookUpLock(t) \/ LookUpProject(t) \/ CountMembers(t) \/ CountMember(t)
               \/ ReadBillable(t) \/ SumEntries(t) \/ Compare(t)
               \/ CertifyTime(t) \/ ReadCover(t) \/ ReadDeclared(t) \/ StatementRefused(t)
        PROVE  FALSE
    <2>0. savers \in [Savers -> Save \cup {NoSave}] /\ DOMAIN savers = Savers
      BY DEF TimeInv, TimeTypeOK
    <2>1. /\ Refuse(t) => savers'[s] = savers[s]
          /\ \A stage : Proceed(t, stage) => savers'[s] = savers[s]
          /\ Admit(t) => savers'[s] = savers[s]
          /\ Write(t) => savers'[s] = savers[s]
      BY <1>4, <2>0 DEF Refuse, Proceed, Admit, Write
    <2>2. CASE SumEntries(t)
      BY <1>1, <1>3, <1>4, <2>0, <2>2 DEF SumEntries
    <2>3. CASE ReadBillable(t) \/ ReadCover(t)
      BY <1>1, <1>3, <1>4, <2>0, <2>3 DEF ReadBillable, ReadCover
    <2>4. CASE ReadDeclared(t)
      BY <1>1, <1>3, <1>4, <2>0, <2>1, <2>4 DEF ReadDeclared
    <2>5. CASE (\E p \in Projects, n \in 0..MaxDays : SetProjectTime(t, p, n)) \/ CertifyTime(t)
      BY <1>1, <1>3, <1>4, <2>0, <2>5 DEF SetProjectTime, CertifyTime
    <2>6. CASE LookUpLock(t) \/ LookUpProject(t) \/ CountMembers(t) \/ CountMember(t)
      BY <1>1, <1>3, <2>1, <2>6 DEF LookUpLock, LookUpProject, CountMembers, CountMember
    <2>7. CASE Compare(t) \/ StatementRefused(t)
      BY <1>1, <1>3, <2>1, <2>7 DEF Compare, StatementRefused
    <2>8. QED
      BY <1>4, <2>2, <2>3, <2>4, <2>5, <2>6, <2>7
  <1>5. ASSUME savers'[s] = Disturbed(s) PROVE FALSE
    <2>1. y.stage \notin Reading
      BY <1>1 DEF Reading
    <2>2. savers'[s] = y
      BY <1>1, <1>5, <2>1 DEF Disturbed
    <2>3. QED
      BY <1>3, <2>2
  <1>6. ASSUME NEW t \in Savers, WriteEntry(t) PROVE FALSE
    <2>1. t # s
      BY <1>1, <1>6 DEF WriteEntry, In
    <2>2. savers'[s] = Disturbed(s)
      BY <1>6, <2>1 DEF WriteEntry
    <2>3. QED
      BY <1>5, <2>2
  <1>7. ASSUME NEW t \in Savers, LockTime(t) PROVE FALSE
    <2>1. t # s
      BY <1>1, <1>7 DEF LockTime, In
    <2>2. savers'[s] = y \/ savers'[s] = [y EXCEPT !.early = TRUE]
      BY <1>1, <1>7, <2>1 DEF LockTime
    <2>3. [y EXCEPT !.early = TRUE].stage = y.stage
      BY DEF Save
    <2>4. QED
      BY <1>3, <2>2, <2>3
  <1>8. ASSUME NEW p, NEW x, ChangeProject(p, x) PROVE FALSE
    <2>1. savers'[s] = y \/ savers'[s] = [y EXCEPT !.overtaken = TRUE]
      BY <1>1, <1>8 DEF ChangeProject
    <2>2. [y EXCEPT !.overtaken = TRUE].stage = y.stage
      BY DEF Save
    <2>3. QED
      BY <1>3, <2>1, <2>2
  <1>9. ASSUME NEW n, PresenceChanges(n) PROVE FALSE
    BY <1>5, <1>9 DEF PresenceChanges
  <1>10. ASSUME DecertifyTime PROVE FALSE
    BY <1>1, <1>3, <1>10 DEF DecertifyTime
  <1>11. ASSUME StatementRefused(s) PROVE FALSE
    <2>1. savers'[s] = NoSave
      BY <1>11 DEF StatementRefused, Refuse, TimeInv, TimeTypeOK
    <2>2. QED
      BY <1>2, <2>1
  <1>12. ASSUME \/ \E p \in Projects, n \in 0..MaxDays : SetProjectTime(s, p, n)
                \/ LookUpLock(s) \/ ReadBillable(s) \/ SumEntries(s) \/ Compare(s)
                \/ CertifyTime(s) \/ ReadCover(s) \/ ReadDeclared(s)
         PROVE  FALSE
    <2>1. savers[s] = NoSave \/ savers[s].stage \notin {"project", "members", "member"}
      BY <1>12 DEF SetProjectTime, LookUpLock, ReadBillable, SumEntries, Compare, CertifyTime,
                   ReadCover, ReadDeclared, In
    <2>2. QED
      BY <1>1, <2>1, NoSaveHolds
  <1>13. PICK t \in Savers :
           \/ \E p \in Projects, n \in 0..MaxDays : SetProjectTime(t, p, n)
           \/ LookUpLock(t) \/ LookUpProject(t) \/ CountMembers(t) \/ CountMember(t)
           \/ ReadBillable(t) \/ SumEntries(t) \/ Compare(t) \/ WriteEntry(t)
           \/ CertifyTime(t) \/ ReadCover(t) \/ ReadDeclared(t) \/ LockTime(t)
           \/ StatementRefused(t)
    BY <1>8, <1>9, <1>10 DEF TimeNext, UpdateProject, SetProjectMembers
  <1>14. QED
    BY <1>4, <1>6, <1>7, <1>11, <1>12, <1>13

LEMMA StepListed ==
    ASSUME TimeInv, TimeNext, NEW s \in Savers
    PROVE  ListedIsAccepted(s)
  <1> SUFFICES ASSUME Admits(s), ~savers[s].overtaken
               PROVE  LET listed == savers[s].project \in ProjectsPage.listed
                      IN  /\ (In(s, "billable") \/ In(s, "write"))' => listed
                          /\ (LookUpProject(s) \/ CountMembers(s) \/ CountMember(s))
                             /\ savers'[s] = NoSave => ~listed
    BY DEF ListedIsAccepted
  <1>1. PICK y \in Save : y = savers[s] /\ SaveHolds(y) /\ y.stage \in {"project", "members", "member"}
    BY AtStage DEF Admits
  <1>2. y.project \in Projects /\ savers[s] # NoSave
    BY <1>1, NoSaveHolds DEF SaveHolds, SaveStages
  <1>3. savers[s].project \in ProjectsPage.listed <=>
          /\ Declarable(y.project)
          /\ oversees \/ projects[y.project].access \in {"open", "listed"}
    BY <1>1, <1>2 DEF ProjectsPage, ListProjectsForUser, ListActiveProjectsForMonth,
                      ListActiveProjectsForMonthAndUser
  <1>4. projects[y.project].access \in {"open", "listed", "others"}
    <2>1. projects[y.project] \in Setting
      BY <1>2, ProjectTimeAssumption DEF TimeInv, TimeTypeOK
    <2>2. QED
      BY <2>1 DEF Setting
  <1>5. /\ savers' = [savers EXCEPT ![s] = NoSave] => savers'[s] = NoSave
        /\ \A stage : Proceed(s, stage) => savers'[s] = [y EXCEPT !.stage = stage]
        /\ Admit(s) => savers'[s] = [y EXCEPT !.overtaken = FALSE,
                                              !.stage = IF y.days > 0 THEN "billable" ELSE "write"]
    BY <1>1 DEF Proceed, Admit, TimeInv, TimeTypeOK
  <1>6. /\ [y EXCEPT !.stage = "members"].stage = "members"
        /\ [y EXCEPT !.stage = "member"].stage = "member"
        /\ [y EXCEPT !.overtaken = FALSE, !.stage = IF y.days > 0 THEN "billable" ELSE "write"].stage
             \in {"billable", "write"}
    BY DEF Save
  <1>7. /\ Refuse(s) => savers'[s] = NoSave
        /\ Proceed(s, "members") => savers'[s] # NoSave /\ savers'[s].stage = "members"
        /\ Proceed(s, "member") => savers'[s] # NoSave /\ savers'[s].stage = "member"
        /\ Admit(s) => savers'[s] # NoSave
    <2>1. Refuse(s) => savers'[s] = NoSave
      BY <1>5 DEF Refuse
    <2>2. \A z : z.stage # "idle" => z # NoSave
      BY DEF NoSave
    <2>3. Proceed(s, "members") => savers'[s].stage = "members"
      BY <1>5, <1>6
    <2>4. Proceed(s, "member") => savers'[s].stage = "member"
      BY <1>5, <1>6
    <2>5. Admit(s) => savers'[s].stage \in {"billable", "write"}
      BY <1>5, <1>6
    <2>6. QED
      BY <2>1, <2>2, <2>3, <2>4, <2>5
  <1>8. CASE LookUpProject(s)
    BY <1>1, <1>3, <1>7, <1>8 DEF LookUpProject, In
  <1>9. CASE CountMembers(s)
    <2>1. Declarable(y.project) /\ ~oversees
      BY <1>1, <1>9 DEF CountMembers, In, SaveHolds
    <2>2. QED
      BY <1>1, <1>3, <1>7, <1>9, <2>1 DEF CountMembers, In
  <1>10. CASE CountMember(s)
    <2>1. Declarable(y.project) /\ ~oversees /\ projects[y.project].access # "open"
      BY <1>1, <1>10 DEF CountMember, In, SaveHolds
    <2>2. QED
      BY <1>1, <1>3, <1>4, <1>7, <1>10, <2>1 DEF CountMember, In
  <1>11. QED
    BY <1>8, <1>9, <1>10, ChecksDecide

LEMMA StepWithin ==
    ASSUME TimeInv, TimeInv', NEW s \in Savers
    PROVE  WithinBillable(s)
  <1> SUFFICES ASSUME In(s, "write"), WriteEntry(s), savers[s].days > 0, ~savers[s].overtaken
               PROVE  ProjectsPage.total' <= ProjectsPage.billable'
    BY DEF WithinBillable
  <1>1. PICK y \in Save : y = savers[s] /\ SaveHolds(y) /\ y.stage = "write"
    BY AtStage
  <1>2. y.project \in Projects /\ y.days \in 0..MaxDays
    BY <1>1, SaveFacts DEF SaveHolds, SaveStages
  <1>3. declared \in Times /\ declared' \in Times /\ billableDays \in 0..MaxDays
    BY DEF TimeInv, TimeTypeOK, Times
  <1>4. SumDeclared(declared) + y.days <= billableDays + declared[y.project]
    BY <1>1 DEF SaveHolds
  <1>5. declared' = [declared EXCEPT ![y.project] = y.days] /\ billableDays' = billableDays
    BY <1>1 DEF WriteEntry
  <1>6. PICK d \in Times : d = declared
    BY <1>3
  <1>7. SumDeclared(declared') + d[y.project] = SumDeclared(d) + y.days
    BY <1>2, <1>5, <1>6, DeclaredSum
  <1>8. /\ SumDeclared(declared') \in 0..(MaxDays * Cardinality(Projects))
        /\ SumDeclared(d) \in 0..(MaxDays * Cardinality(Projects))
    BY <1>3, DeclaredSum
  <1>9. d[y.project] \in Nat /\ billableDays \in Nat /\ y.days \in Nat
    BY <1>2, <1>3, <1>6 DEF Times
  <1>10. /\ SumDeclared(declared') \in Nat /\ SumDeclared(d) \in Nat
    <2>1. MaxDays * Cardinality(Projects) \in Nat
      BY ProjectTimeAssumption, FS_CardinalityType, TimesOneMore
    <2>2. QED
      BY <1>8, <2>1
  <1>11. SumDeclared(declared') <= billableDays
    BY <1>4, <1>6, <1>7, <1>9, <1>10
  <1>12. QED
    BY <1>5, <1>11 DEF ProjectsPage

LEMMA StepKeepsTime ==
    ASSUME TimeInv, TimeNext, locked, declared' # declared
    PROVE  \E s \in Savers : In(s, "write") /\ savers[s].early
  <1>1. PICK s \in Savers : WriteEntry(s)
    BY DEF TimeNext, SetProjectTime, LookUpLock, LookUpProject, CountMembers, CountMember,
           ReadBillable, SumEntries, Compare, CertifyTime, ReadCover, ReadDeclared, LockTime,
           StatementRefused, DecertifyTime, PresenceChanges, UpdateProject, SetProjectMembers,
           ChangeProject
  <1>2. In(s, "write")
    BY <1>1 DEF WriteEntry
  <1>3. SaveHolds(savers[s]) /\ savers[s].stage = "write"
    BY <1>2, AtStage
  <1>4. savers[s].early
    BY <1>3 DEF SaveHolds, SaveStages
  <1>5. QED
    BY <1>2, <1>4

(* What is declared on projects, and what a save has read on its way, keep *)
(* their types: a month's total stays within the projects times its days.  *)
THEOREM TimeWellTyped == TimeSpec => []TimeTypeOK
  <1>1. TimeInv => TimeTypeOK
    BY DEF TimeInv
  <1>2. QED
    BY <1>1, InitTime, StepTime, PTL DEF TimeSpec

(* Saves, certifications, edits of the calendar and of the projects, any   *)
(* number at once and statement by statement: a save is let through for    *)
(* the projects that the page lists and for no other and leaves the total  *)
(* within the billable days, unless something came between, and the days   *)
(* of a certified month change only under a save that had looked before.   *)
THEOREM DeclarationsKeepThePage == TimeSpec => SavesMatchPage /\ CertifiedTimeKept
  <1>1. TimeInv /\ TimeInv' /\ [TimeNext]_timeVars =>
           [\A s \in Savers : ListedIsAccepted(s) /\ WithinBillable(s)]_timeVars
    BY StepListed, StepWithin
  <1>2. TimeInv /\ [TimeNext]_timeVars =>
           [locked /\ declared' # declared =>
               \E s \in Savers : In(s, "write") /\ savers[s].early]_timeVars
    BY StepKeepsTime
  <1>3. TimeSpec => []TimeInv /\ [][TimeNext]_timeVars
    BY InitTime, StepTime, PTL DEF TimeSpec
  <1>4. TimeSpec => SavesMatchPage
    BY <1>1, <1>3, PTL DEF SavesMatchPage
  <1>5. TimeSpec => CertifiedTimeKept
    BY <1>2, <1>3, PTL DEF CertifiedTimeKept
  <1>6. QED
    BY <1>4, <1>5

-----------------------------------------------------------------------------
(* The two ways as one state machine.                                      *)

(* A team's behaviour is one of manual activities and of project days.     *)
LEMMA EitherWay == TimesheetsSpec => ActivitiesSpec /\ TimeSpec
  <1>1. TimesheetsInit => ActivitiesInit /\ TimeInit
    BY DEF TimesheetsInit
  <1>2. [TimesheetsNext]_timesheetsVars => [ActivitiesNext]_activityVars /\ [TimeNext]_timeVars
    BY DEF TimesheetsNext, timesheetsVars
  <1>3. QED
    BY <1>1, <1>2, PTL DEF TimesheetsSpec, ActivitiesSpec, TimeSpec

(* Whichever way a team declares its time, the tables and the requests of  *)
(* both ways stay of their types.                                          *)
THEOREM TimesheetsWellTyped == TimesheetsSpec => []TimesheetsTypeOK
  <1>1. TimesheetsInit => manual \in BOOLEAN
    BY DEF TimesheetsInit
  <1>2. manual \in BOOLEAN /\ [TimesheetsNext]_timesheetsVars => (manual \in BOOLEAN)'
    BY DEF TimesheetsNext, timesheetsVars
  <1>3. TimesheetsSpec => [](manual \in BOOLEAN)
    BY <1>1, <1>2, PTL DEF TimesheetsSpec
  <1>4. TimesheetsSpec => []ActivitiesTypeOK /\ []TimeTypeOK
    BY EitherWay, ActivitiesWellTyped, TimeWellTyped
  <1>5. QED
    BY <1>3, <1>4, PTL DEF TimesheetsTypeOK
=============================================================================
