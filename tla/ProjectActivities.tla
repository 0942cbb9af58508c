-------------------------- MODULE ProjectActivities --------------------------
(***************************************************************************)
(* "Timesheets managed manually": a user splits each billable day into     *)
(* activities whose percentages fill the day's weight, and certifies the   *)
(* month once every billable day is full                                   *)
(* (internal/handlers/project_activities.go, project_certifications.go).   *)
(*                                                                         *)
(* Presences and certifications are in presence.db, activities in          *)
(* projects.db: each query below is a step of its own.  The billable       *)
(* weight of a day follows from the calendar's presences and statuses,     *)
(* which change it whenever they like.  Percentages are whole numbers      *)
(* here, so the handlers' tolerance of 0.001 has nothing to absorb.        *)
(***************************************************************************)
EXTENDS Integers, Sequences, FiniteSetsExt

CONSTANTS Workers,        \* requests in flight at once
          Users, Dates, Months, MonthOf,
          Shares,         \* percentages that requests carry (a bound)
          MaxLines,       \* activities of one whole-day save (a bound)
          MaxActivities,  \* activities ever inserted (a bound)
          Faults          \* whether statements fail and the server restarts

ASSUME ActivitiesAssumption ==
    /\ MonthOf \in [Dates -> Months]
    /\ Shares \subseteq 1 .. 100
    /\ MaxLines \in Nat \ {0} /\ MaxActivities \in Nat
    /\ Faults \in BOOLEAN

VARIABLES
    weight,      \* [Users -> [Dates -> Weights]]: billable percentage of a day
    activities,  \* project_activities
    nextId,      \* its AUTOINCREMENT id
    certified,   \* project_certifications: set of <<user, month>>
    pc, req,     \* the requests
    (* History variables, never read by the code. *)
    peak,        \* the largest weight each day has had
    late,        \* requests whose month was certified after they looked it up
    crossed,     \* days that others wrote after a request had counted them
    blind        \* activities last written by a request so crossed

activityVars == <<weight, activities, nextId, certified, pc, req, peak, late, crossed, blind>>

Weights == {0, 50, 100}

(* The billable rows a day may have: the calendar keeps a full-day row and *)
(* half-day rows apart, and either half may have a non-billable status.    *)
BillableRows == {{}, {"full"}, {"AM"}, {"PM"}, {"AM", "PM"}}

(* Every row counts as a full day.                                         *)
WeightOfWholeRows(rows) == MapThenSumSet(LAMBDA h : 100, rows)

(* GetUserBillableWeightForDate.                                           *)
WeightOf(rows) == MapThenSumSet(LAMBDA h : IF h = "full" THEN 100 ELSE 50, rows)

Ids == 1 .. MaxActivities

Lists == UNION {[1 .. n -> Shares] : n \in 0 .. MaxLines}

Activity == [id : Ids, user : Users, date : Dates, share : Shares]

NoReq == [op |-> "none"]

(* An edit: create and update carry one share, a day save its whole list,  *)
(* update and delete the id of an existing activity (0 when there is none).*)
Edit == [op : {"create", "update", "delete", "day"}, user : Users, date : Dates,
         id : Ids \cup {0}, shares : Lists, limit : Weights]

Certification == [op : {"certify"}, user : Users, month : Months,
                  weights : [Dates -> Weights]]

ActivitiesTypeOK ==
    /\ weight \in [Users -> [Dates -> Weights]]
    /\ activities \subseteq Activity
    /\ nextId \in 1 .. MaxActivities + 1
    /\ certified \subseteq Users \X Months
    /\ pc \in [Workers -> {"idle", "weight", "total", "cert", "write", "fill", "sum", "lock"}]
    /\ req \in [Workers -> Edit \cup Certification \cup {NoReq}]
    /\ peak \in [Users -> [Dates -> Weights]]
    /\ late \subseteq Workers
    /\ crossed \in [Workers -> SUBSET Dates]
    /\ blind \subseteq Ids \cup {0}
    /\ \A a, b \in activities : a.id = b.id => a = b

ActivitiesInit ==
    /\ weight = [u \in Users |-> [d \in Dates |-> 0]]
    /\ activities = {}
    /\ nextId = 1
    /\ certified = {}
    /\ pc = [w \in Workers |-> "idle"]
    /\ req = [w \in Workers |-> NoReq]
    /\ peak = weight
    /\ late = {}
    /\ crossed = [w \in Workers |-> {}]
    /\ blind = {}

Share(a) == a.share

(* The percentages a user's day adds up to.                                *)
DayTotal(acts, u, d) ==
    MapThenSumSet(Share, {a \in acts : a.user = u /\ a.date = d})

ListTotal(l) == MapThenSumSet(LAMBDA i : l[i], DOMAIN l)

Begin(w, r, phase) ==
    /\ pc[w] = "idle"
    /\ pc' = [pc EXCEPT ![w] = phase]
    /\ req' = [req EXCEPT ![w] = r]

Goto(w, phase) == pc' = [pc EXCEPT ![w] = phase] /\ UNCHANGED req

Answer(w) ==
    /\ pc' = [pc EXCEPT ![w] = "idle"]
    /\ req' = [req EXCEPT ![w] = NoReq]

(* A query of w's: nothing is written, and with the answer w is forgotten. *)
Quiet(w) ==
    /\ IF pc'[w] = "idle"
       THEN crossed' = [crossed EXCEPT ![w] = {}] /\ late' = late \ {w}
       ELSE UNCHANGED <<crossed, late>>
    /\ UNCHANGED <<weight, activities, nextId, certified, peak, blind>>

-----------------------------------------------------------------------------
(* The four edits, up to their first query.                                *)

CreateProjectActivity(w) ==
    /\ nextId \in Ids
    /\ \E u \in Users, d \in Dates, s \in Shares :
         Begin(w, [op |-> "create", user |-> u, date |-> d, id |-> 0,
                   shares |-> <<s>>, limit |-> 0], "weight")
    /\ Quiet(w)

(* GetProjectActivity finds one of the caller's own activities.            *)
UpdateProjectActivity(w) ==
    /\ \E a \in activities, s \in Shares :
         Begin(w, [op |-> "update", user |-> a.user, date |-> a.date, id |-> a.id,
                   shares |-> <<s>>, limit |-> 0], "weight")
    /\ Quiet(w)

DeleteProjectActivity(w) ==
    /\ \E a \in activities :
         Begin(w, [op |-> "delete", user |-> a.user, date |-> a.date, id |-> a.id,
                   shares |-> <<>>, limit |-> 0], "cert")
    /\ Quiet(w)

(* A whole-day save checks the certification before anything else.         *)
SetDayActivities(w) ==
    /\ \E u \in Users, d \in Dates, l \in Lists :
         /\ nextId + Len(l) <= MaxActivities + 1
         /\ Begin(w, [op |-> "day", user |-> u, date |-> d, id |-> 0,
                      shares |-> l, limit |-> 0], "cert")
    /\ Quiet(w)

-----------------------------------------------------------------------------
(* Their queries.                                                          *)

(* validateActivityRequest reads the day's weight; a whole-day save has    *)
(* its list's total at hand and is validated at once.                      *)
ReadWeight(w) ==
    /\ pc[w] = "weight"
    /\ LET r == req[w]
           limit == weight[r.user][r.date]
       IN  IF r.op = "day"
           THEN IF \/ limit = 0 /\ r.shares # <<>>
                   \/ limit > 0 /\ ListTotal(r.shares) > limit
                THEN Answer(w) ELSE Goto(w, "write")
           ELSE IF limit = 0 THEN Answer(w)
                ELSE /\ pc' = [pc EXCEPT ![w] = "total"]
                     /\ req' = [req EXCEPT ![w].limit = limit]
    /\ Quiet(w)

(* The total misses what the day already holds.                            *)
ReadTotalAlone(w) ==
    /\ pc[w] = "total"
    /\ IF ListTotal(req[w].shares) > req[w].limit THEN Answer(w) ELSE Goto(w, "cert")
    /\ Quiet(w)

(* GetUserActivitiesTotalForDate, the updated activity left out.           *)
ReadTotal(w) ==
    /\ pc[w] = "total"
    /\ LET r == req[w]
           others == {a \in activities : a.id # r.id}
       IN  IF DayTotal(others, r.user, r.date) + ListTotal(r.shares) > r.limit
           THEN Answer(w) ELSE Goto(w, "cert")
    /\ Quiet(w)

IsCertified(r) == <<r.user, MonthOf[r.date]>> \in certified

(* The answer is written but only a deletion stops there.                  *)
RejectDeletionOnly(w) ==
    /\ pc[w] = "cert"
    /\ \/ /\ IsCertified(req[w]) \/ Faults
          /\ IF req[w].op # "delete" THEN Goto(w, IF req[w].op = "day" THEN "weight" ELSE "write")
                                     ELSE Answer(w)
       \/ /\ ~IsCertified(req[w])
          /\ Goto(w, IF req[w].op = "day" THEN "weight" ELSE "write")
    /\ Quiet(w)

(* rejectIfProjectMonthCertified writes HTTP 423, or 500 on an error, and  *)
(* the handlers return: except CreateProjectActivity, which goes on to     *)
(* insert.                                                                 *)
RejectIfProjectMonthCertified(w) ==
    /\ pc[w] = "cert"
    /\ \/ /\ IsCertified(req[w]) \/ Faults
          /\ IF req[w].op = "create" THEN Goto(w, "write") ELSE Answer(w)
       \/ /\ ~IsCertified(req[w])
          /\ Goto(w, IF req[w].op = "day" THEN "weight" ELSE "write")
    /\ Quiet(w)

-----------------------------------------------------------------------------
(* Their writes.                                                           *)

(* v counted the day that w writes and still rests on it (history): an     *)
(* edit falls short of it when others add to the day, a certification when *)
(* they take away.  The row that v itself updates is not in its count.     *)
Overtakes(w, v) ==
    /\ req[v].op # "none" /\ req[v].user = req[w].user
    /\ \/ /\ pc[v] = "lock" /\ MonthOf[req[w].date] = req[v].month
          /\ pc[w] = "write" /\ req[w].op # "create"
       \/ /\ \/ pc[v] \in {"cert", "write"} /\ req[v].op \in {"create", "update"}
             \/ pc[v] = "fill"
          /\ req[v].date = req[w].date
          /\ \/ req[w].op = "create" \/ pc[w] = "fill"
             \/ req[w].op = "update" /\ req[w].id # req[v].id

(* What w's write makes of the others' counts, and of its own request.     *)
Overtake(w) ==
    /\ crossed' = [v \in Workers |->
          IF v = w THEN IF pc'[w] = "idle" THEN {} ELSE crossed[w]
          ELSE IF Overtakes(w, v) THEN crossed[v] \cup {req[w].date}
          ELSE crossed[v]]
    /\ late' = IF pc'[w] = "idle" THEN late \ {w} ELSE late

(* The activity that w writes is blind when its day was crossed.           *)
Written(w, id) == IF req[w].date \in crossed[w] THEN blind \cup {id} ELSE blind \ {id}

Insert(u, d, s) ==
    /\ nextId \in Ids
    /\ activities' = activities \cup {[id |-> nextId, user |-> u, date |-> d, share |-> s]}
    /\ nextId' = nextId + 1

(* One INSERT, UPDATE or DELETE; an id that is gone changes nothing.       *)
WriteOne(w) ==
    /\ pc[w] = "write" /\ req[w].op # "day"
    /\ LET r == req[w]
       IN  \/ /\ r.op = "create" /\ Insert(r.user, r.date, Head(r.shares))
              /\ blind' = Written(w, nextId)
           \/ /\ r.op = "update"
              /\ activities' = {IF a.id = r.id THEN [a EXCEPT !.share = Head(r.shares)]
                                               ELSE a : a \in activities}
              /\ blind' = Written(w, r.id)
              /\ UNCHANGED nextId
           \/ /\ r.op = "delete"
              /\ activities' = {a \in activities : a.id # r.id}
              /\ blind' = blind \ {r.id}
              /\ UNCHANGED nextId
    /\ Answer(w)
    /\ Overtake(w)
    /\ UNCHANGED <<weight, certified, peak>>

(* SetUserDayActivities: the day is wiped ...                              *)
WipeDay(w) ==
    /\ pc[w] = "write" /\ req[w].op = "day"
    /\ activities' = {a \in activities : a.user # req[w].user \/ a.date # req[w].date}
    /\ blind' = blind \ {a.id : a \in activities \ activities'}
    /\ IF req[w].shares = <<>> THEN Answer(w) ELSE Goto(w, "fill")
    /\ Overtake(w)
    /\ UNCHANGED <<weight, nextId, certified, peak>>

(* ... and filled again, one INSERT after the other, in no transaction.    *)
FillDay(w) ==
    /\ pc[w] = "fill"
    /\ Insert(req[w].user, req[w].date, Head(req[w].shares))
    /\ IF Len(req[w].shares) = 1 THEN Answer(w)
       ELSE /\ req' = [req EXCEPT ![w].shares = Tail(@)]
            /\ UNCHANGED pc
    /\ blind' = Written(w, nextId)
    /\ Overtake(w)
    /\ UNCHANGED <<weight, certified, peak>>

-----------------------------------------------------------------------------
(* Certification.                                                          *)

(* userProjectDeclaration first reads the month's billable weights.        *)
CertifyProjectMonth(w) ==
    /\ \E u \in Users, m \in Months :
         Begin(w, [op |-> "certify", user |-> u, month |-> m, weights |-> weight[u]], "sum")
    /\ Quiet(w)

Billable(weights, m) == {d \in Dates : MonthOf[d] = m /\ weights[d] > 0}

(* Any activity makes a day declared.                                      *)
CoversAny(acts, u, m, weights) ==
    /\ Billable(weights, m) # {}
    /\ \A d \in Billable(weights, m) : DayTotal(acts, u, d) > 0

(* isDateComplete for every billable day, and there is one.                *)
Covers(acts, u, m, weights) ==
    /\ Billable(weights, m) # {}
    /\ \A d \in Billable(weights, m) : DayTotal(acts, u, d) >= weights[d]

SumMonth(w) ==
    /\ pc[w] = "sum"
    /\ LET r == req[w]
       IN  IF Covers(activities, r.user, r.month, r.weights)
           THEN Goto(w, "lock") ELSE Answer(w)
    /\ Quiet(w)

(* v has looked up month m of user u, which was open, and not written yet. *)
PastLookup(v, u, m) ==
    /\ \/ pc[v] \in {"write", "fill"}
       \/ pc[v] = "weight" /\ req[v].op = "day"
    /\ req[v].user = u /\ MonthOf[req[v].date] = m

(* DB.CertifyProjectMonth: INSERT OR IGNORE.                               *)
LockMonth(w) ==
    /\ pc[w] = "lock"
    /\ certified' = certified \cup {<<req[w].user, req[w].month>>}
    /\ Answer(w)
    /\ late' = late \cup {v \in Workers : PastLookup(v, req[w].user, req[w].month)}
    /\ crossed' = [crossed EXCEPT ![w] = {}]
    /\ UNCHANGED <<weight, activities, nextId, peak, blind>>

(* By an activity viewer, an administrator or one of u's team leaders.     *)
DecertifyProjectMonth(u, m) ==
    /\ certified' = certified \ {<<u, m>>}
    /\ UNCHANGED <<weight, activities, nextId, pc, req, peak, late, crossed, blind>>

-----------------------------------------------------------------------------
(* The calendar and failures.                                              *)

(* A presence edit, or an edit of a status's billable flag.                *)
WeightChanges(u, d) ==
    /\ \E rows \in BillableRows :
         LET x == WeightOf(rows) IN
         /\ weight' = [weight EXCEPT ![u][d] = x]
         /\ peak' = [peak EXCEPT ![u][d] = IF x > @ THEN x ELSE @]
    /\ UNCHANGED <<activities, nextId, certified, pc, req, late, crossed, blind>>

(* A query or a write fails: HTTP 422 or 500.                              *)
StatementFails(w) ==
    /\ Faults
    /\ pc[w] \in {"weight", "total", "write", "fill", "sum", "lock"}
    /\ Answer(w)
    /\ Quiet(w)

(* The process stops.                                                      *)
Restart ==
    /\ Faults
    /\ pc' = [w \in Workers |-> "idle"]
    /\ req' = [w \in Workers |-> NoReq]
    /\ late' = {}
    /\ crossed' = [w \in Workers |-> {}]
    /\ UNCHANGED <<weight, activities, nextId, certified, peak, blind>>

-----------------------------------------------------------------------------

ActivitiesNext ==
    \/ \E w \in Workers :
          \/ CreateProjectActivity(w) \/ UpdateProjectActivity(w)
          \/ DeleteProjectActivity(w) \/ SetDayActivities(w)
          \/ ReadWeight(w) \/ ReadTotal(w) \/ RejectIfProjectMonthCertified(w)
          \/ WriteOne(w) \/ WipeDay(w) \/ FillDay(w)
          \/ CertifyProjectMonth(w) \/ SumMonth(w) \/ LockMonth(w)
          \/ StatementFails(w)
    \/ \E u \in Users, m \in Months : DecertifyProjectMonth(u, m)
    \/ \E u \in Users, d \in Dates : WeightChanges(u, d)
    \/ Restart

ActivitiesSpec == ActivitiesInit /\ [][ActivitiesNext]_activityVars

-----------------------------------------------------------------------------
(* Properties.                                                             *)

(* The activities of a day never hold more than the largest weight it has  *)
(* had, but for those whose request had counted the day before another     *)
(* added to it: however creations, updates and whole-day saves interleave, *)
(* fail half-way or are cut off, and whatever becomes of the weights.      *)
WithinAllocation ==
    \A u \in Users, d \in Dates :
        DayTotal({a \in activities : a.id \notin blind}, u, d) <= peak[u][d]

OfMonth(acts, u, m) == {a \in acts : a.user = u /\ MonthOf[a.date] = m}

(* A certified month loses an activity, or has one changed, only by the    *)
(* write of a request that had looked the month up before it was           *)
(* certified, even when the certification lookup fails.                    *)
CertifiedActivitiesKept ==
    [][\A u \in Users, m \in Months :
         <<u, m>> \in certified =>
             \/ OfMonth(activities, u, m) \subseteq OfMonth(activities', u, m)
             \/ \E w \in late : /\ pc[w] = "write" /\ pc'[w] # "write"
                               /\ req[w].user = u /\ MonthOf[req[w].date] = m]_activityVars

(* The comment on migrateProjectCertifications: once certified, a month's  *)
(* project declarations are no longer modified until it is decertified.    *)
CertifiedActivitiesFrozen ==
    [][\A u \in Users, m \in Months :
         <<u, m>> \in certified =>
             OfMonth(activities, u, m) = OfMonth(activities', u, m)]_activityVars

(* A month becomes certified only when every day that is billable at that  *)
(* moment is full, save the days whose weight the calendar changed, or     *)
(* whose activities another request took away from, after the              *)
(* certification had read them.                                            *)
CertifiedWhenCovered ==
    [][\A w \in Workers, u \in Users, m \in Months :
         <<u, m>> \in certified' \ certified /\ pc[w] = "lock" /\ pc'[w] = "idle" =>
             \A d \in Billable(weight[u], m) :
                 \/ DayTotal(activities, u, d) >= weight[u][d]
                 \/ weight[u][d] # req[w].weights[d]
                 \/ d \in crossed[w]]_activityVars
=============================================================================
