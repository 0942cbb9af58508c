-------------------------------- MODULE TeamRoster --------------------------------
(***************************************************************************)
(* Users, teams, their members and their leaders (internal/handlers/       *)
(* admin.go and admin_users.go over internal/db/db.go).  Adding somebody   *)
(* to a team is a chain of statements without a transaction: look up the   *)
(* address, insert the user, insert the membership, clear its departure    *)
(* date; and the errors of some are dropped.  A membership may also be     *)
(* removed, or be given a departure date, at any point of the chain.       *)
(*                                                                         *)
(* Foreign keys hold on the one pooled connection that ran the PRAGMA, so  *)
(* a deletion cascades or not, and a row of a deleted user or team is      *)
(* refused or not.                                                         *)
(***************************************************************************)
EXTENDS Naturals, FiniteSets

CONSTANTS Emails,          \* addresses of users, one row of users each
          Squads,          \* teams
          Stewards,        \* requests in progress at once (a bound)
          MaxIds,          \* rows of users ever inserted (a bound)
          DepartureDays,        \* departure dates are 1 .. DepartureDays
          MaxTeamEdits     \* requests of a behaviour beside creations (a bound)

ASSUME TeamsAssumption == MaxIds \in Nat /\ DepartureDays \in Nat /\ MaxTeamEdits \in Nat

Ids == 1 .. MaxIds
NoId == 0

VARIABLES
    idOf,       \* the id of each address's row of users, NoId without a row
    lastId,     \* AUTOINCREMENT of users
    squadRow,   \* teams: not created yet, there, or deleted
    member,     \* user_teams: no row, Current (left_at NULL) or the departure date
    leads,      \* rows of team_leaders, pairs <<team, id>>
    steward,    \* what each request is doing
    editsLeft,  \* requests still to come, creations aside
    (* History variables, never read by the code. *)
    answerOf,   \* what the last answer implies of each membership, or Unsure
    orphaning   \* teams that a statement without foreign keys left rows of

teamVars == <<idOf, lastId, squadRow, member, leads, steward, editsLeft, answerOf, orphaning>>

(* A membership: none, a departure date, or NULL, which comes after all.   *)
Days == 1 .. DepartureDays
NoMember == 0
Current == DepartureDays + 1
Unsure == DepartureDays + 2

AtRest == [stage |-> "rest"]
NoEmail == "nobody"
Teamless == "no team"
Chain == [stage : {"find", "create", "insert", "reset"},
          op : {"add", "member", "user", "batch"},
          lines : SUBSET Emails,           \* addresses still to do
          email : Emails \cup {NoEmail},   \* the one being created
          id : Ids \cup {NoId},
          teams : SUBSET Squads,           \* to add each of them to
          todo : SUBSET Squads,            \* those left for this id
          team : Squads \cup {Teamless},     \* the one being written
          clean : BOOLEAN]                 \* nothing failed or interfered there

TeamsTypeOK ==
    /\ idOf \in [Emails -> Ids \cup {NoId}] /\ lastId \in 0 .. MaxIds
    /\ squadRow \in [Squads -> {"unborn", "there", "gone"}]
    /\ member \in [Squads \X Ids -> {NoMember, Current} \cup Days]
    /\ leads \subseteq Squads \X Ids
    /\ steward \in [Stewards -> Chain \cup {AtRest}]
    /\ editsLeft \in 0 .. MaxTeamEdits
    /\ answerOf \in [Squads \X Ids -> {NoMember, Current, Unsure} \cup Days]
    /\ orphaning \subseteq Squads

TeamsInit ==
    /\ idOf = [e \in Emails |-> NoId] /\ lastId = 0
    /\ squadRow = [t \in Squads |-> "unborn"]
    /\ member = [p \in Squads \X Ids |-> NoMember] /\ leads = {}
    /\ steward = [a \in Stewards |-> AtRest] /\ editsLeft = MaxTeamEdits
    /\ answerOf = member /\ orphaning = {}

-----------------------------------------------------------------------------
(* Requests and what they may find.                                        *)

LiveIds == {idOf[e] : e \in Emails} \ {NoId}
There(t) == squadRow[t] = "there"

(* An id or a team that some page shows or showed.                         *)
Seen(i) == i \in 1 .. lastId
SeenTeam(t) == squadRow[t] # "unborn"

Ask == editsLeft > 0 /\ editsLeft' = editsLeft - 1

Give(a, r) == steward' = [steward EXCEPT ![a] = r]
Rest(a) == Give(a, AtRest)

(* The membership that a request is in the middle of writing.              *)
Writes(a) == IF steward[a].stage = "reset" THEN {<<steward[a].team, steward[a].id>>}
                                                         ELSE {}

(* A write or deletion of these memberships interferes with the requests   *)
(* that are in the middle of one.                                          *)
Disturb(ps) ==
    steward' = [a \in Stewards |-> IF Writes(a) \cap ps # {} THEN [steward[a] EXCEPT !.clean = FALSE]
                                   ELSE steward[a]]

Answered(p, m) == answerOf' = [answerOf EXCEPT ![p] = m]

-----------------------------------------------------------------------------
(* Users.                                                                  *)

InsertUser(e) ==
    /\ idOf[e] = NoId /\ lastId < MaxIds
    /\ idOf' = [idOf EXCEPT ![e] = lastId + 1]
    /\ lastId' = lastId + 1

(* CreateLocalUser, or UpsertUser at the first login through the identity  *)
(* provider; an address that has a row keeps it.                           *)
CreateUser(e) ==
    /\ InsertUser(e)
    /\ UNCHANGED <<squadRow, member, leads, steward, editsLeft, answerOf, orphaning>>

UnsureOf(ps) == answerOf' = [p \in DOMAIN answerOf |-> IF p \in ps THEN Unsure ELSE answerOf[p]]

(* What ON DELETE CASCADE removes with a user or a team, or leaves.        *)
CascadeOrNot(ps) ==
    /\ \/ /\ member' = [p \in DOMAIN member |-> IF p \in ps THEN NoMember ELSE member[p]]
          /\ leads' = leads \ ps /\ UNCHANGED orphaning
       \/ /\ UNCHANGED <<member, leads>>
          /\ orphaning' = orphaning \cup {p[1] : p \in {q \in ps : member[q] # NoMember \/ q \in leads}}
    /\ UnsureOf(ps) /\ Disturb(ps)

DeleteUser(e) ==
    /\ idOf[e] # NoId /\ Ask
    /\ idOf' = [idOf EXCEPT ![e] = NoId]
    /\ CascadeOrNot({p \in Squads \X Ids : p[2] = idOf[e]})
    /\ UNCHANGED <<lastId, squadRow>>

-----------------------------------------------------------------------------
(* Teams.                                                                  *)

(* CreateTeam.  What it and UpdateTeam say of the team beside its name no  *)
(* membership depends on; its domain is that of Directory.                 *)
CreateTeam(t) ==
    /\ squadRow[t] = "unborn"
    /\ squadRow' = [squadRow EXCEPT ![t] = "there"]
    /\ UNCHANGED <<idOf, lastId, member, leads, steward, editsLeft, answerOf, orphaning>>

DeleteTeam(t) ==
    /\ There(t) /\ Ask
    /\ squadRow' = [squadRow EXCEPT ![t] = "gone"]
    /\ CascadeOrNot({p \in Squads \X Ids : p[1] = t})
    /\ UNCHANGED <<idOf, lastId>>

(* SetTeamLeaders, a transaction; where foreign keys hold a list with a    *)
(* row that is gone is refused, and the leaders stay.                      *)
SetTeamLeaders(t, ids) ==
    /\ SeenTeam(t) /\ (\A i \in ids : Seen(i)) /\ Ask
    /\ leads' = {p \in leads : p[1] # t} \cup ({t} \X ids)
    /\ orphaning' = IF There(t) /\ ids \subseteq LiveIds THEN orphaning ELSE orphaning \cup {t}
    /\ UNCHANGED <<idOf, lastId, squadRow, member, steward, answerOf>>

-----------------------------------------------------------------------------
(* Members.  Whoever manages teams may ask, and so may a leader of the     *)
(* team (IsLeaderOfTeam).                                                  *)

Chained(op, lines, stage, i, ts) ==
    [stage |-> stage, op |-> op, lines |-> lines, email |-> NoEmail, id |-> i,
     teams |-> ts, todo |-> IF i = NoId THEN {} ELSE ts, team |-> Teamless, clean |-> TRUE]

BeginChain(a, chain) ==
    /\ steward[a] = AtRest /\ Ask /\ Give(a, chain)
    /\ UNCHANGED <<idOf, lastId, squadRow, member, leads, answerOf, orphaning>>

AddTeamMember(a, t, i) ==
    SeenTeam(t) /\ Seen(i) /\ BeginChain(a, Chained("add", {}, "insert", i, {t}))

PreprovisionTeamMember(a, t, e) ==
    SeenTeam(t) /\ BeginChain(a, Chained("member", {e}, "find", NoId, {t}))

PreprovisionUser(a, e, ts) ==
    (\A t \in ts : SeenTeam(t)) /\ BeginChain(a, Chained("user", {e}, "find", NoId, ts))

(* Lines of addresses with at most one team, the default or the line's.    *)
BatchPreprovisionUsers(a, es, ts) ==
    /\ es # {} /\ (\A t \in ts : SeenTeam(t)) /\ Cardinality(ts) <= 1
    /\ BeginChain(a, Chained("batch", es, "find", NoId, ts))

(* What follows when the user of a line is known, and when it is done.     *)
NextLine(r) ==
    IF r.lines = {} THEN AtRest
    ELSE [r EXCEPT !.stage = "find", !.email = NoEmail, !.id = NoId, !.todo = {}, !.team = Teamless]

NextTeam(r) ==
    IF r.todo = {} THEN NextLine(r) ELSE [r EXCEPT !.stage = "insert", !.team = Teamless]

KnownAs(r, i) == NextTeam([r EXCEPT !.id = i, !.email = NoEmail, !.todo = r.teams])

(* GetUserByEmail: PreprovisionUser refuses an address in use.             *)
FindUser(a) ==
    /\ steward[a].stage = "find"
    /\ \E e \in steward[a].lines :
         LET r == [steward[a] EXCEPT !.lines = @ \ {e}]
         IN  IF idOf[e] = NoId THEN Give(a, [r EXCEPT !.stage = "create", !.email = e])
             ELSE IF r.op = "user" THEN Rest(a) ELSE Give(a, KnownAs(r, idOf[e]))
    /\ UNCHANGED <<idOf, lastId, squadRow, member, leads, editsLeft, answerOf, orphaning>>

(* The INSERT of DB.PreprovisionUser; an address taken since is refused,   *)
(* which ends the request but for a batch.                                 *)
InsertProvisioned(a) ==
    /\ steward[a].stage = "create"
    /\ LET r == steward[a]
       IN  \/ InsertUser(r.email) /\ Give(a, KnownAs(r, lastId + 1))
           \/ /\ idOf[r.email] # NoId
              /\ Give(a, IF r.op = "batch" THEN NextLine(r) ELSE AtRest)
              /\ UNCHANGED <<idOf, lastId>>
    /\ UNCHANGED <<squadRow, member, leads, editsLeft, answerOf, orphaning>>

(* The INSERT OR IGNORE of DB.AddTeamMember, whose error is dropped: it is *)
(* refused where foreign keys hold and the user or the team is gone.       *)
InsertMember(a) ==
    /\ steward[a].stage = "insert"
    /\ \E t \in steward[a].todo :
         LET r == [steward[a] EXCEPT !.stage = "reset", !.team = t, !.todo = @ \ {t}]
             p == <<t, r.id>>
             live == There(t) /\ r.id \in LiveIds
         IN  \/ /\ member' = [member EXCEPT ![p] = IF @ = NoMember THEN Current ELSE @]
                /\ orphaning' = IF live THEN orphaning ELSE orphaning \cup {t}
                /\ Give(a, [r EXCEPT !.clean = live])
             \/ Give(a, [r EXCEPT !.clean = FALSE]) /\ UNCHANGED <<member, orphaning>>
         /\ Answered(<<t, steward[a].id>>, Unsure)
    /\ UNCHANGED <<idOf, lastId, squadRow, leads, editsLeft>>

(* Its UPDATE of left_at, which changes no row where none was inserted, or *)
(* fails: PreprovisionTeamMember alone says so.                            *)
ResetDeparture(a) ==
    /\ steward[a].stage = "reset"
    /\ LET r == steward[a]
           p == <<r.team, r.id>>
       IN  \/ /\ member' = [member EXCEPT ![p] = IF @ = NoMember THEN @ ELSE Current]
              /\ Answered(p, IF r.clean THEN Current ELSE Unsure)
              /\ Give(a, NextTeam(r))
           \/ /\ Answered(p, Unsure) /\ UNCHANGED member
              /\ Give(a, IF r.op = "member" THEN AtRest ELSE NextTeam(r))
    /\ UNCHANGED <<idOf, lastId, squadRow, leads, editsLeft, orphaning>>

(* One statement each on a membership, whatever else is under way.         *)
Settle(p, m) ==
    /\ SeenTeam(p[1]) /\ Seen(p[2]) /\ Ask
    /\ \/ /\ member' = [member EXCEPT ![p] = m]
          /\ Answered(p, IF \E a \in Stewards : p \in Writes(a) THEN Unsure ELSE m)
       \/ Answered(p, Unsure) /\ UNCHANGED member
    /\ Disturb({p})
    /\ UNCHANGED <<idOf, lastId, squadRow, leads, orphaning>>

RemoveTeamMember(p) == Settle(p, NoMember)

(* A departure date, past or to come, or none for a member who is back; no *)
(* row is made for whoever is not a member.                                *)
SetTeamMemberLeftAt(p, left) == Settle(p, IF member[p] = NoMember THEN NoMember ELSE left)

(* The server stops between two statements.                                *)
StopStewards ==
    /\ \E a \in Stewards : steward[a] # AtRest
    /\ steward' = [a \in Stewards |-> AtRest]
    /\ UNCHANGED <<idOf, lastId, squadRow, member, leads, editsLeft, answerOf, orphaning>>

TeamsNext ==
    \/ StopStewards
    \/ \E e \in Emails : CreateUser(e) \/ DeleteUser(e)
    \/ \E t \in Squads : CreateTeam(t) \/ DeleteTeam(t) \/ \E ids \in SUBSET Ids : SetTeamLeaders(t, ids)
    \/ \E p \in Squads \X Ids : \/ RemoveTeamMember(p)
                                \/ \E left \in {Current} \cup Days : SetTeamMemberLeftAt(p, left)
    \/ \E a \in Stewards :
          \/ FindUser(a) \/ InsertProvisioned(a) \/ InsertMember(a) \/ ResetDeparture(a)
          \/ \E t \in Squads : \/ \E i \in Ids : AddTeamMember(a, t, i)
                               \/ \E e \in Emails : PreprovisionTeamMember(a, t, e)
          \/ \E ts \in SUBSET Squads : \/ \E e \in Emails : PreprovisionUser(a, e, ts)
                                       \/ \E es \in SUBSET Emails : BatchPreprovisionUsers(a, es, ts)

TeamsSpec == TeamsInit /\ [][TeamsNext]_teamVars

-----------------------------------------------------------------------------
(* What the pages and the guards of other components read.                 *)

GetTeamMembers(t) == {i \in LiveIds : member[<<t, i>>] = Current}

GetAllTeamMembers(t) == {i \in LiveIds : member[<<t, i>>] # NoMember}

(* Members on or after a date.                                             *)
GetTeamMembersAt(t, start) ==
    {i \in GetAllTeamMembers(t) : member[<<t, i>>] >= start}

(* The same of several teams.                                              *)
GetTeamsMembersAt(ts, start) == UNION {GetTeamMembersAt(t, start) : t \in ts}

GetUserTeams(i) == {t \in Squads : There(t) /\ member[<<t, i>>] = Current}

ListTeamLeaders(t) == {i \in LiveIds : <<t, i>> \in leads}

(* The form of a team's leaders looks at no row of users.                  *)
GetTeamLeaderIDs(t) == {i \in Ids : <<t, i>> \in leads}

(* All teams at once; nothing is listed for a team without members.        *)
GetAllTeamsMembers ==
    [t \in {s \in Squads : GetAllTeamMembers(s) # {}} |-> {<<i, member[<<t, i>>]>> : i \in GetAllTeamMembers(t)}]

GetAllTeamsLeaders == [t \in {s \in Squads : ListTeamLeaders(s) # {}} |-> ListTeamLeaders(t)]

(* The teams that the page of users shows of each.                         *)
HydrateUsersTeams == [i \in LiveIds |-> {t \in Squads : There(t) /\ member[<<t, i>>] = Current}]

GetLedTeamIDs(i) == {t \in Squads : <<t, i>> \in leads}

GetLedTeams(i) == {t \in GetLedTeamIDs(i) : There(t)}

(* The page of teams, all for whoever manages them and the led for others: *)
(* the members of each with their departure dates, and its leaders.        *)
TeamsPage(manages, i) ==
    [t \in {s \in Squads : There(s) /\ (manages \/ s \in GetLedTeamIDs(i))} |->
        [members |-> IF t \in DOMAIN GetAllTeamsMembers THEN GetAllTeamsMembers[t] ELSE {},
         leaders |-> IF t \in DOMAIN GetAllTeamsLeaders THEN GetAllTeamsLeaders[t] ELSE {}]]

(* Whoever left is still led by the leaders of the team.                   *)
IsLeaderOfPastMembers(i, target) ==
    \E t \in Squads : <<t, i>> \in leads /\ member[<<t, target>>] # NoMember

(* May i declare, certify or reserve for the target?  The join looks at no *)
(* row of teams.                                                           *)
IsTeamLeaderOf(i, target) == \E t \in Squads : <<t, i>> \in leads /\ member[<<t, target>>] = Current

(* May i, who manages no teams, change the target's site?                  *)
LeaderMayMove(i, target) == GetLedTeamIDs(i) \cap GetUserTeams(target) # {}

-----------------------------------------------------------------------------
(* Properties.                                                             *)

(* What requests answered of a membership holds until another changes it,  *)
(* unless they overlapped, a statement failed or the user or the team was  *)
(* deleted (DB.AddTeamMember, two statements without a transaction, one of *)
(* them with its error dropped).                                           *)
AnswersHold == \A p \in Squads \X Ids : answerOf[p] # Unsure => member[p] = answerOf[p]

(* Whoever may act on a user as a leader is listed as leader of a team     *)
(* that lists the user as a member, by the lists of either of them, on the *)
(* pages of teams and of users, whoever opens the first, and sees the user *)
(* in the team's calendar of any month; the two guards agree               *)
(* (IsTeamLeaderOf, UpdateUserSite).  Teams that a statement without       *)
(* foreign keys left rows of are the exception.                            *)
AuthorityIsListed ==
    \A i, target \in LiveIds : IsTeamLeaderOf(i, target) =>
        \/ GetLedTeamIDs(i) \cap orphaning # {}
        \/ /\ LeaderMayMove(i, target)
           /\ \E t \in GetLedTeams(i) : /\ i \in ListTeamLeaders(t) /\ target \in GetTeamMembers(t)
                                        /\ i \in GetTeamLeaderIDs(t) /\ t \in HydrateUsersTeams[target]
                                        /\ \A start \in Days : target \in GetTeamsMembersAt({t}, start)
                                        /\ \A manages \in BOOLEAN :
                                              LET shown == TeamsPage(manages, i)[t]
                                              IN  <<target, Current>> \in shown.members /\ i \in shown.leaders

MembershipsKept == AnswersHold /\ AuthorityIsListed
=============================================================================
