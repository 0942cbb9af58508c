---------------------------- MODULE Impersonation ----------------------------
(***************************************************************************)
(* An administrator's browser while acting as other users                  *)
(* (internal/handlers/settings.go).  The browser holds two cookies,        *)
(* session and real_session; each request carries what they were when it   *)
(* was sent, makes one statement a step, and sets them when its answer     *)
(* arrives.                                                                *)
(* Errors of the deletions of sessions are dropped, and any answer may be  *)
(* lost.  Sessions are looked up in their table: the cache in front of it  *)
(* is the subject of Accounts.                                             *)
(***************************************************************************)
EXTENDS Naturals

CONSTANTS Boss,              \* the user of the browser, an administrator
          Others,            \* the users to act as
          Posts,             \* requests in progress at once (a bound)
          MaxSessions,       \* rows of sessions ever inserted (a bound)
          MaxSwitches        \* requests and changes of users (a bound)

ASSUME ImpersonationAssumption ==
    /\ Boss \notin Others /\ MaxSessions \in Nat \ {0} /\ MaxSwitches \in Nat

Users == Others \cup {Boss}
SessionRows == 1 .. MaxSessions
NoCookie == 0

VARIABLES
    rank,         \* users: global, other, disabled
    sessionRow,   \* the user of each row of sessions, or Ended
    openedRows,       \* rows of sessions inserted so far
    cookie,       \* the browser's session cookie
    realCookie,   \* and its real_session cookie
    posts,        \* requests between two of their steps
    switches,     \* requests and changes still to come
    (* History variables, never read by the code. *)
    excused,      \* sessions a failure, a lost answer or an overlap left behind
    nested        \* acted as another while acting as somebody

impersonationVars == <<rank, sessionRow, openedRows, cookie, realCookie, posts, switches, excused, nested>>

Ended == "ended"
Parked == [stage |-> "parked"]
Post == [stage : {"target", "open", "leave", "drop", "renew", "retire", "answer"},
         cookie : SessionRows,                     \* as carried by the request
         real : SessionRows \cup {NoCookie},
         target : Users,
         fresh : SessionRows \cup {NoCookie},      \* the session openedRows for the answer
         crossed : BOOLEAN]                  \* another request was under way

ImpersonationTypeOK ==
    /\ rank \in [Users -> {"global", "other", "disabled"}]
    /\ sessionRow \in [SessionRows -> Users \cup {Ended}]
    /\ openedRows \in 0 .. MaxSessions
    /\ {cookie, realCookie} \subseteq 0 .. openedRows
    /\ posts \in [Posts -> Post \cup {Parked}]
    /\ switches \in 0 .. MaxSwitches
    /\ excused \subseteq SessionRows /\ nested \in BOOLEAN

(* The administrator has logged in.                                        *)
ImpersonationInit ==
    /\ rank \in [Users -> {"global", "other", "disabled"}] /\ rank[Boss] = "global"
    /\ sessionRow = [s \in SessionRows |-> IF s = 1 THEN Boss ELSE Ended]
    /\ openedRows = 1 /\ cookie = 1 /\ realCookie = NoCookie
    /\ posts = [q \in Posts |-> Parked]
    /\ switches = MaxSwitches
    /\ excused = {} /\ nested = FALSE

-----------------------------------------------------------------------------
(* Sessions and cookies.                                                   *)

(* GetSessionUser: whom a session stands for, or nobody.                   *)
SessionUser(s) ==
    IF s # NoCookie /\ sessionRow[s] # Ended /\ rank[sessionRow[s]] # "disabled"
    THEN {sessionRow[s]} ELSE {}

IsGlobal(s) == \E u \in SessionUser(s) : rank[u] = "global"

Open(u) ==
    /\ openedRows < MaxSessions /\ openedRows' = openedRows + 1
    /\ sessionRow' = [sessionRow EXCEPT ![openedRows + 1] = u]

(* DeleteSession, or its error, dropped.                                   *)
End(s) ==
    \/ sessionRow' = [sessionRow EXCEPT ![s] = Ended] /\ UNCHANGED excused
    \/ UNCHANGED sessionRow /\ excused' = excused \cup {s}

Switch == switches > 0 /\ switches' = switches - 1

AnyPost == \E q \in Posts : posts[q] # Parked

(* A request begins: those under way have company from now on.             *)
SendPost(q, p) ==
    /\ posts[q] = Parked
    /\ posts' = [r \in Posts |-> IF r = q THEN p
                                 ELSE IF posts[r] = Parked THEN Parked
                                 ELSE [posts[r] EXCEPT !.crossed = TRUE]]

Move(q, p) == posts' = [posts EXCEPT ![q] = p]

(* The answer of q sets the cookies, or is lost.  A request that had       *)
(* company sets them over what the other made of them, and one that goes   *)
(* on to act as yet another loses the first real session.                  *)
AnswerCookies(q, s, real) ==
    /\ Move(q, Parked)
    /\ \/ /\ cookie' = s /\ realCookie' = real
          /\ excused' = excused \cup ((IF posts[q].crossed THEN {cookie, realCookie}
                                       ELSE IF real # NoCookie THEN {realCookie} ELSE {}) \ {NoCookie})
       \/ UNCHANGED <<cookie, realCookie>>
          /\ excused' = excused \cup ({s} \ {NoCookie})

-----------------------------------------------------------------------------
(* ImpersonatePost.                                                        *)

BeginPost(q, stage, target) ==
    /\ Switch /\ SessionUser(cookie) # {}
    /\ SendPost(q, [stage |-> stage, cookie |-> cookie, real |-> realCookie, target |-> target,
                fresh |-> NoCookie, crossed |-> AnyPost])
    /\ UNCHANGED <<rank, sessionRow, openedRows, cookie, realCookie, excused>>

BeginImpersonate(q, target) ==
    /\ IsGlobal(cookie) /\ sessionRow[cookie] # target
    /\ BeginPost(q, "target", target)
    /\ nested' = (nested \/ realCookie # NoCookie)

(* GetUserByEmail: a disabled account is refused.                          *)
FindTarget(q) ==
    /\ posts[q].stage = "target"
    /\ Move(q, IF rank[posts[q].target] = "disabled" THEN Parked ELSE [posts[q] EXCEPT !.stage = "open"])
    /\ UNCHANGED <<rank, sessionRow, openedRows, cookie, realCookie, switches, excused, nested>>

(* CreateSession, which may fail, and the answer: the cookie carried       *)
(* becomes the real session.                                               *)
ActAsTarget(q) ==
    /\ posts[q].stage = "open"
    /\ \/ /\ Open(posts[q].target)
          /\ AnswerCookies(q, openedRows + 1, posts[q].cookie)
       \/ Move(q, Parked) /\ UNCHANGED <<sessionRow, openedRows, cookie, realCookie, excused>>
    /\ UNCHANGED <<rank, switches, nested>>

-----------------------------------------------------------------------------
(* ImpersonateExitPost.                                                    *)

BeginExit(q) ==
    /\ realCookie # NoCookie
    /\ BeginPost(q, "leave", Boss) /\ UNCHANGED nested

(* Without a real session of an administrator both cookies are cleared,    *)
(* and the session acted in stays.                                         *)
CheckReal(q) ==
    /\ posts[q].stage = "leave"
    /\ IF IsGlobal(posts[q].real)
       THEN /\ Move(q, [posts[q] EXCEPT !.stage = "drop", !.target = sessionRow[posts[q].real]])
            /\ UNCHANGED <<cookie, realCookie, excused>>
       ELSE \/ /\ cookie' = NoCookie /\ realCookie' = NoCookie
               /\ excused' = excused \cup ({cookie, realCookie} \ {NoCookie})
               /\ Move(q, Parked)
            \/ Move(q, Parked) /\ UNCHANGED <<cookie, realCookie, excused>>
    /\ UNCHANGED <<rank, sessionRow, openedRows, switches, nested>>

(* The session acted in is left.                                           *)
KeepActed(q) ==
    /\ posts[q].stage = "drop"
    /\ Move(q, [posts[q] EXCEPT !.stage = "renew"])
    /\ UNCHANGED <<rank, sessionRow, openedRows, cookie, realCookie, switches, excused, nested>>

DropActed(q) ==
    /\ posts[q].stage = "drop"
    /\ End(posts[q].cookie)
    /\ Move(q, [posts[q] EXCEPT !.stage = "renew"])
    /\ UNCHANGED <<rank, openedRows, cookie, realCookie, switches, nested>>

(* CreateSession for the administrator; an error ends the exit midway.     *)
RenewReal(q) ==
    /\ posts[q].stage = "renew"
    /\ \/ /\ Open(posts[q].target)
          /\ Move(q, [posts[q] EXCEPT !.stage = "retire", !.fresh = openedRows + 1])
       \/ Move(q, Parked) /\ UNCHANGED <<sessionRow, openedRows>>
    /\ UNCHANGED <<rank, cookie, realCookie, switches, excused, nested>>

RetireReal(q) ==
    /\ posts[q].stage = "retire"
    /\ End(posts[q].real)
    /\ Move(q, [posts[q] EXCEPT !.stage = "answer"])
    /\ UNCHANGED <<rank, openedRows, cookie, realCookie, switches, nested>>

AnswerExit(q) ==
    /\ posts[q].stage = "answer"
    /\ AnswerCookies(q, posts[q].fresh, NoCookie)
    /\ UNCHANGED <<rank, sessionRow, openedRows, switches, nested>>

-----------------------------------------------------------------------------
(* What else happens to the browser and to users.                          *)

(* A request that no session authenticates loses its cookie                *)
(* (AuthWithOptions).                                                      *)
Unauthenticated ==
    /\ cookie # NoCookie /\ SessionUser(cookie) = {}
    /\ cookie' = NoCookie /\ excused' = excused \cup {cookie}
    /\ UNCHANGED <<rank, sessionRow, openedRows, realCookie, posts, switches, nested>>

Cross == posts' = [q \in Posts |-> IF posts[q] = Parked THEN Parked
                                   ELSE [posts[q] EXCEPT !.crossed = TRUE]]

(* LocalLogin, with no session.                                            *)
Login ==
    /\ Switch /\ cookie = NoCookie /\ rank[Boss] # "disabled"
    /\ Open(Boss) /\ cookie' = openedRows + 1
    /\ Cross /\ UNCHANGED <<rank, realCookie, excused, nested>>

(* Logout leaves the real_session cookie and its session as they are.      *)
LogoutHere ==
    /\ Switch /\ cookie # NoCookie
    /\ End(cookie) /\ cookie' = NoCookie
    /\ Cross /\ UNCHANGED <<rank, openedRows, realCookie, nested>>

(* Both cookies are for four hours, from the same answer.                  *)
CookiesRunOut ==
    /\ realCookie # NoCookie
    /\ cookie' = NoCookie /\ realCookie' = NoCookie
    /\ excused' = excused \cup ({cookie, realCookie} \ {NoCookie})
    /\ Cross /\ UNCHANGED <<rank, sessionRow, openedRows, switches, nested>>

(* Another administrator changes a user, whose sessions stay.              *)
ChangeRank(u, r) ==
    /\ Switch /\ rank[u] # r /\ rank' = [rank EXCEPT ![u] = r]
    /\ UNCHANGED <<sessionRow, openedRows, cookie, realCookie, posts, excused, nested>>

(* The server stops between two steps of the requests.                     *)
StopPosts ==
    /\ AnyPost
    /\ posts' = [q \in Posts |-> Parked]
    /\ excused' = excused \cup ({posts[q].fresh : q \in {p \in Posts : posts[p] # Parked}} \ {NoCookie})
    /\ UNCHANGED <<rank, sessionRow, openedRows, cookie, realCookie, switches, nested>>

ImpersonationNext ==
    \/ Unauthenticated \/ Login \/ LogoutHere \/ CookiesRunOut \/ StopPosts
    \/ \E u \in Users, r \in {"global", "other", "disabled"} : ChangeRank(u, r)
    \/ \E q \in Posts :
          \/ FindTarget(q) \/ ActAsTarget(q)
          \/ BeginExit(q) \/ CheckReal(q) \/ DropActed(q) \/ RenewReal(q) \/ RetireReal(q) \/ AnswerExit(q)
          \/ \E u \in Users : BeginImpersonate(q, u)

ImpersonationSpec == ImpersonationInit /\ [][ImpersonationNext]_impersonationVars

-----------------------------------------------------------------------------
(* Properties.                                                             *)

(* Acting as another and back leaves no session behind that no cookie      *)
(* holds, unless a statement failed, an answer was lost, requests          *)
(* overlapped or a cookie was given up (ImpersonateExitPost ends the       *)
(* session acted in and the one it replaces).                              *)
SessionsHeld ==
    \A s \in SessionRows : sessionRow[s] # Ended =>
        \/ s \in {cookie, realCookie} \cup excused
        \/ \E q \in Posts : posts[q] # Parked /\ posts[q].fresh = s

(* A browser that no longer acts as anybody is its user's own again, but   *)
(* for whoever acted as another while acting as somebody.                  *)
BackToSelf ==
    realCookie = NoCookie /\ cookie # NoCookie /\ ~nested => sessionRow[cookie] \in {Boss, Ended}

ActingEnds == SessionsHeld /\ BackToSelf
=============================================================================
