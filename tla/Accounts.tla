------------------------------ MODULE Accounts ------------------------------
(***************************************************************************)
(* One user's account, its sessions with the cache in front of them, its   *)
(* password and the links that reset it (internal/db/db.go, the handlers   *)
(* auth, settings, reset_password and admin_users).                        *)
(*                                                                         *)
(* A request makes one statement a step, which may fail, and nothing locks *)
(* the rows between them.  Most writers drop the cached users first and    *)
(* change the database next.  Rows that have expired count as gone, as     *)
(* every query takes them.  A tick is a fraction of the cache's 15 s.      *)
(***************************************************************************)
EXTENDS Naturals

CONSTANTS Requests,      \* requests in progress at once (a bound)
          Sessions,      \* session tokens (a bound)
          Links,         \* password reset tokens (a bound)
          Profiles,      \* what a cached user shows: name and roles
          Passwords,
          CacheAge,      \* ticks a cached user is good for
          MaxChanges     \* logins, changes, links, expiries and failures (a bound)

VARIABLES
    account,      \* the users row
    sessions,     \* the sessions rows: the password that opened each
    cache,        \* sessionCache
    links,        \* password_reset_tokens rows
    requests,     \* requests between two of their steps
    budget,       \* logins, changes, links, expiries and failures still to come
    (* History variables, never read by the code. *)
    intended,     \* the password last set
    clobbered,    \* a login that a new password overtook rehashed the old one
    late,         \* sessions opened by a login that a new password overtook
    changes       \* passwords each link set, but by posts that did not delete it first

accountVars == <<account, sessions, cache, links, requests, budget,
                 intended, clobbered, late, changes>>

Absent == "absent"                  \* no such row, or no entry
Federated == "federated"            \* opened by SAML, with no password
TokenOnly == "token"                \* the request came with an access token alone

ASSUME AccountsAssumption ==
    CacheAge \in Nat \ {0} /\ MaxChanges \in Nat /\ Absent \notin Passwords

Account == [profile : Profiles, password : Passwords, legacy : BOOLEAN, disabled : BOOLEAN]

NoAccount == [profile |-> Absent]

(* excused: stored by a lookup that a change overtook or while one was     *)
(* being made, or there when a name that SAML sent was written or its      *)
(* session expired, which drop no entry; stale: for how long it has not    *)
(* been the truth.                                                         *)
Entry == [profile : Profiles, age : 0..CacheAge, excused : BOOLEAN, stale : 0..CacheAge]

NoEntry == [profile |-> Absent]

Change == {"profile", "enable", "disable", "delete", "password"}

(* next: what follows the rehash or the write it is at; keep: the session  *)
(* a purge spares; overtaken: a change was made between the request's read *)
(* and its write, or its link was not its own to use.                      *)
Request == [stage : {"idle", "query", "store", "write", "purge", "sweep", "logout", "rehash",
                     "insert", "upsert", "roles", "issue", "consume", "set"},
            next : {"idle", "insert", "set", "purge"},
            session : Sessions \cup {Absent}, keep : Sessions \cup {Absent, TokenOnly},
            change : Change \cup {Absent}, profile : Profiles \cup {Absent},
            password : Passwords \cup {Absent, Federated}, link : Links \cup {Absent},
            overtaken : BOOLEAN]

Idle == [stage |-> "idle", next |-> "idle", session |-> Absent, keep |-> Absent,
         change |-> Absent, profile |-> Absent, password |-> Absent, link |-> Absent,
         overtaken |-> FALSE]

(* What a request goes on with after its rehash or its write.              *)
After(r) == IF r.next = "idle" THEN Idle ELSE [r EXCEPT !.stage = r.next, !.next = "idle"]

AccountsTypeOK ==
    /\ account \in Account \cup {NoAccount}
    /\ sessions \in [Sessions -> Passwords \cup {Absent, Federated}]
    /\ cache \in [Sessions -> Entry \cup {NoEntry}]
    /\ links \subseteq Links
    /\ requests \in [Requests -> Request]
    /\ budget \in 0..MaxChanges
    /\ intended \in Passwords
    /\ clobbered \in BOOLEAN
    /\ late \subseteq Sessions
    /\ changes \in [Links -> Nat]

(* A local account, its password perhaps still in plain text.              *)
AccountsInit ==
    /\ account \in {a \in Account : ~a.disabled}
    /\ sessions = [s \in Sessions |-> Absent]
    /\ cache = [s \in Sessions |-> NoEntry]
    /\ links = {}
    /\ requests = [q \in Requests |-> Idle]
    /\ budget = MaxChanges
    /\ intended = account.password
    /\ clobbered = FALSE
    /\ late = {}
    /\ changes = [k \in Links |-> 0]

Exists == account # NoAccount

Step(q, r) == requests' = [requests EXCEPT ![q] = r]

Spend == budget > 0 /\ budget' = budget - 1

Begin(q, r) == requests[q] = Idle /\ Spend /\ Step(q, r)

NoHistory == UNCHANGED <<intended, clobbered, late, changes>>

-----------------------------------------------------------------------------
(* Lookups through the cache.                                              *)

Usable(s) == cache[s] # NoEntry /\ cache[s].age < CacheAge

(* The row with its user, as the query joins and filters them.             *)
Shown(s) == IF sessions[s] # Absent /\ Exists /\ ~account.disabled THEN account.profile
                                                                   ELSE Absent

(* A hit makes its entry last longer.                                      *)
HitRenews(s) ==
    /\ Usable(s)
    /\ cache' = [cache EXCEPT ![s].age = 0]
    /\ UNCHANGED <<account, sessions, links, requests, budget>> /\ NoHistory

(* GetSessionUser, a hit.                                                  *)
Hit(s) == Usable(s) /\ UNCHANGED accountVars

Miss(q, s) ==
    /\ requests[q] = Idle /\ ~Usable(s)
    /\ cache' = [cache EXCEPT ![s] = NoEntry]
    /\ Step(q, [Idle EXCEPT !.stage = "query", !.session = s])
    /\ UNCHANGED <<account, sessions, links, budget>> /\ NoHistory

Query(q) ==
    /\ requests[q].stage = "query"
    /\ LET p == Shown(requests[q].session)
       IN  Step(q, IF p = Absent THEN Idle
                   ELSE [requests[q] EXCEPT !.stage = "store", !.profile = p])
    /\ UNCHANGED <<account, sessions, cache, links, budget>> /\ NoHistory

Writing(q) == requests[q].stage \in {"write", "sweep", "logout"}

Store(q) ==
    /\ requests[q].stage = "store"
    /\ cache' = [cache EXCEPT ![requests[q].session] =
          [profile |-> requests[q].profile, age |-> 0, stale |-> 0,
           excused |-> requests[q].overtaken \/ \E p \in Requests : Writing(p)]]
    /\ Step(q, Idle)
    /\ UNCHANGED <<account, sessions, links, budget>> /\ NoHistory

ClockTick ==
    /\ \E s \in Sessions : Usable(s)
    /\ cache' = [s \in Sessions |->
          IF ~Usable(s) THEN cache[s]
          ELSE [cache[s] EXCEPT !.age = @ + 1,
                                !.stale = IF cache[s].profile = Shown(s) THEN 0
                                          ELSE IF @ < CacheAge THEN @ + 1 ELSE @]]
    /\ UNCHANGED <<account, sessions, links, requests, budget>> /\ NoHistory

-----------------------------------------------------------------------------
(* Changes of the account.                                                 *)

ClearSessionCache == cache' = [s \in Sessions |-> NoEntry]

(* A change makes something else of what a request at one of the stages    *)
(* has read.                                                               *)
Overtaken(r, stages) == [r EXCEPT !.overtaken = @ \/ r.stage \in stages]

Overtake(q, r, stages) ==
    requests' = [p \in Requests |-> IF p = q THEN r ELSE Overtaken(requests[p], stages)]

(* UpdateUserRoles, UpdateLocalUser, SetUserDisabled and DeleteLocalUser   *)
(* drop the cache before their statement.                                  *)
BeginChange(q, change, profile) ==
    /\ Begin(q, [Idle EXCEPT !.stage = "write", !.change = change, !.profile = profile])
    /\ ClearSessionCache
    /\ UNCHANGED <<account, sessions, links>> /\ NoHistory

(* ChangePasswordPost compares the owner's old password as a login does.   *)
(* It spares the session of its cookie, which may name none of the user's, *)
(* and without a cookie it leaves all of them.                             *)
ChangePassword(q, s, p) ==
    /\ s \in {Absent, TokenOnly} \cup {t \in Sessions : sessions[t] # Absent}
    /\ Exists /\ account.password = p
    /\ Begin(q, IF account.legacy
                THEN [Idle EXCEPT !.stage = "rehash", !.next = "set", !.password = p, !.keep = s]
                ELSE [Idle EXCEPT !.stage = "set", !.keep = s])
    /\ UNCHANGED <<account, sessions, cache, links>> /\ NoHistory

(* SetPassword by an administrator, whose own session stays if it is the   *)
(* account's.                                                              *)
SetPassword(q, s) ==
    /\ s \in {Absent} \cup {t \in Sessions : sessions[t] # Absent}
    /\ Begin(q, [Idle EXCEPT !.stage = "set", !.keep = s])
    /\ UNCHANGED <<account, sessions, cache, links>> /\ NoHistory

(* SetUserPassword up to its statement; behind a link the user is looked   *)
(* up first.                                                               *)
SetUserPassword(q, p) ==
    /\ requests[q].stage = "set"
    /\ IF Exists \/ requests[q].link = Absent
       THEN /\ ClearSessionCache
            /\ Step(q, [requests[q] EXCEPT !.stage = "write", !.change = "password", !.password = p,
                            !.next = IF requests[q].keep = TokenOnly THEN "idle" ELSE "purge"])
       ELSE UNCHANGED cache /\ Step(q, Idle)
    /\ UNCHANGED <<account, sessions, links, budget>> /\ NoHistory

Written(r) ==
    CASE r.change = "profile"  -> [account EXCEPT !.profile = r.profile]
      [] r.change = "enable"   -> [account EXCEPT !.disabled = FALSE]
      [] r.change = "disable"  -> [account EXCEPT !.disabled = TRUE]
      [] r.change = "delete"   -> NoAccount
      [] r.change = "password" -> [account EXCEPT !.password = r.password, !.legacy = FALSE]

(* The sessions that somebody may go on using.                             *)
OpenSessions == {s \in Sessions : sessions[s] # Absent}

(* The statement itself: of a user who is gone it changes nothing.  The    *)
(* password is followed by DeleteUserSessions if there is a cookie; the    *)
(* roles that SAML sends by the session it opens.                          *)
ApplyChange(q) ==
    /\ requests[q].stage = "write"
    /\ LET r == requests[q]
           pw == r.change = "password"
       IN  /\ account' = IF Exists THEN Written(r) ELSE account
           /\ intended' = IF pw /\ Exists THEN r.password ELSE intended
           /\ clobbered' = (clobbered /\ ~(pw /\ Exists))
           /\ late' = IF pw /\ r.next = "idle" THEN late \cup OpenSessions ELSE late
           /\ changes' = IF pw /\ r.link # Absent /\ ~r.overtaken THEN [changes EXCEPT ![r.link] = @ + 1]
                         ELSE changes
           /\ Overtake(q, After(r), IF pw THEN {"store", "rehash", "insert"} ELSE {"store"})
    /\ UNCHANGED <<sessions, cache, links, budget>>

(* DeleteUserSessions: drop the cache, then the rows but the caller's own. *)
Purge(q) ==
    /\ requests[q].stage = "purge"
    /\ ClearSessionCache
    /\ Step(q, [requests[q] EXCEPT !.stage = "sweep"])
    /\ UNCHANGED <<account, sessions, links, budget>> /\ NoHistory

(* What the kept session was opened with is the password it now stands for.*)
Renewed(s) == IF sessions[s] # Absent /\ Exists THEN account.password ELSE sessions[s]

(* It keeps the one session it is to delete.                               *)
SweepKept(q) ==
    /\ requests[q].stage = "sweep"
    /\ LET kept == requests[q].keep
       IN  /\ sessions' = [s \in Sessions |-> IF s = kept THEN Absent ELSE sessions[s]]
           /\ late' = late \ {kept}
    /\ Overtake(q, Idle, {"store", "rehash", "insert"})
    /\ UNCHANGED <<account, cache, links, budget, intended, clobbered, changes>>

Sweep(q) ==
    /\ requests[q].stage = "sweep"
    /\ LET kept == requests[q].keep
       IN  /\ sessions' = [s \in Sessions |-> IF s = kept THEN Renewed(s) ELSE Absent]
           /\ late' = late \cap {kept}
    /\ Overtake(q, Idle, {"store", "rehash", "insert"})
    /\ UNCHANGED <<account, cache, links, budget, intended, clobbered, changes>>

(* The statement fails and nobody is told: the old sessions stay.          *)
SweepFails(q) ==
    /\ requests[q].stage = "sweep"
    /\ LET kept == requests[q].keep
       IN  /\ sessions' = [s \in Sessions |-> IF s = kept THEN Renewed(s) ELSE sessions[s]]
           /\ late' = late \cup (OpenSessions \ {kept})
    /\ Step(q, Idle)
    /\ Spend
    /\ UNCHANGED <<account, cache, links, intended, clobbered, changes>>

-----------------------------------------------------------------------------
(* Logins and logouts.                                                     *)

(* LocalLogin read the row and compared; a password still in plain text is *)
(* hashed again, whatever the row holds by then, and only then a disabled  *)
(* user is turned away.                                                    *)
LocalLogin(q, p) ==
    /\ Exists /\ account.password = p /\ (account.legacy \/ ~account.disabled)
    /\ Begin(q, IF account.legacy
                THEN [Idle EXCEPT !.stage = "rehash", !.password = p,
                                  !.next = IF account.disabled THEN "idle" ELSE "insert"]
                ELSE [Idle EXCEPT !.stage = "insert", !.password = p])
    /\ UNCHANGED <<account, sessions, cache, links>> /\ NoHistory

(* CheckPassword of a plain text.                                          *)
Rehash(q) ==
    /\ requests[q].stage = "rehash"
    /\ account' = IF Exists THEN [account EXCEPT !.password = requests[q].password,
                                                 !.legacy = FALSE]
                  ELSE account
    /\ clobbered' = (clobbered \/ requests[q].overtaken)
    /\ Step(q, After(requests[q]))
    /\ UNCHANGED <<sessions, cache, links, budget, intended, late, changes>>

(* SAMLACS writes the name, with no word to the cache, then the roles if   *)
(* groups are mapped to them, and opens a session.  For a user who is gone *)
(* it makes another account, which is not this one.                        *)
SAMLLogin(q, profile) ==
    /\ Exists
    /\ Begin(q, [Idle EXCEPT !.stage = "upsert", !.profile = profile, !.password = Federated])
    /\ UNCHANGED <<account, sessions, cache, links>> /\ NoHistory

UpsertUser(q) ==
    /\ requests[q].stage = "upsert"
    /\ account' = IF Exists THEN [account EXCEPT !.profile = requests[q].profile] ELSE account
    /\ cache' = [s \in Sessions |-> IF cache[s] = NoEntry THEN NoEntry
                                    ELSE [cache[s] EXCEPT !.excused = TRUE]]
    /\ \/ Overtake(q, Idle, {"store"})
       \/ Exists /\ \E stage \in {"roles", "insert"} :
                       Overtake(q, [requests[q] EXCEPT !.stage = stage], {"store"})
    /\ UNCHANGED <<sessions, links, budget>> /\ NoHistory

SyncRoles(q, profile) ==
    /\ requests[q].stage = "roles"
    /\ ClearSessionCache
    /\ Step(q, [requests[q] EXCEPT !.stage = "write", !.change = "profile", !.profile = profile,
                                   !.next = "insert"])
    /\ UNCHANGED <<account, sessions, links, budget>> /\ NoHistory

(* Tokens are random: a row or a cached user never has a new one.          *)
CreateSession(q, s) ==
    /\ requests[q].stage = "insert"
    /\ sessions[s] = Absent /\ cache[s] = NoEntry
    /\ \A p \in Requests : requests[p].session # s /\ requests[p].keep # s
    /\ sessions' = [sessions EXCEPT ![s] = IF Exists THEN requests[q].password ELSE Absent]
    /\ late' = IF requests[q].overtaken THEN late \cup {s} ELSE late
    /\ Step(q, Idle)
    /\ UNCHANGED <<account, cache, links, budget, intended, clobbered, changes>>

(* DeleteSession: the cached user, then the row.                           *)
Logout(q, s) ==
    /\ requests[q] = Idle /\ sessions[s] # Absent
    /\ cache' = [cache EXCEPT ![s] = NoEntry]
    /\ Step(q, [Idle EXCEPT !.stage = "logout", !.session = s])
    /\ UNCHANGED <<account, sessions, links, budget>> /\ NoHistory

DeleteSession(q) ==
    /\ requests[q].stage = "logout"
    /\ sessions' = [sessions EXCEPT ![requests[q].session] = Absent]
    /\ late' = late \ {requests[q].session}
    /\ Overtake(q, Idle, {"store"})
    /\ UNCHANGED <<account, cache, links, budget, intended, clobbered, changes>>

-----------------------------------------------------------------------------
(* Password reset links.                                                   *)

(* CreatePasswordResetToken: the user's links go, if the statement does    *)
(* not fail, then one is added.                                            *)
ForgotPassword(q) ==
    /\ Exists
    /\ Begin(q, [Idle EXCEPT !.stage = "issue"])
    /\ links' \in {links, {}}
    /\ UNCHANGED <<account, sessions, cache>> /\ NoHistory

IssueLink(q, k) ==
    /\ requests[q].stage = "issue"
    /\ k \notin links /\ changes[k] = 0 /\ \A p \in Requests : requests[p].link # k
    /\ links' = IF Exists THEN links \cup {k} ELSE links
    /\ Step(q, Idle)
    /\ UNCHANGED <<account, sessions, cache, budget>> /\ NoHistory

LinkExpires(k) ==
    /\ k \in links
    /\ links' = links \ {k}
    /\ Spend
    /\ UNCHANGED <<account, sessions, cache, requests>> /\ NoHistory

(* UsePasswordResetToken: the link is found, then deleted, found or not.   *)
ResetPassword(q, k) ==
    /\ requests[q] = Idle /\ k \in links
    /\ Step(q, [Idle EXCEPT !.stage = "consume", !.link = k])
    /\ UNCHANGED <<account, sessions, cache, links, budget>> /\ NoHistory

ConsumeLink(q) ==
    /\ requests[q].stage = "consume"
    /\ links' = links \ {requests[q].link}
    /\ Overtake(q, [requests[q] EXCEPT !.stage = "set"], {"consume"})
    /\ UNCHANGED <<account, sessions, cache, budget>> /\ NoHistory

(* The statement fails and nobody is told: the link stays until it expires.*)
ConsumeFails(q) ==
    /\ requests[q].stage = "consume"
    /\ Step(q, [requests[q] EXCEPT !.stage = "set", !.overtaken = TRUE])
    /\ Spend
    /\ UNCHANGED <<account, sessions, cache, links>> /\ NoHistory

-----------------------------------------------------------------------------
(* Failures.                                                               *)

(* A session is over after a month; its entry stays.                       *)
SessionExpires(s) ==
    /\ sessions[s] # Absent
    /\ sessions' = [sessions EXCEPT ![s] = Absent]
    /\ late' = late \ {s}
    /\ cache' = IF cache[s] = NoEntry THEN cache ELSE [cache EXCEPT ![s].excused = TRUE]
    /\ requests' = [p \in Requests |-> IF requests[p].session = s
                                       THEN Overtaken(requests[p], {"store"}) ELSE requests[p]]
    /\ Spend
    /\ UNCHANGED <<account, links, intended, clobbered, changes>>

(* A statement fails: the request ends with an error, but for the rehash   *)
(* of a password and the roles of a SAML login, which go on without.       *)
StatementFails(q) ==
    /\ requests[q].stage \in {"query", "write", "logout", "rehash", "insert", "upsert", "issue",
                               "set"}
    /\ Step(q, IF requests[q].stage = "rehash" \/ requests[q].next = "insert"
               THEN After(requests[q]) ELSE Idle)
    /\ Spend
    /\ UNCHANGED <<account, sessions, cache, links>> /\ NoHistory

(* The server stops: the cache and the requests are gone, and sessions     *)
(* that a purge had still to remove stay.                                  *)
RestartAccounts ==
    /\ \E q \in Requests : requests[q] # Idle
    /\ late' = late \cup (IF \E q \in Requests : requests[q].stage \in {"purge", "sweep"}
                          THEN OpenSessions ELSE {})
    /\ cache' = [s \in Sessions |-> NoEntry]
    /\ requests' = [q \in Requests |-> Idle]
    /\ UNCHANGED <<account, sessions, links, budget, intended, clobbered, changes>>

AccountsNext ==
    \/ ClockTick
    \/ \E s \in Sessions : Hit(s) \/ SessionExpires(s)
    \/ \E k \in Links : LinkExpires(k)
    \/ \E q \in Requests :
          \/ \E s \in Sessions : Miss(q, s) \/ Logout(q, s) \/ CreateSession(q, s)
          \/ Query(q) \/ Store(q) \/ ApplyChange(q) \/ Purge(q) \/ Sweep(q) \/ SweepFails(q)
          \/ \E c \in {"enable", "disable", "delete"} : BeginChange(q, c, Absent)
          \/ \E f \in Profiles : BeginChange(q, "profile", f) \/ SAMLLogin(q, f) \/ SyncRoles(q, f)
          \/ \E p \in Passwords :
                \/ LocalLogin(q, p) \/ SetUserPassword(q, p)
                \/ \E s \in Sessions \cup {Absent, TokenOnly} : ChangePassword(q, s, p)
          \/ \E s \in Sessions \cup {Absent} : SetPassword(q, s)
          \/ Rehash(q) \/ UpsertUser(q) \/ DeleteSession(q) \/ StatementFails(q)
          \/ ForgotPassword(q) \/ ConsumeLink(q) \/ ConsumeFails(q)
          \/ \E k \in Links : IssueLink(q, k) \/ ResetPassword(q, k)
    \/ RestartAccounts

AccountsSpec == AccountsInit /\ [][AccountsNext]_accountVars

-----------------------------------------------------------------------------
(* Properties.                                                             *)

(* A session is answered for with something else than the database says    *)
(* only by an entry that a lookup stored beside the change, or when what   *)
(* changed is a name SAML sent or the session's expiry, and never a whole  *)
(* CacheAge after the change or after that lookup.                         *)
StaleAnswersAreBrief ==
    \A s \in Sessions : Usable(s) /\ cache[s].profile # Shown(s) =>
        cache[s].stale < CacheAge /\ cache[s].excused

(* The password is the one last set, unless a login or a change had        *)
(* compared the plain text before that and hashed it again afterwards.     *)
PasswordIsLastSet == Exists /\ ~clobbered => account.password = intended

(* Once a new password is set and the sessions swept, no session opened    *)
(* with another one is left, but for logins that the change overtook, a    *)
(* stop before the sweep, a sweep that failed and a change made with an    *)
(* access token, which sweeps nothing; the next sweep takes those too.     *)
OldPasswordsSignedOut ==
    (Exists /\ ~clobbered /\ \A q \in Requests : requests[q].stage \notin {"purge", "sweep"}) =>
        \A s \in Sessions \ late : sessions[s] \in {Absent, Federated, account.password}

(* Of the posts that delete a reset link, one sets a password, unless they *)
(* had found the link before the first one deleted it; a link whose        *)
(* deletion fails stays good until another post deletes it.                *)
LinksUsedOnce == \A k \in Links : changes[k] <= 1

(* The three together: what a change of password promises.                 *)
PasswordChangesHold == PasswordIsLastSet /\ OldPasswordsSignedOut /\ LinksUsedOnce
=============================================================================
