---------------------------- MODULE LoginLimiter ----------------------------
(***************************************************************************)
(* LoginRateLimiter (internal/middleware/security.go) for one address.     *)
(* Each method runs under the limiter's lock; between Allow and the        *)
(* outcome of the login it let through, others run.  Durations are counted *)
(* in ticks.                                                               *)
(***************************************************************************)
EXTENDS Naturals

CONSTANTS Logins,            \* logins in progress at once (a bound)
          MaxFailures,       \* loginMaxFailures
          Window             \* loginWindow and loginBlockDuration, which are equal

ASSUME LimiterAssumption == MaxFailures \in Nat \ {0} /\ Window \in Nat \ {0}

VARIABLES
    attempt,      \* attempts[ip]
    trying,       \* logins that Allow let through and that have no outcome yet
    penalty       \* history: ticks since a failure reached the limit

limiterVars == <<attempt, trying, penalty>>

NoAttempt == [count |-> 0]
NoPenalty == Window
Never == Window + 1              \* a zero time, or one longer ago than any comparison tells

(* first and blocked: how long ago firstFail and blockedAt are.            *)
Attempt == [count : Nat \ {0}, first : 0..Never, blocked : 0..Never]

LimiterTypeOK ==
    /\ attempt \in Attempt \cup {NoAttempt}
    /\ trying \in [Logins -> {"idle", "trying", "overtaken"}]
    /\ penalty \in 0..NoPenalty

LimiterInit ==
    /\ attempt = NoAttempt
    /\ trying = [l \in Logins |-> "idle"]
    /\ penalty = NoPenalty

Known == attempt # NoAttempt
Blocked == Known /\ attempt.blocked < Window
Expired == Known /\ attempt.first > Window

Allows == ~Known \/ (~Blocked /\ (Expired \/ attempt.count < MaxFailures))

(* An expired window is forgotten on the way.                              *)
Allow(l) ==
    /\ trying[l] = "idle" /\ Allows
    /\ trying' = [trying EXCEPT ![l] = "trying"]
    /\ attempt' = IF Expired THEN NoAttempt ELSE attempt
    /\ UNCHANGED penalty

(* A login let through before the limit was reached, by whose late failure *)
(* an expired window starts again without its block, ends the penalty.     *)
RecordFailure(l) ==
    /\ trying[l] # "idle"
    /\ attempt' = IF ~Known \/ Expired THEN [count |-> 1, first |-> 0, blocked |-> Never]
                  ELSE [attempt EXCEPT !.count = @ + 1,
                            !.blocked = IF attempt.count + 1 >= MaxFailures THEN 0 ELSE @]
    /\ LET reached == Known /\ ~Expired /\ attempt.count + 1 >= MaxFailures
       IN  /\ penalty' = IF reached THEN 0 ELSE IF trying[l] = "overtaken" THEN NoPenalty ELSE penalty
           /\ trying' = [k \in Logins |-> IF k = l THEN "idle"
                            ELSE IF reached /\ trying[k] = "trying" THEN "overtaken" ELSE trying[k]]

(* Reset, after a login or a password reset that succeeded.                *)
Succeed(l) ==
    /\ trying[l] # "idle"
    /\ attempt' = NoAttempt
    /\ trying' = [trying EXCEPT ![l] = "idle"]
    /\ penalty' = NoPenalty

(* Only the window is looked at.                                           *)
CleanupExpired ==
    /\ Expired
    /\ attempt' = NoAttempt
    /\ UNCHANGED <<trying, penalty>>

(* The cleanup loop.                                                       *)
Cleanup ==
    /\ Expired /\ attempt.blocked > Window
    /\ attempt' = NoAttempt
    /\ UNCHANGED <<trying, penalty>>

LimiterTick ==
    /\ Known
    /\ attempt' = [attempt EXCEPT !.first = IF @ < Never THEN @ + 1 ELSE @,
                                  !.blocked = IF @ < Never THEN @ + 1 ELSE @]
    /\ penalty' = IF penalty < NoPenalty THEN penalty + 1 ELSE penalty
    /\ UNCHANGED trying

LimiterNext ==
    \/ \E l \in Logins : Allow(l) \/ RecordFailure(l) \/ Succeed(l)
    \/ Cleanup
    \/ LimiterTick

LimiterSpec == LimiterInit /\ [][LimiterNext]_limiterVars

-----------------------------------------------------------------------------
(* Properties.                                                             *)

(* Once the limit is reached nothing is let through for the whole block,   *)
(* unless a login let through before that succeeds or fails late.          *)
PenaltyServed == penalty < NoPenalty => ~Allows
=============================================================================
