---------------------------- MODULE AccountProofs ----------------------------
(***************************************************************************)
(* Theorems about what guards the sign-in, the limiter of failed logins    *)
(* and the WebAuthn ceremonies, and about an account, its sessions and     *)
(* their cache, its password and the links that reset it, and an           *)
(* administrator acting as another: for every number of requests,          *)
(* sessions, challenges, links and passwords.                              *)
(***************************************************************************)
EXTENDS LoginLimiter, Passkeys, Accounts, Impersonation, TLAPS

-----------------------------------------------------------------------------
(* The limiter.                                                            *)

(* While a penalty runs the address is blocked for no longer than it, and  *)
(* no login is left that was let through before the limit was reached and  *)
(* has not been told so.                                                   *)
PenaltyRuns ==
    penalty < NoPenalty =>
        /\ Known /\ attempt.blocked <= penalty
        /\ \A l \in Logins : trying[l] # "trying"

(* One more failure, with a block that starts or stays, is an attempt.     *)
LEMMA CountedAttempt ==
    ASSUME NEW r \in Attempt, NEW b \in 0..Never
    PROVE  /\ [r EXCEPT !.count = @ + 1, !.blocked = b] \in Attempt
           /\ [r EXCEPT !.count = @ + 1, !.blocked = b].blocked = b
  <1>1. r.count \in Nat \ {0} /\ r.first \in 0..Never
    BY DEF Attempt
  <1>2. r.count + 1 \in Nat \ {0}
    BY <1>1
  <1> DEFINE n == r.count + 1
  <1>3. n \in Nat \ {0}
    BY <1>2
  <1>4. [r EXCEPT !.count = @ + 1, !.blocked = b] = [r EXCEPT !.count = n, !.blocked = b]
    OBVIOUS
  <1> HIDE DEF n
  <1>5. [r EXCEPT !.count = n, !.blocked = b] \in Attempt
    BY <1>3 DEF Attempt
  <1>6. [r EXCEPT !.count = n, !.blocked = b].blocked = b
    BY DEF Attempt
  <1>7. QED
    BY <1>4, <1>5, <1>6

LEMMA InitLimiter == LimiterInit => LimiterTypeOK /\ PenaltyRuns
  BY LimiterAssumption DEF LimiterInit, LimiterTypeOK, PenaltyRuns, NoPenalty

LEMMA PenaltyBlocks == LimiterTypeOK /\ PenaltyRuns => PenaltyServed
  BY LimiterAssumption
  DEF LimiterTypeOK, PenaltyRuns, PenaltyServed, NoPenalty, Allows, Blocked, Known, Attempt, Never

LEMMA LimiterStep ==
    LimiterTypeOK /\ PenaltyRuns /\ [LimiterNext]_limiterVars => LimiterTypeOK' /\ PenaltyRuns'
  <1> SUFFICES ASSUME LimiterTypeOK, PenaltyRuns, [LimiterNext]_limiterVars
               PROVE  LimiterTypeOK' /\ PenaltyRuns'
    OBVIOUS
  <1> USE LimiterAssumption DEF NoPenalty, Never
  <1>known. Known => attempt \in Attempt
    BY DEF LimiterTypeOK, Known
  <1>1. ASSUME NEW l \in Logins, Allow(l)
        PROVE  LimiterTypeOK' /\ PenaltyRuns'
    <2>1. penalty >= NoPenalty
      BY <1>1, PenaltyBlocks DEF PenaltyServed, Allow, LimiterTypeOK
    <2>2. QED
      BY <1>1, <2>1 DEF Allow, LimiterTypeOK, PenaltyRuns
  <1>2. ASSUME NEW l \in Logins, RecordFailure(l)
        PROVE  LimiterTypeOK' /\ PenaltyRuns'
    <2>1. CASE ~Known \/ Expired
      <3>1. attempt' = [count |-> 1, first |-> 0, blocked |-> Never] /\ attempt' \in Attempt
        BY <1>2, <2>1 DEF RecordFailure, Attempt
      <3>2. /\ penalty' = IF trying[l] = "overtaken" THEN NoPenalty ELSE penalty
            /\ trying' = [k \in Logins |-> IF k = l THEN "idle" ELSE trying[k]]
        BY <1>2, <2>1 DEF RecordFailure
      <3>3. penalty' = NoPenalty
        BY <1>2, <3>2 DEF PenaltyRuns, LimiterTypeOK, RecordFailure
      <3>4. QED
        BY <3>1, <3>2, <3>3 DEF LimiterTypeOK, PenaltyRuns
    <2>2. CASE Known /\ ~Expired /\ attempt.count + 1 >= MaxFailures
      <3>1. /\ attempt' = [attempt EXCEPT !.count = @ + 1, !.blocked = 0]
            /\ penalty' = 0
            /\ trying' = [k \in Logins |-> IF k = l THEN "idle"
                             ELSE IF trying[k] = "trying" THEN "overtaken" ELSE trying[k]]
        BY <1>2, <2>2 DEF RecordFailure
      <3>2. attempt' \in Attempt /\ attempt'.blocked = 0
        <4>1. 0 \in 0..Never
          OBVIOUS
        <4>2. QED
          BY <2>2, <3>1, <4>1, <1>known, CountedAttempt
      <3>3. attempt' # NoAttempt
        BY <3>2 DEF Attempt, NoAttempt
      <3>4. QED
        BY <3>1, <3>2, <3>3 DEF LimiterTypeOK, PenaltyRuns, Known
    <2>3. CASE Known /\ ~Expired /\ ~(attempt.count + 1 >= MaxFailures)
      <3>1. /\ attempt' = [attempt EXCEPT !.count = @ + 1, !.blocked = @]
            /\ penalty' = IF trying[l] = "overtaken" THEN NoPenalty ELSE penalty
            /\ trying' = [k \in Logins |-> IF k = l THEN "idle" ELSE trying[k]]
        BY <1>2, <2>3 DEF RecordFailure
      <3>2. attempt' \in Attempt
        <4>1. attempt.blocked \in 0..Never
          BY <2>3, <1>known DEF Attempt
        <4>2. attempt' = [attempt EXCEPT !.count = @ + 1, !.blocked = attempt.blocked]
          BY <3>1
        <4>3. QED
          BY <2>3, <4>1, <4>2, <1>known, CountedAttempt
      <3>3. penalty' = NoPenalty
        BY <1>2, <3>1 DEF PenaltyRuns, LimiterTypeOK, RecordFailure
      <3>4. QED
        BY <3>1, <3>2, <3>3 DEF LimiterTypeOK, PenaltyRuns
    <2>4. QED
      BY <2>1, <2>2, <2>3
  <1>3. ASSUME NEW l \in Logins, Succeed(l)
        PROVE  LimiterTypeOK' /\ PenaltyRuns'
    BY <1>3 DEF Succeed, LimiterTypeOK, PenaltyRuns
  <1>4. CASE Cleanup
    <2>1. Known /\ attempt.blocked > Window /\ attempt.blocked \in 0..Never
      BY <1>4, <1>known DEF Cleanup, Expired, Attempt
    <2>2. penalty >= NoPenalty
      BY <2>1 DEF PenaltyRuns, LimiterTypeOK
    <2>3. QED
      BY <1>4, <2>2 DEF Cleanup, LimiterTypeOK, PenaltyRuns
  <1>5. CASE LimiterTick
    <2> DEFINE first == IF attempt.first < Never THEN attempt.first + 1 ELSE attempt.first
    <2> DEFINE blocked == IF attempt.blocked < Never THEN attempt.blocked + 1 ELSE attempt.blocked
    <2>1. attempt \in Attempt /\ attempt' = [attempt EXCEPT !.first = first, !.blocked = blocked]
      BY <1>5, <1>known DEF LimiterTick
    <2>2. first \in 0..Never /\ blocked \in 0..Never
      BY <2>1 DEF Attempt
    <2>3. attempt' \in Attempt /\ attempt'.blocked = blocked
      BY <2>1, <2>2 DEF Attempt
    <2>4. attempt' # NoAttempt
      BY <2>3 DEF Attempt, NoAttempt
    <2>5. /\ penalty' = IF penalty < NoPenalty THEN penalty + 1 ELSE penalty
          /\ penalty' \in 0..NoPenalty /\ trying' = trying
      BY <1>5 DEF LimiterTick, LimiterTypeOK
    <2>6. penalty' < NoPenalty => attempt'.blocked <= penalty'
      BY <2>1, <2>3, <2>5 DEF PenaltyRuns, LimiterTypeOK, Attempt
    <2>7. QED
      BY <2>3, <2>4, <2>5, <2>6 DEF LimiterTypeOK, PenaltyRuns, Known
  <1>6. CASE UNCHANGED limiterVars
    BY <1>6 DEF limiterVars, LimiterTypeOK, PenaltyRuns, Known
  <1>7. QED
    BY <1>1, <1>2, <1>3, <1>4, <1>5, <1>6 DEF LimiterNext

(* Every state of the limiter is well-typed.                               *)
THEOREM LimiterWellTyped == LimiterSpec => []LimiterTypeOK
  <1>1. QED
    BY InitLimiter, LimiterStep, PTL DEF LimiterSpec

(* Once the failed logins of an address reach the limit, Allow lets        *)
(* nothing through for the whole block, whatever logins are in progress.   *)
THEOREM PenaltyIsServed == LimiterSpec => []PenaltyServed
  <1>1. QED
    BY InitLimiter, LimiterStep, PenaltyBlocks, PTL DEF LimiterSpec

-----------------------------------------------------------------------------
(* The passkeys' ceremonies.                                               *)

Holds(f) == finishes[f] # NoFinish /\ finishes[f].stage # "load"
ChallengeOf(f) == finishes[f].answer.challenge
LoggingIn(f) == At(f, "read") \/ At(f, "write")

(* Whoever is past LoadAndDelete is the only one to have taken its         *)
(* challenge, which has led to nothing so far.                             *)
ChallengesTaken ==
    /\ \A f, g \in Finishes :
          Holds(f) /\ Holds(g) /\ ChallengeOf(f) = ChallengeOf(g) => f = g
    /\ \A f \in Finishes : Holds(f) =>
          ceremonies[ChallengeOf(f)] = "gone" /\ opened[ChallengeOf(f)] = 0
    /\ \A c \in Challenges : ceremonies[c] # "gone" => opened[c] = 0
    /\ CeremonyEndsOnce

(* The count a login carries is not below the stored one, unless logins    *)
(* with the key overlap, which raced remembers.                            *)
CountsCarried ==
    /\ \A f, g \in Finishes :
          LoggingIn(f) /\ LoggingIn(g) /\ KeyOf(f) = KeyOf(g) => f = g \/ KeyOf(f) \in raced
    /\ \A f \in Finishes : LoggingIn(f) =>
          /\ credentials[KeyOf(f)] # NotStored
          /\ Stored(KeyOf(f)) => finishes[f].count >= credentials[KeyOf(f)] \/ KeyOf(f) \in raced

PasskeysInv == PasskeysTypeOK /\ ChallengesTaken /\ CountsCarried

(* A request in progress is a Finish; its key and challenge exist.         *)
LEMMA FinishParts ==
    ASSUME PasskeysTypeOK, NEW f \in Finishes, finishes[f] # NoFinish
    PROVE  /\ finishes[f] \in Finish /\ finishes[f].answer \in Answer
           /\ KeyOf(f) \in Keys /\ ChallengeOf(f) \in Challenges
           /\ finishes[f].count \in 0..MaxSignatures
           /\ finishes[f].answer.count \in 0..MaxSignatures
           /\ finishes[f].answer.kind \in {"login", "register"}
  <1>1. finishes[f] \in Finish
    BY DEF PasskeysTypeOK
  <1>2. finishes[f].answer \in Answer /\ finishes[f].count \in 0..MaxSignatures
    BY <1>1 DEF Finish
  <1>3. QED
    BY <1>1, <1>2 DEF Answer, KeyOf, ChallengeOf

(* A request that moves to another stage keeps its answer and its count.   *)
LEMMA StageMoves ==
    ASSUME PasskeysTypeOK, NEW f \in Finishes, finishes[f] # NoFinish,
           NEW stage \in FinishStage, Stage(f, stage)
    PROVE  /\ finishes' \in [Finishes -> Finish \cup {NoFinish}]
           /\ \A g \in Finishes \ {f} : finishes'[g] = finishes[g]
           /\ finishes'[f] # NoFinish /\ finishes'[f].stage = stage
           /\ finishes'[f].answer = finishes[f].answer /\ finishes'[f].count = finishes[f].count
  <1> DEFINE r == [finishes[f] EXCEPT !.stage = stage]
  <1>1. finishes[f] \in Finish
    BY FinishParts
  <1>2. r \in Finish
    BY <1>1 DEF Finish
  <1>3. r.stage = stage /\ r.answer = finishes[f].answer /\ r.count = finishes[f].count
    BY <1>1 DEF Finish
  <1>4. finishes' = [finishes EXCEPT ![f] = r]
    BY DEF Stage
  <1> HIDE DEF r
  <1>5. r # NoFinish
    BY <1>2 DEF Finish, NoFinish, FinishStage
  <1>6. QED
    BY <1>2, <1>3, <1>4, <1>5 DEF PasskeysTypeOK

(* A request that ends leaves the others.                                  *)
LEMMA FinishEnds ==
    ASSUME PasskeysTypeOK, NEW f \in Finishes, EndFinish(f)
    PROVE  /\ finishes' \in [Finishes -> Finish \cup {NoFinish}]
           /\ \A g \in Finishes \ {f} : finishes'[g] = finishes[g]
           /\ finishes'[f] = NoFinish
  BY DEF PasskeysTypeOK, EndFinish

LEMMA InitPasskeys == PasskeysInit => PasskeysInv
  <1> SUFFICES ASSUME PasskeysInit PROVE PasskeysInv
    OBVIOUS
  <1>1. PasskeysTypeOK
    BY PasskeysAssumption DEF PasskeysInit, PasskeysTypeOK, NotStored, Removed
  <1>2. \A f \in Finishes : ~Holds(f) /\ ~LoggingIn(f)
    BY DEF PasskeysInit, Holds, LoggingIn, At
  <1>3. QED
    BY <1>1, <1>2
    DEF PasskeysInit, PasskeysInv, ChallengesTaken, CeremonyEndsOnce, CountsCarried

-----------------------------------------------------------------------------
(* Steps that leave every request where it is, or make it let go.          *)

(* Nothing that a request past its challenge relies on is disturbed when   *)
(* the rest of the state moves as below.                                   *)
LEMMA CeremoniesStand ==
    ASSUME PasskeysInv, PasskeysTypeOK',
           \A f \in Finishes : finishes'[f] = finishes[f] \/ finishes'[f] = NoFinish
                               \/ finishes'[f].stage = "load",
           \A c \in Challenges : ceremonies[c] = "gone" => ceremonies'[c] = "gone",
           opened' = opened, raced' = raced,
           \A k \in Keys : credentials'[k] = credentials[k] \/ credentials'[k] = Removed
    PROVE  PasskeysInv'
  <1>1. \A f \in Finishes : /\ Holds(f)' => Holds(f) /\ finishes'[f] = finishes[f]
                            /\ LoggingIn(f)' => LoggingIn(f) /\ finishes'[f] = finishes[f]
    BY DEF Holds, LoggingIn, At
  <1>2. \A f \in Finishes : Holds(f) => ChallengeOf(f) \in Challenges /\ KeyOf(f) \in Keys
    BY FinishParts DEF Holds, PasskeysInv
  <1>3. \A f \in Finishes : LoggingIn(f) => Holds(f)
    BY DEF LoggingIn, Holds, At
  <1>4. ChallengesTaken'
    BY <1>1, <1>2 DEF PasskeysInv, ChallengesTaken, CeremonyEndsOnce, ChallengeOf
  <1>5. Removed > MaxSignatures /\ Removed # NotStored
    BY PasskeysAssumption DEF Removed, NotStored
  <1>6. CountsCarried'
    <2>1. \A f, g \in Finishes : LoggingIn(f)' /\ LoggingIn(g)' /\ KeyOf(f)' = KeyOf(g)'
             => f = g \/ KeyOf(f)' \in raced'
      BY <1>1 DEF PasskeysInv, CountsCarried, KeyOf
    <2>2. ASSUME NEW f \in Finishes, LoggingIn(f)'
          PROVE  /\ (credentials[KeyOf(f)] # NotStored)'
                 /\ Stored(KeyOf(f))' => (finishes[f].count >= credentials[KeyOf(f)])'
                                         \/ (KeyOf(f) \in raced)'
      <3>1. KeyOf(f)' = KeyOf(f) /\ KeyOf(f) \in Keys /\ LoggingIn(f) /\ finishes'[f] = finishes[f]
        BY <2>2, <1>1, <1>2, <1>3 DEF KeyOf
      <3>2. CASE credentials'[KeyOf(f)] = credentials[KeyOf(f)]
        BY <3>1, <3>2 DEF PasskeysInv, CountsCarried, Stored
      <3>3. CASE credentials'[KeyOf(f)] = Removed
        BY <3>1, <3>3, <1>5, PasskeysAssumption DEF Stored, Removed, NotStored
      <3>4. QED
        BY <3>1, <3>2, <3>3
    <2>3. QED
      BY <2>1, <2>2 DEF CountsCarried
  <1>7. QED
    BY <1>4, <1>6 DEF PasskeysInv

LEMMA QuietActions ==
    ASSUME PasskeysInv,
           \/ \E c \in Challenges :
                 \/ \E kind \in {"login", "register"} : BeginCeremony(c, kind)
                 \/ \E k \in Keys : Sign(c, k)
                 \/ ChallengeExpires(c)
           \/ \E f \in Finishes, a \in answers : PostFinish(f, a)
           \/ \E k \in Keys : PasskeyDelete(k)
           \/ \E v \in BOOLEAN : SetEnabled(v)
           \/ RestartPasskeys
    PROVE  PasskeysInv'
  <1> USE PasskeysAssumption DEF Removed, NotStored
  <1>1. PasskeysTypeOK
    BY DEF PasskeysInv
  <1>2. ASSUME NEW c \in Challenges, NEW kind \in {"login", "register"}, BeginCeremony(c, kind)
        PROVE  PasskeysInv'
    <2>1. PasskeysTypeOK'
      BY <1>1, <1>2 DEF PasskeysTypeOK, BeginCeremony
    <2>2. QED
      BY <1>1, <1>2, <2>1, CeremoniesStand DEF PasskeysTypeOK, BeginCeremony
  <1>3. ASSUME NEW c \in Challenges, NEW k \in Keys, Sign(c, k)
        PROVE  PasskeysInv'
    <2> DEFINE n == IF ceremonies[c] = "login" THEN signed[k] + 1 ELSE signed[k]
    <2>1. n \in 0..MaxSignatures
      BY <1>1, <1>3 DEF PasskeysTypeOK, Sign
    <2>2. [challenge |-> c, key |-> k, count |-> n, kind |-> ceremonies[c]] \in Answer
      BY <2>1, <1>3 DEF Answer, Sign
    <2>3. PasskeysTypeOK'
      BY <1>1, <1>3, <2>1, <2>2 DEF PasskeysTypeOK, Sign
    <2>4. QED
      BY <1>1, <1>3, <2>3, CeremoniesStand DEF PasskeysTypeOK, Sign
  <1>4. ASSUME NEW c \in Challenges, ChallengeExpires(c)
        PROVE  PasskeysInv'
    <2>1. PasskeysTypeOK'
      BY <1>1, <1>4 DEF PasskeysTypeOK, ChallengeExpires
    <2>2. QED
      BY <1>1, <1>4, <2>1, CeremoniesStand DEF PasskeysTypeOK, ChallengeExpires
  <1>5. ASSUME NEW f \in Finishes, NEW a \in answers, PostFinish(f, a)
        PROVE  PasskeysInv'
    <2> DEFINE r == [stage |-> "load", answer |-> a, count |-> 0]
    <2>1. r \in Finish /\ r.stage = "load"
      BY <1>1 DEF PasskeysTypeOK, Finish, FinishStage
    <2>2. finishes' = [finishes EXCEPT ![f] = r]
      BY <1>5 DEF PostFinish
    <2> HIDE DEF r
    <2>3. PasskeysTypeOK'
      BY <1>1, <1>5, <2>1, <2>2 DEF PasskeysTypeOK, PostFinish
    <2>4. \A g \in Finishes : finishes'[g] = finishes[g] \/ finishes'[g].stage = "load"
      BY <1>1, <2>1, <2>2 DEF PasskeysTypeOK
    <2>5. QED
      BY <1>5, <2>3, <2>4, CeremoniesStand DEF PostFinish
  <1>6. ASSUME NEW k \in Keys, PasskeyDelete(k)
        PROVE  PasskeysInv'
    <2>1. PasskeysTypeOK'
      BY <1>1, <1>6 DEF PasskeysTypeOK, PasskeyDelete
    <2>2. QED
      BY <1>1, <1>6, <2>1, CeremoniesStand DEF PasskeysTypeOK, PasskeyDelete
  <1>7. ASSUME NEW v \in BOOLEAN, SetEnabled(v)
        PROVE  PasskeysInv'
    <2>1. PasskeysTypeOK'
      BY <1>1, <1>7 DEF PasskeysTypeOK, SetEnabled
    <2>2. QED
      BY <1>7, <2>1, CeremoniesStand DEF SetEnabled
  <1>8. CASE RestartPasskeys
    <2>1. PasskeysTypeOK'
      BY <1>1, <1>8 DEF PasskeysTypeOK, RestartPasskeys
    <2>2. QED
      BY <1>8, <2>1, CeremoniesStand DEF RestartPasskeys
  <1>9. QED
    BY <1>2, <1>3, <1>4, <1>5, <1>6, <1>7, <1>8

-----------------------------------------------------------------------------
(* Steps of a finish request past its challenge.                           *)

(* A holder that goes on or ends keeps every challenge taken once.         *)
LEMMA HolderMoves ==
    ASSUME PasskeysInv, NEW f \in Finishes, Holds(f),
           \A g \in Finishes \ {f} : finishes'[g] = finishes[g],
           finishes'[f] = NoFinish \/ finishes'[f].answer = finishes[f].answer,
           ceremonies' = ceremonies, opened' = opened
    PROVE  ChallengesTaken'
  <1>1. \A g \in Finishes : Holds(g)' => Holds(g) /\ ChallengeOf(g)' = ChallengeOf(g)
    BY DEF Holds, ChallengeOf
  <1>2. QED
    BY <1>1 DEF PasskeysInv, ChallengesTaken, CeremonyEndsOnce

(* A holder that ends may have led to a session or a credential.           *)
LEMMA HolderOpens ==
    ASSUME PasskeysInv, NEW f \in Finishes, Holds(f), Opens(f), EndFinish(f),
           ceremonies' = ceremonies
    PROVE  ChallengesTaken' /\ opened' \in [Challenges -> Nat]
  <1> DEFINE c == ChallengeOf(f)
  <1>1. c \in Challenges /\ opened[c] = 0 /\ ceremonies[c] = "gone"
    BY FinishParts DEF PasskeysInv, ChallengesTaken, Holds
  <1>2. opened \in [Challenges -> Nat] /\ opened' = [opened EXCEPT ![c] = 1]
    BY <1>1 DEF PasskeysInv, PasskeysTypeOK, Opens, ChallengeOf
  <1>3. \A g \in Finishes : Holds(g)' => g # f /\ Holds(g) /\ ChallengeOf(g)' = ChallengeOf(g)
    BY FinishEnds DEF PasskeysInv, Holds, ChallengeOf
  <1>4. \A g \in Finishes : Holds(g)' => ChallengeOf(g) # c /\ ChallengeOf(g) \in Challenges
    BY <1>3, FinishParts DEF PasskeysInv, ChallengesTaken, Holds
  <1>5. QED
    BY <1>1, <1>2, <1>3, <1>4 DEF PasskeysInv, ChallengesTaken, CeremonyEndsOnce

(* Counts stay carried when a request moves on with what it has, or out.   *)
LEMMA CounterMoves ==
    ASSUME PasskeysInv, NEW f \in Finishes,
           \A g \in Finishes \ {f} : finishes'[g] = finishes[g],
           \/ ~LoggingIn(f)'
           \/ /\ LoggingIn(f) /\ finishes'[f].answer = finishes[f].answer
              /\ finishes'[f].count = finishes[f].count,
           credentials' = credentials, raced' = raced
    PROVE  CountsCarried'
  <1>1. \A g \in Finishes : LoggingIn(g)' =>
           LoggingIn(g) /\ KeyOf(g)' = KeyOf(g) /\ finishes'[g].count = finishes[g].count
    BY DEF LoggingIn, At, KeyOf
  <1>2. QED
    BY <1>1 DEF PasskeysInv, CountsCarried, Stored

LEMMA LoadAndDeleteStep ==
    ASSUME PasskeysInv, NEW f \in Finishes, LoadAndDelete(f)
    PROVE  PasskeysInv'
  <1> DEFINE c == ChallengeOf(f)
  <1>1. PasskeysTypeOK /\ finishes[f] # NoFinish /\ ~Holds(f)
    BY DEF PasskeysInv, LoadAndDelete, Holds
  <1>2. c \in Challenges /\ finishes[f].answer.kind \in {"login", "register"}
    BY <1>1, FinishParts
  <1>3. ceremonies' = [ceremonies EXCEPT ![c] = "gone"]
    BY DEF LoadAndDelete, ChallengeOf
  <1>4. CASE ceremonies[c] = finishes[f].answer.kind
    <2>1. Stage(f, "verify")
      BY <1>4 DEF LoadAndDelete, ChallengeOf
    <2>2. /\ finishes' \in [Finishes -> Finish \cup {NoFinish}]
          /\ \A g \in Finishes \ {f} : finishes'[g] = finishes[g]
          /\ finishes'[f] # NoFinish /\ finishes'[f].stage = "verify"
          /\ finishes'[f].answer = finishes[f].answer
      BY <1>1, <2>1, StageMoves DEF FinishStage
    <2>3. PasskeysTypeOK'
      BY <1>1, <1>2, <1>3, <2>2 DEF PasskeysTypeOK, LoadAndDelete
    <2>4. opened[c] = 0 /\ \A g \in Finishes : Holds(g) => ChallengeOf(g) # c
      BY <1>2, <1>4 DEF PasskeysInv, ChallengesTaken
    <2>5. \A g \in Finishes : /\ ChallengeOf(g)' = ChallengeOf(g)
                              /\ g # f => (Holds(g)' <=> Holds(g))
      BY <2>2 DEF ChallengeOf, Holds
    <2>6. \A g \in Finishes : Holds(g) => ChallengeOf(g) \in Challenges
      BY <1>1, FinishParts DEF Holds
    <2>7. ChallengesTaken'
      BY <1>1, <1>2, <1>3, <2>4, <2>5, <2>6
      DEF PasskeysInv, PasskeysTypeOK, ChallengesTaken, CeremonyEndsOnce, LoadAndDelete
    <2>8. CountsCarried'
      BY <2>2, CounterMoves DEF LoggingIn, At, LoadAndDelete
    <2>9. QED
      BY <2>3, <2>7, <2>8 DEF PasskeysInv
  <1>5. CASE ceremonies[c] # finishes[f].answer.kind
    <2>1. EndFinish(f)
      BY <1>5 DEF LoadAndDelete, ChallengeOf
    <2>2. PasskeysTypeOK'
      BY <1>1, <1>2, <1>3, <2>1, FinishEnds DEF PasskeysTypeOK, LoadAndDelete
    <2>3. QED
      BY <1>1, <1>2, <1>3, <2>1, <2>2, FinishEnds, CeremoniesStand DEF PasskeysTypeOK, LoadAndDelete
  <1>6. QED
    BY <1>4, <1>5

LEMMA VerifyLoginStep ==
    ASSUME PasskeysInv, NEW f \in Finishes, VerifyLogin(f)
    PROVE  PasskeysInv'
  <1> DEFINE k == KeyOf(f)
  <1>1. PasskeysTypeOK /\ finishes[f] # NoFinish /\ finishes[f].stage = "verify"
    BY DEF PasskeysInv, VerifyLogin, At
  <1>2. Holds(f) /\ ~LoggingIn(f) /\ k \in Keys /\ finishes[f] \in Finish
    BY <1>1, FinishParts DEF Holds, LoggingIn, At
  <1>3. CASE enabled /\ Stored(k)
    <2> DEFINE n == IF finishes[f].answer.count > credentials[k] THEN finishes[f].answer.count
                    ELSE credentials[k]
    <2> DEFINE r == [finishes[f] EXCEPT !.stage = "read", !.count = n]
    <2>1. n \in 0..MaxSignatures /\ n >= credentials[k] /\ credentials[k] # NotStored
      BY <1>1, <1>2, <1>3, FinishParts, PasskeysAssumption
      DEF PasskeysTypeOK, Stored, NotStored, Removed
    <2>2. r \in Finish /\ r.answer = finishes[f].answer /\ r.stage = "read" /\ r.count = n
      BY <1>2, <2>1 DEF Finish, FinishStage
    <2>3. /\ finishes' = [finishes EXCEPT ![f].stage = "read", ![f].count = n]
          /\ raced' = IF InLogin(k) # {} THEN raced \cup {k} ELSE raced
      BY <1>3 DEF VerifyLogin
    <2>4. finishes' = [finishes EXCEPT ![f] = r]
      BY <2>3, <1>1 DEF PasskeysTypeOK
    <2> HIDE DEF n, r
    <2>5. r # NoFinish
      BY <2>2 DEF Finish, FinishStage, NoFinish
    <2>6. /\ finishes' \in [Finishes -> Finish \cup {NoFinish}] /\ finishes'[f] = r
          /\ \A g \in Finishes \ {f} : finishes'[g] = finishes[g]
      BY <1>1, <2>2, <2>4 DEF PasskeysTypeOK
    <2>7. PasskeysTypeOK'
      BY <1>1, <1>2, <2>3, <2>6 DEF PasskeysTypeOK, VerifyLogin
    <2>8. ChallengesTaken'
      BY <1>2, <2>2, <2>6, HolderMoves DEF VerifyLogin
    <2>9. /\ \A g \in Finishes \ {f} : /\ LoggingIn(g)' <=> LoggingIn(g)
                                       /\ KeyOf(g)' = KeyOf(g)
                                       /\ finishes'[g].count = finishes[g].count
          /\ KeyOf(f)' = k /\ finishes'[f].count = n
      BY <2>2, <2>6 DEF LoggingIn, At, KeyOf
    <2>10. \A g \in Finishes \ {f} : LoggingIn(g) /\ KeyOf(g) = k => k \in raced'
      BY <2>3 DEF LoggingIn, InLogin
    <2>11. credentials' = credentials /\ raced \subseteq raced'
      BY <2>3 DEF VerifyLogin
    <2>12. CountsCarried'
      BY <2>1, <2>9, <2>10, <2>11 DEF PasskeysInv, CountsCarried, Stored
    <2>13. QED
      BY <2>7, <2>8, <2>12 DEF PasskeysInv
  <1>4. CASE ~(enabled /\ Stored(k))
    <2>1. EndFinish(f) /\ UNCHANGED raced
      BY <1>4 DEF VerifyLogin
    <2>2. PasskeysTypeOK'
      BY <1>1, <2>1, FinishEnds DEF PasskeysTypeOK, VerifyLogin
    <2>3. QED
      BY <1>1, <2>1, <2>2, FinishEnds, CeremoniesStand DEF VerifyLogin
  <1>5. QED
    BY <1>3, <1>4

LEMMA ReadCredentialStep ==
    ASSUME PasskeysInv, NEW f \in Finishes, ReadCredential(f)
    PROVE  PasskeysInv'
  <1>1. PasskeysTypeOK /\ finishes[f] # NoFinish /\ finishes[f].stage = "read"
    BY DEF PasskeysInv, ReadCredential, At
  <1>2. Holds(f) /\ LoggingIn(f)
    BY <1>1 DEF Holds, LoggingIn, At
  <1>3. PICK stage \in {"write", "session"} : Stage(f, stage)
    BY DEF ReadCredential
  <1>4. /\ finishes' \in [Finishes -> Finish \cup {NoFinish}]
        /\ \A g \in Finishes \ {f} : finishes'[g] = finishes[g]
        /\ finishes'[f].answer = finishes[f].answer /\ finishes'[f].count = finishes[f].count
    BY <1>1, <1>3, StageMoves DEF FinishStage
  <1>5. PasskeysTypeOK'
    BY <1>1, <1>4 DEF PasskeysTypeOK, ReadCredential
  <1>6. ChallengesTaken'
    BY <1>2, <1>4, HolderMoves DEF ReadCredential
  <1>7. CountsCarried'
    BY <1>2, <1>4, CounterMoves DEF ReadCredential
  <1>8. QED
    BY <1>5, <1>6, <1>7 DEF PasskeysInv

(* Where the stored count could fall, another login with the key is at     *)
(* work, or was.                                                           *)
LEMMA WriteCredentialStep ==
    ASSUME PasskeysInv, NEW f \in Finishes, WriteCredential(f)
    PROVE  /\ PasskeysInv'
           /\ \A k \in Keys : credentials'[k] < credentials[k] => k \in raced
  <1> DEFINE k == KeyOf(f)
  <1>1. PasskeysTypeOK /\ finishes[f] # NoFinish /\ finishes[f].stage = "write"
    BY DEF PasskeysInv, WriteCredential, At
  <1>2. Holds(f) /\ LoggingIn(f)
    BY <1>1 DEF Holds, LoggingIn, At
  <1>3. k \in Keys /\ finishes[f].count \in 0..MaxSignatures
    BY <1>1, FinishParts
  <1>4. Stage(f, "session")
    BY DEF WriteCredential
  <1>5. /\ finishes' \in [Finishes -> Finish \cup {NoFinish}]
        /\ \A g \in Finishes \ {f} : finishes'[g] = finishes[g]
        /\ finishes'[f].stage = "session" /\ finishes'[f].answer = finishes[f].answer
    BY <1>1, <1>4, StageMoves DEF FinishStage
  <1>6. credentials \in [Keys -> 0..Removed]
    BY <1>1 DEF PasskeysTypeOK
  <1> DEFINE n == IF Stored(k) THEN finishes[f].count ELSE credentials[k]
  <1>7. credentials' = [credentials EXCEPT ![k] = n]
    BY DEF WriteCredential
  <1>8. n \in 0..Removed /\ (credentials[k] # NotStored => n # NotStored)
    BY <1>3, <1>6, PasskeysAssumption DEF NotStored, Removed
  <1>9. n < credentials[k] => k \in raced
    BY <1>2, <1>3, <1>6, PasskeysAssumption DEF PasskeysInv, CountsCarried, Removed
  <1> HIDE DEF n
  <1>10. PasskeysTypeOK'
    BY <1>1, <1>3, <1>5, <1>6, <1>7, <1>8 DEF PasskeysTypeOK, WriteCredential
  <1>11. ChallengesTaken'
    BY <1>2, <1>5, HolderMoves DEF WriteCredential
  <1>12. \A g \in Finishes : LoggingIn(g)' =>
           /\ g # f /\ LoggingIn(g) /\ KeyOf(g)' = KeyOf(g) /\ finishes'[g] = finishes[g]
           /\ KeyOf(g) = k => k \in raced
    BY <1>2, <1>5 DEF LoggingIn, At, KeyOf, PasskeysInv, CountsCarried
  <1>13. \A g \in Finishes : LoggingIn(g) => KeyOf(g) \in Keys /\ credentials[KeyOf(g)] # NotStored
    BY <1>1, FinishParts DEF LoggingIn, At, PasskeysInv, CountsCarried
  <1>14. \A j \in Keys : j # k => credentials'[j] = credentials[j]
    BY <1>6, <1>7
  <1>15. credentials'[k] = n
    BY <1>3, <1>6, <1>7
  <1>16. raced' = raced
    BY DEF WriteCredential
  <1>17. CountsCarried'
    <2>1. \A g, h \in Finishes : LoggingIn(g)' /\ LoggingIn(h)' /\ KeyOf(g)' = KeyOf(h)'
             => g = h \/ KeyOf(g)' \in raced'
      BY <1>12, <1>16 DEF PasskeysInv, CountsCarried
    <2>2. ASSUME NEW g \in Finishes, LoggingIn(g)'
          PROVE  /\ (credentials[KeyOf(g)] # NotStored)'
                 /\ Stored(KeyOf(g))' => (finishes[g].count >= credentials[KeyOf(g)])'
                                         \/ (KeyOf(g) \in raced)'
      <3>1. CASE KeyOf(g) = k
        BY <2>2, <3>1, <1>8, <1>12, <1>13, <1>15, <1>16 DEF NotStored
      <3>2. CASE KeyOf(g) # k
        BY <2>2, <3>2, <1>12, <1>13, <1>14, <1>16 DEF PasskeysInv, CountsCarried, Stored, NotStored
      <3>3. QED
        BY <3>1, <3>2
    <2>3. QED
      BY <2>1, <2>2 DEF CountsCarried
  <1>18. \A j \in Keys : credentials'[j] < credentials[j] => j \in raced
    BY <1>6, <1>9, <1>14, <1>15, PasskeysAssumption DEF Removed
  <1>19. QED
    BY <1>10, <1>11, <1>17, <1>18 DEF PasskeysInv

LEMMA OpenSessionStep ==
    ASSUME PasskeysInv, NEW f \in Finishes, OpenSession(f)
    PROVE  PasskeysInv'
  <1>1. PasskeysTypeOK /\ finishes[f] # NoFinish /\ Holds(f) /\ EndFinish(f) /\ Opens(f)
    BY DEF PasskeysInv, OpenSession, At, Holds
  <1>2. ChallengesTaken' /\ opened' \in [Challenges -> Nat]
    BY <1>1, HolderOpens DEF OpenSession
  <1>3. PasskeysTypeOK'
    BY <1>1, <1>2, FinishEnds DEF PasskeysTypeOK, OpenSession
  <1>4. CountsCarried'
    BY <1>1, FinishEnds, CounterMoves DEF OpenSession, LoggingIn, At
  <1>5. QED
    BY <1>2, <1>3, <1>4 DEF PasskeysInv

LEMMA VerifyRegistrationStep ==
    ASSUME PasskeysInv, NEW f \in Finishes, VerifyRegistration(f)
    PROVE  PasskeysInv'
  <1>1. PasskeysTypeOK /\ finishes[f] # NoFinish /\ finishes[f].stage = "verify" /\ Holds(f)
    BY DEF PasskeysInv, VerifyRegistration, At, Holds
  <1>2. CASE Stage(f, "save")
    <2>1. /\ finishes' \in [Finishes -> Finish \cup {NoFinish}]
          /\ \A g \in Finishes \ {f} : finishes'[g] = finishes[g]
          /\ finishes'[f].stage = "save" /\ finishes'[f].answer = finishes[f].answer
      BY <1>1, <1>2, StageMoves DEF FinishStage
    <2>2. PasskeysTypeOK'
      BY <1>1, <2>1 DEF PasskeysTypeOK, VerifyRegistration
    <2>3. ChallengesTaken'
      BY <1>1, <2>1, HolderMoves DEF VerifyRegistration
    <2>4. CountsCarried'
      BY <2>1, CounterMoves DEF VerifyRegistration, LoggingIn, At
    <2>5. QED
      BY <2>2, <2>3, <2>4 DEF PasskeysInv
  <1>3. CASE EndFinish(f)
    <2>1. PasskeysTypeOK'
      BY <1>1, <1>3, FinishEnds DEF PasskeysTypeOK, VerifyRegistration
    <2>2. QED
      BY <1>1, <1>3, <2>1, FinishEnds, CeremoniesStand DEF VerifyRegistration
  <1>4. QED
    BY <1>2, <1>3 DEF VerifyRegistration

LEMMA SaveRegistrationStep ==
    ASSUME PasskeysInv, NEW f \in Finishes, SaveRegistration(f)
    PROVE  /\ PasskeysInv'
           /\ \A k \in Keys : credentials'[k] # credentials[k] => credentials[k] = NotStored
  <1> DEFINE k == KeyOf(f)
  <1>1. PasskeysTypeOK /\ finishes[f] # NoFinish /\ finishes[f].stage = "save" /\ Holds(f)
    BY DEF PasskeysInv, SaveRegistration, At, Holds
  <1>2. k \in Keys /\ finishes[f].answer.count \in 0..MaxSignatures
    BY <1>1, FinishParts
  <1>3. EndFinish(f)
    BY DEF SaveRegistration
  <1>4. /\ finishes' \in [Finishes -> Finish \cup {NoFinish}]
        /\ \A g \in Finishes \ {f} : finishes'[g] = finishes[g]
        /\ finishes'[f] = NoFinish
    BY <1>1, <1>3, FinishEnds
  <1>5. CASE credentials[k] = NotStored
    <2>1. /\ credentials' = [credentials EXCEPT ![k] = finishes[f].answer.count]
          /\ Opens(f)
      BY <1>5 DEF SaveRegistration
    <2>2. ChallengesTaken' /\ opened' \in [Challenges -> Nat]
      BY <1>1, <1>3, <2>1, HolderOpens DEF SaveRegistration
    <2>3. finishes[f].answer.count \in 0..Removed
      BY <1>2, PasskeysAssumption DEF Removed
    <2>4. PasskeysTypeOK'
      BY <1>1, <1>4, <2>1, <2>2, <2>3 DEF PasskeysTypeOK, SaveRegistration
    <2>5. \A g \in Finishes : LoggingIn(g)' =>
             LoggingIn(g) /\ KeyOf(g)' = KeyOf(g) /\ finishes'[g].count = finishes[g].count
      BY <1>1, <1>4 DEF LoggingIn, At, KeyOf
    <2>6. \A g \in Finishes : LoggingIn(g) => KeyOf(g) # k /\ KeyOf(g) \in Keys
      BY <1>1, <1>5, FinishParts DEF LoggingIn, At, PasskeysInv, CountsCarried
    <2>7. \A j \in Keys : j # k => credentials'[j] = credentials[j]
      BY <1>1, <2>1 DEF PasskeysTypeOK
    <2>8. CountsCarried'
      BY <2>5, <2>6, <2>7 DEF PasskeysInv, CountsCarried, Stored, NotStored, SaveRegistration
    <2>9. QED
      BY <1>5, <2>2, <2>4, <2>7, <2>8 DEF PasskeysInv
  <1>6. CASE credentials[k] # NotStored
    <2>1. UNCHANGED <<credentials, opened>>
      BY <1>6 DEF SaveRegistration
    <2>2. PasskeysTypeOK'
      BY <1>1, <1>4, <2>1 DEF PasskeysTypeOK, SaveRegistration
    <2>3. PasskeysInv'
      BY <1>4, <2>1, <2>2, CeremoniesStand DEF SaveRegistration
    <2>4. QED
      BY <2>1, <2>3
  <1>7. QED
    BY <1>5, <1>6

-----------------------------------------------------------------------------
(* The theorems.                                                           *)

(* Where a step lowers the stored count of a key, another login with the   *)
(* key is or was in progress.                                              *)
SignCountStep ==
    \A k \in Keys : credentials'[k] < credentials[k] => credentials[k] = NotStored \/ k \in raced

LEMMA PasskeysStep ==
    PasskeysInv /\ [PasskeysNext]_passkeyVars => PasskeysInv' /\ [SignCountStep]_passkeyVars
  <1> SUFFICES ASSUME PasskeysInv, [PasskeysNext]_passkeyVars
               PROVE  PasskeysInv' /\ [SignCountStep]_passkeyVars
    OBVIOUS
  <1>0. credentials \in [Keys -> 0..Removed] /\ Removed \in Nat
    BY PasskeysAssumption DEF PasskeysInv, PasskeysTypeOK, Removed
  <1>kept. credentials' = credentials => SignCountStep
    BY <1>0 DEF SignCountStep
  <1>1. ASSUME NEW c \in Challenges,
               \/ \E kind \in {"login", "register"} : BeginCeremony(c, kind)
               \/ \E k \in Keys : Sign(c, k)
               \/ ChallengeExpires(c)
        PROVE  PasskeysInv' /\ SignCountStep
    BY <1>1, <1>kept, QuietActions DEF BeginCeremony, Sign, ChallengeExpires
  <1>2. ASSUME NEW f \in Finishes, NEW a \in answers, PostFinish(f, a)
        PROVE  PasskeysInv' /\ SignCountStep
    BY <1>2, <1>kept, QuietActions DEF PostFinish
  <1>3. ASSUME NEW f \in Finishes, LoadAndDelete(f)
        PROVE  PasskeysInv' /\ SignCountStep
    BY <1>3, <1>kept, LoadAndDeleteStep DEF LoadAndDelete
  <1>4. ASSUME NEW f \in Finishes, VerifyLogin(f)
        PROVE  PasskeysInv' /\ SignCountStep
    BY <1>4, <1>kept, VerifyLoginStep DEF VerifyLogin
  <1>5. ASSUME NEW f \in Finishes, ReadCredential(f)
        PROVE  PasskeysInv' /\ SignCountStep
    BY <1>5, <1>kept, ReadCredentialStep DEF ReadCredential
  <1>6. ASSUME NEW f \in Finishes, WriteCredential(f)
        PROVE  PasskeysInv' /\ SignCountStep
    BY <1>6, WriteCredentialStep DEF SignCountStep
  <1>7. ASSUME NEW f \in Finishes, OpenSession(f)
        PROVE  PasskeysInv' /\ SignCountStep
    BY <1>7, <1>kept, OpenSessionStep DEF OpenSession
  <1>8. ASSUME NEW f \in Finishes, VerifyRegistration(f)
        PROVE  PasskeysInv' /\ SignCountStep
    BY <1>8, <1>kept, VerifyRegistrationStep DEF VerifyRegistration
  <1>9. ASSUME NEW f \in Finishes, SaveRegistration(f)
        PROVE  PasskeysInv' /\ SignCountStep
    <2>1. PasskeysInv'
      BY <1>9, SaveRegistrationStep
    <2>2. \A k \in Keys : credentials'[k] = credentials[k] \/ credentials[k] = NotStored
      BY <1>9, SaveRegistrationStep
    <2>3. QED
      BY <1>0, <2>1, <2>2 DEF SignCountStep
  <1>10. ASSUME NEW k \in Keys, PasskeyDelete(k)
         PROVE  PasskeysInv' /\ SignCountStep
    <2>1. PasskeysInv'
      BY <1>10, QuietActions
    <2>2. SignCountStep
      BY <1>0, <1>10, PasskeysAssumption DEF SignCountStep, PasskeyDelete, Stored, Removed
    <2>3. QED
      BY <2>1, <2>2
  <1>11. ASSUME NEW v \in BOOLEAN, SetEnabled(v)
         PROVE  PasskeysInv' /\ SignCountStep
    BY <1>11, <1>kept, QuietActions DEF SetEnabled
  <1>12. CASE RestartPasskeys
    BY <1>12, <1>kept, QuietActions DEF RestartPasskeys
  <1>13. CASE UNCHANGED passkeyVars
    BY <1>13 DEF passkeyVars, PasskeysInv, PasskeysTypeOK, ChallengesTaken, CountsCarried,
                 CeremonyEndsOnce, Holds, LoggingIn, ChallengeOf, KeyOf, At, Stored
  <1>14. QED
    BY <1>1, <1>2, <1>3, <1>4, <1>5, <1>6, <1>7, <1>8, <1>9, <1>10, <1>11, <1>12, <1>13
    DEF PasskeysNext

(* Every state of the ceremonies is well-typed.                            *)
THEOREM PasskeysWellTyped == PasskeysSpec => []PasskeysTypeOK
  <1>1. PasskeysInv => PasskeysTypeOK
    BY DEF PasskeysInv
  <1>2. QED
    BY <1>1, InitPasskeys, PasskeysStep, PTL DEF PasskeysSpec

(* However the requests interleave, a challenge leads to one session or    *)
(* one credential at most, and the stored sign count of an authenticator   *)
(* falls only where two logins with it overlapped.                         *)
THEOREM CeremoniesAreHeld == PasskeysSpec => CeremoniesHold
  <1>1. PasskeysInv => CeremonyEndsOnce
    BY DEF PasskeysInv, ChallengesTaken
  <1>2. QED
    BY <1>1, InitPasskeys, PasskeysStep, PTL
    DEF PasskeysSpec, CeremoniesHold, SignCountGrows, SignCountStep

-----------------------------------------------------------------------------
(* The account and its sessions.                                           *)

(* What the cache holds of a session is gone, or marked as stored beside a *)
(* change.                                                                 *)
Doubted(s) == cache[s] = NoEntry \/ cache[s].excused

(* What a request needs at its next step it has.                           *)
Filled(r) ==
    /\ r.stage \in {"store", "upsert"} => r.profile \in Profiles
    /\ r.stage = "write" => r.change \in Change
    /\ r.stage = "write" /\ r.change = "profile" => r.profile \in Profiles
    /\ r.stage = "write" /\ r.change = "password" => r.password \in Passwords
    /\ r.stage = "write" => r.next \in IF r.change = "password" THEN {"idle", "purge"}
                                       ELSE {"idle", "insert"}
    /\ r.stage = "rehash" => r.password \in Passwords /\ r.next \in {"idle", "insert", "set"}
    /\ r.next # "idle" => r.stage \in {"rehash", "write"}
    /\ r.stage \in {"upsert", "roles"} \/ (r.stage = "write" /\ r.next = "insert")
          => r.password = Federated
    /\ r.stage \in {"rehash", "upsert", "roles"} => r.link = Absent
    /\ r.stage = "insert" => r.password \in Passwords \cup {Federated}
    /\ r.stage \in {"query", "store", "logout"} => r.session \in Sessions

(* What a request carries from one step to the next: the answer it is to   *)
(* store and the password it compared are still right, unless a change     *)
(* overtook it, and a change is under way only behind a cleared cache.     *)
Informed(r) ==
    /\ Filled(r)
    /\ r.stage = "store" /\ ~r.overtaken => r.profile = Shown(r.session)
    /\ r.stage = "rehash" /\ ~r.overtaken /\ Exists /\ ~clobbered => r.password = account.password
    /\ r.stage = "insert" /\ ~r.overtaken /\ Exists /\ ~clobbered =>
          r.password \in {Federated, account.password}
    /\ r.stage \in {"write", "sweep"} => \A s \in Sessions : Doubted(s)
    /\ r.stage = "logout" => Doubted(r.session)

(* An entry is stale for no longer than it is old, and shows the truth     *)
(* unless it is marked.                                                    *)
EntriesMarked ==
    \A s \in Sessions : cache[s] # NoEntry =>
        /\ cache[s].stale <= cache[s].age
        /\ Usable(s) /\ ~cache[s].excused => cache[s].profile = Shown(s)

(* A request that may still set a password through a link.                 *)
MaySet(r) == r.link # Absent /\ r.stage \in {"consume", "set", "write"} /\ ~r.overtaken

(* A link that is still there has set nothing that counts; one of the      *)
(* requests that found it goes on with it alone, and none once it has set  *)
(* a password.                                                             *)
LinksPass ==
    /\ \A k \in links \ {Absent} :
          /\ changes[k] = 0
          /\ \A q \in Requests :
                MaySet(requests[q]) /\ requests[q].link = k => requests[q].stage = "consume"
    /\ \A q \in Requests : MaySet(requests[q]) => changes[requests[q].link] = 0
    /\ \A p, q \in Requests :
          MaySet(requests[p]) /\ MaySet(requests[q]) /\ requests[p].link = requests[q].link
             => p = q \/ (requests[p].stage = "consume" /\ requests[q].stage = "consume")
    /\ LinksUsedOnce

AccountsInv ==
    /\ AccountsTypeOK
    /\ \A q \in Requests : Informed(requests[q])
    /\ EntriesMarked
    /\ PasswordIsLastSet
    /\ OldPasswordsSignedOut
    /\ LinksPass

-----------------------------------------------------------------------------
(* Requests.                                                               *)

(* The request is as it was, or is overtaken.                              *)
Same(r, n) ==
    /\ n.stage = r.stage /\ n.next = r.next /\ n.session = r.session /\ n.keep = r.keep /\ n.change = r.change
    /\ n.profile = r.profile /\ n.password = r.password /\ n.link = r.link
    /\ r.overtaken => n.overtaken

(* No request is stepped forward that had only found its link.             *)
Calm(r, n) ==
    \/ n.link = Absent
    \/ /\ n.link = r.link
       /\ MaySet(n) => MaySet(r) /\ (n.stage = r.stage \/ r.stage # "consume")

LEMMA StepParts ==
    ASSUME AccountsTypeOK, NEW q \in Requests, NEW r \in Request, Step(q, r)
    PROVE  /\ requests' \in [Requests -> Request]
           /\ requests'[q] = r
           /\ \A p \in Requests \ {q} : requests'[p] = requests[p]
  BY DEF AccountsTypeOK, Step

LEMMA OvertakeParts ==
    ASSUME AccountsTypeOK, NEW q \in Requests, NEW r \in Request, NEW stages, Overtake(q, r, stages)
    PROVE  /\ requests' \in [Requests -> Request]
           /\ requests'[q] = r
           /\ \A p \in Requests \ {q} : /\ Same(requests[p], requests'[p])
                                        /\ requests[p].stage \in stages => requests'[p].overtaken
  <1> DEFINE n(p) == Overtaken(requests[p], stages)
  <1>1. ASSUME NEW p \in Requests
        PROVE  /\ n(p) \in Request /\ Same(requests[p], n(p))
               /\ requests[p].stage \in stages => n(p).overtaken
    <2>1. requests[p] \in Request
      BY DEF AccountsTypeOK
    <2> DEFINE o == requests[p].overtaken \/ requests[p].stage \in stages
    <2>2. o \in BOOLEAN /\ (requests[p].overtaken => o) /\ (requests[p].stage \in stages => o)
      OBVIOUS
    <2>3. n(p) = [requests[p] EXCEPT !.overtaken = o]
      BY DEF Overtaken
    <2> HIDE DEF o, n
    <2>4. n(p) \in Request /\ n(p).overtaken = o
      BY <2>1, <2>2, <2>3 DEF Request
    <2>5. Same(requests[p], n(p))
      BY <2>1, <2>2, <2>3 DEF Request, Same
    <2>6. QED
      BY <2>2, <2>4, <2>5
  <1>2. requests' = [p \in Requests |-> IF p = q THEN r ELSE n(p)]
    BY DEF Overtake
  <1> HIDE DEF n
  <1>3. QED
    BY <1>1, <1>2

LEMMA IdleIs == Idle \in Request /\ Idle.stage = "idle" /\ Idle.link = Absent /\ Idle.next = "idle"
                /\ Idle.session = Absent /\ Idle.keep = Absent
                /\ ~Idle.overtaken
  BY DEF Idle, Request

LEMMA LinksKept ==
    ASSUME AccountsInv, links' \subseteq links, changes' = changes,
           \A p \in Requests : Calm(requests[p], requests'[p])
    PROVE  LinksPass'
  <1>1. LinksPass
    BY DEF AccountsInv
  <1>2. \A p \in Requests : MaySet(requests'[p]) =>
            /\ MaySet(requests[p]) /\ requests'[p].link = requests[p].link
            /\ requests[p].stage = "consume" => requests'[p].stage = "consume"
    BY DEF Calm, MaySet
  <1>3. \A k \in (links \ {Absent})' : changes'[k] = 0
            /\ \A p \in Requests :
                  MaySet(requests'[p]) /\ requests'[p].link = k => requests'[p].stage = "consume"
    BY <1>1, <1>2 DEF LinksPass
  <1>4. \A q \in Requests : MaySet(requests'[q]) => changes'[requests'[q].link] = 0
    BY <1>1, <1>2 DEF LinksPass
  <1>5. \A p, q \in Requests :
          MaySet(requests'[p]) /\ MaySet(requests'[q]) /\ requests'[p].link = requests'[q].link
             => p = q \/ (requests'[p].stage = "consume" /\ requests'[q].stage = "consume")
    BY <1>1, <1>2 DEF LinksPass
  <1>6. LinksUsedOnce'
    BY <1>1 DEF LinksPass, LinksUsedOnce
  <1>7. QED
    BY <1>3, <1>4, <1>5, <1>6 DEF LinksPass, MaySet

(* A step of one request that changes neither the account nor its sessions *)
(* and at most forgets entries of the cache.                               *)
LEMMA QuietRest ==
    ASSUME AccountsInv, NEW q \in Requests, NEW r \in Request,
           /\ requests' \in [Requests -> Request] /\ requests'[q] = r
           /\ \A p \in Requests \ {q} : Same(requests[p], requests'[p]),
           UNCHANGED <<account, sessions>>, NoHistory,
           links' \subseteq Links, budget' \in 0..MaxChanges,
           cache' \in [Sessions -> Entry \cup {NoEntry}],
           \A s \in Sessions : cache'[s] \in {cache[s], NoEntry},
           requests[q].stage \in {"purge", "sweep"} => r.stage \in {"purge", "sweep"},
           Informed(r)'
    PROVE  /\ AccountsTypeOK'
           /\ \A p \in Requests : Informed(requests[p])'
           /\ EntriesMarked' /\ PasswordIsLastSet' /\ OldPasswordsSignedOut'
  <1>1. AccountsTypeOK'
    BY DEF AccountsInv, AccountsTypeOK, NoHistory
  <1>2. \A s \in Sessions : Doubted(s) => Doubted(s)'
    BY DEF Doubted
  <1>3. \A s : Shown(s)' = Shown(s)
    BY DEF Shown, Exists
  <1>4. ASSUME NEW p \in Requests PROVE Informed(requests[p])'
    <2>1. CASE p = q
      BY <2>1
    <2>2. CASE p # q
      BY <2>2, <1>2, <1>3 DEF AccountsInv, Informed, Filled, Same, Exists, NoHistory
    <2>3. QED
      BY <2>1, <2>2
  <1>5. EntriesMarked'
    BY <1>3 DEF AccountsInv, EntriesMarked, Usable
  <1>6. PasswordIsLastSet'
    BY DEF AccountsInv, PasswordIsLastSet, Exists, NoHistory
  <1>7. \A p \in Requests : requests[p].stage \in {"purge", "sweep"}
                               => requests'[p].stage \in {"purge", "sweep"}
    BY DEF Same
  <1>8. OldPasswordsSignedOut'
    BY <1>7 DEF AccountsInv, OldPasswordsSignedOut, Exists, NoHistory
  <1>9. QED
    BY <1>1, <1>4, <1>5, <1>6, <1>8

LEMMA SameIsCalm == \A r, n : Same(r, n) => Calm(r, n)
  BY DEF Same, Calm, MaySet

LEMMA QuietStep ==
    ASSUME AccountsInv, NEW q \in Requests, NEW r \in Request, Step(q, r),
           UNCHANGED <<account, sessions>>, NoHistory,
           links' \subseteq links, budget' \in 0..MaxChanges,
           UNCHANGED cache \/ ClearSessionCache
             \/ \E s \in Sessions : cache' = [cache EXCEPT ![s] = NoEntry],
           requests[q].stage \in {"purge", "sweep"} => r.stage \in {"purge", "sweep"},
           Calm(requests[q], r), Informed(r)'
    PROVE  AccountsInv'
  <1>1. AccountsTypeOK
    BY DEF AccountsInv
  <1>2. /\ requests' \in [Requests -> Request] /\ requests'[q] = r
        /\ \A p \in Requests \ {q} : Same(requests[p], requests'[p])
    BY <1>1, StepParts DEF Same
  <1>3. /\ cache' \in [Sessions -> Entry \cup {NoEntry}]
        /\ \A s \in Sessions : cache'[s] \in {cache[s], NoEntry}
    BY <1>1 DEF AccountsTypeOK, ClearSessionCache
  <1>4. links' \subseteq Links
    BY <1>1 DEF AccountsTypeOK
  <1>5. /\ AccountsTypeOK'
        /\ \A p \in Requests : Informed(requests[p])'
        /\ EntriesMarked' /\ PasswordIsLastSet' /\ OldPasswordsSignedOut'
    BY <1>2, <1>3, <1>4, QuietRest
  <1>6. \A p \in Requests : Calm(requests[p], requests'[p])
    BY <1>2, SameIsCalm
  <1>7. LinksPass'
    BY <1>6, LinksKept DEF NoHistory
  <1>8. QED
    BY <1>5, <1>7 DEF AccountsInv

(* What follows a rehash or a write.                                       *)
LEMMA AfterParts ==
    ASSUME NEW r \in Request
    PROVE  /\ After(r) \in Request
           /\ r.next = "idle" => After(r) = Idle
           /\ r.next # "idle" =>
                 /\ After(r).stage = r.next /\ After(r).next = "idle"
                 /\ After(r).link = r.link /\ After(r).password = r.password
                 /\ After(r).overtaken = r.overtaken /\ After(r).session = r.session
  <1> DEFINE n == [r EXCEPT !.stage = r.next, !.next = "idle"]
  <1>1. /\ n \in Request /\ n.stage = r.next /\ n.next = "idle" /\ n.link = r.link
        /\ n.password = r.password /\ n.overtaken = r.overtaken /\ n.session = r.session
    BY DEF Request
  <1> HIDE DEF n
  <1>2. After(r) = IF r.next = "idle" THEN Idle ELSE n
    BY DEF After, n
  <1>3. QED
    BY <1>1, <1>2, IdleIs

LEMMA SpendParts ==
    ASSUME AccountsTypeOK, Spend
    PROVE  budget' \in 0..MaxChanges
  BY AccountsAssumption DEF AccountsTypeOK, Spend

(* What a request that begins costs.                                       *)
LEMMA BeginParts ==
    ASSUME AccountsTypeOK, NEW q \in Requests, NEW r \in Request, Begin(q, r)
    PROVE  /\ requests[q] = Idle /\ Step(q, r) /\ budget' \in 0..MaxChanges
           /\ requests[q].stage = "idle"
  BY SpendParts, IdleIs DEF Begin

LEMMA MissStep ==
    ASSUME AccountsInv, NEW q \in Requests, NEW s \in Sessions, Miss(q, s)
    PROVE  AccountsInv'
  <1> DEFINE r == [Idle EXCEPT !.stage = "query", !.session = s]
  <1>0. /\ r \in Request /\ r.stage = "query" /\ r.link = Absent /\ r.next = "idle"
        /\ r.session \in Sessions
    BY DEF Request, Idle
  <1> HIDE DEF r
  <1>1. Step(q, r)
    BY <1>0 DEF Miss, r
  <1>2. Calm(requests[q], r) /\ Informed(r)'
    BY <1>0, <1>1 DEF Calm, Informed, Filled
  <1>3. budget' \in 0..MaxChanges /\ requests[q].stage = "idle"
    BY IdleIs DEF Miss, AccountsInv, AccountsTypeOK
  <1>4. cache' = [cache EXCEPT ![s] = NoEntry]
        /\ UNCHANGED <<account, sessions, links>> /\ NoHistory
    BY DEF Miss
  <1>5. QED
    BY <1>0, <1>1, <1>2, <1>3, <1>4, QuietStep

LEMMA QueryStep ==
    ASSUME AccountsInv, NEW q \in Requests, Query(q)
    PROVE  AccountsInv'
  <1> DEFINE p == Shown(requests[q].session)
             m == [requests[q] EXCEPT !.stage = "store", !.profile = p]
  <1>1. /\ requests[q] \in Request /\ requests[q].stage = "query"
        /\ account \in Account \cup {NoAccount}
    BY DEF Query, AccountsInv, AccountsTypeOK
  <1>2. p \in Profiles \cup {Absent}
    BY <1>1 DEF Shown, Account, Exists
  <1>3. Step(q, IF p = Absent THEN Idle ELSE m)
        /\ UNCHANGED <<account, sessions, cache, links, budget>> /\ NoHistory
    BY DEF Query
  <1>4. \A s : Shown(s)' = Shown(s)
    BY <1>3 DEF Shown, Exists
  <1> HIDE DEF p
  <1>5. /\ m \in Request /\ m.stage = "store" /\ m.link = requests[q].link
        /\ m.session = requests[q].session /\ m.profile = p /\ m.next = requests[q].next
    BY <1>1, <1>2 DEF Request
  <1> HIDE DEF m
  <1>6. PICK r \in Request : /\ Step(q, r)
                             /\ \/ r = Idle
                                \/ /\ r.stage = "store" /\ r.link = requests[q].link
                                   /\ r.profile \in Profiles /\ r.next = "idle"
                                   /\ r.session = requests[q].session
                                   /\ r.profile = Shown(r.session)
    <2>1. requests[q].next = "idle"
      BY <1>1 DEF AccountsInv, Informed, Filled
    <2>2. QED
      BY <1>2, <1>3, <1>5, <2>1, IdleIs DEF p
  <1>7. Calm(requests[q], r) /\ r.stage \in {"idle", "store"}
    BY <1>1, <1>6, IdleIs DEF Calm, MaySet
  <1>8. Informed(r)'
    <2>1. requests[q].session \in Sessions
      BY <1>1 DEF AccountsInv, Informed, Filled
    <2>2. QED
      BY <1>4, <1>6, <1>7, <2>1, IdleIs DEF Informed, Filled
  <1>9. budget' \in 0..MaxChanges
    BY <1>3 DEF AccountsInv, AccountsTypeOK
  <1>10. QED
    BY <1>1, <1>3, <1>6, <1>7, <1>8, <1>9, QuietStep

LEMMA BeginChangeStep ==
    ASSUME AccountsInv, NEW q \in Requests,
           NEW c \in Change, NEW f \in Profiles \cup {Absent},
           c = "profile" => f \in Profiles, c # "password",
           BeginChange(q, c, f)
    PROVE  AccountsInv'
  <1> DEFINE r == [Idle EXCEPT !.stage = "write", !.change = c, !.profile = f]
  <1>0. /\ r \in Request /\ r.stage = "write" /\ r.link = Absent /\ r.change = c /\ r.profile = f
        /\ r.next = "idle"
    BY DEF Request, Idle
  <1> HIDE DEF r
  <1>1. Begin(q, r)
    BY <1>0 DEF BeginChange, r
  <1>2. /\ Step(q, r) /\ budget' \in 0..MaxChanges /\ requests[q].stage = "idle"
        /\ Calm(requests[q], r)
    BY <1>0, <1>1, BeginParts DEF AccountsInv, Calm
  <1>3. ClearSessionCache /\ UNCHANGED <<account, sessions, links>> /\ NoHistory
    BY DEF BeginChange
  <1>4. Informed(r)'
    BY <1>0, <1>1, <1>3 DEF Informed, Filled, Change, Doubted, ClearSessionCache
  <1>5. QED
    BY <1>0, <1>1, <1>2, <1>3, <1>4, QuietStep

LEMMA SAMLLoginStep ==
    ASSUME AccountsInv, NEW q \in Requests, NEW f \in Profiles, SAMLLogin(q, f)
    PROVE  AccountsInv'
  <1> DEFINE r == [Idle EXCEPT !.stage = "upsert", !.profile = f, !.password = Federated]
  <1>0. /\ r \in Request /\ r.stage = "upsert" /\ r.link = Absent /\ r.next = "idle"
        /\ r.profile = f /\ r.password = Federated
    BY DEF Request, Idle
  <1> HIDE DEF r
  <1>1. Begin(q, r)
    BY <1>0 DEF SAMLLogin, r
  <1>2. /\ Step(q, r) /\ budget' \in 0..MaxChanges /\ requests[q].stage = "idle"
        /\ Calm(requests[q], r) /\ Informed(r)'
    BY <1>0, <1>1, BeginParts DEF AccountsInv, Calm, Informed, Filled
  <1>3. UNCHANGED <<account, sessions, cache, links>> /\ NoHistory
    BY DEF SAMLLogin
  <1>4. QED
    BY <1>0, <1>1, <1>2, <1>3, QuietStep

LEMMA SyncRolesStep ==
    ASSUME AccountsInv, NEW q \in Requests, NEW f \in Profiles, SyncRoles(q, f)
    PROVE  AccountsInv'
  <1> DEFINE m == [requests[q] EXCEPT !.stage = "write", !.change = "profile", !.profile = f,
                                      !.next = "insert"]
  <1>1. /\ requests[q] \in Request /\ requests[q].stage = "roles" /\ Filled(requests[q])
        /\ budget' \in 0..MaxChanges
    BY DEF SyncRoles, AccountsInv, AccountsTypeOK, Informed
  <1>2. /\ m \in Request /\ m.stage = "write" /\ m.link = Absent /\ m.next = "insert"
        /\ m.change = "profile" /\ m.profile = f /\ m.password = Federated
    BY <1>1 DEF Request, Change, Filled
  <1> HIDE DEF m
  <1>3. PICK r \in Request : r = m /\ Step(q, r)
    BY <1>2 DEF SyncRoles, m
  <1>4. ClearSessionCache /\ UNCHANGED <<account, sessions, links>> /\ NoHistory
    BY DEF SyncRoles
  <1>5. Informed(r)' /\ Calm(requests[q], r)
    BY <1>2, <1>3, <1>4 DEF Informed, Filled, Change, Doubted, ClearSessionCache, Calm
  <1>6. QED
    BY <1>1, <1>3, <1>4, <1>5, QuietStep

LEMMA SetPasswordStep ==
    ASSUME AccountsInv, NEW q \in Requests, NEW s \in Sessions \cup {Absent}, SetPassword(q, s)
    PROVE  AccountsInv'
  <1> DEFINE r == [Idle EXCEPT !.stage = "set", !.keep = s]
  <1>0. r \in Request /\ r.stage = "set" /\ r.link = Absent /\ r.next = "idle"
    BY DEF Request, Idle
  <1> HIDE DEF r
  <1>1. Begin(q, r)
    BY <1>0 DEF SetPassword, r
  <1>2. /\ Step(q, r) /\ budget' \in 0..MaxChanges /\ requests[q].stage = "idle"
        /\ Calm(requests[q], r) /\ Informed(r)'
    BY <1>0, <1>1, BeginParts DEF AccountsInv, Calm, Informed, Filled
  <1>3. UNCHANGED <<account, sessions, cache, links>> /\ NoHistory
    BY DEF SetPassword
  <1>4. QED
    BY <1>0, <1>1, <1>2, <1>3, QuietStep

LEMMA ChangePasswordStep ==
    ASSUME AccountsInv, NEW q \in Requests, NEW s \in Sessions \cup {Absent, TokenOnly},
           NEW p \in Passwords, ChangePassword(q, s, p)
    PROVE  AccountsInv'
  <1> DEFINE old == [Idle EXCEPT !.stage = "rehash", !.next = "set", !.password = p, !.keep = s]
             new == [Idle EXCEPT !.stage = "set", !.keep = s]
  <1>0. /\ old \in Request /\ old.stage = "rehash" /\ old.link = Absent /\ old.next = "set"
        /\ old.password = p
        /\ new \in Request /\ new.stage = "set" /\ new.link = Absent /\ new.next = "idle"
    BY DEF Request, Idle
  <1> HIDE DEF old, new
  <1>1. PICK r \in Request : r \in {old, new} /\ Begin(q, r)
    <2>1. Begin(q, IF account.legacy THEN old ELSE new)
      BY DEF ChangePassword, old, new
    <2>2. QED
      BY <1>0, <2>1
  <1>2. /\ Step(q, r) /\ budget' \in 0..MaxChanges /\ requests[q].stage = "idle"
        /\ Calm(requests[q], r)
    BY <1>0, <1>1, BeginParts DEF AccountsInv, Calm
  <1>3. account.password = p /\ UNCHANGED <<account, sessions, cache, links>> /\ NoHistory
    BY DEF ChangePassword
  <1>4. Informed(r)'
    BY <1>0, <1>1, <1>3 DEF Informed, Filled
  <1>5. QED
    BY <1>0, <1>1, <1>2, <1>3, <1>4, QuietStep

LEMMA LocalLoginStep ==
    ASSUME AccountsInv, NEW q \in Requests, NEW p \in Passwords, LocalLogin(q, p)
    PROVE  AccountsInv'
  <1> DEFINE next == IF account.disabled THEN "idle" ELSE "insert"
             old == [Idle EXCEPT !.stage = "rehash", !.password = p, !.next = next]
             new == [Idle EXCEPT !.stage = "insert", !.password = p]
  <1>0. /\ old \in Request /\ old.stage = "rehash" /\ old.link = Absent /\ old.password = p
        /\ old.next \in {"idle", "insert"}
        /\ new \in Request /\ new.stage = "insert" /\ new.link = Absent /\ new.next = "idle"
        /\ new.password = p
    BY DEF Request, Idle
  <1> HIDE DEF old, new
  <1>1. PICK r \in Request : r \in {old, new} /\ Begin(q, r)
    <2>1. Begin(q, IF account.legacy THEN old ELSE new)
      BY DEF LocalLogin, old, new
    <2>2. QED
      BY <1>0, <2>1
  <1>2. /\ Step(q, r) /\ budget' \in 0..MaxChanges /\ requests[q].stage = "idle"
        /\ Calm(requests[q], r)
    BY <1>0, <1>1, BeginParts DEF AccountsInv, Calm
  <1>3. account.password = p /\ UNCHANGED <<account, sessions, cache, links>> /\ NoHistory
    BY DEF LocalLogin
  <1>4. Informed(r)'
    BY <1>0, <1>1, <1>3 DEF Informed, Filled
  <1>5. QED
    BY <1>0, <1>1, <1>2, <1>3, <1>4, QuietStep

LEMMA PurgeStep ==
    ASSUME AccountsInv, NEW q \in Requests, Purge(q)
    PROVE  AccountsInv'
  <1>1. requests[q] \in Request /\ requests[q].stage = "purge" /\ budget' \in 0..MaxChanges
    BY DEF Purge, AccountsInv, AccountsTypeOK
  <1>2. PICK r \in Request : /\ Step(q, r) /\ r.stage = "sweep" /\ r.link = requests[q].link
                             /\ r.next = "idle"
    <2>1. requests[q].next = "idle"
      BY <1>1 DEF AccountsInv, Informed, Filled
    <2>2. QED
      BY <1>1, <2>1 DEF Purge, Request
  <1>3. ClearSessionCache /\ UNCHANGED <<account, sessions, links>> /\ NoHistory
    BY DEF Purge
  <1>4. Informed(r)' /\ Calm(requests[q], r)
    BY <1>1, <1>2, <1>3 DEF Informed, Filled, Doubted, ClearSessionCache, Calm, MaySet
  <1>5. QED
    BY <1>1, <1>2, <1>3, <1>4, QuietStep

LEMMA LogoutStep ==
    ASSUME AccountsInv, NEW q \in Requests, NEW s \in Sessions, Logout(q, s)
    PROVE  AccountsInv'
  <1> DEFINE r == [Idle EXCEPT !.stage = "logout", !.session = s]
  <1>0. r \in Request /\ r.stage = "logout" /\ r.link = Absent /\ r.session = s /\ r.next = "idle"
    BY DEF Request, Idle
  <1> HIDE DEF r
  <1>1. Step(q, r)
    BY <1>0 DEF Logout, r
  <1>2. requests[q].stage = "idle" /\ budget' \in 0..MaxChanges
    BY IdleIs DEF Logout, AccountsInv, AccountsTypeOK
  <1>3. cache' = [cache EXCEPT ![s] = NoEntry]
        /\ UNCHANGED <<account, sessions, links>> /\ NoHistory
    BY DEF Logout
  <1>4. cache'[s] = NoEntry
    BY <1>3 DEF AccountsInv, AccountsTypeOK
  <1>5. Informed(r)' /\ Calm(requests[q], r)
    BY <1>0, <1>1, <1>4 DEF Informed, Filled, Doubted, Calm
  <1>6. QED
    BY <1>0, <1>1, <1>2, <1>3, <1>5, QuietStep

LEMMA ForgotPasswordStep ==
    ASSUME AccountsInv, NEW q \in Requests, ForgotPassword(q)
    PROVE  AccountsInv'
  <1> DEFINE r == [Idle EXCEPT !.stage = "issue"]
  <1>0. r \in Request /\ r.stage = "issue" /\ r.link = Absent /\ r.next = "idle"
    BY DEF Request, Idle
  <1> HIDE DEF r
  <1>1. Begin(q, r)
    BY <1>0 DEF ForgotPassword, r
  <1>2. /\ Step(q, r) /\ budget' \in 0..MaxChanges /\ requests[q].stage = "idle"
        /\ Calm(requests[q], r) /\ Informed(r)'
    BY <1>0, <1>1, BeginParts DEF AccountsInv, Calm, Informed, Filled
  <1>3. links' \subseteq links /\ UNCHANGED <<account, sessions, cache>> /\ NoHistory
    BY DEF ForgotPassword, AccountsInv, AccountsTypeOK
  <1>4. QED
    BY <1>0, <1>1, <1>2, <1>3, QuietStep

LEMMA SetUserPasswordStep ==
    ASSUME AccountsInv, NEW q \in Requests, NEW p \in Passwords, SetUserPassword(q, p)
    PROVE  AccountsInv'
  <1>1. /\ requests[q] \in Request /\ requests[q].stage = "set" /\ Filled(requests[q])
        /\ budget' \in 0..MaxChanges
    BY DEF SetUserPassword, AccountsInv, AccountsTypeOK, Informed
  <1>2. UNCHANGED <<account, sessions, links>> /\ NoHistory
    BY DEF SetUserPassword
  <1>3. CASE Exists \/ requests[q].link = Absent
    <2> DEFINE next == IF requests[q].keep = TokenOnly THEN "idle" ELSE "purge"
               m == [requests[q] EXCEPT !.stage = "write", !.change = "password",
                                        !.password = p, !.next = next]
    <2>0. /\ m \in Request /\ m.stage = "write" /\ m.link = requests[q].link
          /\ m.overtaken = requests[q].overtaken /\ m.next \in {"idle", "purge"}
          /\ m.change = "password" /\ m.password = p
      BY <1>1 DEF Request, Change
    <2>1. Step(q, m) /\ ClearSessionCache
      BY <1>3 DEF SetUserPassword
    <2> HIDE DEF m
    <2>2. PICK r \in Request : r = m /\ Step(q, r)
      BY <2>0, <2>1
    <2>3. Informed(r)' /\ Calm(requests[q], r)
      BY <1>1, <2>0, <2>1, <2>2 DEF Informed, Filled, Change, Doubted, ClearSessionCache, Calm, MaySet
    <2>4. QED
      BY <1>1, <1>2, <2>1, <2>2, <2>3, QuietStep
  <1>4. CASE ~(Exists \/ requests[q].link = Absent)
    <2>1. PICK r \in Request : Step(q, r) /\ r = Idle /\ UNCHANGED cache
      BY <1>4, IdleIs DEF SetUserPassword
    <2>2. Informed(r)' /\ Calm(requests[q], r)
      BY <2>1, IdleIs DEF Informed, Filled, Calm
    <2>3. QED
      BY <1>1, <1>2, <2>1, <2>2, QuietStep
  <1>5. QED
    BY <1>3, <1>4

LEMMA StatementFailsStep ==
    ASSUME AccountsInv, NEW q \in Requests, StatementFails(q)
    PROVE  AccountsInv'
  <1> DEFINE r == requests[q]
             n == IF r.stage = "rehash" \/ r.next = "insert" THEN After(r) ELSE Idle
  <1>1. /\ r \in Request /\ Informed(r) /\ Filled(r) /\ r.stage \notin {"purge", "sweep"}
        /\ r.stage # "consume"
        /\ Step(q, n) /\ Spend /\ UNCHANGED <<account, sessions, cache, links>> /\ NoHistory
    BY DEF StatementFails, AccountsInv, AccountsTypeOK, Informed
  <1>2. /\ n \in Request
        /\ \/ n = Idle
           \/ /\ n.stage = "insert" /\ r.stage = "write" /\ n.password = Federated
           \/ /\ n.stage \in {"insert", "set"} /\ r.stage = "rehash" /\ n.password = r.password
              /\ n.overtaken = r.overtaken /\ n.link = Absent
        /\ n.next = "idle" /\ n.link \in {r.link, Absent}
    BY <1>1, AfterParts, IdleIs DEF Filled
  <1> HIDE DEF n
  <1>3. budget' \in 0..MaxChanges
    BY <1>1, SpendParts DEF AccountsInv
  <1>4. PICK m \in Request : m = n
    BY <1>2
  <1>5. Informed(m)' /\ Calm(r, m)
    BY <1>1, <1>2, <1>4, IdleIs DEF Informed, Filled, Calm, MaySet, Exists, NoHistory
  <1>6. QED
    BY <1>1, <1>3, <1>4, <1>5, QuietStep

LEMMA ConsumeFailsStep ==
    ASSUME AccountsInv, NEW q \in Requests, ConsumeFails(q)
    PROVE  AccountsInv'
  <1> DEFINE n == [requests[q] EXCEPT !.stage = "set", !.overtaken = TRUE]
  <1>1. /\ requests[q] \in Request /\ requests[q].stage = "consume" /\ Filled(requests[q])
        /\ Step(q, n) /\ Spend /\ UNCHANGED <<account, sessions, cache, links>> /\ NoHistory
    BY DEF ConsumeFails, AccountsInv, AccountsTypeOK, Informed
  <1>2. n \in Request /\ n.stage = "set" /\ n.overtaken /\ n.next = "idle" /\ n.link = requests[q].link
    BY <1>1 DEF Request, Filled
  <1> HIDE DEF n
  <1>3. budget' \in 0..MaxChanges
    BY <1>1, SpendParts DEF AccountsInv
  <1>4. PICK m \in Request : m = n
    BY <1>2
  <1>5. Informed(m)' /\ Calm(requests[q], m)
    BY <1>2, <1>4 DEF Informed, Filled, Calm, MaySet
  <1>6. QED
    BY <1>1, <1>3, <1>4, <1>5, QuietStep

LEMMA LinkExpiresStep ==
    ASSUME AccountsInv, NEW k \in Links, LinkExpires(k)
    PROVE  AccountsInv'
  <1>1. /\ links' \subseteq links /\ budget' \in 0..MaxChanges
        /\ UNCHANGED <<account, sessions, cache, requests>> /\ NoHistory
    BY SpendParts DEF LinkExpires, AccountsInv
  <1>2. LinksPass'
    BY <1>1, LinksKept DEF Calm, NoHistory
  <1>3. AccountsTypeOK'
    BY <1>1 DEF AccountsInv, AccountsTypeOK, NoHistory
  <1>4. QED
    BY <1>1, <1>2, <1>3
    DEF AccountsInv, Informed, Doubted, EntriesMarked, Usable, Shown, Exists,
        PasswordIsLastSet, OldPasswordsSignedOut, NoHistory

LEMMA StoreStep ==
    ASSUME AccountsInv, NEW q \in Requests, Store(q)
    PROVE  AccountsInv'
  <1> DEFINE r == requests[q]
             l == r.overtaken \/ \E p \in Requests : Writing(p)
             e == [profile |-> r.profile, age |-> 0, stale |-> 0, excused |-> l]
  <1>1. /\ AccountsTypeOK /\ r \in Request /\ r.stage = "store" /\ Informed(r)
        /\ Step(q, Idle) /\ UNCHANGED <<account, sessions, links, budget>> /\ NoHistory
    BY DEF Store, AccountsInv, AccountsTypeOK
  <1>2. /\ requests' \in [Requests -> Request] /\ requests'[q] = Idle
        /\ \A p \in Requests \ {q} : requests'[p] = requests[p]
    BY <1>1, IdleIs, StepParts
  <1>3. cache' = [cache EXCEPT ![r.session] = e]
    BY DEF Store
  <1>4. l \in BOOLEAN /\ (r.overtaken => l) /\ ((\E p \in Requests : Writing(p)) => l)
    OBVIOUS
  <1> HIDE DEF l
  <1>5. r.profile \in Profiles
    BY <1>1 DEF Informed, Filled
  <1>6. e \in Entry /\ e.age = 0 /\ e.stale = 0 /\ e.excused = l /\ e.profile = r.profile
    BY <1>4, <1>5, AccountsAssumption DEF Entry
  <1> HIDE DEF e
  <1>7. cache' \in [Sessions -> Entry \cup {NoEntry}]
    BY <1>1, <1>3, <1>6 DEF AccountsTypeOK
  <1>8. \A s \in Sessions : cache'[s] = cache[s] \/ (s = r.session /\ cache'[s] = e)
    BY <1>1, <1>3 DEF AccountsTypeOK
  <1>9. AccountsTypeOK'
    BY <1>1, <1>2, <1>7 DEF AccountsTypeOK, NoHistory
  <1>10. \A p \in Requests : Writing(p) => e.excused /\ p # q
    BY <1>1, <1>4, <1>6 DEF Writing
  <1>11. \A s : Shown(s)' = Shown(s)
    BY <1>1 DEF Shown, Exists
  <1>12. ASSUME NEW p \in Requests PROVE Informed(requests[p])'
    <2>1. CASE p = q
      BY <1>2, <2>1, IdleIs DEF Informed, Filled
    <2>2. CASE p # q
      <3>1. requests'[p] = requests[p] /\ Informed(requests[p])
        BY <1>2, <2>2 DEF AccountsInv
      <3>2. Writing(p) => \A s \in Sessions : Doubted(s) => Doubted(s)'
        BY <1>8, <1>10 DEF Doubted
      <3>3. QED
        BY <1>1, <1>11, <3>1, <3>2 DEF Informed, Filled, Writing, Exists, NoHistory
    <2>3. QED
      BY <2>1, <2>2
  <1>13. EntriesMarked'
    <2>1. ~l => r.profile = Shown(r.session)
      BY <1>1, <1>4 DEF Informed
    <2>2. QED
      BY <1>6, <1>8, <1>11, <2>1 DEF AccountsInv, EntriesMarked, Usable
  <1>14. \A p \in Requests : requests[p].stage \in {"purge", "sweep"}
                                => requests'[p].stage \in {"purge", "sweep"}
    BY <1>1, <1>2
  <1>15. PasswordIsLastSet' /\ OldPasswordsSignedOut'
    BY <1>1, <1>14 DEF AccountsInv, PasswordIsLastSet, OldPasswordsSignedOut, Exists, NoHistory
  <1>16. LinksPass'
    BY <1>1, <1>2, IdleIs, LinksKept DEF Calm, NoHistory
  <1>17. QED
    BY <1>9, <1>12, <1>13, <1>15, <1>16 DEF AccountsInv

(* Steps that add or take a link.                                          *)

LEMMA IssueLinkStep ==
    ASSUME AccountsInv, NEW q \in Requests, NEW k \in Links, IssueLink(q, k)
    PROVE  AccountsInv'
  <1>1. /\ AccountsTypeOK /\ requests[q].stage = "issue" /\ Step(q, Idle)
        /\ UNCHANGED <<account, sessions, cache, budget>> /\ NoHistory
        /\ links' \subseteq links \cup {k} /\ changes[k] = 0
        /\ \A p \in Requests : requests[p].link # k
    BY DEF IssueLink, AccountsInv
  <1>2. /\ requests' \in [Requests -> Request] /\ requests'[q] = Idle
        /\ \A p \in Requests \ {q} : requests'[p] = requests[p]
    BY <1>1, IdleIs, StepParts
  <1>3. /\ AccountsTypeOK'
        /\ \A p \in Requests : Informed(requests[p])'
        /\ EntriesMarked' /\ PasswordIsLastSet' /\ OldPasswordsSignedOut'
    <2>1. \A p \in Requests \ {q} : Same(requests[p], requests'[p])
      BY <1>2 DEF Same
    <2>2. links' \subseteq Links /\ cache' \in [Sessions -> Entry \cup {NoEntry}]
          /\ budget' \in 0..MaxChanges
      BY <1>1 DEF AccountsTypeOK
    <2>3. PICK r \in Request : r = Idle
      BY IdleIs
    <2>4. Informed(r)'
      BY <2>3, IdleIs DEF Informed, Filled
    <2>5. QED
      BY <1>1, <1>2, <2>1, <2>2, <2>3, <2>4, QuietRest
  <1>4. LinksPass'
    <2>1. \A p \in Requests : /\ MaySet(requests'[p]) => p # q
                              /\ requests'[p].link # k \/ requests'[p].link = Absent
      BY <1>1, <1>2, IdleIs DEF MaySet
    <2>2. QED
      BY <1>1, <1>2, <2>1, IdleIs DEF AccountsInv, LinksPass, LinksUsedOnce, MaySet, NoHistory
  <1>5. QED
    BY <1>3, <1>4 DEF AccountsInv

LEMMA ResetPasswordStep ==
    ASSUME AccountsInv, NEW q \in Requests, NEW k \in Links, ResetPassword(q, k)
    PROVE  AccountsInv'
  <1> DEFINE r == [Idle EXCEPT !.stage = "consume", !.link = k]
  <1>0. r \in Request /\ r.stage = "consume" /\ r.link = k /\ r.next = "idle"
    BY DEF Request, Idle
  <1> HIDE DEF r
  <1>1. /\ AccountsTypeOK /\ requests[q].stage = "idle" /\ Step(q, r) /\ k \in links
        /\ UNCHANGED <<account, sessions, cache, links, budget>> /\ NoHistory
    BY IdleIs DEF ResetPassword, AccountsInv, r
  <1>2. /\ requests' \in [Requests -> Request] /\ requests'[q] = r
        /\ \A o \in Requests \ {q} : requests'[o] = requests[o]
    BY <1>0, <1>1, StepParts
  <1>3. /\ AccountsTypeOK'
        /\ \A o \in Requests : Informed(requests[o])'
        /\ EntriesMarked' /\ PasswordIsLastSet' /\ OldPasswordsSignedOut'
    <2>1. \A o \in Requests \ {q} : Same(requests[o], requests'[o])
      BY <1>2 DEF Same
    <2>2. links' \subseteq Links /\ cache' \in [Sessions -> Entry \cup {NoEntry}]
          /\ budget' \in 0..MaxChanges
      BY <1>1 DEF AccountsTypeOK
    <2>3. Informed(r)'
      BY <1>0 DEF Informed, Filled
    <2>4. QED
      BY <1>0, <1>1, <1>2, <2>1, <2>2, <2>3, QuietRest
  <1>4. LinksPass'
    <2>1. \A o \in Requests \ {q} : MaySet(requests'[o]) /\ requests'[o].link = k /\ k # Absent
                                       => requests'[o].stage = "consume"
      BY <1>1, <1>2 DEF AccountsInv, LinksPass
    <2>2. k # Absent => changes[k] = 0
      BY <1>1 DEF AccountsInv, LinksPass
    <2>3. QED
      BY <1>0, <1>1, <1>2, <2>1, <2>2 DEF AccountsInv, LinksPass, LinksUsedOnce, MaySet, NoHistory
  <1>5. QED
    BY <1>3, <1>4 DEF AccountsInv

LEMMA ConsumeLinkStep ==
    ASSUME AccountsInv, NEW q \in Requests, ConsumeLink(q)
    PROVE  AccountsInv'
  <1> DEFINE m == [requests[q] EXCEPT !.stage = "set"]
             k == requests[q].link
  <1>1. /\ AccountsTypeOK /\ requests[q] \in Request /\ requests[q].stage = "consume"
        /\ Informed(requests[q]) /\ Overtake(q, m, {"consume"}) /\ links' = links \ {k}
        /\ UNCHANGED <<account, sessions, cache, budget>> /\ NoHistory
    BY DEF ConsumeLink, AccountsInv, AccountsTypeOK
  <1>2. /\ m \in Request /\ m.stage = "set" /\ m.link = k /\ m.next = "idle"
        /\ m.overtaken = requests[q].overtaken
    BY <1>1 DEF Request, Informed, Filled
  <1> HIDE DEF m
  <1>3. PICK r \in Request : r = m
    BY <1>2
  <1>4. /\ requests' \in [Requests -> Request] /\ requests'[q] = r
        /\ \A p \in Requests \ {q} : /\ Same(requests[p], requests'[p])
                                     /\ requests[p].stage = "consume" => requests'[p].overtaken
    BY <1>1, <1>3, OvertakeParts
  <1>5. /\ AccountsTypeOK'
        /\ \A p \in Requests : Informed(requests[p])'
        /\ EntriesMarked' /\ PasswordIsLastSet' /\ OldPasswordsSignedOut'
    <2>1. links' \subseteq Links /\ cache' \in [Sessions -> Entry \cup {NoEntry}]
          /\ budget' \in 0..MaxChanges
      BY <1>1 DEF AccountsTypeOK
    <2>2. Informed(r)'
      BY <1>1, <1>2, <1>3 DEF Informed, Filled
    <2>3. QED
      BY <1>1, <1>4, <2>1, <2>2, QuietRest
  <1>6. LinksPass'
    <2>1. LinksPass /\ changes' = changes
      BY <1>1 DEF AccountsInv, NoHistory
    <2>2. \A p \in Requests : MaySet(requests'[p]) =>
              MaySet(requests[p]) /\ requests'[p].link = requests[p].link
      BY <1>1, <1>2, <1>3, <1>4 DEF MaySet, Same
    <2>3. \A p \in Requests : MaySet(requests'[p]) /\ requests[p].link = k /\ MaySet(requests[q])
                                 => p = q
      BY <1>1, <1>4, <2>1, <2>2 DEF LinksPass, MaySet
    <2>4. \A p \in Requests \ {q} : requests'[p].stage = requests[p].stage
                                    /\ requests'[p].link = requests[p].link
      BY <1>4 DEF Same
    <2>5. \A j \in (links \ {Absent})' : changes'[j] = 0
              /\ \A p \in Requests :
                    MaySet(requests'[p]) /\ requests'[p].link = j => requests'[p].stage = "consume"
      BY <1>1, <1>2, <1>3, <1>4, <2>1, <2>2, <2>4 DEF LinksPass
    <2>6. \A p \in Requests : MaySet(requests'[p]) => changes'[requests'[p].link] = 0
      BY <2>1, <2>2 DEF LinksPass
    <2>7. \A o, p \in Requests :
            MaySet(requests'[o]) /\ MaySet(requests'[p]) /\ requests'[o].link = requests'[p].link
               => o = p \/ (requests'[o].stage = "consume" /\ requests'[p].stage = "consume")
      <3>1. ASSUME NEW o \in Requests, NEW p \in Requests, MaySet(requests'[o]),
                   MaySet(requests'[p]), requests'[o].link = requests'[p].link, o # p
            PROVE  requests'[o].stage = "consume" /\ requests'[p].stage = "consume"
        <4>1. o # q /\ p # q
          BY <2>2, <2>3, <3>1
        <4>2. QED
          BY <2>1, <2>2, <2>4, <3>1, <4>1 DEF LinksPass
      <3>2. QED
        BY <3>1
    <2>8. LinksUsedOnce'
      BY <2>1 DEF LinksPass, LinksUsedOnce
    <2>9. QED
      BY <2>5, <2>6, <2>7, <2>8 DEF LinksPass, MaySet
  <1>7. QED
    BY <1>5, <1>6 DEF AccountsInv

LEMMA ClockTickStep ==
    ASSUME AccountsInv, ClockTick
    PROVE  AccountsInv'
  <1> DEFINE old(s) == IF cache[s].profile = Shown(s) THEN 0
                       ELSE IF cache[s].stale < CacheAge THEN cache[s].stale + 1 ELSE cache[s].stale
             e(s) == [cache[s] EXCEPT !.age = @ + 1, !.stale = old(s)]
  <1>1. /\ AccountsTypeOK /\ UNCHANGED <<account, sessions, links, requests, budget>> /\ NoHistory
        /\ cache \in [Sessions -> Entry \cup {NoEntry}]
    BY DEF ClockTick, AccountsInv, AccountsTypeOK
  <1>2. ASSUME NEW s \in Sessions, Usable(s)
        PROVE  /\ e(s) \in Entry /\ e(s).excused = cache[s].excused /\ e(s).profile = cache[s].profile
               /\ e(s).stale <= e(s).age
    <2>1. cache[s] \in Entry /\ cache[s].age < CacheAge /\ cache[s].stale <= cache[s].age
      BY <1>1, <1>2 DEF Usable, AccountsInv, EntriesMarked
    <2>2. /\ cache[s].age \in 0..CacheAge /\ cache[s].stale \in 0..CacheAge
          /\ cache[s].profile \in Profiles /\ cache[s].excused \in BOOLEAN
      BY <2>1 DEF Entry
    <2>3. cache[s].age + 1 \in 0..CacheAge /\ old(s) \in 0..CacheAge /\ old(s) <= cache[s].age + 1
      BY <2>1, <2>2, AccountsAssumption
    <2> HIDE DEF old
    <2>4. QED
      BY <2>1, <2>2, <2>3 DEF Entry
  <1>3. cache' = [s \in Sessions |-> IF ~Usable(s) THEN cache[s] ELSE e(s)]
    BY DEF ClockTick
  <1> HIDE DEF e
  <1>4. AccountsTypeOK'
    BY <1>1, <1>2, <1>3 DEF AccountsTypeOK, NoHistory
  <1>5. \A s \in Sessions : cache'[s] = IF ~Usable(s) THEN cache[s] ELSE e(s)
    BY <1>3
  <1>6. ASSUME NEW s \in Sessions, Doubted(s) PROVE Doubted(s)'
    BY <1>2, <1>5, <1>6 DEF Doubted, Usable
  <1>7. \A s : Shown(s)' = Shown(s)
    BY <1>1 DEF Shown, Exists
  <1>8. ASSUME NEW q \in Requests PROVE Informed(requests[q])'
    BY <1>1, <1>6, <1>7 DEF AccountsInv, Informed, Filled, Exists, NoHistory
  <1>9. EntriesMarked'
    <2>1. ASSUME NEW s \in Sessions, ~Usable(s), cache[s] # NoEntry PROVE ~Usable(s)'
      BY <1>5, <2>1 DEF Usable
    <2>2. ASSUME NEW s \in Sessions, cache'[s] # NoEntry
          PROVE  /\ cache'[s].stale <= cache'[s].age
                 /\ Usable(s)' /\ ~cache'[s].excused => cache'[s].profile = Shown(s)
      <3>1. CASE Usable(s)
        BY <1>2, <1>5, <3>1 DEF AccountsInv, EntriesMarked, Usable
      <3>2. CASE ~Usable(s)
        BY <1>5, <2>1, <2>2, <3>2 DEF AccountsInv, EntriesMarked
      <3>3. QED
        BY <3>1, <3>2
    <2>3. QED
      BY <1>7, <2>2 DEF EntriesMarked
  <1>10. PasswordIsLastSet' /\ OldPasswordsSignedOut'
    BY <1>1 DEF AccountsInv, PasswordIsLastSet, OldPasswordsSignedOut, Exists, NoHistory
  <1>11. LinksPass'
    BY <1>1, LinksKept DEF Calm, NoHistory
  <1>12. QED
    BY <1>4, <1>8, <1>9, <1>10, <1>11 DEF AccountsInv

-----------------------------------------------------------------------------
(* Steps that change the account or its sessions.                          *)

LEMMA RowsExist == \A a \in Account : a # NoAccount
  BY DEF Account, NoAccount

LEMMA WrittenParts ==
    ASSUME AccountsTypeOK, NEW r \in Request, r.stage = "write", Filled(r), Exists
    PROVE  /\ Written(r) \in Account \cup {NoAccount}
           /\ r.change # "password" /\ Written(r) # NoAccount => Written(r).password = account.password
           /\ r.change = "password" => Written(r).password = r.password
  <1>1. account \in Account
    BY DEF AccountsTypeOK, Exists
  <1>2. [account EXCEPT !.disabled = FALSE] \in Account
        /\ [account EXCEPT !.disabled = FALSE].password = account.password
    BY <1>1 DEF Account
  <1>3. [account EXCEPT !.disabled = TRUE] \in Account
        /\ [account EXCEPT !.disabled = TRUE].password = account.password
    BY <1>1 DEF Account
  <1>4. r.change = "profile" => /\ [account EXCEPT !.profile = r.profile] \in Account
                                /\ [account EXCEPT !.profile = r.profile].password = account.password
    BY <1>1 DEF Account, Filled
  <1>5. r.change = "password" =>
            /\ [account EXCEPT !.password = r.password, !.legacy = FALSE] \in Account
            /\ [account EXCEPT !.password = r.password, !.legacy = FALSE].password = r.password
    BY <1>1 DEF Account, Filled
  <1>6. CASE r.change = "profile"
    BY <1>4, <1>6 DEF Written
  <1>7. CASE r.change = "enable"
    BY <1>2, <1>7 DEF Written
  <1>8. CASE r.change = "disable"
    BY <1>3, <1>8 DEF Written
  <1>9. CASE r.change = "delete"
    BY <1>9 DEF Written
  <1>10. CASE r.change = "password"
    BY <1>5, <1>10 DEF Written
  <1>11. QED
    BY <1>6, <1>7, <1>8, <1>9, <1>10 DEF Filled, Change

LEMMA ApplyChangeStep ==
    ASSUME AccountsInv, NEW q \in Requests, ApplyChange(q)
    PROVE  AccountsInv'
  <1> DEFINE r == requests[q]
             pw == r.change = "password"
             n == After(r)
             stages == IF pw THEN {"store", "rehash", "insert"} ELSE {"store"}
             k == r.link
  <1>1. /\ AccountsTypeOK /\ r \in Request /\ r.stage = "write" /\ Informed(r) /\ Filled(r)
        /\ UNCHANGED <<sessions, cache, links, budget>>
        /\ account' = IF Exists THEN Written(r) ELSE account
        /\ intended' = IF pw /\ Exists THEN r.password ELSE intended
        /\ clobbered' = (clobbered /\ ~(pw /\ Exists))
        /\ late' = IF pw /\ r.next = "idle" THEN late \cup OpenSessions ELSE late
    BY DEF ApplyChange, AccountsInv, AccountsTypeOK, Informed
  <1>2. changes' = IF pw /\ k # Absent /\ ~r.overtaken THEN [changes EXCEPT ![k] = @ + 1] ELSE changes
    BY DEF ApplyChange
  <1>3. /\ n \in Request /\ n.next = "idle"
        /\ \/ n = Idle
           \/ pw /\ r.next = "purge" /\ n.stage = "purge" /\ n.link = k
           \/ ~pw /\ n.stage = "insert" /\ n.password = Federated /\ n.link = k
        /\ pw /\ r.next # "idle" => n.stage = "purge"
    BY <1>1, AfterParts, IdleIs DEF Filled
  <1>4. Overtake(q, n, stages)
    BY DEF ApplyChange
  <1> HIDE DEF n
  <1>5. /\ requests' \in [Requests -> Request] /\ requests'[q] = n
        /\ \A p \in Requests \ {q} : /\ Same(requests[p], requests'[p])
                                     /\ requests[p].stage \in stages => requests'[p].overtaken
    BY <1>1, <1>3, <1>4, OvertakeParts
  <1>6. /\ account' \in Account \cup {NoAccount}
        /\ Exists' => Exists
        /\ Exists' /\ ~pw => account'.password = account.password
        /\ Exists /\ pw => account'.password = r.password
    BY <1>1, WrittenParts DEF Exists, AccountsTypeOK
  <1>7. AccountsTypeOK'
    <2>1. intended' \in Passwords
      BY <1>1 DEF AccountsTypeOK, Filled
    <2>2. changes' \in [Links -> Nat]
      BY <1>1, <1>2 DEF AccountsTypeOK, Request
    <2>3. late' \subseteq Sessions /\ clobbered' \in BOOLEAN
      BY <1>1 DEF AccountsTypeOK, OpenSessions
    <2>4. QED
      BY <1>1, <1>5, <1>6, <2>1, <2>2, <2>3 DEF AccountsTypeOK
  <1>8. \A s \in Sessions : Doubted(s) /\ Doubted(s)'
    BY <1>1 DEF Informed, Doubted
  <1>9. ASSUME NEW p \in Requests PROVE Informed(requests[p])'
    <2>1. CASE p = q
      BY <1>3, <1>5, <1>8, <2>1, IdleIs DEF Informed, Filled
    <2>2. CASE p # q
      <3>1. Same(requests[p], requests'[p]) /\ Informed(requests[p])
            /\ (requests[p].stage \in stages => requests'[p].overtaken)
        BY <1>5, <2>2 DEF AccountsInv
      <3>2. requests'[p].stage = "logout" => requests'[p].session \in Sessions
        BY <3>1 DEF Same, Informed, Filled
      <3>3. QED
        BY <1>1, <1>6, <1>8, <3>1, <3>2 DEF Informed, Filled, Same
    <2>3. QED
      BY <2>1, <2>2
  <1>10. EntriesMarked'
    BY <1>1, <1>8 DEF AccountsInv, EntriesMarked, Doubted, Usable
  <1>11. PasswordIsLastSet'
    BY <1>1, <1>6 DEF AccountsInv, PasswordIsLastSet
  <1>12. OldPasswordsSignedOut'
    <2>1. CASE pw
      <3>1. CASE r.next = "idle"
        BY <1>1, <2>1, <3>1 DEF OldPasswordsSignedOut, OpenSessions
      <3>2. CASE r.next # "idle"
        BY <1>3, <1>5, <2>1, <3>2 DEF OldPasswordsSignedOut
      <3>3. QED
        BY <3>1, <3>2
    <2>2. CASE ~pw
      <3>1. \A p \in Requests : requests[p].stage \in {"purge", "sweep"}
                                   => requests'[p].stage \in {"purge", "sweep"}
        BY <1>1, <1>5 DEF Same
      <3>2. QED
        BY <1>1, <1>6, <2>2, <3>1 DEF AccountsInv, OldPasswordsSignedOut
    <2>3. QED
      BY <2>1, <2>2
  <1>13. LinksPass'
    <2>1. LinksPass /\ links' = links
      BY <1>1 DEF AccountsInv
    <2>2. \A p \in Requests : MaySet(requests'[p]) =>
             /\ p # q /\ MaySet(requests[p]) /\ requests'[p].link = requests[p].link
             /\ requests'[p].stage = requests[p].stage
      BY <1>3, <1>5, IdleIs DEF MaySet, Same
    <2>3. \A j \in links \ {Absent} :
              /\ changes[j] = 0
              /\ \A p \in Requests :
                    MaySet(requests'[p]) /\ requests'[p].link = j => requests'[p].stage = "consume"
      BY <2>1, <2>2 DEF LinksPass
    <2>4. CASE pw /\ k # Absent /\ ~r.overtaken
      <3>1. MaySet(r) /\ k \in Links /\ changes[k] = 0
        BY <1>1, <2>1, <2>4 DEF MaySet, LinksPass, Request
      <3>2. \A p \in Requests : MaySet(requests'[p]) => requests'[p].link # k
        BY <1>1, <2>1, <2>2, <3>1 DEF LinksPass
      <3>3. \A j : j # k => changes'[j] = changes[j]
        BY <1>1, <1>2 DEF AccountsTypeOK
      <3>4. changes'[k] = 1
        BY <1>1, <1>2, <2>4, <3>1 DEF AccountsTypeOK
      <3>5. LinksUsedOnce'
        BY <2>1, <3>3, <3>4 DEF LinksPass, LinksUsedOnce
      <3>6. k \notin links
        BY <1>1, <2>1, <2>4, <3>1 DEF LinksPass
      <3>7. QED
        BY <2>1, <2>2, <2>3, <3>2, <3>3, <3>5, <3>6 DEF LinksPass, MaySet
    <2>5. CASE ~(pw /\ k # Absent /\ ~r.overtaken)
      BY <1>2, <2>1, <2>2, <2>3, <2>5 DEF LinksPass, LinksUsedOnce, MaySet
    <2>6. QED
      BY <2>4, <2>5
  <1>14. QED
    BY <1>7, <1>9, <1>10, <1>11, <1>12, <1>13 DEF AccountsInv

LEMMA SweepStep ==
    ASSUME AccountsInv, NEW q \in Requests, Sweep(q)
    PROVE  AccountsInv'
  <1> DEFINE kept == requests[q].keep
             stages == {"store", "rehash", "insert"}
  <1>1. /\ AccountsTypeOK /\ requests[q] \in Request /\ requests[q].stage = "sweep"
        /\ Informed(requests[q]) /\ Overtake(q, Idle, stages)
        /\ UNCHANGED <<account, cache, links, budget, intended, clobbered, changes>>
        /\ late' = late \cap {kept}
        /\ sessions' = [s \in Sessions |-> IF s = kept THEN Renewed(s) ELSE Absent]
    BY DEF Sweep, AccountsInv, AccountsTypeOK
  <1>2. /\ requests' \in [Requests -> Request] /\ requests'[q] = Idle
        /\ \A p \in Requests \ {q} : /\ Same(requests[p], requests'[p])
                                     /\ requests[p].stage \in stages => requests'[p].overtaken
    BY <1>1, IdleIs, OvertakeParts
  <1>3. Exists => account.password \in Passwords
    BY <1>1 DEF AccountsTypeOK, Exists, Account
  <1>4. AccountsTypeOK'
    BY <1>1, <1>2, <1>3 DEF AccountsTypeOK, Renewed
  <1>5. \A s \in Sessions : Doubted(s) /\ Doubted(s)'
    BY <1>1 DEF Informed, Doubted
  <1>6. ASSUME NEW p \in Requests PROVE Informed(requests[p])'
    <2>1. CASE p = q
      BY <1>2, <2>1, IdleIs DEF Informed, Filled
    <2>2. CASE p # q
      BY <1>1, <1>2, <1>5, <2>2 DEF AccountsInv, Informed, Filled, Same
    <2>3. QED
      BY <2>1, <2>2
  <1>7. EntriesMarked'
    BY <1>1, <1>5 DEF AccountsInv, EntriesMarked, Doubted, Usable
  <1>8. PasswordIsLastSet' /\ OldPasswordsSignedOut'
    BY <1>1 DEF AccountsInv, PasswordIsLastSet, OldPasswordsSignedOut, Exists, Renewed
  <1>9. LinksPass'
    BY <1>1, <1>2, IdleIs, SameIsCalm, LinksKept DEF Calm
  <1>10. QED
    BY <1>4, <1>6, <1>7, <1>8, <1>9 DEF AccountsInv

LEMMA SweepFailsStep ==
    ASSUME AccountsInv, NEW q \in Requests, SweepFails(q)
    PROVE  AccountsInv'
  <1> DEFINE kept == requests[q].keep
  <1>1. /\ AccountsTypeOK /\ requests[q] \in Request /\ requests[q].stage = "sweep"
        /\ Informed(requests[q]) /\ Step(q, Idle) /\ budget' \in 0..MaxChanges
        /\ UNCHANGED <<account, cache, links, intended, clobbered, changes>>
        /\ late' = late \cup (OpenSessions \ {kept})
        /\ sessions' = [s \in Sessions |-> IF s = kept THEN Renewed(s) ELSE sessions[s]]
    BY SpendParts DEF SweepFails, AccountsInv, AccountsTypeOK
  <1>2. /\ requests' \in [Requests -> Request] /\ requests'[q] = Idle
        /\ \A p \in Requests \ {q} : requests'[p] = requests[p]
    BY <1>1, IdleIs, StepParts
  <1>3. Exists => account.password \in Passwords /\ account.password # Absent
    BY <1>1, AccountsAssumption DEF AccountsTypeOK, Exists, Account
  <1>4. AccountsTypeOK'
    BY <1>1, <1>2, <1>3 DEF AccountsTypeOK, Renewed, OpenSessions
  <1>5. \A s \in Sessions : Doubted(s) /\ Doubted(s)'
    BY <1>1 DEF Informed, Doubted
  <1>6. \A s \in Sessions : Shown(s)' = Shown(s)
    BY <1>1, <1>3 DEF Shown, Exists, Renewed
  <1>7. ASSUME NEW p \in Requests PROVE Informed(requests[p])'
    <2>1. CASE p = q
      BY <1>2, <2>1, IdleIs DEF Informed, Filled
    <2>2. CASE p # q
      <3>1. requests'[p] = requests[p] /\ Informed(requests[p]) /\ Filled(requests[p])
        BY <1>2, <2>2 DEF AccountsInv, Informed
      <3>2. requests[p].stage = "store" =>
               Shown(requests[p].session)' = Shown(requests[p].session)
        BY <1>2, <1>6, <2>2, <3>1 DEF Filled
      <3>3. QED
        BY <1>1, <1>5, <3>1, <3>2 DEF Informed, Filled, Exists
    <2>3. QED
      BY <2>1, <2>2
  <1>8. EntriesMarked'
    BY <1>1, <1>5 DEF AccountsInv, EntriesMarked, Doubted, Usable
  <1>9. PasswordIsLastSet' /\ OldPasswordsSignedOut'
    BY <1>1 DEF AccountsInv, PasswordIsLastSet, OldPasswordsSignedOut, Exists, Renewed, OpenSessions
  <1>10. LinksPass'
    BY <1>1, <1>2, IdleIs, LinksKept DEF Calm
  <1>11. QED
    BY <1>4, <1>7, <1>8, <1>9, <1>10 DEF AccountsInv

LEMMA RehashStep ==
    ASSUME AccountsInv, NEW q \in Requests, Rehash(q)
    PROVE  AccountsInv'
  <1> DEFINE n == After(requests[q])
             a == [account EXCEPT !.password = requests[q].password, !.legacy = FALSE]
  <1>1. /\ AccountsTypeOK /\ requests[q] \in Request /\ requests[q].stage = "rehash"
        /\ Informed(requests[q]) /\ requests[q].password \in Passwords
        /\ UNCHANGED <<sessions, cache, links, budget, intended, late, changes>>
        /\ account' = (IF Exists THEN a ELSE account)
        /\ clobbered' = (clobbered \/ requests[q].overtaken)
        /\ Step(q, n)
    BY DEF Rehash, AccountsInv, AccountsTypeOK, Informed, Filled
  <1>2. /\ n \in Request /\ n.next = "idle" /\ n.link = Absent
        /\ \/ n = Idle
           \/ /\ n.stage \in {"insert", "set"}
              /\ n.password = requests[q].password /\ n.overtaken = requests[q].overtaken
    BY <1>1, AfterParts, IdleIs DEF Informed, Filled
  <1>3. Exists => /\ a \in Account /\ a.password = requests[q].password
                  /\ a.profile = account.profile /\ a.disabled = account.disabled
    <2>1. Exists => account \in Account
      BY <1>1 DEF AccountsTypeOK, Exists
    <2>2. QED
      BY <1>1, <2>1 DEF Account
  <1> HIDE DEF n, a
  <1>4. /\ requests' \in [Requests -> Request] /\ requests'[q] = n
        /\ \A p \in Requests \ {q} : requests'[p] = requests[p]
    BY <1>1, <1>2, StepParts
  <1>5. /\ Exists' = Exists
        /\ Exists /\ ~clobbered' => account'.password = account.password
    <2>1. Exists' <=> Exists
      BY <1>1, <1>3, RowsExist DEF Exists
    <2>2. Exists /\ ~clobbered' => account'.password = account.password
      BY <1>1, <1>3 DEF Informed
    <2>3. QED
      BY <2>1, <2>2 DEF Exists
  <1>6. \A s : Shown(s)' = Shown(s)
    BY <1>1, <1>3, <1>5 DEF Shown
  <1>7. AccountsTypeOK'
    <2>1. clobbered' \in BOOLEAN
      BY <1>1
    <2>2. account' \in Account \cup {NoAccount}
      BY <1>1, <1>3 DEF AccountsTypeOK
    <2>3. QED
      BY <1>1, <1>4, <2>1, <2>2 DEF AccountsTypeOK
  <1>8. \A s : Doubted(s) => Doubted(s)'
    BY <1>1 DEF Doubted
  <1>9. ASSUME NEW p \in Requests PROVE Informed(requests[p])'
    <2>1. CASE p = q
      BY <1>1, <1>2, <1>3, <1>4, <1>5, <2>1, IdleIs DEF Informed, Filled
    <2>2. CASE p # q
      BY <1>1, <1>4, <1>5, <1>6, <1>8, <2>2 DEF AccountsInv, Informed, Filled
    <2>3. QED
      BY <2>1, <2>2
  <1>10. EntriesMarked'
    BY <1>1, <1>6 DEF AccountsInv, EntriesMarked, Usable
  <1>11. PasswordIsLastSet'
    BY <1>1, <1>5 DEF AccountsInv, PasswordIsLastSet
  <1>12. OldPasswordsSignedOut'
    <2>1. \A p \in Requests : requests[p].stage \in {"purge", "sweep"}
                                 => requests'[p].stage \in {"purge", "sweep"}
      BY <1>1, <1>4
    <2>2. QED
      BY <1>1, <1>5, <2>1 DEF AccountsInv, OldPasswordsSignedOut
  <1>13. LinksPass'
    <2>1. \A p \in Requests : Calm(requests[p], requests'[p])
      BY <1>1, <1>2, <1>4 DEF Calm, MaySet
    <2>2. QED
      BY <1>1, <2>1, LinksKept
  <1>14. QED
    BY <1>7, <1>9, <1>10, <1>11, <1>12, <1>13 DEF AccountsInv

LEMMA UpsertUserStep ==
    ASSUME AccountsInv, NEW q \in Requests, UpsertUser(q)
    PROVE  AccountsInv'
  <1> DEFINE r == requests[q]
             a == [account EXCEPT !.profile = r.profile]
  <1>1. /\ AccountsTypeOK /\ r \in Request /\ r.stage = "upsert" /\ Filled(r)
        /\ UNCHANGED <<sessions, links, budget>> /\ NoHistory
        /\ account' = (IF Exists THEN a ELSE account)
        /\ cache' = [s \in Sessions |-> IF cache[s] = NoEntry THEN NoEntry
                                        ELSE [cache[s] EXCEPT !.excused = TRUE]]
    BY DEF UpsertUser, AccountsInv, AccountsTypeOK, Informed
  <1>2. \A t \in {"roles", "insert"} :
           LET m == [r EXCEPT !.stage = t]
           IN  /\ m \in Request /\ m.stage = t /\ m.link = Absent /\ m.next = "idle"
               /\ m.password = Federated
    BY <1>1 DEF Request, Filled
  <1>3. PICK n \in Request :
           /\ Overtake(q, n, {"store"})
           /\ n = Idle \/ /\ n.stage \in {"roles", "insert"} /\ n.link = Absent
                          /\ n.next = "idle" /\ n.password = Federated
    <2>1. CASE Overtake(q, Idle, {"store"})
      <3>1. PICK n \in Request : n = Idle
        BY IdleIs
      <3>2. Overtake(q, n, {"store"}) /\ n = Idle
        BY <2>1, <3>1
      <3>3. QED
        BY <3>2
    <2>2. ASSUME NEW t \in {"roles", "insert"}, Overtake(q, [r EXCEPT !.stage = t], {"store"})
          PROVE  \E n \in Request :
                    /\ Overtake(q, n, {"store"})
                    /\ n = Idle \/ /\ n.stage \in {"roles", "insert"} /\ n.link = Absent
                                   /\ n.next = "idle" /\ n.password = Federated
      <3> DEFINE m == [r EXCEPT !.stage = t]
      <3>1. /\ m \in Request /\ m.stage = t /\ m.link = Absent /\ m.next = "idle"
            /\ m.password = Federated
        BY <1>2, <2>2
      <3>2. Overtake(q, m, {"store"})
        BY <2>2
      <3> HIDE DEF m
      <3>3. QED
        BY <2>2, <3>1, <3>2
    <2>3. QED
      BY <2>1, <2>2 DEF UpsertUser
  <1>4. /\ requests' \in [Requests -> Request] /\ requests'[q] = n
        /\ \A p \in Requests \ {q} : /\ Same(requests[p], requests'[p])
                                     /\ requests[p].stage = "store" => requests'[p].overtaken
    BY <1>1, <1>3, OvertakeParts
  <1>5. Exists => a \in Account /\ a.password = account.password
    BY <1>1 DEF AccountsTypeOK, Exists, Account, Filled
  <1>6. ASSUME NEW s \in Sessions
        PROVE  /\ cache'[s] \in Entry \cup {NoEntry}
               /\ cache'[s] # NoEntry =>
                     /\ cache'[s].excused /\ cache'[s].age = cache[s].age
                     /\ cache'[s].stale = cache[s].stale /\ cache[s] # NoEntry
    <2>1. cache[s] \in Entry \cup {NoEntry}
      BY <1>1 DEF AccountsTypeOK
    <2>2. cache'[s] = IF cache[s] = NoEntry THEN NoEntry ELSE [cache[s] EXCEPT !.excused = TRUE]
      BY <1>1
    <2>3. QED
      BY <2>1, <2>2 DEF Entry
  <1> HIDE DEF a
  <1>7. Exists' = Exists /\ (Exists => account'.password = account.password)
    <2>1. Exists' <=> Exists
      BY <1>1, <1>5, RowsExist DEF Exists
    <2>2. QED
      BY <1>1, <1>5, <2>1 DEF Exists
  <1>8. AccountsTypeOK'
    <2>1. account' \in Account \cup {NoAccount}
      BY <1>1, <1>5 DEF AccountsTypeOK
    <2>2. cache' \in [Sessions -> Entry \cup {NoEntry}]
      BY <1>1, <1>6
    <2>3. QED
      BY <1>1, <1>4, <2>1, <2>2 DEF AccountsTypeOK, NoHistory
  <1>9. \A s \in Sessions : Doubted(s)'
    BY <1>6 DEF Doubted
  <1>10. ASSUME NEW p \in Requests PROVE Informed(requests[p])'
    <2>1. CASE p = q
      BY <1>3, <1>4, <1>9, <2>1, IdleIs DEF Informed, Filled
    <2>2. CASE p # q
      <3>1. /\ Same(requests[p], requests'[p]) /\ Informed(requests[p]) /\ Filled(requests[p])
            /\ requests[p].stage = "store" => requests'[p].overtaken
        BY <1>4, <2>2 DEF AccountsInv, Informed
      <3>2. Filled(requests[p])'
        BY <3>1 DEF Filled, Same
      <3>3. QED
        BY <1>1, <1>7, <1>9, <3>1, <3>2 DEF Informed, Filled, Same, NoHistory
    <2>3. QED
      BY <2>1, <2>2
  <1>11. EntriesMarked'
    BY <1>6 DEF AccountsInv, EntriesMarked
  <1>12. PasswordIsLastSet'
    BY <1>1, <1>7 DEF AccountsInv, PasswordIsLastSet, NoHistory
  <1>13. OldPasswordsSignedOut'
    <2>1. \A p \in Requests : requests[p].stage \in {"purge", "sweep"}
                                 => requests'[p].stage \in {"purge", "sweep"}
      BY <1>1, <1>4 DEF Same
    <2>2. QED
      BY <1>1, <1>7, <2>1 DEF AccountsInv, OldPasswordsSignedOut, NoHistory
  <1>14. LinksPass'
    BY <1>1, <1>3, <1>4, IdleIs, SameIsCalm, LinksKept DEF Calm, NoHistory
  <1>15. QED
    BY <1>8, <1>10, <1>11, <1>12, <1>13, <1>14 DEF AccountsInv

LEMMA CreateSessionStep ==
    ASSUME AccountsInv, NEW q \in Requests, NEW s \in Sessions, CreateSession(q, s)
    PROVE  AccountsInv'
  <1>1. /\ AccountsTypeOK /\ requests[q] \in Request /\ requests[q].stage = "insert"
        /\ Informed(requests[q]) /\ requests[q].password \in Passwords \cup {Federated}
        /\ cache[s] = NoEntry /\ \A p \in Requests : requests[p].session # s
        /\ sessions' = [sessions EXCEPT ![s] = IF Exists THEN requests[q].password ELSE Absent]
        /\ late' = IF requests[q].overtaken THEN late \cup {s} ELSE late
        /\ Step(q, Idle)
        /\ UNCHANGED <<account, cache, links, budget, intended, clobbered, changes>>
    BY DEF CreateSession, AccountsInv, AccountsTypeOK, Informed, Filled
  <1>2. /\ requests' \in [Requests -> Request] /\ requests'[q] = Idle
        /\ \A p \in Requests \ {q} : requests'[p] = requests[p]
    BY <1>1, IdleIs, StepParts
  <1>3. AccountsTypeOK'
    BY <1>1, <1>2 DEF AccountsTypeOK
  <1>4. \A t : t # s => Shown(t)' = Shown(t)
    BY <1>1 DEF Shown, Exists, AccountsTypeOK
  <1>5. \A t : Doubted(t) => Doubted(t)'
    BY <1>1 DEF Doubted
  <1>6. ASSUME NEW p \in Requests PROVE Informed(requests[p])'
    <2>1. CASE p = q
      BY <1>2, <2>1, IdleIs DEF Informed, Filled
    <2>2. CASE p # q
      BY <1>1, <1>2, <1>4, <1>5, <2>2 DEF AccountsInv, Informed, Filled, Exists
    <2>3. QED
      BY <2>1, <2>2
  <1>7. EntriesMarked'
    BY <1>1, <1>4 DEF AccountsInv, EntriesMarked, Usable
  <1>8. PasswordIsLastSet'
    BY <1>1 DEF AccountsInv, PasswordIsLastSet, Exists
  <1>9. OldPasswordsSignedOut'
    <2>1. \A p \in Requests : requests[p].stage \in {"purge", "sweep"}
                                 => requests'[p].stage \in {"purge", "sweep"}
      BY <1>1, <1>2
    <2>2. \A t \in Sessions : t # s => sessions'[t] = sessions[t]
      BY <1>1 DEF AccountsTypeOK
    <2>3. sessions'[s] = IF Exists THEN requests[q].password ELSE Absent
      BY <1>1 DEF AccountsTypeOK
    <2>4. Exists /\ ~clobbered /\ s \notin late' => sessions'[s] \in {Federated, account.password}
      BY <1>1, <2>3 DEF Informed
    <2>5. QED
      BY <1>1, <2>1, <2>2, <2>4 DEF AccountsInv, OldPasswordsSignedOut, Exists
  <1>10. LinksPass'
    BY <1>1, <1>2, IdleIs, LinksKept DEF Calm
  <1>11. QED
    BY <1>3, <1>6, <1>7, <1>8, <1>9, <1>10 DEF AccountsInv

LEMMA DeleteSessionStep ==
    ASSUME AccountsInv, NEW q \in Requests, DeleteSession(q)
    PROVE  AccountsInv'
  <1> DEFINE s == requests[q].session
  <1>1. /\ AccountsTypeOK /\ requests[q] \in Request /\ requests[q].stage = "logout"
        /\ s \in Sessions /\ Doubted(s)
        /\ sessions' = [sessions EXCEPT ![s] = Absent]
        /\ late' = late \ {s}
        /\ Overtake(q, Idle, {"store"})
        /\ UNCHANGED <<account, cache, links, budget, intended, clobbered, changes>>
    BY DEF DeleteSession, AccountsInv, AccountsTypeOK, Informed, Filled
  <1> HIDE DEF s
  <1>2. /\ requests' \in [Requests -> Request] /\ requests'[q] = Idle
        /\ \A p \in Requests \ {q} : /\ Same(requests[p], requests'[p])
                                     /\ requests[p].stage = "store" => requests'[p].overtaken
    BY <1>1, IdleIs, OvertakeParts
  <1>3. AccountsTypeOK'
    BY <1>1, <1>2 DEF AccountsTypeOK
  <1>4. \A t : t # s => Shown(t)' = Shown(t)
    BY <1>1 DEF Shown, Exists, AccountsTypeOK
  <1>5. \A t : Doubted(t) => Doubted(t)'
    BY <1>1 DEF Doubted
  <1>6. ASSUME NEW p \in Requests PROVE Informed(requests[p])'
    <2>1. CASE p = q
      BY <1>2, <2>1, IdleIs DEF Informed, Filled
    <2>2. CASE p # q
      BY <1>1, <1>2, <1>5, <2>2 DEF AccountsInv, Informed, Filled, Same, Exists
    <2>3. QED
      BY <2>1, <2>2
  <1>7. EntriesMarked'
    BY <1>1, <1>4 DEF AccountsInv, EntriesMarked, Usable, Doubted
  <1>8. PasswordIsLastSet'
    BY <1>1 DEF AccountsInv, PasswordIsLastSet, Exists
  <1>9. OldPasswordsSignedOut'
    <2>1. \A p \in Requests : requests[p].stage \in {"purge", "sweep"}
                                 => requests'[p].stage \in {"purge", "sweep"}
      BY <1>1, <1>2 DEF Same
    <2>2. \A t \in Sessions : sessions'[t] = IF t = s THEN Absent ELSE sessions[t]
      BY <1>1 DEF AccountsTypeOK
    <2>3. QED
      BY <1>1, <2>1, <2>2 DEF AccountsInv, OldPasswordsSignedOut, Exists
  <1>10. LinksPass'
    BY <1>1, <1>2, IdleIs, SameIsCalm, LinksKept DEF Calm
  <1>11. QED
    BY <1>3, <1>6, <1>7, <1>8, <1>9, <1>10 DEF AccountsInv

LEMMA SessionExpiresStep ==
    ASSUME AccountsInv, NEW s \in Sessions, SessionExpires(s)
    PROVE  AccountsInv'
  <1>1. /\ AccountsTypeOK /\ budget' \in 0..MaxChanges
        /\ sessions' = [sessions EXCEPT ![s] = Absent]
        /\ late' = late \ {s}
        /\ cache' = IF cache[s] = NoEntry THEN cache ELSE [cache EXCEPT ![s].excused = TRUE]
        /\ UNCHANGED <<account, links, intended, clobbered, changes>>
    BY SpendParts DEF SessionExpires, AccountsInv
  <1>2. ASSUME NEW p \in Requests
        PROVE  /\ requests'[p] \in Request /\ Same(requests[p], requests'[p])
               /\ requests[p].stage = "store" /\ requests[p].session = s => requests'[p].overtaken
    <2>1. requests[p] \in Request
      BY <1>1 DEF AccountsTypeOK
    <2> DEFINE o == requests[p].overtaken \/ requests[p].stage \in {"store"}
               n == [requests[p] EXCEPT !.overtaken = o]
    <2>2. o \in BOOLEAN
      OBVIOUS
    <2>3. requests'[p] = IF requests[p].session = s THEN n ELSE requests[p]
      BY DEF SessionExpires, Overtaken
    <2> HIDE DEF o
    <2>4. n \in Request /\ n.overtaken = o /\ (o => Same(requests[p], n))
          /\ (~requests[p].overtaken => Same(requests[p], n))
      BY <2>1, <2>2 DEF Request, Same
    <2> HIDE DEF n
    <2>5. QED
      BY <2>1, <2>2, <2>3, <2>4 DEF Same, o
  <1>3. requests' \in [Requests -> Request]
    BY <1>2 DEF SessionExpires
  <1>4. ASSUME NEW t \in Sessions
        PROVE  /\ cache'[t] \in Entry \cup {NoEntry}
               /\ t # s => cache'[t] = cache[t]
               /\ cache'[t] # NoEntry =>
                     /\ cache'[t].age = cache[t].age /\ cache'[t].stale = cache[t].stale
                     /\ cache[t] # NoEntry /\ (t = s => cache'[t].excused)
                     /\ cache[t].excused => cache'[t].excused
    <2>1. cache[s] \in Entry \cup {NoEntry} /\ cache[t] \in Entry \cup {NoEntry}
      BY <1>1 DEF AccountsTypeOK
    <2> DEFINE e == [cache[s] EXCEPT !.excused = TRUE]
    <2>2. cache[s] \in Entry => e \in Entry /\ e.excused /\ e.age = cache[s].age
                               /\ e.stale = cache[s].stale
      BY DEF Entry
    <2>3. cache'[t] = IF t = s /\ cache[s] # NoEntry THEN e ELSE cache[t]
      BY <1>1 DEF AccountsTypeOK
    <2> HIDE DEF e
    <2>4. QED
      BY <2>1, <2>2, <2>3
  <1>5. AccountsTypeOK'
    <2>1. cache' \in [Sessions -> Entry \cup {NoEntry}]
      BY <1>1, <1>4 DEF AccountsTypeOK
    <2>2. QED
      BY <1>1, <1>3, <2>1 DEF AccountsTypeOK
  <1>6. \A t : t # s => Shown(t)' = Shown(t)
    BY <1>1 DEF Shown, Exists, AccountsTypeOK
  <1>7. \A t \in Sessions : Doubted(t) => Doubted(t)'
    BY <1>4 DEF Doubted
  <1>8. ASSUME NEW p \in Requests PROVE Informed(requests[p])'
    <2>1. /\ Same(requests[p], requests'[p]) /\ Informed(requests[p]) /\ Filled(requests[p])
          /\ requests[p].stage = "store" /\ requests[p].session = s => requests'[p].overtaken
      BY <1>2 DEF AccountsInv, Informed
    <2>2. Filled(requests[p])'
      BY <2>1 DEF Filled, Same
    <2>3. QED
      BY <1>1, <1>6, <1>7, <2>1, <2>2 DEF Informed, Filled, Same, Exists
  <1>9. EntriesMarked'
    BY <1>4, <1>6 DEF AccountsInv, EntriesMarked, Usable
  <1>10. PasswordIsLastSet'
    BY <1>1 DEF AccountsInv, PasswordIsLastSet, Exists
  <1>11. OldPasswordsSignedOut'
    <2>1. \A p \in Requests : requests[p].stage = requests'[p].stage
      BY <1>2 DEF Same
    <2>2. \A t \in Sessions : sessions'[t] = IF t = s THEN Absent ELSE sessions[t]
      BY <1>1 DEF AccountsTypeOK
    <2>3. QED
      BY <1>1, <2>1, <2>2 DEF AccountsInv, OldPasswordsSignedOut, Exists
  <1>12. LinksPass'
    BY <1>1, <1>2, SameIsCalm, LinksKept
  <1>13. QED
    BY <1>5, <1>8, <1>9, <1>10, <1>11, <1>12 DEF AccountsInv

LEMMA RestartAccountsStep ==
    ASSUME AccountsInv, RestartAccounts
    PROVE  AccountsInv'
  <1>1. /\ AccountsTypeOK /\ \A q \in Requests : requests'[q] = Idle
        /\ requests' \in [Requests -> Request]
        /\ cache' \in [Sessions -> Entry \cup {NoEntry}] /\ \A s \in Sessions : cache'[s] = NoEntry
        /\ UNCHANGED <<account, sessions, links, budget, intended, clobbered, changes>>
        /\ late' \subseteq Sessions /\ late \subseteq late'
        /\ (\E q \in Requests : requests[q].stage \in {"purge", "sweep"}) =>
              {s \in Sessions : sessions[s] # Absent} \subseteq late'
    BY IdleIs DEF RestartAccounts, AccountsInv, AccountsTypeOK, OpenSessions
  <1>2. AccountsTypeOK'
    BY <1>1 DEF AccountsTypeOK
  <1>3. \A q \in Requests : Informed(requests[q])'
    BY <1>1, IdleIs DEF Informed, Filled
  <1>4. EntriesMarked' /\ PasswordIsLastSet' /\ OldPasswordsSignedOut'
    BY <1>1 DEF AccountsInv, EntriesMarked, PasswordIsLastSet, OldPasswordsSignedOut, Exists
  <1>5. LinksPass'
    BY <1>1, IdleIs, LinksKept DEF Calm
  <1>6. QED
    BY <1>2, <1>3, <1>4, <1>5 DEF AccountsInv

-----------------------------------------------------------------------------
(* The theorems.                                                           *)

LEMMA InitAccounts == AccountsInit => AccountsInv
  <1> SUFFICES ASSUME AccountsInit PROVE AccountsInv
    OBVIOUS
  <1>1. AccountsTypeOK
    <2>1. account \in Account /\ account.password \in Passwords
      BY DEF AccountsInit, Account
    <2>2. requests \in [Requests -> Request] /\ budget \in 0..MaxChanges
      BY IdleIs, AccountsAssumption DEF AccountsInit
    <2>3. QED
      BY <2>1, <2>2 DEF AccountsInit, AccountsTypeOK
  <1>2. \A q \in Requests : Informed(requests[q])
    BY IdleIs DEF AccountsInit, Informed, Filled
  <1>3. EntriesMarked /\ PasswordIsLastSet /\ OldPasswordsSignedOut
    BY DEF AccountsInit, EntriesMarked, PasswordIsLastSet, OldPasswordsSignedOut
  <1>4. LinksPass
    BY IdleIs DEF AccountsInit, LinksPass, LinksUsedOnce, MaySet
  <1>5. QED
    BY <1>1, <1>2, <1>3, <1>4 DEF AccountsInv

LEMMA AccountsStep == AccountsInv /\ [AccountsNext]_accountVars => AccountsInv'
  <1> SUFFICES ASSUME AccountsInv, [AccountsNext]_accountVars PROVE AccountsInv'
    OBVIOUS
  <1>1. CASE UNCHANGED accountVars
    <2>1. LinksPass'
      BY <1>1, LinksKept DEF accountVars, Calm
    <2>2. QED
      BY <1>1, <2>1
      DEF accountVars, AccountsInv, AccountsTypeOK, Informed, Doubted, EntriesMarked, Usable, Shown,
          Exists, PasswordIsLastSet, OldPasswordsSignedOut
  <1>2. ASSUME NEW s \in Sessions, Hit(s) \/ SessionExpires(s) PROVE AccountsInv'
    BY <1>1, <1>2, SessionExpiresStep DEF Hit
  <1>3. ASSUME NEW q \in Requests,
               \/ \E s \in Sessions : Miss(q, s) \/ Logout(q, s) \/ CreateSession(q, s)
               \/ Query(q) \/ Store(q) \/ ApplyChange(q) \/ Purge(q) \/ Sweep(q) \/ SweepFails(q)
               \/ Rehash(q) \/ UpsertUser(q) \/ DeleteSession(q) \/ StatementFails(q)
        PROVE  AccountsInv'
    BY <1>3, MissStep, LogoutStep, CreateSessionStep, QueryStep, StoreStep, ApplyChangeStep,
       PurgeStep, SweepStep, SweepFailsStep, RehashStep, UpsertUserStep, DeleteSessionStep,
       StatementFailsStep
  <1>4. ASSUME NEW q \in Requests, NEW c \in {"enable", "disable", "delete"},
               BeginChange(q, c, Absent)
        PROVE  AccountsInv'
    BY <1>4, BeginChangeStep DEF Change
  <1>5. ASSUME NEW q \in Requests, NEW f \in Profiles,
               BeginChange(q, "profile", f) \/ SAMLLogin(q, f) \/ SyncRoles(q, f)
        PROVE  AccountsInv'
    BY <1>5, BeginChangeStep, SAMLLoginStep, SyncRolesStep DEF Change
  <1>6. ASSUME NEW q \in Requests, NEW p \in Passwords,
               \/ LocalLogin(q, p) \/ SetUserPassword(q, p)
               \/ \E s \in Sessions \cup {Absent, TokenOnly} : ChangePassword(q, s, p)
        PROVE  AccountsInv'
    BY <1>6, LocalLoginStep, SetUserPasswordStep, ChangePasswordStep
  <1>7. ASSUME NEW q \in Requests,
               \/ ForgotPassword(q) \/ ConsumeLink(q) \/ ConsumeFails(q)
               \/ \E k \in Links : IssueLink(q, k) \/ ResetPassword(q, k)
               \/ \E s \in Sessions \cup {Absent} : SetPassword(q, s)
        PROVE  AccountsInv'
    BY <1>7, ForgotPasswordStep, ConsumeLinkStep, ConsumeFailsStep, IssueLinkStep,
       ResetPasswordStep, SetPasswordStep
  <1>8. CASE ClockTick \/ RestartAccounts \/ \E k \in Links : LinkExpires(k)
    BY <1>8, ClockTickStep, RestartAccountsStep, LinkExpiresStep
  <1>9. QED
    BY <1>1, <1>2, <1>3, <1>4, <1>5, <1>6, <1>7, <1>8 DEF AccountsNext

LEMMA AccountsAlways == AccountsSpec => []AccountsInv
  BY InitAccounts, AccountsStep, PTL DEF AccountsSpec

(* Every state of an account and what surrounds it is well-typed.          *)
THEOREM AccountsWellTyped == AccountsSpec => []AccountsTypeOK
  <1>1. AccountsInv => AccountsTypeOK
    BY DEF AccountsInv
  <1>2. QED
    BY <1>1, AccountsAlways, PTL

(* A session is answered for with something else than the database says    *)
(* only by an entry stored beside the change, or that a SAML name or the   *)
(* session's expiry left behind, and for less than CacheAge.               *)
THEOREM AnswersAreBrieflyStale == AccountsSpec => []StaleAnswersAreBrief
  <1>1. AccountsInv => StaleAnswersAreBrief
    <2> SUFFICES ASSUME AccountsInv, NEW s \in Sessions, Usable(s), cache[s].profile # Shown(s)
                 PROVE  cache[s].stale < CacheAge /\ cache[s].excused
      BY DEF StaleAnswersAreBrief
    <2>1. cache[s] \in Entry /\ cache[s].stale <= cache[s].age /\ cache[s].excused
      BY DEF AccountsInv, AccountsTypeOK, EntriesMarked, Usable
    <2>2. cache[s].age \in 0..CacheAge /\ cache[s].stale \in 0..CacheAge /\ cache[s].age < CacheAge
      BY <2>1 DEF Entry, Usable
    <2>3. QED
      BY <2>1, <2>2, AccountsAssumption
  <1>2. QED
    BY <1>1, AccountsAlways, PTL

(* The password is the one last set, sessions of older ones are signed out *)
(* and a reset link sets a password once, but for the races, the failed    *)
(* statements and the changes without a cookie that are named.             *)
THEOREM PasswordChangesAreKept == AccountsSpec => []PasswordChangesHold
  <1>1. AccountsInv => PasswordChangesHold
    BY DEF AccountsInv, LinksPass, PasswordChangesHold
  <1>2. QED
    BY <1>1, AccountsAlways, PTL

-----------------------------------------------------------------------------
(* Acting as another user.                                                 *)

Posted(q) == posts[q] # Parked

(* Nobody waits for the end of the session any more.                       *)
Left(s) == s = NoCookie \/ sessionRow[s] = Ended \/ s \in excused

(* The session is of the browser's user, or over.                          *)
Own(s) == s = NoCookie \/ sessionRow[s] \in {Boss, Ended}

(* Requests carry sessions that were opened, a new one only once it is,    *)
(* and an exit a real one.                                                 *)
PostsOpened ==
    \A q \in Posts : Posted(q) =>
        /\ posts[q].cookie <= openedRows /\ posts[q].real <= openedRows
        /\ posts[q].fresh <= openedRows
        /\ posts[q].stage \notin {"retire", "answer"} => posts[q].fresh = NoCookie
        /\ posts[q].stage \notin {"target", "open"} => posts[q].real # NoCookie

(* A request without company holds the cookies the browser has, but for    *)
(* the one given up for not being answered for.                            *)
Alone ==
    /\ \A p, q \in Posts : p # q /\ Posted(p) /\ Posted(q) => posts[p].crossed
    /\ \A q \in Posts : Posted(q) /\ ~posts[q].crossed =>
          cookie \in {posts[q].cookie, NoCookie} /\ realCookie = posts[q].real

(* An exit has ended what it stepped over.                                 *)
ExitsEnd ==
    \A q \in Posts : Posted(q) =>
        /\ posts[q].stage \in {"renew", "retire", "answer"} => Left(posts[q].cookie)
        /\ posts[q].stage = "answer" => Left(posts[q].real)

(* Until somebody acts as another while acting, what leads back leads to   *)
(* the browser's user.                                                     *)
WayBack ==
    ~nested =>
        /\ Own(realCookie) /\ (realCookie = NoCookie => Own(cookie))
        /\ \A q \in Posts : Posted(q) =>
              /\ Own(posts[q].real) /\ Own(posts[q].fresh)
              /\ posts[q].stage \in {"target", "open"} => Own(posts[q].cookie)
              /\ posts[q].stage \in {"drop", "renew"} => posts[q].target = Boss

ImpersonationInv ==
    /\ ImpersonationTypeOK
    /\ PostsOpened
    /\ Alone
    /\ ExitsEnd
    /\ WayBack
    /\ SessionsHeld

(* Sessions are only added or ended.                                       *)
RowsAge ==
    /\ openedRows <= openedRows' /\ excused \subseteq excused'
    /\ \A s \in 1 .. openedRows : sessionRow'[s] \in {sessionRow[s], Ended}

LEMMA Ages ==
    ASSUME ImpersonationTypeOK, RowsAge, NEW s \in 0 .. openedRows
    PROVE  (Left(s) => Left(s)') /\ (Own(s) => Own(s)')
  BY DEF ImpersonationTypeOK, RowsAge, Left, Own, NoCookie

LEMMA OpenParts ==
    ASSUME ImpersonationTypeOK, NEW u \in Users, Open(u), excused \subseteq excused'
    PROVE  /\ openedRows' \in 0 .. MaxSessions /\ openedRows' = openedRows + 1
           /\ openedRows + 1 \in SessionRows
           /\ sessionRow' \in [SessionRows -> Users \cup {Ended}]
           /\ sessionRow'[openedRows + 1] = u
           /\ \A s \in SessionRows : s # openedRows + 1 => sessionRow'[s] = sessionRow[s]
           /\ RowsAge
  BY ImpersonationAssumption DEF ImpersonationTypeOK, Open, RowsAge, SessionRows

LEMMA EndParts ==
    ASSUME ImpersonationTypeOK, NEW s \in SessionRows, End(s), UNCHANGED openedRows
    PROVE  /\ sessionRow' \in [SessionRows -> Users \cup {Ended}]
           /\ excused' \subseteq SessionRows /\ excused \subseteq excused'
           /\ \A t \in SessionRows : sessionRow'[t] \in {sessionRow[t], Ended}
           /\ RowsAge /\ Left(s)'
  <1>1. /\ sessionRow \in [SessionRows -> Users \cup {Ended}]
        /\ excused \subseteq SessionRows /\ openedRows \in 0 .. MaxSessions
    BY DEF ImpersonationTypeOK
  <1>2. /\ sessionRow' \in [SessionRows -> Users \cup {Ended}]
        /\ excused' \subseteq SessionRows /\ excused \subseteq excused'
        /\ \A t \in SessionRows : sessionRow'[t] \in {sessionRow[t], Ended}
        /\ sessionRow'[s] = Ended \/ s \in excused'
    BY <1>1 DEF End
  <1>3. openedRows <= openedRows' /\ 1 .. openedRows \subseteq SessionRows
    BY <1>1, ImpersonationAssumption DEF SessionRows
  <1>4. QED
    BY <1>2, <1>3 DEF RowsAge, Left

LEMMA PostParts ==
    ASSUME ImpersonationInv, NEW q \in Posts, Posted(q)
    PROVE  /\ posts[q] \in Post /\ posts[q].cookie \in 1 .. openedRows
           /\ posts[q].real \in 0 .. openedRows /\ posts[q].fresh \in 0 .. openedRows
           /\ posts[q].target \in Users /\ posts[q].crossed \in BOOLEAN
           /\ posts[q].cookie \in SessionRows /\ openedRows \in 0 .. MaxSessions
  <1>1. posts[q] \in Post /\ openedRows \in 0 .. MaxSessions
    BY DEF ImpersonationInv, ImpersonationTypeOK, Posted
  <1>2. QED
    BY <1>1, ImpersonationAssumption DEF ImpersonationInv, PostsOpened, Post, SessionRows, NoCookie

LEMMA StagedIsPosted ==
    ASSUME NEW q \in Posts, posts[q].stage # "parked"
    PROVE  Posted(q)
  BY DEF Posted, Parked

(* A post that ends, or goes on to a stage of its own.                     *)
LEMMA MoveParts ==
    ASSUME ImpersonationTypeOK, NEW q \in Posts, NEW p \in Post \cup {Parked}, Move(q, p)
    PROVE  /\ posts' \in [Posts -> Post \cup {Parked}] /\ posts'[q] = p
           /\ \A r \in Posts \ {q} : posts'[r] = posts[r]
  BY DEF ImpersonationTypeOK, Move

(* Steps of the requests change neither cookie.                            *)
LEMMA QuietPost ==
    ASSUME ImpersonationInv, NEW q \in Posts, Posted(q),
           ImpersonationTypeOK', RowsAge, UNCHANGED <<cookie, realCookie, nested>>,
           \A r \in Posts \ {q} : posts'[r] = posts[r],
           \A s \in SessionRows : sessionRow'[s] # Ended =>
               sessionRow[s] # Ended \/ (Posted(q)' /\ posts'[q].fresh = s),
           posts[q].fresh # NoCookie =>
               Posted(q)' /\ posts'[q].fresh = posts[q].fresh,
           Posted(q)' =>
               /\ posts'[q].cookie = posts[q].cookie /\ posts'[q].real = posts[q].real
               /\ posts'[q].crossed = posts[q].crossed
               /\ posts'[q].fresh <= openedRows'
               /\ posts'[q].stage \notin {"retire", "answer"} => posts'[q].fresh = NoCookie
               /\ posts'[q].stage \notin {"target", "open"} => posts[q].stage \notin {"target", "open"}
               /\ posts'[q].stage \in {"renew", "retire", "answer"} => Left(posts[q].cookie)'
               /\ posts'[q].stage = "answer" => Left(posts[q].real)'
               /\ ~nested => /\ Own(posts[q].fresh)'
                             /\ posts'[q].stage \in {"target", "open"} =>
                                   posts[q].stage \in {"target", "open"}
                             /\ posts'[q].stage \in {"drop", "renew"} => posts'[q].target = Boss
    PROVE  ImpersonationInv'
  <1>1. ImpersonationTypeOK /\ cookie \in 0 .. openedRows /\ realCookie \in 0 .. openedRows
        /\ openedRows \in 0 .. MaxSessions /\ openedRows' \in 0 .. MaxSessions
    BY DEF ImpersonationInv, ImpersonationTypeOK
  <1>2. \A r \in Posts : Posted(r) => /\ posts[r].cookie \in 0 .. openedRows
                                      /\ posts[r].real \in 0 .. openedRows
                                      /\ posts[r].fresh \in 0 .. openedRows
    BY PostParts
  <1>3. PostsOpened'
    BY <1>1, <1>2, ImpersonationAssumption DEF ImpersonationInv, PostsOpened, Posted, RowsAge
  <1>4. Alone'
    BY DEF ImpersonationInv, Alone, Posted
  <1>5. \A s \in 0 .. openedRows : (Left(s) => Left(s)') /\ (Own(s) => Own(s)')
    BY <1>1, Ages
  <1>6. ExitsEnd'
    BY <1>2, <1>5 DEF ImpersonationInv, ExitsEnd, Posted, Left
  <1>7. WayBack'
    <2> SUFFICES ASSUME ~nested PROVE WayBack'
      BY DEF WayBack
    <2>1. Own(realCookie)' /\ (realCookie = NoCookie => Own(cookie))'
      BY <1>1, <1>5 DEF ImpersonationInv, WayBack, Own
    <2>2. ASSUME NEW r \in Posts, Posted(r)', r # q
          PROVE  /\ Own(posts[r].real)' /\ Own(posts[r].fresh)'
                 /\ posts'[r].stage \in {"target", "open"} => Own(posts[r].cookie)'
                 /\ posts'[r].stage \in {"drop", "renew"} => posts'[r].target = Boss
      BY <1>2, <1>5, <2>2 DEF ImpersonationInv, WayBack, Posted, Own
    <2>3. ASSUME Posted(q)'
          PROVE  /\ Own(posts[q].real)' /\ Own(posts[q].fresh)'
                 /\ posts'[q].stage \in {"target", "open"} => Own(posts[q].cookie)'
                 /\ posts'[q].stage \in {"drop", "renew"} => posts'[q].target = Boss
      BY <1>2, <1>5, <2>3 DEF ImpersonationInv, WayBack, Own
    <2>4. QED
      BY <2>1, <2>2, <2>3 DEF WayBack
  <1>8. SessionsHeld'
    BY DEF ImpersonationInv, SessionsHeld, RowsAge, Posted, SessionRows, NoCookie
  <1>9. QED
    BY <1>3, <1>4, <1>6, <1>7, <1>8 DEF ImpersonationInv

(* Steps that set the cookies, or end requests.                            *)
LEMMA CookiesMove ==
    ASSUME ImpersonationInv, ImpersonationTypeOK', RowsAge, UNCHANGED nested,
           \A r \in Posts : Posted(r)' =>
               /\ Posted(r)
               /\ posts'[r].stage = posts[r].stage /\ posts'[r].cookie = posts[r].cookie
               /\ posts'[r].real = posts[r].real /\ posts'[r].fresh = posts[r].fresh
               /\ posts'[r].target = posts[r].target
               /\ posts[r].crossed => posts'[r].crossed
               /\ ~posts'[r].crossed => /\ cookie' \in {cookie, NoCookie}
                                        /\ realCookie' = realCookie,
           \A s \in {cookie, realCookie} : s \in {cookie', realCookie'} \/ Left(s)',
           \A s \in SessionRows : sessionRow'[s] # Ended =>
               sessionRow[s] # Ended \/ s \in {cookie', realCookie'} \cup excused',
           \A r \in Posts : Posted(r) /\ ~Posted(r)' =>
               posts[r].fresh \in {cookie', realCookie', NoCookie} \cup excused',
           ~nested => Own(realCookie)' /\ (realCookie' = NoCookie => Own(cookie)')
    PROVE  ImpersonationInv'
  <1>1. ImpersonationTypeOK /\ cookie \in 0 .. openedRows /\ realCookie \in 0 .. openedRows
        /\ openedRows \in 0 .. MaxSessions /\ openedRows' \in 0 .. MaxSessions
    BY DEF ImpersonationInv, ImpersonationTypeOK
  <1>2. \A r \in Posts : Posted(r) => /\ posts[r].cookie \in 0 .. openedRows
                                      /\ posts[r].real \in 0 .. openedRows
                                      /\ posts[r].fresh \in 0 .. openedRows
    BY PostParts
  <1>3. PostsOpened'
    BY <1>1, <1>2, ImpersonationAssumption DEF ImpersonationInv, PostsOpened, RowsAge
  <1>4. Alone'
    BY DEF ImpersonationInv, Alone
  <1>5. \A s \in 0 .. openedRows : (Left(s) => Left(s)') /\ (Own(s) => Own(s)')
    BY <1>1, Ages
  <1>6. ExitsEnd'
    BY <1>2, <1>5 DEF ImpersonationInv, ExitsEnd, Left
  <1>7. WayBack'
    BY <1>1, <1>2, <1>5 DEF ImpersonationInv, WayBack, Own
  <1>8. SessionsHeld'
    BY DEF ImpersonationInv, SessionsHeld, RowsAge, Posted, Left, SessionRows, NoCookie
  <1>9. QED
    BY <1>3, <1>4, <1>6, <1>7, <1>8 DEF ImpersonationInv

LEMMA BeginPostStep ==
    ASSUME ImpersonationInv, NEW q \in Posts, NEW stage \in {"target", "leave"}, NEW u \in Users,
           BeginPost(q, stage, u),
           nested' \in BOOLEAN, nested => nested', stage = "target" /\ ~nested' => realCookie = NoCookie,
           stage = "leave" => realCookie # NoCookie
    PROVE  ImpersonationInv'
  <1>1. /\ ImpersonationTypeOK /\ posts[q] = Parked /\ openedRows \in 0 .. MaxSessions
        /\ UNCHANGED <<rank, sessionRow, openedRows, cookie, realCookie, excused>>
        /\ switches' \in 0 .. MaxSwitches
    BY ImpersonationAssumption
    DEF BeginPost, SendPost, Switch, ImpersonationInv, ImpersonationTypeOK
  <1> DEFINE crossed == AnyPost
             p == [stage |-> stage, cookie |-> cookie, real |-> realCookie, target |-> u,
                   fresh |-> NoCookie, crossed |-> crossed]
             c(r) == [posts[r] EXCEPT !.crossed = TRUE]
  <1>2. cookie \in SessionRows /\ realCookie \in SessionRows \cup {NoCookie}
        /\ cookie <= openedRows /\ realCookie <= openedRows
    BY <1>1, ImpersonationAssumption
    DEF BeginPost, SessionUser, ImpersonationTypeOK, SessionRows, NoCookie
  <1>3. crossed \in BOOLEAN
    BY DEF AnyPost
  <1>4. posts' = [r \in Posts |-> IF r = q THEN p ELSE IF posts[r] = Parked THEN Parked ELSE c(r)]
    BY DEF BeginPost, SendPost
  <1>5. /\ p \in Post /\ p.stage = stage /\ p.cookie = cookie /\ p.real = realCookie
        /\ p.fresh = NoCookie /\ p.target = u /\ p.crossed = crossed /\ p # Parked
    <2> HIDE DEF crossed
    <2>1. p \in Post
      BY <1>2, <1>3 DEF Post
    <2>2. p.stage # Parked.stage
      BY DEF Parked
    <2>3. QED
      BY <2>1, <2>2
  <1>6. ASSUME NEW r \in Posts, posts[r] # Parked
        PROVE  /\ c(r) \in Post /\ c(r).stage = posts[r].stage /\ c(r).cookie = posts[r].cookie
               /\ c(r).real = posts[r].real /\ c(r).fresh = posts[r].fresh
               /\ c(r).target = posts[r].target /\ c(r).crossed /\ c(r) # Parked
    <2>1. posts[r] \in Post
      BY <1>1, <1>6 DEF ImpersonationTypeOK
    <2>2. /\ c(r) \in Post /\ c(r).stage = posts[r].stage /\ c(r).cookie = posts[r].cookie
          /\ c(r).real = posts[r].real /\ c(r).fresh = posts[r].fresh
          /\ c(r).target = posts[r].target /\ c(r).crossed
      BY <2>1 DEF Post
    <2>3. c(r).stage # Parked.stage
      BY <2>1, <2>2 DEF Post, Parked
    <2>4. QED
      BY <2>2, <2>3
  <1> HIDE DEF p, c
  <1>7. ImpersonationTypeOK'
    BY <1>1, <1>4, <1>5, <1>6 DEF ImpersonationTypeOK
  <1>8. /\ posts'[q] = p /\ Posted(q)'
        /\ \A r \in Posts \ {q} : /\ Posted(r)' => Posted(r) /\ posts'[r] = c(r)
                                  /\ Posted(r) => Posted(r)' /\ posts'[r] = c(r)
    BY <1>4, <1>5, <1>6 DEF Posted
  <1>9. \A s : Left(s)' = Left(s) /\ Own(s)' = Own(s)
    BY <1>1 DEF Left, Own
  <1>10. PostsOpened'
    BY <1>1, <1>2, <1>5, <1>6, <1>8, ImpersonationAssumption
    DEF ImpersonationInv, PostsOpened, NoCookie, Posted
  <1>11. Alone'
    BY <1>1, <1>5, <1>6, <1>8 DEF ImpersonationInv, Alone, AnyPost, Posted
  <1>12. ExitsEnd'
    BY <1>5, <1>6, <1>8, <1>9 DEF ImpersonationInv, ExitsEnd, Posted, Left
  <1>13. WayBack'
    BY <1>1, <1>5, <1>6, <1>8, <1>9 DEF ImpersonationInv, WayBack, Posted, Own
  <1>14. SessionsHeld'
    <2>1. posts[q] = Parked
      BY <1>1
    <2>2. \A r \in Posts : Posted(r) => Posted(r)' /\ posts'[r].fresh = posts[r].fresh
      BY <1>6, <1>8, <2>1 DEF Posted
    <2>3. QED
      BY <1>1, <2>2 DEF ImpersonationInv, SessionsHeld, Posted
  <1>15. QED
    BY <1>7, <1>10, <1>11, <1>12, <1>13, <1>14 DEF ImpersonationInv

LEMMA FindTargetStep ==
    ASSUME ImpersonationInv, NEW q \in Posts, FindTarget(q)
    PROVE  ImpersonationInv'
  <1> DEFINE m == [posts[q] EXCEPT !.stage = "open"]
             p == IF rank[posts[q].target] = "disabled" THEN Parked ELSE m
  <1>1. /\ ImpersonationTypeOK /\ posts[q].stage = "target" /\ Move(q, p)
        /\ UNCHANGED <<rank, sessionRow, openedRows, cookie, realCookie, switches, excused, nested>>
    BY DEF FindTarget, ImpersonationInv
  <1>2. Posted(q)
    BY <1>1, StagedIsPosted
  <1>3. /\ m \in Post /\ m.stage = "open" /\ m.cookie = posts[q].cookie /\ m.real = posts[q].real
        /\ m.fresh = posts[q].fresh /\ m.crossed = posts[q].crossed
    BY <1>2, PostParts DEF Post
  <1> HIDE DEF m
  <1>4. p \in Post \cup {Parked}
    BY <1>3
  <1>5. /\ posts' \in [Posts -> Post \cup {Parked}] /\ posts'[q] = p
        /\ \A r \in Posts \ {q} : posts'[r] = posts[r]
    BY <1>1, <1>4, MoveParts
  <1>6. ImpersonationTypeOK' /\ RowsAge
    BY <1>1, <1>5 DEF ImpersonationTypeOK, RowsAge
  <1>7. posts[q].fresh = NoCookie
    BY <1>1, <1>2 DEF ImpersonationInv, PostsOpened
  <1>8. Posted(q)' => posts'[q] = m
    BY <1>5 DEF Posted
  <1>9. Posted(q)' => /\ posts'[q].stage = "open" /\ posts'[q].fresh = NoCookie
                      /\ posts'[q].cookie = posts[q].cookie /\ posts'[q].real = posts[q].real
                      /\ posts'[q].crossed = posts[q].crossed /\ Own(posts[q].fresh)'
    BY <1>3, <1>7, <1>8 DEF Own
  <1>10. openedRows' \in Nat
    BY <1>6, ImpersonationAssumption DEF ImpersonationTypeOK
  <1>11. QED
    BY <1>1, <1>2, <1>5, <1>6, <1>7, <1>9, <1>10, QuietPost DEF NoCookie

LEMMA DropActedStep ==
    ASSUME ImpersonationInv, NEW q \in Posts, DropActed(q)
    PROVE  ImpersonationInv'
  <1> DEFINE m == [posts[q] EXCEPT !.stage = "renew"]
  <1>1. /\ ImpersonationTypeOK /\ posts[q].stage = "drop" /\ Move(q, m) /\ End(posts[q].cookie)
        /\ UNCHANGED <<rank, openedRows, cookie, realCookie, switches, nested>>
    BY DEF DropActed, ImpersonationInv
  <1>2. Posted(q)
    BY <1>1, StagedIsPosted
  <1>3. /\ m \in Post /\ m.stage = "renew" /\ m.cookie = posts[q].cookie /\ m.real = posts[q].real
        /\ m.fresh = posts[q].fresh /\ m.crossed = posts[q].crossed /\ m.target = posts[q].target
    BY <1>2, PostParts DEF Post
  <1> HIDE DEF m
  <1>4. /\ posts' \in [Posts -> Post \cup {Parked}] /\ posts'[q] = m
        /\ \A r \in Posts \ {q} : posts'[r] = posts[r]
    BY <1>1, <1>3, MoveParts
  <1>5. posts[q].cookie \in SessionRows
    BY <1>2, PostParts
  <1>6. /\ sessionRow' \in [SessionRows -> Users \cup {Ended}]
        /\ excused' \subseteq SessionRows
        /\ \A t \in SessionRows : sessionRow'[t] \in {sessionRow[t], Ended}
        /\ RowsAge
    BY <1>1, <1>5, EndParts
  <1>7. Left(posts[q].cookie)'
    BY <1>1, <1>3, <1>4, <1>5 DEF End, Left, ImpersonationTypeOK
  <1>8. ImpersonationTypeOK'
    BY <1>1, <1>4, <1>6 DEF ImpersonationTypeOK
  <1>9. posts[q].fresh = NoCookie
    BY <1>1, <1>2 DEF ImpersonationInv, PostsOpened
  <1>10. Own(posts[q].fresh)'
    BY <1>3, <1>4, <1>9 DEF Own
  <1>11. ~nested => posts[q].target = Boss
    BY <1>1, <1>2 DEF ImpersonationInv, WayBack
  <1>12. openedRows' \in Nat
    BY <1>8, ImpersonationAssumption DEF ImpersonationTypeOK
  <1>13. \A s \in SessionRows : sessionRow'[s] # Ended => sessionRow[s] # Ended
    BY <1>6
  <1>14. QED
    BY <1>1, <1>2, <1>3, <1>4, <1>6, <1>7, <1>8, <1>9, <1>10, <1>11, <1>12, <1>13, QuietPost DEF NoCookie

LEMMA RenewRealStep ==
    ASSUME ImpersonationInv, NEW q \in Posts, RenewReal(q)
    PROVE  ImpersonationInv'
  <1>1. /\ ImpersonationTypeOK /\ posts[q].stage = "renew"
        /\ UNCHANGED <<rank, cookie, realCookie, switches, excused, nested>>
    BY DEF RenewReal, ImpersonationInv
  <1>2. Posted(q) /\ posts[q] \in Post /\ posts[q].target \in Users
        /\ posts[q].cookie \in 1 .. openedRows /\ openedRows \in 0 .. MaxSessions
    BY <1>1, StagedIsPosted, PostParts
  <1>3. posts[q].fresh = NoCookie /\ Left(posts[q].cookie)
        /\ (~nested => posts[q].target = Boss)
    BY <1>1, <1>2 DEF ImpersonationInv, PostsOpened, ExitsEnd, WayBack
  <1>4. CASE Open(posts[q].target)
             /\ Move(q, [posts[q] EXCEPT !.stage = "retire", !.fresh = openedRows + 1])
    <2> DEFINE m == [posts[q] EXCEPT !.stage = "retire", !.fresh = openedRows + 1]
    <2>1. /\ openedRows' \in 0 .. MaxSessions /\ openedRows' = openedRows + 1
          /\ openedRows + 1 \in SessionRows
          /\ sessionRow' \in [SessionRows -> Users \cup {Ended}]
          /\ sessionRow'[openedRows + 1] = posts[q].target
          /\ \A s \in SessionRows : s # openedRows + 1 => sessionRow'[s] = sessionRow[s]
          /\ RowsAge
      BY <1>1, <1>2, <1>4, OpenParts
    <2>2. /\ m \in Post /\ m.stage = "retire" /\ m.cookie = posts[q].cookie
          /\ m.real = posts[q].real /\ m.fresh = openedRows + 1
          /\ m.crossed = posts[q].crossed /\ m.target = posts[q].target
      BY <1>2, <2>1 DEF Post
    <2>3. Move(q, m)
      BY <1>4
    <2> HIDE DEF m
    <2>4. /\ posts' \in [Posts -> Post \cup {Parked}] /\ posts'[q] = m
          /\ \A r \in Posts \ {q} : posts'[r] = posts[r]
      BY <1>1, <2>2, <2>3, MoveParts
    <2>5. ImpersonationTypeOK'
      BY <1>1, <2>1, <2>4 DEF ImpersonationTypeOK
    <2>6. posts'[q].stage # "parked"
      BY <2>2, <2>4
    <2>7. Posted(q)'
      BY <2>6 DEF Posted, Parked
    <2>8. ~nested => Own(posts[q].fresh)'
      BY <1>3, <2>1, <2>2, <2>4 DEF Own
    <2>9. Left(posts[q].cookie)'
      BY <1>1, <1>2, <1>3, <2>1, <2>2, <2>4, Ages DEF Left, RowsAge
    <2>10. \A s \in SessionRows : sessionRow'[s] # Ended =>
               sessionRow[s] # Ended \/ (Posted(q)' /\ posts'[q].fresh = s)
      BY <2>1, <2>2, <2>4, <2>7
    <2>11. QED
      BY <1>1, <1>2, <1>3, <2>1, <2>2, <2>4, <2>5, <2>7, <2>8, <2>9, <2>10, QuietPost
  <1>5. CASE Move(q, Parked) /\ UNCHANGED <<sessionRow, openedRows>>
    <2>1. /\ posts' \in [Posts -> Post \cup {Parked}] /\ posts'[q] = Parked
          /\ \A r \in Posts \ {q} : posts'[r] = posts[r]
      BY <1>1, <1>5, MoveParts
    <2>2. ImpersonationTypeOK' /\ RowsAge /\ ~Posted(q)'
      BY <1>1, <1>5, <2>1 DEF ImpersonationTypeOK, RowsAge, Posted
    <2>3. QED
      BY <1>1, <1>2, <1>3, <1>5, <2>1, <2>2, QuietPost
  <1>6. QED
    BY <1>4, <1>5 DEF RenewReal

LEMMA RetireRealStep ==
    ASSUME ImpersonationInv, NEW q \in Posts, RetireReal(q)
    PROVE  ImpersonationInv'
  <1> DEFINE m == [posts[q] EXCEPT !.stage = "answer"]
  <1>1. /\ ImpersonationTypeOK /\ posts[q].stage = "retire" /\ Move(q, m) /\ End(posts[q].real)
        /\ UNCHANGED <<rank, openedRows, cookie, realCookie, switches, nested>>
    BY DEF RetireReal, ImpersonationInv
  <1>2. Posted(q) /\ posts[q] \in Post
    BY <1>1, StagedIsPosted, PostParts
  <1>3. /\ m \in Post /\ m.stage = "answer" /\ m.cookie = posts[q].cookie /\ m.real = posts[q].real
        /\ m.fresh = posts[q].fresh /\ m.crossed = posts[q].crossed /\ m.target = posts[q].target
    BY <1>2 DEF Post
  <1> HIDE DEF m
  <1>4. /\ posts' \in [Posts -> Post \cup {Parked}] /\ posts'[q] = m
        /\ \A r \in Posts \ {q} : posts'[r] = posts[r]
    BY <1>1, <1>3, MoveParts
  <1>5. posts[q].real \in SessionRows
    BY <1>1, <1>2 DEF Post, ImpersonationInv, PostsOpened
  <1>6. /\ sessionRow' \in [SessionRows -> Users \cup {Ended}]
        /\ excused' \subseteq SessionRows
        /\ \A t \in SessionRows : sessionRow'[t] \in {sessionRow[t], Ended}
        /\ RowsAge
    BY <1>1, <1>5, EndParts
  <1>7. Left(posts[q].real)'
    BY <1>1, <1>3, <1>4, <1>5 DEF End, Left, ImpersonationTypeOK
  <1>8. ImpersonationTypeOK'
    BY <1>1, <1>4, <1>6 DEF ImpersonationTypeOK
  <1>9. /\ posts[q].cookie \in 0 .. openedRows /\ posts[q].fresh \in 0 .. openedRows
        /\ Left(posts[q].cookie) /\ (~nested => Own(posts[q].fresh))
    BY <1>1, <1>2, PostParts DEF ImpersonationInv, ExitsEnd, WayBack
  <1>10. /\ Left(posts[q].cookie)' /\ (~nested => Own(posts[q].fresh)')
    BY <1>1, <1>3, <1>4, <1>6, <1>9, Ages DEF Left, Own
  <1>11. posts'[q].stage # "parked"
    BY <1>3, <1>4
  <1>12. Posted(q)'
    BY <1>11 DEF Posted, Parked
  <1>13. \A s \in SessionRows : sessionRow'[s] # Ended => sessionRow[s] # Ended
    BY <1>6
  <1>14. posts'[q].fresh <= openedRows'
    BY <1>1, <1>3, <1>4, <1>9 DEF ImpersonationTypeOK
  <1>15. QED
    BY <1>1, <1>2, <1>3, <1>4, <1>6, <1>7, <1>8, <1>10, <1>12, <1>13, <1>14, QuietPost

(* An answer arrives or is lost, and its request is over.                  *)
LEMMA AnswerStep ==
    ASSUME ImpersonationInv, NEW q \in Posts, Posted(q),
           NEW s \in 0 .. openedRows', NEW real \in 0 .. openedRows,
           AnswerCookies(q, s, real), RowsAge,
           UNCHANGED <<rank, switches, nested>>,
           openedRows' \in 0 .. MaxSessions,
           sessionRow' \in [SessionRows -> Users \cup {Ended}],
           \A t \in SessionRows : sessionRow'[t] # Ended => sessionRow[t] # Ended \/ t = s,
           posts[q].fresh \in {NoCookie, s},
           Left(posts[q].cookie) \/ real = posts[q].cookie,
           real = NoCookie => Left(posts[q].real),
           ~nested => IF real = NoCookie THEN Own(s)' ELSE Own(real)'
    PROVE  ImpersonationInv'
  <1>1. /\ ImpersonationTypeOK /\ Move(q, Parked) /\ openedRows \in 0 .. MaxSessions
        /\ cookie \in 0 .. openedRows /\ realCookie \in 0 .. openedRows
    BY DEF AnswerCookies, ImpersonationInv, ImpersonationTypeOK
  <1>2. /\ posts' \in [Posts -> Post \cup {Parked}] /\ posts'[q] = Parked
        /\ \A r \in Posts \ {q} : posts'[r] = posts[r]
    BY <1>1, MoveParts
  <1>3. /\ posts[q].crossed \in BOOLEAN /\ posts[q].cookie \in 1 .. openedRows
        /\ posts[q].real \in 0 .. openedRows
    BY PostParts
  <1>c. PICK c \in 1 .. openedRows : c = posts[q].cookie
    BY <1>3
  <1>d. PICK d \in 0 .. openedRows : d = posts[q].real
    BY <1>3
  <1>4. s \in SessionRows \cup {NoCookie} /\ real \in 0 .. openedRows' /\ real \in SessionRows \cup {NoCookie}
        /\ cookie \in SessionRows \cup {NoCookie} /\ realCookie \in SessionRows \cup {NoCookie}
        /\ NoCookie \notin SessionRows
    BY <1>1, ImpersonationAssumption DEF RowsAge, SessionRows, NoCookie
  <1>5. ~Posted(q)'
    BY <1>2 DEF Posted
  <1>6. CASE /\ cookie' = s /\ realCookie' = real
             /\ excused' = excused \cup ((IF posts[q].crossed THEN {cookie, realCookie}
                                          ELSE IF real # NoCookie THEN {realCookie} ELSE {}) \ {NoCookie})
    <2>0. excused' \subseteq SessionRows /\ {cookie', realCookie'} \subseteq 0 .. openedRows'
      BY <1>1, <1>4, <1>6 DEF ImpersonationTypeOK, NoCookie
    <2>1. ImpersonationTypeOK'
      BY <1>1, <1>2, <2>0 DEF ImpersonationTypeOK
    <2>2. \A r \in Posts : Posted(r)' => Posted(r) /\ posts'[r] = posts[r] /\ posts[r].crossed
      BY <1>2, <1>5 DEF ImpersonationInv, Alone, Posted
    <2>3. \A t \in {cookie, realCookie} : t \in {cookie', realCookie'} \/ Left(t)'
      <3>1. CASE posts[q].crossed
        BY <1>6, <3>1 DEF Left
      <3>2. CASE ~posts[q].crossed
        <4>1. cookie \in {c, NoCookie} /\ realCookie = d
          BY <1>c, <1>d, <3>2 DEF ImpersonationInv, Alone
        <4>2. /\ Left(c)' \/ real = c
              /\ real = NoCookie => Left(d)'
          BY <1>1, <1>c, <1>d, Ages
        <4>3. Left(NoCookie)'
          BY DEF Left
        <4>4. real # NoCookie => realCookie \in excused' \/ realCookie = NoCookie
          BY <1>6, <3>2
        <4>5. \A t \in {cookie, realCookie} : t = NoCookie \/ t \in excused' => Left(t)'
          BY DEF Left
        <4>6. \A t \in {cookie, realCookie} : t \in {c, d, NoCookie}
          BY <4>1
        <4>7. ASSUME NEW t \in {cookie, realCookie}
              PROVE  t \in {cookie', realCookie'} \/ Left(t)'
          <5>1. CASE t = NoCookie
            BY <4>5, <5>1
          <5>2. CASE t = c /\ t # realCookie
            BY <1>6, <4>2, <5>2
          <5>3. CASE t = d /\ t = realCookie
            BY <1>6, <4>2, <4>4, <4>5, <5>3
          <5>4. QED
            BY <4>1, <5>1, <5>2, <5>3
        <4>8. QED
          BY <4>7
      <3>3. QED
        BY <3>1, <3>2
    <2>4. \A t \in SessionRows : sessionRow'[t] # Ended =>
               sessionRow[t] # Ended \/ t \in {cookie', realCookie'} \cup excused'
      BY <1>6
    <2>5. \A r \in Posts : Posted(r) /\ ~Posted(r)' =>
               posts[r].fresh \in {cookie', realCookie', NoCookie} \cup excused'
      BY <1>2, <1>6 DEF Posted
    <2>6. ~nested => Own(realCookie)' /\ (realCookie' = NoCookie => Own(cookie)')
      BY <1>6 DEF Own
    <2>7. QED
      BY <2>1, <2>2, <2>3, <2>4, <2>5, <2>6, CookiesMove
  <1>7. CASE UNCHANGED <<cookie, realCookie>> /\ excused' = excused \cup ({s} \ {NoCookie})
    <2>a. excused' \subseteq SessionRows
      BY <1>1, <1>4, <1>7 DEF ImpersonationTypeOK
    <2>b. \A t \in 0 .. openedRows : t \in 0 .. openedRows'
      BY <1>1, ImpersonationAssumption DEF RowsAge
    <2>0. excused' \subseteq SessionRows /\ {cookie', realCookie'} \subseteq 0 .. openedRows'
      BY <1>1, <1>7, <2>a, <2>b
    <2>1. ImpersonationTypeOK'
      BY <1>1, <1>2, <2>0 DEF ImpersonationTypeOK
    <2>2. \A r \in Posts : Posted(r)' => Posted(r) /\ posts'[r] = posts[r]
      BY <1>2, <1>5 DEF Posted
    <2>3. \A t \in SessionRows : sessionRow'[t] # Ended =>
               sessionRow[t] # Ended \/ t \in {cookie', realCookie'} \cup excused'
      BY <1>4, <1>7
    <2>4. \A r \in Posts : Posted(r) /\ ~Posted(r)' =>
               posts[r].fresh \in {cookie', realCookie', NoCookie} \cup excused'
      BY <1>2, <1>4, <1>7 DEF Posted
    <2>5. ~nested => Own(realCookie)' /\ (realCookie' = NoCookie => Own(cookie)')
      BY <1>1, <1>7, Ages DEF ImpersonationInv, WayBack, Own
    <2>6. QED
      BY <1>7, <2>1, <2>2, <2>3, <2>4, <2>5, CookiesMove
  <1>8. QED
    BY <1>6, <1>7 DEF AnswerCookies

LEMMA ActAsTargetStep ==
    ASSUME ImpersonationInv, NEW q \in Posts, ActAsTarget(q)
    PROVE  ImpersonationInv'
  <1>1. /\ ImpersonationTypeOK /\ posts[q].stage = "open" /\ UNCHANGED <<rank, switches, nested>>
    BY DEF ActAsTarget, ImpersonationInv
  <1>2. Posted(q) /\ posts[q].target \in Users /\ posts[q].cookie \in 1 .. openedRows
        /\ openedRows \in 0 .. MaxSessions
    BY <1>1, StagedIsPosted, PostParts
  <1>3. posts[q].fresh = NoCookie /\ (~nested => Own(posts[q].cookie))
    BY <1>1, <1>2 DEF ImpersonationInv, PostsOpened, WayBack
  <1>4. CASE Open(posts[q].target) /\ AnswerCookies(q, openedRows + 1, posts[q].cookie)
    <2>1. excused \subseteq excused'
      BY <1>4 DEF AnswerCookies
    <2>2. /\ openedRows' \in 0 .. MaxSessions /\ openedRows' = openedRows + 1
          /\ sessionRow' \in [SessionRows -> Users \cup {Ended}]
          /\ sessionRow'[openedRows + 1] = posts[q].target
          /\ \A s \in SessionRows : s # openedRows + 1 => sessionRow'[s] = sessionRow[s]
          /\ RowsAge
      BY <1>1, <1>2, <1>4, <2>1, OpenParts
    <2>3. PICK s \in 0 .. openedRows' : s = openedRows + 1
      BY <1>2, <2>2, ImpersonationAssumption
    <2>4. PICK c \in 1 .. openedRows : c = posts[q].cookie
      BY <1>2
    <2>5. c # NoCookie /\ c \in 0 .. openedRows
      BY <1>2, <2>4, ImpersonationAssumption DEF NoCookie
    <2>6. ~nested => Own(c)'
      BY <1>1, <1>3, <2>2, <2>4, <2>5, Ages
    <2>7. \A t \in SessionRows : sessionRow'[t] # Ended => sessionRow[t] # Ended \/ t = s
      BY <2>2, <2>3
    <2>8. QED
      BY <1>1, <1>2, <1>3, <1>4, <2>2, <2>3, <2>4, <2>5, <2>6, <2>7, AnswerStep
  <1>5. CASE Move(q, Parked) /\ UNCHANGED <<sessionRow, openedRows, cookie, realCookie, excused>>
    <2>1. /\ posts' \in [Posts -> Post \cup {Parked}] /\ posts'[q] = Parked
          /\ \A r \in Posts \ {q} : posts'[r] = posts[r]
      BY <1>1, <1>5, MoveParts
    <2>2. ImpersonationTypeOK' /\ RowsAge /\ ~Posted(q)'
      BY <1>1, <1>5, <2>1 DEF ImpersonationTypeOK, RowsAge, Posted
    <2>3. QED
      BY <1>1, <1>2, <1>3, <1>5, <2>1, <2>2, QuietPost
  <1>6. QED
    BY <1>4, <1>5 DEF ActAsTarget

LEMMA AnswerExitStep ==
    ASSUME ImpersonationInv, NEW q \in Posts, AnswerExit(q)
    PROVE  ImpersonationInv'
  <1>1. /\ ImpersonationTypeOK /\ posts[q].stage = "answer"
        /\ AnswerCookies(q, posts[q].fresh, NoCookie)
        /\ UNCHANGED <<rank, sessionRow, openedRows, switches, nested>>
    BY DEF AnswerExit, ImpersonationInv
  <1>2. Posted(q) /\ posts[q].fresh \in 0 .. openedRows /\ openedRows \in 0 .. MaxSessions
    BY <1>1, StagedIsPosted, PostParts
  <1>3. Left(posts[q].cookie) /\ Left(posts[q].real) /\ (~nested => Own(posts[q].fresh))
    BY <1>1, <1>2 DEF ImpersonationInv, ExitsEnd, WayBack
  <1>4. PICK s \in 0 .. openedRows : s = posts[q].fresh
    BY <1>2
  <1>5. NoCookie \in 0 .. openedRows
    BY <1>2, ImpersonationAssumption DEF NoCookie
  <1>6. RowsAge
    BY <1>1, <1>2, ImpersonationAssumption DEF RowsAge, AnswerCookies
  <1>7. /\ s \in 0 .. openedRows' /\ (~nested => Own(s)')
        /\ sessionRow' \in [SessionRows -> Users \cup {Ended}]
    BY <1>1, <1>3, <1>4 DEF ImpersonationTypeOK, Own
  <1>8. QED
    BY <1>1, <1>2, <1>3, <1>4, <1>5, <1>6, <1>7, AnswerStep

LEMMA CheckRealStep ==
    ASSUME ImpersonationInv, NEW q \in Posts, CheckReal(q)
    PROVE  ImpersonationInv'
  <1> DEFINE m == [posts[q] EXCEPT !.stage = "drop", !.target = sessionRow[posts[q].real]]
  <1>1. /\ ImpersonationTypeOK /\ posts[q].stage = "leave"
        /\ UNCHANGED <<rank, sessionRow, openedRows, switches, nested>>
    BY DEF CheckReal, ImpersonationInv
  <1>2. /\ Posted(q) /\ posts[q] \in Post /\ openedRows \in 0 .. MaxSessions
        /\ cookie \in 0 .. openedRows /\ realCookie \in 0 .. openedRows
    BY <1>1, StagedIsPosted, PostParts DEF ImpersonationTypeOK
  <1>3. posts[q].fresh = NoCookie /\ posts[q].real # NoCookie
        /\ (~nested => Own(posts[q].real))
    BY <1>1, <1>2 DEF ImpersonationInv, PostsOpened, WayBack
  <1>4. CASE IsGlobal(posts[q].real)
    <2>1. Move(q, m) /\ UNCHANGED <<cookie, realCookie, excused>>
      BY <1>4 DEF CheckReal
    <2>2. /\ sessionRow[posts[q].real] \in Users /\ sessionRow[posts[q].real] # Ended
          /\ (~nested => sessionRow[posts[q].real] = Boss)
      BY <1>1, <1>2, <1>3, <1>4 DEF IsGlobal, SessionUser, ImpersonationTypeOK, Post, Own
    <2>3. /\ m \in Post /\ m.stage = "drop" /\ m.cookie = posts[q].cookie
          /\ m.real = posts[q].real /\ m.fresh = posts[q].fresh
          /\ m.crossed = posts[q].crossed /\ m.target = sessionRow[posts[q].real]
      BY <1>2, <2>2 DEF Post
    <2> HIDE DEF m
    <2>4. /\ posts' \in [Posts -> Post \cup {Parked}] /\ posts'[q] = m
          /\ \A r \in Posts \ {q} : posts'[r] = posts[r]
      BY <1>1, <2>1, <2>3, MoveParts
    <2>5. ImpersonationTypeOK' /\ RowsAge
      BY <1>1, <1>2, <2>1, <2>4, ImpersonationAssumption DEF ImpersonationTypeOK, RowsAge
    <2>6. posts'[q].stage # "parked"
      BY <2>3, <2>4
    <2>7. Posted(q)' /\ Own(posts[q].fresh)'
      BY <1>3, <2>3, <2>4, <2>6 DEF Posted, Parked, Own
    <2>8. posts'[q].fresh <= openedRows'
      BY <1>1, <1>2, <1>3, <2>3, <2>4, ImpersonationAssumption DEF NoCookie
    <2>9. QED
      BY <1>1, <1>2, <1>3, <2>1, <2>2, <2>3, <2>4, <2>5, <2>7, <2>8, QuietPost
  <1>5. CASE ~IsGlobal(posts[q].real)
    <2>1. Move(q, Parked)
      BY <1>5 DEF CheckReal
    <2>2. /\ posts' \in [Posts -> Post \cup {Parked}] /\ posts'[q] = Parked
          /\ \A r \in Posts \ {q} : posts'[r] = posts[r]
      BY <1>1, <2>1, MoveParts
    <2>3. ~Posted(q)'
      BY <2>2 DEF Posted
    <2>4. CASE /\ cookie' = NoCookie /\ realCookie' = NoCookie
               /\ excused' = excused \cup ({cookie, realCookie} \ {NoCookie})
      <3>1. excused' \subseteq SessionRows
        BY <1>1, <1>2, <2>4, ImpersonationAssumption DEF ImpersonationTypeOK, SessionRows, NoCookie
      <3>2. ImpersonationTypeOK' /\ RowsAge
        BY <1>1, <1>2, <2>2, <2>4, <3>1, ImpersonationAssumption
        DEF ImpersonationTypeOK, RowsAge, NoCookie
      <3>3. \A r \in Posts : Posted(r)' => Posted(r) /\ posts'[r] = posts[r] /\ posts[r].crossed
        BY <1>2, <2>2, <2>3 DEF ImpersonationInv, Alone, Posted
      <3>4. \A s \in {cookie, realCookie} : Left(s)'
        BY <2>4 DEF Left
      <3>5. \A r \in Posts : Posted(r) /\ ~Posted(r)' => posts[r].fresh = NoCookie
        BY <1>3, <2>2 DEF Posted
      <3>6. Own(realCookie)' /\ Own(cookie)'
        BY <2>4 DEF Own
      <3>7. QED
        BY <1>1, <3>2, <3>3, <3>4, <3>5, <3>6, CookiesMove
    <2>5. CASE UNCHANGED <<cookie, realCookie, excused>>
      <3>1. ImpersonationTypeOK' /\ RowsAge
        BY <1>1, <1>2, <2>2, <2>5, ImpersonationAssumption DEF ImpersonationTypeOK, RowsAge
      <3>2. QED
        BY <1>1, <1>2, <1>3, <2>2, <2>3, <2>5, <3>1, QuietPost
    <2>6. QED
      BY <1>5, <2>4, <2>5 DEF CheckReal
  <1>6. QED
    BY <1>4, <1>5

(* What happens to the browser beside its requests.                        *)
LEMMA BrowserStep ==
    ASSUME ImpersonationInv, Unauthenticated \/ Login \/ LogoutHere \/ CookiesRunOut
    PROVE  ImpersonationInv'
  <1>1. /\ ImpersonationTypeOK /\ openedRows \in 0 .. MaxSessions
        /\ cookie \in 0 .. openedRows /\ realCookie \in 0 .. openedRows
        /\ cookie \in SessionRows \cup {NoCookie} /\ realCookie \in SessionRows \cup {NoCookie}
        /\ Left(NoCookie)' /\ Own(NoCookie)'
    BY ImpersonationAssumption
    DEF ImpersonationInv, ImpersonationTypeOK, SessionRows, NoCookie, Left, Own
  <1>2. UNCHANGED nested
    BY DEF Unauthenticated, Login, LogoutHere, CookiesRunOut
  <1>3. (~nested => Own(realCookie)) /\ (~nested /\ realCookie = NoCookie => Own(cookie))
    BY DEF ImpersonationInv, WayBack
  <1>4. ASSUME Cross
        PROVE  /\ posts' \in [Posts -> Post \cup {Parked}]
               /\ \A r \in Posts : /\ Posted(r) => Posted(r)'
                                   /\ Posted(r)' => /\ Posted(r) /\ posts'[r].crossed
                                       /\ posts'[r].stage = posts[r].stage
                                       /\ posts'[r].cookie = posts[r].cookie
                                       /\ posts'[r].real = posts[r].real
                                       /\ posts'[r].fresh = posts[r].fresh
                                       /\ posts'[r].target = posts[r].target
    <2> DEFINE c(r) == [posts[r] EXCEPT !.crossed = TRUE]
    <2>1. ASSUME NEW r \in Posts, posts[r] # Parked
          PROVE  /\ c(r) \in Post /\ c(r).stage = posts[r].stage /\ c(r).cookie = posts[r].cookie
                 /\ c(r).real = posts[r].real /\ c(r).fresh = posts[r].fresh
                 /\ c(r).target = posts[r].target /\ c(r).crossed /\ c(r) # Parked
      <3>1. posts[r] \in Post
        BY <1>1, <2>1 DEF ImpersonationTypeOK
      <3>2. /\ c(r) \in Post /\ c(r).stage = posts[r].stage /\ c(r).cookie = posts[r].cookie
            /\ c(r).real = posts[r].real /\ c(r).fresh = posts[r].fresh
            /\ c(r).target = posts[r].target /\ c(r).crossed
        BY <3>1 DEF Post
      <3>3. c(r).stage # Parked.stage
        BY <3>1, <3>2 DEF Post, Parked
      <3>4. QED
        BY <3>2, <3>3
    <2>2. posts' = [r \in Posts |-> IF posts[r] = Parked THEN Parked ELSE c(r)]
      BY <1>4 DEF Cross
    <2> HIDE DEF c
    <2>3. QED
      BY <2>1, <2>2 DEF Posted
  <1>5. CASE Unauthenticated
    <2>1. /\ cookie' = NoCookie /\ excused' = excused \cup {cookie} /\ cookie # NoCookie
          /\ UNCHANGED <<rank, sessionRow, openedRows, realCookie, posts, switches, nested>>
      BY <1>5 DEF Unauthenticated
    <2>2. ImpersonationTypeOK' /\ RowsAge
      BY <1>1, <2>1, ImpersonationAssumption DEF ImpersonationTypeOK, RowsAge, NoCookie
    <2>3. \A s \in {cookie, realCookie} : s = realCookie' \/ Left(s)'
      BY <2>1 DEF Left
    <2>4. ~nested => Own(realCookie)' /\ Own(cookie)'
      BY <1>1, <1>3, <2>1 DEF Own
    <2>5. QED
      BY <1>1, <2>1, <2>2, <2>3, <2>4, CookiesMove DEF Posted
  <1>6. CASE Login
    <2>1. /\ cookie = NoCookie /\ Open(Boss) /\ cookie' = openedRows + 1 /\ Cross
          /\ UNCHANGED <<rank, realCookie, excused, nested>> /\ switches' \in 0 .. MaxSwitches
      BY <1>1, <1>6, ImpersonationAssumption DEF Login, Switch, ImpersonationTypeOK
    <2>2. Boss \in Users
      BY DEF Users
    <2>3. /\ openedRows' \in 0 .. MaxSessions /\ openedRows' = openedRows + 1
          /\ sessionRow' \in [SessionRows -> Users \cup {Ended}]
          /\ sessionRow'[openedRows + 1] = Boss
          /\ \A s \in SessionRows : s # openedRows + 1 => sessionRow'[s] = sessionRow[s]
          /\ RowsAge
      BY <1>1, <2>1, <2>2, OpenParts
    <2>4. ImpersonationTypeOK'
      <3>1. {cookie', realCookie'} \subseteq 0 .. openedRows'
        BY <1>1, <2>1, <2>3, ImpersonationAssumption
      <3>2. QED
        BY <1>1, <1>4, <2>1, <2>3, <3>1 DEF ImpersonationTypeOK
    <2>5. \A s \in {cookie, realCookie} : s = realCookie' \/ Left(s)'
      BY <1>1, <2>1
    <2>6. ~nested => Own(realCookie)' /\ Own(cookie)'
      <3>1. (Own(realCookie) => Own(realCookie)')
        BY <1>1, <2>1, <2>3, Ages DEF Own
      <3>2. Own(cookie)'
        BY <2>1, <2>3 DEF Own
      <3>3. QED
        BY <1>3, <3>1, <3>2
    <2>7. \A s \in SessionRows : sessionRow'[s] # Ended => sessionRow[s] # Ended \/ s = cookie'
      BY <2>1, <2>3
    <2>8. QED
      BY <1>1, <1>4, <2>1, <2>3, <2>4, <2>5, <2>6, <2>7, CookiesMove
  <1>7. CASE LogoutHere
    <2>1. /\ cookie # NoCookie /\ End(cookie) /\ cookie' = NoCookie /\ Cross
          /\ UNCHANGED <<rank, openedRows, realCookie, nested>> /\ switches' \in 0 .. MaxSwitches
      BY <1>1, <1>7, ImpersonationAssumption DEF LogoutHere, Switch, ImpersonationTypeOK
    <2>2. PICK s \in SessionRows : s = cookie
      BY <1>1, <2>1
    <2>3. /\ sessionRow' \in [SessionRows -> Users \cup {Ended}]
          /\ excused' \subseteq SessionRows /\ excused \subseteq excused'
          /\ \A t \in SessionRows : sessionRow'[t] \in {sessionRow[t], Ended}
          /\ RowsAge /\ Left(s)'
      BY <1>1, <2>1, <2>2, EndParts
    <2>4. ImpersonationTypeOK'
      <3>1. {cookie', realCookie'} \subseteq 0 .. openedRows'
        BY <1>1, <2>1, ImpersonationAssumption DEF NoCookie
      <3>2. QED
        BY <1>1, <1>4, <2>1, <2>3, <3>1 DEF ImpersonationTypeOK
    <2>5. \A t \in {cookie, realCookie} : t = realCookie' \/ Left(t)'
      BY <2>1, <2>2, <2>3
    <2>6. ~nested => Own(realCookie)' /\ Own(cookie)'
      <3>1. (Own(realCookie) => Own(realCookie)')
        BY <1>1, <2>1, <2>3, Ages DEF Own
      <3>2. Own(cookie)'
        BY <2>1 DEF Own
      <3>3. QED
        BY <1>3, <3>1, <3>2
    <2>7. QED
      BY <1>1, <1>4, <2>1, <2>3, <2>4, <2>5, <2>6, CookiesMove
  <1>8. CASE CookiesRunOut
    <2>1. /\ cookie' = NoCookie /\ realCookie' = NoCookie /\ Cross
          /\ excused' = excused \cup ({cookie, realCookie} \ {NoCookie})
          /\ UNCHANGED <<rank, sessionRow, openedRows, switches, nested>>
      BY <1>8 DEF CookiesRunOut
    <2>2. excused' \subseteq SessionRows
      BY <1>1, <2>1 DEF ImpersonationTypeOK
    <2>3. ImpersonationTypeOK' /\ RowsAge
      BY <1>1, <1>4, <2>1, <2>2, ImpersonationAssumption DEF ImpersonationTypeOK, RowsAge, NoCookie
    <2>4. \A s \in {cookie, realCookie} : Left(s)'
      BY <2>1 DEF Left
    <2>5. Own(realCookie)' /\ Own(cookie)'
      BY <2>1 DEF Own
    <2>6. QED
      BY <1>1, <1>4, <2>1, <2>3, <2>4, <2>5, CookiesMove
  <1>9. QED
    BY <1>5, <1>6, <1>7, <1>8

(* Another administrator's change, and a stop of the server.               *)
LEMMA OutsideStep ==
    ASSUME ImpersonationInv,
           \/ \E u \in Users, r \in {"global", "other", "disabled"} : ChangeRank(u, r)
           \/ StopPosts
    PROVE  ImpersonationInv'
  <1>1. /\ ImpersonationTypeOK /\ openedRows \in 0 .. MaxSessions
        /\ UNCHANGED <<sessionRow, openedRows, cookie, realCookie, nested>>
    BY DEF ImpersonationInv, ImpersonationTypeOK, ChangeRank, StopPosts
  <1>2. \A s : Own(s)' = Own(s)
    BY <1>1 DEF Own
  <1>3. ~nested => Own(realCookie)' /\ (realCookie' = NoCookie => Own(cookie)')
    BY <1>1 DEF ImpersonationInv, WayBack, Own
  <1>4. ASSUME NEW u \in Users, NEW r \in {"global", "other", "disabled"}, ChangeRank(u, r)
        PROVE  ImpersonationInv'
    <2>1. /\ UNCHANGED <<posts, excused>> /\ switches' \in 0 .. MaxSwitches
          /\ rank' \in [Users -> {"global", "other", "disabled"}]
      BY <1>1, <1>4, ImpersonationAssumption DEF ChangeRank, Switch, ImpersonationTypeOK
    <2>2. ImpersonationTypeOK' /\ RowsAge
      BY <1>1, <2>1, ImpersonationAssumption DEF ImpersonationTypeOK, RowsAge
    <2>3. QED
      BY <1>1, <1>3, <2>1, <2>2, CookiesMove DEF Posted
  <1>5. CASE StopPosts
    <2> DEFINE lost == {posts[q].fresh : q \in {p \in Posts : posts[p] # Parked}} \ {NoCookie}
    <2>1. /\ \A q \in Posts : posts'[q] = Parked
          /\ posts' \in [Posts -> Post \cup {Parked}]
          /\ excused' = excused \cup lost /\ UNCHANGED <<rank, switches>>
      BY <1>5 DEF StopPosts
    <2>2. \A q \in Posts : Posted(q) => posts[q] \in Post
      BY PostParts
    <2>3. lost \subseteq SessionRows
      BY <2>2 DEF Posted, Post
    <2>4. \A q \in Posts : Posted(q) => posts[q].fresh \in lost \cup {NoCookie}
      BY DEF Posted
    <2> HIDE DEF lost
    <2>5. ImpersonationTypeOK' /\ RowsAge
      BY <1>1, <2>1, <2>3, ImpersonationAssumption DEF ImpersonationTypeOK, RowsAge
    <2>6. \A q \in Posts : ~Posted(q)'
      BY <2>1 DEF Posted
    <2>7. \A q \in Posts : Posted(q) => posts[q].fresh \in {NoCookie} \cup excused'
      BY <2>1, <2>4
    <2>8. QED
      BY <1>1, <1>3, <2>5, <2>6, <2>7, CookiesMove
  <1>6. QED
    BY <1>4, <1>5

LEMMA InitImpersonation == ImpersonationInit => ImpersonationInv
  <1> SUFFICES ASSUME ImpersonationInit PROVE ImpersonationInv
    OBVIOUS
  <1>1. Boss \in Users /\ 1 \in SessionRows /\ NoCookie \notin SessionRows
    BY ImpersonationAssumption DEF Users, SessionRows, NoCookie
  <1>2. ImpersonationTypeOK
    <2>1. sessionRow \in [SessionRows -> Users \cup {Ended}]
      BY <1>1 DEF ImpersonationInit
    <2>2. posts \in [Posts -> Post \cup {Parked}]
      BY DEF ImpersonationInit
    <2>3. /\ openedRows \in 0 .. MaxSessions /\ {cookie, realCookie} \subseteq 0 .. openedRows
          /\ switches \in 0 .. MaxSwitches
      BY ImpersonationAssumption DEF ImpersonationInit, NoCookie
    <2>4. QED
      BY <2>1, <2>2, <2>3 DEF ImpersonationInit, ImpersonationTypeOK
  <1>3. \A q \in Posts : ~Posted(q)
    BY DEF ImpersonationInit, Posted
  <1>4. SessionsHeld /\ WayBack
    BY <1>1, <1>3 DEF ImpersonationInit, SessionsHeld, WayBack, Own, Posted
  <1>5. QED
    BY <1>2, <1>3, <1>4 DEF ImpersonationInv, PostsOpened, Alone, ExitsEnd

LEMMA ImpersonationStep ==
    ImpersonationInv /\ [ImpersonationNext]_impersonationVars => ImpersonationInv'
  <1> SUFFICES ASSUME ImpersonationInv, [ImpersonationNext]_impersonationVars
               PROVE  ImpersonationInv'
    OBVIOUS
  <1>1. CASE UNCHANGED impersonationVars
    BY <1>1 DEF impersonationVars, ImpersonationInv, ImpersonationTypeOK, PostsOpened, Alone, ExitsEnd,
                WayBack, SessionsHeld, Posted, Left, Own
  <1>2. CASE Unauthenticated \/ Login \/ LogoutHere \/ CookiesRunOut
    BY <1>2, BrowserStep
  <1>3. CASE StopPosts \/ \E u \in Users, r \in {"global", "other", "disabled"} : ChangeRank(u, r)
    BY <1>3, OutsideStep
  <1>4. ASSUME NEW q \in Posts,
               \/ FindTarget(q) \/ ActAsTarget(q) \/ CheckReal(q) \/ DropActed(q)
               \/ RenewReal(q) \/ RetireReal(q) \/ AnswerExit(q)
        PROVE  ImpersonationInv'
    BY <1>4, FindTargetStep, ActAsTargetStep, CheckRealStep, DropActedStep, RenewRealStep,
       RetireRealStep, AnswerExitStep
  <1>5. ASSUME NEW q \in Posts, NEW u \in Users, BeginImpersonate(q, u)
        PROVE  ImpersonationInv'
    <2>1. /\ BeginPost(q, "target", u) /\ nested \in BOOLEAN
          /\ nested' = (nested \/ realCookie # NoCookie)
      BY <1>5 DEF BeginImpersonate, ImpersonationInv, ImpersonationTypeOK
    <2>2. nested' \in BOOLEAN /\ (nested => nested') /\ (~nested' => realCookie = NoCookie)
      BY <2>1
    <2>3. QED
      BY <2>1, <2>2, BeginPostStep
  <1>6. ASSUME NEW q \in Posts, BeginExit(q)
        PROVE  ImpersonationInv'
    <2>1. /\ BeginPost(q, "leave", Boss) /\ nested' \in BOOLEAN /\ nested' = nested
          /\ realCookie # NoCookie /\ Boss \in Users
      BY <1>6 DEF BeginExit, ImpersonationInv, ImpersonationTypeOK, Users
    <2>2. QED
      BY <2>1, BeginPostStep
  <1>7. QED
    BY <1>1, <1>2, <1>3, <1>4, <1>5, <1>6 DEF ImpersonationNext

(* Every state of the browser, the sessions and the requests is            *)
(* well-typed.                                                             *)
THEOREM ImpersonationWellTyped == ImpersonationSpec => []ImpersonationTypeOK
  <1>1. ImpersonationInv => ImpersonationTypeOK
    BY DEF ImpersonationInv
  <1>2. QED
    BY <1>1, InitImpersonation, ImpersonationStep, PTL DEF ImpersonationSpec

(* Acting as another and back leaves no session that no cookie holds, and  *)
(* leads back to the browser's own user, but for the exceptions named.     *)
THEOREM ActingAlwaysEnds == ImpersonationSpec => []ActingEnds
  <1>1. ImpersonationInv => ActingEnds
    BY DEF ImpersonationInv, WayBack, Own, ActingEnds, BackToSelf
  <1>2. QED
    BY <1>1, InitImpersonation, ImpersonationStep, PTL DEF ImpersonationSpec
=============================================================================
