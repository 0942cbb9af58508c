------------------------------ MODULE Passkeys ------------------------------
(***************************************************************************)
(* The two WebAuthn ceremonies of one local user (auth_passkey.go,         *)
(* db/passkey.go).  A ceremony is a challenge in a map in memory, taken    *)
(* out by the request that finishes it; the request then reads the         *)
(* credential, has the library verify the answer, and writes back the      *)
(* whole credential with the count the authenticator signed.               *)
(***************************************************************************)
EXTENDS Naturals, FiniteSets

CONSTANTS Challenges,    \* tokens of ceremonies (a bound)
          Finishes,      \* finish requests in progress at once (a bound)
          Keys,          \* authenticators
          MaxSignatures  \* assertions each authenticator signs (a bound)

ASSUME PasskeysAssumption == MaxSignatures \in Nat

VARIABLES
    ceremonies,   \* passkeySessions: what each challenge in it is for
    answers,      \* what browsers have been given by authenticators
    signed,       \* authenticator: the signatures made
    credentials,  \* webauthn_credentials rows: the stored sign count
    finishes,     \* finish requests between two of their steps
    enabled,      \* NOT users.disabled
    (* History variables, never read by the code. *)
    opened,       \* sessions and credentials each challenge has led to
    raced         \* keys with two logins in progress at once, ever

passkeyVars == <<ceremonies, answers, signed, credentials, finishes, enabled, opened, raced>>

NotStored == MaxSignatures + 1      \* never registered
Removed == MaxSignatures + 2        \* registered once and deleted; its id is not used again

Answer == [challenge : Challenges, key : Keys, count : 0..MaxSignatures, kind : {"login", "register"}]

NoFinish == [stage |-> "idle"]
FinishStage == {"load", "verify", "read", "write", "session", "save"}
Finish == [stage : FinishStage, answer : Answer, count : 0..MaxSignatures]

PasskeysTypeOK ==
    /\ ceremonies \in [Challenges -> {"unused", "login", "register", "stale", "gone"}]
    /\ answers \subseteq Answer
    /\ signed \in [Keys -> 0..MaxSignatures]
    /\ credentials \in [Keys -> 0..Removed]
    /\ finishes \in [Finishes -> Finish \cup {NoFinish}]
    /\ enabled \in BOOLEAN
    /\ opened \in [Challenges -> Nat]
    /\ raced \subseteq Keys

(* The server starts with a table from before: keys registered or not yet. *)
PasskeysInit ==
    /\ ceremonies = [c \in Challenges |-> "unused"]
    /\ answers = {}
    /\ signed = [k \in Keys |-> 0]
    /\ credentials \in [Keys -> {NotStored, 0}]
    /\ finishes = [f \in Finishes |-> NoFinish]
    /\ enabled = TRUE
    /\ opened = [c \in Challenges |-> 0]
    /\ raced = {}

(* PasskeyRegisterBegin and PasskeyLoginBegin store a challenge.           *)
BeginCeremony(c, kind) ==
    /\ ceremonies[c] = "unused"
    /\ kind = "register" => enabled
    /\ ceremonies' = [ceremonies EXCEPT ![c] = kind]
    /\ UNCHANGED <<answers, signed, credentials, finishes, enabled, opened, raced>>

(* The authenticator counts its assertions; it keeps no list of them.      *)
Sign(c, k) ==
    /\ ceremonies[c] \in {"login", "register"}
    /\ ceremonies[c] = "login" => signed[k] < MaxSignatures
    /\ LET n == IF ceremonies[c] = "login" THEN signed[k] + 1 ELSE signed[k]
       IN  /\ signed' = [signed EXCEPT ![k] = n]
           /\ answers' = answers \cup
                 {[challenge |-> c, key |-> k, count |-> n, kind |-> ceremonies[c]]}
    /\ UNCHANGED <<ceremonies, credentials, finishes, enabled, opened, raced>>

(* Five minutes pass.  Nothing takes an abandoned challenge out.           *)
ChallengeExpires(c) ==
    /\ ceremonies[c] \in {"login", "register"}
    /\ ceremonies' = [ceremonies EXCEPT ![c] = "stale"]
    /\ UNCHANGED <<answers, signed, credentials, finishes, enabled, opened, raced>>

(* The browser posts an answer, perhaps one it has posted before.          *)
PostFinish(f, a) ==
    /\ finishes[f] = NoFinish /\ a \in answers
    /\ finishes' = [finishes EXCEPT ![f] = [stage |-> "load", answer |-> a, count |-> 0]]
    /\ UNCHANGED <<ceremonies, answers, signed, credentials, enabled, opened, raced>>

Stage(f, stage) == finishes' = [finishes EXCEPT ![f].stage = stage]
EndFinish(f) == finishes' = [finishes EXCEPT ![f] = NoFinish]

(* The challenge is looked up and left in the map.                         *)
LoadOnly(f) ==
    /\ finishes[f] # NoFinish /\ finishes[f].stage = "load"
    /\ IF ceremonies[finishes[f].answer.challenge] = finishes[f].answer.kind
       THEN Stage(f, "verify") ELSE EndFinish(f)
    /\ UNCHANGED <<ceremonies, answers, signed, credentials, enabled, opened, raced>>

(* LoadAndDelete: whoever comes first has it, expired or not.              *)
LoadAndDelete(f) ==
    /\ finishes[f] # NoFinish /\ finishes[f].stage = "load"
    /\ LET c == finishes[f].answer.challenge
       IN  /\ ceremonies' = [ceremonies EXCEPT ![c] = "gone"]
           /\ IF ceremonies[c] = finishes[f].answer.kind THEN Stage(f, "verify") ELSE EndFinish(f)
    /\ UNCHANGED <<answers, signed, credentials, enabled, opened, raced>>

At(f, stage) == finishes[f] # NoFinish /\ finishes[f].stage = stage
KeyOf(f) == finishes[f].answer.key
Stored(k) == credentials[k] <= MaxSignatures

(* Logins of one key between the verification and the write.               *)
InLogin(k) == {f \in Finishes : \E s \in {"read", "write"} : At(f, s) /\ KeyOf(f) = k}

(* FinishPasskeyLogin for a user who is not disabled, with a stored key.   *)
(* The library takes the signed count over when it is above the stored one *)
(* and leaves the stored one otherwise, which is no error.                 *)
VerifyLogin(f) ==
    /\ At(f, "verify") /\ finishes[f].answer.kind = "login"
    /\ LET k == KeyOf(f)
           n == finishes[f].answer.count
       IN  IF enabled /\ Stored(k)
           THEN /\ finishes' = [finishes EXCEPT ![f].stage = "read",
                      ![f].count = IF n > credentials[k] THEN n ELSE credentials[k]]
                /\ raced' = IF InLogin(k) # {} THEN raced \cup {k} ELSE raced
           ELSE EndFinish(f) /\ UNCHANGED raced
    /\ UNCHANGED <<ceremonies, answers, signed, credentials, enabled, opened>>

(* UpdateWebAuthnCredentialUsed reads the row to patch; an error, or a row *)
(* that is gone, is a warning and the login goes on.                       *)
ReadCredential(f) ==
    /\ At(f, "read")
    /\ \/ Stored(KeyOf(f)) /\ Stage(f, "write")
       \/ Stage(f, "session")
    /\ UNCHANGED <<ceremonies, answers, signed, credentials, enabled, opened, raced>>

(* The count the authenticator sent, whatever was made of it.              *)
WriteSignedCount(f) ==
    /\ At(f, "write")
    /\ credentials' = [credentials EXCEPT ![KeyOf(f)] =
                          IF Stored(KeyOf(f)) THEN finishes[f].answer.count ELSE @]
    /\ Stage(f, "session")
    /\ UNCHANGED <<ceremonies, answers, signed, enabled, opened, raced>>

WriteCredential(f) ==
    /\ At(f, "write")
    /\ credentials' = [credentials EXCEPT ![KeyOf(f)] =
                          IF Stored(KeyOf(f)) THEN finishes[f].count ELSE @]
    /\ Stage(f, "session")
    /\ UNCHANGED <<ceremonies, answers, signed, enabled, opened, raced>>

Opens(f) == opened' = [opened EXCEPT ![finishes[f].answer.challenge] = @ + 1]

OpenSession(f) ==
    /\ At(f, "session")
    /\ Opens(f) /\ EndFinish(f)
    /\ UNCHANGED <<ceremonies, answers, signed, credentials, enabled, raced>>

(* FinishRegistration; a credential id that has a row already is an error. *)
VerifyRegistration(f) ==
    /\ At(f, "verify") /\ finishes[f].answer.kind = "register"
    /\ IF credentials[KeyOf(f)] = NotStored THEN Stage(f, "save") ELSE EndFinish(f)
    /\ UNCHANGED <<ceremonies, answers, signed, credentials, enabled, opened, raced>>

SaveRegistration(f) ==
    /\ At(f, "save")
    /\ IF credentials[KeyOf(f)] = NotStored
       THEN /\ credentials' = [credentials EXCEPT ![KeyOf(f)] = finishes[f].answer.count]
            /\ Opens(f)
       ELSE UNCHANGED <<credentials, opened>>
    /\ EndFinish(f)
    /\ UNCHANGED <<ceremonies, answers, signed, enabled, raced>>

PasskeyDelete(k) ==
    /\ Stored(k)
    /\ credentials' = [credentials EXCEPT ![k] = Removed]
    /\ UNCHANGED <<ceremonies, answers, signed, finishes, enabled, opened, raced>>

SetEnabled(v) ==
    /\ v # enabled
    /\ enabled' = v
    /\ UNCHANGED <<ceremonies, answers, signed, credentials, finishes, opened, raced>>

(* A restart forgets every challenge and the requests in progress.         *)
RestartPasskeys ==
    /\ ceremonies' = [c \in Challenges |-> IF ceremonies[c] = "unused" THEN "unused" ELSE "gone"]
    /\ finishes' = [f \in Finishes |-> NoFinish]
    /\ UNCHANGED <<answers, signed, credentials, enabled, opened, raced>>

PasskeysNext ==
    \/ \E c \in Challenges :
          \/ \E kind \in {"login", "register"} : BeginCeremony(c, kind)
          \/ \E k \in Keys : Sign(c, k)
          \/ ChallengeExpires(c)
    \/ \E f \in Finishes :
          \/ \E a \in answers : PostFinish(f, a)
          \/ LoadAndDelete(f)
          \/ VerifyLogin(f) \/ ReadCredential(f) \/ WriteCredential(f) \/ OpenSession(f)
          \/ VerifyRegistration(f) \/ SaveRegistration(f)
    \/ \E k \in Keys : PasskeyDelete(k)
    \/ \E v \in BOOLEAN : SetEnabled(v)
    \/ RestartPasskeys

PasskeysSpec == PasskeysInit /\ [][PasskeysNext]_passkeyVars

-----------------------------------------------------------------------------
(* Properties.                                                             *)

(* A ceremony leads to one session or one credential at most, however      *)
(* often its answer is posted.                                             *)
CeremonyEndsOnce == \A c \in Challenges : opened[c] <= 1

(* The stored sign count, by which a cloned authenticator would show, never*)
(* falls, unless two logins with the key overlapped.                       *)
SignCountGrows ==
    [][\A k \in Keys : credentials'[k] < credentials[k]
          => credentials[k] = NotStored \/ k \in raced]_passkeyVars

(* An answer posted twice neither opens a second session nor puts an older *)
(* count back.                                                             *)
CeremoniesHold == []CeremonyEndsOnce /\ SignCountGrows
=============================================================================
