------------------------ MODULE CertificationLedger ------------------------
(***************************************************************************)
(* What the calendar promises about monthly certification, without the     *)
(* requests that implement it: a month that is certified is complete and   *)
(* frozen, and only a decertification opens it again.  Each step is the    *)
(* whole effect of one request.                                            *)
(***************************************************************************)
EXTENDS Halves

CONSTANTS Users, Dates, Months, Statuses,
          MonthOf,        \* [Dates -> Months]
          Declarable      \* [Users -> SUBSET Dates]: working days that are not
                          \* non-imputable holidays for the user

VARIABLES presence, certified

ledgerVars == <<presence, certified>>

DatesOf(m) == {d \in Dates : MonthOf[d] = m}

(* computeMonthCompletion: some day is declarable and every one declared.  *)
Complete(rows, days, m) ==
    LET due == days \cap DatesOf(m)
    IN  due # {} /\ \A d \in due : Declared(rows[d])

LedgerInit ==
    /\ presence = [u \in Users |-> [d \in Dates |-> NoDay]]
    /\ certified = {}

Open(u, dates) == \A d \in dates : <<u, MonthOf[d]>> \notin certified

Declare(u, dates, h, s) ==
    /\ Open(u, dates)
    /\ presence' = [presence EXCEPT ![u] = SetDays(@, dates, h, s)]
    /\ UNCHANGED certified

Clear(u, dates, h) ==
    /\ Open(u, dates)
    /\ presence' = [presence EXCEPT ![u] = ClearDays(@, dates, h)]
    /\ UNCHANGED certified

Certify(u, m) ==
    /\ Complete(presence[u], Declarable[u], m)
    /\ certified' = certified \cup {<<u, m>>}
    /\ UNCHANGED presence

Decertify(u, m) ==
    /\ certified' = certified \ {<<u, m>>}
    /\ UNCHANGED presence

LedgerNext ==
    \E u \in Users :
        \/ \E dates \in SUBSET Dates, h \in Half, s \in Statuses : Declare(u, dates, h, s)
        \/ \E dates \in SUBSET Dates, h \in HalfArg : Clear(u, dates, h)
        \/ \E m \in Months : Certify(u, m) \/ Decertify(u, m)

LedgerSpec == LedgerInit /\ [][LedgerNext]_ledgerVars
=============================================================================
