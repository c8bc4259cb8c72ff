---------------------------- MODULE CashierShift ----------------------------
(***************************************************************************)
(* The cashier shift: opening of the float by the store manager, its       *)
(* verification by the cashier, the drawer ledger while the shift trades,  *)
(* the cashier's count and the manager's final close with the variance and *)
(* the charge it may raise.                                                *)
(*                                                                         *)
(* Source: app/routes/cashier.shift.tsx (the cashier's console),           *)
(* app/routes/store.cashier-shifts.tsx (the manager's panel),              *)
(* app/routes/cashier.charges.tsx (acknowledgement), and the guard         *)
(* assertActiveShiftWritable that every money route of a cashier calls     *)
(* before it opens its transaction.                                        *)
(*                                                                         *)
(* A SERIALIZABLE transaction is one step, except the opening of a shift,  *)
(* whose read and commit are apart so that two managers' transactions may  *)
(* overlap: PostgreSQL then aborts the loser.  A drawer or collection      *)
(* request is two steps, because its check that the shift is OPEN is made  *)
(* before its transaction and is not repeated inside.                      *)
(***************************************************************************)
EXTENDS Integers

CONSTANTS
    Cashiers,   \* users with role CASHIER
    Managers,   \* users with role STORE_MANAGER
    Shifts,     \* ids of CashierShift rows
    Requests,   \* handler invocations that post money, each of which runs once
    Floats,     \* opening floats a manager may enter
    Amounts,    \* amounts of one posting
    Counts,     \* totals a cashier or a manager may count
    None        \* SQL NULL, or "nothing here"

ASSUME NumbersAssumption ==
    /\ Floats \subseteq Nat
    /\ Amounts \subseteq Nat \ {0}
    /\ Counts \subseteq Nat

VARIABLES
    shift,      \* CashierShift rows; None for an id not allocated yet
    ledger,     \* per shift, the sums over the money rows that carry its id
    variance,   \* CashierShiftVariance row of a shift, or None
    charge,     \* CashierCharge row of that variance, or None
    session,    \* the shiftId in a cashier's session cookie, or None
    opening,    \* a manager's transaction that found no live shift, or None
    pc,         \* where a posting request stands
    call        \* what a posting request posts, once it has passed the check

vars == <<shift, ledger, variance, charge, session, opening, pc, call>>

-----------------------------------------------------------------------------
(* Rows *)

Statuses == {"PENDING_ACCEPT", "OPENING_DISPUTED", "OPEN", "SUBMITTED",
             "FINAL_CLOSED"}

\* The manager's decision on a mismatch, None when no one was made.
Decisions == {"CHARGE_CASHIER", "INFO_ONLY", "WAIVE", None}

\* The manager's recount as final close appends it to the shift's notes.
Audits == [expected : Int, manager : Nat, decision : Decisions]

ShiftRows == [cashier : Cashiers, status : Statuses, closedAt : BOOLEAN,
              openingFloat : Nat, verified : BOOLEAN,
              closingTotal : Nat \cup {None}, audit : Audits \cup {None}]

\* CASH payments (tendered - change) and CustomerArPayments are both cash that
\* a customer or rider hands over: collected.
LedgerRows == [collected : Nat, deposits : Nat, withdrawals : Nat]

VarianceRows == [expected : Int, counted : Nat, variance : Int,
                 status : {"OPEN", "MANAGER_APPROVED", "WAIVED", "CLOSED"},
                 resolution : Decisions]

ChargeRows == [cashier : Cashiers, amount : Nat, status : {"OPEN"}]

Postings == {"COLLECT", "CASH_IN", "CASH_OUT"}

Calls == [kind : Postings, shift : Shifts, amount : Amounts]

Openings == [cashier : Cashiers, openingFloat : Nat]

\* A null is none of the values that may stand in its place.
ASSUME NoneAssumption ==
    /\ None \notin Shifts \cup Nat
    /\ None \notin ShiftRows \cup Audits \cup VarianceRows \cup ChargeRows
    /\ None \notin Calls \cup Openings

Rows == {s \in Shifts : shift[s] # None}

\* A shift is live while closedAt is null.
Live(c) == {s \in Rows : shift[s].cashier = c /\ ~shift[s].closedAt}

EmptyLedger == [collected |-> 0, deposits |-> 0, withdrawals |-> 0]

\* openingFloat + cashInTotal + deposits - withdrawals
ExpectedDrawer(s) ==
    shift[s].openingFloat + ledger[s].collected + ledger[s].deposits
        - ledger[s].withdrawals

-----------------------------------------------------------------------------
Init ==
    /\ shift = [s \in Shifts |-> None]
    /\ ledger = [s \in Shifts |-> EmptyLedger]
    /\ variance = [s \in Shifts |-> None]
    /\ charge = [s \in Shifts |-> None]
    /\ session = [c \in Cashiers |-> None]
    /\ opening = [m \in Managers |-> None]
    /\ pc = [r \in Requests |-> "ready"]
    /\ call = [r \in Requests |-> None]

-----------------------------------------------------------------------------
(* The manager opens a shift *)

\* The transaction's findFirst finds no live shift of the cashier.  (When it
\* finds one the answer is "exists" and nothing is written.)
OpenRead(m, c, f) ==
    /\ opening[m] = None
    /\ Live(c) = {}
    /\ opening' = [opening EXCEPT ![m] = [cashier |-> c, openingFloat |-> f]]
    /\ UNCHANGED <<shift, ledger, variance, charge, session, pc, call>>

\* Mutant: default isolation, under which both overlapping creates commit.
OthersSurvive(m) == [opening EXCEPT ![m] = None]

\* SERIALIZABLE: of the transactions that read "no live shift" of this cashier
\* one commits its create and the others fail with a serialization error.
OverlapAborted(m) ==
    [n \in Managers |->
        IF n = m \/ (/\ opening[n] # None
                     /\ opening[n].cashier = opening[m].cashier)
        THEN None ELSE opening[n]]

NewRow(c, f) ==
    [cashier |-> c, status |-> "PENDING_ACCEPT", closedAt |-> FALSE,
     openingFloat |-> f, verified |-> FALSE, closingTotal |-> None,
     audit |-> None]

OpenCommit(m) ==
    /\ opening[m] # None
    /\ \E s \in Shifts \ Rows :
          shift' = [shift EXCEPT ![s] =
                       NewRow(opening[m].cashier, opening[m].openingFloat)]
    /\ opening' = OverlapAborted(m)
    /\ UNCHANGED <<ledger, variance, charge, session, pc, call>>

\* Mutant: resend reopens a shift in any status that is not closed.
MayResendAlways(s) == ~shift[s].closedAt

MayResend(s) ==
    /\ ~shift[s].closedAt
    /\ shift[s].status \in {"OPENING_DISPUTED", "PENDING_ACCEPT"}

\* The manager sends the opening back to the cashier, with the float kept or
\* corrected, and the verification of the earlier one is erased.
Resend(s, f) ==
    /\ s \in Rows
    /\ MayResend(s)
    /\ shift' = [shift EXCEPT ![s].status = "PENDING_ACCEPT",
                              ![s].openingFloat = f,
                              ![s].verified = FALSE]
    /\ UNCHANGED <<ledger, variance, charge, session, opening, pc, call>>

-----------------------------------------------------------------------------
(* The cashier's session *)

\* Mutant: recovery keeps a cookie that names a closed shift.
ReattachWhenMissing(c) ==
    /\ session[c] = None
    /\ \E s \in Live(c) : session' = [session EXCEPT ![c] = s]
    /\ UNCHANGED <<shift, ledger, variance, charge, opening, pc, call>>

\* Any page of the cashier: a cookie that is missing or names a shift no longer
\* live is replaced by the live shift, or cleared when there is none.
Reattach(c) ==
    /\ session[c] \notin Live(c)
    /\ \/ \E s \in Live(c) : session' = [session EXCEPT ![c] = s]
       \/ Live(c) = {} /\ session[c] # None
          /\ session' = [session EXCEPT ![c] = None]
    /\ UNCHANGED <<shift, ledger, variance, charge, opening, pc, call>>

\* A login starts with no shiftId, whatever the shift in the database; a drawer
\* or count request that finds the shift of the cookie closed clears it too.
Logout(c) ==
    /\ session[c] # None
    /\ session' = [session EXCEPT ![c] = None]
    /\ UNCHANGED <<shift, ledger, variance, charge, opening, pc, call>>

-----------------------------------------------------------------------------
(* The cashier verifies the opening float *)

Verify(c, status) ==
    LET s == session[c] IN
    /\ s \in Live(c)
    /\ shift[s].status = "PENDING_ACCEPT"
    /\ shift' = [shift EXCEPT ![s].status = status, ![s].verified = TRUE]
    /\ UNCHANGED <<ledger, variance, charge, session, opening, pc, call>>

AcceptOpening(c) == Verify(c, "OPEN")

DisputeOpening(c) == Verify(c, "OPENING_DISPUTED")

-----------------------------------------------------------------------------
(* Money enters and leaves the drawer *)

\* assertActiveShiftWritable, and the same checks of the drawer actions.
Writable(c) ==
    /\ session[c] \in Live(c)
    /\ shift[session[c]].status = "OPEN"

BeginPosting(r, c, kind, amount) ==
    /\ pc[r] = "ready"
    /\ Writable(c)
    /\ pc' = [pc EXCEPT ![r] = "checked"]
    /\ call' = [call EXCEPT ![r] =
                   [kind |-> kind, shift |-> session[c], amount |-> amount]]
    /\ UNCHANGED <<shift, ledger, variance, charge, session, opening>>

\* Mutant: the drawer balance is not compared inside the transaction.
MayWithdrawUnchecked(s, amount) == ~shift[s].closedAt

\* Mutant: the transaction does not look at closedAt again.
MayWithdrawBlind(s, amount) == amount <= ExpectedDrawer(s)

\* What a withdrawal checks again inside its transaction.
MayWithdraw(s, amount) ==
    /\ ~shift[s].closedAt
    /\ amount <= ExpectedDrawer(s)

Posted(s, kind, amount) ==
    CASE kind = "COLLECT" -> [ledger EXCEPT ![s].collected = @ + amount]
      [] kind = "CASH_IN" -> [ledger EXCEPT ![s].deposits = @ + amount]
      [] kind = "CASH_OUT" -> [ledger EXCEPT ![s].withdrawals = @ + amount]

\* The transaction of a posting.  A withdrawal that finds the shift closed also
\* clears the cookie, whichever shift that names by now.
CommitPosting(r) ==
    LET k == call[r] IN
    /\ pc[r] = "checked"
    /\ \/ /\ k.kind = "CASH_OUT" => MayWithdraw(k.shift, k.amount)
          /\ ledger' = Posted(k.shift, k.kind, k.amount)
          /\ UNCHANGED session
       \/ /\ k.kind = "CASH_OUT" /\ ~MayWithdraw(k.shift, k.amount)
          /\ session' = IF shift[k.shift].closedAt
                        THEN [session EXCEPT ![shift[k.shift].cashier] = None]
                        ELSE session
          /\ UNCHANGED ledger
    /\ pc' = [pc EXCEPT ![r] = "done"]
    /\ call' = [call EXCEPT ![r] = None]
    /\ UNCHANGED <<shift, variance, charge, opening>>

-----------------------------------------------------------------------------
(* Count and final close *)

\* Mutant: a second submit replaces the first count.
MaySubmitAgain(c) ==
    /\ session[c] \in Live(c)
    /\ shift[session[c]].status \in {"OPEN", "SUBMITTED"}

MaySubmit(c) ==
    /\ session[c] \in Live(c)
    /\ shift[session[c]].status = "OPEN"

\* The cashier submits the counted cash once; the shift keeps its session.
SubmitCount(c, counted) ==
    /\ MaySubmit(c)
    /\ shift' = [shift EXCEPT ![session[c]].status = "SUBMITTED",
                              ![session[c]].closingTotal = counted]
    /\ UNCHANGED <<ledger, variance, charge, session, opening, pc, call>>

MayClose(s) ==
    /\ ~shift[s].closedAt
    /\ shift[s].status = "SUBMITTED"
    /\ shift[s].closingTotal # None

\* The manager's decision as recorded: an overage without one is INFO_ONLY.
Resolution(diff, decision) ==
    IF diff > 0 /\ decision = None THEN "INFO_ONLY" ELSE decision

\* Mutant: CHARGE_CASHIER is not limited to shortages.
DecisionAllowedAnyway(diff, decision, paperRef) ==
    diff < 0 => decision # None /\ paperRef

DecisionAllowed(diff, decision, paperRef) ==
    /\ diff < 0 => decision # None /\ paperRef
    /\ decision = "CHARGE_CASHIER" => diff < 0

VarianceStatus(decision) ==
    CASE decision = "WAIVE" -> "WAIVED"
      [] decision = None -> "OPEN"
      [] OTHER -> "MANAGER_APPROVED"

\* The manager recounts and closes: the variance row when the recount differs
\* from the expected drawer, the charge when the decision is CHARGE_CASHIER.
FinalClose(s, counted, requested, paperRef) ==
    LET expected == ExpectedDrawer(s)
        diff     == counted - expected
        decision == Resolution(diff, requested)
    IN
    /\ s \in Rows
    /\ MayClose(s)
    /\ DecisionAllowed(diff, decision, paperRef)
    /\ variance' = IF diff = 0 THEN variance ELSE
          [variance EXCEPT ![s] =
              [expected |-> expected, counted |-> counted, variance |-> diff,
               status |-> VarianceStatus(decision), resolution |-> decision]]
    /\ charge' = IF diff < 0 /\ decision = "CHARGE_CASHIER"
                 THEN [charge EXCEPT ![s] =
                          [cashier |-> shift[s].cashier, amount |-> -diff,
                           status |-> "OPEN"]]
                 ELSE charge
    /\ shift' = [shift EXCEPT ![s].status = "FINAL_CLOSED",
                    ![s].closedAt = TRUE,
                    ![s].audit = [expected |-> expected, manager |-> counted,
                                  decision |-> decision]]
    /\ UNCHANGED <<ledger, session, opening, pc, call>>

\* The cashier acknowledges a charge.
AcknowledgeCharge(c, s) ==
    /\ s \in Rows
    /\ shift[s].cashier = c
    /\ variance[s] # None
    /\ variance[s].resolution = "CHARGE_CASHIER"
    /\ variance[s].status = "MANAGER_APPROVED"
    /\ variance' = [variance EXCEPT ![s].status = "CLOSED"]
    /\ UNCHANGED <<shift, ledger, charge, session, opening, pc, call>>

-----------------------------------------------------------------------------
ManagerStep ==
    \/ \E m \in Managers, c \in Cashiers, f \in Floats : OpenRead(m, c, f)
    \/ \E m \in Managers : OpenCommit(m)
    \/ \E s \in Shifts, f \in Floats : Resend(s, f)
    \/ \E s \in Shifts, n \in Counts, d \in Decisions, p \in BOOLEAN :
          FinalClose(s, n, d, p)

CashierStep ==
    \E c \in Cashiers :
        \/ Reattach(c) \/ Logout(c)
        \/ AcceptOpening(c) \/ DisputeOpening(c)
        \/ \E n \in Counts : SubmitCount(c, n)
        \/ \E s \in Shifts : AcknowledgeCharge(c, s)
        \/ \E r \in Requests, k \in Postings, a \in Amounts :
              BeginPosting(r, c, k, a)

Next == ManagerStep \/ CashierStep \/ \E r \in Requests : CommitPosting(r)

Spec == Init /\ [][Next]_vars

-----------------------------------------------------------------------------
(* Properties *)

\* Every variable keeps its shape; a row never loses its owner or its float.
TypeOK ==
    /\ shift \in [Shifts -> ShiftRows \cup {None}]
    /\ ledger \in [Shifts -> LedgerRows]
    /\ variance \in [Shifts -> VarianceRows \cup {None}]
    /\ charge \in [Shifts -> ChargeRows \cup {None}]
    /\ session \in [Cashiers -> Shifts \cup {None}]
    /\ opening \in [Managers -> Openings \cup {None}]
    /\ pc \in [Requests -> {"ready", "checked", "done"}]
    /\ call \in [Requests -> Calls \cup {None}]

\* A cashier is never responsible for two drawers, although two managers may
\* open a shift for the same cashier at the same moment.
OneLiveShiftPerCashier ==
    \A c \in Cashiers : \A s, t \in Live(c) : s = t

\* No sequence of withdrawals, overlapping ones and those that commit after the
\* count included, takes more cash out of a drawer than was put into it, and
\* no correction of the float undercuts withdrawals already made.
DrawerNeverOverdrawn == \A s \in Rows : ExpectedDrawer(s) >= 0

\* Cash that arrives after the final close may raise the drawer above what the
\* manager closed against; nothing ever takes it below that, so a recorded
\* shortage is never larger than what the ledger of the shift can explain.
CloseAgainstFloor ==
    \A s \in Rows : shift[s].audit # None =>
        shift[s].audit.expected <= ExpectedDrawer(s)

\* The floor of a drawer, before and after its close: no overlap of postings,
\* corrections and closes takes it below zero, or below what was closed against.
DrawerFloor == DrawerNeverOverdrawn /\ CloseAgainstFloor

\* A charge stands exactly where the manager closed a short drawer with
\* CHARGE_CASHIER, for the amount missing, against the cashier of the shift.
ChargeMatchesShortage ==
    \A s \in Shifts :
        /\ charge[s] # None <=>
              /\ variance[s] # None
              /\ variance[s].resolution = "CHARGE_CASHIER"
        /\ charge[s] # None =>
              /\ variance[s].variance = -charge[s].amount
              /\ charge[s].amount > 0
              /\ shift[s] # None /\ shift[s].cashier = charge[s].cashier

\* Once the cashier has submitted the count, the count and the float are
\* history: no retry, resend or second close changes them, the only status
\* that can follow is FINAL_CLOSED, and after that the audit, the charge and
\* the recorded variance stay as the manager left them.
CountIsFinal ==
    [][ \A s \in Rows :
          /\ shift[s].closingTotal # None =>
                /\ shift'[s].closingTotal = shift[s].closingTotal
                /\ shift'[s].openingFloat = shift[s].openingFloat
                /\ shift'[s].status \in {"SUBMITTED", "FINAL_CLOSED"}
          /\ shift[s].closedAt =>
                /\ shift'[s] = shift[s]
                /\ charge'[s] = charge[s]
                /\ variance[s] # None =>
                      /\ variance'[s].variance = variance[s].variance
                      /\ variance'[s].resolution = variance[s].resolution
      ]_vars

\* docs/guide/CANONICAL_CASHIER_SHIFT_VARIANCE_FLOW.md:162: the cashier submits
\* the close count once "and drawer writes become locked for cashier".
DrawerLockedAfterSubmit ==
    [][ \A s \in Rows :
          shift[s].status \in {"SUBMITTED", "FINAL_CLOSED"} =>
              ledger'[s] = ledger[s] ]_vars

(* The abstract specification this one implements. *)

StageOf(c) ==
    IF Live(c) = {} THEN "none"
    ELSE LET status == shift[CHOOSE s \in Live(c) : TRUE].status IN
         CASE status = "OPEN" -> "trading"
           [] status = "SUBMITTED" -> "counted"
           [] OTHER -> "opening"

ReckoningOf(s) ==
    CASE s \notin Rows -> None
      [] s \in Rows /\ shift[s].audit = None -> None
      [] OTHER ->
            IF variance[s] = None THEN "balanced"
            ELSE IF variance[s].variance > 0 THEN "over"
            ELSE IF charge[s] # None THEN "charged" ELSE "excused"

Custody == INSTANCE ShiftCustody WITH
    stage <- [c \in Cashiers |-> StageOf(c)],
    reckoning <- [s \in Shifts |-> ReckoningOf(s)]

\* The shift routes implement the hand-over, count and reckoning of one drawer
\* per cashier: no stage is skipped and no drawer is reckoned twice.
CustodyRefined == Custody!Spec

(* Liveness *)

\* The server finishes the transactions it has begun; the cashier and the
\* manager do, sooner or later, the step their screens wait for.  The cashier's
\* steps need strong fairness: a logout or a resend disables them in between.
Fairness ==
    /\ \A r \in Requests : WF_vars(CommitPosting(r))
    /\ \A m \in Managers : WF_vars(OpenCommit(m))
    /\ \A c \in Cashiers :
          /\ WF_vars(Reattach(c))
          /\ SF_vars(AcceptOpening(c))
          /\ SF_vars(\E n \in Counts : SubmitCount(c, n))
    /\ \A s \in Shifts :
          /\ WF_vars(\E f \in Floats : Resend(s, f))
          /\ WF_vars(\E n \in Counts, d \in Decisions, p \in BOOLEAN :
                        FinalClose(s, n, d, p))

FairSpec == Spec /\ Fairness

\* No status is a dead end and no stale cookie locks a cashier out for good:
\* every shift that was opened is closed in the end.
EveryShiftCloses ==
    \A s \in Shifts :
        s \in Rows ~> s \in Rows /\ shift[s].status = "FINAL_CLOSED"

=============================================================================
