------------------------- MODULE CashierShiftProofs -------------------------
(***************************************************************************)
(* What CashierShift guarantees for any number of cashiers, managers,      *)
(* shifts and requests, and any floats, amounts and counts.                *)
(***************************************************************************)
EXTENDS CashierShift, TLAPS

\* A request between its check and its transaction knows what it posts, and on
\* a row that exists and has left the opening stage for good.
CallsOK ==
    \A r \in Requests : pc[r] = "checked" =>
        /\ call[r] # None
        /\ call[r].shift \in Rows
        /\ shift[call[r].shift].status \in {"OPEN", "SUBMITTED", "FINAL_CLOSED"}

\* closedAt, the audit and the count agree with the status of the row.
RowsOK ==
    \A s \in Rows :
        /\ shift[s].closedAt <=> shift[s].status = "FINAL_CLOSED"
        /\ shift[s].audit # None <=> shift[s].status = "FINAL_CLOSED"
        /\ shift[s].closingTotal # None <=>
              shift[s].status \in {"SUBMITTED", "FINAL_CLOSED"}

\* Money rows appear only once the shift has been open, and a variance or a
\* charge only once it is closed.
FreshOK ==
    \A s \in Shifts :
        /\ (s \in Rows => shift[s].status \in {"PENDING_ACCEPT", "OPENING_DISPUTED"})
              => ledger[s] = EmptyLedger
        /\ (s \in Rows => shift[s].status # "FINAL_CLOSED")
              => variance[s] = None /\ charge[s] = None

\* A transaction that is about to create a shift still reads the truth.
OpeningOK ==
    \A m \in Managers : opening[m] # None => Live(opening[m].cashier) = {}

\* The inductive invariant behind the theorems of this module.
ShiftInv ==
    /\ TypeOK
    /\ CallsOK
    /\ RowsOK
    /\ FreshOK
    /\ OpeningOK
    /\ OneLiveShiftPerCashier
    /\ DrawerNeverOverdrawn
    /\ CloseAgainstFloor
    /\ ChargeMatchesShortage

\* What the final close computes and writes into the audit is well formed.
LEMMA CloseTyped ==
    ASSUME TypeOK, NEW s \in Rows, NEW n \in Counts, NEW d \in Decisions
    PROVE  LET diff == n - ExpectedDrawer(s) IN
           /\ ExpectedDrawer(s) \in Int
           /\ diff \in Int
           /\ Resolution(diff, d) \in Decisions
           /\ [expected |-> ExpectedDrawer(s), manager |-> n,
               decision |-> Resolution(diff, d)] \in Audits
<1>1. shift[s] \in ShiftRows /\ ledger[s] \in LedgerRows
  BY DEF TypeOK, Rows
<1>2. ExpectedDrawer(s) \in Int
  BY <1>1 DEF ExpectedDrawer, ShiftRows, LedgerRows
<1>3. Resolution(n - ExpectedDrawer(s), d) \in Decisions
  BY DEF Resolution, Decisions
<1> QED BY <1>2, <1>3, NumbersAssumption DEF Audits

\* Every step keeps the shape of the rows the handlers read and write.
LEMMA TypeStep ==
    ASSUME TypeOK, CallsOK, [Next]_vars
    PROVE  TypeOK'
<1> USE NumbersAssumption, NoneAssumption
<1>1. ASSUME NEW m \in Managers, NEW c \in Cashiers, NEW f \in Floats,
             OpenRead(m, c, f)
      PROVE  TypeOK'
  BY <1>1 DEF TypeOK, OpenRead, Openings
<1>2. ASSUME NEW m \in Managers, OpenCommit(m)
      PROVE  TypeOK'
  <2>1. opening[m].cashier \in Cashiers /\ opening[m].openingFloat \in Nat
    BY <1>2 DEF TypeOK, OpenCommit, Openings
  <2>2. NewRow(opening[m].cashier, opening[m].openingFloat) \in ShiftRows
    BY <2>1 DEF NewRow, ShiftRows, Statuses
  <2>3. shift' \in [Shifts -> ShiftRows \cup {None}]
    BY <1>2, <2>2 DEF TypeOK, OpenCommit, Rows
  <2>4. opening' \in [Managers -> Openings \cup {None}]
    BY <1>2 DEF TypeOK, OpenCommit, OverlapAborted
  <2> QED BY <1>2, <2>3, <2>4 DEF TypeOK, OpenCommit
<1>3. ASSUME NEW s \in Shifts, NEW f \in Floats, Resend(s, f)
      PROVE  TypeOK'
  <2>1. shift[s] \in ShiftRows
    BY <1>3 DEF TypeOK, Resend, Rows
  <2>2. [shift[s] EXCEPT !.status = "PENDING_ACCEPT", !.openingFloat = f,
                         !.verified = FALSE] \in ShiftRows
    BY <2>1 DEF ShiftRows, Statuses
  <2> QED BY <1>3, <2>2 DEF TypeOK, Resend
<1>4. ASSUME NEW c \in Cashiers, Reattach(c) \/ Logout(c)
      PROVE  TypeOK'
  BY <1>4 DEF TypeOK, Reattach, Logout, Live, Rows
<1>5. ASSUME NEW c \in Cashiers, AcceptOpening(c) \/ DisputeOpening(c)
      PROVE  TypeOK'
  <2>1. PICK st \in Statuses : Verify(c, st)
    BY <1>5 DEF AcceptOpening, DisputeOpening, Statuses
  <2>2. session[c] \in Shifts /\ shift[session[c]] \in ShiftRows
    BY <2>1 DEF TypeOK, Verify, Live, Rows
  <2>3. [shift[session[c]] EXCEPT !.status = st, !.verified = TRUE]
            \in ShiftRows
    BY <2>2 DEF ShiftRows
  <2> QED BY <2>1, <2>3 DEF TypeOK, Verify
<1>6. ASSUME NEW r \in Requests, NEW c \in Cashiers, NEW k \in Postings,
             NEW a \in Amounts, BeginPosting(r, c, k, a)
      PROVE  TypeOK'
  BY <1>6 DEF TypeOK, BeginPosting, Writable, Live, Rows, Calls
<1>7. ASSUME NEW r \in Requests, CommitPosting(r)
      PROVE  TypeOK'
  <2>1. call[r] \in Calls
    BY <1>7 DEF TypeOK, CallsOK, CommitPosting
  <2> DEFINE k == call[r]
  <2>2. k.kind \in Postings /\ k.shift \in Shifts /\ k.amount \in Nat
    BY <2>1 DEF Calls
  <2>3. ledger[k.shift] \in LedgerRows
    BY <2>2 DEF TypeOK
  <2>4. Posted(k.shift, k.kind, k.amount) \in [Shifts -> LedgerRows]
    <3>1. CASE k.kind = "COLLECT"
      BY <2>2, <2>3, <3>1 DEF TypeOK, Posted, LedgerRows
    <3>2. CASE k.kind = "CASH_IN"
      BY <2>2, <2>3, <3>2 DEF TypeOK, Posted, LedgerRows
    <3>3. CASE k.kind = "CASH_OUT"
      BY <2>2, <2>3, <3>3 DEF TypeOK, Posted, LedgerRows
    <3> QED BY <2>2, <3>1, <3>2, <3>3 DEF Postings
  <2>5. ledger' \in [Shifts -> LedgerRows]
    BY <1>7, <2>4 DEF TypeOK, CommitPosting
  <2> QED BY <1>7, <2>5 DEF TypeOK, CommitPosting
<1>8. ASSUME NEW c \in Cashiers, NEW n \in Counts, SubmitCount(c, n)
      PROVE  TypeOK'
  <2>1. session[c] \in Shifts /\ shift[session[c]] \in ShiftRows
    BY <1>8 DEF TypeOK, SubmitCount, MaySubmit, Live, Rows
  <2>2. [shift[session[c]] EXCEPT !.status = "SUBMITTED", !.closingTotal = n]
            \in ShiftRows
    BY <2>1 DEF ShiftRows, Statuses
  <2> QED BY <1>8, <2>2 DEF TypeOK, SubmitCount
<1>9. ASSUME NEW s \in Shifts, NEW n \in Counts, NEW d \in Decisions,
             NEW p \in BOOLEAN, FinalClose(s, n, d, p)
      PROVE  TypeOK'
  <2> DEFINE expected == ExpectedDrawer(s)
             diff     == n - expected
             decision == Resolution(diff, d)
  <2>1. s \in Rows /\ shift[s] \in ShiftRows /\ n \in Nat
    BY <1>9 DEF TypeOK, FinalClose, Rows
  <2>2. expected \in Int /\ diff \in Int
    BY <2>1, CloseTyped
  <2>3. decision \in Decisions
    BY <2>1, CloseTyped
  <2> HIDE DEF expected, diff, decision
  <2>4. VarianceStatus(decision) \in
          {"OPEN", "MANAGER_APPROVED", "WAIVED", "CLOSED"}
    BY <2>3 DEF VarianceStatus, Decisions
  <2>5. variance' \in [Shifts -> VarianceRows \cup {None}]
    <3>1. [expected |-> expected, counted |-> n, variance |-> diff,
           status |-> VarianceStatus(decision), resolution |-> decision]
             \in VarianceRows
      BY <2>1, <2>2, <2>3, <2>4 DEF VarianceRows
    <3> QED BY <1>9, <3>1 DEF TypeOK, FinalClose, expected, diff, decision
  <2>6. charge' \in [Shifts -> ChargeRows \cup {None}]
    <3>1. diff < 0 => [cashier |-> shift[s].cashier, amount |-> -diff,
                       status |-> "OPEN"] \in ChargeRows
      BY <2>1, <2>2 DEF ChargeRows, ShiftRows
    <3> QED BY <1>9, <3>1 DEF TypeOK, FinalClose, expected, diff, decision
  <2>7. shift' \in [Shifts -> ShiftRows \cup {None}]
    <3>1. [expected |-> expected, manager |-> n, decision |-> decision]
             \in Audits
      BY <2>1, <2>2, <2>3 DEF Audits
    <3>2. [shift[s] EXCEPT !.status = "FINAL_CLOSED", !.closedAt = TRUE,
              !.audit = [expected |-> expected, manager |-> n,
                         decision |-> decision]] \in ShiftRows
      BY <2>1, <3>1 DEF ShiftRows, Statuses
    <3> QED BY <1>9, <3>2 DEF TypeOK, FinalClose, expected, diff, decision
  <2> QED BY <1>9, <2>5, <2>6, <2>7 DEF TypeOK, FinalClose
<1>10. ASSUME NEW c \in Cashiers, NEW s \in Shifts, AcknowledgeCharge(c, s)
       PROVE  TypeOK'
  BY <1>10 DEF TypeOK, AcknowledgeCharge, VarianceRows
<1>11. CASE UNCHANGED vars
  BY <1>11 DEF TypeOK, vars
<1> QED
  BY <1>1, <1>2, <1>3, <1>4, <1>5, <1>6, <1>7, <1>8, <1>9, <1>10, <1>11
  DEF Next, ManagerStep, CashierStep

-----------------------------------------------------------------------------
\* The posting of a request touches the ledger of one shift only, and moves its
\* expected drawer by the amount.
LEMMA PostingEffect ==
    ASSUME TypeOK, NEW s \in Shifts, NEW k \in Postings, NEW a \in Amounts,
           ledger' = Posted(s, k, a)
    PROVE  /\ \A t \in Shifts : t # s => ledger'[t] = ledger[t]
           /\ ledger'[s] \in LedgerRows
           /\ shift[s] # None => shift[s] \in ShiftRows
           /\ (shift'[s] # None /\ shift[s] = shift'[s]) =>
                 ExpectedDrawer(s)' = IF k = "CASH_OUT"
                                      THEN ExpectedDrawer(s) - a
                                      ELSE ExpectedDrawer(s) + a
<1> USE NumbersAssumption
<1>1. ledger[s] \in LedgerRows /\ (shift[s] # None => shift[s] \in ShiftRows)
  BY DEF TypeOK
<1>2. CASE k = "COLLECT"
  BY <1>1, <1>2 DEF TypeOK, Posted, LedgerRows, ShiftRows, ExpectedDrawer
<1>3. CASE k = "CASH_IN"
  BY <1>1, <1>3 DEF TypeOK, Posted, LedgerRows, ShiftRows, ExpectedDrawer
<1>4. CASE k = "CASH_OUT"
  BY <1>1, <1>4 DEF TypeOK, Posted, LedgerRows, ShiftRows, ExpectedDrawer
<1> QED BY <1>2, <1>3, <1>4 DEF Postings

\* The status of a row only moves forward once the float is accepted, and the
\* columns that depend on it move with it.
LEMMA LifecycleStep ==
    ASSUME TypeOK, CallsOK, RowsOK, FreshOK, [Next]_vars
    PROVE  CallsOK' /\ RowsOK' /\ FreshOK'
<1> USE NumbersAssumption
<1>1. ASSUME NEW m \in Managers, NEW c \in Cashiers, NEW f \in Floats,
             OpenRead(m, c, f)
      PROVE  CallsOK' /\ RowsOK' /\ FreshOK'
  BY <1>1 DEF CallsOK, RowsOK, FreshOK, OpenRead, Rows
<1>2. ASSUME NEW m \in Managers, OpenCommit(m)
      PROVE  CallsOK' /\ RowsOK' /\ FreshOK'
  <2>1. PICK s \in Shifts \ Rows : shift' = [shift EXCEPT ![s] =
                 NewRow(opening[m].cashier, opening[m].openingFloat)]
    BY <1>2 DEF OpenCommit
  <2>2. shift[s] = None /\ \A t \in Shifts : t # s => shift'[t] = shift[t]
    BY <2>1 DEF TypeOK, Rows
  <2>3. /\ shift'[s] = NewRow(opening[m].cashier, opening[m].openingFloat)
        /\ s \in Shifts
    BY <2>1 DEF TypeOK
  <2>4. CallsOK'
    BY <1>2, <2>2 DEF CallsOK, OpenCommit, Rows, TypeOK
  <2>5. RowsOK'
    BY <1>2, <2>2, <2>3 DEF RowsOK, OpenCommit, Rows, NewRow
  <2>6. FreshOK'
    BY <1>2, <2>2, <2>3 DEF FreshOK, OpenCommit, Rows, NewRow
  <2> QED BY <2>4, <2>5, <2>6
<1>3. ASSUME NEW s \in Shifts, NEW f \in Floats, Resend(s, f)
      PROVE  CallsOK' /\ RowsOK' /\ FreshOK'
  <2>1. /\ s \in Rows
        /\ shift[s] \in ShiftRows
        /\ shift[s].status \in {"PENDING_ACCEPT", "OPENING_DISPUTED"}
        /\ \A t \in Shifts : t # s => shift'[t] = shift[t]
        /\ shift'[s] = [shift[s] EXCEPT !.status = "PENDING_ACCEPT",
                           !.openingFloat = f, !.verified = FALSE]
        /\ UNCHANGED <<ledger, variance, charge, pc, call>>
    BY <1>3 DEF Resend, MayResend, TypeOK, Rows
  <2>2. /\ shift'[s] \in ShiftRows
        /\ shift'[s].status = "PENDING_ACCEPT"
        /\ shift'[s].closedAt = shift[s].closedAt
        /\ shift'[s].audit = shift[s].audit
        /\ shift'[s].closingTotal = shift[s].closingTotal
    BY <2>1 DEF ShiftRows, Statuses
  <2>3. shift'[s] # None
    BY <2>2, NoneAssumption
  <2>4. CallsOK'
    BY <2>1, <2>2, <2>3 DEF CallsOK, Rows
  <2>5. RowsOK'
    <3> SUFFICES ASSUME NEW t \in Rows'
                 PROVE  /\ shift'[t].closedAt <=> shift'[t].status = "FINAL_CLOSED"
                        /\ shift'[t].audit # None <=>
                              shift'[t].status = "FINAL_CLOSED"
                        /\ shift'[t].closingTotal # None <=>
                              shift'[t].status \in {"SUBMITTED", "FINAL_CLOSED"}
      BY DEF RowsOK
    <3>1. CASE t = s
      BY <2>1, <2>2, <2>3, <3>1 DEF RowsOK
    <3>2. CASE t # s
      BY <2>1, <3>2 DEF RowsOK, Rows
    <3> QED BY <3>1, <3>2
  <2>6. FreshOK'
    BY <2>1, <2>2, <2>3 DEF FreshOK, Rows
  <2> QED BY <2>4, <2>5, <2>6
<1>4. ASSUME NEW c \in Cashiers, Reattach(c) \/ Logout(c)
      PROVE  CallsOK' /\ RowsOK' /\ FreshOK'
  BY <1>4 DEF CallsOK, RowsOK, FreshOK, Reattach, Logout, Rows
<1>5. ASSUME NEW c \in Cashiers, AcceptOpening(c) \/ DisputeOpening(c)
      PROVE  CallsOK' /\ RowsOK' /\ FreshOK'
  <2>1. PICK st \in {"OPEN", "OPENING_DISPUTED"} : Verify(c, st)
    BY <1>5 DEF AcceptOpening, DisputeOpening
  <2> DEFINE s == session[c]
  <2>2. /\ s \in Rows
        /\ shift[s] \in ShiftRows
        /\ shift[s].status = "PENDING_ACCEPT"
        /\ \A t \in Shifts : t # s => shift'[t] = shift[t]
        /\ shift'[s] = [shift[s] EXCEPT !.status = st, !.verified = TRUE]
        /\ UNCHANGED <<ledger, variance, charge, pc, call>>
    BY <2>1 DEF Verify, Live, Rows, TypeOK
  <2> HIDE DEF s
  <2>3. /\ shift'[s] \in ShiftRows
        /\ shift'[s].status = st
        /\ shift'[s].closedAt = shift[s].closedAt
        /\ shift'[s].audit = shift[s].audit
        /\ shift'[s].closingTotal = shift[s].closingTotal
    BY <2>2 DEF ShiftRows, Statuses
  <2>4. shift'[s] # None
    BY <2>3, NoneAssumption
  <2>5. CallsOK'
    BY <2>2, <2>3, <2>4 DEF CallsOK, Rows
  <2>6. RowsOK'
    <3> SUFFICES ASSUME NEW t \in Rows'
                 PROVE  /\ shift'[t].closedAt <=> shift'[t].status = "FINAL_CLOSED"
                        /\ shift'[t].audit # None <=>
                              shift'[t].status = "FINAL_CLOSED"
                        /\ shift'[t].closingTotal # None <=>
                              shift'[t].status \in {"SUBMITTED", "FINAL_CLOSED"}
      BY DEF RowsOK
    <3>1. CASE t = s
      BY <2>1, <2>2, <2>3, <2>4, <3>1 DEF RowsOK
    <3>2. CASE t # s
      BY <2>2, <3>2 DEF RowsOK, Rows
    <3> QED BY <3>1, <3>2
  <2>7. FreshOK'
    BY <2>2, <2>3, <2>4 DEF FreshOK, Rows
  <2> QED BY <2>5, <2>6, <2>7
<1>6. ASSUME NEW r \in Requests, NEW c \in Cashiers, NEW k \in Postings,
             NEW a \in Amounts, BeginPosting(r, c, k, a)
      PROVE  CallsOK' /\ RowsOK' /\ FreshOK'
  <2>1. session[c] \in Rows /\ shift[session[c]].status = "OPEN"
    BY <1>6 DEF BeginPosting, Writable, Live
  <2>2. call'[r] # None /\ call'[r].shift = session[c]
    <3>1. call'[r] \in Calls
      BY <1>6, <2>1 DEF BeginPosting, TypeOK, Calls, Rows
    <3> QED BY <1>6, <3>1, NoneAssumption DEF BeginPosting, TypeOK
  <2>3. CallsOK'
    BY <1>6, <2>1, <2>2 DEF BeginPosting, CallsOK, Rows, TypeOK
  <2> QED BY <1>6, <2>3 DEF BeginPosting, RowsOK, FreshOK, Rows
<1>7. ASSUME NEW r \in Requests, CommitPosting(r)
      PROVE  CallsOK' /\ RowsOK' /\ FreshOK'
  <2>1. /\ call[r] \in Calls /\ call[r].shift \in Rows
        /\ shift[call[r].shift].status \in {"OPEN", "SUBMITTED", "FINAL_CLOSED"}
    BY <1>7 DEF CommitPosting, TypeOK, CallsOK
  <2>2. \A t \in Shifts : t # call[r].shift => ledger'[t] = ledger[t]
    <3>1. CASE UNCHANGED ledger
      BY <3>1
    <3>2. CASE ledger' = Posted(call[r].shift, call[r].kind, call[r].amount)
      BY <2>1, <3>2, PostingEffect DEF Calls
    <3> QED BY <1>7, <3>1, <3>2 DEF CommitPosting
  <2>3. CallsOK' /\ RowsOK'
    BY <1>7 DEF CommitPosting, CallsOK, RowsOK, Rows, TypeOK
  <2>4. FreshOK'
    BY <1>7, <2>1, <2>2 DEF CommitPosting, FreshOK, Rows
  <2> QED BY <2>3, <2>4
<1>8. ASSUME NEW c \in Cashiers, NEW n \in Counts, SubmitCount(c, n)
      PROVE  CallsOK' /\ RowsOK' /\ FreshOK'
  <2> DEFINE s == session[c]
  <2>1. /\ s \in Rows
        /\ shift[s] \in ShiftRows
        /\ shift[s].status = "OPEN"
        /\ \A t \in Shifts : t # s => shift'[t] = shift[t]
        /\ shift'[s] = [shift[s] EXCEPT !.status = "SUBMITTED",
                                        !.closingTotal = n]
        /\ UNCHANGED <<ledger, variance, charge, pc, call>>
    BY <1>8 DEF SubmitCount, MaySubmit, Live, Rows, TypeOK
  <2> HIDE DEF s
  <2>2. /\ shift'[s] \in ShiftRows
        /\ shift'[s].status = "SUBMITTED"
        /\ shift'[s].closedAt = shift[s].closedAt
        /\ shift'[s].audit = shift[s].audit
        /\ shift'[s].closingTotal = n
    BY <2>1 DEF ShiftRows, Statuses
  <2>3. shift'[s] # None /\ n # None
    BY <2>2, NoneAssumption
  <2>4. CallsOK'
    BY <2>1, <2>2, <2>3 DEF CallsOK, Rows
  <2>5. RowsOK'
    <3> SUFFICES ASSUME NEW t \in Rows'
                 PROVE  /\ shift'[t].closedAt <=> shift'[t].status = "FINAL_CLOSED"
                        /\ shift'[t].audit # None <=>
                              shift'[t].status = "FINAL_CLOSED"
                        /\ shift'[t].closingTotal # None <=>
                              shift'[t].status \in {"SUBMITTED", "FINAL_CLOSED"}
      BY DEF RowsOK
    <3>1. CASE t = s
      BY <2>1, <2>2, <2>3, <3>1 DEF RowsOK
    <3>2. CASE t # s
      BY <2>1, <3>2 DEF RowsOK, Rows
    <3> QED BY <3>1, <3>2
  <2>6. FreshOK'
    BY <2>1, <2>2, <2>3 DEF FreshOK, Rows
  <2> QED BY <2>4, <2>5, <2>6
<1>9. ASSUME NEW s \in Shifts, NEW n \in Counts, NEW d \in Decisions,
             NEW p \in BOOLEAN, FinalClose(s, n, d, p)
      PROVE  CallsOK' /\ RowsOK' /\ FreshOK'
  <2>1. /\ s \in Rows
        /\ shift[s] \in ShiftRows
        /\ shift[s].status = "SUBMITTED" /\ shift[s].closingTotal # None
        /\ \A t \in Shifts : t # s => /\ shift'[t] = shift[t]
                                     /\ variance'[t] = variance[t]
                                     /\ charge'[t] = charge[t]
        /\ UNCHANGED <<ledger, pc, call>>
    BY <1>9 DEF FinalClose, MayClose, Rows, TypeOK
  <2>2. /\ shift'[s] # None
        /\ shift'[s].status = "FINAL_CLOSED"
        /\ shift'[s].closedAt = TRUE
        /\ shift'[s].audit # None
        /\ shift'[s].closingTotal = shift[s].closingTotal
    <3> DEFINE au == [expected |-> ExpectedDrawer(s), manager |-> n,
                     decision |-> Resolution(n - ExpectedDrawer(s), d)]
    <3>1. shift'[s] = [shift[s] EXCEPT !.status = "FINAL_CLOSED",
                                       !.closedAt = TRUE, !.audit = au]
      BY <1>9 DEF FinalClose, TypeOK
    <3>2. au \in Audits
      BY <2>1, CloseTyped
    <3> HIDE DEF au
    <3>3. /\ shift'[s] \in ShiftRows
          /\ shift'[s].status = "FINAL_CLOSED"
          /\ shift'[s].closedAt = TRUE
          /\ shift'[s].audit = au
          /\ shift'[s].closingTotal = shift[s].closingTotal
      BY <2>1, <3>1, <3>2 DEF ShiftRows, Statuses
    <3> QED BY <3>2, <3>3, NoneAssumption
  <2>3. CallsOK'
    BY <2>1, <2>2 DEF CallsOK, Rows
  <2>4. RowsOK'
    BY <2>1, <2>2 DEF RowsOK, Rows
  <2>5. FreshOK'
    BY <2>1, <2>2 DEF FreshOK, Rows
  <2> QED BY <2>3, <2>4, <2>5
<1>10. ASSUME NEW c \in Cashiers, NEW s \in Shifts, AcknowledgeCharge(c, s)
       PROVE  CallsOK' /\ RowsOK' /\ FreshOK'
  BY <1>10 DEF AcknowledgeCharge, CallsOK, RowsOK, FreshOK, Rows, TypeOK
<1>11. CASE UNCHANGED vars
  BY <1>11 DEF CallsOK, RowsOK, FreshOK, Rows, vars
<1> QED
  BY <1>1, <1>2, <1>3, <1>4, <1>5, <1>6, <1>7, <1>8, <1>9, <1>10, <1>11
  DEF Next, ManagerStep, CashierStep

\* What any step may do to a row that exists: the owner stays, the float is
\* fixed once accepted, the count once submitted, everything once closed.
RowEvolves(s) ==
    /\ s \in Rows'
    /\ shift'[s].cashier = shift[s].cashier
    /\ shift[s].closedAt => shift'[s] = shift[s]
    /\ shift[s].status \notin {"PENDING_ACCEPT", "OPENING_DISPUTED"} =>
          shift'[s].openingFloat = shift[s].openingFloat
    /\ shift[s].closingTotal # None =>
          /\ shift'[s].closingTotal = shift[s].closingTotal
          /\ shift'[s].openingFloat = shift[s].openingFloat
          /\ shift'[s].status \in {"SUBMITTED", "FINAL_CLOSED"}

\* RowEvolves holds of every row, whichever handler runs.
LEMMA RowStep ==
    ASSUME TypeOK, RowsOK, [Next]_vars
    PROVE  \A s \in Rows : RowEvolves(s)
<1> SUFFICES ASSUME NEW s \in Rows
             PROVE  RowEvolves(s)
  OBVIOUS
<1>0. /\ s \in Shifts /\ shift[s] \in ShiftRows /\ shift[s] # None
      /\ shift[s].closedAt \in BOOLEAN
  BY DEF Rows, TypeOK, ShiftRows
<1>a. ASSUME shift'[s] = shift[s]
      PROVE  RowEvolves(s)
  BY <1>0, <1>a DEF RowEvolves, RowsOK, Rows
<1>1. ASSUME NEW m \in Managers, OpenCommit(m)
      PROVE  RowEvolves(s)
  BY <1>0, <1>1, <1>a DEF OpenCommit, Rows, TypeOK
<1>2. ASSUME NEW t \in Shifts, NEW f \in Floats, Resend(t, f)
      PROVE  RowEvolves(s)
  <2>1. CASE t # s
    BY <1>0, <1>2, <2>1, <1>a DEF Resend, TypeOK
  <2>2. CASE t = s
    <3>1. shift'[s] = [shift[s] EXCEPT !.status = "PENDING_ACCEPT",
                          !.openingFloat = f, !.verified = FALSE]
      BY <1>0, <1>2, <2>2 DEF Resend, TypeOK
    <3>2. /\ shift[s].status \in {"PENDING_ACCEPT", "OPENING_DISPUTED"}
          /\ ~shift[s].closedAt
      BY <1>2, <2>2 DEF Resend, MayResend
    <3>3. shift'[s] \in ShiftRows /\ shift'[s].cashier = shift[s].cashier
      BY <1>0, <3>1, NumbersAssumption DEF ShiftRows, Statuses
    <3>4. shift'[s] # None
      BY <3>3, NoneAssumption
    <3> QED BY <1>0, <3>2, <3>3, <3>4 DEF RowEvolves, RowsOK, Rows
  <2> QED BY <2>1, <2>2
<1>3. ASSUME NEW c \in Cashiers, AcceptOpening(c) \/ DisputeOpening(c)
      PROVE  RowEvolves(s)
  <2>1. PICK st \in {"OPEN", "OPENING_DISPUTED"} : Verify(c, st)
    BY <1>3 DEF AcceptOpening, DisputeOpening
  <2>2. CASE session[c] # s
    BY <1>0, <2>1, <2>2, <1>a DEF Verify, TypeOK
  <2>3. CASE session[c] = s
    <3>1. shift'[s] = [shift[s] EXCEPT !.status = st, !.verified = TRUE]
      BY <1>0, <2>1, <2>3 DEF Verify, TypeOK
    <3>2. shift[s].status = "PENDING_ACCEPT" /\ ~shift[s].closedAt
      BY <2>1, <2>3 DEF Verify, Live
    <3>3. /\ shift'[s] \in ShiftRows /\ shift'[s].cashier = shift[s].cashier
          /\ shift'[s].openingFloat = shift[s].openingFloat
      BY <1>0, <3>1 DEF ShiftRows, Statuses
    <3>4. shift'[s] # None
      BY <3>3, NoneAssumption
    <3> QED BY <1>0, <3>2, <3>3, <3>4 DEF RowEvolves, RowsOK, Rows
  <2> QED BY <2>2, <2>3
<1>4. ASSUME NEW c \in Cashiers, NEW n \in Counts, SubmitCount(c, n)
      PROVE  RowEvolves(s)
  <2>2. CASE session[c] # s
    BY <1>0, <1>4, <2>2, <1>a DEF SubmitCount, TypeOK
  <2>3. CASE session[c] = s
    <3>1. shift'[s] = [shift[s] EXCEPT !.status = "SUBMITTED",
                                       !.closingTotal = n]
      BY <1>0, <1>4, <2>3 DEF SubmitCount, TypeOK
    <3>2. shift[s].status = "OPEN" /\ ~shift[s].closedAt
      BY <1>4, <2>3 DEF SubmitCount, MaySubmit, Live
    <3>3. /\ shift'[s] \in ShiftRows /\ shift'[s].cashier = shift[s].cashier
          /\ shift'[s].openingFloat = shift[s].openingFloat
      BY <1>0, <3>1, NumbersAssumption DEF ShiftRows, Statuses
    <3>4. shift'[s] # None
      BY <3>3, NoneAssumption
    <3> QED BY <1>0, <3>2, <3>3, <3>4 DEF RowEvolves, RowsOK, Rows
  <2> QED BY <2>2, <2>3
<1>5. ASSUME NEW t \in Shifts, NEW n \in Counts, NEW d \in Decisions,
             NEW p \in BOOLEAN, FinalClose(t, n, d, p)
      PROVE  RowEvolves(s)
  <2>1. CASE t # s
    BY <1>0, <1>5, <2>1, <1>a DEF FinalClose, TypeOK
  <2>2. CASE t = s
    <3> DEFINE au == [expected |-> ExpectedDrawer(s), manager |-> n,
                     decision |-> Resolution(n - ExpectedDrawer(s), d)]
    <3>1. shift'[s] = [shift[s] EXCEPT !.status = "FINAL_CLOSED",
                                       !.closedAt = TRUE, !.audit = au]
      BY <1>0, <1>5, <2>2 DEF FinalClose, TypeOK
    <3>2. au \in Audits
      BY CloseTyped
    <3> HIDE DEF au
    <3>3. shift[s].status = "SUBMITTED" /\ ~shift[s].closedAt
      BY <1>5, <2>2 DEF FinalClose, MayClose
    <3>4. /\ shift'[s] \in ShiftRows /\ shift'[s].cashier = shift[s].cashier
          /\ shift'[s].openingFloat = shift[s].openingFloat
          /\ shift'[s].closingTotal = shift[s].closingTotal
          /\ shift'[s].status = "FINAL_CLOSED"
      BY <1>0, <3>1, <3>2 DEF ShiftRows, Statuses
    <3>5. shift'[s] # None
      BY <3>4, NoneAssumption
    <3> QED BY <1>0, <3>3, <3>4, <3>5 DEF RowEvolves, Rows
  <2> QED BY <2>1, <2>2
<1>6. CASE UNCHANGED shift
  BY <1>6, <1>a
<1> QED
  BY <1>1, <1>2, <1>3, <1>4, <1>5, <1>6
  DEF Next, ManagerStep, CashierStep, OpenRead, Reattach, Logout, BeginPosting,
      CommitPosting, AcknowledgeCharge, vars

\* Only the commit of an opening creates a row, and only a cashier without a
\* live shift gets one.
LEMMA OneLiveStep ==
    ASSUME TypeOK, RowsOK, OpeningOK, OneLiveShiftPerCashier, [Next]_vars
    PROVE  OpeningOK' /\ OneLiveShiftPerCashier'
<1>1. ASSUME NEW m \in Managers, OpenCommit(m)
      PROVE  OpeningOK' /\ OneLiveShiftPerCashier'
  <2>0. PICK c \in Cashiers : c = opening[m].cashier
    BY <1>1 DEF OpenCommit, TypeOK, Openings
  <2>1. PICK s \in Shifts \ Rows :
            shift' = [shift EXCEPT ![s] = NewRow(c, opening[m].openingFloat)]
    BY <1>1, <2>0 DEF OpenCommit
  <2>2. Live(c) = {}
    BY <1>1, <2>0 DEF OpenCommit, OpeningOK
  <2>3. \A t \in Shifts : t # s => shift'[t] = shift[t]
    BY <2>1 DEF TypeOK
  <2>4. shift'[s].cashier = c
    BY <2>1 DEF TypeOK, NewRow
  <2>5. Live(c)' \subseteq {s}
    BY <2>2, <2>3 DEF Live, Rows
  <2>6. \A d \in Cashiers : d # c => Live(d)' \subseteq Live(d)
    BY <2>3, <2>4 DEF Live, Rows
  <2>7. OneLiveShiftPerCashier'
    BY <2>5, <2>6 DEF OneLiveShiftPerCashier
  <2>8. \A n \in Managers : opening'[n] # None =>
            /\ opening'[n] = opening[n]
            /\ opening[n].cashier \in Cashiers \ {c}
    BY <1>1, <2>0 DEF OpenCommit, OverlapAborted, TypeOK, Openings
  <2>9. OpeningOK'
    BY <2>6, <2>8 DEF OpeningOK
  <2> QED BY <2>7, <2>9
<1>2. ASSUME \A s \in Rows' : s \in Rows
      PROVE  \A c \in Cashiers : Live(c)' \subseteq Live(c)
  BY <1>2, RowStep DEF Live, RowEvolves
<1>3. ASSUME NEW m \in Managers, NEW c \in Cashiers, NEW f \in Floats,
             OpenRead(m, c, f)
      PROVE  OpeningOK' /\ OneLiveShiftPerCashier'
  BY <1>3 DEF OpenRead, OpeningOK, OneLiveShiftPerCashier, Live, Rows, TypeOK
<1>4. ASSUME Rows' = Rows, UNCHANGED opening
      PROVE  OpeningOK' /\ OneLiveShiftPerCashier'
  <2>1. \A m \in Managers : opening[m] # None => opening[m].cashier \in Cashiers
    BY DEF TypeOK, Openings
  <2> QED BY <1>2, <1>4, <2>1 DEF OpeningOK, OneLiveShiftPerCashier
<1>5. ASSUME NEW s \in Shifts, NEW f \in Floats, Resend(s, f)
      PROVE  Rows' = Rows /\ UNCHANGED opening
  <2>1. \A t \in Shifts : t # s => shift'[t] = shift[t]
    BY <1>5 DEF Resend, TypeOK
  <2> QED BY <1>5, <2>1, RowStep DEF Resend, Rows, RowEvolves
<1>6. ASSUME NEW c \in Cashiers, AcceptOpening(c) \/ DisputeOpening(c)
      PROVE  Rows' = Rows /\ UNCHANGED opening
  <2>1. PICK st : Verify(c, st)
    BY <1>6 DEF AcceptOpening, DisputeOpening
  <2>2. session[c] \in Rows /\ UNCHANGED opening
    BY <2>1 DEF Verify, Live
  <2>3. \A t \in Shifts : t # session[c] => shift'[t] = shift[t]
    BY <2>1 DEF Verify, TypeOK
  <2>4. session[c] \in Rows'
    BY <2>2, RowStep DEF RowEvolves
  <2> QED BY <2>2, <2>3, <2>4 DEF Rows
<1>7. ASSUME NEW c \in Cashiers, NEW n \in Counts, SubmitCount(c, n)
      PROVE  Rows' = Rows /\ UNCHANGED opening
  <2>1. session[c] \in Rows /\ UNCHANGED opening
    BY <1>7 DEF SubmitCount, MaySubmit, Live
  <2>2. \A t \in Shifts : t # session[c] => shift'[t] = shift[t]
    BY <1>7 DEF SubmitCount, TypeOK
  <2>3. session[c] \in Rows'
    BY <2>1, RowStep DEF RowEvolves
  <2> QED BY <2>1, <2>2, <2>3 DEF Rows
<1>8. ASSUME NEW s \in Shifts, NEW n \in Counts, NEW d \in Decisions,
             NEW p \in BOOLEAN, FinalClose(s, n, d, p)
      PROVE  Rows' = Rows /\ UNCHANGED opening
  <2>1. s \in Rows /\ \A t \in Shifts : t # s => shift'[t] = shift[t]
    BY <1>8 DEF FinalClose, TypeOK
  <2> QED BY <1>8, <2>1, RowStep DEF Rows, RowEvolves, FinalClose
<1>9. ASSUME UNCHANGED <<shift, opening>>
      PROVE  OpeningOK' /\ OneLiveShiftPerCashier'
  BY <1>4, <1>9 DEF Rows
<1>10. ASSUME CashierStep
       PROVE  Rows' = Rows /\ UNCHANGED opening
  BY <1>6, <1>7, <1>10 DEF CashierStep, Reattach, Logout, BeginPosting,
       AcknowledgeCharge, Rows
<1>11. CASE ManagerStep
  BY <1>1, <1>3, <1>4, <1>5, <1>8, <1>11 DEF ManagerStep
<1>12. CASE CashierStep
  BY <1>4, <1>10, <1>12
<1>13. CASE \E r \in Requests : CommitPosting(r)
  BY <1>9, <1>13 DEF CommitPosting
<1>14. CASE UNCHANGED vars
  BY <1>9, <1>14 DEF vars
<1> QED
  BY <1>11, <1>12, <1>13, <1>14 DEF Next

\* Withdrawals are compared with the drawer inside their transaction, floats
\* change only while the ledger is empty, and the last comparison with closedAt
\* keeps cash from leaving a closed shift.
LEMMA DrawerStep ==
    ASSUME TypeOK, CallsOK, RowsOK, FreshOK, DrawerNeverOverdrawn,
           CloseAgainstFloor, [Next]_vars
    PROVE  DrawerNeverOverdrawn' /\ CloseAgainstFloor'
<1> DEFINE Sound(s) ==
      /\ ExpectedDrawer(s) >= 0
      /\ shift[s].audit # None => shift[s].audit.expected <= ExpectedDrawer(s)
<1>1. \A s \in Rows :
        /\ s \in Shifts /\ Sound(s)
        /\ shift[s] \in ShiftRows /\ ledger[s] \in LedgerRows
        /\ ExpectedDrawer(s) \in Int
        /\ shift[s].audit # None => shift[s].audit.expected \in Int
  BY DEF TypeOK, Rows, DrawerNeverOverdrawn, CloseAgainstFloor, ExpectedDrawer,
         ShiftRows, LedgerRows, Audits
<1>2. (\A s \in Rows' : Sound(s)') => DrawerNeverOverdrawn' /\ CloseAgainstFloor'
  BY DEF DrawerNeverOverdrawn, CloseAgainstFloor
<1>3. SUFFICES ASSUME NEW s \in Rows'
               PROVE  Sound(s)'
  BY <1>2
<1>4. ASSUME s \in Rows, ledger'[s] = ledger[s],
             shift'[s].openingFloat = shift[s].openingFloat,
             shift'[s].audit = shift[s].audit
      PROVE  Sound(s)'
  BY <1>1, <1>4 DEF ExpectedDrawer
<1>5. ASSUME ledger'[s] = EmptyLedger, shift'[s].openingFloat \in Nat,
             shift'[s].audit = None
      PROVE  Sound(s)'
  BY <1>5 DEF ExpectedDrawer, EmptyLedger
<1>6. ASSUME NEW m \in Managers, OpenCommit(m)
      PROVE  Sound(s)'
  <2>1. CASE s \in Rows
    BY <1>4, <1>6, <2>1 DEF OpenCommit, TypeOK, Rows
  <2>2. CASE s \notin Rows
    <3>1. shift'[s] = NewRow(opening[m].cashier, opening[m].openingFloat)
      BY <1>6, <2>2 DEF OpenCommit, TypeOK, Rows
    <3>2. opening[m].openingFloat \in Nat
      BY <1>6 DEF OpenCommit, TypeOK, Openings
    <3>3. ledger'[s] = EmptyLedger
      BY <1>6, <2>2 DEF OpenCommit, FreshOK, Rows
    <3> QED BY <1>5, <3>1, <3>2, <3>3 DEF NewRow
  <2> QED BY <2>1, <2>2
<1>7. ASSUME NEW t \in Shifts, NEW f \in Floats, Resend(t, f)
      PROVE  Sound(s)'
  <2>1. CASE s # t
    <3>1. shift'[s] = shift[s] /\ s \in Rows /\ ledger'[s] = ledger[s]
      BY <1>7, <2>1 DEF Resend, TypeOK, Rows
    <3> QED BY <1>4, <3>1
  <2>2. CASE s = t
    <3>1. /\ shift[s] \in ShiftRows
          /\ shift[s].status \in {"PENDING_ACCEPT", "OPENING_DISPUTED"}
          /\ ledger'[s] = EmptyLedger
          /\ shift[s].audit = None
      BY <1>1, <1>7, <2>2 DEF Resend, MayResend, FreshOK, RowsOK
    <3>2. shift'[s] = [shift[s] EXCEPT !.status = "PENDING_ACCEPT",
                          !.openingFloat = f, !.verified = FALSE]
      BY <1>7, <2>2 DEF Resend, TypeOK
    <3>3. shift'[s].openingFloat = f /\ shift'[s].audit = shift[s].audit
      BY <3>1, <3>2 DEF ShiftRows
    <3> QED BY <1>5, <3>1, <3>3, NumbersAssumption
  <2> QED BY <2>1, <2>2
<1>8. ASSUME NEW c \in Cashiers, AcceptOpening(c) \/ DisputeOpening(c)
      PROVE  Sound(s)'
  <2>1. PICK st \in {"OPEN", "OPENING_DISPUTED"} : Verify(c, st)
    BY <1>8 DEF AcceptOpening, DisputeOpening
  <2>2. /\ s \in Rows /\ ledger'[s] = ledger[s]
        /\ shift'[s].openingFloat = shift[s].openingFloat
        /\ shift'[s].audit = shift[s].audit
    <3>1. CASE s = session[c]
      <4>1. shift'[s] = [shift[s] EXCEPT !.status = st, !.verified = TRUE]
        BY <2>1, <3>1 DEF Verify, Live, Rows, TypeOK
      <4>2. s \in Rows /\ ledger'[s] = ledger[s] /\ shift[s] \in ShiftRows
        BY <1>1, <2>1, <3>1 DEF Verify, Live
      <4> QED BY <4>1, <4>2 DEF ShiftRows
    <3>2. CASE s # session[c]
      BY <2>1, <3>2 DEF Verify, Rows, TypeOK
    <3> QED BY <3>1, <3>2
  <2> QED BY <1>4, <2>2
<1>9. ASSUME NEW c \in Cashiers, NEW n \in Counts, SubmitCount(c, n)
      PROVE  Sound(s)'
  <2>1. /\ s \in Rows /\ ledger'[s] = ledger[s]
        /\ shift'[s].openingFloat = shift[s].openingFloat
        /\ shift'[s].audit = shift[s].audit
    <3>1. CASE s = session[c]
      <4>1. shift'[s] = [shift[s] EXCEPT !.status = "SUBMITTED",
                                         !.closingTotal = n]
        BY <1>9, <3>1 DEF SubmitCount, MaySubmit, Live, Rows, TypeOK
      <4>2. s \in Rows /\ ledger'[s] = ledger[s] /\ shift[s] \in ShiftRows
        BY <1>1, <1>9, <3>1 DEF SubmitCount, MaySubmit, Live
      <4> QED BY <4>1, <4>2 DEF ShiftRows
    <3>2. CASE s # session[c]
      BY <1>9, <3>2 DEF SubmitCount, Rows, TypeOK
    <3> QED BY <3>1, <3>2
  <2> QED BY <1>4, <2>1
<1>10. ASSUME NEW r \in Requests, CommitPosting(r)
       PROVE  Sound(s)'
  <2> DEFINE k == call[r]
  <2>1. k \in Calls /\ s \in Rows /\ shift' = shift
    BY <1>10 DEF CommitPosting, CallsOK, TypeOK, Rows
  <2>2. k.kind \in Postings /\ k.shift \in Shifts /\ k.amount \in Amounts
    BY <2>1 DEF Calls
  <2>3. CASE UNCHANGED ledger
    BY <1>4, <2>1, <2>3
  <2>4. CASE /\ k.kind = "CASH_OUT" => MayWithdraw(k.shift, k.amount)
             /\ ledger' = Posted(k.shift, k.kind, k.amount)
    <3>1. CASE s # k.shift
      <4>1. ledger'[s] = ledger[s]
        BY <1>1, <2>1, <2>2, <2>4, <3>1, PostingEffect
      <4> QED BY <1>4, <2>1, <4>1
    <3>2. CASE s = k.shift
      <4>1. ExpectedDrawer(s)' = IF k.kind = "CASH_OUT"
                                 THEN ExpectedDrawer(s) - k.amount
                                 ELSE ExpectedDrawer(s) + k.amount
        BY <2>1, <2>2, <2>4, <3>2, PostingEffect DEF Rows
      <4>2. k.amount \in Nat
        BY <2>2, NumbersAssumption
      <4>3. CASE k.kind = "CASH_OUT"
        <5>1. k.amount <= ExpectedDrawer(s) /\ shift[s].audit = None
          BY <1>1, <2>1, <2>4, <3>2, <4>3 DEF MayWithdraw, RowsOK
        <5> QED BY <1>1, <2>1, <4>1, <4>2, <4>3, <5>1
      <4>4. CASE k.kind # "CASH_OUT"
        BY <1>1, <2>1, <4>1, <4>2, <4>4
      <4> QED BY <4>3, <4>4
    <3> QED BY <3>1, <3>2
  <2> QED BY <1>10, <2>3, <2>4 DEF CommitPosting
<1>11. ASSUME NEW t \in Shifts, NEW n \in Counts, NEW d \in Decisions,
              NEW p \in BOOLEAN, FinalClose(t, n, d, p)
       PROVE  Sound(s)'
  <2>1. CASE s # t
    <3>1. shift'[s] = shift[s] /\ s \in Rows /\ ledger'[s] = ledger[s]
      BY <1>11, <2>1 DEF FinalClose, TypeOK, Rows
    <3> QED BY <1>4, <3>1
  <2>2. CASE s = t
    <3> DEFINE au == [expected |-> ExpectedDrawer(s), manager |-> n,
                     decision |-> Resolution(n - ExpectedDrawer(s), d)]
    <3>1. /\ s \in Rows /\ shift[s] \in ShiftRows /\ ledger'[s] = ledger[s]
          /\ au.expected = ExpectedDrawer(s)
      BY <1>1, <1>11, <2>2 DEF FinalClose
    <3>2. shift'[s] = [shift[s] EXCEPT !.status = "FINAL_CLOSED",
                                       !.closedAt = TRUE, !.audit = au]
      BY <1>11, <2>2 DEF FinalClose, TypeOK
    <3> HIDE DEF au
    <3>3. shift'[s].openingFloat = shift[s].openingFloat /\ shift'[s].audit = au
      BY <3>1, <3>2 DEF ShiftRows
    <3>4. ExpectedDrawer(s)' = ExpectedDrawer(s)
      BY <3>1, <3>3 DEF ExpectedDrawer
    <3> QED BY <1>1, <3>1, <3>3, <3>4
  <2> QED BY <2>1, <2>2
<1>12. ASSUME UNCHANGED <<shift, ledger>>
       PROVE  Sound(s)'
  BY <1>4, <1>12 DEF Rows
<1>13. CASE ManagerStep
  BY <1>6, <1>7, <1>11, <1>12, <1>13 DEF ManagerStep, OpenRead
<1>14. CASE CashierStep
  <2>1. ASSUME NEW c \in Cashiers, Reattach(c) \/ Logout(c)
        PROVE  Sound(s)'
    BY <1>12, <2>1 DEF Reattach, Logout
  <2>2. ASSUME NEW c \in Cashiers, NEW t \in Shifts, AcknowledgeCharge(c, t)
        PROVE  Sound(s)'
    BY <1>12, <2>2 DEF AcknowledgeCharge
  <2>3. ASSUME NEW c \in Cashiers, NEW r \in Requests, NEW k \in Postings,
               NEW a \in Amounts, BeginPosting(r, c, k, a)
        PROVE  Sound(s)'
    BY <1>12, <2>3 DEF BeginPosting
  <2> QED BY <1>8, <1>9, <1>14, <2>1, <2>2, <2>3 DEF CashierStep
<1>15. CASE UNCHANGED vars
  BY <1>12, <1>15 DEF vars
<1> QED
  BY <1>10, <1>13, <1>14, <1>15 DEF Next

\* The charge is written in the transaction that writes the variance it is for.
LEMMA ChargeStep ==
    ASSUME TypeOK, RowsOK, FreshOK, ChargeMatchesShortage, [Next]_vars
    PROVE  ChargeMatchesShortage'
<1> DEFINE Matches(s) ==
      /\ charge[s] # None <=>
            /\ variance[s] # None
            /\ variance[s].resolution = "CHARGE_CASHIER"
      /\ charge[s] # None =>
            /\ variance[s].variance = -charge[s].amount
            /\ charge[s].amount > 0
            /\ shift[s] # None /\ shift[s].cashier = charge[s].cashier
<1>1. SUFFICES ASSUME NEW s \in Shifts
               PROVE  Matches(s)'
  BY DEF ChargeMatchesShortage
<1>2. Matches(s)
  BY DEF ChargeMatchesShortage
<1>3. s \in Rows => s \in Rows' /\ shift'[s].cashier = shift[s].cashier
  BY RowStep DEF RowEvolves
<1>4. ASSUME charge'[s] = charge[s], variance'[s] = variance[s]
      PROVE  Matches(s)'
  BY <1>2, <1>3, <1>4 DEF Rows
<1>5. ASSUME NEW t \in Shifts, NEW n \in Counts, NEW d \in Decisions,
             NEW p \in BOOLEAN, FinalClose(t, n, d, p)
      PROVE  Matches(s)'
  <2>1. CASE s # t
    BY <1>4, <1>5, <2>1 DEF FinalClose, TypeOK
  <2>2. CASE s = t
    <3> DEFINE diff == n - ExpectedDrawer(s)
               decision == Resolution(diff, d)
               var == [expected |-> ExpectedDrawer(s), counted |-> n,
                       variance |-> diff, status |-> VarianceStatus(decision),
                       resolution |-> decision]
               chg == [cashier |-> shift[s].cashier, amount |-> -diff,
                       status |-> "OPEN"]
    <3>1. /\ s \in Rows /\ variance[s] = None /\ charge[s] = None
          /\ shift[s] \in ShiftRows
      BY <1>5, <2>2 DEF FinalClose, MayClose, RowsOK, FreshOK, Rows, TypeOK
    <3>2. n \in Nat /\ diff \in Int /\ decision \in Decisions
      BY <3>1, CloseTyped, NumbersAssumption
    <3>3. variance'[s] = IF diff = 0 THEN variance[s] ELSE var
      BY <1>5, <2>2 DEF FinalClose, TypeOK
    <3>4. charge'[s] = IF diff < 0 /\ decision = "CHARGE_CASHIER"
                       THEN chg ELSE charge[s]
      BY <1>5, <2>2 DEF FinalClose, TypeOK
    <3>5. decision = "CHARGE_CASHIER" => diff < 0
      BY <1>5, <2>2 DEF FinalClose, DecisionAllowed
    <3>6. VarianceStatus(decision) \in {"OPEN", "MANAGER_APPROVED", "WAIVED", "CLOSED"}
      BY <3>2 DEF VarianceStatus, Decisions
    <3>7. var # None
      <4>1. ExpectedDrawer(s) \in Int
        BY <3>1, CloseTyped
      <4>2. var \in VarianceRows
        BY <3>2, <3>6, <4>1 DEF VarianceRows
      <4> QED BY <4>2, NoneAssumption
    <3>8. diff < 0 => chg # None
      <4>1. diff < 0 => chg \in ChargeRows
        BY <3>1, <3>2 DEF ChargeRows, ShiftRows
      <4> QED BY <4>1, NoneAssumption
    <3>9. /\ var.resolution = decision /\ var.variance = diff
          /\ chg.amount = -diff /\ chg.cashier = shift[s].cashier
      OBVIOUS
    <3> HIDE DEF var, chg, diff, decision
    <3>10. diff = 0 \/ diff # 0
      OBVIOUS
    <3>11. CASE diff < 0 /\ decision = "CHARGE_CASHIER"
      <4>1. charge'[s] = chg /\ variance'[s] = var
        BY <3>2, <3>3, <3>4, <3>11
      <4>2. -diff > 0 /\ diff = -(-diff)
        BY <3>2, <3>11
      <4>3. shift'[s] # None /\ shift'[s].cashier = shift[s].cashier
        BY <1>3, <3>1 DEF Rows
      <4> QED BY <3>7, <3>8, <3>9, <3>11, <4>1, <4>2, <4>3
    <3>12. CASE ~(diff < 0 /\ decision = "CHARGE_CASHIER")
      <4>1. charge'[s] = None /\ decision # "CHARGE_CASHIER"
        BY <3>1, <3>4, <3>5, <3>12
      <4>2. variance'[s] = None \/ variance'[s].resolution # "CHARGE_CASHIER"
        BY <3>1, <3>3, <3>9, <4>1
      <4> QED BY <4>1, <4>2
    <3> QED BY <3>11, <3>12
  <2> QED BY <2>1, <2>2
<1>6. ASSUME NEW c \in Cashiers, NEW t \in Shifts, AcknowledgeCharge(c, t)
      PROVE  Matches(s)'
  <2>1. CASE s # t
    BY <1>4, <1>6, <2>1 DEF AcknowledgeCharge, TypeOK
  <2>2. CASE s = t
    <3>1. /\ variance[s] \in VarianceRows
          /\ variance'[s] = [variance[s] EXCEPT !.status = "CLOSED"]
          /\ charge'[s] = charge[s]
      BY <1>6, <2>2 DEF AcknowledgeCharge, TypeOK
    <3>2. /\ variance'[s] \in VarianceRows
          /\ variance'[s].resolution = variance[s].resolution
          /\ variance'[s].variance = variance[s].variance
      BY <3>1 DEF VarianceRows
    <3>3. variance'[s] # None /\ variance[s] # None
      BY <3>1, <3>2, NoneAssumption
    <3> QED BY <1>2, <1>3, <3>1, <3>2, <3>3 DEF Rows
  <2> QED BY <2>1, <2>2
<1>7. ASSUME UNCHANGED <<variance, charge>>
      PROVE  Matches(s)'
  BY <1>4, <1>7
<1>8. CASE ManagerStep
  BY <1>5, <1>7, <1>8 DEF ManagerStep, OpenRead, OpenCommit, Resend
<1>9. CASE CashierStep
  BY <1>6, <1>7, <1>9 DEF CashierStep, Reattach, Logout, AcceptOpening,
      DisputeOpening, Verify, SubmitCount, BeginPosting
<1>10. CASE \E r \in Requests : CommitPosting(r)
  BY <1>7, <1>10 DEF CommitPosting
<1>11. CASE UNCHANGED vars
  BY <1>7, <1>11 DEF vars
<1> QED
  BY <1>8, <1>9, <1>10, <1>11 DEF Next

-----------------------------------------------------------------------------
\* What the final close recorded about a drawer is not recorded again.
LEMMA ClosedStep ==
    ASSUME TypeOK, RowsOK, [Next]_vars,
           NEW s \in Rows, shift[s].closedAt
    PROVE  /\ charge'[s] = charge[s]
           /\ variance[s] # None =>
                 /\ variance'[s].variance = variance[s].variance
                 /\ variance'[s].resolution = variance[s].resolution
<1>1. ASSUME NEW t \in Shifts, NEW n \in Counts, NEW d \in Decisions,
             NEW p \in BOOLEAN, FinalClose(t, n, d, p)
      PROVE  charge'[s] = charge[s] /\ variance'[s] = variance[s]
  <2>1. s # t /\ s \in Shifts
    BY <1>1 DEF FinalClose, MayClose, Rows
  <2> QED BY <1>1, <2>1 DEF FinalClose, TypeOK
<1>2. ASSUME NEW c \in Cashiers, NEW t \in Shifts, AcknowledgeCharge(c, t)
      PROVE  /\ charge'[s] = charge[s]
             /\ variance[s] # None =>
                   /\ variance'[s].variance = variance[s].variance
                   /\ variance'[s].resolution = variance[s].resolution
  <2>1. CASE s # t
    BY <1>2, <2>1 DEF AcknowledgeCharge, TypeOK, Rows
  <2>2. CASE s = t
    <3>1. /\ variance[s] \in VarianceRows
          /\ variance'[s] = [variance[s] EXCEPT !.status = "CLOSED"]
          /\ charge'[s] = charge[s]
      BY <1>2, <2>2 DEF AcknowledgeCharge, TypeOK, Rows
    <3> QED BY <3>1 DEF VarianceRows
  <2> QED BY <2>1, <2>2
<1>3. CASE UNCHANGED <<variance, charge>>
  BY <1>3
<1>4. CASE ManagerStep
  BY <1>1, <1>3, <1>4 DEF ManagerStep, OpenRead, OpenCommit, Resend
<1>5. CASE CashierStep
  BY <1>2, <1>3, <1>5 DEF CashierStep, Reattach, Logout, AcceptOpening,
      DisputeOpening, Verify, SubmitCount, BeginPosting
<1>6. CASE \E r \in Requests : CommitPosting(r)
  BY <1>3, <1>6 DEF CommitPosting
<1>7. CASE UNCHANGED vars
  BY <1>3, <1>7 DEF vars
<1> QED
  BY <1>4, <1>5, <1>6, <1>7 DEF Next

\* The empty database satisfies the inductive invariant.
LEMMA ShiftInvInit ==
    Init => ShiftInv
<1> SUFFICES ASSUME Init
             PROVE  ShiftInv
  OBVIOUS
<1>1. Rows = {} /\ \A c \in Cashiers : Live(c) = {}
  BY DEF Init, Rows, Live
<1>2. TypeOK
  BY DEF Init, TypeOK, LedgerRows, EmptyLedger
<1>3. CallsOK /\ RowsOK /\ OpeningOK
  BY <1>1 DEF Init, CallsOK, RowsOK, OpeningOK
<1>4. FreshOK /\ ChargeMatchesShortage
  BY <1>1 DEF Init, FreshOK, ChargeMatchesShortage
<1>5. OneLiveShiftPerCashier /\ DrawerNeverOverdrawn /\ CloseAgainstFloor
  BY <1>1 DEF OneLiveShiftPerCashier, DrawerNeverOverdrawn, CloseAgainstFloor
<1> QED
  BY <1>2, <1>3, <1>4, <1>5 DEF ShiftInv

\* Every reachable state of the shift routes satisfies ShiftInv, whatever the
\* number of cashiers, managers, shifts and requests.
THEOREM ShiftInvariant == Spec => []ShiftInv
<1>1. ShiftInv /\ [Next]_vars => ShiftInv'
  BY TypeStep, LifecycleStep, OneLiveStep, DrawerStep, ChargeStep DEF ShiftInv
<1> QED
  BY <1>1, ShiftInvInit, PTL DEF Spec

\* Every row keeps its shape under every handler.
THEOREM TypeCorrect == Spec => []TypeOK
<1>1. ShiftInv => TypeOK
  BY DEF ShiftInv
<1> QED
  BY <1>1, ShiftInvariant, PTL

\* However many managers open shifts at the same moment, a cashier is never
\* responsible for two drawers.
THEOREM OneLiveShift == Spec => []OneLiveShiftPerCashier
<1>1. ShiftInv => OneLiveShiftPerCashier
  BY DEF ShiftInv
<1> QED
  BY <1>1, ShiftInvariant, PTL

\* No interleaving of deposits, withdrawals, collections, resends and closes
\* takes more cash out of a drawer than was put into it.
THEOREM DrawerSafe == Spec => []DrawerNeverOverdrawn
<1>1. ShiftInv => DrawerNeverOverdrawn
  BY DEF ShiftInv
<1> QED
  BY <1>1, ShiftInvariant, PTL

\* A posting that lands after the final close never takes the drawer below the
\* figure the manager closed against.
THEOREM CloseFloor == Spec => []CloseAgainstFloor
<1>1. ShiftInv => CloseAgainstFloor
  BY DEF ShiftInv
<1> QED
  BY <1>1, ShiftInvariant, PTL

\* Open or closed, no drawer falls below its floor.
THEOREM FloorHolds == Spec => []DrawerFloor
<1>1. DrawerNeverOverdrawn /\ CloseAgainstFloor => DrawerFloor
  BY DEF DrawerFloor
<1> QED
  BY <1>1, DrawerSafe, CloseFloor, PTL

\* A cashier is charged exactly for the shortages the manager charged.
THEOREM ChargeJustified == Spec => []ChargeMatchesShortage
<1>1. ShiftInv => ChargeMatchesShortage
  BY DEF ShiftInv
<1> QED
  BY <1>1, ShiftInvariant, PTL

\* The submitted count, the float under it and the outcome of the close are
\* never rewritten.
THEOREM CountFinal == Spec => CountIsFinal
<1>1. TypeOK /\ RowsOK /\ [Next]_vars =>
        \A s \in Rows :
          /\ shift[s].closingTotal # None =>
                /\ shift'[s].closingTotal = shift[s].closingTotal
                /\ shift'[s].openingFloat = shift[s].openingFloat
                /\ shift'[s].status \in {"SUBMITTED", "FINAL_CLOSED"}
          /\ shift[s].closedAt =>
                /\ shift'[s] = shift[s]
                /\ charge'[s] = charge[s]
                /\ variance[s] # None =>
                      /\ variance'[s].variance = variance[s].variance
                      /\ variance'[s].resolution = variance[s].resolution
  BY RowStep, ClosedStep DEF RowEvolves
<1>2. ShiftInv => TypeOK /\ RowsOK
  BY DEF ShiftInv
<1> QED
  BY <1>1, <1>2, ShiftInvariant, PTL DEF Spec, CountIsFinal

-----------------------------------------------------------------------------
(* The shift routes implement the custody of the drawer (ShiftCustody). *)

\* The stage a live shift gives its cashier.
StatusStage(status) ==
    CASE status = "OPEN" -> "trading"
      [] status = "SUBMITTED" -> "counted"
      [] OTHER -> "opening"

\* A cashier with one live shift is at the stage of that shift.
LEMMA StageOfLive ==
    ASSUME OneLiveShiftPerCashier, NEW c \in Cashiers, NEW s \in Live(c)
    PROVE  StageOf(c) = StatusStage(shift[s].status)
<1>1. (CHOOSE t \in Live(c) : TRUE) = s
  BY DEF OneLiveShiftPerCashier
<1> QED BY <1>1 DEF StageOf, StatusStage

\* The same of the state after a step.
LEMMA StageOfLiveNext ==
    ASSUME OneLiveShiftPerCashier', NEW c \in Cashiers, NEW s \in Live(c)'
    PROVE  StageOf(c)' = StatusStage(shift'[s].status)
<1>1. (CHOOSE t \in Live(c)' : TRUE) = s
  BY DEF OneLiveShiftPerCashier
<1> QED BY <1>1 DEF StageOf, StatusStage

\* A step that leaves the live shifts of a cashier, and what their statuses
\* stand for, leaves the stage of the cashier.
LEMMA StageStays ==
    ASSUME OneLiveShiftPerCashier, OneLiveShiftPerCashier', NEW c \in Cashiers,
           Live(c)' = Live(c),
           \A s \in Live(c) :
              StatusStage(shift'[s].status) = StatusStage(shift[s].status)
    PROVE  StageOf(c)' = StageOf(c)
<1>1. CASE Live(c) = {}
  BY <1>1 DEF StageOf
<1>2. CASE Live(c) # {}
  <2>1. PICK s : s \in Live(c)
    BY <1>2
  <2>2. StageOf(c) = StatusStage(shift[s].status)
    BY <2>1, StageOfLive
  <2>3. StageOf(c)' = StatusStage(shift'[s].status)
    BY <2>1, StageOfLiveNext
  <2> QED BY <2>1, <2>2, <2>3
<1> QED BY <1>1, <1>2

\* A step that leaves the audit of a shift, and what the variance and the charge
\* tell of its close, leaves the reckoning of the shift.
LEMMA ReckoningStays ==
    ASSUME NEW s \in Shifts,
           s \in Rows' /\ shift'[s].audit # None
              <=> s \in Rows /\ shift[s].audit # None,
           variance'[s] = None <=> variance[s] = None,
           variance[s] # None => variance'[s].variance = variance[s].variance,
           charge'[s] = None <=> charge[s] = None
    PROVE  ReckoningOf(s)' = ReckoningOf(s)
<1>1. CASE s \in Rows /\ shift[s].audit # None
  BY <1>1 DEF ReckoningOf
<1>2. CASE ~(s \in Rows /\ shift[s].audit # None)
  BY <1>2 DEF ReckoningOf
<1> QED BY <1>1, <1>2

\* What a step does to the abstract drawer when it rewrites one live row: the
\* stages follow its status, and nothing is reckoned.
LEMMA LiveRowChange ==
    ASSUME ShiftInv, OneLiveShiftPerCashier', NEW c \in Cashiers,
           NEW s \in Live(c), s \in Live(c)',
           \A t \in Shifts : t # s => shift'[t] = shift[t],
           UNCHANGED <<variance, charge>>
    PROVE  /\ StageOf(c) = StatusStage(shift[s].status)
           /\ StageOf(c)' = StatusStage(shift'[s].status)
           /\ \A d \in Cashiers : d # c => StageOf(d)' = StageOf(d)
           /\ shift'[s].audit = shift[s].audit =>
                 \A t \in Shifts : ReckoningOf(t)' = ReckoningOf(t)
<1>0. OneLiveShiftPerCashier
  BY DEF ShiftInv
<1>1. s \in Shifts /\ s \in Rows /\ shift[s].cashier = c
  BY DEF Live, Rows
<1>2. s \in Rows' /\ shift'[s].cashier = c
  BY DEF Live
<1>3. StageOf(c) = StatusStage(shift[s].status)
  BY <1>0, StageOfLive
<1>4. StageOf(c)' = StatusStage(shift'[s].status)
  BY StageOfLiveNext
<1>5. ASSUME NEW d \in Cashiers, d # c
      PROVE  StageOf(d)' = StageOf(d)
  <2>1. Live(d)' = Live(d)
    BY <1>1, <1>2, <1>5 DEF Live, Rows
  <2>2. \A t \in Live(d) : shift'[t] = shift[t]
    BY <1>1, <1>5 DEF Live, Rows
  <2> QED BY <1>0, <2>1, <2>2, StageStays
<1>6. ASSUME shift'[s].audit = shift[s].audit, NEW t \in Shifts
      PROVE  ReckoningOf(t)' = ReckoningOf(t)
  <2>1. s \in Rows' /\ shift'[t].audit = shift[t].audit /\ (t \in Rows' <=> t \in Rows)
    BY <1>1, <1>2, <1>6 DEF Rows
  <2> QED BY <2>1, ReckoningStays
<1> QED BY <1>3, <1>4, <1>5, <1>6

\* The two state functions the refinement maps the variables to.
StageBar == [c \in Cashiers |-> StageOf(c)]
ReckoningBar == [s \in Shifts |-> ReckoningOf(s)]

\* A step that keeps every stage and every reckoning is a stutter of the
\* abstract specification.
LEMMA CustodyStutter ==
    ASSUME \A c \in Cashiers : StageOf(c)' = StageOf(c),
           \A s \in Shifts : ReckoningOf(s)' = ReckoningOf(s)
    PROVE  UNCHANGED <<StageBar, ReckoningBar>>
BY DEF StageBar, ReckoningBar

\* A step that moves one cashier a stage and reckons nothing is the abstract
\* Move of that cashier.
LEMMA CustodyMove ==
    ASSUME NEW c \in Cashiers, NEW from, NEW to,
           StageOf(c) = from, StageOf(c)' = to,
           \A d \in Cashiers : d # c => StageOf(d)' = StageOf(d),
           \A s \in Shifts : ReckoningOf(s)' = ReckoningOf(s)
    PROVE  Custody!Move(c, from, to) /\ UNCHANGED ReckoningBar
<1>1. StageBar[c] = from /\ StageBar' = [StageBar EXCEPT ![c] = to]
  BY DEF StageBar
<1> QED BY <1>1 DEF Custody!Move, StageBar, ReckoningBar

\* Every step of the shift routes is the abstract step its name suggests, or a
\* stutter: opening hands the drawer over, acceptance takes charge, the submitted
\* count counts, the final close reckons; everything else shows nothing.
LEMMA CustodyStep ==
    ASSUME ShiftInv, ShiftInv', [Next]_vars
    PROVE  [Custody!Next]_<<StageBar, ReckoningBar>>
<1> USE NoneAssumption
<1>0. /\ TypeOK /\ RowsOK /\ OpeningOK
      /\ OneLiveShiftPerCashier /\ OneLiveShiftPerCashier'
      /\ TypeOK' /\ RowsOK'
  BY DEF ShiftInv
<1>a. ASSUME UNCHANGED <<shift, variance, charge>>
      PROVE  UNCHANGED <<StageBar, ReckoningBar>>
  <2>1. \A c \in Cashiers : StageOf(c)' = StageOf(c)
    BY <1>a DEF StageOf, Live, Rows
  <2>2. \A s \in Shifts : ReckoningOf(s)' = ReckoningOf(s)
    BY <1>a DEF ReckoningOf, Rows
  <2> QED BY <2>1, <2>2, CustodyStutter
<1>1. ASSUME NEW m \in Managers, OpenCommit(m)
      PROVE  Custody!Next
  <2>0. PICK c \in Cashiers : c = opening[m].cashier
    BY <1>0, <1>1 DEF OpenCommit, TypeOK, Openings
  <2>1. PICK s \in Shifts \ Rows :
            shift' = [shift EXCEPT ![s] = NewRow(c, opening[m].openingFloat)]
    BY <1>1, <2>0 DEF OpenCommit
  <2>2. Live(c) = {}
    BY <1>0, <1>1, <2>0 DEF OpenCommit, OpeningOK
  <2>3. /\ \A t \in Shifts : t # s => shift'[t] = shift[t]
        /\ shift'[s] = NewRow(c, opening[m].openingFloat)
        /\ shift[s] = None
    BY <1>0, <2>1 DEF TypeOK, Rows
  <2>4. /\ shift'[s].cashier = c /\ shift'[s].status = "PENDING_ACCEPT"
        /\ shift'[s].audit = None /\ shift'[s].closedAt = FALSE
    BY <2>3 DEF NewRow
  <2>5. shift'[s] # None
    <3>1. opening[m].openingFloat \in Nat
      BY <1>0, <1>1 DEF OpenCommit, TypeOK, Openings
    <3>2. shift'[s] \in ShiftRows
      BY <2>3, <3>1 DEF NewRow, ShiftRows, Statuses
    <3> QED BY <3>2
  <2>6. s \in Live(c)'
    BY <2>4, <2>5 DEF Live, Rows
  <2>7. StageOf(c) = "none" /\ StageOf(c)' = "opening"
    <3>1. StageOf(c)' = StatusStage(shift'[s].status)
      BY <1>0, <2>6, StageOfLiveNext
    <3> QED BY <2>2, <2>4, <3>1 DEF StageOf, StatusStage
  <2>8. ASSUME NEW d \in Cashiers, d # c
        PROVE  StageOf(d)' = StageOf(d)
    <3>1. Live(d)' = Live(d)
      BY <2>3, <2>4, <2>8 DEF Live, Rows
    <3>2. \A t \in Live(d) : shift'[t] = shift[t]
      BY <2>3 DEF Live, Rows
    <3> QED BY <1>0, <3>1, <3>2, StageStays
  <2>9. ASSUME NEW t \in Shifts
        PROVE  ReckoningOf(t)' = ReckoningOf(t)
    <3>1. t \in Rows' /\ shift'[t].audit # None <=> t \in Rows /\ shift[t].audit # None
      BY <2>3, <2>4 DEF Rows
    <3> QED BY <1>1, <3>1, ReckoningStays DEF OpenCommit
  <2>10. Custody!Move(c, "none", "opening") /\ UNCHANGED ReckoningBar
    BY <2>7, <2>8, <2>9, CustodyMove
  <2> QED BY <2>10 DEF Custody!Next, Custody!HandOver, ReckoningBar
<1>2. ASSUME NEW s \in Shifts, NEW f \in Floats, Resend(s, f)
      PROVE  UNCHANGED <<StageBar, ReckoningBar>>
  <2>1. /\ s \in Rows /\ shift[s] \in ShiftRows
        /\ shift[s].status \in {"PENDING_ACCEPT", "OPENING_DISPUTED"}
        /\ \A t \in Shifts : t # s => shift'[t] = shift[t]
        /\ shift'[s] = [shift[s] EXCEPT !.status = "PENDING_ACCEPT",
                           !.openingFloat = f, !.verified = FALSE]
        /\ UNCHANGED <<variance, charge>>
    BY <1>0, <1>2 DEF Resend, MayResend, TypeOK, Rows
  <2>2. PICK c \in Cashiers : c = shift[s].cashier
    BY <2>1 DEF ShiftRows
  <2>3. /\ shift'[s].status = "PENDING_ACCEPT" /\ shift'[s].cashier = c
        /\ shift'[s].closedAt = shift[s].closedAt /\ shift'[s].audit = shift[s].audit
        /\ s \in Rows'
    BY <2>1, <2>2, RowStep, <1>0 DEF ShiftRows, RowEvolves
  <2>4. s \in Live(c) /\ s \in Live(c)'
    BY <1>2, <2>1, <2>2, <2>3 DEF Resend, MayResend, Live
  <2>5. /\ StageOf(c) = StatusStage(shift[s].status)
        /\ StageOf(c)' = StatusStage(shift'[s].status)
        /\ \A d \in Cashiers : d # c => StageOf(d)' = StageOf(d)
        /\ \A t \in Shifts : ReckoningOf(t)' = ReckoningOf(t)
    <3>1. /\ \A t \in Shifts : t # s => shift'[t] = shift[t]
          /\ UNCHANGED <<variance, charge>>
          /\ shift'[s].audit = shift[s].audit
      BY <2>1, <2>3
    <3> QED BY <1>0, <2>4, <3>1, LiveRowChange
  <2>6. StatusStage(shift'[s].status) = StatusStage(shift[s].status)
    BY <2>1, <2>3 DEF StatusStage
  <2> QED BY <2>5, <2>6, CustodyStutter
<1>3. ASSUME NEW c \in Cashiers, NEW st \in {"OPEN", "OPENING_DISPUTED"}, Verify(c, st)
      PROVE  IF st = "OPEN" THEN Custody!Next
             ELSE UNCHANGED <<StageBar, ReckoningBar>>
  <2>0. PICK s \in Shifts : s = session[c]
    BY <1>3 DEF Verify, Live, Rows
  <2>1. /\ s \in Live(c) /\ shift[s] \in ShiftRows
        /\ shift[s].status = "PENDING_ACCEPT"
        /\ \A t \in Shifts : t # s => shift'[t] = shift[t]
        /\ shift'[s] = [shift[s] EXCEPT !.status = st, !.verified = TRUE]
        /\ UNCHANGED <<variance, charge>>
    BY <1>0, <1>3, <2>0 DEF Verify, Live, TypeOK, Rows
  <2>2. /\ shift'[s].status = st /\ shift'[s].cashier = shift[s].cashier
        /\ shift'[s].closedAt = shift[s].closedAt /\ shift'[s].audit = shift[s].audit
        /\ s \in Rows'
    BY <2>1, RowStep, <1>0 DEF ShiftRows, RowEvolves, Live
  <2>3. s \in Live(c)'
    BY <2>1, <2>2 DEF Live
  <2>4. /\ StageOf(c) = StatusStage(shift[s].status)
        /\ StageOf(c)' = StatusStage(shift'[s].status)
        /\ \A d \in Cashiers : d # c => StageOf(d)' = StageOf(d)
        /\ \A t \in Shifts : ReckoningOf(t)' = ReckoningOf(t)
    <3>1. /\ \A t \in Shifts : t # s => shift'[t] = shift[t]
          /\ UNCHANGED <<variance, charge>>
          /\ shift'[s].audit = shift[s].audit /\ s \in Live(c)
      BY <2>1, <2>2
    <3> QED BY <1>0, <2>3, <3>1, LiveRowChange
  <2>5. CASE st = "OPEN"
    <3>1. StageOf(c) = "opening" /\ StageOf(c)' = "trading"
      BY <2>1, <2>2, <2>4, <2>5 DEF StatusStage
    <3>2. Custody!Move(c, "opening", "trading") /\ UNCHANGED ReckoningBar
      BY <2>4, <3>1, CustodyMove
    <3> QED BY <2>5, <3>2 DEF Custody!Next, Custody!TakeCharge, ReckoningBar
  <2>6. CASE st = "OPENING_DISPUTED"
    <3>1. StageOf(c)' = StageOf(c)
      BY <2>1, <2>2, <2>4, <2>6 DEF StatusStage
    <3> QED BY <2>4, <2>6, <3>1, CustodyStutter
  <2> QED BY <2>5, <2>6
<1>4. ASSUME NEW c \in Cashiers, NEW n \in Counts, SubmitCount(c, n)
      PROVE  Custody!Next
  <2>0. PICK s \in Shifts : s = session[c]
    BY <1>4 DEF SubmitCount, MaySubmit, Live, Rows
  <2>1. /\ s \in Live(c) /\ shift[s] \in ShiftRows
        /\ shift[s].status = "OPEN"
        /\ \A t \in Shifts : t # s => shift'[t] = shift[t]
        /\ shift'[s] = [shift[s] EXCEPT !.status = "SUBMITTED", !.closingTotal = n]
        /\ UNCHANGED <<variance, charge>>
    BY <1>0, <1>4, <2>0 DEF SubmitCount, MaySubmit, Live, TypeOK, Rows
  <2>2. /\ shift'[s].status = "SUBMITTED" /\ shift'[s].cashier = shift[s].cashier
        /\ shift'[s].closedAt = shift[s].closedAt /\ shift'[s].audit = shift[s].audit
        /\ s \in Rows'
    BY <2>1, RowStep, <1>0 DEF ShiftRows, RowEvolves, Live
  <2>3. s \in Live(c)'
    BY <2>1, <2>2 DEF Live
  <2>4. /\ StageOf(c) = StatusStage(shift[s].status)
        /\ StageOf(c)' = StatusStage(shift'[s].status)
        /\ \A d \in Cashiers : d # c => StageOf(d)' = StageOf(d)
        /\ \A t \in Shifts : ReckoningOf(t)' = ReckoningOf(t)
    <3>1. /\ \A t \in Shifts : t # s => shift'[t] = shift[t]
          /\ UNCHANGED <<variance, charge>>
          /\ shift'[s].audit = shift[s].audit /\ s \in Live(c)
      BY <2>1, <2>2
    <3> QED BY <1>0, <2>3, <3>1, LiveRowChange
  <2>5. StageOf(c) = "trading" /\ StageOf(c)' = "counted"
    BY <2>1, <2>2, <2>4 DEF StatusStage
  <2>6. Custody!Move(c, "trading", "counted") /\ UNCHANGED ReckoningBar
    BY <2>4, <2>5, CustodyMove
  <2> QED BY <2>6 DEF Custody!Next, Custody!Count, ReckoningBar
<1>5. ASSUME NEW s \in Shifts, NEW n \in Counts, NEW d \in Decisions,
             NEW p \in BOOLEAN, FinalClose(s, n, d, p)
      PROVE  Custody!Next
  <2>1. /\ s \in Rows /\ shift[s] \in ShiftRows
        /\ shift[s].status = "SUBMITTED" /\ ~shift[s].closedAt
        /\ \A t \in Shifts : t # s => /\ shift'[t] = shift[t]
                                     /\ variance'[t] = variance[t]
                                     /\ charge'[t] = charge[t]
    BY <1>0, <1>5 DEF FinalClose, MayClose, TypeOK, Rows
  <2>2. PICK c \in Cashiers : c = shift[s].cashier
    BY <2>1 DEF ShiftRows
  <2>3. /\ s \in Rows' /\ shift'[s].cashier = c
    BY <1>0, <2>1, <2>2, RowStep DEF RowEvolves
  <2>4. shift'[s].closedAt = TRUE /\ shift'[s].status = "FINAL_CLOSED"
    <3> DEFINE au == [expected |-> ExpectedDrawer(s), manager |-> n,
                     decision |-> Resolution(n - ExpectedDrawer(s), d)]
    <3>1. shift'[s] = [shift[s] EXCEPT !.status = "FINAL_CLOSED",
                                       !.closedAt = TRUE, !.audit = au]
      BY <1>0, <1>5 DEF FinalClose, TypeOK
    <3> HIDE DEF au
    <3> QED BY <2>1, <3>1 DEF ShiftRows
  <2>5. s \in Live(c) /\ s \notin Live(c)'
    BY <2>1, <2>2, <2>4 DEF Live
  <2>6. Live(c)' = {}
    <3>1. Live(c)' \subseteq Live(c) \ {s}
      BY <2>1, <2>3, <2>4 DEF Live, Rows
    <3>2. Live(c) = {s}
      BY <1>0, <2>5 DEF OneLiveShiftPerCashier
    <3> QED BY <3>1, <3>2
  <2>7. StageOf(c) = "counted" /\ StageOf(c)' = "none"
    <3>1. StageOf(c) = StatusStage(shift[s].status)
      BY <1>0, <2>5, StageOfLive
    <3> QED BY <2>1, <2>6, <3>1 DEF StageOf, StatusStage
  <2>8. ASSUME NEW e \in Cashiers, e # c
        PROVE  StageOf(e)' = StageOf(e)
    <3>1. Live(e)' = Live(e)
      BY <2>1, <2>2, <2>3, <2>8 DEF Live, Rows
    <3>2. \A t \in Live(e) : shift'[t] = shift[t]
      BY <2>1, <2>2, <2>8 DEF Live, Rows
    <3> QED BY <1>0, <3>1, <3>2, StageStays
  <2>9. ASSUME NEW t \in Shifts, t # s
        PROVE  ReckoningOf(t)' = ReckoningOf(t)
    <3>1. t \in Rows' /\ shift'[t].audit # None <=> t \in Rows /\ shift[t].audit # None
      BY <2>1, <2>9 DEF Rows
    <3> QED BY <2>1, <2>9, <3>1, ReckoningStays
  <2>10. ReckoningOf(s) = None
    <3>1. shift[s].audit = None
      BY <1>0, <2>1 DEF RowsOK
    <3> QED BY <2>1, <3>1 DEF ReckoningOf
  <2>11. ReckoningOf(s)' \in Custody!Reckonings
    <3>1. shift'[s].audit # None
      BY <1>0, <2>3, <2>4 DEF RowsOK
    <3> QED BY <2>3, <3>1 DEF ReckoningOf, Custody!Reckonings
  <2>12. StageBar[c] = "counted" /\ StageBar' = [StageBar EXCEPT ![c] = "none"]
    BY <2>7, <2>8 DEF StageBar
  <2>13. PICK o \in Custody!Reckonings : o = ReckoningOf(s)'
    BY <2>11
  <2>14. /\ ReckoningBar[s] = None
         /\ ReckoningBar' = [ReckoningBar EXCEPT ![s] = o]
    BY <2>9, <2>10, <2>13 DEF ReckoningBar
  <2>15. Custody!Reckon(c)
    BY <2>12, <2>13, <2>14 DEF Custody!Reckon, Custody!Move, StageBar, ReckoningBar
  <2> QED BY <2>15 DEF Custody!Next
<1>6. ASSUME NEW c \in Cashiers, NEW s \in Shifts, AcknowledgeCharge(c, s)
      PROVE  UNCHANGED <<StageBar, ReckoningBar>>
  <2>1. \A e \in Cashiers : StageOf(e)' = StageOf(e)
    BY <1>6 DEF AcknowledgeCharge, StageOf, Live, Rows
  <2>2. /\ variance[s] \in VarianceRows /\ variance[s] # None
        /\ variance'[s] = [variance[s] EXCEPT !.status = "CLOSED"]
        /\ \A t \in Shifts : t # s => variance'[t] = variance[t]
        /\ UNCHANGED <<shift, charge>>
    BY <1>0, <1>6 DEF AcknowledgeCharge, TypeOK
  <2>3. variance'[s] \in VarianceRows /\ variance'[s].variance = variance[s].variance
    BY <2>2 DEF VarianceRows
  <2>4. variance'[s] # None
    BY <2>3
  <2>5. ASSUME NEW t \in Shifts
        PROVE  ReckoningOf(t)' = ReckoningOf(t)
    BY <2>2, <2>3, <2>4, ReckoningStays DEF Rows
  <2> QED BY <2>1, <2>5, CustodyStutter
<1>7. CASE ManagerStep
  BY <1>a, <1>1, <1>2, <1>5, <1>7 DEF ManagerStep, OpenRead
<1>8. CASE CashierStep
  <2>1. PICK c \in Cashiers :
          \/ Reattach(c) \/ Logout(c)
          \/ AcceptOpening(c) \/ DisputeOpening(c)
          \/ \E n \in Counts : SubmitCount(c, n)
          \/ \E s \in Shifts : AcknowledgeCharge(c, s)
          \/ \E r \in Requests, k \in Postings, a \in Amounts :
                BeginPosting(r, c, k, a)
    BY <1>8 DEF CashierStep
  <2>2. CASE Reattach(c) \/ Logout(c)
    BY <1>a, <2>2 DEF Reattach, Logout
  <2>3. CASE AcceptOpening(c)
    BY <1>3, <2>3 DEF AcceptOpening
  <2>4. CASE DisputeOpening(c)
    BY <1>3, <2>4 DEF DisputeOpening
  <2>5. CASE \E r \in Requests, k \in Postings, a \in Amounts :
                BeginPosting(r, c, k, a)
    BY <1>a, <2>5 DEF BeginPosting
  <2> QED BY <1>4, <1>6, <2>1, <2>2, <2>3, <2>4, <2>5
<1>9. CASE \E r \in Requests : CommitPosting(r)
  BY <1>a, <1>9 DEF CommitPosting
<1>10. CASE UNCHANGED vars
  BY <1>a, <1>10 DEF vars
<1> QED
  BY <1>7, <1>8, <1>9, <1>10 DEF Next

\* The shift routes implement ShiftCustody: with any number of managers, cashiers
\* and requests, no stage of a drawer is skipped and none is reckoned twice.
THEOREM CustodyImplemented == Spec => CustodyRefined
<1>1. Init => Custody!Init
  <2> SUFFICES ASSUME Init
               PROVE  Custody!Init
    OBVIOUS
  <2>1. Rows = {} /\ \A c \in Cashiers : Live(c) = {}
    BY DEF Init, Rows, Live
  <2> QED BY <2>1 DEF Custody!Init, StageOf, ReckoningOf
<1>2. ShiftInv /\ ShiftInv' /\ [Next]_vars =>
        [Custody!Next]_<<[c \in Cashiers |-> StageOf(c)],
                         [s \in Shifts |-> ReckoningOf(s)]>>
  BY CustodyStep DEF StageBar, ReckoningBar
<1> QED
  BY <1>1, <1>2, ShiftInvariant, PTL DEF Spec, CustodyRefined, Custody!Spec

=============================================================================
