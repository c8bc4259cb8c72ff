-------------------------- MODULE RiderSettlement --------------------------
(***************************************************************************)
(* What happens to the cash a rider brings back from a delivery run: the   *)
(* cashier's remit of each order, the shortages it leaves behind, the      *)
(* manager's decision and the rider's acceptance of a shortage, the charge *)
(* payroll collects, and the settlement of the run.                        *)
(*                                                                         *)
(* Source: app/routes/delivery-remit.$id.tsx,                              *)
(* app/routes/cashier.delivery.$runId.tsx,                                 *)
(* app/routes/store.rider-variances.tsx, app/routes/rider.variance.$id.tsx,*)
(* app/routes/store.rider-ar.tsx and                                       *)
(* app/services/worker-payroll-run.server.ts.                              *)
(*                                                                         *)
(* One CLOSED run is modelled.  A handler reads before its transaction     *)
(* opens and writes what it computed from that read: every handler is a    *)
(* read and a commit, and other requests may commit in between.  Money is  *)
(* counted in units larger than EPS.                                       *)
(***************************************************************************)
EXTENDS Integers, FiniteSets, FiniteSetsExt

CONSTANTS
    Drops,      \* the orders of the run, each with its run receipt
    Total,      \* frozen total of an order
    Customers,  \* the orders linked to a customer record
    Cashiers,   \* cashiers with a writable shift
    Counted,    \* amounts a cashier may count
    Remits,     \* requests the server handles at the same time
    MayOverlap, \* bound: the requests in flight at once, by the orders released
    Nil

ASSUME SettlementAssumption ==
    /\ IsFiniteSet(Drops)
    /\ Total \in [Drops -> Nat \ {0}]
    /\ Customers \subseteq Drops
    /\ Counted \subseteq Nat
    /\ MayOverlap \in [SUBSET Drops -> Nat]
    /\ Nil \notin Drops \cup Cashiers

VARIABLES
    runState,   \* status of the DeliveryRun
    released,   \* the orders whose goods were released: the delivery did not fail
    riderCash,  \* per order, cashCollected of its receipt, never above the total
    account,    \* per order, its status, payments and lock
    shortage,   \* per order, its RiderRunVariance, or Nil
    debt,       \* per order, the RiderCharge of that variance, or Nil
    asked,      \* what a request has read and not yet committed, or Nil
    tangled     \* history: orders two requests ever handled at the same time

cashVars == <<runState, released, riderCash, account, shortage, debt, asked,
              tangled>>

AtMost(a, b) == IF a <= b THEN a ELSE b

Positive(n) == IF n > 0 THEN n ELSE 0

-----------------------------------------------------------------------------
(* Rows *)

Accounts == [status : {"UNPAID", "PARTIALLY_PAID", "PAID"}, cash : Nat,
             bridge : Nat, lock : Cashiers \cup {Nil}, stale : BOOLEAN]

Verdicts == {"CHARGE_RIDER", "INFO_ONLY", "WAIVE"}

Shortages == [id : Nat, status : {"OPEN", "MANAGER_APPROVED", "RIDER_ACCEPTED",
                                  "WAIVED", "PARTIALLY_SETTLED", "CLOSED"},
              expected : Nat, actual : Nat,
              verdict : Verdicts \cup {Nil}, accepted : BOOLEAN]

Debts == [amount : Nat, paid : Nat, plan : BOOLEAN,
          status : {"OPEN", "PARTIALLY_SETTLED", "SETTLED", "WAIVED"}]

Asks == [op : {"remit"}, on : Drops, cash : Nat, bridge : Nat, paidUp : BOOLEAN]
        \cup [op : {"decide"}, on : Drops, verdict : Verdicts, short : Nat]
        \cup [op : {"accept"}, on : Drops, short : Nat]
        \cup [op : {"finalize"}, on : Drops \cup {Nil}]

ASSUME NilAssumption ==
    Nil \notin Shortages \cup Debts \cup Asks \cup Verdicts

Asking(t, op) == asked[t] # Nil /\ asked[t].op = op

Ask(t, a) ==
    /\ asked[t] = Nil
    /\ Cardinality({u \in Remits : asked[u] # Nil}) < MayOverlap[released]
    /\ asked' = [asked EXCEPT ![t] = a]

Answer(t) == asked' = [asked EXCEPT ![t] = Nil]

Short(o) == shortage[o].expected - shortage[o].actual

HasShortage(o, S) == shortage[o] # Nil /\ shortage[o].status \in S

CashInit ==
    /\ runState = "CLOSED"
    /\ riderCash \in {f \in [Drops -> UNION {0 .. Total[o] : o \in Drops}] :
                         \A o \in Drops : f[o] <= Total[o]}
    /\ released \in {S \in SUBSET Drops : \A o \in Drops \ S : riderCash[o] = 0}
    /\ account = [o \in Drops |-> [status |-> "UNPAID", cash |-> 0, bridge |-> 0,
                                   lock |-> Nil, stale |-> FALSE]]
    /\ shortage = [o \in Drops |-> Nil]
    /\ debt = [o \in Drops |-> Nil]
    /\ asked = [t \in Remits |-> Nil]
    /\ tangled = {}

-----------------------------------------------------------------------------
(* The remit of one order *)

AmountOwing(o) == o \in released /\ account[o].status # "PAID"

\* Cash the rider still has to hand over for the order.
Due(o) == riderCash[o] - AtMost(account[o].cash, riderCash[o])

LockedByOther(c, o) ==
    account[o].lock \notin {Nil, c} /\ ~account[o].stale

\* The page of an order takes its lock, which lasts ten minutes.
OpenRemit(c, o) ==
    /\ account[o].status # "PAID"
    /\ ~LockedByOther(c, o)
    /\ account' = [account EXCEPT ![o].lock = c, ![o].stale = FALSE]
    /\ UNCHANGED <<runState, released, riderCash, shortage, debt, asked>>

LockExpires(o) ==
    /\ account[o].lock # Nil
    /\ ~account[o].stale
    /\ account' = [account EXCEPT ![o].stale = TRUE]
    /\ UNCHANGED <<runState, released, riderCash, shortage, debt, asked>>

AppliedCash(counted, o) == AtMost(counted, Due(o))

\* The rider vouches that the customer paid in full, but brought less.
Bridge(o, applied) ==
    IF riderCash[o] = Total[o] /\ account[o].bridge = 0 THEN Due(o) - applied ELSE 0

Remaining(o, applied, bridge) ==
    Positive(Total[o] - account[o].cash - account[o].bridge - applied - bridge)

RemitAsk(t, c, o, counted) ==
    LET applied == AppliedCash(counted, o)
        bridge == Bridge(o, applied)
        left == Remaining(o, applied, bridge) IN
    /\ AmountOwing(o)
    /\ ~LockedByOther(c, o)
    /\ left > 0 => o \in Customers
    /\ Ask(t, [op |-> "remit", on |-> o, cash |-> applied, bridge |-> bridge,
               paidUp |-> left = 0])
    /\ UNCHANGED <<runState, released, riderCash, account, shortage, debt>>

\* Mutant: the variance remembers what the rider declared, not what was counted.
ReportedDeclared(old, o, j) ==
    IF old = Nil
    THEN [id |-> Cardinality({p \in Drops : shortage[p] # Nil}) + 1,
          status |-> "OPEN", expected |-> riderCash[o], actual |-> riderCash[o],
          verdict |-> Nil, accepted |-> FALSE]
    ELSE [old EXCEPT !.status = "OPEN"]

\* The variance is upserted by receipt: an older one is reopened.
Reported(old, o, j) ==
    IF old = Nil
    THEN [id |-> Cardinality({p \in Drops : shortage[p] # Nil}) + 1,
          status |-> "OPEN", expected |-> riderCash[o], actual |-> j.cash,
          verdict |-> Nil, accepted |-> FALSE]
    ELSE [old EXCEPT !.status = "OPEN", !.expected = riderCash[o], !.actual = j.cash]

Remitted(row, j) ==
    [row EXCEPT !.cash = @ + j.cash, !.bridge = @ + j.bridge,
                !.status = IF j.paidUp THEN "PAID" ELSE "PARTIALLY_PAID",
                !.lock = Nil, !.stale = FALSE]

Remit(t) ==
    LET j == asked[t]
        o == j.on IN
    /\ Asking(t, "remit")
    /\ account' = [account EXCEPT ![o] = Remitted(account[o], j)]
    /\ shortage' = IF j.bridge > 0
                   THEN [shortage EXCEPT ![o] = Reported(shortage[o], o, j)]
                   ELSE shortage
    /\ Answer(t)
    /\ UNCHANGED <<runState, released, riderCash, debt>>

-----------------------------------------------------------------------------
(* The shortage: the manager, the rider, payroll *)

DecideAsk(t, o, verdict) ==
    /\ HasShortage(o, {"OPEN", "MANAGER_APPROVED"})
    /\ Ask(t, [op |-> "decide", on |-> o, verdict |-> verdict, short |-> Short(o)])
    /\ UNCHANGED <<runState, released, riderCash, account, shortage, debt>>

Charged(old, amount) ==
    IF old = Nil THEN [amount |-> amount, paid |-> 0, plan |-> FALSE, status |-> "OPEN"]
    ELSE [old EXCEPT !.amount = amount, !.status = "OPEN"]

\* Mutant: the charge of an earlier decision survives the waiver.
ForgivenNot(old) == old

Forgiven(old) ==
    IF old # Nil /\ old.status \in {"OPEN", "PARTIALLY_SETTLED"}
    THEN [old EXCEPT !.status = "WAIVED"] ELSE old

\* INFO_ONLY leaves a charge of an earlier decision as it is.
DecideShort(t) ==
    LET j == asked[t]
        o == j.on IN
    /\ Asking(t, "decide")
    /\ shortage' = [shortage EXCEPT
          ![o].verdict = j.verdict,
          ![o].status = IF j.verdict = "WAIVE" THEN "WAIVED" ELSE "MANAGER_APPROVED"]
    /\ debt' = [debt EXCEPT
          ![o] = IF j.verdict = "CHARGE_RIDER" THEN Charged(debt[o], j.short)
                 ELSE IF j.verdict = "WAIVE" THEN Forgiven(debt[o])
                 ELSE debt[o]]
    /\ Answer(t)
    /\ UNCHANGED <<runState, released, riderCash, account>>

AcceptAsk(t, o) ==
    /\ HasShortage(o, {"MANAGER_APPROVED"})
    /\ shortage[o].verdict = "CHARGE_RIDER"
    /\ ~shortage[o].accepted
    /\ Ask(t, [op |-> "accept", on |-> o, short |-> Short(o)])
    /\ UNCHANGED <<runState, released, riderCash, account, shortage, debt>>

\* The rider's acceptance opens the charge and puts it on the payroll plan.
Accept(t) ==
    LET j == asked[t]
        o == j.on IN
    /\ Asking(t, "accept")
    /\ shortage' = [shortage EXCEPT ![o].status = "RIDER_ACCEPTED", ![o].accepted = TRUE]
    /\ debt' = [debt EXCEPT
          ![o] = IF debt[o] = Nil
                 THEN [Charged(Nil, j.short) EXCEPT !.plan = TRUE]
                 ELSE [debt[o] EXCEPT !.status = "OPEN", !.plan = TRUE]]
    /\ Answer(t)
    /\ UNCHANGED <<runState, released, riderCash, account>>

\* A manager may plan the deduction without waiting for the rider.
PlanDeduction(o) ==
    /\ debt[o] # Nil
    /\ debt[o].status \notin {"WAIVED", "SETTLED"}
    /\ ~debt[o].plan
    /\ debt' = [debt EXCEPT ![o].plan = TRUE]
    /\ UNCHANGED <<runState, released, riderCash, account, shortage, asked>>

SettlesDebt(row, pay) ==
    IF row.paid + pay >= row.amount THEN "SETTLED" ELSE "PARTIALLY_SETTLED"

Collected(row, pay) ==
    [row EXCEPT !.paid = row.paid + pay, !.status = SettlesDebt(row, pay)]

\* A payroll deduction; the variance follows the charge unless it is done with.
Deduct(o, pay) ==
    LET next == SettlesDebt(debt[o], pay) IN
    /\ debt[o] # Nil
    /\ debt[o].plan /\ debt[o].status \in {"OPEN", "PARTIALLY_SETTLED"}
    /\ pay \in 1 .. (debt[o].amount - debt[o].paid)
    /\ debt' = [debt EXCEPT ![o] = Collected(debt[o], pay)]
    /\ shortage' =
          IF next = "SETTLED" /\ HasShortage(o, {"OPEN", "MANAGER_APPROVED",
                                         "RIDER_ACCEPTED", "PARTIALLY_SETTLED"})
          THEN [shortage EXCEPT ![o].status = "CLOSED"]
          ELSE IF next = "PARTIALLY_SETTLED" /\
                  HasShortage(o, {"OPEN", "MANAGER_APPROVED", "RIDER_ACCEPTED"})
          THEN [shortage EXCEPT ![o].status = "PARTIALLY_SETTLED"]
          ELSE shortage
    /\ UNCHANGED <<runState, released, riderCash, account, asked>>

-----------------------------------------------------------------------------
(* The settlement of the run *)

\* Cash that is neither in a drawer nor passed over with the order.
Unsettled == {o \in Drops : AmountOwing(o) /\ Due(o) > 0}

CashShort == SumFunction([o \in Drops |-> Due(o)])

\* The run's page locks what is left to remit, whatever the age of the locks.
ClaimRun(c) ==
    LET mine == {o \in Unsettled : account[o].lock \in {Nil, c}} IN
    /\ runState = "CLOSED"
    /\ mine # {}
    /\ account' = [o \in Drops |-> IF o \in mine
                     THEN [account[o] EXCEPT !.lock = c, !.stale = FALSE]
                     ELSE account[o]]
    /\ UNCHANGED <<runState, released, riderCash, shortage, debt, asked>>

\* Or settles the run when nothing is short.
AutoSettle ==
    /\ runState = "CLOSED"
    /\ Unsettled = {}
    /\ CashShort = 0
    /\ runState' = "SETTLED"
    /\ UNCHANGED <<released, riderCash, account, shortage, debt, asked>>

Pending == {o \in Drops : HasShortage(o, {"OPEN", "MANAGER_APPROVED",
                                          "RIDER_ACCEPTED", "WAIVED"})}

\* Only the newest variance is looked at.
Newest == {o \in Pending : \A p \in Pending : shortage[p].id <= shortage[o].id}

\* Mutant: a charge is cleared once the manager approved it.
ClearedByManager(v) == v.verdict # Nil

Cleared(v) ==
    \/ v.status \in {"WAIVED", "CLOSED"}
    \/ v.verdict = "CHARGE_RIDER" /\ v.accepted
    \/ v.verdict \in {"INFO_ONLY", "WAIVE"}

\* Mutant: the cashier may finalize with remits left to do.
NoneLeftUnchecked(S) == TRUE

NoneLeft(S) == S = {}

FinalizeAsk(t) ==
    /\ runState = "CLOSED"
    /\ NoneLeft(Unsettled)
    /\ CashShort > 0 => \E o \in Newest : Cleared(shortage[o])
    /\ \/ Newest = {} /\ Ask(t, [op |-> "finalize", on |-> Nil])
       \/ \E o \in Newest : Ask(t, [op |-> "finalize", on |-> o])
    /\ UNCHANGED <<runState, released, riderCash, account, shortage, debt>>

Finalize(t) ==
    LET o == asked[t].on IN
    /\ Asking(t, "finalize")
    /\ runState' = "SETTLED"
    /\ shortage' = IF o = Nil THEN shortage
                   ELSE [shortage EXCEPT ![o].status = "CLOSED"]
    /\ Answer(t)
    /\ UNCHANGED <<released, riderCash, account, debt>>

-----------------------------------------------------------------------------
\* A request that fails, or is refused by the database, leaves nothing behind.
GiveUp(t) ==
    /\ asked[t] # Nil
    /\ Answer(t)
    /\ UNCHANGED <<runState, released, riderCash, account, shortage, debt>>

CashStep ==
    \/ \E c \in Cashiers, o \in Drops : OpenRemit(c, o)
    \/ \E o \in Drops : LockExpires(o) \/ PlanDeduction(o)
                        \/ \E pay \in 1 .. Total[o] : Deduct(o, pay)
    \/ \E c \in Cashiers : ClaimRun(c)
    \/ AutoSettle
    \/ \E t \in Remits :
          \/ \E c \in Cashiers, o \in Drops, n \in Counted : RemitAsk(t, c, o, n)
          \/ \E o \in Drops, v \in Verdicts : DecideAsk(t, o, v)
          \/ \E o \in Drops : AcceptAsk(t, o)
          \/ FinalizeAsk(t)
          \/ Remit(t) \/ DecideShort(t) \/ Accept(t) \/ Finalize(t) \/ GiveUp(t)

\* An order is tangled once two requests have it in hand, or payroll collects
\* while one has.
CashNote ==
    tangled' = tangled \cup
        {o \in Drops :
            \/ \E t, u \in Remits : /\ t # u
                                    /\ asked'[t] # Nil /\ asked'[t].on = o
                                    /\ asked'[u] # Nil /\ asked'[u].on = o
            \/ debt'[o] # debt[o] /\ \E t \in Remits :
                  asked'[t] # Nil /\ asked'[t].on = o}

CashNext == CashStep /\ CashNote

CashSpec == CashInit /\ [][CashNext]_cashVars

-----------------------------------------------------------------------------
(* Properties *)

\* Every variable keeps its shape.
CashTypeOK ==
    /\ runState \in {"CLOSED", "SETTLED"}
    /\ released \in SUBSET Drops
    /\ riderCash \in [Drops -> Nat]
    /\ account \in [Drops -> Accounts]
    /\ shortage \in [Drops -> Shortages \cup {Nil}]
    /\ debt \in [Drops -> Debts \cup {Nil}]
    /\ asked \in [Remits -> Asks \cup {Nil}]
    /\ tangled \in SUBSET Drops

\* However requests overlap, a settled run leaves no cash of a rider unexplained:
\* of each order it is in a drawer or reported short.
SettledAccounted ==
    runState = "SETTLED" =>
        \A o \in Drops : riderCash[o] <= account[o].cash + account[o].bridge

\* An order whose requests come one after the other takes no more cash than the
\* rider had, is PAID exactly when cash and shortage make up its total, and its
\* variance says what the drawer is short of.
RemitExact ==
    \A o \in Drops \ tangled :
        /\ account[o].cash <= riderCash[o]
        /\ account[o].status = "PAID" <=>
              account[o].cash + account[o].bridge = Total[o]
        /\ account[o].bridge > 0 =>
              shortage[o] # Nil /\ Short(o) = account[o].bridge

\* The rider is charged at most the shortage, by a manager's decision that stands,
\* and the charge is settled exactly when all of it is collected.
ChargeStands ==
    \A o \in Drops \ tangled : debt[o] # Nil =>
        /\ debt[o].amount = Short(o)
        /\ debt[o].status = "SETTLED" <=> debt[o].paid = debt[o].amount
        /\ debt[o].status = "WAIVED" <=> shortage[o].verdict = "WAIVE"

\* A run that is short of cash is settled only with a shortage the manager let go
\* or the rider accepted.
ShortageAnswered ==
    runState = "SETTLED" /\ CashShort > 0 /\ tangled = {} =>
        \E o \in Drops : /\ shortage[o] # Nil
                         /\ \/ shortage[o].verdict \in {"INFO_ONLY", "WAIVE"}
                            \/ shortage[o].accepted

=============================================================================
