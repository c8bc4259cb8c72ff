---------------------------- MODULE CounterSale ----------------------------
(***************************************************************************)
(* A walk-in (PICKUP) slip at the counter: the settlement lock, the cash   *)
(* payment with the stock it takes, the clearance a cashier asks for when  *)
(* the cash falls short, the manager's decision on it, and the deletion of *)
(* an accidental slip.                                                     *)
(*                                                                         *)
(* Source: app/routes/cashier.$id.tsx, app/routes/cashier.pos._index.tsx,  *)
(* app/routes/store.clearance_.$caseId.tsx and app/utils/receipt.ts.       *)
(*                                                                         *)
(* Every handler is a request that first reads and checks and then commits *)
(* one READ COMMITTED transaction; requests overlap, and what a request    *)
(* has read may be stale when it commits.  Money is counted in centavos,   *)
(* stock in units of a cell: one product, by the pack or by the piece.     *)
(* That the cashier's shift is writable is the subject of CashierShift.    *)
(***************************************************************************)
EXTENDS Integers, Sequences

CONSTANTS
    Cashiers,
    Orders,         \* PICKUP slips with frozen line totals
    Accounts,       \* the orders with a customer record attached
    Requests,       \* requests the server handles at the same time
    Cells,          \* stock counters: Product.stock and Product.packingStock
    Total,          \* frozen total of an order
    Needs,          \* per order, the units it takes of a cell
    InitialStock,   \* units in every cell at first
    Cash,           \* amounts a cashier may enter as cash given
    Discounts,      \* discounts a manager may approve
    MoneyEps,       \* MONEY_EPS of the decision: one centavo
    None

ASSUME SaleAssumption ==
    /\ Accounts \subseteq Orders
    /\ Total \in [Orders -> Nat \ {0}]
    /\ Needs \in [Orders -> [Cells -> Nat]]
    /\ InitialStock \in Nat /\ MoneyEps \in Nat
    /\ Cash \subseteq Nat /\ Discounts \subseteq Nat

VARIABLES
    order,      \* Order rows; None once deleted
    paid,       \* per order, the sum of its Payment rows
    stock,      \* units left in a cell
    counter,    \* ReceiptCounter
    kase,       \* ClearanceCase with receiptKey PARENT:<id>, or None
    decisions,  \* ClearanceDecision rows of that case, in the order of their ids
    job,        \* what a request has read and is about to commit, or None
    taken,      \* history: how many transactions took the goods of an order
    contended   \* history: orders two requests ever handled at the same time

vars == <<order, paid, stock, counter, kase, decisions, job, taken, contended>>

Smaller(a, b) == IF a <= b THEN a ELSE b

Positive(a) == IF a >= 0 THEN a ELSE 0

-----------------------------------------------------------------------------
(* Rows *)

OrderRows == [status : {"UNPAID", "PARTIALLY_PAID", "PAID"}, released : BOOLEAN,
              lock : Cashiers \cup {None}, receipt : Nat]

Kases == [status : {"NEEDS_CLEARANCE", "DECIDED"}, cash : Nat]

Kinds == {"REJECT", "APPROVE_OPEN_BALANCE", "APPROVE_DISCOUNT_OVERRIDE",
          "APPROVE_HYBRID"}

DecisionRows == [kind : Kinds, discount : Nat, ar : Nat]

Jobs ==
    [op : {"claim"}, order : Orders, cashier : Cashiers]
    \cup [op : {"delete"}, order : Orders]
    \cup [op : {"send"}, order : Orders, snapshot : Nat]
    \cup [op : {"decide"}, order : Orders, choice : Nat \cup {None},
          linked : BOOLEAN]
    \cup [op : {"settle"}, order : Orders, seen : Nat, released : BOOLEAN,
          given : Nat, release : BOOLEAN]
    \cup [op : {"pay"}, order : Orders, applied : Nat, owed : Nat,
          release : BOOLEAN, takes : BOOLEAN]

ASSUME NoneAssumption == None \notin OrderRows \cup Kases \cup Jobs

Slips == {o \in Orders : order[o] # None}

\* A row on which sending and settling are allowed.
Payable(o) == o \in Slips /\ order[o].status \in {"UNPAID", "PARTIALLY_PAID"}

\* hasFreshLock and isMineLock: a lock older than LOCK_TTL_MS is None here.
OwnsLock(c, o) == order[o].lock = c

\* Nobody else holds a fresh lock.
MayLock(c, o) == order[o].lock \in {c, None}

Start(r, j) == job[r] = None /\ job' = [job EXCEPT ![r] = j]

Running(r, op) == job[r] # None /\ job[r].op = op

Finish(r) == job' = [job EXCEPT ![r] = None]

Handling(o) == {r \in Requests : job[r] # None /\ job[r].order = o}

-----------------------------------------------------------------------------
Init ==
    /\ order = [o \in Orders |-> [status |-> "UNPAID", released |-> FALSE,
                                  lock |-> None, receipt |-> 0]]
    /\ paid = [o \in Orders |-> 0]
    /\ stock = [p \in Cells |-> InitialStock]
    /\ counter = 0
    /\ kase = [o \in Orders |-> None]
    /\ decisions = [o \in Orders |-> <<>>]
    /\ job = [r \in Requests |-> None]
    /\ taken = [o \in Orders |-> 0]
    /\ contended = {}

-----------------------------------------------------------------------------
(* The settlement lock *)

ClaimRead(r, c, o) ==
    /\ o \in Slips
    /\ MayLock(c, o)
    /\ Start(r, [op |-> "claim", order |-> o, cashier |-> c])
    /\ UNCHANGED <<order, paid, stock, counter, kase, decisions, taken>>

\* The update of claimLock is by id only: it overwrites a lock taken meanwhile.
Claim(r) ==
    /\ Running(r, "claim")
    /\ order' = IF job[r].order \in Slips
                THEN [order EXCEPT ![job[r].order].lock = job[r].cashier]
                ELSE order
    /\ Finish(r)
    /\ UNCHANGED <<paid, stock, counter, kase, decisions, taken>>

\* Release, which asks for no ownership, or the expiry of the lock.
Unlock(o) ==
    /\ o \in Slips
    /\ order[o].lock # None
    /\ order' = [order EXCEPT ![o].lock = None]
    /\ UNCHANGED <<paid, stock, counter, kase, decisions, job, taken>>

-----------------------------------------------------------------------------
(* Deleting an accidental slip *)

DeleteRead(r, c, o) ==
    /\ o \in Slips
    /\ order[o].status = "UNPAID"
    /\ paid[o] = 0
    /\ MayLock(c, o)
    /\ Start(r, [op |-> "delete", order |-> o])
    /\ UNCHANGED <<order, paid, stock, counter, kase, decisions, taken>>

\* Payment.orderId is a RESTRICT key.
NoPaymentRefers(o) == paid[o] = 0

Delete(r) ==
    /\ Running(r, "delete")
    /\ order' = IF NoPaymentRefers(job[r].order)
                THEN [order EXCEPT ![job[r].order] = None] ELSE order
    /\ Finish(r)
    /\ UNCHANGED <<paid, stock, counter, kase, decisions, taken>>

-----------------------------------------------------------------------------
(* Clearance: the cashier asks, a manager decides *)

SendRead(r, c, o, given) ==
    LET due == Positive(Total[o] - paid[o])
        snapshot == paid[o] + Smaller(given, due)
    IN
    /\ Payable(o)
    /\ OwnsLock(c, o)
    /\ Total[o] > snapshot
    /\ Start(r, [op |-> "send", order |-> o, snapshot |-> snapshot])
    /\ UNCHANGED <<order, paid, stock, counter, kase, decisions, taken>>

\* receiptKey is unique: an order has one case for ever.
Send(r) ==
    LET o == job[r].order IN
    /\ Running(r, "send")
    /\ kase' = IF kase[o] = None /\ o \in Slips
               THEN [kase EXCEPT ![o] = [status |-> "NEEDS_CLEARANCE",
                                         cash |-> job[r].snapshot]]
               ELSE kase
    /\ Finish(r)
    /\ UNCHANGED <<order, paid, stock, counter, decisions, taken>>

Balance(o) == Positive(Total[o] - kase[o].cash)

\* The choice is a discount to approve, or None to reject.  The case outlives a
\* deleted order: only its orderId is set to null.
DecideRead(r, o, choice) ==
    /\ kase[o] # None
    /\ kase[o].status = "NEEDS_CLEARANCE"
    /\ decisions[o] = <<>>
    /\ Balance(o) > MoneyEps
    /\ choice # None =>
          /\ choice <= Balance(o) + MoneyEps
          /\ Balance(o) - choice > MoneyEps => o \in Accounts
    /\ Start(r, [op |-> "decide", order |-> o, choice |-> choice,
                 linked |-> o \in Slips])
    /\ UNCHANGED <<order, paid, stock, counter, kase, decisions, taken>>

\* Mutant: the part of the balance that is not waived is forgotten.
OutcomeWaivesOnly(balance, choice) ==
    [kind |-> IF choice = None THEN "REJECT" ELSE "APPROVE_DISCOUNT_OVERRIDE",
     discount |-> IF choice = None THEN 0 ELSE Smaller(balance, choice),
     ar |-> 0]

\* Amounts up to MONEY_EPS count as nothing, in the kind and in the row.
Outcome(balance, choice) ==
    LET discount == Smaller(balance, choice)
        ar       == balance - discount
    IN
    IF choice = None THEN [kind |-> "REJECT", discount |-> 0, ar |-> 0]
    ELSE [kind |-> IF discount <= MoneyEps THEN "APPROVE_OPEN_BALANCE"
                   ELSE IF ar <= MoneyEps THEN "APPROVE_DISCOUNT_OVERRIDE"
                   ELSE "APPROVE_HYBRID",
          discount |-> IF discount > MoneyEps THEN discount ELSE 0,
          ar |-> IF ar > MoneyEps THEN ar ELSE 0]

\* Nothing but the read forbids a second decision.  A receivable that names an
\* order deleted since the read breaks its foreign key.
Decide(r) ==
    LET o   == job[r].order
        row == Outcome(Balance(o), job[r].choice)
    IN
    /\ Running(r, "decide")
    /\ IF row.ar > 0 /\ job[r].linked /\ o \notin Slips
       THEN UNCHANGED <<decisions, kase>>
       ELSE /\ decisions' = [decisions EXCEPT ![o] = Append(@, row)]
            /\ kase' = [kase EXCEPT ![o].status = "DECIDED"]
    /\ Finish(r)
    /\ UNCHANGED <<order, paid, stock, counter, taken>>

-----------------------------------------------------------------------------
(* Settling the payment *)

SettleRead(r, c, o, given, release) ==
    /\ Payable(o)
    /\ OwnsLock(c, o)
    /\ Start(r, [op |-> "settle", order |-> o, seen |-> paid[o],
                 released |-> order[o].released, given |-> given,
                 release |-> release])
    /\ UNCHANGED <<order, paid, stock, counter, kase, decisions, taken>>

\* The decision with the highest id; without one nothing is approved.
Latest(o) ==
    IF decisions[o] = <<>> THEN [kind |-> "REJECT", discount |-> 0, ar |-> 0]
    ELSE decisions[o][Len(decisions[o])]

\* Once a case exists the cash is the one of its snapshot, whatever was decided.
CashAccepted(o, seen, given) ==
    IF kase[o] = None THEN given > 0
    ELSE given = Positive(kase[o].cash - seen)

Applied(o, seen, given) == Smaller(given, Positive(Total[o] - seen))

Remaining(o, seen, given) == Positive(Total[o] - seen - Applied(o, seen, given))

\* Mutant: the decision of the manager is not awaited.
CoveredByRequest(o, remaining) ==
    remaining > 0 => kase[o] # None /\ kase[o].status = "NEEDS_CLEARANCE"

\* A shortage needs an approval that covers all of it.
Covered(o, remaining) ==
    remaining > 0 =>
        /\ kase[o] # None
        /\ kase[o].status = "DECIDED"
        /\ Latest(o).kind # "REJECT"
        /\ remaining <= Latest(o).discount + Latest(o).ar

Owed(o, remaining) ==
    Smaller(Positive(remaining - Latest(o).discount), Latest(o).ar)

\* Mutant: goods released on credit stay in the stock.
WillDeductWhenPaid(owed, release, released) == owed = 0

\* Mutant: goods once released are not remembered.
WillDeductAgain(owed, release, released) == owed = 0 \/ release

\* willDeductNow
WillDeduct(owed, release, released) == owed = 0 \/ (release /\ ~released)

\* Mutant: the transaction trusts the stock read before it.
TrustStock(o) == TRUE

InStock(o) == \A p \in Cells : Needs[o][p] <= stock[p]

\* The comparison before it, line by line: a cell no line asks for is not read.
Offered(o) == \A p \in Cells : Needs[o][p] = 0 \/ Needs[o][p] <= stock[p]

\* The reads and checks between the order and the transaction: what will be
\* paid, owed and taken, or a refusal.
CheckClearance(r) ==
    LET j         == job[r]
        remaining == Remaining(j.order, j.seen, j.given)
        owed      == Owed(j.order, remaining)
        takes     == WillDeduct(owed, j.release, j.released)
        accepted  ==
            /\ CashAccepted(j.order, j.seen, j.given)
            /\ Covered(j.order, remaining)
            /\ owed > 0 => j.order \in Accounts
            /\ takes => Offered(j.order)
    IN
    /\ Running(r, "settle")
    /\ \/ /\ accepted
          /\ job' = [job EXCEPT ![r] =
                        [op |-> "pay", order |-> j.order,
                         applied |-> Applied(j.order, j.seen, j.given),
                         owed |-> owed, release |-> j.release, takes |-> takes]]
       \/ ~accepted /\ Finish(r)
    /\ UNCHANGED <<order, paid, stock, counter, kase, decisions, taken>>

\* allocateReceiptNo, inside the transaction.
NextReceipt == counter + 1

\* Mutant: a slip paid in part is given a number too.
SettledNumbered(row, owed, release) ==
    [row EXCEPT !.status = IF owed = 0 THEN "PAID" ELSE "PARTIALLY_PAID",
                !.receipt = NextReceipt,
                !.released = @ \/ release,
                !.lock = None]

Settled(row, owed, release) ==
    [row EXCEPT !.status = IF owed = 0 THEN "PAID" ELSE "PARTIALLY_PAID",
                !.receipt = IF owed = 0 THEN NextReceipt ELSE @,
                !.released = @ \/ release,
                !.lock = None]

\* The transaction: payment, stock, order.  It reads none of what was checked
\* again except the stock, and rolls back when that is short.
Settle(r) ==
    LET j == job[r]
        o == j.order
    IN
    /\ Running(r, "pay")
    /\ \/ /\ o \in Slips
          /\ j.takes => InStock(o)
          /\ paid' = [paid EXCEPT ![o] = @ + j.applied]
          /\ stock' = IF j.takes
                      THEN [p \in Cells |-> stock[p] - Needs[o][p]] ELSE stock
          /\ taken' = IF j.takes THEN [taken EXCEPT ![o] = @ + 1] ELSE taken
          /\ counter' = IF j.owed = 0 THEN NextReceipt ELSE counter
          /\ order' = [order EXCEPT ![o] = Settled(@, j.owed, j.release)]
       \/ /\ o \notin Slips \/ (j.takes /\ ~InStock(o))
          /\ UNCHANGED <<order, paid, stock, counter, taken>>
    /\ Finish(r)
    /\ UNCHANGED <<kase, decisions>>

-----------------------------------------------------------------------------
Read(r) ==
    /\ job[r] = None
    /\ \E o \in Orders :
          \/ \E d \in Discounts \cup {None} : DecideRead(r, o, d)
          \/ \E c \in Cashiers :
                \/ ClaimRead(r, c, o)
                \/ DeleteRead(r, c, o)
                \/ \E n \in Cash : SendRead(r, c, o, n)
                \/ \E n \in Cash, b \in BOOLEAN : SettleRead(r, c, o, n, b)

Commit(r) ==
    \/ Claim(r) \/ Delete(r) \/ Send(r) \/ Decide(r)
    \/ CheckClearance(r) \/ Settle(r)

Next ==
    /\ \/ \E r \in Requests : Read(r) \/ Commit(r)
       \/ \E o \in Orders : Unlock(o)
    /\ contended' = contended \cup
          {o \in Orders : \E q, r \in Handling(o)' : q # r}

Spec == Init /\ [][Next]_vars

-----------------------------------------------------------------------------
(* Properties *)

\* Every variable keeps its shape; in particular no payment, debt or snapshot of
\* a request in flight is ever negative.
TypeOK ==
    /\ order \in [Orders -> OrderRows \cup {None}]
    /\ paid \in [Orders -> Nat]
    /\ stock \in [Cells -> Int]
    /\ counter \in Nat
    /\ kase \in [Orders -> Kases \cup {None}]
    /\ decisions \in [Orders -> Seq(DecisionRows)]
    /\ job \in [Requests -> Jobs \cup {None}]
    /\ taken \in [Orders -> Nat]
    /\ contended \in SUBSET Orders

\* However requests and decisions interleave, an order is PAID only when cash
\* and one approved discount make up its total, and PARTIALLY_PAID only when
\* the receivable of the same decision makes up the rest; and a slip that is
\* deleted, whatever the deleting request had read, takes no payment with it.
SaleCovered ==
    /\ \A o \in Orders \ Slips : paid[o] = 0
    /\ \A o \in Slips :
           LET coveredBy(n) == Total[o] <= paid[o] + n
               approved == {i \in DOMAIN decisions[o] :
                               decisions[o][i].kind # "REJECT"}
           IN
           /\ order[o].status = "PAID" =>
                 \/ coveredBy(0)
                 \/ \E i \in approved : coveredBy(decisions[o][i].discount)
           /\ order[o].status = "PARTIALLY_PAID" =>
                 \E i \in approved :
                     coveredBy(decisions[o][i].discount + decisions[o][i].ar)

\* Nobody holds a paid receipt, or goods released on credit, for goods that were
\* not taken from the stock.
GoodsFollowSettlement ==
    \A o \in Slips : order[o].status = "PAID" \/ order[o].released => taken[o] > 0

\* What an approval waives and puts on account is never more than the balance it
\* was asked for, and leaves of it at most MONEY_EPS that nobody decided on: twice
\* that when both parts are so small that neither is recorded.
ApprovalCovers ==
    \A o \in Orders : \A i \in DOMAIN decisions[o] :
        LET approved == decisions[o][i].discount + decisions[o][i].ar IN
        decisions[o][i].kind # "REJECT" =>
            /\ approved <= Balance(o)
            /\ \/ Balance(o) <= approved + MoneyEps
               \/ approved = 0 /\ Balance(o) <= 2 * MoneyEps
            /\ decisions[o][i].ar > 0 => o \in Accounts

\* As long as the requests on an order come one after the other, in whatever
\* order and by whichever cashiers, its goods are taken at most once and never
\* before it is paid or released, it has one decision, and the customer pays and
\* owes no more than the total.
OneAtATimeIsExact ==
    \A o \in Orders \ contended :
        /\ taken[o] <= 1
        /\ o \in Slips /\ taken[o] > 0 => order[o].status = "PAID" \/ order[o].released
        /\ Len(decisions[o]) <= 1
        /\ paid[o] + Latest(o).ar <= Total[o]

\* No two slips carry the same receipt number, whatever overlaps.  A slip whose
\* requests came one after the other has a number exactly when it is paid; when
\* that is so of all slips the series has no gap, however the settlements of
\* different slips overlap and roll back.
OfficialReceipts ==
    /\ \A o, p \in Slips :
           order[o].receipt = order[p].receipt => o = p \/ order[o].receipt = 0
    /\ \A o \in Slips \ contended : order[o].receipt > 0 <=> order[o].status = "PAID"
    /\ contended = {} => {order[o].receipt : o \in Slips} \ {0} = 1..counter

\* cashier.$id.tsx: the settlement is "still safe under concurrency because we
\* re-check below", that is, the goods of an order are taken once.
GoodsTakenOnce == \A o \in Orders : taken[o] <= 1

\* Commercial Clearance System V2 and the refusal message of cashier.$id.tsx:
\* a rejected receipt is settled when the customer pays in full.
RejectedMayPayInFull ==
    \A o \in Slips :
        /\ order[o].status = "UNPAID"
        /\ kase[o] # None /\ kase[o].status = "DECIDED"
        /\ Latest(o).kind = "REJECT"
        => CashAccepted(o, paid[o], Total[o] - paid[o])

=============================================================================
