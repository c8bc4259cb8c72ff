---------------------------- MODULE Receivables ----------------------------
(***************************************************************************)
(* Customer receivables: opening balances staged in a batch, the managers' *)
(* decisions that turn them into A/R entries, and the payments a cashier   *)
(* applies to the entries of a customer, oldest first.                     *)
(*                                                                         *)
(* Source: app/routes/creation.opening-ar-batches.tsx,                     *)
(* app/routes/store.clearance-opening-batches.tsx,                         *)
(* app/routes/store.clearance_.$caseId.tsx and                             *)
(* app/routes/ar.customers.$id.tsx.                                        *)
(*                                                                         *)
(* A payment is one READ COMMITTED transaction that reads and updates its  *)
(* rows one by one: it sees what is committed, holds the rows it updated   *)
(* until it ends, and writes balances computed from what it read.  Money   *)
(* is counted in centavos.  One customer and one batch are modelled.       *)
(***************************************************************************)
EXTENDS Integers, FiniteSets, FiniteSetsExt

CONSTANTS
    Lines,      \* numbers of the valid lines of the batch
    Amount,     \* amount of a line
    Entries,    \* ids of CustomerAr rows, given out in increasing order
    Requests,   \* requests the server handles at the same time
    Tenders,    \* amounts a customer may hand over
    Discounts,  \* discounts a manager may approve
    MoneyEps,   \* MONEY_EPS of the decisions: one centavo
    None

ASSUME ReceivablesAssumption ==
    /\ Lines \subseteq Nat /\ Entries \subseteq Nat \ {0}
    /\ Amount \in [Lines -> Nat \ {0}]
    /\ IsFiniteSet(Requests)
    /\ Tenders \subseteq Nat \ {0} /\ Discounts \subseteq Nat
    /\ MoneyEps \in Nat

VARIABLES
    kase,       \* status of the ClearanceCase of a line, or None
    ledger,     \* CustomerAr rows, or None
    collected,  \* per entry, the sum of its CustomerArPayment rows
    job,        \* what a request has read and not yet committed, or None
    contended   \* history: lines two requests ever handled at the same time

vars == <<kase, ledger, collected, job, contended>>

Smaller(a, b) == IF a <= b THEN a ELSE b

-----------------------------------------------------------------------------
(* Rows *)

Statuses == {"OPEN", "PARTIALLY_SETTLED", "SETTLED"}

EntryRows == [line : Lines, principal : Nat, balance : Nat, status : Statuses]

\* An update of a row that is not committed: the payment and the new balance.
Updates == [paid : Nat, balance : Nat]

Decisions == [op : {"decide"}, lines : SUBSET Lines, rejected : SUBSET Lines,
              discount : Nat]

\* A payment has rows left to visit; it may hold the balance of the one it read.
Payments == [op : {"pay"}, tendered : Nat, left : Nat, todo : SUBSET Entries,
             at : Entries \cup {None}, due : Nat,
             wrote : [Entries -> Updates \cup {None}]]

ASSUME NoneAssumption ==
    /\ None \notin EntryRows /\ None \notin Updates
    /\ None \notin Decisions /\ None \notin Payments
    /\ None \notin Entries
    /\ None \notin {"NEEDS_CLEARANCE", "DECIDED"}

Issued == {e \in Entries : ledger[e] # None}

Running(r, op) == job[r] # None /\ job[r].op = op

Start(r, j) == job[r] = None /\ job' = [job EXCEPT ![r] = j]

Finish(r) == job' = [job EXCEPT ![r] = None]

\* The rows a payment has updated, and therefore holds until it ends.
Held(r) == IF Running(r, "pay")
           THEN {e \in Entries : job[r].wrote[e] # None} ELSE {}

Handles(r, l) ==
    \/ Running(r, "decide") /\ l \in job[r].lines
    \/ Running(r, "pay") /\ \E e \in job[r].todo \cup Held(r) :
                               e \in Issued /\ ledger[e].line = l

-----------------------------------------------------------------------------
Init ==
    /\ kase = [l \in Lines |-> None]
    /\ ledger = [e \in Entries |-> None]
    /\ collected = [e \in Entries |-> 0]
    /\ job = [r \in Requests |-> None]
    /\ contended = {}

-----------------------------------------------------------------------------
(* Staging and decisions *)

\* The admin stages the lines in one transaction; receiptKey is unique, so a
\* line staged before aborts all of it.
Stage(S) ==
    /\ S # {}
    /\ \A l \in S : kase[l] = None
    /\ kase' = [l \in Lines |-> IF l \in S THEN "NEEDS_CLEARANCE" ELSE kase[l]]
    /\ UNCHANGED <<ledger, collected, job>>

\* Mutant: the batch takes up the cases that were decided before, too.
StagedEver == {l \in Lines : kase[l] # None}

Undecided == {l \in Lines : kase[l] = "NEEDS_CLEARANCE"}

\* The manager approves the batch except the lines rejected by hand.
BatchRead(r, rejected) ==
    /\ Undecided # {}
    /\ rejected \subseteq Undecided
    /\ Start(r, [op |-> "decide", lines |-> Undecided, discount |-> 0,
                 rejected |-> rejected \cup
                                {l \in Undecided : Amount[l] <= MoneyEps}])
    /\ UNCHANGED <<kase, ledger, collected>>

\* Or decides one of its cases on the page of single cases, perhaps at a discount.
SingleRead(r, l, approve, discount) ==
    /\ l \in Undecided
    /\ Amount[l] > MoneyEps
    /\ approve => discount <= Amount[l] + MoneyEps
    /\ Start(r, [op |-> "decide", lines |-> {l}, discount |-> discount,
                 rejected |-> IF approve THEN {} ELSE {l}])
    /\ UNCHANGED <<kase, ledger, collected>>

Principal(j, l) == Amount[l] - Smaller(Amount[l], j.discount)

\* The lines a decision turns into receivables.
Granted(j) == {l \in j.lines \ j.rejected : Principal(j, l) > MoneyEps}

NewEntry(l, principal) ==
    [line |-> l, principal |-> principal, balance |-> principal, status |-> "OPEN"]

\* One transaction for all lines; nothing but the read forbids a second decision.
Decide(r) ==
    LET j == job[r] IN
    /\ Running(r, "decide")
    /\ \E id \in [Granted(j) -> Entries \ Issued] :
          /\ \A l \in Granted(j) : \A e \in Issued : e < id[l]
          /\ \A k, l \in Granted(j) : k < l => id[k] < id[l]
          /\ ledger' = [e \in Entries |->
                IF \E l \in Granted(j) : id[l] = e
                THEN LET l == CHOOSE l \in Granted(j) : id[l] = e
                     IN NewEntry(l, Principal(j, l))
                ELSE ledger[e]]
    /\ kase' = [l \in Lines |-> IF l \in j.lines THEN "DECIDED" ELSE kase[l]]
    /\ Finish(r)
    /\ UNCHANGED collected

-----------------------------------------------------------------------------
(* Payments *)

Payment(amount, targets) ==
    [op |-> "pay", tendered |-> amount, left |-> amount, todo |-> targets,
     at |-> None, due |-> 0, wrote |-> [e \in Entries |-> None]]

Owing == {e \in Issued : ledger[e].balance > 0}

Open == {e \in Owing : ledger[e].status \in {"OPEN", "PARTIALLY_SETTLED"}}

\* A cashier takes a payment for one entry, or for all that are open.
PayRead(r, amount) ==
    /\ \/ \E e \in Owing : Start(r, Payment(amount, {e}))
       \/ Open # {} /\ Start(r, Payment(amount, Open))
    /\ UNCHANGED <<kase, ledger, collected>>

\* Mutant: the rows come in no particular order.
InAnyOrder(todo) == todo

\* Oldest first.
Oldest(todo) == {e \in todo : \A f \in todo : e <= f}

More(r) == Running(r, "pay") /\ job[r].at = None /\ job[r].left > 0 /\ job[r].todo # {}

Looked(j, e) ==
    IF ledger[e].balance = 0 THEN [j EXCEPT !.todo = @ \ {e}]
    ELSE [j EXCEPT !.at = e, !.due = ledger[e].balance]

\* The row is read as it is committed; a settled one is passed over.
Look(r) ==
    /\ More(r)
    /\ \E e \in Oldest(job[r].todo) :
          job' = [job EXCEPT ![r] = Looked(job[r], e)]
    /\ UNCHANGED <<kase, ledger, collected>>

Applied(left, due) == Smaller(left, due)

\* Mutant: a payment settles the entry whatever its amount.
SettlesAll(due, paid) == 0

NewBalance(due, paid) == due - paid

\* Mutant: the amount applied is not taken off what is left to apply.
StillAll(left, paid) == left

LeftAfter(left, paid) == left - paid

Paying(j, paid) ==
    [j EXCEPT !.wrote = [j.wrote EXCEPT ![j.at] =
                            [paid |-> paid, balance |-> NewBalance(j.due, paid)]],
              !.left = LeftAfter(@, paid), !.todo = @ \ {j.at},
              !.at = None, !.due = 0]

\* The payment row and the update, which waits for a request that holds the row.
Credit(r) ==
    /\ Running(r, "pay")
    /\ job[r].at # None
    /\ \A q \in Requests \ {r} : job[r].at \notin Held(q)
    /\ job' = [job EXCEPT ![r] =
                 Paying(job[r], Applied(job[r].left, job[r].due))]
    /\ UNCHANGED <<kase, ledger, collected>>

Credited(row, update) ==
    [row EXCEPT !.balance = update.balance,
                !.status = IF update.balance = 0 THEN "SETTLED"
                           ELSE "PARTIALLY_SETTLED"]

\* Nothing applied is an error; a payment that applied something commits.
PayCommit(r) ==
    LET wrote == job[r].wrote IN
    /\ Running(r, "pay")
    /\ job[r].at = None
    /\ ~More(r)
    /\ ledger' = [e \in Entries |-> IF wrote[e] # None
                                    THEN Credited(ledger[e], wrote[e])
                                    ELSE ledger[e]]
    /\ collected' = [e \in Entries |-> IF wrote[e] # None
                                       THEN collected[e] + wrote[e].paid
                                       ELSE collected[e]]
    /\ Finish(r)
    /\ UNCHANGED kase

\* A transaction that times out or loses its connection leaves nothing behind.
Abort(r) ==
    /\ job[r] # None
    /\ Finish(r)
    /\ UNCHANGED <<kase, ledger, collected>>

-----------------------------------------------------------------------------
Manage(r) ==
    \/ \E S \in SUBSET Lines : BatchRead(r, S)
    \/ \E l \in Lines, b \in BOOLEAN, d \in Discounts : SingleRead(r, l, b, d)
    \/ Decide(r)

Collect(r) ==
    \/ \E a \in Tenders : PayRead(r, a)
    \/ Look(r) \/ Credit(r) \/ PayCommit(r)

Next ==
    /\ \/ \E S \in SUBSET Lines : Stage(S)
       \/ \E r \in Requests : Manage(r) \/ Collect(r) \/ Abort(r)
    /\ contended' = contended \cup
          {l \in Lines : \E q, r \in Requests : q # r /\ Handles(q, l)' /\ Handles(r, l)'}

Spec == Init /\ [][Next]_vars

-----------------------------------------------------------------------------
(* Properties *)

\* Every variable keeps its shape.
TypeOK ==
    /\ kase \in [Lines -> {None, "NEEDS_CLEARANCE", "DECIDED"}]
    /\ ledger \in [Entries -> EntryRows \cup {None}]
    /\ collected \in [Entries -> Nat]
    /\ job \in [Requests -> Decisions \cup Payments \cup {None}]
    /\ contended \in SUBSET Lines

\* However payments overlap, an entry is never brought down by more than the
\* money recorded for it: the store forgets no debt that was not paid.
DebtNeverVanishes ==
    \A e \in Issued : ledger[e].principal <= ledger[e].balance + collected[e]

\* What a customer hands over is recorded centavo by centavo on the entries the
\* payment visits, and the rest is still to apply or is change.
TenderAccounted ==
    \A r \in Requests : Running(r, "pay") =>
        job[r].tendered =
            job[r].left + SumFunction([e \in Held(r) |-> job[r].wrote[e].paid])

Waits(r, q) == Running(r, "pay") /\ job[r].at # None /\ q # r /\ job[r].at \in Held(q)

\* Payments that spread over several entries never wait for each other's rows in
\* a circle.
NoLockCycle ==
    \A W \in (SUBSET Requests) \ {{}} : \E r \in W : \A q \in W : ~Waits(r, q)

\* As long as the requests that touch a staged line come one after the other, it
\* becomes at most one receivable, of which exactly what was paid is gone.
OneAtATimeIsExact ==
    \A l \in Lines \ contended :
        LET of == {e \in Issued : ledger[e].line = l} IN
        /\ \A d, e \in of : d = e
        /\ \A e \in of :
              /\ ledger[e].balance + collected[e] = ledger[e].principal
              /\ ledger[e].principal <= Amount[l]

\* AR source of truth, Customer Ledger Rule: credits are the payments applied to
\* the balances, so that principal less payments is the balance.
LedgerBalances ==
    \A e \in Issued : ledger[e].balance + collected[e] = ledger[e].principal

=============================================================================
