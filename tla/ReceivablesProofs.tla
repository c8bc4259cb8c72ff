------------------------- MODULE ReceivablesProofs -------------------------
(***************************************************************************)
(* What Receivables guarantees for any lines, amounts and number of        *)
(* overlapping requests: that no debt vanishes unpaid; that a payment loses*)
(* nothing it was handed and waits in no circle; that a line handled by one*)
(* request at a time is exact.  The first is not inductive by itself: a    *)
(* payment commits a balance computed from what it read, so the invariant  *)
(* also says of every balance a request has read or written that, with the *)
(* money recorded since, it still makes up the principal.                  *)
(***************************************************************************)
EXTENDS Receivables, SumProofs

\* What is still due on an entry, and what is recorded, make up its principal.
Backed(e, due) == e \in Issued /\ ledger[e].principal <= due + collected[e]

PaymentOK(j) ==
    /\ j.todo \subseteq Issued
    /\ j.at # None => Backed(j.at, j.due)
    /\ \A e \in Entries :
          j.wrote[e] # None => Backed(e, j.wrote[e].balance + j.wrote[e].paid)

PaymentsOK == \A r \in Requests : Running(r, "pay") => PaymentOK(job[r])

DebtInv == TypeOK /\ PaymentsOK /\ DebtNeverVanishes

-----------------------------------------------------------------------------
(* Lemmas *)

\* What the state says of one request.
LEMMA JobType ==
    ASSUME TypeOK, NEW r \in Requests
    PROVE  /\ job[r] \in Decisions \cup Payments \cup {None}
           /\ Running(r, "pay") => job[r] \in Payments
           /\ Running(r, "decide") => job[r] \in Decisions
BY DEF TypeOK, Running, Decisions, Payments

\* An entry stays issued with its principal, and its payments only grow.
Grows ==
    \A e \in Issued : /\ ledger'[e] # None
                      /\ ledger'[e].principal = ledger[e].principal
                      /\ collected[e] <= collected'[e]

\* Then what was backed remains so.
LEMMA BackedGrows ==
    ASSUME TypeOK, TypeOK', Grows, NEW e \in Entries, NEW due \in Nat, Backed(e, due)
    PROVE  Backed(e, due)'
<1>1. e \in Issued /\ ledger[e].principal <= due + collected[e]
  BY DEF Backed
<1>2. ledger'[e] # None /\ ledger'[e].principal = ledger[e].principal
      /\ collected[e] <= collected'[e]
  BY <1>1 DEF Grows
<1>3. /\ ledger[e] \in EntryRows
      /\ collected[e] \in Nat /\ collected'[e] \in Nat
  BY <1>1 DEF TypeOK, Issued
<1>4. ledger[e].principal \in Nat
  BY <1>3 DEF EntryRows
<1>5. ledger'[e].principal <= due + collected'[e]
  BY <1>1, <1>2, <1>3, <1>4
<1> QED
  BY <1>2, <1>5 DEF Backed, Issued

\* And a payment whose job did not change keeps its part of the invariant.
LEMMA PaymentGrows ==
    ASSUME TypeOK, TypeOK', Grows, NEW r \in Requests,
           Running(r, "pay"), PaymentOK(job[r]), job'[r] = job[r]
    PROVE  PaymentOK(job[r])'
<1>1. job[r] \in Payments
  BY JobType
<1>2. PICK j : j = job[r]
  OBVIOUS
<1>3. j \in Payments
  BY <1>1, <1>2
<1>4. /\ j.todo \subseteq Issued
      /\ j.at # None => Backed(j.at, j.due)
      /\ \A e \in Entries :
            j.wrote[e] # None => Backed(e, j.wrote[e].balance + j.wrote[e].paid)
  BY <1>2 DEF PaymentOK
<1>5. j.todo \subseteq Issued'
  BY <1>4 DEF Grows, Issued
<1>6. j.at # None => Backed(j.at, j.due)'
  <2> SUFFICES ASSUME j.at # None PROVE Backed(j.at, j.due)'
    OBVIOUS
  <2>1. j.at \in Entries /\ j.due \in Nat
    BY <1>3 DEF Payments
  <2>2. PICK e \in Entries, due \in Nat : e = j.at /\ due = j.due
    BY <2>1
  <2>3. Backed(e, due)
    BY <1>4, <2>2
  <2>4. Backed(e, due)'
    BY <2>3, BackedGrows
  <2> QED
    BY <2>2, <2>4 DEF Backed
<1>7. ASSUME NEW e \in Entries, j.wrote[e] # None
      PROVE  Backed(e, j.wrote[e].balance + j.wrote[e].paid)'
  <2>1. j.wrote[e] \in Updates
    BY <1>3, <1>7 DEF Payments
  <2>2. PICK due \in Nat : due = j.wrote[e].balance + j.wrote[e].paid
    BY <2>1 DEF Updates
  <2>3. Backed(e, due)
    BY <1>4, <1>7, <2>2
  <2>4. Backed(e, due)'
    BY <2>3, BackedGrows
  <2> QED
    BY <2>2, <2>4 DEF Backed
<1>8. job'[r] = j
  BY <1>2
<1> QED
  BY <1>5, <1>6, <1>7, <1>8 DEF PaymentOK

\* A job that is finished or started leaves the other requests alone.
LEMMA Others ==
    ASSUME TypeOK, TypeOK', Grows, PaymentsOK,
           NEW r \in Requests, \A q \in Requests \ {r} : job'[q] = job[q],
           Running(r, "pay")' => PaymentOK(job[r])'
    PROVE  PaymentsOK'
<1> SUFFICES ASSUME NEW q \in Requests, Running(q, "pay")'
             PROVE  PaymentOK(job[q])'
  BY DEF PaymentsOK
<1>1. CASE q = r
  BY <1>1
<1>2. CASE q # r
  <2>1. job'[q] = job[q]
    BY <1>2
  <2>2. Running(q, "pay")
    BY <2>1 DEF Running
  <2>3. PaymentOK(job[q])
    BY <2>2 DEF PaymentsOK
  <2> QED
    BY <2>1, <2>2, <2>3, PaymentGrows
<1> QED
  BY <1>1, <1>2

-----------------------------------------------------------------------------
(* Type correctness *)

LEMMA TypeInit == Init => TypeOK
BY DEF Init, TypeOK

\* Of a transaction that only changes the job of its request, to a job.
LEMMA TypeJob ==
    ASSUME TypeOK, NEW r \in Requests,
           NEW j \in Decisions \cup Payments \cup {None},
           job' = [job EXCEPT ![r] = j],
           kase' = kase, ledger' = ledger, collected' = collected,
           contended' \in SUBSET Lines
    PROVE  TypeOK'
<1>1. job' \in [Requests -> Decisions \cup Payments \cup {None}]
  BY DEF TypeOK
<1> QED
  BY <1>1 DEF TypeOK

LEMMA TypeStage ==
    ASSUME TypeOK, NEW S \in SUBSET Lines, Stage(S), contended' \in SUBSET Lines
    PROVE  TypeOK'
BY DEF TypeOK, Stage

LEMMA TypeBatchRead ==
    ASSUME TypeOK, NEW r \in Requests, NEW S \in SUBSET Lines, BatchRead(r, S),
           contended' \in SUBSET Lines
    PROVE  TypeOK'
<1>1. PICK j : j = [op |-> "decide", lines |-> Undecided, discount |-> 0,
                    rejected |-> S \cup {l \in Undecided : Amount[l] <= MoneyEps}]
  OBVIOUS
<1>2. j \in Decisions
  BY <1>1 DEF Decisions, Undecided
<1>3. /\ job' = [job EXCEPT ![r] = j]
      /\ kase' = kase /\ ledger' = ledger /\ collected' = collected
  BY <1>1 DEF BatchRead, Start
<1> QED
  BY <1>2, <1>3, TypeJob

LEMMA TypeSingleRead ==
    ASSUME TypeOK, NEW r \in Requests, NEW l \in Lines, NEW b \in BOOLEAN,
           NEW d \in Discounts, SingleRead(r, l, b, d), contended' \in SUBSET Lines
    PROVE  TypeOK'
<1>1. PICK j : j = [op |-> "decide", lines |-> {l}, discount |-> d,
                    rejected |-> IF b THEN {} ELSE {l}]
  OBVIOUS
<1>2. j \in Decisions
  BY <1>1, ReceivablesAssumption DEF Decisions
<1>3. /\ job' = [job EXCEPT ![r] = j]
      /\ kase' = kase /\ ledger' = ledger /\ collected' = collected
  BY <1>1 DEF SingleRead, Start
<1> QED
  BY <1>2, <1>3, TypeJob

\* A decision leaves the receivables there are alone and adds new ones.
LEMMA DecideLedger ==
    ASSUME TypeOK, NEW r \in Requests, Decide(r)
    PROVE  \A e \in Entries :
               \/ ledger'[e] = ledger[e]
               \/ /\ e \notin Issued
                  /\ ledger'[e] \in EntryRows
                  /\ ledger'[e].balance = ledger'[e].principal
<1>1. PICK j : j = job[r]
  OBVIOUS
<1>2. j \in Decisions
  BY <1>1, JobType DEF Decide
<1>3. PICK id \in [Granted(j) -> Entries \ Issued] :
          ledger' = [e \in Entries |->
                        IF \E l \in Granted(j) : id[l] = e
                        THEN LET l == CHOOSE l \in Granted(j) : id[l] = e
                             IN NewEntry(l, Principal(j, l))
                        ELSE ledger[e]]
  BY <1>1 DEF Decide
<1> SUFFICES ASSUME NEW e \in Entries, \E l \in Granted(j) : id[l] = e
             PROVE  /\ e \notin Issued
                    /\ ledger'[e] \in EntryRows
                    /\ ledger'[e].balance = ledger'[e].principal
  BY <1>3
<1>4. PICK l : l = CHOOSE k \in Granted(j) : id[k] = e
  OBVIOUS
<1>5. l \in Granted(j) /\ id[l] = e
  BY <1>4
<1>6. e \notin Issued
  BY <1>5
<1>7. ledger'[e] = NewEntry(l, Principal(j, l))
  BY <1>3, <1>4
<1>8. l \in Lines /\ j.discount \in Nat /\ Amount[l] \in Nat
  BY <1>2, <1>5, ReceivablesAssumption DEF Granted, Decisions
<1>9. Principal(j, l) \in Nat
  BY <1>8 DEF Principal, Smaller
<1>10. NewEntry(l, Principal(j, l)) \in EntryRows
  BY <1>8, <1>9 DEF NewEntry, EntryRows, Statuses
<1> QED
  BY <1>6, <1>7, <1>10 DEF NewEntry

LEMMA TypeDecide ==
    ASSUME TypeOK, NEW r \in Requests, Decide(r), contended' \in SUBSET Lines
    PROVE  TypeOK'
<1>1. \A e \in Entries : ledger'[e] \in EntryRows \cup {None}
  BY DecideLedger DEF TypeOK
<1>2. \E f : ledger' = [e \in Entries |-> f[e]]
  <2>1. ledger' = [e \in Entries |-> ledger'[e]]
    BY DEF Decide
  <2> QED
    BY <2>1
<1>3. ledger' \in [Entries -> EntryRows \cup {None}]
  BY <1>1, <1>2
<1>4. kase' \in [Lines -> {None, "NEEDS_CLEARANCE", "DECIDED"}]
  BY DEF TypeOK, Decide
<1>5. job' \in [Requests -> Decisions \cup Payments \cup {None}]
  BY DEF TypeOK, Decide, Finish
<1>6. collected' = collected
  BY DEF Decide
<1> QED
  BY <1>3, <1>4, <1>5, <1>6 DEF TypeOK

LEMMA TypePayRead ==
    ASSUME TypeOK, NEW r \in Requests, NEW a \in Tenders, PayRead(r, a),
           contended' \in SUBSET Lines
    PROVE  TypeOK'
<1>1. PICK targets \in SUBSET Issued : Start(r, Payment(a, targets))
  BY DEF PayRead, Owing, Open
<1>2. PICK j : j = Payment(a, targets)
  OBVIOUS
<1>3. j \in Payments
  BY <1>2, ReceivablesAssumption DEF Payment, Payments, Issued
<1>4. /\ job' = [job EXCEPT ![r] = j]
      /\ kase' = kase /\ ledger' = ledger /\ collected' = collected
  BY <1>1, <1>2 DEF PayRead, Start
<1> QED
  BY <1>3, <1>4, TypeJob

\* The two outcomes of looking at a row.
LEMMA LookJob ==
    ASSUME TypeOK, PaymentsOK, NEW r \in Requests, Look(r)
    PROVE  \E e \in job[r].todo, j \in Payments :
               /\ job' = [job EXCEPT ![r] = j]
               /\ e \in Issued /\ \A f \in job[r].todo : e <= f
               /\ \/ /\ ledger[e].balance = 0
                     /\ j = [job[r] EXCEPT !.todo = @ \ {e}]
                  \/ /\ ledger[e].balance # 0
                     /\ j = [job[r] EXCEPT !.at = e, !.due = ledger[e].balance]
<1>1. Running(r, "pay")
  BY DEF Look, More
<1>2. PICK k \in Payments : k = job[r]
  BY <1>1, JobType
<1>3. PICK e \in Oldest(k.todo) : job' = [job EXCEPT ![r] = Looked(k, e)]
  BY <1>2 DEF Look
<1>4. e \in k.todo /\ k.todo \subseteq Issued /\ \A f \in k.todo : e <= f
  BY <1>1, <1>2 DEF PaymentsOK, PaymentOK, Oldest
<1>5. e \in Entries /\ ledger[e] \in EntryRows
  BY <1>4 DEF Issued, TypeOK
<1>6. ledger[e].balance \in Nat
  BY <1>5 DEF EntryRows
<1>7. CASE ledger[e].balance = 0
  <2>1. [k EXCEPT !.todo = k.todo \ {e}] \in Payments
    BY DEF Payments
  <2> QED
    BY <1>2, <1>3, <1>4, <1>7, <2>1 DEF Looked
<1>8. CASE ledger[e].balance # 0
  <2>1. [k EXCEPT !.at = e, !.due = ledger[e].balance] \in Payments
    BY <1>5, <1>6 DEF Payments
  <2> QED
    BY <1>2, <1>3, <1>4, <1>8, <2>1 DEF Looked
<1> QED
  BY <1>7, <1>8

LEMMA TypeLook ==
    ASSUME TypeOK, PaymentsOK, NEW r \in Requests, Look(r), contended' \in SUBSET Lines
    PROVE  TypeOK'
<1>1. PICK j \in Payments : job' = [job EXCEPT ![r] = j]
  BY LookJob
<1>2. kase' = kase /\ ledger' = ledger /\ collected' = collected
  BY DEF Look
<1> QED
  BY <1>1, <1>2, TypeJob

\* What crediting a row makes of the payment: the balance written and the amount
\* paid add up to the balance that was read.
LEMMA CreditJob ==
    ASSUME TypeOK, NEW r \in Requests, Credit(r)
    PROVE  \E j \in Payments, u \in Updates :
               /\ job' = [job EXCEPT ![r] = j]
               /\ job[r].at \in Entries
               /\ u.balance + u.paid = job[r].due
               /\ j.todo = job[r].todo \ {job[r].at}
               /\ j.tendered = job[r].tendered /\ j.left = job[r].left - u.paid
               /\ j.at = None
               /\ j.wrote = [job[r].wrote EXCEPT ![job[r].at] = u]
<1>1. Running(r, "pay")
  BY DEF Credit
<1>2. PICK k \in Payments : k = job[r]
  BY <1>1, JobType
<1>3. k.at \in Entries /\ k.left \in Nat /\ k.due \in Nat
  BY <1>2 DEF Credit, Payments
<1>4. PICK paid : paid = Applied(k.left, k.due)
  OBVIOUS
<1>5. paid \in Nat /\ paid <= k.left /\ paid <= k.due
  BY <1>3, <1>4 DEF Applied, Smaller
<1>6. PICK u : u = [paid |-> paid, balance |-> NewBalance(k.due, paid)]
  OBVIOUS
<1>7. u \in Updates /\ u.balance + u.paid = k.due /\ u.paid = paid
  BY <1>3, <1>5, <1>6 DEF Updates, NewBalance
<1>8. PICK j : j = [k EXCEPT !.wrote = [k.wrote EXCEPT ![k.at] = u],
                             !.left = LeftAfter(k.left, paid),
                             !.todo = k.todo \ {k.at}, !.at = None, !.due = 0]
  OBVIOUS
<1>9. job' = [job EXCEPT ![r] = j]
  <2>1. j = Paying(k, paid)
    BY <1>3, <1>6, <1>8 DEF Paying, Payments
  <2> QED
    BY <1>2, <1>4, <2>1 DEF Credit
<1>10. [k.wrote EXCEPT ![k.at] = u] \in [Entries -> Updates \cup {None}]
  BY <1>3, <1>7 DEF Payments
<1>11. LeftAfter(k.left, paid) \in Nat
  BY <1>3, <1>5 DEF LeftAfter
<1>12. j \in Payments
  BY <1>8, <1>10, <1>11 DEF Payments
<1>13. /\ j.todo = k.todo \ {k.at}
       /\ j.tendered = k.tendered /\ j.left = k.left - u.paid
       /\ j.at = None
       /\ j.wrote = [k.wrote EXCEPT ![k.at] = u]
  BY <1>7, <1>8 DEF Payments, LeftAfter
<1> QED
  BY <1>2, <1>3, <1>7, <1>9, <1>12, <1>13

LEMMA TypeCredit ==
    ASSUME TypeOK, NEW r \in Requests, Credit(r), contended' \in SUBSET Lines
    PROVE  TypeOK'
<1>1. PICK j \in Payments : job' = [job EXCEPT ![r] = j]
  BY CreditJob
<1>2. kase' = kase /\ ledger' = ledger /\ collected' = collected
  BY DEF Credit
<1> QED
  BY <1>1, <1>2, TypeJob

\* A payment that commits brings the entries it wrote to the balance it wrote, adds
\* what was paid to what is collected, and changes nothing else.
LEMMA CommitLedger ==
    ASSUME TypeOK, PaymentsOK, NEW r \in Requests, PayCommit(r), NEW e \in Entries
    PROVE  \/ ledger'[e] = ledger[e] /\ collected'[e] = collected[e]
           \/ \E u \in Updates :
                 /\ u = job[r].wrote[e] /\ u # None
                 /\ Backed(e, u.balance + u.paid)
                 /\ ledger'[e] \in EntryRows
                 /\ ledger'[e].principal = ledger[e].principal
                 /\ ledger'[e].line = ledger[e].line
                 /\ ledger'[e].balance = u.balance
                 /\ collected'[e] = collected[e] + u.paid
<1>1. Running(r, "pay")
  BY DEF PayCommit
<1>2. PICK k \in Payments : k = job[r]
  BY <1>1, JobType
<1>3. /\ ledger'[e] = IF k.wrote[e] # None THEN Credited(ledger[e], k.wrote[e])
                      ELSE ledger[e]
      /\ collected'[e] = IF k.wrote[e] # None THEN collected[e] + k.wrote[e].paid
                         ELSE collected[e]
  BY <1>2 DEF PayCommit
<1>4. CASE k.wrote[e] = None
  BY <1>3, <1>4
<1>5. CASE k.wrote[e] # None
  <2>1. PICK u \in Updates : u = k.wrote[e]
    BY <1>5 DEF Payments
  <2>2. Backed(e, u.balance + u.paid)
    BY <1>1, <1>2, <1>5, <2>1 DEF PaymentsOK, PaymentOK
  <2>3. ledger[e] \in EntryRows
    BY <2>2 DEF Backed, Issued, TypeOK
  <2>4. u.balance \in Nat /\ u.paid \in Nat
    BY DEF Updates
  <2>5. /\ Credited(ledger[e], u) \in EntryRows
        /\ Credited(ledger[e], u).principal = ledger[e].principal
        /\ Credited(ledger[e], u).line = ledger[e].line
        /\ Credited(ledger[e], u).balance = u.balance
    BY <2>3, <2>4 DEF Credited, EntryRows, Statuses
  <2> QED
    BY <1>2, <1>3, <1>5, <2>1, <2>2, <2>5
<1> QED
  BY <1>4, <1>5

LEMMA TypePayCommit ==
    ASSUME TypeOK, PaymentsOK, NEW r \in Requests, PayCommit(r),
           contended' \in SUBSET Lines
    PROVE  TypeOK'
<1>1. \A e \in Entries : /\ ledger'[e] \in EntryRows \cup {None}
                         /\ collected'[e] \in Nat
  <2> SUFFICES ASSUME NEW e \in Entries
               PROVE  ledger'[e] \in EntryRows \cup {None} /\ collected'[e] \in Nat
    OBVIOUS
  <2>1. ledger[e] \in EntryRows \cup {None} /\ collected[e] \in Nat
    BY DEF TypeOK
  <2>2. \A u \in Updates : collected[e] + u.paid \in Nat
    BY <2>1 DEF Updates
  <2> QED
    BY <2>1, <2>2, CommitLedger
<1>2. /\ ledger' = [e \in Entries |-> ledger'[e]]
      /\ collected' = [e \in Entries |-> collected'[e]]
  BY DEF PayCommit
<1>3. /\ ledger' \in [Entries -> EntryRows \cup {None}]
      /\ collected' \in [Entries -> Nat]
  BY <1>1, <1>2
<1>4. job' \in [Requests -> Decisions \cup Payments \cup {None}]
  BY DEF TypeOK, PayCommit, Finish
<1>5. kase' = kase
  BY DEF PayCommit
<1> QED
  BY <1>3, <1>4, <1>5 DEF TypeOK

LEMMA TypeAbort ==
    ASSUME TypeOK, NEW r \in Requests, Abort(r), contended' \in SUBSET Lines
    PROVE  TypeOK'
<1>1. PICK j : j = None
  OBVIOUS
<1>2. j \in Decisions \cup Payments \cup {None}
  BY <1>1
<1>3. /\ job' = [job EXCEPT ![r] = j]
      /\ kase' = kase /\ ledger' = ledger /\ collected' = collected
  BY <1>1 DEF Abort, Finish
<1> QED
  BY <1>2, <1>3, TypeJob

LEMMA TypeStep ==
    ASSUME TypeOK, PaymentsOK, Next
    PROVE  TypeOK'
<1>1. contended' \in SUBSET Lines
  BY DEF Next, TypeOK
<1>2. ASSUME NEW S \in SUBSET Lines, Stage(S) PROVE TypeOK'
  BY <1>1, <1>2, TypeStage
<1>3. ASSUME NEW r \in Requests, Manage(r) PROVE TypeOK'
  BY <1>1, <1>3, TypeBatchRead, TypeSingleRead, TypeDecide DEF Manage
<1>4. ASSUME NEW r \in Requests, Collect(r) PROVE TypeOK'
  BY <1>1, <1>4, TypePayRead, TypeLook, TypeCredit, TypePayCommit DEF Collect
<1>5. ASSUME NEW r \in Requests, Abort(r) PROVE TypeOK'
  BY <1>1, <1>5, TypeAbort
<1> QED
  BY <1>2, <1>3, <1>4, <1>5 DEF Next

-----------------------------------------------------------------------------
(* No debt vanishes *)

\* Every step lets the receivables grow: their principal stays, the money recorded
\* for them only increases, and so whatever is backed stays backed.
LEMMA GrowsStep ==
    ASSUME TypeOK, PaymentsOK, Next
    PROVE  Grows
<1>1. CASE ledger' = ledger /\ collected' = collected
  BY <1>1 DEF Grows, Issued, TypeOK
<1>2. ASSUME NEW r \in Requests, Decide(r) PROVE Grows
  <2>1. collected' = collected
    BY <1>2 DEF Decide
  <2>2. \A e \in Issued : ledger'[e] = ledger[e]
    BY <1>2, DecideLedger DEF Issued
  <2>3. \A e \in Issued : e \in Entries /\ ledger[e] # None /\ collected[e] \in Nat
    BY DEF Issued, TypeOK
  <2> QED
    BY <2>1, <2>2, <2>3 DEF Grows
<1>3. ASSUME NEW r \in Requests, PayCommit(r) PROVE Grows
  <2> SUFFICES ASSUME NEW e \in Issued
               PROVE  /\ ledger'[e] # None
                      /\ ledger'[e].principal = ledger[e].principal
                      /\ collected[e] <= collected'[e]
    BY DEF Grows
  <2>1. e \in Entries /\ ledger[e] # None /\ collected[e] \in Nat
    BY DEF Issued, TypeOK
  <2>2. \A u \in Updates : collected[e] <= collected[e] + u.paid
    BY <2>1 DEF Updates
  <2> QED
    BY <1>3, <2>1, <2>2, CommitLedger, NoneAssumption
<1>4. \A r \in Requests : Look(r) \/ Credit(r) \/ Abort(r) =>
          ledger' = ledger /\ collected' = collected
  BY DEF Look, Credit, Abort
<1>5. \A r \in Requests, a \in Tenders : PayRead(r, a) =>
          ledger' = ledger /\ collected' = collected
  BY DEF PayRead
<1>6. \A S \in SUBSET Lines : Stage(S) => ledger' = ledger /\ collected' = collected
  BY DEF Stage
<1>7. \A r \in Requests : \A S \in SUBSET Lines : BatchRead(r, S) =>
          ledger' = ledger /\ collected' = collected
  BY DEF BatchRead
<1>8. \A r \in Requests, l \in Lines, b \in BOOLEAN, d \in Discounts :
          SingleRead(r, l, b, d) => ledger' = ledger /\ collected' = collected
  BY DEF SingleRead
<1> QED
  BY <1>1, <1>2, <1>3, <1>4, <1>5, <1>6, <1>7, <1>8 DEF Next, Manage, Collect

\* The jobs of the other requests are left alone by each step of a request.
LEMMA PaymentsStep ==
    ASSUME TypeOK, PaymentsOK, DebtNeverVanishes, Next
    PROVE  PaymentsOK'
<1>1. TypeOK' /\ Grows
  BY TypeStep, GrowsStep
<1>2. ASSUME NEW S \in SUBSET Lines, Stage(S) PROVE PaymentsOK'
  <2>1. job' = job
    BY <1>2 DEF Stage
  <2> SUFFICES ASSUME NEW q \in Requests, Running(q, "pay")'
               PROVE  PaymentOK(job[q])'
    BY DEF PaymentsOK
  <2>2. Running(q, "pay") /\ job'[q] = job[q]
    BY <2>1 DEF Running
  <2>3. PaymentOK(job[q])
    BY <2>2 DEF PaymentsOK
  <2> QED
    BY <1>1, <2>2, <2>3, PaymentGrows
<1>3. ASSUME NEW r \in Requests, NEW j, job' = [job EXCEPT ![r] = j],
             Running(r, "pay")' => PaymentOK(job[r])'
      PROVE  PaymentsOK'
  <2>1. \A q \in Requests \ {r} : job'[q] = job[q]
    BY <1>3 DEF TypeOK
  <2> QED
    BY <1>1, <1>3, <2>1, Others
<1>4. ASSUME NEW r \in Requests, NEW S \in SUBSET Lines, BatchRead(r, S)
      PROVE  PaymentsOK'
  <2>0. PICK j : j = [op |-> "decide", lines |-> Undecided, discount |-> 0,
                     rejected |-> S \cup {l \in Undecided : Amount[l] <= MoneyEps}]
    OBVIOUS
  <2>1. /\ job' = [job EXCEPT ![r] = j]
        /\ j.op = "decide"
    BY <1>4, <2>0 DEF BatchRead, Start
  <2>2. ~Running(r, "pay")'
    BY <2>1 DEF Running, TypeOK
  <2> QED
    BY <1>3, <2>1, <2>2
<1>5. ASSUME NEW r \in Requests, NEW l \in Lines, NEW b \in BOOLEAN,
             NEW d \in Discounts, SingleRead(r, l, b, d)
      PROVE  PaymentsOK'
  <2>0. PICK j : j = [op |-> "decide", lines |-> {l}, discount |-> d,
                     rejected |-> IF b THEN {} ELSE {l}]
    OBVIOUS
  <2>1. /\ job' = [job EXCEPT ![r] = j]
        /\ j.op = "decide"
    BY <1>5, <2>0 DEF SingleRead, Start
  <2>2. ~Running(r, "pay")'
    BY <2>1 DEF Running, TypeOK
  <2> QED
    BY <1>3, <2>1, <2>2
<1>6. ASSUME NEW r \in Requests, job' = [job EXCEPT ![r] = None]
      PROVE  PaymentsOK'
  <2>1. ~Running(r, "pay")'
    BY <1>6 DEF Running, TypeOK
  <2> QED
    BY <1>3, <1>6, <2>1
<1>7. ASSUME NEW r \in Requests, NEW a \in Tenders, PayRead(r, a)
      PROVE  PaymentsOK'
  <2>1. PICK targets \in SUBSET Issued : Start(r, Payment(a, targets))
    BY <1>7 DEF PayRead, Owing, Open
  <2>2. PICK j : j = Payment(a, targets)
    OBVIOUS
  <2>3. job' = [job EXCEPT ![r] = j]
    BY <2>1, <2>2 DEF Start
  <2>4. /\ j.todo \subseteq Issued
        /\ j.at = None
        /\ \A e \in Entries : j.wrote[e] = None
    BY <2>2 DEF Payment
  <2>5. Issued' = Issued
    BY <1>7 DEF PayRead, Issued
  <2>6. job'[r] = j
    BY <2>3 DEF TypeOK
  <2>7. PaymentOK(job[r])'
    BY <2>4, <2>5, <2>6 DEF PaymentOK
  <2> QED
    BY <1>3, <2>3, <2>7
<1>8. ASSUME NEW r \in Requests, Look(r) PROVE PaymentsOK'
  <2>1. PICK e \in job[r].todo, j \in Payments :
             /\ job' = [job EXCEPT ![r] = j]
             /\ e \in Issued /\ \A f \in job[r].todo : e <= f
             /\ \/ /\ ledger[e].balance = 0
                   /\ j = [job[r] EXCEPT !.todo = @ \ {e}]
                \/ /\ ledger[e].balance # 0
                   /\ j = [job[r] EXCEPT !.at = e, !.due = ledger[e].balance]
    BY <1>8, LookJob
  <2>2. Running(r, "pay")
    BY <1>8 DEF Look, More
  <2>3. PICK k \in Payments : k = job[r]
    BY <2>2, JobType
  <2>4. PaymentOK(k)
    BY <2>2, <2>3 DEF PaymentsOK
  <2>5. Backed(e, ledger[e].balance)
    BY <2>1 DEF Backed, DebtNeverVanishes
  <2>6. /\ j.todo \subseteq k.todo /\ j.wrote = k.wrote
        /\ \/ j.at = k.at /\ j.due = k.due
           \/ j.at = e /\ j.due = ledger[e].balance
    <3>1. \/ j = [k EXCEPT !.todo = k.todo \ {e}]
          \/ j = [k EXCEPT !.at = e, !.due = ledger[e].balance]
      BY <2>1, <2>3
    <3>2. CASE j = [k EXCEPT !.todo = k.todo \ {e}]
      BY <3>2 DEF Payments
    <3>3. CASE j = [k EXCEPT !.at = e, !.due = ledger[e].balance]
      BY <3>3 DEF Payments
    <3> QED
      BY <3>1, <3>2, <3>3
  <2>7. (j.at = k.at /\ j.due = k.due) \/ (j.at = e /\ j.due = ledger[e].balance)
    BY <2>6
  <2>8. PaymentOK(j)
    BY <2>4, <2>5, <2>6, <2>7 DEF PaymentOK
  <2>9. ledger' = ledger /\ collected' = collected /\ job'[r] = j
    BY <1>8, <2>1 DEF Look, TypeOK
  <2>10. PaymentOK(job[r])'
    BY <2>8, <2>9 DEF PaymentOK, Backed, Issued
  <2> QED
    BY <1>3, <2>1, <2>10
<1>9. ASSUME NEW r \in Requests, Credit(r) PROVE PaymentsOK'
  <2>1. PICK j \in Payments, u \in Updates :
             /\ job' = [job EXCEPT ![r] = j]
             /\ job[r].at \in Entries
             /\ u.balance + u.paid = job[r].due
             /\ j.todo = job[r].todo \ {job[r].at}
             /\ j.tendered = job[r].tendered /\ j.left = job[r].left - u.paid
             /\ j.at = None
             /\ j.wrote = [job[r].wrote EXCEPT ![job[r].at] = u]
    BY <1>9, CreditJob
  <2>2. Running(r, "pay")
    BY <1>9 DEF Credit
  <2>3. PICK k \in Payments : k = job[r]
    BY <2>2, JobType
  <2>4. PaymentOK(k)
    BY <2>2, <2>3 DEF PaymentsOK
  <2>5. k.at # None
    BY <2>1, <2>3, NoneAssumption
  <2>6. Backed(k.at, u.balance + u.paid)
    BY <2>1, <2>3, <2>4, <2>5 DEF PaymentOK
  <2>7. \A e \in Entries : j.wrote[e] = IF e = k.at THEN u ELSE k.wrote[e]
    BY <2>1, <2>3 DEF Payments
  <2>8. PaymentOK(j)
    BY <2>1, <2>3, <2>4, <2>6, <2>7 DEF PaymentOK
  <2>9. ledger' = ledger /\ collected' = collected /\ job'[r] = j
    BY <1>9, <2>1 DEF Credit, TypeOK
  <2>10. PaymentOK(job[r])'
    BY <2>8, <2>9 DEF PaymentOK, Backed, Issued
  <2> QED
    BY <1>3, <2>1, <2>10
<1>10. ASSUME NEW r \in Requests, Manage(r) PROVE PaymentsOK'
  <2>1. Decide(r) => PaymentsOK'
    BY <1>6 DEF Decide, Finish
  <2> QED
    BY <1>4, <1>5, <1>10, <2>1 DEF Manage
<1>11. ASSUME NEW r \in Requests, Collect(r) PROVE PaymentsOK'
  <2>1. PayCommit(r) => PaymentsOK'
    BY <1>6 DEF PayCommit, Finish
  <2> QED
    BY <1>7, <1>8, <1>9, <1>11, <2>1 DEF Collect
<1>12. ASSUME NEW r \in Requests, Abort(r) PROVE PaymentsOK'
  BY <1>6, <1>12 DEF Abort, Finish
<1> QED
  BY <1>2, <1>10, <1>11, <1>12 DEF Next

LEMMA DebtStep ==
    ASSUME TypeOK, PaymentsOK, DebtNeverVanishes, Next
    PROVE  DebtNeverVanishes'
<1>1. TypeOK' /\ Grows
  BY TypeStep, GrowsStep
<1> SUFFICES ASSUME NEW e \in Entries, ledger'[e] # None
             PROVE  ledger'[e].principal <= ledger'[e].balance + collected'[e]
  BY DEF DebtNeverVanishes, Issued
<1>2. CASE ledger'[e] = ledger[e]
  <2>1. ledger[e] \in EntryRows /\ e \in Issued
    BY <1>2 DEF TypeOK, Issued
  <2>2. /\ ledger[e].principal \in Nat /\ ledger[e].balance \in Nat
        /\ collected[e] \in Nat /\ collected'[e] \in Nat
    BY <1>1, <2>1 DEF EntryRows, TypeOK
  <2>3. /\ ledger[e].principal <= ledger[e].balance + collected[e]
        /\ collected[e] <= collected'[e]
    BY <1>1, <2>1 DEF DebtNeverVanishes, Grows
  <2> QED
    BY <1>2, <2>2, <2>3
<1>3. ASSUME NEW r \in Requests, Decide(r), ledger'[e] # ledger[e]
      PROVE  ledger'[e].principal <= ledger'[e].balance + collected'[e]
  <2>1. ledger'[e] \in EntryRows /\ ledger'[e].balance = ledger'[e].principal
    BY <1>3, DecideLedger
  <2>2. ledger'[e].principal \in Nat /\ collected'[e] \in Nat
    BY <1>1, <2>1 DEF EntryRows, TypeOK
  <2> QED
    BY <2>1, <2>2
<1>4. ASSUME NEW r \in Requests, PayCommit(r), ledger'[e] # ledger[e]
      PROVE  ledger'[e].principal <= ledger'[e].balance + collected'[e]
  <2>1. PICK u \in Updates :
             /\ u = job[r].wrote[e] /\ u # None
             /\ Backed(e, u.balance + u.paid)
             /\ ledger'[e] \in EntryRows
             /\ ledger'[e].principal = ledger[e].principal
             /\ ledger'[e].line = ledger[e].line
             /\ ledger'[e].balance = u.balance
             /\ collected'[e] = collected[e] + u.paid
    BY <1>4, CommitLedger
  <2>2. ledger[e] \in EntryRows /\ collected[e] \in Nat
    BY <2>1 DEF Backed, Issued, TypeOK
  <2>3. ledger[e].principal \in Nat /\ u.balance \in Nat /\ u.paid \in Nat
    BY <2>2 DEF EntryRows, Updates
  <2>4. ledger[e].principal <= u.balance + u.paid + collected[e]
    BY <2>1 DEF Backed
  <2> QED
    BY <2>1, <2>2, <2>3, <2>4
<1>5. ASSUME ledger'[e] # ledger[e]
      PROVE  \E r \in Requests : Decide(r) \/ PayCommit(r)
  BY <1>5 DEF Next, Manage, Collect, Stage, BatchRead, SingleRead, PayRead, Look,
     Credit, Abort
<1> QED
  BY <1>2, <1>3, <1>4, <1>5

\* The inductive invariant, for any lines, entries, amounts and requests.
THEOREM DebtInvariant == Spec => []DebtInv
<1>1. Init => DebtInv
  <2>1. Init => PaymentsOK /\ DebtNeverVanishes
    BY DEF Init, PaymentsOK, DebtNeverVanishes, Running, Issued
  <2> QED
    BY <2>1, TypeInit DEF DebtInv
<1>2. DebtInv /\ [Next]_vars => DebtInv'
  <2>1. DebtInv /\ Next => DebtInv'
    BY TypeStep, PaymentsStep, DebtStep DEF DebtInv
  <2>2. DebtInv /\ UNCHANGED vars => DebtInv'
    BY DEF DebtInv, vars, TypeOK, PaymentsOK, PaymentOK, Backed, DebtNeverVanishes,
       Running, Issued
  <2> QED
    BY <2>1, <2>2
<1> QED
  BY <1>1, <1>2, PTL DEF Spec

\* Every variable of Receivables keeps its shape: no amount goes below zero.
THEOREM ReceivablesTypeCorrect == Spec => []TypeOK
<1>1. DebtInv => TypeOK
  BY DEF DebtInv
<1> QED
  BY <1>1, DebtInvariant, PTL

\* Whatever payments overlap, an entry is never brought down by more than the money
\* recorded for it.
THEOREM DebtSafe == Spec => []DebtNeverVanishes
<1>1. DebtInv => DebtNeverVanishes
  BY DEF DebtInv
<1> QED
  BY <1>1, DebtInvariant, PTL

-----------------------------------------------------------------------------
(* What a payment holds.  It visits its entries oldest first, so the row it *)
(* waits for is newer than every row it holds; and what it recorded on the  *)
(* rows it holds, with what is left, is what the customer handed over.      *)

Wrote(j) == {e \in Entries : j.wrote[e] # None}

Recorded(j) == [e \in Wrote(j) |-> j.wrote[e].paid]

InOrder(j) ==
    /\ j.at # None => j.at \in j.todo /\ \A f \in j.todo : j.at <= f
    /\ \A e \in Wrote(j), f \in j.todo : e < f

AddsUp(j) ==
    /\ IsFiniteSet(Wrote(j))
    /\ j.tendered = j.left + SumFunctionOnSet(Recorded(j), Wrote(j))

Shapely(j) == InOrder(j) /\ AddsUp(j)

ShapesOK == \A r \in Requests : Running(r, "pay") => Shapely(job[r])

\* A payment that starts has recorded nothing.
LEMMA FreshShape ==
    ASSUME NEW a \in Tenders, NEW targets \in SUBSET Entries
    PROVE  Shapely(Payment(a, targets))
<1>1. PICK j : j = Payment(a, targets)
  OBVIOUS
<1>2. Wrote(j) = {} /\ j.at = None /\ j.tendered = a /\ j.left = a
  BY <1>1 DEF Payment, Wrote
<1>3. IsFiniteSet(Wrote(j)) /\ a \in Nat
  BY <1>2, FS_EmptySet, ReceivablesAssumption
<1>4. SumFunctionOnSet(Recorded(j), Wrote(j)) = 0
  BY <1>2, SumEmpty
<1>5. AddsUp(j)
  BY <1>2, <1>3, <1>4 DEF AddsUp
<1>6. InOrder(j)
  BY <1>2 DEF InOrder
<1> QED BY <1>1, <1>5, <1>6 DEF Shapely

\* Looking at the oldest row keeps the order and the account.
LEMMA LookShape ==
    ASSUME TypeOK, PaymentsOK, ShapesOK, NEW r \in Requests, Look(r)
    PROVE  Shapely(job'[r])
<1>1. PICK e \in job[r].todo, j \in Payments :
             /\ job' = [job EXCEPT ![r] = j]
             /\ e \in Issued /\ \A f \in job[r].todo : e <= f
             /\ \/ /\ ledger[e].balance = 0
                   /\ j = [job[r] EXCEPT !.todo = @ \ {e}]
                \/ /\ ledger[e].balance # 0
                   /\ j = [job[r] EXCEPT !.at = e, !.due = ledger[e].balance]
  BY LookJob
<1>2. Running(r, "pay") /\ job[r].at = None
  BY DEF Look, More
<1>3. PICK k \in Payments : k = job[r]
  BY <1>2, JobType
<1>4. Shapely(k) /\ k.at = None
  BY <1>2, <1>3 DEF ShapesOK
<1>5. /\ j.wrote = k.wrote /\ j.tendered = k.tendered /\ j.left = k.left
      /\ j.todo \subseteq k.todo
      /\ j.at = None \/ (j.at = e /\ j.todo = k.todo)
  <2>1. \/ j = [k EXCEPT !.todo = k.todo \ {e}]
        \/ j = [k EXCEPT !.at = e, !.due = ledger[e].balance]
    BY <1>1, <1>3
  <2>2. CASE j = [k EXCEPT !.todo = k.todo \ {e}]
    BY <1>4, <2>2 DEF Payments
  <2>3. CASE j = [k EXCEPT !.at = e, !.due = ledger[e].balance]
    BY <2>3 DEF Payments
  <2> QED BY <2>1, <2>2, <2>3
<1>6. Wrote(j) = Wrote(k) /\ Recorded(j) = Recorded(k)
  BY <1>5 DEF Wrote, Recorded
<1>7. AddsUp(j)
  BY <1>4, <1>5, <1>6 DEF Shapely, AddsUp
<1>8. InOrder(j)
  BY <1>1, <1>3, <1>4, <1>5, <1>6 DEF Shapely, InOrder
<1>9. job'[r] = j
  BY <1>1 DEF TypeOK
<1> QED BY <1>7, <1>8, <1>9 DEF Shapely

\* Crediting the row records on it what is taken off the rest.
LEMMA CreditShape ==
    ASSUME TypeOK, PaymentsOK, ShapesOK, NEW r \in Requests, Credit(r)
    PROVE  Shapely(job'[r])
<1>1. PICK j \in Payments, u \in Updates :
             /\ job' = [job EXCEPT ![r] = j]
             /\ job[r].at \in Entries
             /\ u.balance + u.paid = job[r].due
             /\ j.todo = job[r].todo \ {job[r].at}
             /\ j.tendered = job[r].tendered /\ j.left = job[r].left - u.paid
             /\ j.at = None
             /\ j.wrote = [job[r].wrote EXCEPT ![job[r].at] = u]
  BY CreditJob
<1>2. Running(r, "pay") /\ job[r].at # None
  BY DEF Credit
<1>3. PICK k \in Payments : k = job[r]
  BY <1>2, JobType
<1>4. PICK x \in Entries : x = k.at
  BY <1>1, <1>3
<1>5. Shapely(k) /\ x \in k.todo /\ \A f \in k.todo : x <= f
  BY <1>2, <1>3, <1>4 DEF ShapesOK, Shapely, InOrder
<1>6. x \notin Wrote(k)
  <2>1. x \in Wrote(k) => x < x
    BY <1>5 DEF Shapely, InOrder
  <2>2. x \in Nat
    BY ReceivablesAssumption
  <2> QED BY <2>1, <2>2
<1>7. \A e \in Entries : j.wrote[e] = IF e = x THEN u ELSE k.wrote[e]
  BY <1>1, <1>3, <1>4 DEF Payments
<1>8. u # None
  BY NoneAssumption
<1>9. Wrote(j) = Wrote(k) \cup {x}
  BY <1>7, <1>8 DEF Wrote
<1>10. \A e \in Wrote(k) : Recorded(k)[e] \in Int /\ Recorded(j)[e] = Recorded(k)[e]
  <2> SUFFICES ASSUME NEW e \in Wrote(k)
               PROVE  Recorded(k)[e] \in Int /\ Recorded(j)[e] = Recorded(k)[e]
    OBVIOUS
  <2>1. k.wrote[e] \in Updates /\ e # x /\ e \in Entries
    BY <1>6 DEF Wrote, Payments
  <2>2. k.wrote[e].paid \in Nat
    BY <2>1 DEF Updates
  <2>3. Recorded(k)[e] = k.wrote[e].paid /\ Recorded(j)[e] = j.wrote[e].paid
    BY <1>9 DEF Recorded
  <2> QED BY <1>7, <2>1, <2>2, <2>3
<1>11. Recorded(j)[x] = u.paid /\ u.paid \in Nat
  BY <1>7, <1>9 DEF Recorded, Updates
<1>12. IsFiniteSet(Wrote(k)) /\ IsFiniteSet(Wrote(j))
  BY <1>5, <1>9, FS_AddElement DEF Shapely, AddsUp
<1>13. SumFunctionOnSet(Recorded(j), Wrote(k)) = SumFunctionOnSet(Recorded(k), Wrote(k))
       /\ SumFunctionOnSet(Recorded(k), Wrote(k)) \in Int
  BY <1>10, <1>12, SumSame, SumType
<1>14. SumFunctionOnSet(Recorded(j), Wrote(k) \cup {x}) =
          SumFunctionOnSet(Recorded(j), Wrote(k)) + Recorded(j)[x]
  <2>1. \A y \in Wrote(k) \cup {x} : Recorded(j)[y] \in Int
    BY <1>10, <1>11
  <2> QED BY <1>6, <1>12, <2>1, SumAdd
<1>15. AddsUp(j)
  <2>1. PICK a \in Int, b \in Int, p \in Nat :
           /\ a = SumFunctionOnSet(Recorded(k), Wrote(k)) /\ b = k.left /\ p = u.paid
    BY <1>11, <1>13 DEF Payments
  <2>2. k.tendered = b + a
    BY <1>5, <2>1 DEF Shapely, AddsUp
  <2>3. SumFunctionOnSet(Recorded(j), Wrote(j)) = a + p
    BY <1>9, <1>11, <1>13, <1>14, <2>1
  <2>4. j.tendered = b + a /\ j.left = b - p
    BY <1>1, <1>3, <2>1, <2>2
  <2> QED BY <1>12, <2>1, <2>3, <2>4 DEF AddsUp
<1>16. InOrder(j)
  <2>1. \A f \in k.todo \ {x} : x < f
    <3>1. k.todo \subseteq Nat
      BY ReceivablesAssumption DEF Payments
    <3> QED BY <1>5, <3>1, ReceivablesAssumption
  <2> QED BY <1>1, <1>3, <1>4, <1>5, <1>9, <2>1 DEF Shapely, InOrder
<1>17. job'[r] = j
  BY <1>1 DEF TypeOK
<1> QED BY <1>15, <1>16, <1>17 DEF Shapely

\* Every step keeps the order and the account of every payment.
LEMMA ShapesStep ==
    ASSUME TypeOK, PaymentsOK, ShapesOK, Next
    PROVE  ShapesOK'
<1> SUFFICES ASSUME NEW q \in Requests, Running(q, "pay")' PROVE Shapely(job'[q])
  BY DEF ShapesOK, Shapely, InOrder, AddsUp, Wrote, Recorded
<1>1. job'[q] = job[q] => Shapely(job'[q])
  BY DEF ShapesOK, Running
<1>2. ASSUME NEW r \in Requests, NEW j, job' = [job EXCEPT ![r] = j],
             j # None /\ j.op = "pay" => Shapely(j)
      PROVE  Shapely(job'[q])
  <2>1. job'[q] = j \/ job'[q] = job[q]
    BY <1>2 DEF TypeOK
  <2> QED BY <1>1, <1>2, <2>1 DEF Running
<1>3. ASSUME NEW S \in SUBSET Lines, Stage(S) PROVE Shapely(job'[q])
  BY <1>1, <1>3 DEF Stage
<1>4. ASSUME NEW r \in Requests, job' = [job EXCEPT ![r] = None] PROVE Shapely(job'[q])
  <2>1. PICK j : j = None
    OBVIOUS
  <2> QED BY <1>2, <1>4, <2>1
<1>5. ASSUME NEW r \in Requests, NEW S \in SUBSET Lines, BatchRead(r, S)
      PROVE  Shapely(job'[q])
  <2>1. PICK j : j = [op |-> "decide", lines |-> Undecided, discount |-> 0,
                     rejected |-> S \cup {l \in Undecided : Amount[l] <= MoneyEps}]
    OBVIOUS
  <2>2. job' = [job EXCEPT ![r] = j] /\ j.op = "decide"
    BY <1>5, <2>1 DEF BatchRead, Start
  <2> QED BY <1>2, <2>2
<1>6. ASSUME NEW r \in Requests, NEW l \in Lines, NEW b \in BOOLEAN,
             NEW d \in Discounts, SingleRead(r, l, b, d)
      PROVE  Shapely(job'[q])
  <2>1. PICK j : j = [op |-> "decide", lines |-> {l}, discount |-> d,
                     rejected |-> IF b THEN {} ELSE {l}]
    OBVIOUS
  <2>2. job' = [job EXCEPT ![r] = j] /\ j.op = "decide"
    BY <1>6, <2>1 DEF SingleRead, Start
  <2> QED BY <1>2, <2>2
<1>7. ASSUME NEW r \in Requests, NEW a \in Tenders, PayRead(r, a)
      PROVE  Shapely(job'[q])
  <2>1. PICK targets \in SUBSET Entries : Start(r, Payment(a, targets))
    BY <1>7 DEF PayRead, Owing, Open, Issued
  <2>2. PICK j : j = Payment(a, targets)
    OBVIOUS
  <2>3. job' = [job EXCEPT ![r] = j] /\ Shapely(j)
    BY <2>1, <2>2, FreshShape DEF Start
  <2> QED BY <1>2, <2>3
<1>8. ASSUME NEW r \in Requests, Look(r) \/ Credit(r)
      PROVE  Shapely(job'[q])
  <2>1. Shapely(job'[r])
    BY <1>8, LookShape, CreditShape
  <2>2. \E j : job' = [job EXCEPT ![r] = j]
    BY <1>8 DEF Look, Credit
  <2>3. q # r => job'[q] = job[q]
    BY <2>2 DEF TypeOK
  <2> QED BY <1>1, <2>1, <2>3
<1>9. ASSUME NEW r \in Requests, Decide(r) \/ PayCommit(r) \/ Abort(r)
      PROVE  Shapely(job'[q])
  BY <1>4, <1>9 DEF Decide, PayCommit, Abort, Finish
<1> QED
  BY <1>3, <1>5, <1>6, <1>7, <1>8, <1>9 DEF Next, Manage, Collect

\* The order and the account of every payment hold throughout.
LEMMA ShapesAlways == Spec => []ShapesOK
<1>1. Init => ShapesOK
  BY DEF Init, ShapesOK, Running
<1>2. DebtInv /\ ShapesOK /\ [Next]_vars => ShapesOK'
  <2>1. DebtInv /\ ShapesOK /\ Next => ShapesOK'
    BY ShapesStep DEF DebtInv
  <2>2. ShapesOK /\ UNCHANGED vars => ShapesOK'
    BY DEF vars, ShapesOK, Running, Shapely, InOrder, AddsUp, Wrote, Recorded
  <2> QED BY <2>1, <2>2
<1> QED BY <1>1, <1>2, DebtInvariant, PTL DEF Spec

\* What a customer hands over is recorded on the entries the payment visits, and the
\* rest is still to apply: a payment loses no centavo on its way.
THEOREM TenderSafe == Spec => []TenderAccounted
<1>1. ShapesOK => TenderAccounted
  <2> SUFFICES ASSUME ShapesOK, NEW r \in Requests, Running(r, "pay")
               PROVE  job[r].tendered =
                        job[r].left + SumFunction([e \in Held(r) |-> job[r].wrote[e].paid])
    BY DEF TenderAccounted
  <2>1. Held(r) = Wrote(job[r])
    BY DEF Held, Wrote
  <2>2. PICK f : f = Recorded(job[r])
    OBVIOUS
  <2>3. DOMAIN f = Wrote(job[r]) /\ [e \in Held(r) |-> job[r].wrote[e].paid] = f
    BY <2>1, <2>2 DEF Recorded
  <2>4. job[r].tendered = job[r].left + SumFunctionOnSet(f, Wrote(job[r]))
    BY <2>2 DEF ShapesOK, Shapely, AddsUp
  <2> QED BY <2>3, <2>4 DEF SumFunction
<1> QED BY <1>1, ShapesAlways, PTL

\* Among finitely many requests one waits for the newest row.
LEMMA NewestAwaited ==
    ASSUME NEW W, IsFiniteSet(W), W # {}, NEW at \in [W -> Nat]
    PROVE  \E r \in W : \A q \in W : at[q] <= at[r]
<1> DEFINE G == {T \in SUBSET W : T # {} => \E r \in T : \A q \in T : at[q] <= at[r]}
<1>1. {} \in G
  OBVIOUS
<1>2. ASSUME NEW T \in SUBSET W, T # {}, \A x \in T : T \ {x} \in G PROVE T \in G
  <2>1. PICK x \in T : TRUE
    BY <1>2
  <2>2. CASE T \ {x} = {}
    <3>1. \A q \in T : q = x
      BY <2>2
    <3>2. at[x] \in Nat
      OBVIOUS
    <3>3. \A q \in T : at[q] <= at[x]
      BY <3>1, <3>2
    <3> QED BY <3>3
  <2>3. CASE T \ {x} # {}
    <3>1. PICK r \in T \ {x} : \A q \in T \ {x} : at[q] <= at[r]
      BY <1>2, <2>3
    <3>2. at[x] \in Nat /\ at[r] \in Nat /\ \A q \in T : at[q] \in Nat
      OBVIOUS
    <3>3. CASE at[x] <= at[r]
      BY <3>1, <3>2, <3>3
    <3>4. CASE at[r] <= at[x]
      BY <3>1, <3>2, <3>4
    <3> QED BY <3>2, <3>3, <3>4
  <2> QED BY <2>2, <2>3
<1>3. G \in SUBSET (SUBSET W)
  OBVIOUS
<1> HIDE DEF G
<1>4. G = SUBSET W
  BY <1>1, <1>2, <1>3, SubsetInduction
<1>5. W \in G
  BY <1>4
<1> QED BY <1>5 DEF G

\* Payments never wait for each other's rows in a circle: in any such circle one
\* waits for the newest row, and a request that held it would wait for a newer one.
THEOREM LocksSafe == Spec => []NoLockCycle
<1>1. TypeOK /\ ShapesOK => NoLockCycle
  <2> SUFFICES ASSUME TypeOK, ShapesOK, NEW W \in SUBSET Requests, W # {},
                      \A r \in W : \E q \in W : Waits(r, q)
               PROVE  FALSE
    BY DEF NoLockCycle
  <2>1. \A r \in W : Running(r, "pay") /\ job[r].at \in Nat
    <3> SUFFICES ASSUME NEW r \in W PROVE Running(r, "pay") /\ job[r].at \in Nat
      OBVIOUS
    <3>1. Running(r, "pay") /\ job[r].at # None
      BY DEF Waits
    <3>2. job[r] \in Payments
      BY <3>1, JobType
    <3>3. job[r].at \in Entries
      BY <3>1, <3>2 DEF Payments
    <3> QED BY <3>1, <3>3, ReceivablesAssumption
  <2>2. PICK at : at = [r \in W |-> job[r].at]
    OBVIOUS
  <2>3. at \in [W -> Nat] /\ IsFiniteSet(W)
    BY <2>1, <2>2, ReceivablesAssumption, FS_Subset
  <2>4. PICK r \in W : \A q \in W : at[q] <= at[r]
    BY <2>3, NewestAwaited
  <2>5. PICK q \in W : Waits(r, q)
    OBVIOUS
  <2>6. PICK p \in W : Waits(q, p)
    OBVIOUS
  <2>7. job[r].at \in Wrote(job[q]) /\ job[q].at # None /\ job[q].at \in job[q].todo
    <3>1. Running(q, "pay") /\ job[q].at # None
      BY <2>6 DEF Waits
    <3>2. job[r].at \in Wrote(job[q])
      BY <2>5, <3>1 DEF Waits, Held, Wrote
    <3> QED BY <3>1, <3>2 DEF ShapesOK, Shapely, InOrder
  <2>8. job[r].at < job[q].at
    BY <2>1, <2>7 DEF ShapesOK, Shapely, InOrder
  <2>9. job[q].at <= job[r].at
    BY <2>2, <2>4
  <2> QED BY <2>1, <2>8, <2>9
<1>2. DebtInv => TypeOK
  BY DEF DebtInv
<1> QED BY <1>1, <1>2, DebtInvariant, ShapesAlways, PTL

-----------------------------------------------------------------------------
(* Lines whose requests come one after the other.  Such a line changes only *)
(* in the hands of the one request that handles it, so what that request    *)
(* read of it is still true, and no money is lost or counted twice.         *)

Of(l) == {e \in Issued : ledger[e].line = l}

Single(l) == \A q, r \in Requests : Handles(q, l) /\ Handles(r, l) => q = r

LineExact(l) ==
    /\ \A d, e \in Of(l) : d = e
    /\ \A e \in Of(l) : /\ ledger[e].balance + collected[e] = ledger[e].principal
                        /\ ledger[e].principal <= Amount[l]
    /\ Of(l) # {} => kase[l] = "DECIDED"

\* What a request read or wrote of the line agrees with the line.
ReadTrue(r, l) ==
    /\ Running(r, "decide") /\ l \in job[r].lines => kase[l] = "NEEDS_CLEARANCE"
    /\ Running(r, "pay") =>
          \A e \in Of(l) :
             /\ job[r].at = e => job[r].due = ledger[e].balance
             /\ job[r].wrote[e] # None =>
                   job[r].wrote[e].balance + job[r].wrote[e].paid = ledger[e].balance

LineInv(l) == Single(l) /\ LineExact(l) /\ \A r \in Requests : ReadTrue(r, l)

LinesOK ==
    /\ \A e \in Entries \ Issued : collected[e] = 0
    /\ \A l \in Lines \ contended : LineInv(l)

\* A decision gives each line it grants one receivable, and leaves the others alone.
LEMMA DecideLine ==
    ASSUME TypeOK, NEW r \in Requests, Decide(r), NEW l \in Lines
    PROVE  /\ l \notin job[r].lines => Of(l)' = Of(l)
           /\ \A e \in Of(l) : e \in Of(l)' /\ ledger'[e] = ledger[e]
           /\ \A e \in Of(l)' \ Of(l) :
                 /\ e \in Entries \ Issued
                 /\ ledger'[e].balance = ledger'[e].principal
                 /\ ledger'[e].principal \in Nat
                 /\ ledger'[e].principal <= Amount[l]
           /\ \A d, e \in Of(l)' \ Of(l) : d = e
<1>1. PICK j : j = job[r]
  OBVIOUS
<1>2. j \in Decisions
  BY <1>1, JobType DEF Decide
<1>3. PICK id \in [Granted(j) -> Entries \ Issued] :
         ledger' = [e \in Entries |->
                       IF \E k \in Granted(j) : id[k] = e
                       THEN LET k == CHOOSE k \in Granted(j) : id[k] = e
                            IN NewEntry(k, Principal(j, k))
                       ELSE ledger[e]]
  BY <1>1 DEF Decide
<1>4. ASSUME NEW e \in Entries, ~\E k \in Granted(j) : id[k] = e
      PROVE  ledger'[e] = ledger[e]
  BY <1>3, <1>4
<1>5. ASSUME NEW e \in Entries, \E k \in Granted(j) : id[k] = e
      PROVE  \E k \in Granted(j) : /\ id[k] = e /\ e \notin Issued
                                   /\ ledger'[e] = NewEntry(k, Principal(j, k))
  <2>1. PICK k : k = CHOOSE m \in Granted(j) : id[m] = e
    OBVIOUS
  <2>2. k \in Granted(j) /\ id[k] = e
    BY <1>5, <2>1
  <2>3. ledger'[e] = NewEntry(k, Principal(j, k))
    BY <1>3, <1>5, <2>1
  <2> QED BY <2>2, <2>3
<1>6. \A e \in Of(l) : e \in Of(l)' /\ ledger'[e] = ledger[e]
  <2> SUFFICES ASSUME NEW e \in Of(l) PROVE e \in Of(l)' /\ ledger'[e] = ledger[e]
    OBVIOUS
  <2>1. e \in Entries /\ e \in Issued /\ ledger[e].line = l /\ ledger[e] # None
    BY DEF Of, Issued
  <2>2. ledger'[e] = ledger[e]
    BY <1>4, <1>5, <2>1
  <2> QED BY <2>1, <2>2 DEF Of, Issued
<1>7. ASSUME NEW e \in Of(l)' \ Of(l)
      PROVE  /\ e \in Entries \ Issued /\ l \in Granted(j) /\ id[l] = e
             /\ ledger'[e] = NewEntry(l, Principal(j, l))
  <2>1. e \in Entries /\ ledger'[e].line = l /\ ledger'[e] # None
    BY DEF Of, Issued
  <2>2. ledger'[e] # ledger[e]
    BY <1>7, <2>1 DEF Of, Issued
  <2>3. PICK k \in Granted(j) : /\ id[k] = e /\ e \notin Issued
                                /\ ledger'[e] = NewEntry(k, Principal(j, k))
    BY <1>4, <1>5, <2>1, <2>2
  <2>4. k = l
    BY <2>1, <2>3 DEF NewEntry
  <2> QED BY <2>1, <2>3, <2>4
<1>8. \A e \in Of(l)' \ Of(l) :
         /\ e \in Entries \ Issued
         /\ ledger'[e].balance = ledger'[e].principal
         /\ ledger'[e].principal \in Nat
         /\ ledger'[e].principal <= Amount[l]
  <2> SUFFICES ASSUME NEW e \in Of(l)' \ Of(l)
               PROVE  /\ e \in Entries \ Issued
                      /\ ledger'[e].balance = ledger'[e].principal
                      /\ ledger'[e].principal \in Nat
                      /\ ledger'[e].principal <= Amount[l]
    OBVIOUS
  <2>1. PICK p : p = Principal(j, l)
    OBVIOUS
  <2>2. Amount[l] \in Nat /\ j.discount \in Nat
    BY <1>2, ReceivablesAssumption DEF Decisions
  <2>3. p \in Nat /\ p <= Amount[l]
    BY <2>1, <2>2 DEF Principal, Smaller
  <2>4. ledger'[e] = NewEntry(l, p)
    BY <1>7, <2>1
  <2> QED BY <1>7, <2>3, <2>4 DEF NewEntry
<1>9. \A d, e \in Of(l)' \ Of(l) : d = e
  BY <1>7
<1>10. ASSUME l \notin job[r].lines PROVE Of(l)' = Of(l)
  <2>1. l \notin Granted(j)
    BY <1>1, <1>10 DEF Granted
  <2> QED BY <1>6, <1>7, <2>1
<1> QED BY <1>6, <1>8, <1>9, <1>10

\* A payment that commits changes the balance of a row it holds, and no other.
LEMMA CommitLine ==
    ASSUME TypeOK, PaymentsOK, NEW r \in Requests, PayCommit(r), NEW l \in Lines
    PROVE  /\ Of(l)' = Of(l)
           /\ \A e \in Of(l) :
                 /\ ledger'[e].principal = ledger[e].principal
                 /\ \/ ledger'[e] = ledger[e] /\ collected'[e] = collected[e]
                    \/ /\ Handles(r, l)
                       /\ job[r].wrote[e] # None
                       /\ ledger'[e].balance = job[r].wrote[e].balance
                       /\ collected'[e] = collected[e] + job[r].wrote[e].paid
<1>1. \A e \in Entries : ledger'[e] = None <=> ledger[e] = None
  <2> SUFFICES ASSUME NEW e \in Entries PROVE ledger'[e] = None <=> ledger[e] = None
    OBVIOUS
  <2> QED BY CommitLedger, NoneAssumption DEF Backed, Issued
<1>2. \A e \in Issued : ledger'[e].line = ledger[e].line
  <2> SUFFICES ASSUME NEW e \in Issued PROVE ledger'[e].line = ledger[e].line
    OBVIOUS
  <2>1. e \in Entries
    BY DEF Issued
  <2> QED BY <2>1, CommitLedger
<1>3. Of(l)' = Of(l)
  BY <1>1, <1>2 DEF Of, Issued
<1>4. ASSUME NEW e \in Of(l)
      PROVE  /\ ledger'[e].principal = ledger[e].principal
             /\ \/ ledger'[e] = ledger[e] /\ collected'[e] = collected[e]
                \/ /\ Handles(r, l)
                   /\ job[r].wrote[e] # None
                   /\ ledger'[e].balance = job[r].wrote[e].balance
                   /\ collected'[e] = collected[e] + job[r].wrote[e].paid
  <2>1. e \in Entries /\ e \in Issued /\ ledger[e].line = l
    BY DEF Of, Issued
  <2>2. Running(r, "pay")
    BY DEF PayCommit
  <2>3. job[r].wrote[e] # None => Handles(r, l)
    BY <2>1, <2>2 DEF Handles, Held
  <2> QED BY <2>1, <2>3, CommitLedger
<1> QED BY <1>3, <1>4

\* What a payment has read or written of a line, it handles.
LEMMA PayHandles ==
    ASSUME TypeOK, PaymentsOK, ShapesOK, NEW r \in Requests, Running(r, "pay"),
           NEW e \in Entries, job[r].at = e \/ job[r].wrote[e] # None
    PROVE  e \in Issued /\ Handles(r, ledger[e].line)
<1>1. CASE job[r].at = e
  <2>1. e \in job[r].todo
    BY <1>1, NoneAssumption DEF ShapesOK, Shapely, InOrder
  <2>2. e \in Issued
    BY <2>1 DEF PaymentsOK, PaymentOK
  <2> QED BY <2>1, <2>2 DEF Handles
<1>2. CASE job[r].wrote[e] # None
  <2>1. e \in Issued /\ e \in Held(r)
    BY <1>2 DEF PaymentsOK, PaymentOK, Backed, Held
  <2> QED BY <2>1 DEF Handles
<1> QED BY <1>1, <1>2

\* A line that no request handles keeps its receivable; it may only be staged.
RowsSame(l) ==
    /\ Of(l)' = Of(l)
    /\ \A e \in Of(l) : ledger'[e] = ledger[e] /\ collected'[e] = collected[e]
    /\ \/ kase'[l] = kase[l]
       \/ kase[l] = None /\ kase'[l] = "NEEDS_CLEARANCE"

\* A line changes only in the hands of a request that handles it.
LEMMA LineChange ==
    ASSUME TypeOK, PaymentsOK, Next, NEW l \in Lines
    PROVE  \/ RowsSame(l)
           \/ \E r \in Requests : Decide(r) /\ l \in job[r].lines
           \/ \E r \in Requests : PayCommit(r) /\ Handles(r, l)
<1>1. kase' = kase /\ ledger' = ledger /\ collected' = collected => RowsSame(l)
  BY DEF RowsSame, Of, Issued
<1>2. ASSUME NEW S \in SUBSET Lines, Stage(S) PROVE RowsSame(l)
  BY <1>2 DEF Stage, RowsSame, Of, Issued
<1>3. ASSUME NEW r \in Requests, Decide(r), l \notin job[r].lines PROVE RowsSame(l)
  <2>1. kase'[l] = kase[l] /\ collected' = collected
    BY <1>3 DEF Decide
  <2> QED BY <1>3, <2>1, DecideLine DEF RowsSame
<1>4. ASSUME NEW r \in Requests, PayCommit(r), ~Handles(r, l) PROVE RowsSame(l)
  <2>1. kase' = kase
    BY <1>4 DEF PayCommit
  <2> QED BY <1>4, <2>1, CommitLine DEF RowsSame
<1>5. \A r \in Requests : Look(r) \/ Credit(r) \/ Abort(r) => RowsSame(l)
  BY <1>1 DEF Look, Credit, Abort
<1>6. \A r \in Requests, a \in Tenders : PayRead(r, a) => RowsSame(l)
  BY <1>1 DEF PayRead
<1>7. \A r \in Requests : \A S \in SUBSET Lines : BatchRead(r, S) => RowsSame(l)
  BY <1>1 DEF BatchRead
<1>8. \A r \in Requests, k \in Lines, b \in BOOLEAN, d \in Discounts :
          SingleRead(r, k, b, d) => RowsSame(l)
  BY <1>1 DEF SingleRead
<1> QED
  BY <1>2, <1>3, <1>4, <1>5, <1>6, <1>7, <1>8 DEF Next, Manage, Collect

\* Such a line keeps exactly what is owed on it.
LEMMA LineExactStep ==
    ASSUME TypeOK, PaymentsOK, \A e \in Entries \ Issued : collected[e] = 0, Next,
           NEW l \in Lines, LineInv(l)
    PROVE  LineExact(l)'
<1>1. CASE RowsSame(l)
  <2>1. Of(l) = {} \/ kase'[l] = "DECIDED"
    BY <1>1, NoneAssumption DEF LineInv, LineExact, RowsSame
  <2>2. Of(l)' # {} => kase'[l] = "DECIDED"
    BY <1>1, <2>1 DEF RowsSame
  <2>3. \A d, e \in Of(l)' : d = e
    BY <1>1 DEF LineInv, LineExact, RowsSame
  <2>4. \A e \in Of(l)' : /\ ledger'[e].balance + collected'[e] = ledger'[e].principal
                          /\ ledger'[e].principal <= Amount[l]
    BY <1>1 DEF LineInv, LineExact, RowsSame
  <2> QED BY <2>2, <2>3, <2>4 DEF LineExact
<1>2. ASSUME NEW r \in Requests, Decide(r), l \in job[r].lines PROVE LineExact(l)'
  <2>1. kase[l] = "NEEDS_CLEARANCE"
    BY <1>2 DEF Decide, LineInv, ReadTrue
  <2>2. Of(l) = {}
    BY <2>1 DEF LineInv, LineExact
  <2>3. kase'[l] = "DECIDED" /\ collected' = collected
    BY <1>2 DEF Decide
  <2>4. \A d, e \in Of(l)' : d = e
    BY <1>2, <2>2, DecideLine
  <2>5. ASSUME NEW e \in Of(l)'
        PROVE  /\ ledger'[e].balance + collected'[e] = ledger'[e].principal
               /\ ledger'[e].principal <= Amount[l]
    <3>1. /\ e \in Entries \ Issued
          /\ ledger'[e].balance = ledger'[e].principal
          /\ ledger'[e].principal \in Nat
          /\ ledger'[e].principal <= Amount[l]
      BY <1>2, <2>2, <2>5, DecideLine
    <3>2. collected'[e] = 0
      BY <2>3, <3>1
    <3> QED BY <3>1, <3>2
  <2> QED BY <2>3, <2>4, <2>5 DEF LineExact
<1>3. ASSUME NEW r \in Requests, PayCommit(r), Handles(r, l) PROVE LineExact(l)'
  <2>1. /\ Of(l)' = Of(l)
        /\ \A e \in Of(l) :
              /\ ledger'[e].principal = ledger[e].principal
              /\ \/ ledger'[e] = ledger[e] /\ collected'[e] = collected[e]
                 \/ /\ Handles(r, l)
                    /\ job[r].wrote[e] # None
                    /\ ledger'[e].balance = job[r].wrote[e].balance
                    /\ collected'[e] = collected[e] + job[r].wrote[e].paid
    BY <1>3, CommitLine
  <2>2. kase' = kase /\ Running(r, "pay")
    BY <1>3 DEF PayCommit
  <2>3. ASSUME NEW e \in Of(l)
        PROVE  /\ ledger'[e].balance + collected'[e] = ledger'[e].principal
               /\ ledger'[e].principal <= Amount[l]
    <3>1. /\ ledger[e].balance + collected[e] = ledger[e].principal
          /\ ledger[e].principal <= Amount[l]
      BY DEF LineInv, LineExact
    <3>2. CASE ledger'[e] = ledger[e] /\ collected'[e] = collected[e]
      BY <3>1, <3>2
    <3>3. CASE /\ job[r].wrote[e] # None
               /\ ledger'[e].balance = job[r].wrote[e].balance
               /\ collected'[e] = collected[e] + job[r].wrote[e].paid
      <4>1. e \in Entries /\ job[r] \in Payments
        BY <2>2, JobType DEF Of, Issued
      <4>2. job[r].wrote[e] \in Updates /\ collected[e] \in Nat
        BY <3>3, <4>1 DEF Payments, TypeOK
      <4>3. PICK b \in Nat, p \in Nat, c \in Nat :
               b = job[r].wrote[e].balance /\ p = job[r].wrote[e].paid /\ c = collected[e]
        BY <4>2 DEF Updates
      <4>4. b + p = ledger[e].balance
        BY <2>2, <3>3, <4>3 DEF LineInv, ReadTrue
      <4>5. ledger'[e].principal = ledger[e].principal
        BY <2>1
      <4> QED BY <3>1, <3>3, <4>3, <4>4, <4>5
    <3> QED BY <2>1, <3>2, <3>3
  <2> QED BY <2>1, <2>2, <2>3 DEF LineInv, LineExact
<1> QED BY <1>1, <1>2, <1>3, LineChange

\* What a request that did not step read of such a line is still true.
LEMMA OldReadTrue ==
    ASSUME TypeOK, TypeOK', PaymentsOK, PaymentsOK', ShapesOK, ShapesOK', Next,
           NEW l \in Lines, LineInv(l), NEW r \in Requests, job'[r] = job[r]
    PROVE  ReadTrue(r, l)'
<1>1. ASSUME NEW q \in Requests, Decide(q) \/ PayCommit(q), Handles(q, l), Handles(r, l)
      PROVE  FALSE
  <2>1. q = r
    BY <1>1 DEF LineInv, Single
  <2>2. job'[q] = None /\ job[q] # None
    BY <1>1, NoneAssumption DEF Decide, PayCommit, Running, Finish, TypeOK
  <2> QED BY <2>1, <2>2
<1>2. ASSUME Handles(r, l) PROVE RowsSame(l)
  <2>1. ASSUME NEW q \in Requests, Decide(q), l \in job[q].lines PROVE Handles(q, l)
    BY <2>1 DEF Handles, Decide
  <2> QED BY <1>1, <1>2, <2>1, LineChange
<1>3. ASSUME Running(r, "decide")', l \in job'[r].lines PROVE kase'[l] = "NEEDS_CLEARANCE"
  <2>1. Running(r, "decide") /\ l \in job[r].lines
    BY <1>3 DEF Running
  <2>2. Handles(r, l) /\ kase[l] = "NEEDS_CLEARANCE"
    BY <2>1 DEF Handles, LineInv, ReadTrue
  <2> QED BY <1>2, <2>2 DEF RowsSame
<1>4. ASSUME Running(r, "pay")', NEW e \in Of(l)',
             job[r].at = e \/ job[r].wrote[e] # None
      PROVE  /\ job[r].at = e => job[r].due = ledger'[e].balance
             /\ job[r].wrote[e] # None =>
                   job[r].wrote[e].balance + job[r].wrote[e].paid = ledger'[e].balance
  <2>1. Running(r, "pay") /\ e \in Entries /\ ledger'[e].line = l
    BY <1>4 DEF Running, Of, Issued
  <2>2. e \in Issued /\ Handles(r, ledger[e].line)
    BY <1>4, <2>1, PayHandles
  <2>3. ledger[e].line = l
    <3>1. ASSUME NEW q \in Requests, Decide(q) PROVE ledger'[e] = ledger[e]
      BY <2>1, <2>2, <3>1, DecideLedger
    <3>2. ASSUME NEW q \in Requests, PayCommit(q) PROVE ledger'[e].line = ledger[e].line
      BY <2>1, <3>2, CommitLedger
    <3>3. ledger' = ledger \/ \E q \in Requests : Decide(q) \/ PayCommit(q)
      BY DEF Next, Manage, Collect, Stage, BatchRead, SingleRead, PayRead, Look, Credit,
             Abort
    <3> QED BY <2>1, <3>1, <3>2, <3>3
  <2>4. RowsSame(l) /\ e \in Of(l)
    BY <1>2, <2>2, <2>3 DEF Of
  <2>5. ledger'[e] = ledger[e]
    BY <2>4 DEF RowsSame
  <2> QED BY <2>1, <2>4, <2>5 DEF LineInv, ReadTrue
<1> QED BY <1>3, <1>4 DEF ReadTrue

\* What a request has just read, or written, of such a line is true.
LEMMA NewReadTrue ==
    ASSUME TypeOK, TypeOK', PaymentsOK, ShapesOK, Next,
           NEW l \in Lines, LineInv(l), NEW r \in Requests, job'[r] # job[r]
    PROVE  ReadTrue(r, l)'
<1>2. ASSUME NEW q \in Requests, NEW j, job' = [job EXCEPT ![q] = j]
      PROVE  q = r /\ job'[r] = j
  BY <1>2 DEF TypeOK
<1>3. job'[r] = None => ReadTrue(r, l)'
  BY DEF ReadTrue, Running
<1>4. ASSUME NEW q \in Requests, Decide(q) \/ PayCommit(q) \/ Abort(q)
      PROVE  ReadTrue(r, l)'
  <2>1. PICK j : j = None /\ job' = [job EXCEPT ![q] = j]
    BY <1>4 DEF Decide, PayCommit, Abort, Finish
  <2> QED BY <1>2, <1>3, <2>1
<1>5. ASSUME NEW q \in Requests, NEW S \in SUBSET Lines, BatchRead(q, S)
      PROVE  ReadTrue(r, l)'
  <2>1. PICK j : j = [op |-> "decide", lines |-> Undecided, discount |-> 0,
                     rejected |-> S \cup {k \in Undecided : Amount[k] <= MoneyEps}]
    OBVIOUS
  <2>2. job' = [job EXCEPT ![q] = j] /\ j.op = "decide" /\ j.lines = Undecided
    BY <1>5, <2>1 DEF BatchRead, Start
  <2>3. job'[r] = j /\ kase' = kase
    BY <1>2, <1>5, <2>2 DEF BatchRead
  <2> QED BY <2>2, <2>3 DEF ReadTrue, Running, Undecided
<1>6. ASSUME NEW q \in Requests, NEW k \in Lines, NEW b \in BOOLEAN, NEW d \in Discounts,
             SingleRead(q, k, b, d)
      PROVE  ReadTrue(r, l)'
  <2>1. PICK j : j = [op |-> "decide", lines |-> {k}, discount |-> d,
                     rejected |-> IF b THEN {} ELSE {k}]
    OBVIOUS
  <2>2. job' = [job EXCEPT ![q] = j] /\ j.op = "decide" /\ j.lines = {k}
    BY <1>6, <2>1 DEF SingleRead, Start
  <2>3. job'[r] = j /\ kase' = kase /\ k \in Undecided
    BY <1>2, <1>6, <2>2 DEF SingleRead
  <2> QED BY <2>2, <2>3 DEF ReadTrue, Running, Undecided
<1>7. ASSUME NEW q \in Requests, NEW a \in Tenders, PayRead(q, a) PROVE ReadTrue(r, l)'
  <2>1. PICK targets \in SUBSET Entries : Start(q, Payment(a, targets))
    BY <1>7 DEF PayRead, Owing, Open, Issued
  <2>2. PICK j : j = Payment(a, targets)
    OBVIOUS
  <2>3. job' = [job EXCEPT ![q] = j] /\ j.op = "pay" /\ j.at = None
        /\ \A e \in Entries : j.wrote[e] = None
    BY <2>1, <2>2 DEF Start, Payment
  <2>4. job'[r] = j
    BY <1>2, <2>3
  <2> QED BY <2>3, <2>4, NoneAssumption DEF ReadTrue, Running, Of, Issued
<1>8. ASSUME NEW q \in Requests, Look(q) PROVE ReadTrue(r, l)'
  <2>1. PICK e \in job[q].todo, j \in Payments :
             /\ job' = [job EXCEPT ![q] = j]
             /\ e \in Issued /\ \A f \in job[q].todo : e <= f
             /\ \/ /\ ledger[e].balance = 0
                   /\ j = [job[q] EXCEPT !.todo = @ \ {e}]
                \/ /\ ledger[e].balance # 0
                   /\ j = [job[q] EXCEPT !.at = e, !.due = ledger[e].balance]
    BY <1>8, LookJob
  <2>2. q = r /\ job'[r] = j
    BY <1>2, <2>1
  <2>3. Running(r, "pay") /\ ledger' = ledger
    BY <1>8, <2>2 DEF Look, More
  <2>4. PICK k \in Payments : k = job[r]
    BY <2>3, JobType
  <2>5. /\ j.wrote = k.wrote /\ j.op = "pay"
        /\ (j.at = k.at /\ j.due = k.due) \/ (j.at = e /\ j.due = ledger[e].balance)
    <3>1. \/ j = [k EXCEPT !.todo = k.todo \ {e}]
          \/ j = [k EXCEPT !.at = e, !.due = ledger[e].balance]
      BY <2>1, <2>2, <2>4
    <3> QED BY <3>1 DEF Payments
  <2>6. Of(l)' = Of(l)
    BY <2>3 DEF Of, Issued
  <2> QED BY <2>2, <2>3, <2>4, <2>5, <2>6 DEF LineInv, ReadTrue, Running
<1>9. ASSUME NEW q \in Requests, Credit(q) PROVE ReadTrue(r, l)'
  <2>1. PICK j \in Payments, u \in Updates :
             /\ job' = [job EXCEPT ![q] = j]
             /\ job[q].at \in Entries
             /\ u.balance + u.paid = job[q].due
             /\ j.todo = job[q].todo \ {job[q].at}
             /\ j.tendered = job[q].tendered /\ j.left = job[q].left - u.paid
             /\ j.at = None
             /\ j.wrote = [job[q].wrote EXCEPT ![job[q].at] = u]
    BY <1>9, CreditJob
  <2>2. q = r /\ job'[r] = j
    BY <1>2, <2>1
  <2>3. Running(r, "pay") /\ ledger' = ledger
    BY <1>9, <2>2 DEF Credit
  <2>4. PICK k \in Payments : k = job[r]
    BY <2>3, JobType
  <2>5. \A e \in Entries : j.wrote[e] = IF e = k.at THEN u ELSE k.wrote[e]
    BY <2>1, <2>2, <2>4 DEF Payments
  <2>6. Of(l)' = Of(l) /\ Of(l) \subseteq Entries
    BY <2>3 DEF Of, Issued
  <2>7. j.op = "pay" /\ \A e \in Entries : j.at # e
    BY <2>1, NoneAssumption DEF Payments
  <2>8. u.balance + u.paid = k.due
    BY <2>1, <2>2, <2>4
  <2>9. \A e \in Of(l) : /\ k.at = e => k.due = ledger[e].balance
                         /\ k.wrote[e] # None =>
                               k.wrote[e].balance + k.wrote[e].paid = ledger[e].balance
    BY <2>3, <2>4 DEF LineInv, ReadTrue
  <2>10. \A e \in Of(l) : j.wrote[e] # None =>
                              j.wrote[e].balance + j.wrote[e].paid = ledger[e].balance
    BY <2>5, <2>6, <2>8, <2>9
  <2> QED BY <2>2, <2>3, <2>6, <2>7, <2>10 DEF ReadTrue, Running
<1>10. ASSUME NEW S \in SUBSET Lines, Stage(S) PROVE ReadTrue(r, l)'
  BY <1>10 DEF Stage
<1> QED
  BY <1>4, <1>5, <1>6, <1>7, <1>8, <1>9, <1>10 DEF Next, Manage, Collect

\* Nothing is recorded for an entry before it exists.
LEMMA FreshStep ==
    ASSUME TypeOK, PaymentsOK, \A e \in Entries \ Issued : collected[e] = 0, Next
    PROVE  \A e \in Entries \ Issued' : collected'[e] = 0
<1> SUFFICES ASSUME NEW e \in Entries, ledger'[e] = None PROVE collected'[e] = 0
  BY DEF Issued
<1>1. ledger[e] = None
  BY GrowsStep DEF Grows, Issued
<1>2. ASSUME NEW r \in Requests, PayCommit(r) PROVE collected'[e] = collected[e]
  BY <1>1, <1>2, CommitLedger DEF Backed, Issued
<1>3. collected' = collected \/ \E r \in Requests : PayCommit(r)
  BY DEF Next, Manage, Collect, Stage, BatchRead, SingleRead, Decide, PayRead, Look,
         Credit, Abort
<1> QED BY <1>1, <1>2, <1>3 DEF Issued

\* Lines whose requests come one after the other stay exact.
LEMMA LinesAlways == Spec => []LinesOK
<1>1. Init => LinesOK
  <2> SUFFICES ASSUME Init PROVE LinesOK
    OBVIOUS
  <2>1. \A r \in Requests : job[r] = None
    BY DEF Init
  <2>2. Issued = {} /\ \A e \in Entries : collected[e] = 0
    BY DEF Init, Issued
  <2>3. \A l : Of(l) = {}
    BY <2>2 DEF Of
  <2>4. \A l : \A r \in Requests : ReadTrue(r, l) /\ ~Handles(r, l)
    BY <2>1 DEF ReadTrue, Handles, Running
  <2> QED BY <2>2, <2>3, <2>4 DEF LinesOK, LineInv, Single, LineExact
<1>2. DebtInv /\ DebtInv' /\ ShapesOK /\ ShapesOK' /\ LinesOK /\ Next => LinesOK'
  <2> SUFFICES ASSUME DebtInv, DebtInv', ShapesOK, ShapesOK', LinesOK, Next
               PROVE  LinesOK'
    OBVIOUS
  <2>1. TypeOK /\ TypeOK' /\ PaymentsOK /\ PaymentsOK'
    BY DEF DebtInv
  <2>2. ASSUME NEW l \in Lines \ contended' PROVE LineInv(l)'
    <3>1. LineInv(l)
      BY DEF LinesOK, Next
    <3>2. LineExact(l)'
      BY <2>1, <3>1, LineExactStep DEF LinesOK
    <3>3. \A r \in Requests : ReadTrue(r, l)'
      BY <2>1, <3>1, OldReadTrue, NewReadTrue
    <3>4. Single(l)'
      BY DEF Next, Single
    <3> QED BY <3>2, <3>3, <3>4 DEF LineInv
  <2>3. \A e \in Entries \ Issued' : collected'[e] = 0
    BY <2>1, FreshStep DEF LinesOK
  <2> QED BY <2>2, <2>3 DEF LinesOK
<1>3. LinesOK /\ UNCHANGED vars => LinesOK'
  BY DEF vars, LinesOK, LineInv, Single, LineExact, ReadTrue, Of, Issued, Handles, Held,
         Running
<1> QED BY <1>1, <1>2, <1>3, DebtInvariant, ShapesAlways, PTL DEF Spec

\* A line whose requests come one after the other becomes at most one receivable, of
\* which exactly what was paid is gone.
THEOREM OneAtATime == Spec => []OneAtATimeIsExact
<1>1. LinesOK => OneAtATimeIsExact
  BY DEF LinesOK, LineInv, LineExact, Of, OneAtATimeIsExact
<1> QED BY <1>1, LinesAlways, PTL

=============================================================================
