------------------------- MODULE CounterSaleProofs -------------------------
(***************************************************************************)
(* What holds of the counter for any orders, totals, stock, cashiers and   *)
(* number of overlapping requests.  What a settlement in hand has worked   *)
(* out stays good however long it waits: payments and decisions of an      *)
(* order only grow, and goods once released are not taken back.  Receipt   *)
(* numbers are never shared, and skip none while requests do not meet.     *)
(* An approval fits the balance of its case, and an order whose requests   *)
(* never met is paid, approved and handed out exactly once.  Goods only    *)
(* change hands: what a delivery brought is on the shelf or was taken.     *)
(***************************************************************************)
EXTENDS Stockroom, SumProofs

\* Money n and one approved discount of the decisions ds make up the total t.
Full(t, ds, n) ==
    \/ t <= n
    \/ \E i \in DOMAIN ds : ds[i].kind # "REJECT" /\ t <= n + ds[i].discount

\* Money n with the discount and the receivable of one approval make it up.
Partial(t, ds, n) ==
    \E i \in DOMAIN ds :
        ds[i].kind # "REJECT" /\ t <= n + (ds[i].discount + ds[i].ar)

Released(o) == o \in Slips => order[o].released

\* What a request holds is still true.  A decision is on a case; a settlement
\* that has read the order saw no more than is paid; one about to commit covers
\* the order, and takes the goods of an order that it pays or releases unless
\* they are taken.
Fits(j) ==
    /\ j.op = "decide" => kase[j.order] # None
    /\ j.op = "settle" =>
          /\ j.seen <= paid[j.order]
          /\ j.released => Released(j.order)
    /\ j.op = "pay" =>
          LET n == paid[j.order] + j.applied IN
          /\ j.owed = 0 => j.takes /\ Full(Total[j.order], decisions[j.order], n)
          /\ j.owed # 0 => Partial(Total[j.order], decisions[j.order], n)
          /\ j.release /\ ~j.takes => Released(j.order)

JobsFit == \A r \in Requests : job[r] # None => Fits(job[r])

CounterInv == TypeOK /\ JobsFit /\ SaleCovered /\ GoodsFollowSettlement

-----------------------------------------------------------------------------
(* What is covered stays covered. *)

\* A sequence of decisions after one more, or none, was appended.
Grown(ds, es) == es = ds \/ \E row \in DecisionRows : es = Append(ds, row)

\* More money and more decisions cover no less.
LEMMA CoverGrows ==
    ASSUME NEW t \in Nat, NEW ds \in Seq(DecisionRows), NEW es \in Seq(DecisionRows),
           Grown(ds, es), NEW n \in Nat, NEW m \in Nat, n <= m
    PROVE  /\ Full(t, ds, n) => Full(t, es, m)
           /\ Partial(t, ds, n) => Partial(t, es, m)
<1>1. /\ DOMAIN ds \subseteq DOMAIN es
      /\ \A i \in DOMAIN ds : es[i] = ds[i]
  BY DEF Grown
<1>2. \A i \in DOMAIN ds : ds[i] \in DecisionRows
  OBVIOUS
<1>3. \A i \in DOMAIN ds : ds[i].discount \in Nat /\ ds[i].ar \in Nat
  BY <1>2 DEF DecisionRows
<1>4. Full(t, ds, n) => Full(t, es, m)
  BY <1>1, <1>3 DEF Full
<1>5. ASSUME Partial(t, ds, n) PROVE Partial(t, es, m)
  <2>1. PICK i \in DOMAIN ds : /\ ds[i].kind # "REJECT"
                              /\ t <= n + (ds[i].discount + ds[i].ar)
    BY <1>5 DEF Partial
  <2>2. t <= m + (ds[i].discount + ds[i].ar)
    BY <1>3, <2>1
  <2>3. i \in DOMAIN es /\ es[i] = ds[i]
    BY <1>1, <2>1
  <2> QED
    BY <2>1, <2>2, <2>3 DEF Partial
<1> QED
  BY <1>4, <1>5

\* The cover of a slip, by its status.
Covers(o) ==
    /\ order[o].status = "PAID" => Full(Total[o], decisions[o], paid[o])
    /\ order[o].status = "PARTIALLY_PAID" => Partial(Total[o], decisions[o], paid[o])

\* SaleCovered in those words.
LEMMA CoveredAsCover ==
    ASSUME TypeOK
    PROVE  SaleCovered <=>
             /\ \A o \in Orders \ Slips : paid[o] = 0
             /\ \A o \in Slips : Covers(o)
<1>1. \A o \in Orders : paid[o] \in Nat
  BY DEF TypeOK
<1>2. \A o \in Orders : paid[o] + 0 = paid[o]
  BY <1>1
<1>3. Slips \subseteq Orders
  BY DEF Slips
<1> QED
  BY <1>2, <1>3, Zenon DEF SaleCovered, Covers, Full, Partial

-----------------------------------------------------------------------------
(* Jobs *)

Settlings == [op : {"settle"}, order : Orders, seen : Nat, released : BOOLEAN,
              given : Nat, release : BOOLEAN]

Payings == [op : {"pay"}, order : Orders, applied : Nat, owed : Nat,
            release : BOOLEAN, takes : BOOLEAN]

\* The job of a request, by its kind.
LEMMA JobType ==
    ASSUME TypeOK, NEW r \in Requests, job[r] # None
    PROVE  /\ job[r] \in Jobs /\ job[r].order \in Orders
           /\ Running(r, "settle") => job[r] \in Settlings
           /\ Running(r, "pay") => job[r] \in Payings
           /\ Running(r, "send") => job[r].snapshot \in Nat
           /\ Running(r, "claim") => job[r].cashier \in Cashiers
           /\ Running(r, "decide") => job[r].choice \in Nat \cup {None}
<1>1. job[r] \in Jobs
  BY DEF TypeOK
<1> QED
  BY <1>1 DEF Jobs, Settlings, Payings, Running

\* Payments, decisions, cases and goods taken only grow; a deleted order stays
\* deleted and what was released stays released.
Grows ==
    \A o \in Orders :
        /\ paid[o] <= paid'[o]
        /\ Grown(decisions[o], decisions'[o])
        /\ taken[o] <= taken'[o]
        /\ kase[o] # None => kase'[o] # None
        /\ order'[o] # None =>
              order[o] # None /\ (order[o].released => order'[o].released)

\* Then what a request holds is still true.
LEMMA FitsGrows ==
    ASSUME TypeOK, TypeOK', Grows, NEW j \in Jobs, Fits(j)
    PROVE  Fits(j)'
<1>1. CASE j.op = "settle"
  <2>1. j.order \in Orders /\ j.seen \in Nat
    BY <1>1 DEF Jobs
  <2>2. paid[j.order] \in Nat /\ paid'[j.order] \in Nat /\ paid[j.order] <= paid'[j.order]
    BY <2>1 DEF TypeOK, Grows
  <2>3. Released(j.order) => Released(j.order)'
    BY <2>1 DEF Grows, Released, Slips
  <2> QED
    BY <1>1, <2>1, <2>2, <2>3 DEF Fits
<1>2. CASE j.op = "pay"
  <2>1. j \in Payings
    BY <1>2 DEF Jobs, Payings
  <2>2. j.order \in Orders /\ j.applied \in Nat
    BY <2>1 DEF Payings
  <2>3. PICK o \in Orders : o = j.order
    BY <2>2
  <2>4. paid[o] \in Nat /\ paid'[o] \in Nat /\ paid[o] <= paid'[o] /\ Total[o] \in Nat
    BY SaleAssumption DEF TypeOK, Grows
  <2>5. /\ decisions[o] \in Seq(DecisionRows) /\ decisions'[o] \in Seq(DecisionRows)
        /\ Grown(decisions[o], decisions'[o])
    BY DEF TypeOK, Grows
  <2>6. /\ paid[o] + j.applied \in Nat /\ paid'[o] + j.applied \in Nat
        /\ paid[o] + j.applied <= paid'[o] + j.applied
    BY <2>2, <2>4
  <2>7. /\ Full(Total[o], decisions[o], paid[o] + j.applied)
             => Full(Total[o], decisions'[o], paid'[o] + j.applied)
        /\ Partial(Total[o], decisions[o], paid[o] + j.applied)
             => Partial(Total[o], decisions'[o], paid'[o] + j.applied)
    BY <2>4, <2>5, <2>6, CoverGrows
  <2>8. Released(o) => Released(o)'
    BY DEF Grows, Released, Slips
  <2> QED
    BY <1>2, <2>3, <2>7, <2>8, Zenon DEF Fits, Full, Partial
<1>3. CASE j.op = "decide"
  BY <1>3 DEF Fits, Jobs, Grows
<1>4. CASE j.op \notin {"settle", "pay", "decide"}
  BY <1>4 DEF Fits
<1> QED
  BY <1>1, <1>2, <1>3, <1>4

-----------------------------------------------------------------------------
(* Steps *)

\* No slip is paid, released or deleted with money on it.
Calm ==
    \A o \in Orders :
        /\ order'[o] # None =>
              /\ order'[o].status = order[o].status
              /\ order'[o].released = order[o].released
        /\ order'[o] = None => paid'[o] = 0

\* A job that has changed is a new one, and true.
NewJobsFit ==
    \A q \in Requests :
        \/ job'[q] \in {job[q], None}
        \/ \E j \in Jobs : job'[q] = j /\ Fits(j)

\* The requests in flight, and a new one, still hold what is true.
LEMMA JobsStay ==
    ASSUME TypeOK, TypeOK', JobsFit, Grows, NewJobsFit
    PROVE  JobsFit'
<1> SUFFICES ASSUME NEW q \in Requests, job'[q] # None
             PROVE  Fits(job[q])'
  BY DEF JobsFit
<1>1. PICK j \in Jobs : job'[q] = j /\ Fits(j)
  BY JobType DEF NewJobsFit, JobsFit
<1>2. Fits(j)'
  BY <1>1, FitsGrows
<1> QED
  BY <1>1, <1>2

\* A step that settles nothing keeps the invariant.
LEMMA CalmKeeps ==
    ASSUME CounterInv, TypeOK', Grows, Calm, NewJobsFit
    PROVE  CounterInv'
<1>1. JobsFit'
  BY JobsStay DEF CounterInv
<1>2. SaleCovered'
  <2>1. /\ \A o \in Orders \ Slips : paid[o] = 0
        /\ \A o \in Slips : Covers(o)
    BY CoveredAsCover DEF CounterInv
  <2>2. \A o \in (Orders \ Slips)' : paid'[o] = 0
    BY DEF Calm, Slips
  <2>3. ASSUME NEW o \in Slips' PROVE Covers(o)'
    <3>1. o \in Orders /\ order'[o] # None /\ order[o] # None
      BY DEF Slips, Grows
    <3>2. order'[o].status = order[o].status
      BY <3>1 DEF Calm
    <3>3. Covers(o)
      BY <2>1, <3>1 DEF Slips
    <3>4. /\ paid[o] \in Nat /\ paid'[o] \in Nat /\ paid[o] <= paid'[o]
          /\ Total[o] \in Nat
          /\ decisions[o] \in Seq(DecisionRows) /\ decisions'[o] \in Seq(DecisionRows)
          /\ Grown(decisions[o], decisions'[o])
      BY <3>1, SaleAssumption DEF CounterInv, TypeOK, Grows
    <3>5. /\ Full(Total[o], decisions[o], paid[o])
               => Full(Total[o], decisions'[o], paid'[o])
          /\ Partial(Total[o], decisions[o], paid[o])
               => Partial(Total[o], decisions'[o], paid'[o])
      BY <3>4, CoverGrows
    <3> QED
      BY <3>2, <3>3, <3>5, Zenon DEF Covers, Full, Partial
  <2>4. \A o \in Orders : paid'[o] + 0 = paid'[o]
    BY DEF TypeOK
  <2>5. Slips' \subseteq Orders
    BY DEF Slips
  <2> QED
    BY <2>2, <2>3, <2>4, <2>5, Zenon DEF SaleCovered, Covers, Full, Partial
<1>3. GoodsFollowSettlement'
  <2> SUFFICES ASSUME NEW o \in Slips', order'[o].status = "PAID" \/ order'[o].released
               PROVE  taken'[o] > 0
    BY DEF GoodsFollowSettlement
  <2>1. o \in Orders /\ order'[o] # None /\ order[o] # None
    BY DEF Slips, Grows
  <2>2. order[o].status = "PAID" \/ order[o].released
    BY <2>1 DEF Calm
  <2>3. taken[o] > 0
    BY <2>1, <2>2 DEF CounterInv, GoodsFollowSettlement, Slips
  <2> QED
    BY <2>1, <2>3 DEF Grows, CounterInv, TypeOK
<1> QED
  BY <1>1, <1>2, <1>3 DEF CounterInv

-----------------------------------------------------------------------------
(* Actions *)

Rows == <<order, paid, stock, counter, kase, decisions, taken>>

\* Rows that stay as they are grow, and settle nothing.
LEMMA SameRows ==
    ASSUME CounterInv, order' = order, paid' = paid, decisions' = decisions, taken' = taken,
           \A o \in Orders : kase[o] # None => kase'[o] # None
    PROVE  Grows /\ Calm
<1>1. \A o \in Orders : paid[o] \in Nat /\ taken[o] \in Nat
  BY DEF CounterInv, TypeOK
<1>2. Grows
  BY <1>1 DEF Grows, Grown
<1>3. Calm
  <2>1. \A o \in Orders : order[o] = None => paid[o] = 0
    BY DEF CounterInv, SaleCovered, Slips
  <2> QED
    BY <2>1 DEF Calm
<1> QED
  BY <1>2, <1>3

\* A request that begins, with a job that is true.
LEMMA StartKeeps ==
    ASSUME CounterInv, NEW r \in Requests, NEW j \in Jobs, Start(r, j), UNCHANGED Rows,
           Fits(j), contended' \in SUBSET Orders
    PROVE  CounterInv'
<1>1. job' = [job EXCEPT ![r] = j] /\ job \in [Requests -> Jobs \cup {None}]
  BY DEF Start, CounterInv, TypeOK
<1>2. TypeOK'
  BY <1>1 DEF CounterInv, TypeOK, Rows
<1>3. NewJobsFit
  BY <1>1 DEF NewJobsFit
<1>4. Grows /\ Calm
  BY SameRows DEF Rows
<1> QED
  BY <1>2, <1>3, <1>4, CalmKeeps

\* A request that ends.
LEMMA FinishJob ==
    ASSUME TypeOK, NEW r \in Requests, Finish(r)
    PROVE  job' \in [Requests -> Jobs \cup {None}] /\ NewJobsFit
BY DEF TypeOK, Finish, NewJobsFit

\* What a request reads is true when it has read it.
LEMMA ReadKeeps ==
    ASSUME CounterInv, NEW r \in Requests, Read(r), contended' \in SUBSET Orders
    PROVE  CounterInv'
<1>1. \A o \in Orders : paid[o] \in Nat /\ Total[o] \in Nat
  BY SaleAssumption DEF CounterInv, TypeOK
<1>2. ASSUME NEW o \in Orders, NEW d \in Discounts \cup {None}, DecideRead(r, o, d)
      PROVE  CounterInv'
  <2>1. PICK j : j = [op |-> "decide", order |-> o, choice |-> d, linked |-> o \in Slips]
    OBVIOUS
  <2>2. j \in Jobs /\ Fits(j)
    <3>1. d \in Nat \cup {None} /\ kase[o] # None
      BY <1>2, SaleAssumption DEF DecideRead
    <3>2. j \in Jobs
      BY <2>1, <3>1 DEF Jobs
    <3> QED
      BY <2>1, <3>1, <3>2 DEF Fits
  <2>3. Start(r, j) /\ UNCHANGED Rows
    BY <1>2, <2>1 DEF DecideRead, Rows
  <2> QED
    BY <2>2, <2>3, StartKeeps
<1>3. ASSUME NEW o \in Orders, NEW c \in Cashiers, ClaimRead(r, c, o)
      PROVE  CounterInv'
  <2>1. PICK j : j = [op |-> "claim", order |-> o, cashier |-> c]
    OBVIOUS
  <2>2. j \in Jobs /\ Fits(j)
    BY <2>1 DEF Jobs, Fits
  <2>3. Start(r, j) /\ UNCHANGED Rows
    BY <1>3, <2>1 DEF ClaimRead, Rows
  <2> QED
    BY <2>2, <2>3, StartKeeps
<1>4. ASSUME NEW o \in Orders, NEW c \in Cashiers, DeleteRead(r, c, o)
      PROVE  CounterInv'
  <2>1. PICK j : j = [op |-> "delete", order |-> o]
    OBVIOUS
  <2>2. j \in Jobs /\ Fits(j)
    BY <2>1 DEF Jobs, Fits
  <2>3. Start(r, j) /\ UNCHANGED Rows
    BY <1>4, <2>1 DEF DeleteRead, Rows
  <2> QED
    BY <2>2, <2>3, StartKeeps
<1>5. ASSUME NEW o \in Orders, NEW c \in Cashiers, NEW n \in Cash, SendRead(r, c, o, n)
      PROVE  CounterInv'
  <2>1. PICK s : s = paid[o] + Smaller(n, Positive(Total[o] - paid[o]))
    OBVIOUS
  <2>2. s \in Nat
    BY <1>1, <2>1, SaleAssumption DEF Smaller, Positive
  <2>3. PICK j : j = [op |-> "send", order |-> o, snapshot |-> s]
    OBVIOUS
  <2>4. j \in Jobs /\ Fits(j)
    BY <2>2, <2>3 DEF Jobs, Fits
  <2>5. Start(r, j) /\ UNCHANGED Rows
    BY <1>5, <2>1, <2>3 DEF SendRead, Rows
  <2> QED
    BY <2>4, <2>5, StartKeeps
<1>6. ASSUME NEW o \in Orders, NEW c \in Cashiers, NEW n \in Cash, NEW b \in BOOLEAN,
             SettleRead(r, c, o, n, b)
      PROVE  CounterInv'
  <2>1. o \in Slips /\ order[o] \in OrderRows
    BY <1>6 DEF SettleRead, Payable, Slips, CounterInv, TypeOK
  <2>2. PICK j : j = [op |-> "settle", order |-> o, seen |-> paid[o],
                      released |-> order[o].released, given |-> n, release |-> b]
    OBVIOUS
  <2>3. j \in Jobs
    BY <1>1, <2>1, <2>2, SaleAssumption DEF Jobs, OrderRows
  <2>4. Fits(j)
    BY <1>1, <2>2 DEF Fits, Released
  <2>5. Start(r, j) /\ UNCHANGED Rows
    BY <1>6, <2>2 DEF SettleRead, Rows
  <2> QED
    BY <2>3, <2>4, <2>5, StartKeeps
<1> QED
  BY <1>2, <1>3, <1>4, <1>5, <1>6 DEF Read

\* A lock, taken or given up, changes nothing else of an order.
LEMMA LockChange ==
    ASSUME CounterInv, NEW o \in Slips, NEW l \in Cashiers \cup {None},
           order' = [order EXCEPT ![o].lock = l],
           paid' = paid, decisions' = decisions, taken' = taken, kase' = kase
    PROVE  order' \in [Orders -> OrderRows \cup {None}] /\ Grows /\ Calm
<1>1. \A p \in Orders : paid[p] \in Nat /\ taken[p] \in Nat
  BY DEF CounterInv, TypeOK
<1>2. order[o] \in OrderRows /\ order \in [Orders -> OrderRows \cup {None}]
  BY DEF Slips, CounterInv, TypeOK
<1>3. [order[o] EXCEPT !.lock = l] \in OrderRows
  BY <1>2 DEF OrderRows
<1>4. /\ [order[o] EXCEPT !.lock = l].status = order[o].status
      /\ [order[o] EXCEPT !.lock = l].released = order[o].released
  BY <1>2 DEF OrderRows
<1>5. order' = [order EXCEPT ![o] = [order[o] EXCEPT !.lock = l]]
  OBVIOUS
<1>6. order' \in [Orders -> OrderRows \cup {None}]
  BY <1>2, <1>3, <1>5
<1>7. \A p \in Orders : order[p] = None => paid[p] = 0
  BY DEF CounterInv, SaleCovered, Slips
<1>8. \A p \in Orders : order'[p] # None => order[p] # None
                           /\ order'[p].status = order[p].status
                           /\ order'[p].released = order[p].released
  BY <1>2, <1>4, <1>5 DEF Slips
<1>9. \A p \in Orders : order'[p] = None => order[p] = None
  BY <1>2, <1>3, <1>5, NoneAssumption
<1>10. Grows
  BY <1>1, <1>8 DEF Grows, Grown
<1>11. Calm
  BY <1>7, <1>8, <1>9 DEF Calm
<1> QED
  BY <1>6, <1>10, <1>11

\* A claim overwrites a lock, or finds the slip deleted.
LEMMA ClaimKeeps ==
    ASSUME CounterInv, NEW r \in Requests, Claim(r), contended' \in SUBSET Orders
    PROVE  CounterInv'
<1>1. /\ job' \in [Requests -> Jobs \cup {None}] /\ NewJobsFit
  BY FinishJob DEF CounterInv, Claim
<1>2. /\ paid' = paid /\ decisions' = decisions /\ taken' = taken
      /\ stock' = stock /\ counter' = counter /\ kase' = kase
  BY DEF Claim
<1>3. order' \in [Orders -> OrderRows \cup {None}] /\ Grows /\ Calm
  <2>1. CASE job[r].order \in Slips
    <3>1. Running(r, "claim") /\ job[r] # None
      BY DEF Claim, Running
    <3>2. PICK o \in Slips : o = job[r].order
      BY <2>1
    <3>3. PICK c \in Cashiers : c = job[r].cashier
      BY <3>1, JobType DEF CounterInv
    <3>4. order' = [order EXCEPT ![o].lock = c]
      BY <2>1, <3>2, <3>3 DEF Claim
    <3> QED
      BY <1>2, <3>4, LockChange
  <2>2. CASE job[r].order \notin Slips
    <3>1. order' = order
      BY <2>2 DEF Claim
    <3> QED
      BY <1>2, <3>1, SameRows DEF CounterInv, TypeOK
  <2> QED
    BY <2>1, <2>2
<1>4. TypeOK'
  BY <1>1, <1>2, <1>3 DEF CounterInv, TypeOK
<1> QED
  BY <1>1, <1>3, <1>4, CalmKeeps

\* A lock released or expired under a request in flight costs it nothing it relies on.
LEMMA UnlockKeeps ==
    ASSUME CounterInv, NEW o \in Orders, Unlock(o), contended' \in SUBSET Orders
    PROVE  CounterInv'
<1>1. /\ paid' = paid /\ decisions' = decisions /\ taken' = taken /\ job' = job
      /\ stock' = stock /\ counter' = counter /\ kase' = kase
      /\ o \in Slips /\ order' = [order EXCEPT ![o].lock = None]
  BY DEF Unlock
<1>2. order' \in [Orders -> OrderRows \cup {None}] /\ Grows /\ Calm
  BY <1>1, LockChange
<1>3. TypeOK'
  BY <1>1, <1>2 DEF CounterInv, TypeOK
<1> QED
  BY <1>1, <1>2, <1>3, CalmKeeps DEF NewJobsFit

\* A delete whose reads are stale fails on the key of a payment.
LEMMA DeleteKeeps ==
    ASSUME CounterInv, NEW r \in Requests, Delete(r), contended' \in SUBSET Orders
    PROVE  CounterInv'
<1>1. /\ job' \in [Requests -> Jobs \cup {None}] /\ NewJobsFit
  BY FinishJob DEF CounterInv, Delete
<1>2. /\ paid' = paid /\ decisions' = decisions /\ taken' = taken
      /\ stock' = stock /\ counter' = counter /\ kase' = kase
  BY DEF Delete
<1>3. PICK o \in Orders : o = job[r].order
  BY JobType DEF CounterInv, Delete, Running
<1>4. order' = order \/ (paid[o] = 0 /\ order' = [order EXCEPT ![o] = None])
  BY <1>3 DEF Delete, NoPaymentRefers
<1>5. /\ order' \in [Orders -> OrderRows \cup {None}]
      /\ \A p \in Orders : order'[p] = order[p] \/ (order'[p] = None /\ paid[p] = 0)
  BY <1>4 DEF CounterInv, TypeOK
<1>6. \A p \in Orders : paid[p] \in Nat /\ taken[p] \in Nat
  BY DEF CounterInv, TypeOK
<1>7. \A p \in Orders : order[p] = None => paid[p] = 0
  BY DEF CounterInv, SaleCovered, Slips
<1>8. Grows
  BY <1>2, <1>5, <1>6 DEF Grows, Grown
<1>9. Calm
  BY <1>2, <1>5, <1>7 DEF Calm
<1>10. TypeOK'
  BY <1>1, <1>2, <1>5 DEF CounterInv, TypeOK
<1> QED
  BY <1>1, <1>8, <1>9, <1>10, CalmKeeps

\* A case is created once and its snapshot is never negative.
LEMMA SendKeeps ==
    ASSUME CounterInv, NEW r \in Requests, Send(r), contended' \in SUBSET Orders
    PROVE  CounterInv'
<1>1. /\ job' \in [Requests -> Jobs \cup {None}] /\ NewJobsFit
  BY FinishJob DEF CounterInv, Send
<1>2. UNCHANGED <<order, paid, stock, counter, decisions, taken>>
  BY DEF Send
<1>3. job[r].order \in Orders /\ job[r].snapshot \in Nat
  BY JobType DEF CounterInv, Send, Running
<1>4. /\ kase' \in [Orders -> Kases \cup {None}]
      /\ \A o \in Orders : kase[o] # None => kase'[o] # None
  BY <1>3 DEF Send, CounterInv, TypeOK, Kases
<1>5. TypeOK'
  BY <1>1, <1>2, <1>4 DEF CounterInv, TypeOK
<1>6. Grows /\ Calm
  BY <1>2, <1>4, SameRows
<1> QED
  BY <1>1, <1>5, <1>6, CalmKeeps

\* What a decision records is one of its rows.
LEMMA OutcomeType ==
    ASSUME NEW b \in Nat, NEW c \in Nat \cup {None}
    PROVE  Outcome(b, c) \in DecisionRows
<1>1. CASE c = None
  BY <1>1 DEF Outcome, DecisionRows, Kinds
<1>2. CASE c # None
  <2>1. PICK d : d = Smaller(b, c)
    OBVIOUS
  <2>2. d \in Nat /\ b - d \in Nat
    BY <1>2, <2>1 DEF Smaller
  <2> QED
    BY <1>2, <2>1, <2>2, SaleAssumption DEF Outcome, DecisionRows, Kinds
<1> QED
  BY <1>1, <1>2

\* A decision is added to those there are, also a second one.
LEMMA DecideKeeps ==
    ASSUME CounterInv, NEW r \in Requests, Decide(r), contended' \in SUBSET Orders
    PROVE  CounterInv'
<1>1. /\ job' \in [Requests -> Jobs \cup {None}] /\ NewJobsFit
  BY FinishJob DEF CounterInv, Decide
<1>2. UNCHANGED <<order, paid, stock, counter, taken>>
  BY DEF Decide
<1>3. PICK o \in Orders : o = job[r].order
  BY JobType DEF CounterInv, Decide, Running
<1>4. job[r].choice \in Nat \cup {None} /\ kase[o] \in Kases
  BY <1>3, JobType DEF CounterInv, JobsFit, Fits, TypeOK, Decide, Running
<1>5. PICK row : row = Outcome(Balance(o), job[r].choice)
  OBVIOUS
<1>6. row \in DecisionRows
  <2>1. Balance(o) \in Nat
    BY <1>4, SaleAssumption DEF Balance, Positive, Kases
  <2> QED
    BY <1>4, <1>5, <2>1, OutcomeType
<1>7. \/ UNCHANGED <<decisions, kase>>
      \/ /\ decisions' = [decisions EXCEPT ![o] = Append(@, row)]
         /\ kase' = [kase EXCEPT ![o] = [kase[o] EXCEPT !.status = "DECIDED"]]
  BY <1>3, <1>5 DEF Decide
<1>8. [kase[o] EXCEPT !.status = "DECIDED"] \in Kases
  BY <1>4 DEF Kases
<1>9. /\ decisions' \in [Orders -> Seq(DecisionRows)]
      /\ \A p \in Orders : Grown(decisions[p], decisions'[p])
  <2>1. decisions \in [Orders -> Seq(DecisionRows)]
    BY DEF CounterInv, TypeOK
  <2>2. Append(decisions[o], row) \in Seq(DecisionRows)
    BY <1>6, <2>1
  <2>3. CASE UNCHANGED <<decisions, kase>>
    BY <2>1, <2>3 DEF Grown
  <2>4. CASE decisions' = [decisions EXCEPT ![o] = Append(@, row)]
    <3>1. decisions' = [decisions EXCEPT ![o] = Append(decisions[o], row)]
      BY <2>4
    <3>2. \A p \in Orders :
             decisions'[p] = IF p = o THEN Append(decisions[o], row) ELSE decisions[p]
      BY <2>1, <3>1
    <3>3. decisions' \in [Orders -> Seq(DecisionRows)]
      BY <2>1, <2>2, <3>1
    <3> QED
      BY <1>6, <3>2, <3>3 DEF Grown
  <2> QED
    BY <1>7, <2>3, <2>4
<1>10. /\ kase' \in [Orders -> Kases \cup {None}]
       /\ \A p \in Orders : kase[p] # None => kase'[p] # None
  <2>1. kase \in [Orders -> Kases \cup {None}]
    BY DEF CounterInv, TypeOK
  <2>2. PICK k \in Kases : k = [kase[o] EXCEPT !.status = "DECIDED"]
    BY <1>8
  <2>3. kase' = kase \/ kase' = [kase EXCEPT ![o] = k]
    BY <1>7, <2>2
  <2> QED
    BY <2>1, <2>3, NoneAssumption
<1>11. TypeOK'
  BY <1>1, <1>2, <1>9, <1>10 DEF CounterInv, TypeOK
<1>12. Grows
  BY <1>2, <1>9, <1>10 DEF CounterInv, TypeOK, Grows
<1>13. Calm
  <2>1. \A p \in Orders : order[p] = None => paid[p] = 0
    BY DEF CounterInv, SaleCovered, Slips
  <2> QED
    BY <1>2, <2>1 DEF Calm
<1> QED
  BY <1>1, <1>11, <1>12, <1>13, CalmKeeps

-----------------------------------------------------------------------------
(* Settling *)

\* What the checks let through covers the order, and takes its goods unless they
\* are taken.
LEMMA CheckedFits ==
    ASSUME CounterInv, NEW r \in Requests, Running(r, "settle"), NEW o \in Orders,
           o = job[r].order, NEW applied, NEW owed, NEW takes, NEW remaining,
           applied = Applied(o, job[r].seen, job[r].given),
           remaining = Remaining(o, job[r].seen, job[r].given),
           owed = Owed(o, remaining),
           takes = WillDeduct(owed, job[r].release, job[r].released),
           Covered(o, remaining), NEW j,
           j = [op |-> "pay", order |-> o, applied |-> applied, owed |-> owed,
                release |-> job[r].release, takes |-> takes]
    PROVE  j \in Jobs /\ Fits(j)
<1>1. job[r] \in Settlings /\ Fits(job[r]) /\ job[r].op = "settle"
  BY JobType DEF CounterInv, JobsFit, Running
<1>2. PICK seen, given : seen = job[r].seen /\ given = job[r].given
  OBVIOUS
<1>3. /\ seen \in Nat /\ given \in Nat /\ paid[o] \in Nat /\ Total[o] \in Nat
      /\ seen <= paid[o]
  BY <1>1, <1>2, SaleAssumption DEF Settlings, Fits, CounterInv, TypeOK
<1>4. /\ applied \in Nat /\ remaining \in Nat
      /\ Total[o] <= seen + applied + remaining
  <2>1. PICK due : due = Positive(Total[o] - seen)
    OBVIOUS
  <2>2. due \in Nat /\ Total[o] <= seen + due
    BY <1>3, <2>1 DEF Positive
  <2>3. applied = Smaller(given, due)
    BY <1>2, <2>1 DEF Applied
  <2>4. applied \in Nat
    BY <1>3, <2>2, <2>3 DEF Smaller
  <2>5. remaining = Positive(Total[o] - seen - applied)
    BY <1>2 DEF Remaining, Applied
  <2> QED
    BY <1>3, <2>4, <2>5 DEF Positive
<1>5. PICK n : n = paid[o] + applied
  OBVIOUS
<1>6. n \in Nat /\ Total[o] <= n + remaining
  BY <1>3, <1>4, <1>5
<1>7. decisions[o] \in Seq(DecisionRows)
  BY DEF CounterInv, TypeOK
<1>8. PICK l : l = Latest(o)
  OBVIOUS
<1>9. /\ l \in DecisionRows
      /\ l.kind # "REJECT" => \E i \in DOMAIN decisions[o] : decisions[o][i] = l
  <2>1. CASE decisions[o] = <<>>
    BY <1>8, <2>1 DEF Latest, DecisionRows, Kinds
  <2>2. CASE decisions[o] # <<>>
    <3>1. l = decisions[o][Len(decisions[o])]
      BY <1>8, <2>2 DEF Latest
    <3>2. Len(decisions[o]) \in DOMAIN decisions[o]
      BY <1>7, <2>2
    <3> QED
      BY <1>7, <3>1, <3>2
  <2> QED
    BY <2>1, <2>2
<1>10. l.discount \in Nat /\ l.ar \in Nat
  BY <1>9 DEF DecisionRows
<1>11. owed = Smaller(Positive(remaining - l.discount), l.ar) /\ owed \in Nat
  BY <1>4, <1>8, <1>10 DEF Owed, Smaller, Positive
<1>12. takes \in BOOLEAN /\ (owed = 0 => takes)
       /\ (job[r].release /\ ~takes => Released(o))
  BY <1>1, <1>11 DEF WillDeduct, Settlings, Fits
<1>13. remaining > 0 =>
          l.kind # "REJECT" /\ remaining <= l.discount + l.ar
  BY <1>8 DEF Covered
<1>14. owed = 0 => Full(Total[o], decisions[o], n)
  <2>1. SUFFICES ASSUME owed = 0, remaining > 0
                 PROVE  Full(Total[o], decisions[o], n)
    BY <1>3, <1>4, <1>6 DEF Full
  <2>2. Total[o] <= n + l.discount
    <3>1. PICK d \in Nat, a \in Nat : d = l.discount /\ a = l.ar
      BY <1>10
    <3>2. remaining \in Nat /\ remaining <= d + a /\ Smaller(Positive(remaining - d), a) = 0
      BY <1>4, <1>11, <1>13, <2>1, <3>1
    <3>3. remaining <= d
      BY <3>2 DEF Smaller, Positive
    <3> QED
      BY <1>3, <1>6, <3>1, <3>2, <3>3
  <2>3. PICK i \in DOMAIN decisions[o] : decisions[o][i] = l
    BY <1>9, <1>13, <2>1
  <2> QED
    BY <1>13, <2>1, <2>2, <2>3 DEF Full
<1>15. owed # 0 => Partial(Total[o], decisions[o], n)
  <2>1. SUFFICES ASSUME owed # 0
                 PROVE  Partial(Total[o], decisions[o], n)
    OBVIOUS
  <2>2. remaining > 0
    BY <1>4, <1>10, <1>11, <2>1 DEF Smaller, Positive
  <2>3. Total[o] <= n + (l.discount + l.ar)
    BY <1>3, <1>4, <1>6, <1>10, <1>13, <2>2
  <2>4. PICK i \in DOMAIN decisions[o] : decisions[o][i] = l
    BY <1>9, <1>13, <2>2
  <2> QED
    BY <1>13, <2>2, <2>3, <2>4 DEF Partial
<1>16. j \in Jobs
  BY <1>1, <1>4, <1>11, <1>12 DEF Jobs, Settlings
<1>17. Fits(j)
  BY <1>5, <1>12, <1>14, <1>15, Zenon DEF Fits
<1> QED
  BY <1>16, <1>17

\* The checks of a settlement, which accept or refuse, write no row.
LEMMA CheckClearanceKeeps ==
    ASSUME CounterInv, NEW r \in Requests, CheckClearance(r), contended' \in SUBSET Orders
    PROVE  CounterInv'
<1>1. UNCHANGED Rows /\ Running(r, "settle")
  BY DEF CheckClearance, Rows
<1>2. PICK o \in Orders : o = job[r].order
  BY <1>1, JobType DEF CounterInv, Running
<1>3. PICK applied, remaining :
        /\ applied = Applied(o, job[r].seen, job[r].given)
        /\ remaining = Remaining(o, job[r].seen, job[r].given)
  OBVIOUS
<1>4. PICK owed : owed = Owed(o, remaining)
  OBVIOUS
<1>5. PICK takes : takes = WillDeduct(owed, job[r].release, job[r].released)
  OBVIOUS
<1>6. PICK j : j = [op |-> "pay", order |-> o, applied |-> applied, owed |-> owed,
                    release |-> job[r].release, takes |-> takes]
  OBVIOUS
<1>7. \/ Covered(o, remaining) /\ job' = [job EXCEPT ![r] = j]
      \/ Finish(r)
  BY <1>2, <1>3, <1>4, <1>5, <1>6 DEF CheckClearance
<1>8. job' \in [Requests -> Jobs \cup {None}] /\ NewJobsFit
  <2>1. CASE Finish(r)
    BY <2>1, FinishJob DEF CounterInv
  <2>2. CASE Covered(o, remaining) /\ job' = [job EXCEPT ![r] = j]
    <3>1. j \in Jobs /\ Fits(j)
      BY <1>1, <1>2, <1>3, <1>4, <1>5, <1>6, <2>2, CheckedFits
    <3> QED
      BY <2>2, <3>1 DEF CounterInv, TypeOK, NewJobsFit
  <2> QED
    BY <1>7, <2>1, <2>2
<1>9. TypeOK'
  BY <1>1, <1>8 DEF CounterInv, TypeOK, Rows
<1>10. Grows /\ Calm
  BY <1>1, SameRows DEF Rows
<1> QED
  BY <1>8, <1>9, <1>10, CalmKeeps

\* The commit of a settlement: what was worked out for the order is now true of
\* its rows, and every other order is left alone.
LEMMA PaidCovers ==
    ASSUME CounterInv, TypeOK', NEW o \in Slips, NEW applied \in Nat, NEW owed \in Nat,
           NEW release \in BOOLEAN, NEW takes \in BOOLEAN,
           paid' = [paid EXCEPT ![o] = @ + applied],
           taken' = IF takes THEN [taken EXCEPT ![o] = @ + 1] ELSE taken,
           order' = [order EXCEPT ![o] = Settled(@, owed, release)],
           decisions' = decisions,
           owed = 0 => takes /\ Full(Total[o], decisions[o], paid[o] + applied),
           owed # 0 => Partial(Total[o], decisions[o], paid[o] + applied),
           release /\ ~takes => Released(o)
    PROVE  SaleCovered' /\ GoodsFollowSettlement'
<1>1. /\ o \in Orders /\ order[o] \in OrderRows /\ order[o] # None
      /\ order \in [Orders -> OrderRows \cup {None}]
      /\ \A p \in Orders : paid[p] \in Nat /\ taken[p] \in Nat
      /\ paid \in [Orders -> Nat] /\ taken \in [Orders -> Nat]
  BY DEF Slips, CounterInv, TypeOK
<1>2. PICK row : row = Settled(order[o], owed, release)
  OBVIOUS
<1>3. /\ row.status = IF owed = 0 THEN "PAID" ELSE "PARTIALLY_PAID"
      /\ row.released = (order[o].released \/ release)
  BY <1>1, <1>2 DEF Settled, OrderRows
<1>4. \A p \in Orders : order'[p] = IF p = o THEN row ELSE order[p]
  BY <1>1, <1>2
<1>5. row \in OrderRows /\ row # None
  <2>1. NextReceipt \in Nat
    BY DEF NextReceipt, CounterInv, TypeOK
  <2>2. PICK old \in OrderRows : old = order[o]
    BY <1>1
  <2>3. row = Settled(old, owed, release)
    BY <1>2, <2>2
  <2>4. row \in OrderRows
    BY <1>1, <2>1, <2>3 DEF Settled, OrderRows
  <2> QED
    BY <2>4, NoneAssumption
<1>6. Slips' = Slips
  BY <1>1, <1>4, <1>5 DEF Slips
<1>7. paid'[o] = paid[o] + applied /\ \A p \in Orders \ {o} : paid'[p] = paid[p]
  BY <1>1
<1>8. /\ \A p \in Orders \ Slips : paid[p] = 0
      /\ \A p \in Slips : Covers(p)
  BY CoveredAsCover DEF CounterInv
<1>9. \A p \in (Orders \ Slips)' : paid'[p] = 0
  BY <1>6, <1>7, <1>8
<1>10. ASSUME NEW p \in Slips' PROVE Covers(p)'
  <2>1. CASE p = o
    <3>1. order'[o] = row
      BY <1>1, <1>4
    <3>2. /\ row.status = "PAID" => Full(Total[o], decisions[o], paid'[o])
          /\ row.status = "PARTIALLY_PAID" => Partial(Total[o], decisions[o], paid'[o])
      BY <1>3, <1>7
    <3> QED
      BY <2>1, <3>1, <3>2, Zenon DEF Covers, Full, Partial
  <2>2. CASE p # o
    <3>1. p \in Slips /\ p \in Orders
      BY <1>6 DEF Slips
    <3>2. order'[p] = order[p] /\ paid'[p] = paid[p]
      BY <1>4, <1>7, <2>2, <3>1
    <3>3. Covers(p)
      BY <1>8, <3>1
    <3> QED
      BY <3>2, <3>3, Zenon DEF Covers, Full, Partial
  <2> QED
    BY <2>1, <2>2
<1>11. SaleCovered'
  <2>1. \A p \in Orders : paid'[p] + 0 = paid'[p]
    BY DEF TypeOK
  <2>2. Slips' \subseteq Orders
    BY DEF Slips
  <2> QED
    BY <1>9, <1>10, <2>1, <2>2, Zenon DEF SaleCovered, Covers, Full, Partial
<1>12. GoodsFollowSettlement'
  <2>1. SUFFICES ASSUME NEW p \in Slips', order'[p].status = "PAID" \/ order'[p].released
                 PROVE  taken'[p] > 0
    BY DEF GoodsFollowSettlement
  <2>2. p \in Slips /\ p \in Orders
    BY <1>6 DEF Slips
  <2>3. \A q \in Orders : taken'[q] >= taken[q] /\ taken'[q] \in Nat
    BY <1>1
  <2>4. order[p].status = "PAID" \/ order[p].released => taken[p] > 0
    BY <2>2 DEF CounterInv, GoodsFollowSettlement
  <2>5. CASE p # o
    BY <1>1, <1>4, <2>1, <2>2, <2>3, <2>4, <2>5
  <2>6. CASE p = o
    <3>1. owed = 0 \/ order[o].released \/ release
      BY <1>1, <1>3, <1>4, <2>1, <2>6
    <3>2. CASE takes
      BY <1>1, <2>6, <3>2
    <3>3. CASE ~takes
      BY <1>1, <2>2, <2>3, <2>4, <2>6, <3>1, <3>3 DEF Released
    <3> QED
      BY <3>2, <3>3
  <2> QED
    BY <2>5, <2>6
<1> QED
  BY <1>11, <1>12

\* A settlement commits what it had worked out, or rolls back.
LEMMA SettleKeeps ==
    ASSUME CounterInv, NEW r \in Requests, Settle(r), contended' \in SUBSET Orders
    PROVE  CounterInv'
<1>1. /\ job' \in [Requests -> Jobs \cup {None}] /\ NewJobsFit
  BY FinishJob DEF CounterInv, Settle
<1>2. job[r] # None /\ job[r].op = "pay" /\ UNCHANGED <<kase, decisions>>
  BY DEF Settle, Running
<1>3. job[r] \in Payings /\ Fits(job[r])
  BY <1>2, JobType DEF CounterInv, JobsFit, Running
<1>4. PICK o \in Orders, applied \in Nat, owed \in Nat,
           release \in BOOLEAN, takes \in BOOLEAN :
        /\ o = job[r].order /\ applied = job[r].applied /\ owed = job[r].owed
        /\ release = job[r].release /\ takes = job[r].takes
  BY <1>3 DEF Payings
<1>5. /\ owed = 0 => takes /\ Full(Total[o], decisions[o], paid[o] + applied)
      /\ owed # 0 => Partial(Total[o], decisions[o], paid[o] + applied)
      /\ release /\ ~takes => Released(o)
  BY <1>2, <1>3, <1>4 DEF Fits
<1>6. \/ UNCHANGED <<order, paid, stock, counter, taken>>
      \/ /\ o \in Slips
         /\ paid' = [paid EXCEPT ![o] = @ + applied]
         /\ stock' = IF takes THEN [p \in Cells |-> stock[p] - Needs[o][p]] ELSE stock
         /\ taken' = IF takes THEN [taken EXCEPT ![o] = @ + 1] ELSE taken
         /\ counter' = IF owed = 0 THEN NextReceipt ELSE counter
         /\ order' = [order EXCEPT ![o] = Settled(@, owed, release)]
  BY <1>4, Zenon DEF Settle
<1>7. CASE UNCHANGED <<order, paid, stock, counter, taken>>
  <2>1. TypeOK'
    BY <1>1, <1>2, <1>7 DEF CounterInv, TypeOK
  <2>2. Grows /\ Calm
    BY <1>2, <1>7, SameRows
  <2> QED
    BY <1>1, <2>1, <2>2, CalmKeeps
<1>8. CASE o \in Slips /\ ~UNCHANGED <<order, paid, stock, counter, taken>>
  <2>1. /\ paid' = [paid EXCEPT ![o] = @ + applied]
        /\ stock' = IF takes THEN [p \in Cells |-> stock[p] - Needs[o][p]] ELSE stock
        /\ taken' = IF takes THEN [taken EXCEPT ![o] = @ + 1] ELSE taken
        /\ counter' = IF owed = 0 THEN NextReceipt ELSE counter
        /\ order' = [order EXCEPT ![o] = Settled(@, owed, release)]
    BY <1>6, <1>8
  <2>2. /\ order \in [Orders -> OrderRows \cup {None}] /\ order[o] \in OrderRows
        /\ NextReceipt \in Nat
        /\ paid \in [Orders -> Nat] /\ taken \in [Orders -> Nat]
    BY <1>8 DEF Slips, CounterInv, TypeOK, NextReceipt
  <2>3. PICK row : row = Settled(order[o], owed, release)
    OBVIOUS
  <2>4. row \in OrderRows /\ (order[o].released => row.released)
    BY <2>2, <2>3 DEF Settled, OrderRows
  <2>5. order' = [order EXCEPT ![o] = row]
    BY <2>1, <2>3
  <2>6. order' \in [Orders -> OrderRows \cup {None}]
    BY <2>2, <2>4, <2>5
  <2>7. stock' \in [Cells -> Int]
    <3>1. stock \in [Cells -> Int] /\ \A p \in Cells : Needs[o][p] \in Nat
      BY SaleAssumption DEF CounterInv, TypeOK
    <3>2. \A p \in Cells : stock[p] - Needs[o][p] \in Int
      BY <3>1
    <3> QED
      BY <2>1, <3>1, <3>2
  <2>8. /\ paid' \in [Orders -> Nat] /\ taken' \in [Orders -> Nat]
        /\ \A p \in Orders : paid[p] <= paid'[p] /\ taken[p] <= taken'[p]
    BY <2>1, <2>2
  <2>9. counter' \in Nat
    BY <2>1, <2>2 DEF CounterInv, TypeOK
  <2>10. TypeOK'
    BY <1>1, <1>2, <2>6, <2>7, <2>8, <2>9 DEF CounterInv, TypeOK
  <2>11. Grows
    <3>1. \A p \in Orders : order'[p] # None =>
             order[p] # None /\ (order[p].released => order'[p].released)
      BY <1>8, <2>2, <2>4, <2>5 DEF Slips
    <3> QED
      BY <1>2, <2>8, <3>1 DEF Grows, Grown
  <2>12. JobsFit'
    BY <1>1, <2>10, <2>11, JobsStay DEF CounterInv
  <2>13. SaleCovered' /\ GoodsFollowSettlement'
    BY <1>2, <1>5, <1>8, <2>1, <2>10, PaidCovers
  <2> QED
    BY <2>10, <2>12, <2>13 DEF CounterInv
<1> QED
  BY <1>6, <1>7, <1>8

-----------------------------------------------------------------------------
(* The theorems *)

\* The invariant holds before the first request.
LEMMA InitHolds == Init => CounterInv
<1> SUFFICES ASSUME Init PROVE CounterInv
  OBVIOUS
<1>1. TypeOK
  BY SaleAssumption DEF Init, TypeOK, OrderRows
<1>2. JobsFit
  BY DEF Init, JobsFit
<1>3. Slips = Orders /\ \A o \in Orders : order[o].status = "UNPAID" /\ ~order[o].released
  <2>1. PICK row : row = [status |-> "UNPAID", released |-> FALSE,
                          lock |-> None, receipt |-> 0]
    OBVIOUS
  <2>2. row \in OrderRows
    BY <2>1 DEF OrderRows
  <2>3. \A o \in Orders : order[o] = row
    BY <2>1 DEF Init
  <2>4. row # None
    BY <2>2, NoneAssumption
  <2>5. row.status = "UNPAID" /\ ~row.released
    BY <2>1
  <2> QED
    BY <2>3, <2>4, <2>5 DEF Slips
<1>4. SaleCovered /\ GoodsFollowSettlement
  <2>1. Orders \ Slips = {}
    BY <1>3
  <2>2. \A o \in Slips : order[o].status \notin {"PAID", "PARTIALLY_PAID"} /\ ~order[o].released
    BY <1>3
  <2>3. SaleCovered
    BY <2>1, <2>2 DEF SaleCovered
  <2>4. GoodsFollowSettlement
    BY <2>2 DEF GoodsFollowSettlement
  <2> QED
    BY <2>3, <2>4
<1> QED
  BY <1>1, <1>2, <1>4 DEF CounterInv

\* Every step of a request, and every loss of a lock, keeps it.
LEMMA StepKeeps == CounterInv /\ [Next]_vars => CounterInv'
<1> SUFFICES ASSUME CounterInv, [Next]_vars PROVE CounterInv'
  OBVIOUS
<1>1. CASE UNCHANGED vars
  BY <1>1 DEF vars, CounterInv, TypeOK, Slips, JobsFit, Fits, Full, Partial, Released,
              SaleCovered, GoodsFollowSettlement, OrderRows, Jobs
<1>2. CASE Next
  <2>1. contended' \in SUBSET Orders
    BY <1>2 DEF Next, CounterInv, TypeOK
  <2>2. CASE \E r \in Requests : Read(r) \/ Commit(r)
    <3>1. PICK r \in Requests : Read(r) \/ Commit(r)
      BY <2>2
    <3> QED
      BY <2>1, <3>1, ReadKeeps, ClaimKeeps, DeleteKeeps, SendKeeps, DecideKeeps,
         CheckClearanceKeeps, SettleKeeps DEF Commit
  <2>3. CASE \E o \in Orders : Unlock(o)
    BY <2>1, <2>3, UnlockKeeps
  <2> QED
    BY <1>2, <2>2, <2>3 DEF Next
<1> QED
  BY <1>1, <1>2

\* At any moment the rows cover each other, and what every request has read or
\* worked out of them is still true.
THEOREM CounterInvariant == Spec => []CounterInv
BY InitHolds, StepKeeps, PTL DEF Spec

\* However many settlements, decisions and deletions overlap, every row keeps its
\* shape: no payment, debt or sum that a request in flight holds is negative.
THEOREM CounterTypeCorrect == Spec => []TypeOK
<1>1. CounterInv => TypeOK
  BY DEF CounterInv
<1> QED
  BY <1>1, CounterInvariant, PTL

\* A paid slip is covered by cash and one approved discount, one paid in part by
\* that and the receivable of the same approval, and money stays with its slip.
THEOREM SaleIsCovered == Spec => []SaleCovered
<1>1. CounterInv => SaleCovered
  BY DEF CounterInv
<1> QED
  BY <1>1, CounterInvariant, PTL

\* No receipt is paid, and no goods released, without a transaction that took
\* the goods from the stock.
THEOREM GoodsWereTaken == Spec => []GoodsFollowSettlement
<1>1. CounterInv => GoodsFollowSettlement
  BY DEF CounterInv
<1> QED
  BY <1>1, CounterInvariant, PTL

-----------------------------------------------------------------------------
(* Receipt numbers.  As long as no two requests have met on a slip, what a  *)
(* settlement or a delete has read of its status is still so.               *)

\* A slip is only handled by one request, unless two have met on it.
Alone == \A o \in Orders \ contended : \A q, r \in Handling(o) : q = r

\* What a request has read of the status is then still so.
Held(r) ==
    job[r] # None /\ job[r].order \notin contended =>
        /\ job[r].op \in {"settle", "pay"} => Payable(job[r].order)
        /\ job[r].op = "delete" =>
              job[r].order \in Slips /\ order[job[r].order].status = "UNPAID"

Numbers == {order[o].receipt : o \in Slips}

SeriesInv ==
    /\ Alone
    /\ \A r \in Requests : Held(r)
    /\ \A o \in Slips : order[o].receipt <= counter
    /\ OfficialReceipts

\* The row of p keeps its place, its status and its number.
RowStays(p) ==
    /\ order'[p] = None <=> order[p] = None
    /\ order[p] # None =>
          order'[p].status = order[p].status /\ order'[p].receipt = order[p].receipt

\* The request r ends, and it was there to pay or delete p.
Ends(r, p) == job[r] # None /\ job[r].order = p /\ job'[r] = None

\* A job that is new, or has moved on from its checks.
Begins(q) ==
    /\ job'[q] # None
    /\ job'[q].op \in {"settle", "pay"} => \/ Payable(job'[q].order)
                                          \/ /\ job[q] # None /\ job[q].op = "settle"
                                             /\ job[q].order = job'[q].order
    /\ job'[q].op = "delete" =>
          job'[q].order \in Slips /\ order[job'[q].order].status = "UNPAID"

\* How a step moves the jobs and the rows.
Moves ==
    /\ \A p \in Orders : RowStays(p) \/ \E r \in Requests : Ends(r, p)
    /\ \A q \in Requests : job'[q] \in {job[q], None} \/ Begins(q)
    /\ \A q, r \in Requests : job'[q] # job[q] /\ job'[r] # job[r] => q = r
    /\ contended \subseteq contended'
    /\ Alone'

\* A request that is still there has its slip for itself, so its row has stayed.
LEMMA HeldStays ==
    ASSUME TypeOK, TypeOK', Alone, \A r \in Requests : Held(r), Moves,
           NEW q \in Requests
    PROVE  Held(q)'
<1> SUFFICES ASSUME job'[q] # None, job'[q].order \notin contended'
             PROVE  Held(q)'
  BY DEF Held
<1>1. PICK o \in Orders : o = job'[q].order
  <2>1. job'[q] \in Jobs
    BY DEF TypeOK
  <2> QED
    BY <2>1 DEF Jobs
<1> SUFFICES /\ job'[q].op \in {"settle", "pay"} => Payable(o)'
             /\ job'[q].op = "delete" => o \in Slips' /\ order'[o].status = "UNPAID"
  BY <1>1 DEF Held
<1>2. o \notin contended
  BY <1>1 DEF Moves
<1>3. RowStays(o) \/ \E r \in Requests : Ends(r, o)
  BY DEF Moves
<1>4. CASE job'[q] = job[q]
  <2>1. \A r \in Requests : ~Ends(r, o)
    <3>1. SUFFICES ASSUME NEW r \in Requests, Ends(r, o) PROVE FALSE
      OBVIOUS
    <3>2. q \in Handling(o) /\ r \in Handling(o)
      BY <1>1, <1>4, <3>1 DEF Handling, Ends
    <3>3. q = r
      BY <1>2, <3>2 DEF Alone
    <3> QED
      BY <3>1, <3>3 DEF Ends
  <2>2. RowStays(o)
    BY <1>3, <2>1
  <2>3. Held(q)
    OBVIOUS
  <2> QED
    BY <1>1, <1>2, <1>4, <2>2, <2>3 DEF Held, RowStays, Payable, Slips
<1>5. CASE Begins(q) /\ job'[q] # job[q]
  <2>1. job'[q].op \in {"settle", "pay"} => Payable(o)
    <3>1. CASE job[q] # None /\ job[q].op = "settle" /\ job[q].order = o
      BY <1>2, <3>1 DEF Held
    <3> QED
      BY <1>1, <1>5, <3>1 DEF Begins
  <2>2. job'[q].op = "delete" => o \in Slips /\ order[o].status = "UNPAID"
    BY <1>1, <1>5 DEF Begins
  <2>3. \A r \in Requests : ~Ends(r, o)
    BY <1>5 DEF Begins, Moves, Ends
  <2>4. RowStays(o)
    BY <1>3, <2>3
  <2> QED
    BY <1>1, <2>1, <2>2, <2>4 DEF RowStays, Payable, Slips
<1> QED
  BY <1>4, <1>5 DEF Moves

\* A lock, taken or lost, leaves the row in its place.
LEMMA LockStays ==
    ASSUME TypeOK, NEW o \in Slips, NEW l \in Cashiers \cup {None},
           order' = [order EXCEPT ![o].lock = l]
    PROVE  \A p \in Orders : RowStays(p)
<1>1. order[o] \in OrderRows /\ order \in [Orders -> OrderRows \cup {None}] /\ o \in Orders
  BY DEF Slips, TypeOK
<1>2. PICK row : row = [order[o] EXCEPT !.lock = l]
  OBVIOUS
<1>3. row \in OrderRows /\ row.status = order[o].status /\ row.receipt = order[o].receipt
  BY <1>1, <1>2 DEF OrderRows
<1>4. \A p \in Orders : order'[p] = IF p = o THEN row ELSE order[p]
  BY <1>1, <1>2
<1>5. row # None /\ order[o] # None
  BY <1>1, <1>3, NoneAssumption
<1> QED
  BY <1>3, <1>4, <1>5 DEF RowStays

\* Only the job of r has changed: it has ended, or begins.
OneJob(r) ==
    /\ \A q \in Requests \ {r} : job'[q] = job[q]
    /\ job'[r] \in {job[r], None} \/ Begins(r)

\* A request that reads takes up what it has read.
LEMMA ReadMoves ==
    ASSUME TypeOK, NEW r \in Requests, Read(r)
    PROVE  OneJob(r) /\ UNCHANGED Rows
<1>1. job \in [Requests -> Jobs \cup {None}] /\ job[r] = None
  BY DEF TypeOK, Read
<1>2. ASSUME NEW o \in Orders, NEW d \in Discounts \cup {None}, DecideRead(r, o, d)
      PROVE  OneJob(r) /\ UNCHANGED Rows
  <2>1. PICK j : j = [op |-> "decide", order |-> o, choice |-> d, linked |-> o \in Slips]
    OBVIOUS
  <2>2. job' = [job EXCEPT ![r] = j] /\ UNCHANGED Rows
    BY <1>2, <2>1 DEF DecideRead, Start, Rows
  <2> QED
    BY <1>1, <2>1, <2>2 DEF OneJob, Begins
<1>3. ASSUME NEW o \in Orders, NEW c \in Cashiers, ClaimRead(r, c, o)
      PROVE  OneJob(r) /\ UNCHANGED Rows
  <2>1. PICK j : j = [op |-> "claim", order |-> o, cashier |-> c]
    OBVIOUS
  <2>2. job' = [job EXCEPT ![r] = j] /\ UNCHANGED Rows
    BY <1>3, <2>1 DEF ClaimRead, Start, Rows
  <2> QED
    BY <1>1, <2>1, <2>2 DEF OneJob, Begins
<1>4. ASSUME NEW o \in Orders, NEW c \in Cashiers, DeleteRead(r, c, o)
      PROVE  OneJob(r) /\ UNCHANGED Rows
  <2>1. PICK j : j = [op |-> "delete", order |-> o]
    OBVIOUS
  <2>2. job' = [job EXCEPT ![r] = j] /\ UNCHANGED Rows
    BY <1>4, <2>1 DEF DeleteRead, Start, Rows
  <2>3. o \in Slips /\ order[o].status = "UNPAID"
    BY <1>4 DEF DeleteRead
  <2> QED
    BY <1>1, <2>1, <2>2, <2>3 DEF OneJob, Begins
<1>5. ASSUME NEW o \in Orders, NEW c \in Cashiers, NEW n \in Cash, SendRead(r, c, o, n)
      PROVE  OneJob(r) /\ UNCHANGED Rows
  <2>1. PICK j : j = [op |-> "send", order |-> o,
                      snapshot |-> paid[o] + Smaller(n, Positive(Total[o] - paid[o]))]
    OBVIOUS
  <2>2. job' = [job EXCEPT ![r] = j] /\ UNCHANGED Rows
    BY <1>5, <2>1 DEF SendRead, Start, Rows
  <2> QED
    BY <1>1, <2>1, <2>2 DEF OneJob, Begins
<1>6. ASSUME NEW o \in Orders, NEW c \in Cashiers, NEW n \in Cash, NEW b \in BOOLEAN,
             SettleRead(r, c, o, n, b)
      PROVE  OneJob(r) /\ UNCHANGED Rows
  <2>1. PICK j : j = [op |-> "settle", order |-> o, seen |-> paid[o],
                      released |-> order[o].released, given |-> n, release |-> b]
    OBVIOUS
  <2>2. job' = [job EXCEPT ![r] = j] /\ UNCHANGED Rows
    BY <1>6, <2>1 DEF SettleRead, Start, Rows
  <2>3. Payable(o)
    BY <1>6 DEF SettleRead
  <2> QED
    BY <1>1, <2>1, <2>2, <2>3 DEF OneJob, Begins
<1> QED
  BY <1>2, <1>3, <1>4, <1>5, <1>6 DEF Read

\* A request that commits ends, or goes from its checks to its transaction.
LEMMA CommitMoves ==
    ASSUME TypeOK, NEW r \in Requests, Commit(r)
    PROVE  job[r] # None /\ OneJob(r) /\ (job'[r] = None \/ UNCHANGED Rows)
<1>1. job \in [Requests -> Jobs \cup {None}]
  BY DEF TypeOK
<1>2. CASE Finish(r) /\ job[r] # None
  BY <1>1, <1>2 DEF Finish, OneJob
<1>3. CASE CheckClearance(r)
  <2>1. Running(r, "settle") /\ UNCHANGED Rows
    BY <1>3 DEF CheckClearance, Rows
  <2>2. PICK applied, owed, release, takes :
          LET j == [op |-> "pay", order |-> job[r].order, applied |-> applied,
                    owed |-> owed, release |-> release, takes |-> takes]
          IN  job' = [job EXCEPT ![r] = j] \/ Finish(r)
    BY <1>3 DEF CheckClearance
  <2>3. PICK j : j = [op |-> "pay", order |-> job[r].order, applied |-> applied,
                      owed |-> owed, release |-> release, takes |-> takes]
    OBVIOUS
  <2>4. CASE job' = [job EXCEPT ![r] = j]
    <3>1. job'[r] = j /\ \A q \in Requests \ {r} : job'[q] = job[q]
      BY <1>1, <2>4
    <3>2. j.op = "pay" /\ j.order = job[r].order
      BY <2>3
    <3> QED
      BY <2>1, <3>1, <3>2 DEF OneJob, Begins, Running
  <2> QED
    BY <1>2, <2>1, <2>2, <2>3, <2>4 DEF Running
<1> QED
  BY <1>2, <1>3 DEF Commit, Claim, Delete, Send, Decide, Settle, Running

\* Every step moves the jobs and the rows in this way.
LEMMA NextMoves ==
    ASSUME TypeOK, Next
    PROVE  Moves
<1>1. contended \subseteq contended' /\ Alone'
  BY DEF Next, Alone
<1>2. CASE \E r \in Requests : Read(r)
  <2>1. PICK r \in Requests : Read(r)
    BY <1>2
  <2>2. OneJob(r) /\ order' = order
    BY <2>1, ReadMoves DEF Rows
  <2> QED
    BY <1>1, <2>2 DEF Moves, OneJob, RowStays
<1>3. CASE \E r \in Requests : Commit(r)
  <2>1. PICK r \in Requests : Commit(r)
    BY <1>3
  <2>2. job[r] # None /\ OneJob(r) /\ (job'[r] = None \/ UNCHANGED Rows)
    BY <2>1, CommitMoves
  <2>3. PICK o \in Orders : o = job[r].order
    BY <2>2, JobType
  <2>4. \A p \in Orders : RowStays(p) \/ Ends(r, p)
    <3>1. CASE UNCHANGED Rows
      BY <3>1 DEF Rows, RowStays
    <3>2. CASE job'[r] = None
      <4>1. ASSUME NEW p \in Orders, p # o PROVE order'[p] = order[p]
        BY <2>1, <2>3, <4>1 DEF Commit, Claim, Delete, Send, Decide, CheckClearance,
                                Settle, TypeOK
      <4> QED
        BY <2>2, <2>3, <3>2, <4>1 DEF RowStays, Ends
    <3> QED
      BY <2>2, <3>1, <3>2
  <2> QED
    BY <1>1, <2>2, <2>4 DEF Moves, OneJob
<1>4. CASE \E o \in Orders : Unlock(o)
  <2>1. PICK o \in Orders : Unlock(o)
    BY <1>4
  <2>2. o \in Slips /\ order' = [order EXCEPT ![o].lock = None] /\ job' = job
    BY <2>1 DEF Unlock
  <2>3. \A p \in Orders : RowStays(p)
    BY <2>2, LockStays
  <2> QED
    BY <1>1, <2>2, <2>3 DEF Moves
<1> QED
  BY <1>2, <1>3, <1>4 DEF Next

\* What SeriesInv says of the rows and the counter.
Series == (\A o \in Slips : order[o].receipt <= counter) /\ OfficialReceipts

\* A step that numbers no slip and loses none.
LEMMA SeriesStays ==
    ASSUME TypeOK, Series, contended \subseteq contended', counter' = counter,
           \A p \in Orders : RowStays(p)
    PROVE  Series'
<1>1. Slips' = Slips /\ Slips \subseteq Orders
  BY DEF Slips, RowStays
<1>2. \A p \in Slips : order'[p].status = order[p].status
                        /\ order'[p].receipt = order[p].receipt
  BY DEF Slips, RowStays
<1>3. {order'[o].receipt : o \in Slips} = {order[o].receipt : o \in Slips}
  BY <1>2
<1> QED
  BY <1>1, <1>2, <1>3 DEF Series, OfficialReceipts

\* A slip that loses its place had no number, unless requests met on it.
LEMMA DeleteSeries ==
    ASSUME TypeOK, Series, contended \subseteq contended', counter' = counter,
           NEW o \in Orders, order' = [order EXCEPT ![o] = None],
           o \notin contended => o \in Slips /\ order[o].status = "UNPAID"
    PROVE  Series'
<1>1. /\ Slips' = Slips \ {o} /\ Slips \subseteq Orders
      /\ \A p \in Orders \ {o} : order'[p] = order[p]
  BY DEF Slips, TypeOK
<1>2. \A p \in Slips : order[p].receipt \in Nat
  BY DEF Slips, TypeOK, OrderRows
<1>3. contended' = {} => {order'[p].receipt : p \in Slips'} \ {0} = 1..counter
  <2> SUFFICES ASSUME contended' = {}
               PROVE  {order'[p].receipt : p \in Slips'} \ {0} = 1..counter
    OBVIOUS
  <2>1. o \in Slips /\ o \notin contended /\ order[o].status = "UNPAID" /\ contended = {}
    OBVIOUS
  <2>2. order[o].receipt = 0
    BY <1>2, <2>1 DEF Series, OfficialReceipts
  <2>3. {order'[p].receipt : p \in Slips'} \ {0} = {order[p].receipt : p \in Slips} \ {0}
    BY <1>1, <2>2
  <2> QED
    BY <2>1, <2>3 DEF Series, OfficialReceipts
<1> QED
  BY <1>1, <1>3 DEF Series, OfficialReceipts

\* A settlement gives the next number, or none.
LEMMA SettleSeries ==
    ASSUME TypeOK, Series, contended \subseteq contended', NEW o \in Slips,
           NEW owed \in Nat, NEW release \in BOOLEAN,
           counter' = IF owed = 0 THEN NextReceipt ELSE counter,
           order' = [order EXCEPT ![o] = Settled(@, owed, release)],
           o \notin contended => Payable(o)
    PROVE  Series'
<1>1. /\ o \in Orders /\ order[o] \in OrderRows /\ counter \in Nat
      /\ order \in [Orders -> OrderRows \cup {None}]
  BY DEF Slips, TypeOK
<1>2. PICK row : row = Settled(order[o], owed, release)
  OBVIOUS
<1>3. /\ row \in OrderRows
      /\ owed = 0 => row.status = "PAID" /\ row.receipt = counter + 1
      /\ owed # 0 => row.status = "PARTIALLY_PAID" /\ row.receipt = order[o].receipt
  <2>1. PICK n : n = NextReceipt
    OBVIOUS
  <2>2. n = counter + 1 /\ n \in Nat
    BY <1>1, <2>1 DEF NextReceipt
  <2>3. row \in OrderRows
    BY <1>1, <1>2, <2>1, <2>2 DEF Settled, OrderRows
  <2>4. CASE owed = 0
    BY <1>1, <1>2, <2>1, <2>2, <2>3, <2>4 DEF Settled, OrderRows
  <2>5. CASE owed # 0
    BY <1>1, <1>2, <2>3, <2>5 DEF Settled, OrderRows
  <2> QED
    BY <2>3, <2>4, <2>5
<1>4. \A p \in Orders : order'[p] = IF p = o THEN row ELSE order[p]
  BY <1>1, <1>2
<1>5. Slips' = Slips /\ Slips \subseteq Orders
  BY <1>3, <1>4, NoneAssumption DEF Slips
<1>6. \A p \in Slips : order[p].receipt \in Nat /\ order[p].receipt <= counter
  BY DEF Slips, TypeOK, OrderRows, Series
<1>7. o \notin contended => order[o].receipt = 0
  BY <1>6 DEF Payable, Series, OfficialReceipts
<1>8. CASE owed = 0
  <2>1. order'[o].receipt = counter + 1 /\ order'[o].status = "PAID" /\ counter' = counter + 1
    BY <1>1, <1>3, <1>4, <1>8 DEF NextReceipt
  <2>2. \A p \in Slips \ {o} : order'[p] = order[p]
    BY <1>4, <1>5
  <2>3. \A p \in Slips' : order'[p].receipt <= counter'
    BY <1>1, <1>5, <1>6, <2>1, <2>2
  <2>4. \A p, q \in Slips' : order'[p].receipt = order'[q].receipt
                               => p = q \/ order'[p].receipt = 0
    BY <1>1, <1>5, <1>6, <2>1, <2>2 DEF Series, OfficialReceipts
  <2>5. \A p \in Slips' \ contended' : order'[p].receipt > 0 <=> order'[p].status = "PAID"
    BY <1>1, <1>5, <2>1, <2>2 DEF Series, OfficialReceipts
  <2>6. contended' = {} => {order'[p].receipt : p \in Slips'} \ {0} = 1..counter'
    <3> SUFFICES ASSUME contended' = {}
                 PROVE  {order'[p].receipt : p \in Slips'} \ {0} = 1..counter'
      OBVIOUS
    <3>1. order[o].receipt = 0 /\ {order[p].receipt : p \in Slips} \ {0} = 1..counter
      BY <1>7 DEF Series, OfficialReceipts
    <3>2. {order'[p].receipt : p \in Slips'}
             = {order[p].receipt : p \in Slips \ {o}} \cup {counter + 1}
      BY <1>5, <2>1, <2>2
    <3>3. {order[p].receipt : p \in Slips \ {o}} \ {0} = 1..counter
      BY <3>1
    <3>4. (1..counter) \cup {counter + 1} = 1..(counter + 1)
      BY <1>1
    <3>5. counter + 1 # 0
      BY <1>1
    <3>6. PICK rest : rest = {order[p].receipt : p \in Slips \ {o}}
      OBVIOUS
    <3>7. (rest \cup {counter + 1}) \ {0} = (rest \ {0}) \cup {counter + 1}
      BY <3>5
    <3> QED
      BY <2>1, <3>2, <3>3, <3>4, <3>6, <3>7
  <2> QED
    BY <2>3, <2>4, <2>5, <2>6 DEF Series, OfficialReceipts
<1>9. CASE owed # 0
  <2>1. /\ counter' = counter /\ order'[o].status = "PARTIALLY_PAID"
        /\ order'[o].receipt = order[o].receipt
    BY <1>1, <1>3, <1>4, <1>9
  <2>2. \A p \in Slips \ {o} : order'[p] = order[p]
    BY <1>4, <1>5
  <2>3. \A p \in Slips : order'[p].receipt = order[p].receipt
    BY <2>1, <2>2
  <2>4. {order'[p].receipt : p \in Slips'} = {order[p].receipt : p \in Slips}
    BY <1>5, <2>3
  <2>5. \A p \in Slips' \ contended' : order'[p].receipt > 0 <=> order'[p].status = "PAID"
    BY <1>5, <1>7, <2>1, <2>2 DEF Series, OfficialReceipts
  <2> QED
    BY <1>5, <2>1, <2>3, <2>4, <2>5 DEF Series, OfficialReceipts
<1> QED
  BY <1>8, <1>9

\* Every step keeps the series.
LEMMA SeriesStep ==
    ASSUME TypeOK, TypeOK', SeriesInv, [Next]_vars
    PROVE  SeriesInv'
<1>1. CASE UNCHANGED vars
  BY <1>1 DEF vars, SeriesInv, Alone, Handling, Held, Payable, Slips, OfficialReceipts
<1>2. CASE Next
  <2>1. Moves /\ contended \subseteq contended' /\ Series
    BY <1>2, NextMoves DEF Moves, SeriesInv, Series
  <2>2. Alone' /\ \A r \in Requests : Held(r)'
    BY <2>1, HeldStays DEF SeriesInv, Moves
  <2>3. CASE counter' = counter /\ \A p \in Orders : RowStays(p)
    BY <2>1, <2>2, <2>3, SeriesStays DEF SeriesInv, Series
  <2>4. CASE \E r \in Requests : Read(r) \/ Send(r) \/ Decide(r) \/ CheckClearance(r)
    <3>1. UNCHANGED <<order, counter>>
      BY <2>4, ReadMoves DEF Send, Decide, CheckClearance, Rows
    <3> QED
      BY <2>3, <3>1 DEF RowStays
  <2>5. ASSUME NEW r \in Requests, Claim(r) PROVE SeriesInv'
    <3>1. counter' = counter /\ job[r] # None /\ Running(r, "claim")
      BY <2>5 DEF Claim, Running
    <3>2. CASE order' = order
      BY <2>3, <3>1, <3>2 DEF RowStays
    <3>3. CASE job[r].order \in Slips
      <4>1. PICK o \in Slips, c \in Cashiers : o = job[r].order /\ c = job[r].cashier
        BY <3>1, <3>3, JobType
      <4>2. order' = [order EXCEPT ![o].lock = c]
        BY <2>5, <3>3, <4>1 DEF Claim
      <4> QED
        BY <2>3, <3>1, <4>2, LockStays
    <3> QED
      BY <2>5, <3>2, <3>3 DEF Claim
  <2>6. ASSUME NEW o \in Orders, Unlock(o) PROVE SeriesInv'
    <3>1. counter' = counter /\ o \in Slips /\ order' = [order EXCEPT ![o].lock = None]
      BY <2>6 DEF Unlock
    <3> QED
      BY <2>3, <3>1, LockStays
  <2>7. ASSUME NEW r \in Requests, Delete(r) PROVE SeriesInv'
    <3>1. counter' = counter /\ job[r] # None /\ job[r].op = "delete"
      BY <2>7 DEF Delete, Running
    <3>2. PICK o \in Orders : o = job[r].order
      BY <3>1, JobType
    <3>3. o \notin contended => o \in Slips /\ order[o].status = "UNPAID"
      BY <3>1, <3>2 DEF SeriesInv, Held
    <3>4. CASE order' = order
      BY <2>3, <3>1, <3>4 DEF RowStays
    <3>5. CASE order' = [order EXCEPT ![o] = None]
      <4>1. Series'
        BY <2>1, <3>1, <3>3, <3>5, DeleteSeries
      <4> QED
        BY <2>2, <4>1 DEF SeriesInv, Series
    <3> QED
      BY <2>7, <3>2, <3>4, <3>5 DEF Delete
  <2>8. ASSUME NEW r \in Requests, Settle(r) PROVE SeriesInv'
    <3>1. job[r] # None /\ job[r].op = "pay" /\ job[r] \in Payings
      BY <2>8, JobType DEF Settle, Running
    <3>2. PICK o \in Orders, owed \in Nat, release \in BOOLEAN :
             o = job[r].order /\ owed = job[r].owed /\ release = job[r].release
      BY <3>1 DEF Payings
    <3>3. o \notin contended => Payable(o)
      BY <3>1, <3>2 DEF SeriesInv, Held
    <3>4. CASE UNCHANGED <<order, counter>>
      BY <2>3, <3>4 DEF RowStays
    <3>5. CASE /\ o \in Slips
               /\ counter' = IF owed = 0 THEN NextReceipt ELSE counter
               /\ order' = [order EXCEPT ![o] = Settled(@, owed, release)]
      <4>1. Series'
        BY <2>1, <3>3, <3>5, SettleSeries
      <4> QED
        BY <2>2, <4>1 DEF SeriesInv, Series
    <3> QED
      BY <2>8, <3>2, <3>4, <3>5 DEF Settle
  <2> QED
    BY <1>2, <2>4, <2>5, <2>6, <2>7, <2>8 DEF Next, Commit
<1> QED
  BY <1>1, <1>2

\* The series holds before the first receipt.
LEMMA SeriesInit == Init => SeriesInv
<1> SUFFICES ASSUME Init PROVE SeriesInv
  OBVIOUS
<1>1. \A r \in Requests : job[r] = None
  BY DEF Init
<1>2. Alone /\ \A r \in Requests : Held(r)
  BY <1>1 DEF Alone, Handling, Held
<1>3. counter = 0 /\ \A o \in Orders : order[o].receipt = 0 /\ order[o].status = "UNPAID"
  BY DEF Init
<1>4. Slips \subseteq Orders
  BY DEF Slips
<1>5. {order[o].receipt : o \in Slips} \ {0} = 1..counter
  BY <1>3, <1>4
<1> QED
  BY <1>2, <1>3, <1>4, <1>5 DEF SeriesInv, OfficialReceipts

\* Receipt numbers are never shared, and the series has a gap only after two
\* requests have met on a slip.
THEOREM ReceiptsInSeries == Spec => []OfficialReceipts
<1>1. SeriesInv => OfficialReceipts
  BY DEF SeriesInv
<1> QED
  BY <1>1, CounterTypeCorrect, SeriesInit, SeriesStep, PTL DEF Spec

-----------------------------------------------------------------------------
(* Approvals.  The terms of a case are those it was sent with, however long *)
(* a decision on it takes.                                                  *)

\* The row of a decision on a balance b of o: what it gives is within b, and an
\* approval gives all of it but for what counts as nothing.
RowFits(o, b, row) ==
    LET approved == row.discount + row.ar IN
    /\ approved <= b
    /\ row.kind # "REJECT" =>
          /\ b <= approved + MoneyEps \/ (approved = 0 /\ b <= 2 * MoneyEps)
          /\ row.ar > 0 => o \in Accounts

\* What a request that sends or decides has checked is still true.
AskFits(j) ==
    /\ j.op = "send" => j.snapshot < Total[j.order]
    /\ j.op = "decide" =>
          /\ kase[j.order] # None
          /\ j.choice # None /\ Balance(j.order) - j.choice > MoneyEps
                => j.order \in Accounts

CasesFit ==
    /\ \A r \in Requests : job[r] # None => AskFits(job[r])
    /\ \A o \in Orders :
          /\ kase[o] # None => kase[o].cash < Total[o]
          /\ decisions[o] # <<>> => kase[o] # None
          /\ \A i \in DOMAIN decisions[o] : RowFits(o, Balance(o), decisions[o][i])

\* How a step moves the cases, their decisions and the requests about them.
CasesMove ==
    /\ \A o \in Orders :
          /\ kase[o] # None => kase'[o] # None /\ kase'[o].cash = kase[o].cash
          /\ kase[o] = None /\ kase'[o] # None => kase'[o].cash < Total[o]
          /\ \/ decisions'[o] = decisions[o]
             \/ /\ kase[o] # None
                /\ \E row \in DecisionRows :
                      /\ decisions'[o] = Append(decisions[o], row)
                      /\ RowFits(o, Balance(o), row)
    /\ \A q \in Requests :
          \/ job'[q] \in {job[q], None}
          \/ \E j \in Jobs : job'[q] = j /\ AskFits(j)

\* The balance of a case does not move under a request that waits to decide.
LEMMA CasesStay ==
    ASSUME TypeOK, TypeOK', CasesFit, CasesMove
    PROVE  CasesFit'
<1>1. \A o \in Orders : kase[o] # None => Balance(o)' = Balance(o)
  BY DEF CasesMove, Balance, Positive
<1>2. ASSUME NEW q \in Requests, job'[q] # None
      PROVE  AskFits(job[q])'
  <2>1. PICK j \in Jobs : job'[q] = j /\ AskFits(j)
    BY JobType, <1>2 DEF CasesMove, CasesFit
  <2>2. j.order \in Orders
    BY DEF Jobs
  <2>3. kase[j.order] # None =>
           kase'[j.order] # None /\ Balance(j.order)' = Balance(j.order)
    BY <1>1, <2>2 DEF CasesMove
  <2> QED
    BY <2>1, <2>3, Zenon DEF AskFits
<1>3. ASSUME NEW o \in Orders
      PROVE  /\ kase'[o] # None => kase'[o].cash < Total[o]
             /\ decisions'[o] # <<>> => kase'[o] # None
    BY DEF CasesFit, CasesMove
<1>4. ASSUME NEW o \in Orders, NEW i \in DOMAIN decisions'[o]
      PROVE  RowFits(o, Balance(o)', decisions'[o][i])
  <2>1. decisions[o] \in Seq(DecisionRows)
    BY DEF TypeOK
  <2>2. CASE decisions'[o] = decisions[o]
    <3>1. i \in DOMAIN decisions[o] /\ decisions[o] # <<>>
      BY <1>4, <2>1, <2>2
    <3>2. kase[o] # None /\ RowFits(o, Balance(o), decisions[o][i])
      BY <3>1 DEF CasesFit
    <3> QED
      BY <1>1, <2>2, <3>2
  <2>3. CASE decisions'[o] # decisions[o]
    <3>1. PICK row \in DecisionRows :
             /\ decisions'[o] = Append(decisions[o], row)
             /\ RowFits(o, Balance(o), row)
      BY <2>3 DEF CasesMove
    <3>2. kase[o] # None
      BY <2>3 DEF CasesMove
    <3>3. decisions'[o][i] = row
             \/ (i \in DOMAIN decisions[o] /\ decisions'[o][i] = decisions[o][i])
      BY <2>1, <3>1
    <3>4. i \in DOMAIN decisions[o] => RowFits(o, Balance(o), decisions[o][i])
      BY DEF CasesFit
    <3> QED
      BY <1>1, <3>1, <3>2, <3>3, <3>4
  <2> QED
    BY <2>2, <2>3
<1> QED
  BY <1>2, <1>3, <1>4 DEF CasesFit

\* What a decision records fits the balance, if what remains of it goes to a
\* customer there is.
LEMMA OutcomeFits ==
    ASSUME NEW o \in Orders, NEW b \in Nat, NEW c \in Nat \cup {None},
           c # None /\ b - c > MoneyEps => o \in Accounts
    PROVE  RowFits(o, b, Outcome(b, c))
<1>1. PICK row : row = Outcome(b, c)
  OBVIOUS
<1>2. MoneyEps \in Nat
  BY SaleAssumption
<1>3. CASE c = None
  <2>1. row.kind = "REJECT" /\ row.discount = 0 /\ row.ar = 0
    BY <1>1, <1>3 DEF Outcome
  <2> QED
    BY <1>1, <2>1 DEF RowFits
<1>4. CASE c # None
  <2>1. PICK d \in Nat : d = Smaller(b, c)
    BY <1>4 DEF Smaller
  <2>2. d <= b /\ (d < b => d = c)
    BY <1>4, <2>1 DEF Smaller
  <2>3. PICK a \in Nat : a = b - d
    BY <2>2
  <2>4. /\ row.discount = IF d > MoneyEps THEN d ELSE 0
        /\ row.ar = IF a > MoneyEps THEN a ELSE 0
    BY <1>1, <1>4, <2>1, <2>3 DEF Outcome
  <2>5. row.ar > 0 => o \in Accounts
    BY <1>2, <1>4, <2>2, <2>3, <2>4
  <2>6. PICK x \in Nat, y \in Nat : x = row.discount /\ y = row.ar
    BY <2>4
  <2>7. /\ x + y <= b
        /\ b <= x + y + MoneyEps \/ (x + y = 0 /\ b <= 2 * MoneyEps)
    BY <1>2, <2>2, <2>3, <2>4, <2>6
  <2> QED
    BY <1>1, <2>5, <2>6, <2>7 DEF RowFits
<1> QED
  BY <1>3, <1>4

-----------------------------------------------------------------------------
(* Requests on one order at a time.  A settlement then knows what is paid,  *)
(* and what is paid never passes the cash the case was sent with.           *)

\* The cash an order may take: its total, or what its case names.
CashLimit(o) == IF kase[o] = None THEN Total[o] ELSE kase[o].cash

\* The rows of one order agree.  A slip paid in part has paid the cash of its
\* case, and still owes what the decision put on account.
Exact(o) ==
    /\ taken[o] <= 1
    /\ Len(decisions[o]) <= 1
    /\ paid[o] <= CashLimit(o)
    /\ o \in Slips =>
          /\ taken[o] > 0 => order[o].status = "PAID" \/ order[o].released
          /\ order[o].status = "UNPAID" => ~order[o].released
          /\ order[o].status = "PARTIALLY_PAID" =>
                /\ kase[o] # None
                /\ paid[o] = kase[o].cash
                /\ Owed(o, Positive(Total[o] - paid[o])) # 0

\* What a request on the order has read of them is still so.
JobExact(j) ==
    LET o == j.order IN
    /\ j.op = "decide" => decisions[o] = <<>>
    /\ j.op = "send" => paid[o] <= j.snapshot
    /\ j.op = "settle" =>
          Payable(o) /\ j.seen = paid[o] /\ j.released = order[o].released
    /\ j.op = "pay" =>
          LET n == paid[o] + j.applied IN
          /\ Payable(o)
          /\ n <= CashLimit(o)
          /\ j.takes => taken[o] = 0 /\ (j.owed = 0 \/ j.release)
          /\ j.owed # 0 =>
                /\ kase[o] # None
                /\ n = kase[o].cash
                /\ j.owed = Owed(o, Positive(Total[o] - n))

ExactInv ==
    /\ Alone
    /\ \A o \in Orders \ contended : Exact(o)
    /\ \A r \in Requests :
          job[r] # None /\ job[r].order \notin contended => JobExact(job[r])

\* All that is recorded of p stays, but for a lock.
Quiet(p) ==
    /\ order'[p] = None <=> order[p] = None
    /\ order[p] # None => /\ order'[p].status = order[p].status
                          /\ order'[p].released = order[p].released
    /\ paid'[p] = paid[p] /\ taken'[p] = taken[p]
    /\ decisions'[p] = decisions[p] /\ kase'[p] = kase[p]

\* Then what is true of its rows, and what a request knows of them, stays true.
LEMMA QuietExact ==
    ASSUME NEW p \in Orders, Quiet(p)
    PROVE  /\ Exact(p) => Exact(p)'
           /\ \A j : j.order = p /\ JobExact(j) => JobExact(j)'
<1>1. /\ p \in Slips' <=> p \in Slips
      /\ Payable(p)' <=> Payable(p)
  BY DEF Quiet, Payable, Slips
<1>2. CashLimit(p)' = CashLimit(p)
  BY DEF Quiet, CashLimit
<1>3. \A m : Owed(p, m)' = Owed(p, m)
  BY DEF Quiet, Owed, Latest, Smaller, Positive
<1>4. Exact(p) => Exact(p)'
  BY <1>1, <1>2, <1>3 DEF Quiet, Exact, Slips, Positive
<1>5. ASSUME NEW j, j.order = p, JobExact(j)
      PROVE  JobExact(j)'
  <2>1. order[p] # None => order'[p].released = order[p].released
    BY DEF Quiet
  <2>2. /\ paid'[p] = paid[p] /\ taken'[p] = taken[p]
        /\ decisions'[p] = decisions[p] /\ kase'[p] = kase[p]
    BY DEF Quiet
  <2>3. Payable(p) => order[p] # None
    BY DEF Payable, Slips
  <2>4. Owed(p, Positive(Total[p] - (paid[p] + j.applied)))'
           = Owed(p, Positive(Total[p] - (paid[p] + j.applied)))
    BY <1>3, <2>2 DEF Positive
  <2> QED
    BY <1>1, <1>2, <1>5, <2>1, <2>2, <2>3, <2>4 DEF JobExact
<1> QED
  BY <1>4, <1>5

\* A step of one request r, on the order o alone.
Serves(r, o) ==
    /\ \A p \in Orders \ {o} : Quiet(p)
    /\ \A q \in Requests \ {r} : job'[q] = job[q]
    /\ \/ job[r] # None /\ job[r].order = o
       \/ job'[r] # None /\ job'[r].order = o

\* No other request has that order, unless the two have met.
LEMMA ServesExact ==
    ASSUME TypeOK, TypeOK', ExactInv, Alone', contended \subseteq contended',
           NEW r \in Requests, NEW o \in Orders, Serves(r, o),
           o \notin contended' => Exact(o)',
           \/ job'[r] = None
           \/ /\ Quiet(o)
              /\ job'[r].order = o
              /\ o \notin contended => JobExact(job'[r])
    PROVE  ExactInv'
<1>1. ASSUME NEW p \in Orders \ contended' PROVE Exact(p)'
  <2>1. CASE p = o
    BY <2>1
  <2>2. CASE p # o
    BY <2>2, QuietExact DEF Serves, ExactInv
  <2> QED
    BY <2>1, <2>2
<1>2. ASSUME NEW q \in Requests, job'[q] # None, job'[q].order \notin contended'
      PROVE  JobExact(job[q])'
  <2>1. PICK p \in Orders : p = job'[q].order
    <3>1. job'[q] \in Jobs
      BY <1>2 DEF TypeOK
    <3> QED
      BY <3>1 DEF Jobs
  <2>2. PICK j : j = job'[q]
    OBVIOUS
  <2>3. p \notin contended /\ p \notin contended'
    BY <1>2, <2>1
  <2>4. CASE q # r
    <3>1. job'[q] = job[q] /\ JobExact(j)
      BY <1>2, <2>1, <2>2, <2>3, <2>4 DEF Serves, ExactInv
    <3>2. p # o
      <4>1. SUFFICES ASSUME p = o PROVE FALSE
        OBVIOUS
      <4>2. CASE job[r] # None /\ job[r].order = o
        <5>1. q \in Handling(o) /\ r \in Handling(o)
          BY <1>2, <2>1, <3>1, <4>1, <4>2 DEF Handling
        <5> QED
          BY <2>3, <2>4, <4>1, <5>1 DEF ExactInv, Alone
      <4>3. CASE job'[r] # None /\ job'[r].order = o
        <5>1. q \in Handling(o)' /\ r \in Handling(o)'
          BY <1>2, <2>1, <4>1, <4>3 DEF Handling
        <5> QED
          BY <2>3, <2>4, <4>1, <5>1 DEF Alone
      <4> QED
        BY <4>2, <4>3 DEF Serves
    <3>3. Quiet(p)
      BY <3>2 DEF Serves
    <3>4. JobExact(j)'
      BY <2>1, <2>2, <3>1, <3>3, QuietExact
    <3> QED
      BY <2>2, <3>4
  <2>5. CASE q = r
    <3>1. Quiet(o) /\ p = o /\ JobExact(j)
      BY <1>2, <2>1, <2>2, <2>3, <2>5
    <3>2. JobExact(j)'
      BY <2>1, <2>2, <3>1, QuietExact
    <3> QED
      BY <2>2, <3>2
  <2> QED
    BY <2>4, <2>5
<1> QED
  BY <1>1, <1>2 DEF ExactInv

\* A request that reads takes up what is so.
LEMMA ReadExact ==
    ASSUME TypeOK, NEW r \in Requests, Read(r)
    PROVE  /\ UNCHANGED Rows
           /\ \E j \in Jobs : /\ job' = [job EXCEPT ![r] = j]
                              /\ AskFits(j) /\ JobExact(j)
<1>1. \A o \in Orders : paid[o] \in Nat /\ Total[o] \in Nat
  BY SaleAssumption DEF TypeOK
<1>2. ASSUME NEW o \in Orders, NEW d \in Discounts \cup {None}, DecideRead(r, o, d)
      PROVE  /\ UNCHANGED Rows
             /\ \E j \in Jobs : /\ job' = [job EXCEPT ![r] = j]
                                /\ AskFits(j) /\ JobExact(j)
  <2>1. PICK j : j = [op |-> "decide", order |-> o, choice |-> d, linked |-> o \in Slips]
    OBVIOUS
  <2>2. d \in Nat \cup {None}
    BY SaleAssumption
  <2>3. j \in Jobs
    BY <2>1, <2>2 DEF Jobs
  <2>4. j.op = "decide" /\ j.order = o /\ j.choice = d
    BY <2>1
  <2>5. /\ kase[o] # None /\ decisions[o] = <<>>
        /\ d # None /\ Balance(o) - d > MoneyEps => o \in Accounts
    BY <1>2 DEF DecideRead
  <2>6. AskFits(j) /\ JobExact(j)
    BY <2>4, <2>5 DEF AskFits, JobExact
  <2>7. job' = [job EXCEPT ![r] = j] /\ UNCHANGED Rows
    BY <1>2, <2>1 DEF DecideRead, Start, Rows
  <2> QED
    BY <2>3, <2>6, <2>7
<1>3. ASSUME NEW o \in Orders, NEW c \in Cashiers, ClaimRead(r, c, o)
      PROVE  /\ UNCHANGED Rows
             /\ \E j \in Jobs : /\ job' = [job EXCEPT ![r] = j]
                                /\ AskFits(j) /\ JobExact(j)
  <2>1. PICK j : j = [op |-> "claim", order |-> o, cashier |-> c]
    OBVIOUS
  <2>2. j \in Jobs /\ AskFits(j) /\ JobExact(j)
    BY <2>1 DEF Jobs, AskFits, JobExact
  <2>3. job' = [job EXCEPT ![r] = j] /\ UNCHANGED Rows
    BY <1>3, <2>1 DEF ClaimRead, Start, Rows
  <2> QED
    BY <2>2, <2>3
<1>4. ASSUME NEW o \in Orders, NEW c \in Cashiers, DeleteRead(r, c, o)
      PROVE  /\ UNCHANGED Rows
             /\ \E j \in Jobs : /\ job' = [job EXCEPT ![r] = j]
                                /\ AskFits(j) /\ JobExact(j)
  <2>1. PICK j : j = [op |-> "delete", order |-> o]
    OBVIOUS
  <2>2. j \in Jobs /\ AskFits(j) /\ JobExact(j)
    BY <2>1 DEF Jobs, AskFits, JobExact
  <2>3. job' = [job EXCEPT ![r] = j] /\ UNCHANGED Rows
    BY <1>4, <2>1 DEF DeleteRead, Start, Rows
  <2> QED
    BY <2>2, <2>3
<1>5. ASSUME NEW o \in Orders, NEW c \in Cashiers, NEW n \in Cash, SendRead(r, c, o, n)
      PROVE  /\ UNCHANGED Rows
             /\ \E j \in Jobs : /\ job' = [job EXCEPT ![r] = j]
                                /\ AskFits(j) /\ JobExact(j)
  <2>1. PICK s \in Nat : s = paid[o] + Smaller(n, Positive(Total[o] - paid[o]))
    BY <1>1, SaleAssumption DEF Smaller, Positive
  <2>2. paid[o] <= s
    BY <1>1, <2>1, SaleAssumption DEF Smaller, Positive
  <2>3. s < Total[o]
    BY <1>1, <1>5, <2>1 DEF SendRead
  <2>4. PICK j : j = [op |-> "send", order |-> o, snapshot |-> s]
    OBVIOUS
  <2>5. j \in Jobs /\ AskFits(j) /\ JobExact(j)
    BY <2>2, <2>3, <2>4 DEF Jobs, AskFits, JobExact
  <2>6. job' = [job EXCEPT ![r] = j] /\ UNCHANGED Rows
    BY <1>5, <2>1, <2>4 DEF SendRead, Start, Rows
  <2> QED
    BY <2>5, <2>6
<1>6. ASSUME NEW o \in Orders, NEW c \in Cashiers, NEW n \in Cash, NEW b \in BOOLEAN,
             SettleRead(r, c, o, n, b)
      PROVE  /\ UNCHANGED Rows
             /\ \E j \in Jobs : /\ job' = [job EXCEPT ![r] = j]
                                /\ AskFits(j) /\ JobExact(j)
  <2>1. Payable(o) /\ order[o] \in OrderRows
    BY <1>6 DEF SettleRead, Payable, Slips, TypeOK
  <2>2. PICK j : j = [op |-> "settle", order |-> o, seen |-> paid[o],
                      released |-> order[o].released, given |-> n, release |-> b]
    OBVIOUS
  <2>3. j \in Jobs
    BY <1>1, <2>1, <2>2, SaleAssumption DEF Jobs, OrderRows
  <2>4. AskFits(j) /\ JobExact(j)
    BY <2>1, <2>2 DEF AskFits, JobExact
  <2>5. job' = [job EXCEPT ![r] = j] /\ UNCHANGED Rows
    BY <1>6, <2>2 DEF SettleRead, Start, Rows
  <2> QED
    BY <2>3, <2>4, <2>5
<1> QED
  BY <1>2, <1>3, <1>4, <1>5, <1>6 DEF Read

\* The last decision is one of the rows, or a refusal that gives nothing.
LEMMA LatestRow ==
    ASSUME TypeOK, NEW o \in Orders
    PROVE  /\ Latest(o) \in DecisionRows
           /\ decisions[o] = <<>> => Latest(o).ar = 0
           /\ decisions[o] # <<>> =>
                 \E i \in DOMAIN decisions[o] : Latest(o) = decisions[o][i]
<1>1. decisions[o] \in Seq(DecisionRows)
  BY DEF TypeOK
<1>2. CASE decisions[o] = <<>>
  BY <1>2 DEF Latest, DecisionRows, Kinds
<1>3. CASE decisions[o] # <<>>
  <2>1. Len(decisions[o]) \in DOMAIN decisions[o]
    BY <1>1, <1>3
  <2>2. Latest(o) = decisions[o][Len(decisions[o])]
    BY <1>3 DEF Latest
  <2> QED
    BY <1>1, <1>3, <2>1, <2>2
<1> QED
  BY <1>2, <1>3

\* Checks that pass turn what is still so into a settlement that is still so: it
\* brings the cash to its limit, and takes the goods of an order once.
LEMMA CheckExact ==
    ASSUME CounterInv, CasesFit, NEW r \in Requests, CheckClearance(r),
           NEW o \in Orders, o = job[r].order
    PROVE  /\ UNCHANGED Rows
           /\ \/ job'[r] = None /\ \A q \in Requests \ {r} : job'[q] = job[q]
              \/ \E j \in Jobs :
                    /\ job' = [job EXCEPT ![r] = j]
                    /\ j.op = "pay" /\ j.order = o
                    /\ Exact(o) /\ JobExact(job[r]) => JobExact(j)
<1>1. UNCHANGED Rows /\ Running(r, "settle") /\ job \in [Requests -> Jobs \cup {None}]
  BY DEF CheckClearance, Rows, CounterInv, TypeOK
<1>2. job[r] \in Settlings /\ job[r].op = "settle"
  BY <1>1, JobType DEF CounterInv, Running
<1>3. PICK seen \in Nat, given \in Nat, released \in BOOLEAN, release \in BOOLEAN :
        /\ seen = job[r].seen /\ given = job[r].given
        /\ released = job[r].released /\ release = job[r].release
  BY <1>2 DEF Settlings
<1>4. PICK applied, remaining :
        applied = Applied(o, seen, given) /\ remaining = Remaining(o, seen, given)
  OBVIOUS
<1>5. PICK owed : owed = Owed(o, remaining)
  OBVIOUS
<1>6. PICK takes : takes = WillDeduct(owed, release, released)
  OBVIOUS
<1>7. PICK j : j = [op |-> "pay", order |-> o, applied |-> applied, owed |-> owed,
                    release |-> release, takes |-> takes]
  OBVIOUS
<1>8. \/ /\ CashAccepted(o, seen, given) /\ Covered(o, remaining)
         /\ job' = [job EXCEPT ![r] = j]
      \/ Finish(r)
  BY <1>3, <1>4, <1>5, <1>6, <1>7 DEF CheckClearance
<1>9. CASE Finish(r)
  BY <1>1, <1>9 DEF Finish
<1>10. CASE /\ CashAccepted(o, seen, given) /\ Covered(o, remaining)
            /\ job' = [job EXCEPT ![r] = j]
  <2>1. j \in Jobs
    BY <1>1, <1>3, <1>4, <1>5, <1>6, <1>7, <1>10, CheckedFits
  <2>2. ASSUME Exact(o), JobExact(job[r]) PROVE JobExact(j)
    <3>1. Payable(o) /\ seen = paid[o] /\ released = order[o].released
      BY <1>2, <1>3, <2>2 DEF JobExact
    <3>2. PICK n \in Nat, t \in Nat : n = paid[o] /\ t = Total[o]
      BY SaleAssumption DEF CounterInv, TypeOK
    <3>3. kase[o] # None => kase[o] \in Kases /\ kase[o].cash < t
      BY <3>2 DEF CounterInv, TypeOK, CasesFit
    <3>4. n <= CashLimit(o)
      BY <2>2, <3>2 DEF Exact
    <3>5. applied = Smaller(given, Positive(t - n))
      BY <1>4, <3>1, <3>2 DEF Applied
    <3>6. remaining = Positive(t - n - applied)
      BY <1>4, <3>1, <3>2 DEF Remaining
    <3>7. ASSUME kase[o] # None
          PROVE  n + applied = kase[o].cash
      <4>1. PICK c \in Nat : c = kase[o].cash
        BY <3>3, <3>7 DEF Kases
      <4>2. n <= c /\ c < t
        BY <3>3, <3>4, <3>7, <4>1 DEF CashLimit
      <4>3. given = Positive(c - n)
        BY <1>10, <3>1, <3>2, <3>7, <4>1 DEF CashAccepted
      <4> QED
        BY <3>5, <4>1, <4>2, <4>3 DEF Smaller, Positive
    <3>8. n + applied <= CashLimit(o)
      <4>1. CASE kase[o] = None
        <5>1. CashLimit(o) = t
          BY <3>2, <4>1 DEF CashLimit
        <5> QED
          BY <3>4, <3>5, <5>1 DEF Smaller, Positive
      <4>2. CASE kase[o] # None
        <5>1. CashLimit(o) = kase[o].cash
          BY <4>2 DEF CashLimit
        <5>2. kase[o].cash \in Nat
          BY <3>3, <4>2 DEF Kases
        <5> QED
          BY <3>7, <4>2, <5>1, <5>2
      <4> QED
        BY <4>1, <4>2
    <3>9. applied \in Nat /\ remaining = Positive(t - (n + applied)) /\ remaining \in Nat
      BY <3>5, <3>6 DEF Smaller, Positive
    <3>10. owed # 0 => remaining > 0
      <4>1. Latest(o) \in DecisionRows
        BY LatestRow DEF CounterInv
      <4>2. PICK d \in Nat, a \in Nat : d = Latest(o).discount /\ a = Latest(o).ar
        BY <4>1 DEF DecisionRows
      <4>3. owed = Smaller(Positive(remaining - d), a)
        BY <1>5, <4>2 DEF Owed
      <4> QED
        BY <3>9, <4>2, <4>3 DEF Smaller, Positive
    <3>11. owed # 0 => kase[o] # None
      BY <1>10, <3>10 DEF Covered
    <3>12. takes => owed = 0 \/ (release /\ ~released)
      BY <1>6 DEF WillDeduct
    <3>13. takes => taken[o] = 0
      <4>1. SUFFICES ASSUME takes, taken[o] > 0 PROVE FALSE
        BY DEF CounterInv, TypeOK
      <4>2. o \in Slips /\ order[o].status \in {"UNPAID", "PARTIALLY_PAID"}
        BY <3>1 DEF Payable
      <4>3. released /\ order[o].status = "PARTIALLY_PAID"
        BY <2>2, <3>1, <4>1, <4>2 DEF Exact
      <4>4. /\ kase[o] # None /\ n = kase[o].cash
            /\ Owed(o, Positive(t - n)) # 0
        BY <2>2, <3>2, <4>2, <4>3 DEF Exact
      <4>5. n + applied = n
        BY <3>7, <4>4
      <4>6. owed # 0
        BY <1>5, <3>9, <4>4, <4>5
      <4> QED
        BY <3>12, <4>1, <4>3, <4>6
    <3>14. /\ j.op = "pay" /\ j.order = o /\ j.applied = applied /\ j.owed = owed
           /\ j.release = release /\ j.takes = takes
      BY <1>7
    <3> QED
      BY <1>5, <3>1, <3>2, <3>7, <3>8, <3>9, <3>11, <3>12, <3>13, <3>14 DEF JobExact
  <2> QED
    BY <1>1, <1>7, <1>10, <2>1, <2>2
<1> QED
  BY <1>8, <1>9, <1>10

\* The commit of such a settlement leaves the rows of its order in agreement.
LEMMA SettledExact ==
    ASSUME TypeOK, NEW o \in Slips, NEW j \in Payings, j.order = o, j.op = "pay",
           Exact(o), JobExact(j),
           paid' = [paid EXCEPT ![o] = @ + j.applied],
           taken' = IF j.takes THEN [taken EXCEPT ![o] = @ + 1] ELSE taken,
           order' = [order EXCEPT ![o] = Settled(@, j.owed, j.release)],
           kase' = kase, decisions' = decisions
    PROVE  Exact(o)' /\ \A p \in Orders \ {o} : Quiet(p)
<1>1. /\ o \in Orders /\ order[o] \in OrderRows
      /\ order \in [Orders -> OrderRows \cup {None}]
      /\ paid \in [Orders -> Nat] /\ taken \in [Orders -> Nat]
  BY DEF Slips, TypeOK
<1>2. PICK applied \in Nat, owed \in Nat, release \in BOOLEAN, takes \in BOOLEAN :
        /\ applied = j.applied /\ owed = j.owed
        /\ release = j.release /\ takes = j.takes
  BY DEF Payings
<1>3. PICK row : row = Settled(order[o], owed, release)
  OBVIOUS
<1>4. /\ row.status = IF owed = 0 THEN "PAID" ELSE "PARTIALLY_PAID"
      /\ row.released = (order[o].released \/ release)
  BY <1>1, <1>3 DEF Settled, OrderRows
<1>5. order' = [order EXCEPT ![o] = row]
  BY <1>2, <1>3
<1>6. order'[o] = row /\ \A p \in Orders \ {o} : order'[p] = order[p]
  BY <1>1, <1>5
<1>7. PICK n \in Nat : n = paid[o] + applied
  BY <1>1
<1>8. paid'[o] = n /\ \A p \in Orders \ {o} : paid'[p] = paid[p]
  BY <1>1, <1>2, <1>7
<1>9. /\ taken'[o] = IF takes THEN taken[o] + 1 ELSE taken[o]
      /\ \A p \in Orders \ {o} : taken'[p] = taken[p]
  BY <1>1, <1>2
<1>10. \A p \in Orders \ {o} : Quiet(p)
  BY <1>6, <1>8, <1>9 DEF Quiet
<1>11. /\ Payable(o) /\ n <= CashLimit(o)
       /\ takes => taken[o] = 0 /\ (owed = 0 \/ release)
       /\ owed # 0 => /\ kase[o] # None /\ n = kase[o].cash
                      /\ owed = Owed(o, Positive(Total[o] - n))
  BY <1>2, <1>7 DEF JobExact
<1>12. taken'[o] <= 1
  BY <1>1, <1>9, <1>11 DEF Exact
<1>13. taken'[o] > 0 => row.status = "PAID" \/ row.released
  <2> SUFFICES ASSUME taken'[o] > 0, owed # 0 PROVE row.released
    BY <1>4
  <2>1. CASE takes
    BY <1>4, <1>11, <2>1
  <2>2. CASE ~takes
    <3>1. taken[o] > 0 /\ order[o].status # "PAID"
      BY <1>9, <1>11, <2>2 DEF Payable
    <3>2. order[o].released
      BY <3>1 DEF Exact
    <3> QED
      BY <1>4, <3>2
  <2> QED
    BY <2>1, <2>2
<1>14. row.status = "PARTIALLY_PAID" =>
          kase[o] # None /\ n = kase[o].cash /\ Owed(o, Positive(Total[o] - n)) # 0
  BY <1>4, <1>11
<1>15. \A m : Owed(o, m)' = Owed(o, m)
  BY DEF Owed, Latest
<1>16. CashLimit(o)' = CashLimit(o)
  BY DEF CashLimit
<1>17. Owed(o, Positive(Total[o] - paid[o]))' = Owed(o, Positive(Total[o] - n))
  BY <1>8, <1>15 DEF Positive
<1>18. row.status # "UNPAID"
  BY <1>4
<1>19. /\ row.status = "PARTIALLY_PAID" =>
             Owed(o, Positive(Total[o] - paid[o]))' # 0
       /\ Len(decisions[o]) <= 1
  BY <1>14, <1>17 DEF Exact
<1>20. n <= CashLimit(o)' /\ paid'[o] = n /\ order'[o] = row
  BY <1>6, <1>8, <1>11, <1>16
<1> QED
  BY <1>10, <1>12, <1>13, <1>14, <1>18, <1>19, <1>20, Zenon DEF Exact

-----------------------------------------------------------------------------
(* Steps, one order after another *)

CasesInv == CasesFit /\ ExactInv

\* A job that stays, ends or is new and true, with rows that stay, is such a step.
LEMMA CasesRest ==
    ASSUME kase' = kase, decisions' = decisions,
           \A q \in Requests :
              \/ job'[q] \in {job[q], None}
              \/ \E j \in Jobs : job'[q] = j /\ AskFits(j)
    PROVE  CasesMove
BY DEF CasesMove

\* Rows that stay are quiet.
LEMMA RowsQuiet == ASSUME UNCHANGED Rows PROVE \A p \in Orders : Quiet(p)
BY DEF Rows, Quiet

\* A lock is quiet.
LEMMA LockQuiet ==
    ASSUME CounterInv, NEW o \in Slips, NEW l \in Cashiers \cup {None},
           order' = [order EXCEPT ![o].lock = l],
           paid' = paid, decisions' = decisions, taken' = taken, kase' = kase
    PROVE  \A p \in Orders : Quiet(p)
<1>1. Calm /\ \A p \in Orders : RowStays(p)
  BY LockChange, LockStays DEF CounterInv
<1> QED
  BY <1>1 DEF Calm, RowStays, Quiet

\* Reading keeps the cases and the rows in agreement.
LEMMA ReadCases ==
    ASSUME TypeOK, TypeOK', CasesInv, Alone', contended \subseteq contended',
           NEW r \in Requests, Read(r)
    PROVE  CasesInv'
<1>1. job \in [Requests -> Jobs \cup {None}]
  BY DEF TypeOK
<1>2. UNCHANGED Rows
  BY ReadExact
<1>3. PICK j \in Jobs : /\ job' = [job EXCEPT ![r] = j]
                        /\ AskFits(j) /\ JobExact(j)
  BY ReadExact
<1>4. PICK o \in Orders : o = j.order
  BY DEF Jobs
<1>5. CasesMove
  BY <1>1, <1>2, <1>3, CasesRest DEF Rows
<1>6. \A p \in Orders : Quiet(p)
  BY <1>2, RowsQuiet
<1>7. job'[r] = j /\ \A q \in Requests \ {r} : job'[q] = job[q]
  BY <1>1, <1>3
<1>8. o \notin contended' => Exact(o)'
  BY <1>6, QuietExact DEF CasesInv, ExactInv
<1>9. job'[r] # None
  BY <1>7, NoneAssumption
<1>10. Serves(r, o)
  BY <1>4, <1>6, <1>7, <1>9 DEF Serves
<1>11. ExactInv'
  BY <1>3, <1>4, <1>6, <1>7, <1>8, <1>10, ServesExact DEF CasesInv
<1> QED
  BY <1>5, <1>11, CasesStay DEF CasesInv

\* So do the checks of a settlement.
LEMMA CheckCases ==
    ASSUME CounterInv, TypeOK', CasesInv, Alone', contended \subseteq contended',
           NEW r \in Requests, CheckClearance(r)
    PROVE  CasesInv'
<1>1. job \in [Requests -> Jobs \cup {None}] /\ job[r] # None
  BY DEF CounterInv, TypeOK, CheckClearance, Running
<1>2. PICK o \in Orders : o = job[r].order
  BY <1>1, JobType DEF CounterInv
<1>3. UNCHANGED Rows
  BY <1>2, CheckExact DEF CasesInv
<1>4. \/ job'[r] = None /\ \A q \in Requests \ {r} : job'[q] = job[q]
      \/ \E j \in Jobs :
            /\ job' = [job EXCEPT ![r] = j]
            /\ j.op = "pay" /\ j.order = o
            /\ Exact(o) /\ JobExact(job[r]) => JobExact(j)
  BY <1>2, CheckExact DEF CasesInv
<1>5. \A p \in Orders : Quiet(p)
  BY <1>3, RowsQuiet
<1>6. \A q \in Requests \ {r} : job'[q] = job[q]
  BY <1>1, <1>4
<1>7. CasesMove
  <2>1. \A j \in Jobs : j.op = "pay" => AskFits(j)
    BY DEF AskFits
  <2>2. job'[r] = None \/ \E j \in Jobs : job'[r] = j /\ j.op = "pay"
    BY <1>1, <1>4
  <2> QED
    BY <1>3, <1>6, <2>1, <2>2, CasesRest DEF Rows
<1>8. o \notin contended' => Exact(o)'
  BY <1>5, QuietExact DEF CasesInv, ExactInv
<1>9. Serves(r, o)
  BY <1>1, <1>2, <1>5, <1>6 DEF Serves
<1>10. \/ job'[r] = None
       \/ job'[r].order = o /\ (o \notin contended => JobExact(job'[r]))
  <2> SUFFICES ASSUME job'[r] # None
               PROVE  job'[r].order = o /\ (o \notin contended => JobExact(job'[r]))
    OBVIOUS
  <2>1. PICK j \in Jobs :
            /\ job' = [job EXCEPT ![r] = j]
            /\ j.op = "pay" /\ j.order = o
            /\ Exact(o) /\ JobExact(job[r]) => JobExact(j)
    BY <1>4
  <2>2. job'[r] = j
    BY <1>1, <2>1
  <2>3. o \notin contended => Exact(o) /\ JobExact(job[r])
    BY <1>1, <1>2 DEF CasesInv, ExactInv
  <2> QED
    BY <2>1, <2>2, <2>3
<1>11. ExactInv'
  BY <1>5, <1>8, <1>9, <1>10, ServesExact DEF CasesInv, CounterInv
<1> QED
  BY <1>7, <1>11, CasesStay DEF CasesInv, CounterInv

\* A commit that ends the request r, leaves the other orders alone and the rows
\* of its own in agreement.
LEMMA EndCases ==
    ASSUME CounterInv, TypeOK', CasesInv, Alone', contended \subseteq contended',
           NEW r \in Requests, job[r] # None, Finish(r),
           NEW o \in Orders, o = job[r].order,
           \A p \in Orders \ {o} : Quiet(p),
           Exact(o) /\ JobExact(job[r]) => Exact(o)'
    PROVE  /\ ExactInv'
           /\ \A q \in Requests : job'[q] \in {job[q], None}
<1>1. /\ job'[r] = None
      /\ \A q \in Requests \ {r} : job'[q] = job[q]
  BY DEF CounterInv, TypeOK, Finish
<1>2. Serves(r, o)
  BY <1>1 DEF Serves
<1>3. o \notin contended' => Exact(o)'
  BY DEF CasesInv, ExactInv
<1>4. ExactInv'
  BY <1>1, <1>2, <1>3, ServesExact DEF CasesInv, CounterInv
<1> QED
  BY <1>1, <1>4

\* A claim that commits.
LEMMA ClaimCases ==
    ASSUME CounterInv, TypeOK', CasesInv, Alone', contended \subseteq contended',
           NEW r \in Requests, Claim(r)
    PROVE  CasesInv'
<1>1. /\ job[r] # None /\ Running(r, "claim") /\ Finish(r)
      /\ paid' = paid /\ decisions' = decisions /\ taken' = taken /\ kase' = kase
  BY DEF Claim, Running
<1>2. PICK o \in Orders, c \in Cashiers : o = job[r].order /\ c = job[r].cashier
  BY <1>1, JobType DEF CounterInv
<1>3. \A p \in Orders : Quiet(p)
  <2>1. CASE o \in Slips
    <3>1. order' = [order EXCEPT ![o].lock = c]
      BY <1>2, <2>1 DEF Claim
    <3> QED
      BY <1>1, <2>1, <3>1, LockQuiet
  <2>2. CASE o \notin Slips
    <3>1. order' = order
      BY <1>2, <2>2 DEF Claim
    <3> QED
      BY <1>1, <3>1 DEF Quiet
  <2> QED
    BY <2>1, <2>2
<1>4. ExactInv' /\ \A q \in Requests : job'[q] \in {job[q], None}
  BY <1>1, <1>2, <1>3, EndCases, QuietExact
<1> QED
  BY <1>1, <1>4, CasesRest, CasesStay DEF CasesInv, CounterInv

\* A slip that goes leaves nothing to agree with.
LEMMA DeleteCases ==
    ASSUME CounterInv, TypeOK', CasesInv, Alone', contended \subseteq contended',
           NEW r \in Requests, Delete(r)
    PROVE  CasesInv'
<1>1. /\ job[r] # None /\ Finish(r)
      /\ paid' = paid /\ decisions' = decisions /\ taken' = taken /\ kase' = kase
  BY DEF Delete, Running
<1>2. PICK o \in Orders : o = job[r].order
  BY <1>1, JobType DEF CounterInv
<1>3. order' = order \/ order' = [order EXCEPT ![o] = None]
  BY <1>2 DEF Delete
<1>4. /\ \A p \in Orders \ {o} : order'[p] = order[p]
      /\ order'[o] = order[o] \/ order'[o] = None
  BY <1>3 DEF CounterInv, TypeOK
<1>5. \A p \in Orders \ {o} : Quiet(p)
  BY <1>1, <1>4 DEF Quiet
<1>6. Exact(o) => Exact(o)'
  <2>1. CASE order'[o] = order[o]
    BY <1>1, <2>1, QuietExact DEF Quiet
  <2>2. CASE order'[o] = None
    BY <1>1, <2>2, Zenon DEF Exact, CashLimit, Slips
  <2> QED
    BY <1>4, <2>1, <2>2
<1>7. ExactInv' /\ \A q \in Requests : job'[q] \in {job[q], None}
  BY <1>1, <1>2, <1>5, <1>6, EndCases
<1> QED
  BY <1>1, <1>7, CasesRest, CasesStay DEF CasesInv, CounterInv

\* A case is opened with more cash than is paid, and less than the total.
LEMMA SendCases ==
    ASSUME CounterInv, TypeOK', CasesInv, Alone', contended \subseteq contended',
           NEW r \in Requests, Send(r)
    PROVE  CasesInv'
<1>1. /\ job[r] # None /\ job[r].op = "send" /\ Finish(r)
      /\ UNCHANGED <<order, paid, stock, counter, decisions, taken>>
  BY DEF Send, Running
<1>2. PICK o \in Orders, s \in Nat : o = job[r].order /\ s = job[r].snapshot
  BY <1>1, JobType DEF CounterInv, Running
<1>3. PICK new : new = [status |-> "NEEDS_CLEARANCE", cash |-> s]
  OBVIOUS
<1>4. new.cash = s /\ new # None
  <2>1. new \in Kases
    BY <1>3 DEF Kases
  <2> QED
    BY <1>3, <2>1, NoneAssumption
<1>5. s < Total[o]
  BY <1>1, <1>2 DEF CasesInv, CasesFit, AskFits
<1>6. /\ \A p \in Orders \ {o} : kase'[p] = kase[p]
      /\ kase'[o] = kase[o] \/ (kase[o] = None /\ kase'[o] = new)
  BY <1>2, <1>3 DEF Send, CounterInv, TypeOK
<1>7. \A p \in Orders \ {o} : Quiet(p)
  BY <1>1, <1>6 DEF Quiet
<1>8. ASSUME Exact(o), JobExact(job[r]) PROVE Exact(o)'
  <2>1. CASE kase'[o] = kase[o]
    BY <1>1, <1>8, <2>1, QuietExact DEF Quiet
  <2>2. CASE kase[o] = None /\ kase'[o] = new
    <3>1. paid[o] <= s
      BY <1>1, <1>2, <1>8 DEF JobExact
    <3>2. o \in Slips => order[o].status # "PARTIALLY_PAID"
      BY <1>8, <2>2 DEF Exact
    <3>3. CashLimit(o)' = s
      BY <1>4, <2>2 DEF CashLimit
    <3> QED
      BY <1>1, <1>8, <3>1, <3>2, <3>3 DEF Exact, Slips
  <2> QED
    BY <1>6, <2>1, <2>2
<1>9. ExactInv' /\ \A q \in Requests : job'[q] \in {job[q], None}
  BY <1>1, <1>2, <1>7, <1>8, EndCases
<1>10. CasesMove
  BY <1>1, <1>4, <1>5, <1>6, <1>9 DEF CasesMove
<1> QED
  BY <1>9, <1>10, CasesStay DEF CasesInv, CounterInv

\* A decision fits the balance it was asked for, and is the first when the
\* requests on the order have not met.
LEMMA DecideCases ==
    ASSUME CounterInv, TypeOK', CasesInv, Alone', contended \subseteq contended',
           NEW r \in Requests, Decide(r)
    PROVE  CasesInv'
<1>1. /\ job[r] # None /\ job[r].op = "decide" /\ Finish(r)
      /\ UNCHANGED <<order, paid, stock, counter, taken>>
  BY DEF Decide, Running
<1>2. PICK o \in Orders : o = job[r].order
  BY <1>1, JobType DEF CounterInv
<1>3. PICK choice \in Nat \cup {None} : choice = job[r].choice
  BY <1>1, JobType DEF CounterInv, Running
<1>4. AskFits(job[r]) /\ kase[o] # None /\ kase[o] \in Kases /\ kase[o].cash \in Nat
  BY <1>1, <1>2 DEF CasesInv, CasesFit, AskFits, CounterInv, TypeOK, Kases
<1>5. PICK b \in Nat : b = Balance(o)
  BY <1>4, SaleAssumption DEF Balance, Positive
<1>6. PICK row : row = Outcome(b, choice)
  OBVIOUS
<1>7. row \in DecisionRows
  BY <1>6, OutcomeType
<1>8. RowFits(o, b, row)
  <2>1. choice # None /\ b - choice > MoneyEps => o \in Accounts
    BY <1>1, <1>2, <1>3, <1>4, <1>5 DEF AskFits
  <2> QED
    BY <1>6, <2>1, OutcomeFits
<1>9. PICK new : new = [kase[o] EXCEPT !.status = "DECIDED"]
  OBVIOUS
<1>10. new.cash = kase[o].cash /\ new # None
  <2>1. new \in Kases /\ new.cash = kase[o].cash
    BY <1>4, <1>9 DEF Kases
  <2> QED
    BY <2>1, NoneAssumption
<1>11. \/ UNCHANGED <<decisions, kase>>
       \/ /\ decisions' = [decisions EXCEPT ![o] = Append(decisions[o], row)]
          /\ kase' = [kase EXCEPT ![o] = new]
  BY <1>2, <1>3, <1>5, <1>6, <1>9 DEF Decide
<1>12. /\ \A p \in Orders \ {o} : decisions'[p] = decisions[p] /\ kase'[p] = kase[p]
       /\ \/ decisions'[o] = decisions[o] /\ kase'[o] = kase[o]
          \/ decisions'[o] = Append(decisions[o], row) /\ kase'[o] = new
  BY <1>11 DEF CounterInv, TypeOK
<1>13. \A p \in Orders \ {o} : Quiet(p)
  BY <1>1, <1>12 DEF Quiet
<1>14. ASSUME Exact(o), JobExact(job[r]) PROVE Exact(o)'
  <2>1. CASE decisions'[o] = decisions[o] /\ kase'[o] = kase[o]
    BY <1>1, <1>14, <2>1, QuietExact DEF Quiet
  <2>2. CASE decisions'[o] = Append(decisions[o], row) /\ kase'[o] = new
    <3>1. decisions[o] = <<>>
      BY <1>1, <1>2, <1>14 DEF JobExact
    <3>2. Len(decisions'[o]) <= 1
      BY <2>2, <3>1
    <3>3. CashLimit(o)' = CashLimit(o)
      BY <1>4, <1>10, <2>2 DEF CashLimit
    <3>4. o \in Slips => order[o].status # "PARTIALLY_PAID"
      <4>1. PICK l \in DecisionRows : l = Latest(o)
        BY LatestRow DEF CounterInv
      <4>2. l.ar = 0 /\ l.discount \in Nat
        BY <3>1, <4>1, LatestRow DEF CounterInv, DecisionRows
      <4>3. PICK m : m = Positive(Total[o] - paid[o])
        OBVIOUS
      <4>4. m \in Nat
        BY <4>3, SaleAssumption DEF Positive, CounterInv, TypeOK
      <4>5. Owed(o, m) = 0
        BY <4>1, <4>2, <4>4 DEF Owed, Smaller, Positive
      <4> QED
        BY <1>14, <4>3, <4>5 DEF Exact
    <3> QED
      BY <1>1, <1>14, <3>2, <3>3, <3>4 DEF Exact, Slips
  <2> QED
    BY <1>12, <2>1, <2>2
<1>15. ExactInv' /\ \A q \in Requests : job'[q] \in {job[q], None}
  BY <1>1, <1>2, <1>13, <1>14, EndCases
<1>16. CasesMove
  BY <1>4, <1>5, <1>7, <1>8, <1>10, <1>12, <1>15 DEF CasesMove
<1> QED
  BY <1>15, <1>16, CasesStay DEF CasesInv, CounterInv

\* A settlement commits what was so when it was checked, and still is.
LEMMA SettleCases ==
    ASSUME CounterInv, TypeOK', CasesInv, Alone', contended \subseteq contended',
           NEW r \in Requests, Settle(r)
    PROVE  CasesInv'
<1>1. /\ job[r] # None /\ job[r].op = "pay" /\ Finish(r)
      /\ kase' = kase /\ decisions' = decisions
  BY DEF Settle, Running
<1>2. PICK j \in Payings : j = job[r]
  BY <1>1, JobType DEF CounterInv, Running
<1>3. PICK o \in Orders : o = j.order
  BY DEF Payings
<1>4. \/ UNCHANGED <<order, paid, stock, counter, taken>>
      \/ /\ o \in Slips
         /\ paid' = [paid EXCEPT ![o] = @ + j.applied]
         /\ taken' = IF j.takes THEN [taken EXCEPT ![o] = @ + 1] ELSE taken
         /\ order' = [order EXCEPT ![o] = Settled(@, j.owed, j.release)]
  BY <1>2, <1>3, Zenon DEF Settle
<1>5. CASE UNCHANGED <<order, paid, stock, counter, taken>>
  <2>1. \A p \in Orders : Quiet(p)
    BY <1>1, <1>5 DEF Quiet
  <2>2. ExactInv' /\ \A q \in Requests : job'[q] \in {job[q], None}
    BY <1>1, <1>2, <1>3, <2>1, EndCases, QuietExact
  <2> QED
    BY <1>1, <2>2, CasesRest, CasesStay DEF CasesInv, CounterInv
<1>6. CASE /\ o \in Slips
           /\ paid' = [paid EXCEPT ![o] = @ + j.applied]
           /\ taken' = IF j.takes THEN [taken EXCEPT ![o] = @ + 1] ELSE taken
           /\ order' = [order EXCEPT ![o] = Settled(@, j.owed, j.release)]
  <2>1. Exact(o) /\ JobExact(job[r]) => Exact(o)'
    BY <1>1, <1>2, <1>3, <1>6, SettledExact DEF CounterInv
  <2>2. \A p \in Orders \ {o} : Quiet(p)
    <3>1. /\ order \in [Orders -> OrderRows \cup {None}]
          /\ paid \in [Orders -> Nat] /\ taken \in [Orders -> Nat]
      BY DEF CounterInv, TypeOK
    <3>2. \A p \in Orders \ {o} :
             order'[p] = order[p] /\ paid'[p] = paid[p] /\ taken'[p] = taken[p]
      BY <1>6, <3>1
    <3> QED
      BY <1>1, <3>2 DEF Quiet
  <2>3. ExactInv' /\ \A q \in Requests : job'[q] \in {job[q], None}
    BY <1>1, <1>2, <1>3, <2>1, <2>2, EndCases
  <2> QED
    BY <1>1, <2>3, CasesRest, CasesStay DEF CasesInv, CounterInv
<1> QED
  BY <1>4, <1>5, <1>6

\* A lock that is lost.
LEMMA UnlockCases ==
    ASSUME CounterInv, TypeOK', CasesInv, Alone', contended \subseteq contended',
           NEW o \in Orders, Unlock(o)
    PROVE  CasesInv'
<1>1. /\ job' = job /\ kase' = kase /\ decisions' = decisions
      /\ \A p \in Orders : Quiet(p)
  BY LockQuiet DEF Unlock
<1>2. \A p \in Orders \ contended' : Exact(p)'
  BY <1>1, QuietExact DEF CasesInv, ExactInv
<1>3. ASSUME NEW q \in Requests, job'[q] # None, job'[q].order \notin contended'
      PROVE  JobExact(job[q])'
  <2>1. PICK j : j = job[q]
    OBVIOUS
  <2>2. j.order \in Orders /\ JobExact(j)
    BY <1>1, <1>3, <2>1, JobType DEF CasesInv, ExactInv, CounterInv
  <2>3. JobExact(j)'
    BY <1>1, <2>2, QuietExact
  <2> QED
    BY <1>1, <2>1, <2>3
<1>4. ExactInv'
  BY <1>2, <1>3 DEF ExactInv
<1> QED
  BY <1>1, <1>4, CasesRest, CasesStay DEF CasesInv, CounterInv

\* Every step keeps them.
LEMMA CasesStep == CounterInv /\ CounterInv' /\ CasesInv /\ [Next]_vars => CasesInv'
<1> SUFFICES ASSUME CounterInv, CounterInv', CasesInv, [Next]_vars PROVE CasesInv'
  OBVIOUS
<1>1. TypeOK /\ TypeOK'
  BY DEF CounterInv
<1>2. CASE UNCHANGED vars
  BY <1>2 DEF vars, CasesInv, CasesFit, ExactInv, Alone, Handling, AskFits, Balance,
              Exact, CashLimit, JobExact, Payable, Slips, Owed, Latest
<1>3. CASE Next
  <2>1. Alone' /\ contended \subseteq contended'
    BY <1>3 DEF Next, Alone
  <2>2. CASE \E r \in Requests : Read(r) \/ Commit(r)
    <3>1. PICK r \in Requests : Read(r) \/ Commit(r)
      BY <2>2
    <3> QED
      BY <1>1, <2>1, <3>1, ReadCases, ClaimCases, DeleteCases, SendCases, DecideCases,
         CheckCases, SettleCases DEF Commit
  <2>3. CASE \E o \in Orders : Unlock(o)
    BY <1>1, <2>1, <2>3, UnlockCases
  <2> QED
    BY <1>3, <2>2, <2>3 DEF Next
<1> QED
  BY <1>2, <1>3

\* They hold before the first request.
LEMMA CasesInit == Init => CasesInv
<1> SUFFICES ASSUME Init PROVE CasesInv
  OBVIOUS
<1>1. \A r \in Requests : job[r] = None
  BY DEF Init
<1>2. \A o \in Orders : kase[o] = None /\ decisions[o] = <<>> /\ paid[o] = 0 /\ taken[o] = 0
  BY DEF Init
<1>3. \A o \in Orders : order[o].status = "UNPAID" /\ ~order[o].released
  BY DEF Init
<1>4. CasesFit
  BY <1>1, <1>2 DEF CasesFit
<1>5. \A o \in Orders : Exact(o)
  BY <1>2, <1>3, SaleAssumption DEF Exact, CashLimit
<1> QED
  BY <1>1, <1>4, <1>5 DEF CasesInv, ExactInv, Alone, Handling

\* At any moment the approvals fit their cases, and the rows of an order whose
\* requests have not met agree.
THEOREM CasesInvariant == Spec => [](CounterInv /\ CasesInv)
BY CounterInvariant, CasesInit, CasesStep, PTL DEF Spec

\* However long a manager takes and whoever else decides, an approval gives no
\* more than the balance, and all of it but for what counts as nothing.
THEOREM ApprovalsCover == Spec => []ApprovalCovers
<1>1. CasesInv => ApprovalCovers
  BY DEF CasesInv, CasesFit, ApprovalCovers, RowFits
<1> QED
  BY <1>1, CasesInvariant, PTL

\* What is paid and put on account is within the total.
LEMMA ExactWithin ==
    ASSUME CounterInv, CasesInv, NEW o \in Orders, Exact(o)
    PROVE  paid[o] + Latest(o).ar <= Total[o]
<1>1. PICK n \in Nat, t \in Nat : n = paid[o] /\ t = Total[o]
  BY SaleAssumption DEF CounterInv, TypeOK
<1>2. PICK l \in DecisionRows : l = Latest(o)
  BY LatestRow DEF CounterInv
<1>3. PICK d \in Nat, a \in Nat : d = l.discount /\ a = l.ar
  BY DEF DecisionRows
<1>4. n <= CashLimit(o)
  BY <1>1 DEF Exact
<1>5. kase[o] # None => kase[o].cash \in Nat /\ kase[o].cash < t
  BY <1>1 DEF CasesInv, CasesFit, CounterInv, TypeOK, Kases
<1>6. CASE decisions[o] = <<>>
  <2>1. a = 0
    BY <1>2, <1>3, <1>6, LatestRow DEF CounterInv
  <2> QED
    BY <1>1, <1>2, <1>3, <1>4, <1>5, <2>1 DEF CashLimit
<1>7. CASE decisions[o] # <<>>
  <2>1. kase[o] # None
    BY <1>7 DEF CasesInv, CasesFit
  <2>2. PICK c \in Nat : c = kase[o].cash
    BY <1>5, <2>1
  <2>3. RowFits(o, Balance(o), l)
    BY <1>2, <1>7, LatestRow DEF CasesInv, CasesFit, CounterInv
  <2>4. d + a <= Balance(o)
    BY <1>3, <2>3 DEF RowFits
  <2>5. Balance(o) = t - c
    BY <1>1, <1>5, <2>1, <2>2 DEF Balance, Positive
  <2>6. n <= c
    BY <1>4, <2>1, <2>2 DEF CashLimit
  <2> QED
    BY <1>1, <1>2, <1>3, <1>5, <2>1, <2>2, <2>4, <2>5, <2>6
<1> QED
  BY <1>6, <1>7

\* Requests on an order that come one after the other take its goods once, get
\* one decision, and never take more than the total from the customer.
THEOREM OneAtATime == Spec => []OneAtATimeIsExact
<1>1. CounterInv /\ CasesInv => OneAtATimeIsExact
  <2> SUFFICES ASSUME CounterInv, CasesInv, NEW o \in Orders \ contended
               PROVE  /\ taken[o] <= 1
                      /\ o \in Slips /\ taken[o] > 0
                            => order[o].status = "PAID" \/ order[o].released
                      /\ Len(decisions[o]) <= 1
                      /\ paid[o] + Latest(o).ar <= Total[o]
    BY DEF OneAtATimeIsExact
  <2>1. Exact(o)
    BY DEF CasesInv, ExactInv
  <2> QED
    BY <2>1, ExactWithin DEF Exact
<1> QED
  BY <1>1, CasesInvariant, PTL

-----------------------------------------------------------------------------
(* The stockroom.  Goods are counted in pieces: opening a pack and selling  *)
(* move them, and only a delivery adds to them.                             *)

PieceWorth(o) == taken[o] * Pieces(Needs[o])

Gone == SumFunction([o \in Orders |-> PieceWorth(o)])

\* An opening was for no more packs than the admin saw.
PagesFit ==
    /\ page \in [Admins -> Pages \cup {None}]
    /\ \A a \in Admins :
          page[a] # None /\ page[a].op = "open" => page[a].packs <= page[a].seen[Pack]

StockInv == PagesFit /\ delivered \in Nat /\ StockAccounted

\* A count of pieces is an integer, and none is negative unless a cell is.
LEMMA PiecesType ==
    ASSUME NEW s \in [Cells -> Int]
    PROVE  Pieces(s) \in Int /\ ((\A c \in Cells : s[c] \in Nat) => Pieces(s) \in Nat)
<1>1. PICK k \in Nat : k = PackSize
  BY StockroomAssumption
<1>2. Pack \in Cells /\ Piece \in Cells
  BY StockroomAssumption
<1>3. PICK a \in Int, b \in Int : a = s[Pack] /\ b = s[Piece]
  BY <1>2
<1>4. Pieces(s) = a * k + b
  BY <1>1, <1>3 DEF Pieces
<1>5. a * k \in Int /\ (a \in Nat => a * k \in Nat)
  BY <1>1
<1> QED
  BY <1>2, <1>3, <1>4, <1>5

\* What is taken from the cells is taken from the count.
LEMMA PiecesTaken ==
    ASSUME NEW s \in [Cells -> Int], NEW t \in [Cells -> Int], NEW u \in [Cells -> Int],
           \A c \in Cells : u[c] = s[c] - t[c]
    PROVE  Pieces(u) = Pieces(s) - Pieces(t)
<1>1. PICK k \in Nat : k = PackSize
  BY StockroomAssumption
<1>2. Pack \in Cells /\ Piece \in Cells
  BY StockroomAssumption
<1>3. PICK a \in Int, b \in Int, c \in Int, d \in Int :
        a = s[Pack] /\ b = s[Piece] /\ c = t[Pack] /\ d = t[Piece]
  BY <1>2
<1>4. /\ Pieces(s) = a * k + b /\ Pieces(t) = c * k + d
      /\ Pieces(u) = (a - c) * k + (b - d)
  BY <1>1, <1>2, <1>3 DEF Pieces
<1> QED
  BY <1>1, <1>4

\* A delivery adds its pieces.
LEMMA PiecesAdded ==
    ASSUME NEW s \in [Cells -> Int], NEW n \in Int
    PROVE  Pieces([s EXCEPT ![Pack] = @ + n]) = Pieces(s) + n * PackSize
<1>1. PICK k \in Nat : k = PackSize
  BY StockroomAssumption
<1>2. Pack \in Cells /\ Piece \in Cells /\ Pack # Piece
  BY StockroomAssumption
<1>3. PICK a \in Int, b \in Int : a = s[Pack] /\ b = s[Piece]
  BY <1>2
<1>4. PICK u : u = [s EXCEPT ![Pack] = @ + n]
  OBVIOUS
<1>5. u[Pack] = a + n /\ u[Piece] = b
  BY <1>2, <1>3, <1>4
<1>6. Pieces(u) = (a + n) * k + b /\ Pieces(s) = a * k + b
  BY <1>1, <1>3, <1>5 DEF Pieces
<1>7. (a + n) * k + b = (a * k + b) + n * k
  BY <1>1
<1> QED
  BY <1>1, <1>4, <1>6, <1>7

\* Opening packs adds none.
LEMMA PiecesOpened ==
    ASSUME NEW s \in [Cells -> Int], NEW n \in Int
    PROVE  Pieces([s EXCEPT ![Pack] = @ - n, ![Piece] = @ + n * PackSize]) = Pieces(s)
<1>1. PICK k \in Nat : k = PackSize
  BY StockroomAssumption
<1>2. Pack \in Cells /\ Piece \in Cells /\ Pack # Piece
  BY StockroomAssumption
<1>3. PICK a \in Int, b \in Int : a = s[Pack] /\ b = s[Piece]
  BY <1>2
<1>4. PICK u : u = [s EXCEPT ![Pack] = @ - n, ![Piece] = @ + n * PackSize]
  OBVIOUS
<1>5. u[Pack] = a - n /\ u[Piece] = b + n * k
  BY <1>1, <1>2, <1>3, <1>4
<1>6. Pieces(u) = (a - n) * k + (b + n * k) /\ Pieces(s) = a * k + b
  BY <1>1, <1>3, <1>5 DEF Pieces
<1>7. (a - n) * k + (b + n * k) = a * k + b
  BY <1>1
<1> QED
  BY <1>1, <1>4, <1>6, <1>7

\* The goods of an order taken once more.
LEMMA GoneGrows ==
    ASSUME TypeOK, NEW o \in Orders, taken' = [taken EXCEPT ![o] = taken[o] + 1]
    PROVE  Gone' = Gone + Pieces(Needs[o]) /\ Gone \in Int
<1>1. taken \in [Orders -> Nat]
  BY DEF TypeOK
<1>2. \A p \in Orders : Pieces(Needs[p]) \in Nat
  <2> SUFFICES ASSUME NEW p \in Orders PROVE Pieces(Needs[p]) \in Nat
    OBVIOUS
  <2>1. PICK n : n = Needs[p]
    OBVIOUS
  <2>2. n \in [Cells -> Int] /\ \A c \in Cells : n[c] \in Nat
    BY <2>1, SaleAssumption
  <2>3. Pieces(n) \in Nat
    BY <2>2, PiecesType
  <2> QED
    BY <2>1, <2>3
<1>3. PICK f : f = [p \in Orders |-> PieceWorth(p)]
  OBVIOUS
<1>4. PICK g : g = [p \in Orders |-> taken'[p] * Pieces(Needs[p])]
  OBVIOUS
<1>5. \A p \in Orders : f[p] \in Int /\ g[p] \in Int
  BY <1>1, <1>2, <1>3, <1>4 DEF PieceWorth
<1>6. \A p \in Orders : p # o => g[p] = f[p]
  BY <1>1, <1>3, <1>4 DEF PieceWorth
<1>7. g[o] - f[o] = Pieces(Needs[o])
  <2>1. PICK t \in Nat, c \in Nat : t = taken[o] /\ c = Pieces(Needs[o])
    BY <1>1, <1>2
  <2>2. f[o] = t * c /\ g[o] = (t + 1) * c
    BY <1>1, <1>3, <1>4, <2>1 DEF PieceWorth
  <2>3. (t + 1) * c - t * c = c
    OBVIOUS
  <2> QED
    BY <2>1, <2>2, <2>3
<1>8. /\ SumFunctionOnSet(g, Orders) = SumFunctionOnSet(f, Orders) + (g[o] - f[o])
      /\ SumFunctionOnSet(f, Orders) \in Int
  <2>1. IsFiniteSet(Orders)
    BY StockroomAssumption
  <2> QED
    BY <1>5, <1>6, <2>1, SumChange
<1>9. Gone = SumFunctionOnSet(f, Orders) /\ Gone' = SumFunctionOnSet(g, Orders)
  BY <1>3, <1>4 DEF Gone, SumFunction, PieceWorth
<1> QED
  BY <1>7, <1>8, <1>9

\* Of the counter's requests, only a settlement moves stock, and it takes what is
\* there.
LEMMA CounterTakes ==
    ASSUME CounterInv, Next
    PROVE  \/ stock' = stock /\ taken' = taken
           \/ \E o \in Orders :
                 /\ InStock(o)
                 /\ stock' = [p \in Cells |-> stock[p] - Needs[o][p]]
                 /\ taken' = [taken EXCEPT ![o] = taken[o] + 1]
<1>1. ASSUME NEW r \in Requests, Settle(r)
      PROVE  \/ stock' = stock /\ taken' = taken
             \/ \E o \in Orders :
                   /\ InStock(o)
                   /\ stock' = [p \in Cells |-> stock[p] - Needs[o][p]]
                   /\ taken' = [taken EXCEPT ![o] = taken[o] + 1]
  <2>1. PICK o \in Orders : o = job[r].order
    BY <1>1, JobType DEF CounterInv, Settle, Running
  <2> QED
    BY <1>1, <2>1 DEF Settle
<1>2. ASSUME NEW r \in Requests, Read(r) PROVE stock' = stock /\ taken' = taken
  BY <1>2, ReadMoves DEF CounterInv, Rows
<1> QED
  BY <1>1, <1>2 DEF Next, Commit, Claim, Delete, Send, Decide, CheckClearance, Unlock

\* A step of the counter keeps the stock accounted for.
LEMMA CounterKeepsStock ==
    ASSUME CounterInv, CounterInv', StockInv, Next, UNCHANGED stockroomVars
    PROVE  StockInv'
<1>1. page' = page /\ delivered' = delivered /\ stale' = stale
  BY DEF stockroomVars
<1>2. PagesFit'
  BY <1>1 DEF StockInv, PagesFit
<1>3. CASE stock' = stock /\ taken' = taken
  BY <1>1, <1>2, <1>3 DEF StockInv, StockAccounted
<1>4. CASE \E o \in Orders :
              /\ InStock(o)
              /\ stock' = [p \in Cells |-> stock[p] - Needs[o][p]]
              /\ taken' = [taken EXCEPT ![o] = taken[o] + 1]
  <2>1. PICK o \in Orders :
          /\ InStock(o)
          /\ stock' = [p \in Cells |-> stock[p] - Needs[o][p]]
          /\ taken' = [taken EXCEPT ![o] = taken[o] + 1]
    BY <1>4
  <2>2. PICK n : n = Needs[o]
    OBVIOUS
  <2>3. /\ stock \in [Cells -> Int] /\ stock' \in [Cells -> Int]
        /\ n \in [Cells -> Int] /\ \A c \in Cells : n[c] \in Nat
    BY <2>2, SaleAssumption DEF CounterInv, TypeOK
  <2>4. \A c \in Cells : stock'[c] = stock[c] - n[c] /\ stock'[c] >= 0
    BY <2>1, <2>2, <2>3 DEF InStock
  <2>5. /\ Pieces(stock) \in Int /\ Pieces(n) \in Int
        /\ Pieces(stock') = Pieces(stock) - Pieces(n)
    BY <2>3, <2>4, PiecesType, PiecesTaken
  <2>6. Gone' = Gone + Pieces(n) /\ Gone \in Int
    BY <2>1, <2>2, GoneGrows DEF CounterInv
  <2>7. Pieces(stock') + Gone' = Pieces(stock) + Gone
    BY <2>5, <2>6
  <2> QED
    BY <1>1, <1>2, <2>4, <2>7 DEF StockInv, StockAccounted, Gone, PieceWorth, Acceptable
<1> QED
  BY <1>3, <1>4, CounterTakes

\* A page of an admin, by its kind.
LEMMA PageType ==
    ASSUME PagesFit, NEW a \in Admins, page[a] # None
    PROVE  /\ page[a].seen \in [Cells -> Int]
           /\ page[a].op = "open" => page[a].packs \in Nat
           /\ page[a].op \in {"open", "form"}
<1>1. page[a] \in Pages
  BY DEF PagesFit
<1> QED
  BY <1>1, StockroomAssumption DEF Pages

\* What an admin reads, commits or gives up keeps the stock accounted for.
LEMMA AdminKeepsStock ==
    ASSUME CounterInv, StockInv, NEW a \in Admins, StockroomStep(a), taken' = taken
    PROVE  StockInv' /\ stock' \in [Cells -> Int]
<1>1. /\ stock \in [Cells -> Int] /\ page \in [Admins -> Pages \cup {None}]
      /\ delivered \in Nat
  BY DEF CounterInv, TypeOK, StockInv, PagesFit
<1>2. Gone' = Gone
  BY DEF Gone, PieceWorth
<1>3. ASSUME Leave(a) PROVE PagesFit'
  BY <1>1, <1>3 DEF Leave, StockInv, PagesFit
<1>4. ASSUME NEW n \in Opens, OpenRead(a, n) PROVE StockInv' /\ stock' \in [Cells -> Int]
  <2>1. PICK p : p = [op |-> "open", packs |-> n, seen |-> stock]
    OBVIOUS
  <2>2. p \in Pages /\ p.packs <= p.seen[Pack]
    BY <1>1, <1>4, <2>1 DEF OpenRead, Pages
  <2>3. page' = [page EXCEPT ![a] = p] /\ UNCHANGED <<stock, delivered, stale>>
    BY <1>4, <2>1 DEF OpenRead
  <2>4. PagesFit'
    BY <1>1, <2>2, <2>3 DEF StockInv, PagesFit
  <2> QED
    BY <1>1, <2>3, <2>4 DEF StockInv, StockAccounted
<1>5. ASSUME EditRead(a) PROVE StockInv' /\ stock' \in [Cells -> Int]
  <2>1. PICK p : p = [op |-> "form", seen |-> stock]
    OBVIOUS
  <2>2. p \in Pages /\ p.op = "form"
    BY <1>1, <2>1 DEF Pages
  <2>3. page' = [page EXCEPT ![a] = p] /\ UNCHANGED <<stock, delivered, stale>>
    BY <1>5, <2>1 DEF EditRead
  <2>4. PagesFit'
    BY <1>1, <2>2, <2>3 DEF StockInv, PagesFit
  <2> QED
    BY <1>1, <2>3, <2>4 DEF StockInv, StockAccounted
<1>6. ASSUME Dismiss(a) PROVE StockInv' /\ stock' \in [Cells -> Int]
  BY <1>1, <1>3, <1>6 DEF Dismiss, StockInv, StockAccounted
<1>7. ASSUME Open(a) PROVE StockInv' /\ stock' \in [Cells -> Int]
  <2>1. page[a] # None /\ page[a].op = "open"
    BY <1>7 DEF Open
  <2>2. PICK n \in Nat, seen \in [Cells -> Int] : n = page[a].packs /\ seen = page[a].seen
    BY <2>1, PageType DEF StockInv
  <2>3. n <= seen[Pack]
    BY <2>1, <2>2 DEF StockInv, PagesFit
  <2>4. stock' = [stock EXCEPT ![Pack] = @ - n, ![Piece] = @ + n * PackSize]
    BY <1>7, <2>2 DEF Open, Unpacked
  <2>5. PagesFit' /\ delivered' = delivered
        /\ stale' = IF stock = seen THEN stale ELSE stale \cup {"open"}
    BY <1>3, <1>7, <2>1, <2>2 DEF Open, Settles
  <2>6. Pieces(stock') = Pieces(stock)
    <3>1. stock \in [Cells -> Int] /\ n \in Int
      BY <1>1
    <3>2. Pieces([stock EXCEPT ![Pack] = @ - n, ![Piece] = @ + n * PackSize]) = Pieces(stock)
      BY <3>1, PiecesOpened
    <3> QED
      BY <2>4, <3>2, Zenon
  <2>7. PICK k \in Nat : k = PackSize
    BY StockroomAssumption
  <2>8. n * k \in Nat
    OBVIOUS
  <2>9. /\ Pack \in Cells /\ Piece \in Cells /\ Pack # Piece /\ Cells = {Pack, Piece}
        /\ stock'[Pack] = stock[Pack] - n
        /\ stock'[Piece] = stock[Piece] + n * k
    BY <1>1, <2>4, <2>7, StockroomAssumption
  <2>10. stock' \in [Cells -> Int]
    <3>1. stock[Pack] - n \in Int /\ stock[Piece] + n * k \in Int
      BY <1>1, <2>8, <2>9
    <3> QED
      BY <1>1, <2>4, <2>7, <3>1
  <2>11. stale' = {} => Acceptable(stock')
    <3> SUFFICES ASSUME stale' = {}, NEW c \in Cells PROVE stock'[c] >= 0
      BY DEF Acceptable
    <3>1. stock = seen /\ stale = {}
      BY <2>5
    <3>2. stock[Pack] >= 0 /\ stock[Piece] >= 0
      BY <2>9, <3>1 DEF StockInv, StockAccounted, Acceptable
    <3> QED
      BY <1>1, <2>3, <2>8, <2>9, <3>1, <3>2
  <2>12. "form" \notin stale' => "form" \notin stale
    BY <2>5
  <2> QED
    BY <1>1, <1>2, <2>5, <2>6, <2>10, <2>11, <2>12
    DEF StockInv, StockAccounted, Gone, PieceWorth
<1>8. ASSUME NEW n \in Deliveries \cup {0}, Save(a, n)
      PROVE  StockInv' /\ stock' \in [Cells -> Int]
  <2>1. page[a] # None /\ page[a].op = "form" /\ n \in Nat
    BY <1>8, StockroomAssumption DEF Save
  <2>2. PICK seen \in [Cells -> Int] : seen = page[a].seen
    BY <2>1, PageType DEF StockInv
  <2>3. /\ Acceptable(seen) /\ stock' = [seen EXCEPT ![Pack] = @ + n]
        /\ delivered' = delivered + n /\ PagesFit'
        /\ stale' = IF stock = seen THEN stale ELSE stale \cup {"form"}
    BY <1>3, <1>8, <2>1, <2>2 DEF Save, Settles
  <2>4. /\ stock' \in [Cells -> Int] /\ Pack \in Cells
        /\ \A c \in Cells : stock'[c] >= 0
    <3>1. Pack \in Cells /\ seen[Pack] + n \in Int
      BY <2>1, <2>2, StockroomAssumption
    <3>2. \A c \in Cells : stock'[c] = IF c = Pack THEN seen[c] + n ELSE seen[c]
      BY <2>2, <2>3
    <3>3. \A c \in Cells : seen[c] \in Int /\ seen[c] >= 0
      BY <2>2, <2>3 DEF Acceptable
    <3> QED
      BY <2>1, <2>2, <2>3, <3>1, <3>2, <3>3
  <2>5. ASSUME "form" \notin stale'
        PROVE  Pieces(stock') + Gone
                 = Pieces([c \in Cells |-> InitialStock]) + delivered' * PackSize
    <3>1. stock = seen /\ "form" \notin stale
      BY <2>3, <2>5
    <3>2. Pieces(stock') = Pieces(stock) + n * PackSize
      BY <2>1, <2>2, <2>3, <3>1, PiecesAdded
    <3>3. PICK k \in Nat : k = PackSize
      BY StockroomAssumption
    <3>4. PICK first \in Int, now \in Int, gone \in Int :
            /\ first = Pieces([c \in Cells |-> InitialStock])
            /\ now = Pieces(stock) /\ gone = Gone
      <4>1. [c \in Cells |-> InitialStock] \in [Cells -> Int]
        BY SaleAssumption
      <4>2. Gone \in Int
        <5>1. PICK f : f = [o \in Orders |-> PieceWorth(o)]
          OBVIOUS
        <5>2. \A o \in Orders : f[o] \in Int
          <6> SUFFICES ASSUME NEW o \in Orders PROVE PieceWorth(o) \in Int
            BY <5>1
          <6>1. PICK u : u = Needs[o]
            OBVIOUS
          <6>2. u \in [Cells -> Int]
            BY <6>1, SaleAssumption
          <6>3. taken[o] \in Int /\ Pieces(Needs[o]) \in Int
            BY <6>1, <6>2, PiecesType DEF CounterInv, TypeOK
          <6> QED
            BY <6>3 DEF PieceWorth
        <5>3. IsFiniteSet(Orders) /\ Gone = SumFunctionOnSet(f, Orders)
          BY <5>1, StockroomAssumption DEF Gone, SumFunction
        <5> QED
          BY <5>2, <5>3, SumType
      <4> QED
        BY <1>1, <4>1, <4>2, PiecesType
    <3>5. now + gone = first + delivered * k
      BY <3>1, <3>3, <3>4 DEF StockInv, StockAccounted, Gone, PieceWorth
    <3>6. delivered' * k = delivered * k + n * k /\ n * k \in Int /\ delivered * k \in Int
      BY <1>1, <2>1, <2>3
    <3> QED
      BY <3>2, <3>3, <3>4, <3>5, <3>6
  <2>6. delivered' \in Nat
    BY <1>1, <2>1, <2>3
  <2> QED
    BY <1>2, <2>3, <2>4, <2>5, <2>6
    DEF StockInv, StockAccounted, Gone, PieceWorth, Acceptable
<1> QED
  BY <1>4, <1>5, <1>6, <1>7, <1>8 DEF StockroomStep

\* At first every unit is on the shelf.
LEMMA StockBegins == Init /\ StockroomInit => CounterInv /\ StockInv
<1> SUFFICES ASSUME Init, StockroomInit PROVE CounterInv /\ StockInv
  OBVIOUS
<1>1. CounterInv
  BY InitHolds
<1>2. PagesFit
  BY DEF StockroomInit, PagesFit
<1>3. Gone = 0
  <2>1. PICK f : f = [o \in Orders |-> PieceWorth(o)]
    OBVIOUS
  <2>2. \A o \in Orders : f[o] = 0
    <3> SUFFICES ASSUME NEW o \in Orders PROVE PieceWorth(o) = 0
      BY <2>1
    <3>1. PICK u : u = Needs[o]
      OBVIOUS
    <3>2. u \in [Cells -> Int]
      BY <3>1, SaleAssumption
    <3>3. PICK n \in Int : n = Pieces(Needs[o])
      BY <3>1, <3>2, PiecesType
    <3>4. taken[o] = 0
      BY DEF Init
    <3> QED
      BY <3>3, <3>4 DEF PieceWorth
  <2>3. IsFiniteSet(Orders) /\ Gone = SumFunctionOnSet(f, Orders)
    BY <2>1, StockroomAssumption DEF Gone, SumFunction
  <2> QED
    BY <2>2, <2>3, SumNat
<1>4. PICK first \in Int : first = Pieces(stock)
  BY <1>1, PiecesType DEF CounterInv, TypeOK
<1>5. stock = [c \in Cells |-> InitialStock] /\ delivered = 0
  BY DEF Init, StockroomInit
<1>6. delivered * PackSize = 0
  BY <1>5, StockroomAssumption
<1>7. Acceptable(stock)
  BY <1>5, SaleAssumption DEF Acceptable
<1> QED
  BY <1>1, <1>2, <1>3, <1>4, <1>5, <1>6, <1>7
  DEF StockInv, StockAccounted, Gone, PieceWorth

\* However sales, openings and deliveries interleave, no goods appear or vanish
\* unless a form overwrote counters that had moved, and none is sold that is not
\* there unless an opening too came late.
THEOREM StockIsAccounted == StockroomSpec => []StockAccounted
<1>1. CounterInv /\ StockInv /\ [StockroomNext]_<<vars, stockroomVars>>
        => (CounterInv /\ StockInv)'
  <2> SUFFICES ASSUME CounterInv, StockInv, [StockroomNext]_<<vars, stockroomVars>>
               PROVE  CounterInv' /\ StockInv'
    OBVIOUS
  <2>1. CASE UNCHANGED <<vars, stockroomVars>>
    <3>1. CounterInv'
      BY <2>1, StepKeeps
    <3>2. stock' = stock /\ taken' = taken /\ UNCHANGED stockroomVars
      BY <2>1 DEF vars
    <3> QED
      BY <3>1, <3>2 DEF StockInv, PagesFit, StockAccounted, stockroomVars
  <2>2. CASE Next /\ UNCHANGED stockroomVars
    BY <2>2, StepKeeps, CounterKeepsStock
  <2>3. ASSUME NEW a \in Admins, StockroomStep(a),
               UNCHANGED <<order, paid, counter, kase, decisions, job, taken, contended>>
        PROVE  CounterInv' /\ StockInv'
    <3>1. StockInv' /\ stock' \in [Cells -> Int]
      BY <2>3, AdminKeepsStock
    <3>2. CounterInv'
      BY <2>3, <3>1 DEF CounterInv, TypeOK, Slips, JobsFit, Fits, Full, Partial, Released,
                        SaleCovered, GoodsFollowSettlement, OrderRows, Jobs
    <3> QED
      BY <3>1, <3>2
  <2> QED
    BY <2>1, <2>2, <2>3 DEF StockroomNext
<1>2. StockInv => StockAccounted
  BY DEF StockInv
<1> QED
  BY <1>1, <1>2, StockBegins, PTL DEF StockroomSpec

=============================================================================
