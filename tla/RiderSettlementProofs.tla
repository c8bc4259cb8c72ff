----------------------- MODULE RiderSettlementProofs -----------------------
(***************************************************************************)
(* What RiderSettlement guarantees for any orders, totals, cashiers and    *)
(* overlapping requests: that a settled run leaves no cash unexplained;    *)
(* that the rows of an order are exact as long as its requests come one    *)
(* after the other; that a run short of cash is settled with an answer.    *)
(* The first is not inductive by itself: a request commits a status, or    *)
(* settles the run, on what it read earlier.  The invariant adds that what *)
(* it read still suffices, because the cash and the bridge of an order     *)
(* only grow.  The others need what it read to be still true, and hold     *)
(* while nobody else has the order in hand.                                *)
(***************************************************************************)
EXTENDS RiderSettlement, SumProofs

\* The cash of an order is in a drawer, or reported short.
Accounted(o) == riderCash[o] <= account[o].cash + account[o].bridge

\* A rider brings no more than the total, and nothing for a failed delivery.
BroughtOK ==
    \A o \in Drops : /\ riderCash[o] <= Total[o]
                     /\ o \notin released => riderCash[o] = 0

PaidOK ==
    \A o \in Drops : account[o].status = "PAID" =>
        Total[o] <= account[o].cash + account[o].bridge

ShortOK ==
    \A o \in Drops : shortage[o] # Nil =>
        shortage[o].actual <= shortage[o].expected

\* A remit that will mark the order PAID still has what that takes, and a
\* settlement still finds every order accounted for; a variance is never deleted.
AskOK(j) ==
    /\ j.op = "remit" =>
          /\ j.cash <= riderCash[j.on]
          /\ j.paidUp => Total[j.on] <= account[j.on].cash + account[j.on].bridge
                                        + j.cash + j.bridge
    /\ j.op \in {"decide", "accept"} => shortage[j.on] # Nil
    /\ j.op = "finalize" => /\ \A o \in Drops : Accounted(o)
                            /\ j.on # Nil => shortage[j.on] # Nil

AsksOK == \A t \in Remits : asked[t] # Nil => AskOK(asked[t])

CashInv ==
    /\ CashTypeOK
    /\ BroughtOK
    /\ PaidOK
    /\ ShortOK
    /\ AsksOK
    /\ SettledAccounted

-----------------------------------------------------------------------------
(* Lemmas *)

\* What is still due is between nothing and what the rider had.
LEMMA DueRange ==
    ASSUME CashTypeOK, NEW o \in Drops
    PROVE  /\ riderCash[o] \in Nat
           /\ account[o].cash \in Nat
           /\ account[o].bridge \in Nat
           /\ Due(o) \in 0 .. riderCash[o]
           /\ Due(o) = 0 => riderCash[o] <= account[o].cash
<1>1. account[o] \in Accounts /\ riderCash[o] \in Nat
  BY DEF CashTypeOK
<1>2. account[o].cash \in Nat /\ account[o].bridge \in Nat
  BY <1>1 DEF Accounts
<1> QED
  BY <1>1, <1>2 DEF Due, AtMost

\* A remit reads amounts that exist, and applies no more than the rider had.
LEMMA RemitAskType ==
    ASSUME CashTypeOK, NEW t \in Remits, NEW c \in Cashiers, NEW o \in Drops,
           NEW n \in Counted, RemitAsk(t, c, o, n)
    PROVE  \E j \in Asks :
              /\ asked' = [asked EXCEPT ![t] = j]
              /\ j.op = "remit" /\ j.on = o
              /\ j.cash <= riderCash[o]
              /\ j.paidUp => Total[o] <= account[o].cash + account[o].bridge
                                         + j.cash + j.bridge
<1> DEFINE applied == AppliedCash(n, o)
           bridge == Bridge(o, applied)
           left == Remaining(o, applied, bridge)
           j == [op |-> "remit", on |-> o, cash |-> applied, bridge |-> bridge,
                 paidUp |-> left = 0]
<1>1. /\ riderCash[o] \in Nat
      /\ account[o].cash \in Nat /\ account[o].bridge \in Nat
      /\ Due(o) \in 0 .. riderCash[o]
  BY DueRange
<1>2. n \in Nat /\ Total[o] \in Nat
  BY SettlementAssumption
<1>3. applied \in Nat /\ applied <= Due(o)
  BY <1>1, <1>2 DEF AppliedCash, AtMost
<1>4. bridge \in Nat
  BY <1>1, <1>3 DEF Bridge
<1>5. left = 0 => Total[o] <= account[o].cash + account[o].bridge + applied + bridge
  BY <1>1, <1>2, <1>3, <1>4 DEF Remaining, Positive
<1>6. j \in Asks
  BY <1>3, <1>4 DEF Asks
<1>7. asked' = [asked EXCEPT ![t] = j]
  BY DEF RemitAsk, Ask
<1>8. /\ j.op = "remit" /\ j.on = o
      /\ j.cash = applied /\ j.bridge = bridge /\ j.paidUp = (left = 0)
  OBVIOUS
<1>9. j.cash <= riderCash[o]
  BY <1>1, <1>3, <1>8
<1> HIDE DEF j, applied, bridge, left
<1> QED
  BY <1>5, <1>6, <1>7, <1>8, <1>9

\* A remitted order is a row again, with more cash and more bridge.
LEMMA RemittedType ==
    ASSUME NEW row \in Accounts,
           NEW j \in [op : {"remit"}, on : Drops, cash : Nat, bridge : Nat,
                      paidUp : BOOLEAN]
    PROVE  /\ Remitted(row, j) \in Accounts
           /\ Remitted(row, j).cash = row.cash + j.cash
           /\ Remitted(row, j).bridge = row.bridge + j.bridge
           /\ Remitted(row, j).status = IF j.paidUp THEN "PAID" ELSE "PARTIALLY_PAID"
<1>1. PICK c \in Nat, b \in Nat, st \in {"PAID", "PARTIALLY_PAID"} :
         /\ c = row.cash + j.cash /\ b = row.bridge + j.bridge
         /\ st = IF j.paidUp THEN "PAID" ELSE "PARTIALLY_PAID"
  BY DEF Accounts
<1>2. Remitted(row, j) = [row EXCEPT !.cash = c, !.bridge = b, !.status = st,
                                     !.lock = Nil, !.stale = FALSE]
  BY <1>1 DEF Remitted
<1> QED
  BY <1>1, <1>2 DEF Accounts

\* A reported shortage is a row with the cash the rider had and the cash counted.
LEMMA ReportedType ==
    ASSUME CashTypeOK, NEW o \in Drops,
           NEW j \in [op : {"remit"}, on : Drops, cash : Nat, bridge : Nat,
                      paidUp : BOOLEAN]
    PROVE  /\ Reported(shortage[o], o, j) \in Shortages
           /\ Reported(shortage[o], o, j).expected = riderCash[o]
           /\ Reported(shortage[o], o, j).actual = j.cash
<1> DEFINE seen == Cardinality({p \in Drops : shortage[p] # Nil})
<1>1. seen \in Nat
  <2>1. PICK S \in SUBSET Drops : S = {p \in Drops : shortage[p] # Nil}
    OBVIOUS
  <2>2. IsFiniteSet(S)
    BY SettlementAssumption, FS_Subset
  <2> QED
    BY <2>1, <2>2, FS_CardinalityType
<1>2. PICK n \in Nat : n = seen + 1
  <2> HIDE DEF seen
  <2> QED
    BY <1>1
<1>3. PICK a \in Nat, b \in Nat : a = riderCash[o] /\ b = j.cash
  BY DEF CashTypeOK
<1>4. CASE shortage[o] = Nil
  <2>1. Reported(shortage[o], o, j) =
          [id |-> n, status |-> "OPEN", expected |-> a, actual |-> b,
           verdict |-> Nil, accepted |-> FALSE]
    BY <1>2, <1>3, <1>4 DEF Reported
  <2> QED
    BY <1>3, <2>1 DEF Shortages
<1>5. CASE shortage[o] # Nil
  <2>1. shortage[o] \in Shortages
    BY <1>5 DEF CashTypeOK
  <2>2. Reported(shortage[o], o, j) =
          [shortage[o] EXCEPT !.status = "OPEN", !.expected = a, !.actual = b]
    BY <1>3, <1>5 DEF Reported
  <2> QED
    BY <1>3, <2>1, <2>2 DEF Shortages
<1> QED
  BY <1>4, <1>5

\* Every action keeps the shape of the rows.
LEMMA CashTypeStep ==
    ASSUME CashTypeOK, ShortOK, AsksOK, CashStep
    PROVE  /\ runState' \in {"CLOSED", "SETTLED"}
           /\ released' = released /\ riderCash' = riderCash
           /\ account' \in [Drops -> Accounts]
           /\ shortage' \in [Drops -> Shortages \cup {Nil}]
           /\ debt' \in [Drops -> Debts \cup {Nil}]
           /\ asked' \in [Remits -> Asks \cup {Nil}]
<1> DEFINE Typed == /\ runState' \in {"CLOSED", "SETTLED"}
                    /\ released' = released /\ riderCash' = riderCash
                    /\ account' \in [Drops -> Accounts]
                    /\ shortage' \in [Drops -> Shortages \cup {Nil}]
                    /\ debt' \in [Drops -> Debts \cup {Nil}]
                    /\ asked' \in [Remits -> Asks \cup {Nil}]
<1> SUFFICES Typed
  OBVIOUS
<1>1. ASSUME NEW c \in Cashiers, NEW o \in Drops, OpenRemit(c, o) PROVE Typed
  <2>1. [account[o] EXCEPT !.lock = c, !.stale = FALSE] \in Accounts
    BY DEF CashTypeOK, Accounts
  <2>2. account' = [account EXCEPT ![o] = [account[o] EXCEPT !.lock = c, !.stale = FALSE]]
    BY <1>1 DEF OpenRemit, CashTypeOK
  <2> QED
    BY <1>1, <2>1, <2>2 DEF OpenRemit, CashTypeOK
<1>2. ASSUME NEW o \in Drops, LockExpires(o) PROVE Typed
  <2>1. [account[o] EXCEPT !.stale = TRUE] \in Accounts
    BY DEF CashTypeOK, Accounts
  <2> QED
    BY <1>2, <2>1 DEF LockExpires, CashTypeOK
<1>3. ASSUME NEW o \in Drops, PlanDeduction(o) PROVE Typed
  <2>1. [debt[o] EXCEPT !.plan = TRUE] \in Debts
    BY <1>3 DEF PlanDeduction, CashTypeOK, Debts
  <2> QED
    BY <1>3, <2>1 DEF PlanDeduction, CashTypeOK
<1>4. ASSUME NEW o \in Drops, NEW pay \in 1 .. Total[o], Deduct(o, pay) PROVE Typed
  <2>1. debt[o] \in Debts /\ pay \in Nat
    BY <1>4, SettlementAssumption DEF Deduct, CashTypeOK
  <2>2. Collected(debt[o], pay) \in Debts
    <3>1. /\ debt[o].paid \in Nat /\ debt[o].amount \in Nat
          /\ debt[o] \in [amount : Nat, paid : Nat, plan : BOOLEAN,
                       status : {"OPEN", "PARTIALLY_SETTLED", "SETTLED", "WAIVED"}]
      BY <2>1 DEF Debts
    <3>2. PICK sum \in Nat, st \in {"SETTLED", "PARTIALLY_SETTLED"} :
             sum = debt[o].paid + pay /\ st = SettlesDebt(debt[o], pay)
      BY <2>1, <3>1 DEF SettlesDebt
    <3>3. Collected(debt[o], pay) = [debt[o] EXCEPT !.paid = sum, !.status = st]
      BY <3>2 DEF Collected
    <3> QED
      BY <3>1, <3>2, <3>3 DEF Debts
  <2>3. ASSUME NEW S, HasShortage(o, S), NEW v \in {"CLOSED", "PARTIALLY_SETTLED"}
        PROVE  [shortage[o] EXCEPT !.status = v] \in Shortages
    BY <2>3 DEF HasShortage, CashTypeOK, Shortages
  <2>4. shortage' \in [Drops -> Shortages \cup {Nil}]
    BY <1>4, <2>3 DEF Deduct, CashTypeOK
  <2> QED
    BY <1>4, <2>2, <2>4 DEF Deduct, CashTypeOK
<1>5. ASSUME NEW c \in Cashiers, ClaimRun(c) PROVE Typed
  <2>1. \A o \in Drops : [account[o] EXCEPT !.lock = c, !.stale = FALSE] \in Accounts
    BY DEF CashTypeOK, Accounts
  <2> QED
    BY <1>5, <2>1 DEF ClaimRun, CashTypeOK
<1>6. ASSUME AutoSettle PROVE Typed
  BY <1>6 DEF AutoSettle, CashTypeOK
<1>7. ASSUME NEW t \in Remits, NEW c \in Cashiers, NEW o \in Drops,
             NEW n \in Counted, RemitAsk(t, c, o, n)
      PROVE  Typed
  <2>1. asked' \in [Remits -> Asks \cup {Nil}]
    BY <1>7, RemitAskType DEF CashTypeOK
  <2> QED
    BY <1>7, <2>1 DEF RemitAsk, CashTypeOK
<1>8. ASSUME NEW t \in Remits, NEW o \in Drops, NEW v \in Verdicts, DecideAsk(t, o, v)
      PROVE  Typed
  <2>1. shortage[o] \in Shortages /\ shortage[o].actual <= shortage[o].expected
    BY <1>8 DEF DecideAsk, HasShortage, CashTypeOK, ShortOK
  <2>2. Short(o) \in Nat
    BY <2>1 DEF Short, Shortages
  <2>3. [op |-> "decide", on |-> o, verdict |-> v, short |-> Short(o)] \in Asks
    BY <2>2 DEF Asks
  <2> QED
    BY <1>8, <2>3 DEF DecideAsk, Ask, CashTypeOK
<1>9. ASSUME NEW t \in Remits, NEW o \in Drops, AcceptAsk(t, o) PROVE Typed
  <2>1. shortage[o] \in Shortages /\ shortage[o].actual <= shortage[o].expected
    BY <1>9 DEF AcceptAsk, HasShortage, CashTypeOK, ShortOK
  <2>2. Short(o) \in Nat
    BY <2>1 DEF Short, Shortages
  <2>3. [op |-> "accept", on |-> o, short |-> Short(o)] \in Asks
    BY <2>2 DEF Asks
  <2> QED
    BY <1>9, <2>3 DEF AcceptAsk, Ask, CashTypeOK
<1>10. ASSUME NEW t \in Remits, FinalizeAsk(t) PROVE Typed
  <2>1. Newest \subseteq Drops
    BY DEF Newest, Pending
  <2>2. \A o \in Drops \cup {Nil} : [op |-> "finalize", on |-> o] \in Asks
    BY DEF Asks
  <2> QED
    BY <1>10, <2>1, <2>2 DEF FinalizeAsk, Ask, CashTypeOK
<1>11. ASSUME NEW t \in Remits, Remit(t) PROVE Typed
  <2> DEFINE j == asked[t]
  <2>1. j \in [op : {"remit"}, on : Drops, cash : Nat, bridge : Nat, paidUp : BOOLEAN]
    BY <1>11 DEF Remit, Asking, CashTypeOK, Asks
  <2>2. account[j.on] \in Accounts /\ riderCash[j.on] \in Nat
    BY <2>1 DEF CashTypeOK
  <2>3. Remitted(account[j.on], j) \in Accounts
    BY <2>1, <2>2, RemittedType
  <2>5. Reported(shortage[j.on], j.on, j) \in Shortages
    BY <2>1, ReportedType
  <2>6. asked' \in [Remits -> Asks \cup {Nil}]
    BY <1>11 DEF Remit, Answer, CashTypeOK
  <2>7. account' \in [Drops -> Accounts]
    BY <1>11, <2>1, <2>3 DEF Remit, CashTypeOK
  <2>8. shortage' \in [Drops -> Shortages \cup {Nil}]
    BY <1>11, <2>1, <2>5 DEF Remit, CashTypeOK
  <2> QED
    BY <1>11, <2>6, <2>7, <2>8 DEF Remit, CashTypeOK
<1>12. ASSUME NEW t \in Remits, DecideShort(t) PROVE Typed
  <2> DEFINE j == asked[t]
  <2>1. j \in [op : {"decide"}, on : Drops, verdict : Verdicts, short : Nat]
    BY <1>12 DEF DecideShort, Asking, CashTypeOK, Asks
  <2>2. debt[j.on] \in Debts \cup {Nil}
    BY <2>1 DEF CashTypeOK
  <2>3. Charged(debt[j.on], j.short) \in Debts
    BY <2>1, <2>2 DEF Charged, Debts
  <2>4. Forgiven(debt[j.on]) \in Debts \cup {Nil}
    BY <2>2 DEF Forgiven, Debts
  <2>5. asked' \in [Remits -> Asks \cup {Nil}]
    BY <1>12 DEF DecideShort, Answer, CashTypeOK
  <2>6. debt' \in [Drops -> Debts \cup {Nil}]
    BY <1>12, <2>1, <2>2, <2>3, <2>4 DEF DecideShort, CashTypeOK
  <2>7. shortage' \in [Drops -> Shortages \cup {Nil}]
    <3>1. shortage[j.on] \in Shortages
      BY <1>12, <2>1 DEF DecideShort, Asking, CashTypeOK, AsksOK, AskOK
    <3>2. PICK st \in {"WAIVED", "MANAGER_APPROVED"} :
             st = IF j.verdict = "WAIVE" THEN "WAIVED" ELSE "MANAGER_APPROVED"
      OBVIOUS
    <3>3. [shortage[j.on] EXCEPT !.verdict = j.verdict, !.status = st] \in Shortages
      BY <2>1, <3>1 DEF Shortages
    <3>4. shortage' = [shortage EXCEPT
             ![j.on] = [shortage[j.on] EXCEPT !.verdict = j.verdict, !.status = st]]
      BY <1>12, <2>1, <3>2 DEF DecideShort, CashTypeOK
    <3> QED
      BY <2>1, <3>3, <3>4 DEF CashTypeOK
  <2> QED
    BY <1>12, <2>5, <2>6, <2>7 DEF DecideShort, CashTypeOK
<1>13. ASSUME NEW t \in Remits, Accept(t) PROVE Typed
  <2> DEFINE j == asked[t]
  <2>1. j \in [op : {"accept"}, on : Drops, short : Nat]
    BY <1>13 DEF Accept, Asking, CashTypeOK, Asks
  <2>2. shortage[j.on] \in Shortages /\ debt[j.on] \in Debts \cup {Nil}
    BY <1>13, <2>1 DEF Accept, Asking, CashTypeOK, AsksOK, AskOK
  <2>3. [shortage[j.on] EXCEPT !.status = "RIDER_ACCEPTED", !.accepted = TRUE]
           \in Shortages
    BY <2>2 DEF Shortages
  <2>4. shortage' = [shortage EXCEPT
           ![j.on] = [shortage[j.on] EXCEPT !.status = "RIDER_ACCEPTED",
                                            !.accepted = TRUE]]
    BY <1>13, <2>1 DEF Accept, CashTypeOK
  <2>5. [Charged(Nil, j.short) EXCEPT !.plan = TRUE] \in Debts
    BY <2>1 DEF Charged, Debts
  <2>6. debt[j.on] # Nil => [debt[j.on] EXCEPT !.status = "OPEN", !.plan = TRUE] \in Debts
    BY <2>2 DEF Debts
  <2>7. debt' \in [Drops -> Debts \cup {Nil}]
    BY <1>13, <2>1, <2>5, <2>6 DEF Accept, CashTypeOK
  <2>8. asked' \in [Remits -> Asks \cup {Nil}]
    BY <1>13 DEF Accept, Answer, CashTypeOK
  <2>9. shortage' \in [Drops -> Shortages \cup {Nil}]
    BY <2>1, <2>3, <2>4 DEF CashTypeOK
  <2> QED
    BY <1>13, <2>7, <2>8, <2>9 DEF Accept, CashTypeOK
<1>14. ASSUME NEW t \in Remits, Finalize(t) PROVE Typed
  <2> DEFINE o == asked[t].on
  <2>1. asked[t] \in [op : {"finalize"}, on : Drops \cup {Nil}]
    BY <1>14 DEF Finalize, Asking, CashTypeOK, Asks
  <2>2. shortage' \in [Drops -> Shortages \cup {Nil}]
    <3>1. CASE o = Nil
      BY <1>14, <3>1 DEF Finalize, CashTypeOK
    <3>2. CASE o # Nil
      <4>1. o \in Drops /\ shortage[o] \in Shortages
        BY <1>14, <2>1, <3>2 DEF Finalize, Asking, CashTypeOK, AsksOK, AskOK
      <4>2. [shortage[o] EXCEPT !.status = "CLOSED"] \in Shortages
        BY <4>1 DEF Shortages
      <4> QED
        BY <1>14, <3>2, <4>1, <4>2 DEF Finalize, CashTypeOK
    <3> QED
      BY <3>1, <3>2
  <2> QED
    BY <1>14, <2>2 DEF Finalize, Answer, CashTypeOK
<1>15. ASSUME NEW t \in Remits, GiveUp(t) PROVE Typed
  BY <1>15 DEF GiveUp, Answer, CashTypeOK
<1> HIDE DEF Typed
<1> QED
  BY <1>1, <1>2, <1>3, <1>4, <1>5, <1>6, <1>7, <1>8, <1>9, <1>10, <1>11, <1>12, <1>13,
     <1>14, <1>15 DEF CashStep
\* Only the remit of an order changes what was received and bridged for it.
LEMMA AccountChange ==
    ASSUME CashTypeOK, CashStep, NEW o \in Drops
    PROVE  \/ /\ account'[o].cash = account[o].cash
              /\ account'[o].bridge = account[o].bridge
              /\ account'[o].status = account[o].status
           \/ \E t \in Remits :
                 /\ Remit(t) /\ Asking(t, "remit") /\ asked[t].on = o
                 /\ account'[o].cash = account[o].cash + asked[t].cash
                 /\ account'[o].bridge = account[o].bridge + asked[t].bridge
                 /\ account'[o].status = IF asked[t].paidUp THEN "PAID"
                                         ELSE "PARTIALLY_PAID"
<1> DEFINE Same == /\ account'[o].cash = account[o].cash
                   /\ account'[o].bridge = account[o].bridge
                   /\ account'[o].status = account[o].status
<1>1. account[o] \in Accounts
  BY DEF CashTypeOK
<1>2. ASSUME NEW row \in Accounts, NEW c, NEW b
      PROVE  LET new == [row EXCEPT !.lock = c, !.stale = b] IN
             /\ new.cash = row.cash /\ new.bridge = row.bridge
             /\ new.status = row.status
  BY DEF Accounts
<1>3. ASSUME NEW c \in Cashiers, NEW p \in Drops, OpenRemit(c, p) PROVE Same
  <2>1. account' = [account EXCEPT ![p] = [account[p] EXCEPT !.lock = c, !.stale = FALSE]]
    BY <1>3 DEF OpenRemit, CashTypeOK
  <2> QED
    BY <1>1, <1>2, <2>1 DEF CashTypeOK
<1>4. ASSUME NEW p \in Drops, LockExpires(p) PROVE Same
  <2>1. account' = [account EXCEPT ![p] = [account[p] EXCEPT !.stale = TRUE]]
    BY <1>4 DEF LockExpires, CashTypeOK
  <2> QED
    BY <1>1, <2>1 DEF CashTypeOK, Accounts
<1>5. ASSUME NEW c \in Cashiers, ClaimRun(c) PROVE Same
  <2>1. \/ account'[o] = [account[o] EXCEPT !.lock = c, !.stale = FALSE]
        \/ account'[o] = account[o]
    BY <1>5 DEF ClaimRun
  <2>2. account'[o] = [account[o] EXCEPT !.lock = c, !.stale = FALSE] => Same
    BY <1>1, <1>2
  <2>3. account'[o] = account[o] => Same
    OBVIOUS
  <2> QED
    BY <2>1, <2>2, <2>3
<1>6. ASSUME NEW t \in Remits, Remit(t), asked[t].on # o PROVE Same
  <2>1. account'[o] = account[o]
    BY <1>6 DEF Remit, CashTypeOK
  <2> QED
    BY <2>1
<1>7. ASSUME NEW t \in Remits, Remit(t), asked[t].on = o
      PROVE  /\ Remit(t) /\ Asking(t, "remit")
             /\ account'[o].cash = account[o].cash + asked[t].cash
             /\ account'[o].bridge = account[o].bridge + asked[t].bridge
             /\ account'[o].status = IF asked[t].paidUp THEN "PAID" ELSE "PARTIALLY_PAID"
  <2>1. asked[t] \in [op : {"remit"}, on : Drops, cash : Nat, bridge : Nat,
                      paidUp : BOOLEAN]
    BY <1>7 DEF Remit, Asking, CashTypeOK, Asks
  <2>2. account'[o] = Remitted(account[o], asked[t])
    BY <1>7 DEF Remit, CashTypeOK
  <2>3. Remit(t) /\ Asking(t, "remit")
    BY <1>7 DEF Remit
  <2> QED
    BY <1>1, <2>1, <2>2, <2>3, RemittedType
<1>8. account' = account => Same
  OBVIOUS
<1>9. CASE \E t \in Remits : Remit(t)
  BY <1>6, <1>7, <1>9
<1>10. CASE ~\E t \in Remits : Remit(t)
  <2> HIDE DEF Same
  <2>1. Same
    <3>1. (\E p \in Drops : PlanDeduction(p) \/ \E pay \in 1 .. Total[p] : Deduct(p, pay))
             => Same
      BY <1>8 DEF PlanDeduction, Deduct
    <3>2. AutoSettle => Same
      BY <1>8 DEF AutoSettle
    <3>3. ASSUME NEW t \in Remits,
                 \/ \E c \in Cashiers, p \in Drops, n \in Counted : RemitAsk(t, c, p, n)
                 \/ \E p \in Drops, v \in Verdicts : DecideAsk(t, p, v)
                 \/ \E p \in Drops : AcceptAsk(t, p)
                 \/ FinalizeAsk(t)
                 \/ DecideShort(t) \/ Accept(t) \/ Finalize(t) \/ GiveUp(t)
          PROVE  Same
      BY <1>8, <3>3 DEF RemitAsk, DecideAsk, AcceptAsk, FinalizeAsk, DecideShort, Accept,
                        Finalize, GiveUp
    <3> QED
      BY <1>3, <1>4, <1>5, <1>10, <3>1, <3>2, <3>3 DEF CashStep
  <2> QED
    BY <2>1 DEF Same
<1> QED
  BY <1>9, <1>10

\* A remit reports a shortage; every other handler leaves its amounts as they are.
LEMMA ShortageChange ==
    ASSUME CashTypeOK, AsksOK, CashStep, NEW o \in Drops
    PROVE  \/ shortage'[o] = shortage[o]
           \/ \E t \in Remits :
                 /\ Remit(t) /\ asked[t].on = o /\ asked[t].bridge > 0
                 /\ shortage'[o] \in Shortages
                 /\ shortage'[o].expected = riderCash[o]
                 /\ shortage'[o].actual = asked[t].cash
           \/ /\ shortage[o] \in Shortages /\ shortage'[o] \in Shortages
              /\ shortage'[o].expected = shortage[o].expected
              /\ shortage'[o].actual = shortage[o].actual
<1> DEFINE Kept == /\ shortage[o] \in Shortages /\ shortage'[o] \in Shortages
                   /\ shortage'[o].expected = shortage[o].expected
                   /\ shortage'[o].actual = shortage[o].actual
           Same == shortage'[o] = shortage[o]
           Told == \E t \in Remits :
                      /\ Remit(t) /\ asked[t].on = o /\ asked[t].bridge > 0
                      /\ shortage'[o] \in Shortages
                      /\ shortage'[o].expected = riderCash[o]
                      /\ shortage'[o].actual = asked[t].cash
<1> SUFFICES Same \/ Told \/ Kept
  OBVIOUS
<1>1. shortage[o] # Nil => shortage[o] \in Shortages
  BY DEF CashTypeOK
<1>2. ASSUME NEW t \in Remits, Remit(t) PROVE Same \/ Told
  <2>1. asked[t] \in [op : {"remit"}, on : Drops, cash : Nat, bridge : Nat,
                      paidUp : BOOLEAN]
    BY <1>2 DEF Remit, Asking, CashTypeOK, Asks
  <2>2. CASE asked[t].on = o /\ asked[t].bridge > 0
    <3>1. shortage'[o] = Reported(shortage[o], o, asked[t])
      BY <1>2, <2>2 DEF Remit, CashTypeOK
    <3> QED
      BY <1>2, <2>1, <2>2, <3>1, ReportedType
  <2>3. CASE ~(asked[t].on = o /\ asked[t].bridge > 0)
    BY <1>2, <2>3 DEF Remit, CashTypeOK
  <2> QED
    BY <2>2, <2>3
<1>3. ASSUME NEW p \in Drops, NEW pay \in 1 .. Total[p], Deduct(p, pay) PROVE Same \/ Kept
  <2>1. CASE shortage'[o] = shortage[o]
    BY <2>1
  <2>2. CASE shortage'[o] # shortage[o]
    <3>1. PICK st \in {"CLOSED", "PARTIALLY_SETTLED"} :
             /\ shortage[o] # Nil
             /\ shortage'[o] = [shortage[o] EXCEPT !.status = st]
      BY <1>3, <2>2 DEF Deduct, HasShortage, CashTypeOK
    <3> QED
      BY <1>1, <3>1 DEF Shortages
  <2> QED
    BY <2>1, <2>2
<1>4. ASSUME NEW t \in Remits, DecideShort(t) PROVE Same \/ Kept
  <2>1. CASE asked[t].on = o
    <3>1. asked[t].verdict \in Verdicts /\ shortage[o] \in Shortages
      BY <1>1, <1>4, <2>1 DEF DecideShort, Asking, CashTypeOK, Asks, AsksOK, AskOK
    <3>2. PICK st \in {"WAIVED", "MANAGER_APPROVED"} :
             st = IF asked[t].verdict = "WAIVE" THEN "WAIVED" ELSE "MANAGER_APPROVED"
      OBVIOUS
    <3>3. shortage'[o] = [shortage[o] EXCEPT !.verdict = asked[t].verdict, !.status = st]
      BY <1>4, <2>1, <3>2 DEF DecideShort, CashTypeOK
    <3> QED
      BY <3>1, <3>3 DEF Shortages
  <2>2. CASE asked[t].on # o
    BY <1>4, <2>2 DEF DecideShort, CashTypeOK
  <2> QED
    BY <2>1, <2>2
<1>5. ASSUME NEW t \in Remits, Accept(t) PROVE Same \/ Kept
  <2>1. CASE asked[t].on = o
    <3>1. shortage[o] \in Shortages
      BY <1>1, <1>5, <2>1 DEF Accept, Asking, AsksOK, AskOK
    <3>2. shortage'[o] = [shortage[o] EXCEPT !.status = "RIDER_ACCEPTED",
                                             !.accepted = TRUE]
      BY <1>5, <2>1 DEF Accept, CashTypeOK
    <3> QED
      BY <3>1, <3>2 DEF Shortages
  <2>2. CASE asked[t].on # o
    BY <1>5, <2>2 DEF Accept, CashTypeOK
  <2> QED
    BY <2>1, <2>2
<1>6. ASSUME NEW t \in Remits, Finalize(t) PROVE Same \/ Kept
  <2>1. CASE asked[t].on = o /\ o # Nil
    <3>1. shortage[o] \in Shortages
      BY <1>1, <1>6, <2>1 DEF Finalize, Asking, AsksOK, AskOK
    <3>2. shortage'[o] = [shortage[o] EXCEPT !.status = "CLOSED"]
      BY <1>6, <2>1 DEF Finalize, CashTypeOK
    <3> QED
      BY <3>1, <3>2 DEF Shortages
  <2>2. CASE asked[t].on # o
    BY <1>6, <2>2 DEF Finalize, CashTypeOK
  <2>3. o # Nil
    BY SettlementAssumption
  <2> QED
    BY <2>1, <2>2, <2>3
<1>7. shortage' = shortage => Same
  OBVIOUS
<1> HIDE DEF Same, Kept, Told
<1>8. ASSUME NEW c \in Cashiers, ClaimRun(c) \/ \E p \in Drops : OpenRemit(c, p)
      PROVE  Same
  BY <1>7, <1>8 DEF OpenRemit, ClaimRun
<1>9. ASSUME NEW t \in Remits,
             \/ \E c \in Cashiers, p \in Drops, n \in Counted : RemitAsk(t, c, p, n)
             \/ \E p \in Drops, v \in Verdicts : DecideAsk(t, p, v)
             \/ \E p \in Drops : AcceptAsk(t, p)
             \/ FinalizeAsk(t) \/ GiveUp(t)
      PROVE  Same
  BY <1>7, <1>9 DEF RemitAsk, DecideAsk, AcceptAsk, FinalizeAsk, GiveUp
<1>10. (\E p \in Drops : LockExpires(p) \/ PlanDeduction(p)) \/ AutoSettle => Same
  BY <1>7 DEF LockExpires, PlanDeduction, AutoSettle
<1> QED
  BY <1>2, <1>3, <1>4, <1>5, <1>6, <1>8, <1>9, <1>10 DEF CashStep

\* Cash and bridges only grow, and a variance is never deleted.
CashGrows ==
    \A o \in Drops : /\ account[o].cash <= account'[o].cash
                     /\ account[o].bridge <= account'[o].bridge
                     /\ shortage[o] # Nil => shortage'[o] # Nil
\* Every step is such a step.
LEMMA CashGrowsStep ==
    ASSUME CashTypeOK, AsksOK, CashStep
    PROVE  CashGrows
<1> SUFFICES ASSUME NEW o \in Drops
             PROVE  /\ account[o].cash <= account'[o].cash
                    /\ account[o].bridge <= account'[o].bridge
                    /\ shortage[o] # Nil => shortage'[o] # Nil
  BY DEF CashGrows
<1>1. account[o].cash \in Nat /\ account[o].bridge \in Nat
  BY DueRange
<1>2. ASSUME NEW t \in Remits, Asking(t, "remit")
      PROVE  asked[t].cash \in Nat /\ asked[t].bridge \in Nat
  BY <1>2 DEF Asking, CashTypeOK, Asks
<1>3. account[o].cash <= account'[o].cash /\ account[o].bridge <= account'[o].bridge
  BY <1>1, <1>2, AccountChange
<1>4. shortage[o] # Nil => shortage'[o] # Nil
  BY NilAssumption, ShortageChange
<1> QED
  BY <1>3, <1>4
\* When nothing is left to remit, every order is accounted for.
LEMMA NoneUnsettled ==
    ASSUME CashTypeOK, BroughtOK, PaidOK, Unsettled = {}
    PROVE  \A o \in Drops : Accounted(o)
<1> SUFFICES ASSUME NEW o \in Drops PROVE Accounted(o)
  OBVIOUS
<1>1. /\ riderCash[o] \in Nat /\ Due(o) \in Nat
      /\ account[o].cash \in Nat /\ account[o].bridge \in Nat
      /\ Due(o) = 0 => riderCash[o] <= account[o].cash
  BY DueRange
<1>2. CASE o \notin released
  BY <1>1, <1>2 DEF BroughtOK, Accounted
<1>3. CASE account[o].status = "PAID"
  BY <1>1, <1>3, SettlementAssumption DEF BroughtOK, PaidOK, Accounted
<1>4. CASE Due(o) = 0
  BY <1>1, <1>4 DEF Accounted
<1>5. o \notin released \/ account[o].status = "PAID" \/ Due(o) = 0
  BY <1>1 DEF Unsettled, AmountOwing
<1> QED
  BY <1>2, <1>3, <1>4, <1>5

\* What is accounted for stays so.
LEMMA AccountedGrows ==
    ASSUME CashTypeOK, CashTypeOK', CashGrows, riderCash' = riderCash,
           NEW o \in Drops, Accounted(o)
    PROVE  Accounted(o)'
<1>1. /\ riderCash[o] \in Nat /\ account[o].cash \in Nat /\ account[o].bridge \in Nat
      /\ account'[o].cash \in Nat /\ account'[o].bridge \in Nat
  BY DEF CashTypeOK, Accounts
<1> QED
  BY <1>1 DEF Accounted, CashGrows

\* A step keeps an order that is PAID covered.
LEMMA PaidStep ==
    ASSUME CashTypeOK, CashTypeOK', PaidOK, AsksOK, CashStep
    PROVE  PaidOK'
<1> SUFFICES ASSUME NEW o \in Drops, account'[o].status = "PAID"
             PROVE  Total[o] <= account'[o].cash + account'[o].bridge
  BY DEF PaidOK
<1>1. account[o].cash \in Nat /\ account[o].bridge \in Nat /\ Total[o] \in Nat
  BY DueRange, SettlementAssumption
<1>2. CASE account'[o].cash = account[o].cash /\ account'[o].bridge = account[o].bridge
           /\ account'[o].status = account[o].status
  BY <1>2 DEF PaidOK
<1>3. ASSUME NEW t \in Remits, Asking(t, "remit"), asked[t].on = o,
             account'[o].cash = account[o].cash + asked[t].cash,
             account'[o].bridge = account[o].bridge + asked[t].bridge,
             account'[o].status = IF asked[t].paidUp THEN "PAID" ELSE "PARTIALLY_PAID"
      PROVE  Total[o] <= account'[o].cash + account'[o].bridge
  <2>1. asked[t].paidUp /\ asked[t].cash \in Nat /\ asked[t].bridge \in Nat
    BY <1>3 DEF Asking, CashTypeOK, Asks
  <2>2. Total[o] <= account[o].cash + account[o].bridge + asked[t].cash + asked[t].bridge
    BY <1>3, <2>1 DEF Asking, AsksOK, AskOK
  <2> QED
    BY <1>1, <1>3, <2>1, <2>2
<1> QED
  BY <1>2, <1>3, AccountChange

\* A step reports no shortage the cash counted exceeds.
LEMMA ShortStep ==
    ASSUME CashTypeOK, CashTypeOK', ShortOK, AsksOK, CashStep
    PROVE  ShortOK'
<1> SUFFICES ASSUME NEW o \in Drops, shortage'[o] # Nil
             PROVE  shortage'[o].actual <= shortage'[o].expected
  BY DEF ShortOK
<1>1. ASSUME NEW t \in Remits, Remit(t), asked[t].on = o
      PROVE  asked[t].cash <= riderCash[o]
  BY <1>1 DEF Remit, Asking, AsksOK, AskOK
<1>2. shortage[o] \in Shortages => shortage[o].actual <= shortage[o].expected
  BY NilAssumption DEF ShortOK
<1> QED
  BY <1>1, <1>2, ShortageChange DEF ShortOK

\* What a pending request read still suffices after another step.
LEMMA AskGrows ==
    ASSUME CashTypeOK, CashTypeOK', CashGrows, riderCash' = riderCash,
           NEW j \in Asks, AskOK(j)
    PROVE  AskOK(j)'
<1>1. ASSUME j.op = "remit"
      PROVE  /\ j.cash <= riderCash'[j.on]
             /\ j.paidUp => Total[j.on] <= account'[j.on].cash + account'[j.on].bridge
                                           + j.cash + j.bridge
  <2>1. j.on \in Drops /\ j.cash \in Nat /\ j.bridge \in Nat
    BY <1>1 DEF Asks
  <2>2. PICK o \in Drops, c \in Nat, b \in Nat : o = j.on /\ c = j.cash /\ b = j.bridge
    BY <2>1
  <2>3. /\ account[o].cash \in Nat /\ account[o].bridge \in Nat
        /\ account'[o].cash \in Nat /\ account'[o].bridge \in Nat /\ Total[o] \in Nat
        /\ account[o].cash <= account'[o].cash /\ account[o].bridge <= account'[o].bridge
    BY SettlementAssumption DEF CashTypeOK, Accounts, CashGrows
  <2>4. j.paidUp => Total[o] <= account[o].cash + account[o].bridge + c + b
    BY <1>1, <2>2 DEF AskOK
  <2>5. j.paidUp => Total[o] <= account'[o].cash + account'[o].bridge + c + b
    BY <2>3, <2>4
  <2> QED
    BY <1>1, <2>2, <2>5 DEF AskOK
<1>2. ASSUME j.op \in {"decide", "accept"} PROVE shortage'[j.on] # Nil
  <2>1. j.on \in Drops
    BY <1>2 DEF Asks
  <2> QED
    BY <1>2, <2>1 DEF AskOK, CashGrows
<1>3. ASSUME j.op = "finalize"
      PROVE  /\ \A o \in Drops : Accounted(o)'
             /\ j.on # Nil => shortage'[j.on] # Nil
  <2>1. j.on \in Drops \cup {Nil}
    BY <1>3 DEF Asks
  <2> QED
    BY <1>3, <2>1, AccountedGrows DEF AskOK, CashGrows
<1> QED
  BY <1>1, <1>2, <1>3 DEF AskOK

\* A request that has just read is right about what it read.
LEMMA NewAsk ==
    ASSUME CashTypeOK, CashTypeOK', BroughtOK, PaidOK, CashStep,
           NEW t \in Remits, asked'[t] # Nil, asked'[t] # asked[t]
    PROVE  \E j \in Asks : j = asked'[t] /\ AskOK(j)
<1>1. ASSUME NEW u \in Remits, NEW c \in Cashiers, NEW o \in Drops, NEW n \in Counted,
             RemitAsk(u, c, o, n)
      PROVE  \E j \in Asks : j = asked'[t] /\ AskOK(j)
  <2>1. PICK j \in Asks :
              /\ asked' = [asked EXCEPT ![u] = j]
              /\ j.op = "remit" /\ j.on = o
              /\ j.cash <= riderCash[o]
              /\ j.paidUp => Total[o] <= account[o].cash + account[o].bridge
                                         + j.cash + j.bridge
    BY <1>1, RemitAskType
  <2>2. j = asked'[t]
    BY <2>1 DEF CashTypeOK
  <2>3. AskOK(j)
    BY <2>1 DEF AskOK
  <2> QED
    BY <2>2, <2>3
<1>2. ASSUME NEW u \in Remits, NEW o \in Drops, NEW v \in Verdicts, DecideAsk(u, o, v)
      PROVE  \E j \in Asks : j = asked'[t] /\ AskOK(j)
  <2>1. PICK j : j = [op |-> "decide", on |-> o, verdict |-> v, short |-> Short(o)]
    OBVIOUS
  <2>2. j = asked'[t] /\ shortage[o] # Nil
    BY <1>2, <2>1 DEF DecideAsk, Ask, HasShortage, CashTypeOK
  <2>3. j \in Asks
    BY <2>2 DEF CashTypeOK
  <2>4. AskOK(j)
    BY <2>1, <2>2 DEF AskOK
  <2> QED
    BY <2>2, <2>3, <2>4
<1>3. ASSUME NEW u \in Remits, NEW o \in Drops, AcceptAsk(u, o)
      PROVE  \E j \in Asks : j = asked'[t] /\ AskOK(j)
  <2>1. PICK j : j = [op |-> "accept", on |-> o, short |-> Short(o)]
    OBVIOUS
  <2>2. j = asked'[t] /\ shortage[o] # Nil
    BY <1>3, <2>1 DEF AcceptAsk, Ask, HasShortage, CashTypeOK
  <2>3. j \in Asks
    BY <2>2 DEF CashTypeOK
  <2>4. AskOK(j)
    BY <2>1, <2>2 DEF AskOK
  <2> QED
    BY <2>2, <2>3, <2>4
<1>4. ASSUME NEW u \in Remits, FinalizeAsk(u)
      PROVE  \E j \in Asks : j = asked'[t] /\ AskOK(j)
  <2>1. PICK o \in Newest \cup {Nil} :
             asked' = [asked EXCEPT ![u] = [op |-> "finalize", on |-> o]]
    BY <1>4 DEF FinalizeAsk, Ask
  <2> DEFINE j == [op |-> "finalize", on |-> o]
  <2>2. o \in Drops \cup {Nil} /\ (o # Nil => shortage[o] # Nil)
    BY <2>1 DEF Newest, Pending, HasShortage
  <2>3. j = asked'[t] /\ j \in Asks
    BY <2>1, <2>2 DEF CashTypeOK, Asks
  <2>4. \A p \in Drops : Accounted(p)
    BY <1>4, NoneUnsettled DEF FinalizeAsk, NoneLeft
  <2>5. AskOK(j)
    BY <2>2, <2>4 DEF AskOK
  <2> QED
    BY <2>3, <2>5
<1>5. asked' = asked \/ (\E u \in Remits : Answer(u)) => FALSE
  BY DEF Answer, CashTypeOK
<1>6. (\E c \in Cashiers : ClaimRun(c) \/ \E o \in Drops : OpenRemit(c, o)) => FALSE
  BY <1>5 DEF ClaimRun, OpenRemit
<1>7. (\E o \in Drops : \/ LockExpires(o) \/ PlanDeduction(o)
                        \/ \E pay \in 1 .. Total[o] : Deduct(o, pay)) => FALSE
  BY <1>5 DEF LockExpires, PlanDeduction, Deduct
<1>8. AutoSettle => FALSE
  BY <1>5 DEF AutoSettle
<1>9. (\E u \in Remits : Remit(u) \/ DecideShort(u) \/ Accept(u) \/ Finalize(u) \/ GiveUp(u))
         => FALSE
  BY <1>5 DEF Remit, DecideShort, Accept, Finalize, GiveUp
<1> QED
  BY <1>1, <1>2, <1>3, <1>4, <1>6, <1>7, <1>8, <1>9 DEF CashStep

\* What a request has read stays right while others commit.
LEMMA AsksStep ==
    ASSUME CashTypeOK, CashTypeOK', BroughtOK, PaidOK, AsksOK, CashGrows,
           riderCash' = riderCash, CashStep
    PROVE  AsksOK'
<1> SUFFICES ASSUME NEW t \in Remits, asked'[t] # Nil
             PROVE  AskOK(asked[t])'
  BY DEF AsksOK
<1>1. PICK j \in Asks : j = asked'[t] /\ AskOK(j)
  <2>1. CASE asked'[t] = asked[t]
    BY <2>1 DEF CashTypeOK, AsksOK
  <2>2. CASE asked'[t] # asked[t]
    BY <2>2, NewAsk
  <2> QED
    BY <2>1, <2>2
<1>2. AskOK(j)'
  BY <1>1, AskGrows
<1> QED
  BY <1>1, <1>2 DEF AskOK, Accounted

\* A run is settled by a step that finds every order accounted for.
LEMMA SettledStep ==
    ASSUME CashTypeOK, CashTypeOK', BroughtOK, PaidOK, AsksOK, SettledAccounted,
           CashGrows, riderCash' = riderCash, CashStep
    PROVE  SettledAccounted'
<1>1. SettledAccounted <=> (runState = "SETTLED" => \A o \in Drops : Accounted(o))
  BY DEF SettledAccounted, Accounted
<1>2. SettledAccounted' <=> (runState' = "SETTLED" => \A o \in Drops : Accounted(o)')
  BY DEF SettledAccounted, Accounted
<1>3. runState' # runState => \A o \in Drops : Accounted(o)
  <2>1. AutoSettle => \A o \in Drops : Accounted(o)
    BY NoneUnsettled DEF AutoSettle
  <2>2. ASSUME NEW t \in Remits, Finalize(t) PROVE \A o \in Drops : Accounted(o)
    BY <2>2 DEF Finalize, Asking, AsksOK, AskOK
  <2>3. runState' # runState => AutoSettle \/ \E t \in Remits : Finalize(t)
    BY DEF CashStep, OpenRemit, LockExpires, PlanDeduction, Deduct, ClaimRun, RemitAsk,
           DecideAsk, AcceptAsk, FinalizeAsk, Remit, DecideShort, Accept, GiveUp
  <2> QED
    BY <2>1, <2>2, <2>3
<1>4. \A o \in Drops : Accounted(o) => Accounted(o)'
  BY AccountedGrows
<1> QED
  BY <1>1, <1>2, <1>3, <1>4

\* The inductive invariant, for any orders, totals and overlapping requests.
THEOREM CashInvariant == CashSpec => []CashInv
<1>1. CashInit => CashInv
  <2> SUFFICES ASSUME CashInit PROVE CashInv
    OBVIOUS
  <2>1. CashTypeOK
    <3>1. riderCash \in [Drops -> Nat]
      BY SettlementAssumption DEF CashInit
    <3>2. account \in [Drops -> Accounts]
      BY DEF CashInit, Accounts
    <3> QED
      BY <3>1, <3>2 DEF CashInit, CashTypeOK
  <2>2. BroughtOK
    BY DEF CashInit, BroughtOK
  <2>3. PaidOK /\ ShortOK /\ AsksOK /\ SettledAccounted
    BY DEF CashInit, PaidOK, ShortOK, AsksOK, SettledAccounted
  <2> QED
    BY <2>1, <2>2, <2>3 DEF CashInv
<1>2. CashInv /\ CashNext => CashInv'
  <2> SUFFICES ASSUME CashInv, CashNext PROVE CashInv'
    OBVIOUS
  <2>1. CashStep /\ CashTypeOK /\ BroughtOK /\ PaidOK /\ ShortOK /\ AsksOK
        /\ SettledAccounted
    BY DEF CashInv, CashNext
  <2>2. tangled' \in SUBSET Drops
    BY <2>1 DEF CashNext, CashNote, CashTypeOK
  <2>3. CashTypeOK' /\ released' = released /\ riderCash' = riderCash
    <3>1. /\ runState' \in {"CLOSED", "SETTLED"}
          /\ released' = released /\ riderCash' = riderCash
          /\ account' \in [Drops -> Accounts]
          /\ shortage' \in [Drops -> Shortages \cup {Nil}]
          /\ debt' \in [Drops -> Debts \cup {Nil}]
          /\ asked' \in [Remits -> Asks \cup {Nil}]
      BY <2>1, CashTypeStep
    <3> QED
      BY <2>1, <2>2, <3>1 DEF CashTypeOK
  <2>4. CashGrows
    BY <2>1, CashGrowsStep
  <2>5. BroughtOK'
    BY <2>1, <2>3 DEF BroughtOK
  <2>6. PaidOK' /\ ShortOK'
    BY <2>1, <2>3, PaidStep, ShortStep
  <2>7. AsksOK'
    BY <2>1, <2>3, <2>4, AsksStep
  <2>8. SettledAccounted'
    BY <2>1, <2>3, <2>4, SettledStep
  <2> QED
    BY <2>3, <2>5, <2>6, <2>7, <2>8 DEF CashInv
<1>3. CashInv /\ UNCHANGED cashVars => CashInv'
  BY DEF CashInv, cashVars, CashTypeOK, BroughtOK, PaidOK, ShortOK, AsksOK, AskOK,
         Accounted, SettledAccounted
<1> QED
  BY <1>1, <1>2, <1>3, PTL DEF CashSpec

\* Every variable of RiderSettlement keeps its shape; no amount goes below zero.
THEOREM CashTypeCorrect == CashSpec => []CashTypeOK
<1>1. CashInv => CashTypeOK
  BY DEF CashInv
<1> QED
  BY <1>1, CashInvariant, PTL

\* However remits, decisions and settlements overlap, a settled run leaves no cash
\* of the rider unexplained.
THEOREM SettledSafe == CashSpec => []SettledAccounted
<1>1. CashInv => SettledAccounted
  BY DEF CashInv
<1> QED
  BY <1>1, CashInvariant, PTL

-----------------------------------------------------------------------------
(* Orders whose requests come one after the other.  The rows of such an     *)
(* order change only in the hands of the one request that holds it, or when *)
(* payroll collects and none does; so what that request read is still true  *)
(* when it commits, and the rows stay exact.                                *)

Holds(t, o) == asked[t] # Nil /\ asked[t].on = o

Alone(o) == \A t, u \in Remits : Holds(t, o) /\ Holds(u, o) => t = u

\* Cash and bridge make up the total.
MadeUp(o) == account[o].cash + account[o].bridge = Total[o]

\* A bridge makes up the total at once, and is what the variance reports.
RowExact(o) ==
    /\ account[o].cash <= riderCash[o]
    /\ account[o].status = "PAID" <=> MadeUp(o)
    /\ account[o].bridge > 0 => MadeUp(o)
    /\ riderCash[o] = Total[o] /\ account[o].status # "PAID" => account[o].cash = 0
    /\ shortage[o] # Nil <=> account[o].bridge > 0
    /\ shortage[o] # Nil => Short(o) = account[o].bridge

VerdictOK(v) ==
    /\ v.status = "WAIVED" => v.verdict = "WAIVE"
    /\ v.verdict = "WAIVE" => v.status \in {"WAIVED", "CLOSED"}

\* A charge agrees with the variance; when it is settled nobody decides again.
DebtExact(o) ==
    /\ shortage[o] # Nil => VerdictOK(shortage[o])
    /\ debt[o] # Nil =>
          /\ shortage[o] # Nil
          /\ debt[o].amount = Short(o)
          /\ debt[o].status = "SETTLED" <=> debt[o].paid = debt[o].amount
          /\ debt[o].status = "WAIVED" <=> shortage[o].verdict = "WAIVE"
          /\ debt[o].status = "SETTLED" => shortage[o].status = "CLOSED"

\* What a request read of an order is what its commit would still read.
StillTrue(j) ==
    /\ j.op = "remit" =>
          /\ account[j.on].status # "PAID"
          /\ j.cash <= Due(j.on)
          /\ j.bridge = Bridge(j.on, j.cash)
          /\ j.paidUp <=> Remaining(j.on, j.cash, j.bridge) = 0
    /\ j.op = "decide" =>
          /\ HasShortage(j.on, {"OPEN", "MANAGER_APPROVED"})
          /\ j.short = Short(j.on)
    /\ j.op = "accept" =>
          /\ HasShortage(j.on, {"MANAGER_APPROVED"})
          /\ shortage[j.on].verdict = "CHARGE_RIDER"
          /\ j.short = Short(j.on)

OrderInv(o) ==
    /\ Alone(o)
    /\ RowExact(o)
    /\ DebtExact(o)
    /\ \A t \in Remits : Holds(t, o) => StillTrue(asked[t])

OrdersOK == \A o \in Drops \ tangled : OrderInv(o)

\* A step that leaves of an order all but its lock and the payroll plan.
Quiet(o) ==
    /\ account'[o].cash = account[o].cash
    /\ account'[o].bridge = account[o].bridge
    /\ account'[o].status = account[o].status
    /\ shortage'[o] = shortage[o]
    /\ debt'[o] = Nil <=> debt[o] = Nil
    /\ debt[o] # Nil => /\ debt'[o].amount = debt[o].amount
                        /\ debt'[o].paid = debt[o].paid
                        /\ debt'[o].status = debt[o].status

Commits(t) == Remit(t) \/ DecideShort(t) \/ Accept(t) \/ Finalize(t)

\* An order changes only in the hands of a request, or by a deduction.
LEMMA OrderChange ==
    ASSUME CashTypeOK, AsksOK, CashStep, NEW o \in Drops
    PROVE  \/ Quiet(o)
           \/ \E t \in Remits : Commits(t) /\ Holds(t, o)
           \/ \E pay \in 1 .. Total[o] : Deduct(o, pay)
<1> SUFFICES ASSUME ~\E t \in Remits : Commits(t) /\ Holds(t, o),
                    ~\E pay \in 1 .. Total[o] : Deduct(o, pay)
             PROVE  Quiet(o)
  OBVIOUS
<1>1. /\ account'[o].cash = account[o].cash
      /\ account'[o].bridge = account[o].bridge
      /\ account'[o].status = account[o].status
  <2>1. ASSUME NEW t \in Remits, Remit(t), asked[t].on = o PROVE FALSE
    BY <2>1 DEF Commits, Holds, Remit, Asking
  <2> QED BY <2>1, AccountChange
<1>2. shortage'[o] = shortage[o] /\ (debt'[o] = debt[o] \/ PlanDeduction(o))
  <2>1. ASSUME NEW t \in Remits, Commits(t)
        PROVE  shortage'[o] = shortage[o] /\ debt'[o] = debt[o]
    <3>1. asked[t].on # o
      BY <2>1 DEF Commits, Holds, Remit, DecideShort, Accept, Finalize, Asking
    <3> QED BY <2>1, <3>1
      DEF Commits, Remit, DecideShort, Accept, Finalize, CashTypeOK
  <2>2. ASSUME NEW p \in Drops, NEW pay \in 1 .. Total[p], Deduct(p, pay)
        PROVE  shortage'[o] = shortage[o] /\ debt'[o] = debt[o]
    <3>1. p # o
      BY <2>2
    <3> QED BY <2>2, <3>1 DEF Deduct, CashTypeOK
  <2>3. ASSUME NEW p \in Drops, PlanDeduction(p)
        PROVE  shortage'[o] = shortage[o] /\ (debt'[o] = debt[o] \/ PlanDeduction(o))
    <3>1. CASE p = o
      BY <2>3, <3>1 DEF PlanDeduction
    <3>2. CASE p # o
      BY <2>3, <3>2 DEF PlanDeduction, CashTypeOK
    <3> QED BY <3>1, <3>2
  <2>4. UNCHANGED <<shortage, debt>> => shortage'[o] = shortage[o] /\ debt'[o] = debt[o]
    OBVIOUS
  <2>5. ASSUME NEW c \in Cashiers, ClaimRun(c) \/ \E p \in Drops : OpenRemit(c, p)
        PROVE  UNCHANGED <<shortage, debt>>
    BY <2>5 DEF ClaimRun, OpenRemit
  <2>6. ASSUME NEW t \in Remits,
               \/ \E c \in Cashiers, p \in Drops, n \in Counted : RemitAsk(t, c, p, n)
               \/ \E p \in Drops, v \in Verdicts : DecideAsk(t, p, v)
               \/ \E p \in Drops : AcceptAsk(t, p)
               \/ FinalizeAsk(t) \/ GiveUp(t)
        PROVE  UNCHANGED <<shortage, debt>>
    BY <2>6 DEF RemitAsk, DecideAsk, AcceptAsk, FinalizeAsk, GiveUp
  <2>7. (\E p \in Drops : LockExpires(p)) \/ AutoSettle => UNCHANGED <<shortage, debt>>
    BY DEF LockExpires, AutoSettle
  <2> QED
    BY <2>1, <2>2, <2>3, <2>4, <2>5, <2>6, <2>7 DEF CashStep, Commits
<1>3. ASSUME PlanDeduction(o)
      PROVE  /\ debt'[o] # Nil /\ debt[o] # Nil
             /\ debt'[o].amount = debt[o].amount
             /\ debt'[o].paid = debt[o].paid
             /\ debt'[o].status = debt[o].status
  <2>1. debt[o] \in Debts /\ debt'[o] = [debt[o] EXCEPT !.plan = TRUE]
    BY <1>3 DEF PlanDeduction, CashTypeOK
  <2>2. PICK old \in Debts : old = debt[o]
    BY <2>1
  <2>3. debt'[o] = [old EXCEPT !.plan = TRUE]
    BY <2>1, <2>2
  <2>4. debt'[o] \in Debts /\ debt'[o].amount = old.amount
        /\ debt'[o].paid = old.paid /\ debt'[o].status = old.status
    BY <2>3 DEF Debts
  <2> QED BY <2>2, <2>4, NilAssumption
<1> QED BY <1>1, <1>2, <1>3 DEF Quiet

\* A quiet step keeps an order exact, and what was read of it true.
LEMMA QuietKeeps ==
    ASSUME CashTypeOK, NEW o \in Drops, Quiet(o), riderCash' = riderCash
    PROVE  /\ RowExact(o) => RowExact(o)'
           /\ DebtExact(o) => DebtExact(o)'
           /\ \A j : j.on = o /\ StillTrue(j) => StillTrue(j)'
<1>1. /\ Due(o)' = Due(o) /\ Short(o)' = Short(o) /\ MadeUp(o)' = MadeUp(o)
      /\ \A n : Bridge(o, n)' = Bridge(o, n)
      /\ \A m, n : Remaining(o, m, n)' = Remaining(o, m, n)
      /\ \A S : HasShortage(o, S)' = HasShortage(o, S)
  BY DEF Quiet, Due, Short, MadeUp, Bridge, Remaining, HasShortage
<1>2. RowExact(o) => RowExact(o)'
  BY <1>1 DEF Quiet, RowExact
<1>3. DebtExact(o) => DebtExact(o)'
  BY <1>1 DEF Quiet, DebtExact
<1>4. ASSUME NEW j, j.on = o, StillTrue(j)
      PROVE  StillTrue(j)'
  BY <1>1, <1>4 DEF Quiet, StillTrue
<1> QED BY <1>2, <1>3, <1>4

\* A request that has just read is right about what it read, and wrote nothing.
LEMMA NewAskTrue ==
    ASSUME CashTypeOK, ShortOK, CashStep,
           NEW t \in Remits, asked'[t] # Nil, asked'[t] # asked[t]
    PROVE  \E j \in Asks : /\ j = asked'[t] /\ StillTrue(j)
                           /\ UNCHANGED <<runState, riderCash, account, shortage, debt>>
                           /\ j.op = "finalize" => FinalizeAsk(t)
<1>1. ASSUME NEW u \in Remits, NEW c \in Cashiers, NEW o \in Drops, NEW n \in Counted,
             RemitAsk(u, c, o, n)
      PROVE  \E j \in Asks : /\ j = asked'[t] /\ StillTrue(j)
                             /\ UNCHANGED <<runState, riderCash, account, shortage, debt>>
                             /\ j.op = "finalize" => FinalizeAsk(t)
  <2>1. PICK j \in Asks : asked' = [asked EXCEPT ![u] = j] /\ j.op = "remit" /\ j.on = o
    BY <1>1, RemitAskType
  <2>2. PICK m, b : m = AppliedCash(n, o) /\ b = Bridge(o, m)
    OBVIOUS
  <2>3. asked' = [asked EXCEPT ![u] = [op |-> "remit", on |-> o, cash |-> m,
                     bridge |-> b, paidUp |-> Remaining(o, m, b) = 0]]
    BY <1>1, <2>2 DEF RemitAsk, Ask
  <2>4. j = asked'[t]
    BY <2>1 DEF CashTypeOK
  <2>5. PICK p \in BOOLEAN : p = (Remaining(o, m, b) = 0)
    OBVIOUS
  <2>6. j = [op |-> "remit", on |-> o, cash |-> m, bridge |-> b, paidUp |-> p]
    BY <2>1, <2>3, <2>5 DEF CashTypeOK
  <2>7. m <= Due(o)
    <3>1. Due(o) \in Int /\ n \in Nat
      BY DueRange, SettlementAssumption
    <3> QED BY <2>2, <3>1 DEF AppliedCash, AtMost
  <2>8. account[o].status # "PAID"
    BY <1>1 DEF RemitAsk, AmountOwing
  <2>9. /\ j.op = "remit" /\ j.on = o /\ j.cash = m /\ j.bridge = b
        /\ j.paidUp <=> Remaining(o, m, b) = 0
    BY <2>5, <2>6
  <2>10. StillTrue(j)
    BY <2>2, <2>7, <2>8, <2>9 DEF StillTrue
  <2> QED BY <1>1, <2>4, <2>9, <2>10 DEF RemitAsk
<1>2. ASSUME NEW u \in Remits, NEW o \in Drops, NEW v \in Verdicts, DecideAsk(u, o, v)
      PROVE  \E j \in Asks : /\ j = asked'[t] /\ StillTrue(j)
                             /\ UNCHANGED <<runState, riderCash, account, shortage, debt>>
                             /\ j.op = "finalize" => FinalizeAsk(t)
  <2>0. PICK n : n = Short(o)
    OBVIOUS
  <2>1. PICK j : j = [op |-> "decide", on |-> o, verdict |-> v, short |-> n]
    OBVIOUS
  <2>2. j = asked'[t]
    BY <1>2, <2>0, <2>1 DEF DecideAsk, Ask, CashTypeOK
  <2>3. j \in Asks
    <3>1. shortage[o] \in Shortages /\ shortage[o].actual <= shortage[o].expected
      BY <1>2 DEF DecideAsk, HasShortage, CashTypeOK, ShortOK
    <3>2. n \in Nat
      BY <2>0, <3>1 DEF Short, Shortages
    <3> QED BY <2>1, <3>2 DEF Asks
  <2>4. HasShortage(o, {"OPEN", "MANAGER_APPROVED"})
    BY <1>2 DEF DecideAsk
  <2>5. j.op = "decide" /\ j.on = o /\ j.short = Short(o)
    BY <2>0, <2>1
  <2>6. StillTrue(j)
    BY <2>4, <2>5 DEF StillTrue
  <2> QED BY <1>2, <2>2, <2>3, <2>5, <2>6 DEF DecideAsk
<1>3. ASSUME NEW u \in Remits, NEW o \in Drops, AcceptAsk(u, o)
      PROVE  \E j \in Asks : /\ j = asked'[t] /\ StillTrue(j)
                             /\ UNCHANGED <<runState, riderCash, account, shortage, debt>>
                             /\ j.op = "finalize" => FinalizeAsk(t)
  <2>0. PICK n : n = Short(o)
    OBVIOUS
  <2>1. PICK j : j = [op |-> "accept", on |-> o, short |-> n]
    OBVIOUS
  <2>2. j = asked'[t]
    BY <1>3, <2>0, <2>1 DEF AcceptAsk, Ask, CashTypeOK
  <2>3. j \in Asks
    <3>1. shortage[o] \in Shortages /\ shortage[o].actual <= shortage[o].expected
      BY <1>3 DEF AcceptAsk, HasShortage, CashTypeOK, ShortOK
    <3>2. n \in Nat
      BY <2>0, <3>1 DEF Short, Shortages
    <3> QED BY <2>1, <3>2 DEF Asks
  <2>4. HasShortage(o, {"MANAGER_APPROVED"}) /\ shortage[o].verdict = "CHARGE_RIDER"
    BY <1>3 DEF AcceptAsk
  <2>5. j.op = "accept" /\ j.on = o /\ j.short = Short(o)
    BY <2>0, <2>1
  <2>6. StillTrue(j)
    BY <2>4, <2>5 DEF StillTrue
  <2> QED BY <1>3, <2>2, <2>3, <2>5, <2>6 DEF AcceptAsk
<1>4. ASSUME NEW u \in Remits, FinalizeAsk(u)
      PROVE  \E j \in Asks : /\ j = asked'[t] /\ StillTrue(j)
                             /\ UNCHANGED <<runState, riderCash, account, shortage, debt>>
                             /\ j.op = "finalize" => FinalizeAsk(t)
  <2>1. PICK o \in Newest \cup {Nil} :
             asked' = [asked EXCEPT ![u] = [op |-> "finalize", on |-> o]]
    BY <1>4 DEF FinalizeAsk, Ask
  <2>2. PICK j : j = [op |-> "finalize", on |-> o]
    OBVIOUS
  <2>3. j = asked'[t] /\ u = t
    BY <2>1, <2>2 DEF CashTypeOK
  <2>4. j \in Asks
    BY <2>2 DEF Asks, Newest, Pending
  <2>5. StillTrue(j)
    BY <2>2 DEF StillTrue
  <2> QED BY <1>4, <2>3, <2>4, <2>5 DEF FinalizeAsk
<1>5. asked' = asked \/ (\E u \in Remits : Answer(u)) => FALSE
  BY DEF Answer, CashTypeOK
<1>6. (\E c \in Cashiers : ClaimRun(c) \/ \E o \in Drops : OpenRemit(c, o)) => FALSE
  BY <1>5 DEF ClaimRun, OpenRemit
<1>7. (\E o \in Drops : \/ LockExpires(o) \/ PlanDeduction(o)
                        \/ \E pay \in 1 .. Total[o] : Deduct(o, pay)) => FALSE
  BY <1>5 DEF LockExpires, PlanDeduction, Deduct
<1>8. AutoSettle => FALSE
  BY <1>5 DEF AutoSettle
<1>9. (\E u \in Remits : Remit(u) \/ DecideShort(u) \/ Accept(u) \/ Finalize(u) \/ GiveUp(u))
         => FALSE
  BY <1>5 DEF Remit, DecideShort, Accept, Finalize, GiveUp
<1> QED
  BY <1>1, <1>2, <1>3, <1>4, <1>6, <1>7, <1>8, <1>9 DEF CashStep

\* The remit of an order nobody else holds leaves it exact.
LEMMA RemitKeeps ==
    ASSUME CashTypeOK, BroughtOK, NEW o \in Drops, OrderInv(o),
           NEW t \in Remits, Remit(t), Holds(t, o), riderCash' = riderCash
    PROVE  RowExact(o)' /\ DebtExact(o)'
<1>1. PICK j \in [op : {"remit"}, on : Drops, cash : Nat, bridge : Nat,
                  paidUp : BOOLEAN] : j = asked[t]
  BY DEF Remit, Asking, CashTypeOK, Asks
<1>2. j.on = o /\ j.op = "remit" /\ StillTrue(j)
  BY <1>1 DEF Holds, OrderInv
<1>3. PICK c \in Nat, R \in Nat, T \in Nat \ {0}, m \in Nat, b \in Nat, p \in BOOLEAN :
         /\ c = account[o].cash /\ R = riderCash[o] /\ T = Total[o]
         /\ m = j.cash /\ b = j.bridge /\ p = j.paidUp
  BY DueRange, SettlementAssumption
<1>4. account[o].bridge = 0 /\ account[o].status # "PAID"
  <2>1. account[o].bridge \in Nat
    BY DueRange
  <2> QED BY <1>2, <2>1 DEF StillTrue, OrderInv, RowExact
<1>5. shortage[o] = Nil /\ debt[o] = Nil
  BY <1>4 DEF OrderInv, RowExact, DebtExact
<1>6. c <= R /\ R <= T /\ c # T /\ (R = T => c = 0)
  <2>1. ~(account[o].cash + account[o].bridge = Total[o])
    BY <1>4 DEF OrderInv, RowExact, MadeUp
  <2> QED BY <1>3, <1>4, <2>1 DEF OrderInv, RowExact, BroughtOK
<1>7. Due(o) = R - c
  BY <1>3, <1>6 DEF Due, AtMost
<1>8. /\ m <= R - c
      /\ b = IF R = T THEN R - c - m ELSE 0
      /\ p <=> Positive(T - c - 0 - m - b) = 0
  BY <1>2, <1>3, <1>4, <1>7 DEF StillTrue, Bridge, Remaining
<1>9. /\ c + m <= R
      /\ p <=> c + m + b = T
      /\ b > 0 => c + m + b = T /\ R - m = b
      /\ R = T => p
  BY <1>6, <1>8 DEF Positive
<1>10. /\ account'[o].cash = c + m
       /\ account'[o].bridge = b
       /\ account'[o].status = IF p THEN "PAID" ELSE "PARTIALLY_PAID"
  <2>1. account'[o] = Remitted(account[o], j) /\ account[o] \in Accounts
    BY <1>1, <1>2 DEF Remit, CashTypeOK
  <2>2. /\ account'[o].cash = account[o].cash + j.cash
        /\ account'[o].bridge = account[o].bridge + j.bridge
        /\ account'[o].status = IF j.paidUp THEN "PAID" ELSE "PARTIALLY_PAID"
    BY <2>1, RemittedType
  <2> QED BY <1>3, <1>4, <2>2
<1>11. CASE b > 0
  <2>1. shortage'[o] = Reported(shortage[o], o, j)
    BY <1>1, <1>2, <1>3, <1>11 DEF Remit, CashTypeOK
  <2>2. /\ shortage'[o] \in Shortages
        /\ shortage'[o].expected = R /\ shortage'[o].actual = m
    BY <1>3, <2>1, ReportedType
  <2>3. shortage'[o].status = "OPEN" /\ shortage'[o].verdict = Nil
    BY <1>5, <2>1 DEF Reported
  <2>4. shortage'[o] # Nil
    BY <2>2, NilAssumption
  <2>5. RowExact(o)'
    BY <1>3, <1>9, <1>10, <1>11, <2>2, <2>4 DEF RowExact, MadeUp, Short
  <2>6. DebtExact(o)'
    <3>1. debt'[o] = Nil /\ VerdictOK(shortage'[o])
      BY <1>5, <2>3, NilAssumption DEF Remit, VerdictOK, Verdicts
    <3> QED BY <3>1 DEF DebtExact
  <2> QED BY <2>5, <2>6
<1>12. CASE b = 0
  <2>1. shortage'[o] = Nil /\ debt'[o] = Nil
    BY <1>1, <1>3, <1>5, <1>12 DEF Remit
  <2>2. RowExact(o)'
    BY <1>3, <1>9, <1>10, <1>12, <2>1 DEF RowExact, MadeUp
  <2> QED BY <2>1, <2>2 DEF DebtExact
<1> QED BY <1>3, <1>11, <1>12

\* A step that leaves the amounts of an order and of its variance leaves its row exact.
LEMMA RowKept ==
    ASSUME CashTypeOK, NEW o \in Drops, RowExact(o), riderCash' = riderCash,
           account' = account, shortage[o] # Nil, shortage'[o] # Nil,
           shortage'[o].expected = shortage[o].expected,
           shortage'[o].actual = shortage[o].actual
    PROVE  RowExact(o)' /\ Short(o)' = Short(o)
<1>1. MadeUp(o)' = MadeUp(o) /\ Short(o)' = Short(o)
  BY DEF MadeUp, Short
<1> QED BY <1>1 DEF RowExact

\* A shortage that exists is of some money.
LEMMA ShortPositive ==
    ASSUME CashTypeOK, NEW o \in Drops, RowExact(o), shortage[o] # Nil
    PROVE  Short(o) \in Nat \ {0}
<1>1. account[o].bridge \in Nat
  BY DueRange
<1> QED BY <1>1 DEF RowExact

\* The manager's decision on an order nobody else holds leaves it exact.
LEMMA DecideKeeps ==
    ASSUME CashTypeOK, NEW o \in Drops, OrderInv(o),
           NEW t \in Remits, DecideShort(t), Holds(t, o), riderCash' = riderCash
    PROVE  RowExact(o)' /\ DebtExact(o)'
<1>1. PICK j \in [op : {"decide"}, on : Drops, verdict : Verdicts, short : Nat] :
         j = asked[t]
  BY DEF DecideShort, Asking, CashTypeOK, Asks
<1>2. j.on = o /\ HasShortage(o, {"OPEN", "MANAGER_APPROVED"}) /\ j.short = Short(o)
  BY <1>1 DEF Holds, OrderInv, StillTrue
<1>3. PICK v \in Verdicts, n \in Nat \ {0} : v = j.verdict /\ n = j.short
  BY <1>1, <1>2, ShortPositive DEF OrderInv, HasShortage
<1>4. shortage[o] \in Shortages /\ shortage[o] # Nil
      /\ shortage[o].status \in {"OPEN", "MANAGER_APPROVED"}
  BY <1>2 DEF HasShortage, CashTypeOK
<1>5. PICK st \in {"WAIVED", "MANAGER_APPROVED"} :
         st = IF v = "WAIVE" THEN "WAIVED" ELSE "MANAGER_APPROVED"
  OBVIOUS
<1>6. shortage'[o] = [shortage[o] EXCEPT !.verdict = v, !.status = st]
  BY <1>1, <1>2, <1>3, <1>5 DEF DecideShort, CashTypeOK
<1>7. /\ shortage'[o] \in Shortages /\ shortage'[o].verdict = v /\ shortage'[o].status = st
      /\ shortage'[o].expected = shortage[o].expected
      /\ shortage'[o].actual = shortage[o].actual
  BY <1>4, <1>6 DEF Shortages
<1>8. shortage'[o] # Nil
  BY <1>7, NilAssumption
<1>9. RowExact(o)' /\ Short(o)' = Short(o)
  BY <1>4, <1>7, <1>8, RowKept DEF DecideShort, OrderInv
<1>10. VerdictOK(shortage'[o])
  BY <1>5, <1>7 DEF VerdictOK
<1>11. shortage[o].verdict # "WAIVE"
  BY <1>4 DEF OrderInv, DebtExact, VerdictOK
<1>12. debt'[o] = IF v = "CHARGE_RIDER" THEN Charged(debt[o], n)
                  ELSE IF v = "WAIVE" THEN Forgiven(debt[o]) ELSE debt[o]
  BY <1>1, <1>2, <1>3 DEF DecideShort, CashTypeOK
<1>13. debt[o] # Nil => /\ debt[o] \in Debts
                        /\ debt[o].amount = n /\ debt[o].paid # n
                        /\ debt[o].status \in {"OPEN", "PARTIALLY_SETTLED"}
  <2> SUFFICES ASSUME debt[o] # Nil
               PROVE  /\ debt[o] \in Debts
                      /\ debt[o].amount = n /\ debt[o].paid # n
                      /\ debt[o].status \in {"OPEN", "PARTIALLY_SETTLED"}
    OBVIOUS
  <2>1. debt[o] \in Debts
    BY DEF CashTypeOK
  <2>2. debt[o].status \notin {"SETTLED", "WAIVED"}
    BY <1>4, <1>11 DEF OrderInv, DebtExact
  <2> QED BY <1>2, <1>3, <2>1, <2>2 DEF OrderInv, DebtExact, Debts
<1>14. debt'[o] # Nil =>
          /\ debt'[o].amount = n /\ debt'[o].paid # n
          /\ debt'[o].status # "SETTLED"
          /\ debt'[o].status = "WAIVED" <=> v = "WAIVE"
  <2>1. CASE debt[o] = Nil
    BY <1>3, <1>12, <2>1 DEF Charged, Forgiven
  <2>2. CASE debt[o] # Nil
    BY <1>12, <1>13, <2>2 DEF Charged, Forgiven, Debts
  <2> QED BY <2>1, <2>2
<1>15. DebtExact(o)'
  <2>1. /\ debt'[o] # Nil => debt'[o].amount = Short(o)'
        /\ shortage'[o].verdict = "WAIVE" <=> v = "WAIVE"
    BY <1>2, <1>3, <1>7, <1>9, <1>14
  <2> QED BY <1>2, <1>3, <1>8, <1>9, <1>10, <1>14, <2>1 DEF DebtExact
<1> QED BY <1>9, <1>15

\* The rider's acceptance of a shortage nobody else holds leaves the order exact.
LEMMA AcceptKeeps ==
    ASSUME CashTypeOK, NEW o \in Drops, OrderInv(o),
           NEW t \in Remits, Accept(t), Holds(t, o), riderCash' = riderCash
    PROVE  RowExact(o)' /\ DebtExact(o)'
<1>1. PICK j \in [op : {"accept"}, on : Drops, short : Nat] : j = asked[t]
  BY DEF Accept, Asking, CashTypeOK, Asks
<1>2. /\ j.on = o /\ HasShortage(o, {"MANAGER_APPROVED"}) /\ j.short = Short(o)
      /\ shortage[o].verdict = "CHARGE_RIDER"
  BY <1>1 DEF Holds, OrderInv, StillTrue
<1>3. PICK n \in Nat \ {0} : n = j.short
  BY <1>1, <1>2, ShortPositive DEF OrderInv, HasShortage
<1>4. shortage[o] \in Shortages /\ shortage[o] # Nil
      /\ shortage[o].status = "MANAGER_APPROVED"
  BY <1>2 DEF HasShortage, CashTypeOK
<1>6. shortage'[o] = [shortage[o] EXCEPT !.status = "RIDER_ACCEPTED", !.accepted = TRUE]
  BY <1>1, <1>2 DEF Accept, CashTypeOK
<1>7. /\ shortage'[o] \in Shortages
      /\ shortage'[o].verdict = "CHARGE_RIDER" /\ shortage'[o].status = "RIDER_ACCEPTED"
      /\ shortage'[o].expected = shortage[o].expected
      /\ shortage'[o].actual = shortage[o].actual
  BY <1>2, <1>4, <1>6 DEF Shortages
<1>8. shortage'[o] # Nil
  BY <1>7, NilAssumption
<1>9. RowExact(o)' /\ Short(o)' = Short(o)
  BY <1>4, <1>7, <1>8, RowKept DEF Accept, OrderInv
<1>10. VerdictOK(shortage'[o])
  BY <1>7 DEF VerdictOK
<1>12. debt'[o] = IF debt[o] = Nil THEN [Charged(Nil, n) EXCEPT !.plan = TRUE]
                  ELSE [debt[o] EXCEPT !.status = "OPEN", !.plan = TRUE]
  BY <1>1, <1>2, <1>3 DEF Accept, CashTypeOK
<1>13. debt[o] # Nil => debt[o] \in Debts /\ debt[o].amount = n /\ debt[o].paid # n
  <2> SUFFICES ASSUME debt[o] # Nil
               PROVE  debt[o] \in Debts /\ debt[o].amount = n /\ debt[o].paid # n
    OBVIOUS
  <2>1. debt[o] \in Debts
    BY DEF CashTypeOK
  <2>2. debt[o].status # "SETTLED"
    BY <1>4 DEF OrderInv, DebtExact
  <2> QED BY <1>2, <1>3, <2>1, <2>2 DEF OrderInv, DebtExact
<1>14. debt'[o].amount = n /\ debt'[o].paid # n /\ debt'[o].status = "OPEN"
  <2>1. CASE debt[o] = Nil
    BY <1>3, <1>12, <2>1 DEF Charged
  <2>2. CASE debt[o] # Nil
    BY <1>12, <1>13, <2>2 DEF Debts
  <2> QED BY <2>1, <2>2
<1>15. DebtExact(o)'
  <2>1. debt'[o].amount = Short(o)' /\ shortage'[o].verdict # "WAIVE"
    BY <1>2, <1>3, <1>7, <1>9, <1>14
  <2> QED BY <1>2, <1>3, <1>8, <1>9, <1>10, <1>14, <2>1 DEF DebtExact
<1> QED BY <1>9, <1>15

\* The settlement of the run closes the variance it holds, and leaves it exact.
LEMMA FinalizeKeeps ==
    ASSUME CashTypeOK, AsksOK, NEW o \in Drops, OrderInv(o),
           NEW t \in Remits, Finalize(t), Holds(t, o), riderCash' = riderCash
    PROVE  RowExact(o)' /\ DebtExact(o)'
<1>1. o # Nil /\ asked[t].on = o /\ shortage[o] # Nil
  BY SettlementAssumption DEF Holds, Finalize, Asking, AsksOK, AskOK
<1>2. shortage[o] \in Shortages
  BY <1>1 DEF CashTypeOK
<1>3. shortage'[o] = [shortage[o] EXCEPT !.status = "CLOSED"]
  BY <1>1 DEF Finalize, CashTypeOK
<1>4. /\ shortage'[o] \in Shortages /\ shortage'[o].status = "CLOSED"
      /\ shortage'[o].verdict = shortage[o].verdict
      /\ shortage'[o].expected = shortage[o].expected
      /\ shortage'[o].actual = shortage[o].actual
  BY <1>2, <1>3 DEF Shortages
<1>5. shortage'[o] # Nil
  BY <1>4, NilAssumption
<1>6. RowExact(o)' /\ Short(o)' = Short(o)
  BY <1>1, <1>4, <1>5, RowKept DEF Finalize, OrderInv
<1>7. VerdictOK(shortage'[o])
  BY <1>4 DEF VerdictOK
<1>8. DebtExact(o)'
  BY <1>1, <1>4, <1>5, <1>6, <1>7 DEF Finalize, OrderInv, DebtExact
<1> QED BY <1>6, <1>8

\* A deduction collects no more than is owed; the last one closes the variance.
LEMMA DeductKeeps ==
    ASSUME CashTypeOK, NEW o \in Drops, OrderInv(o),
           NEW pay \in 1 .. Total[o], Deduct(o, pay), riderCash' = riderCash
    PROVE  RowExact(o)' /\ DebtExact(o)'
<1>1. debt[o] \in Debts /\ debt[o] # Nil
      /\ debt[o].status \in {"OPEN", "PARTIALLY_SETTLED"}
  BY DEF Deduct, CashTypeOK
<1>2. PICK a \in Nat, p \in Nat, m \in Nat \ {0} :
         a = debt[o].amount /\ p = debt[o].paid /\ m = pay
  BY <1>1, SettlementAssumption DEF Debts
<1>3. p + m <= a
  BY <1>2 DEF Deduct
<1>4. PICK q \in Nat, st \in {"SETTLED", "PARTIALLY_SETTLED"} :
         /\ q = p + m
         /\ st = SettlesDebt(debt[o], m)
         /\ st = "SETTLED" <=> q = a
  BY <1>2, <1>3 DEF SettlesDebt
<1>5. debt'[o] = [debt[o] EXCEPT !.paid = q, !.status = st]
  BY <1>2, <1>4 DEF Deduct, Collected, CashTypeOK
<1>6. /\ debt'[o].amount = a /\ debt'[o].paid = q /\ debt'[o].status = st
  BY <1>1, <1>2, <1>5 DEF Debts
<1>7. /\ shortage[o] \in Shortages /\ shortage[o] # Nil
      /\ shortage[o].verdict # "WAIVE" /\ shortage[o].status # "WAIVED"
      /\ VerdictOK(shortage[o])
  BY <1>1 DEF OrderInv, DebtExact, VerdictOK, CashTypeOK
<1>8. PICK s \in {"OPEN", "MANAGER_APPROVED", "RIDER_ACCEPTED", "PARTIALLY_SETTLED",
                  "CLOSED"} :
         /\ shortage'[o] = [shortage[o] EXCEPT !.status = s]
         /\ st = "SETTLED" => s = "CLOSED"
  <2>1. shortage[o] = [shortage[o] EXCEPT !.status = shortage[o].status]
    BY <1>7 DEF Shortages
  <2>2. shortage[o].status \in {"OPEN", "MANAGER_APPROVED", "RIDER_ACCEPTED",
                                "PARTIALLY_SETTLED", "CLOSED"}
    BY <1>7 DEF Shortages
  <2>3. \/ shortage'[o] = [shortage[o] EXCEPT !.status = "CLOSED"]
        \/ shortage'[o] = [shortage[o] EXCEPT !.status = "PARTIALLY_SETTLED"]
           /\ st # "SETTLED"
        \/ shortage'[o] = shortage[o]
           /\ (st = "SETTLED" => shortage[o].status = "CLOSED")
    BY <1>2, <1>4, <1>7, <2>2 DEF Deduct, HasShortage, CashTypeOK
  <2> QED BY <2>1, <2>2, <2>3
<1>9. /\ shortage'[o] \in Shortages /\ shortage'[o].status = s
      /\ shortage'[o].verdict = shortage[o].verdict
      /\ shortage'[o].expected = shortage[o].expected
      /\ shortage'[o].actual = shortage[o].actual
  BY <1>7, <1>8 DEF Shortages
<1>10. shortage'[o] # Nil
  BY <1>9, NilAssumption
<1>11. RowExact(o)' /\ Short(o)' = Short(o)
  BY <1>7, <1>9, <1>10, RowKept DEF Deduct, OrderInv
<1>12. VerdictOK(shortage'[o])
  BY <1>7, <1>9 DEF VerdictOK
<1>13. DebtExact(o)'
  <2>1. debt'[o].amount = Short(o)'
    BY <1>1, <1>2, <1>6, <1>11 DEF OrderInv, DebtExact
  <2> QED BY <1>4, <1>6, <1>7, <1>8, <1>9, <1>10, <1>12, <2>1 DEF DebtExact
<1> QED BY <1>11, <1>13

\* An order that is still untangled after a step is still exact, and what the request
\* that holds it read is still true.
LEMMA OrderStep ==
    ASSUME CashTypeOK, BroughtOK, ShortOK, AsksOK, CashStep, CashNote,
           riderCash' = riderCash, NEW o \in Drops \ tangled', OrderInv(o)
    PROVE  OrderInv(o)'
<1>1. Alone(o)'
  BY DEF CashNote, Alone, Holds
<1>2. Quiet(o) \/ (\E t \in Remits : Commits(t) /\ Holds(t, o))
      \/ (\E pay \in 1 .. Total[o] : Deduct(o, pay))
  BY OrderChange
<1>3. RowExact(o)' /\ DebtExact(o)'
  <2>1. CASE Quiet(o)
    BY <2>1, QuietKeeps DEF OrderInv
  <2>2. ASSUME NEW t \in Remits, Commits(t), Holds(t, o) PROVE RowExact(o)' /\ DebtExact(o)'
    BY <2>2, RemitKeeps, DecideKeeps, AcceptKeeps, FinalizeKeeps DEF Commits
  <2>3. ASSUME NEW pay \in 1 .. Total[o], Deduct(o, pay) PROVE RowExact(o)' /\ DebtExact(o)'
    BY <2>3, DeductKeeps
  <2> QED BY <1>2, <2>1, <2>2, <2>3
<1>4. ASSUME NEW t \in Remits, asked'[t] # Nil, asked'[t].on = o
      PROVE  StillTrue(asked[t])'
  <2>1. CASE asked'[t] = asked[t]
    <3>1. Holds(t, o) /\ StillTrue(asked[t])
      BY <1>4, <2>1 DEF Holds, OrderInv
    <3>2. ASSUME NEW u \in Remits, Commits(u), Holds(u, o) PROVE FALSE
      <4>1. u = t
        BY <3>1, <3>2 DEF OrderInv, Alone
      <4>2. asked'[u] = Nil
        BY <3>2 DEF Commits, Remit, DecideShort, Accept, Finalize, Answer, CashTypeOK
      <4> QED BY <1>4, <4>1, <4>2
    <3>3. ASSUME NEW pay \in 1 .. Total[o], Deduct(o, pay) PROVE FALSE
      <4>1. debt'[o] = debt[o]
        BY <1>4 DEF CashNote
      <4>2. debt[o] \in Debts /\ pay \in Nat \ {0}
        BY <3>3, SettlementAssumption DEF Deduct, CashTypeOK
      <4>3. PICK st \in {"SETTLED", "PARTIALLY_SETTLED"} : st = SettlesDebt(debt[o], pay)
        BY DEF SettlesDebt
      <4>6. PICK p \in Nat, q \in Nat : p = debt[o].paid /\ q = p + pay /\ q # p
        BY <4>2 DEF Debts
      <4>4. debt'[o] = [debt[o] EXCEPT !.paid = q, !.status = st]
        BY <3>3, <4>3, <4>6 DEF Deduct, Collected, CashTypeOK
      <4>5. debt'[o].paid = q
        BY <4>2, <4>4 DEF Debts
      <4> QED BY <4>1, <4>5, <4>6
    <3>4. Quiet(o)
      BY <1>2, <3>2, <3>3
    <3>5. PICK j : j = asked[t]
      OBVIOUS
    <3>6. StillTrue(j)'
      BY <3>1, <3>4, <3>5, QuietKeeps DEF Holds
    <3> QED BY <2>1, <3>5, <3>6
  <2>2. CASE asked'[t] # asked[t]
    <3>1. PICK j \in Asks : /\ j = asked'[t] /\ StillTrue(j)
                            /\ UNCHANGED <<runState, riderCash, account, shortage, debt>>
      BY <1>4, <2>2, NewAskTrue
    <3>2. Quiet(o)
      BY <3>1 DEF Quiet
    <3>3. StillTrue(j)'
      BY <1>4, <3>1, <3>2, QuietKeeps
    <3> QED BY <3>1, <3>3
  <2> QED BY <2>1, <2>2
<1> QED BY <1>1, <1>3, <1>4 DEF OrderInv, Holds

\* Orders whose requests come one after the other stay exact.
LEMMA OrdersAlways == CashSpec => []OrdersOK
<1>1. CashInit => OrdersOK
  <2> SUFFICES ASSUME CashInit, NEW o \in Drops PROVE OrderInv(o)
    BY DEF OrdersOK
  <2>1. /\ account[o].cash = 0 /\ account[o].bridge = 0 /\ account[o].status = "UNPAID"
        /\ shortage[o] = Nil /\ debt[o] = Nil /\ riderCash[o] \in Nat
        /\ Total[o] \in Nat \ {0}
        /\ \A t \in Remits : asked[t] = Nil
    BY SettlementAssumption DEF CashInit
  <2>2. ~MadeUp(o)
    BY <2>1 DEF MadeUp
  <2> QED BY <2>1, <2>2 DEF OrderInv, Alone, Holds, RowExact, DebtExact
<1>2. CashInv /\ OrdersOK /\ CashNext => OrdersOK'
  <2> SUFFICES ASSUME CashInv, OrdersOK, CashNext, NEW o \in Drops \ tangled'
               PROVE  OrderInv(o)'
    BY DEF OrdersOK
  <2>1. CashStep /\ CashNote /\ CashTypeOK /\ BroughtOK /\ ShortOK /\ AsksOK
    BY DEF CashInv, CashNext
  <2>2. OrderInv(o)
    BY <2>1 DEF OrdersOK, CashNote
  <2>3. riderCash' = riderCash
    BY <2>1, CashTypeStep
  <2> QED BY <2>1, <2>2, <2>3, OrderStep
<1>3. OrdersOK /\ UNCHANGED cashVars => OrdersOK'
  <2>1. ASSUME UNCHANGED cashVars, NEW o PROVE OrderInv(o)' = OrderInv(o)
    BY <2>1 DEF cashVars, OrderInv, Alone, Holds, RowExact, MadeUp, Short, DebtExact,
                StillTrue, Due, Bridge, Remaining, HasShortage
  <2> QED BY <2>1 DEF OrdersOK, cashVars
<1> QED BY <1>1, <1>2, <1>3, CashInvariant, PTL DEF CashSpec

\* An order whose requests come one after the other takes no more cash than the
\* rider had, and its status and its variance say what is still missing.
THEOREM RemitsExact == CashSpec => []RemitExact
<1>1. CashInv /\ OrdersOK => RemitExact
  <2> SUFFICES ASSUME CashInv, OrdersOK, NEW o \in Drops \ tangled
               PROVE  /\ account[o].cash <= riderCash[o]
                      /\ account[o].status = "PAID" <=>
                            account[o].cash + account[o].bridge = Total[o]
                      /\ account[o].bridge > 0 =>
                            shortage[o] # Nil /\ Short(o) = account[o].bridge
    BY DEF RemitExact
  <2>1. OrderInv(o)
    BY DEF OrdersOK
  <2> QED BY <2>1 DEF OrderInv, RowExact, MadeUp
<1> QED BY <1>1, CashInvariant, OrdersAlways, PTL

\* The rider is charged at most the shortage, by a decision that stands, and the
\* charge is settled exactly when all of it is collected.
THEOREM ChargesStand == CashSpec => []ChargeStands
<1>1. OrdersOK => ChargeStands
  BY DEF OrdersOK, OrderInv, DebtExact, ChargeStands
<1> QED BY <1>1, OrdersAlways, PTL

-----------------------------------------------------------------------------
(* Which variance the settlement of the run looks at.  The newest one is    *)
(* unique, because every report takes a number above all the others.        *)

Seen == {p \in Drops : shortage[p] # Nil}

IdsOK ==
    \A o \in Drops : shortage[o] # Nil =>
        /\ shortage[o].id <= Cardinality(Seen)
        /\ \A p \in Drops : shortage[p] # Nil /\ shortage[p].id = shortage[o].id => p = o

\* The manager let the shortage go, or the rider accepted it.
Answered(v) == v.verdict \in {"INFO_ONLY", "WAIVE"} \/ v.accepted

\* All the cash the rider had is in a drawer.
AllIn == \A o \in Drops : Due(o) = 0

\* A run is settled, and a request is about to settle it, only with all the cash in,
\* or with a shortage that has its answer.
LetGo ==
    tangled = {} =>
        /\ runState = "SETTLED" =>
              AllIn \/ \E o \in Drops : /\ HasShortage(o, {"CLOSED"})
                                        /\ Answered(shortage[o])
        /\ \A t \in Remits : Asking(t, "finalize") =>
              AllIn \/ \E o \in Drops : /\ asked[t].on = o /\ shortage[o] # Nil
                                        /\ Answered(shortage[o])

\* Numbers are counted.
LEMMA SeenCount ==
    /\ Seen \in SUBSET Drops
    /\ IsFiniteSet(Seen)
    /\ Cardinality(Seen) \in Nat
<1>1. Seen \in SUBSET Drops
  BY DEF Seen
<1> QED BY <1>1, SettlementAssumption, FS_Subset, FS_CardinalityType

\* The cash of a run is short exactly when that of some order is.
LEMMA ShortOfNothing ==
    ASSUME CashTypeOK
    PROVE  CashShort \in Nat /\ (CashShort = 0 <=> AllIn)
<1>1. PICK f : f = [o \in Drops |-> Due(o)]
  OBVIOUS
<1>2. DOMAIN f = Drops /\ \A o \in Drops : f[o] = Due(o)
  BY <1>1
<1>3. \A o \in DOMAIN f : f[o] \in Nat
  BY <1>2, DueRange
<1>4. CashShort = SumFunctionOnSet(f, Drops)
  BY <1>1, <1>2 DEF CashShort, SumFunction
<1>5. IsFiniteSet(Drops)
  BY SettlementAssumption
<1>6. /\ SumFunctionOnSet(f, Drops) \in Nat
      /\ SumFunctionOnSet(f, Drops) = 0 <=> \A o \in Drops : f[o] = 0
  BY <1>2, <1>3, <1>5, SumNat
<1> QED BY <1>2, <1>4, <1>6 DEF AllIn

\* A report of a shortage is given the next number; every other step keeps them all.
LEMMA NumberChange ==
    ASSUME CashTypeOK, AsksOK, CashStep
    PROVE  \/ \A o \in Drops : /\ shortage'[o] = Nil <=> shortage[o] = Nil
                               /\ shortage[o] # Nil => shortage'[o].id = shortage[o].id
           \/ \E o \in Drops : /\ shortage[o] = Nil
                               /\ shortage'[o] # Nil
                               /\ shortage'[o].id = Cardinality(Seen) + 1
                               /\ \A p \in Drops \ {o} : shortage'[p] = shortage[p]
<1> DEFINE Same == \A o \in Drops :
                      /\ shortage'[o] = Nil <=> shortage[o] = Nil
                      /\ shortage[o] # Nil => shortage'[o].id = shortage[o].id
           Next1 == \E o \in Drops : /\ shortage[o] = Nil
                                     /\ shortage'[o] # Nil
                                     /\ shortage'[o].id = Cardinality(Seen) + 1
                                     /\ \A p \in Drops \ {o} : shortage'[p] = shortage[p]
<1> SUFFICES Same \/ Next1
  OBVIOUS
<1>1. \A o \in Drops : shortage[o] # Nil => shortage[o] \in Shortages
  BY DEF CashTypeOK
<1>2. ASSUME NEW o \in Drops, shortage[o] # Nil,
             NEW row \in Shortages, row.id = shortage[o].id,
             shortage' = [shortage EXCEPT ![o] = row]
      PROVE  Same
  <2>1. row # Nil
    BY <1>2, NilAssumption
  <2>2. shortage'[o] = row /\ \A p \in Drops \ {o} : shortage'[p] = shortage[p]
    BY <1>2 DEF CashTypeOK
  <2> QED BY <1>2, <2>1, <2>2
<1>3. shortage' = shortage => Same
  OBVIOUS
<1> HIDE DEF Same
<1>4. ASSUME NEW t \in Remits, Remit(t) PROVE Same \/ Next1
  <2>1. PICK j \in [op : {"remit"}, on : Drops, cash : Nat, bridge : Nat,
                    paidUp : BOOLEAN] : j = asked[t]
    BY <1>4 DEF Remit, Asking, CashTypeOK, Asks
  <2>2. PICK o \in Drops : o = j.on
    OBVIOUS
  <2>3. CASE j.bridge > 0
    <3>1. shortage' = [shortage EXCEPT ![o] = Reported(shortage[o], o, j)]
      BY <1>4, <2>1, <2>2, <2>3 DEF Remit
    <3>2. PICK row \in Shortages : row = Reported(shortage[o], o, j)
      BY ReportedType
    <3>3. row # Nil /\ shortage' = [shortage EXCEPT ![o] = row]
      BY <3>1, <3>2, NilAssumption
    <3>4. CASE shortage[o] # Nil
      <4>1. shortage[o] \in Shortages /\ riderCash[o] \in Nat /\ j.cash \in Nat
        BY <1>1, <3>4 DEF CashTypeOK
      <4>2. row = [shortage[o] EXCEPT !.status = "OPEN", !.expected = riderCash[o],
                                      !.actual = j.cash]
        BY <3>2, <3>4 DEF Reported
      <4>3. row.id = shortage[o].id
        BY <4>1, <4>2 DEF Shortages
      <4> QED BY <1>2, <3>3, <3>4, <4>3
    <3>5. CASE shortage[o] = Nil
      <4>1. PICK n \in Nat : n = Cardinality(Seen) + 1
        BY SeenCount
      <4>2. row.id = n
        BY <3>2, <3>5, <4>1 DEF Reported, Seen
      <4>3. shortage'[o] = row /\ \A p \in Drops \ {o} : shortage'[p] = shortage[p]
        BY <3>3 DEF CashTypeOK
      <4> QED BY <3>3, <3>5, <4>1, <4>2, <4>3
    <3> QED BY <3>4, <3>5
  <2>4. CASE ~(j.bridge > 0)
    BY <1>3, <1>4, <2>1, <2>4 DEF Remit
  <2> QED BY <2>3, <2>4
<1>5. ASSUME NEW o \in Drops, NEW pay \in 1 .. Total[o], Deduct(o, pay) PROVE Same
  <2>1. CASE shortage' = shortage
    BY <1>3, <2>1
  <2>2. CASE shortage' # shortage
    <3>1. PICK st \in {"CLOSED", "PARTIALLY_SETTLED"} :
             /\ shortage[o] # Nil
             /\ shortage' = [shortage EXCEPT ![o] = [shortage[o] EXCEPT !.status = st]]
      BY <1>5, <2>2 DEF Deduct, HasShortage, CashTypeOK
    <3>2. PICK row : row = [shortage[o] EXCEPT !.status = st]
      OBVIOUS
    <3>3. row \in Shortages /\ row.id = shortage[o].id
      BY <1>1, <3>1, <3>2 DEF Shortages
    <3> QED BY <1>2, <3>1, <3>2, <3>3
  <2> QED BY <2>1, <2>2
<1>6. ASSUME NEW t \in Remits, DecideShort(t) PROVE Same
  <2>1. PICK j \in [op : {"decide"}, on : Drops, verdict : Verdicts, short : Nat] :
           j = asked[t]
    BY <1>6 DEF DecideShort, Asking, CashTypeOK, Asks
  <2>2. PICK o \in Drops, v \in Verdicts : o = j.on /\ v = j.verdict
    OBVIOUS
  <2>3. shortage[o] # Nil
    BY <1>6, <2>1, <2>2 DEF DecideShort, Asking, AsksOK, AskOK
  <2>4. PICK st \in {"WAIVED", "MANAGER_APPROVED"} :
           st = IF v = "WAIVE" THEN "WAIVED" ELSE "MANAGER_APPROVED"
    OBVIOUS
  <2>5. PICK row : row = [shortage[o] EXCEPT !.verdict = v, !.status = st]
    OBVIOUS
  <2>6. row \in Shortages /\ row.id = shortage[o].id
    BY <1>1, <2>3, <2>5 DEF Shortages
  <2>7. shortage' = [shortage EXCEPT ![o] = row]
    BY <1>6, <2>1, <2>2, <2>4, <2>5 DEF DecideShort, CashTypeOK
  <2> QED BY <1>2, <2>3, <2>6, <2>7
<1>7. ASSUME NEW t \in Remits, Accept(t) PROVE Same
  <2>1. PICK o \in Drops : o = asked[t].on
    BY <1>7 DEF Accept, Asking, CashTypeOK, Asks
  <2>2. shortage[o] # Nil
    BY <1>7, <2>1 DEF Accept, Asking, AsksOK, AskOK
  <2>3. PICK row : row = [shortage[o] EXCEPT !.status = "RIDER_ACCEPTED",
                                             !.accepted = TRUE]
    OBVIOUS
  <2>4. row \in Shortages /\ row.id = shortage[o].id
    BY <1>1, <2>2, <2>3 DEF Shortages
  <2>5. shortage' = [shortage EXCEPT ![o] = row]
    BY <1>7, <2>1, <2>3 DEF Accept, CashTypeOK
  <2> QED BY <1>2, <2>2, <2>4, <2>5
<1>8. ASSUME NEW t \in Remits, Finalize(t) PROVE Same
  <2>1. CASE asked[t].on = Nil
    BY <1>3, <1>8, <2>1 DEF Finalize
  <2>2. CASE asked[t].on # Nil
    <3>1. PICK o \in Drops : o = asked[t].on
      BY <1>8, <2>2 DEF Finalize, Asking, CashTypeOK, Asks
    <3>2. shortage[o] # Nil
      BY <1>8, <2>2, <3>1 DEF Finalize, Asking, AsksOK, AskOK
    <3>3. PICK row : row = [shortage[o] EXCEPT !.status = "CLOSED"]
      OBVIOUS
    <3>4. row \in Shortages /\ row.id = shortage[o].id
      BY <1>1, <3>2, <3>3 DEF Shortages
    <3>5. shortage' = [shortage EXCEPT ![o] = row]
      BY <1>8, <2>2, <3>1, <3>3 DEF Finalize, CashTypeOK
    <3> QED BY <1>2, <3>2, <3>4, <3>5
  <2> QED BY <2>1, <2>2
<1>9. ASSUME NEW c \in Cashiers, ClaimRun(c) \/ \E p \in Drops : OpenRemit(c, p)
      PROVE  Same
  BY <1>3, <1>9 DEF OpenRemit, ClaimRun
<1>10. ASSUME NEW t \in Remits,
              \/ \E c \in Cashiers, p \in Drops, n \in Counted : RemitAsk(t, c, p, n)
              \/ \E p \in Drops, v \in Verdicts : DecideAsk(t, p, v)
              \/ \E p \in Drops : AcceptAsk(t, p)
              \/ FinalizeAsk(t) \/ GiveUp(t)
       PROVE  Same
  BY <1>3, <1>10 DEF RemitAsk, DecideAsk, AcceptAsk, FinalizeAsk, GiveUp
<1>11. (\E p \in Drops : LockExpires(p) \/ PlanDeduction(p)) \/ AutoSettle => Same
  BY <1>3 DEF LockExpires, PlanDeduction, AutoSettle
<1> QED
  BY <1>4, <1>5, <1>6, <1>7, <1>8, <1>9, <1>10, <1>11 DEF CashStep

\* No two variances share a number, and none is above their count.
LEMMA NumbersStep ==
    ASSUME CashTypeOK, CashTypeOK', AsksOK, CashStep, IdsOK
    PROVE  IdsOK'
<1>1. PICK n \in Nat : n = Cardinality(Seen)
  BY SeenCount
<1>2. \A o \in Drops : shortage[o] # Nil =>
         /\ shortage[o].id \in Nat
         /\ shortage[o].id <= n
         /\ \A p \in Drops : shortage[p] # Nil /\ shortage[p].id = shortage[o].id => p = o
  BY <1>1 DEF IdsOK, CashTypeOK, Shortages
<1>3. CASE \A o \in Drops : /\ shortage'[o] = Nil <=> shortage[o] = Nil
                            /\ shortage[o] # Nil => shortage'[o].id = shortage[o].id
  <2>1. Seen' = Seen
    BY <1>3 DEF Seen
  <2>2. Cardinality(Seen)' = n
    BY <1>1, <2>1
  <2> QED BY <1>2, <1>3, <2>2 DEF IdsOK
<1>4. ASSUME NEW o \in Drops, shortage[o] = Nil, shortage'[o] # Nil,
             shortage'[o].id = Cardinality(Seen) + 1,
             \A p \in Drops \ {o} : shortage'[p] = shortage[p]
      PROVE  IdsOK'
  <2>1. Seen' = Seen \cup {o} /\ o \notin Seen
    BY <1>4 DEF Seen
  <2>2. Cardinality(Seen \cup {o}) = n + 1
    BY <1>1, <2>1, SeenCount, FS_AddElement
  <2>3. Cardinality(Seen)' = n + 1
    BY <2>1, <2>2
  <2>4. shortage'[o].id = n + 1
    BY <1>1, <1>4
  <2> QED BY <1>2, <1>4, <2>3, <2>4 DEF IdsOK
<1> QED BY <1>3, <1>4, NumberChange

\* Cash that is all in stays so.
LEMMA AllInStays ==
    ASSUME CashTypeOK, CashTypeOK', CashGrows, riderCash' = riderCash, AllIn
    PROVE  AllIn'
<1> SUFFICES ASSUME NEW o \in Drops PROVE Due(o)' = 0
  BY DEF AllIn
<1>1. /\ riderCash[o] \in Nat /\ account[o].cash \in Nat /\ account'[o].cash \in Nat
      /\ account[o].cash <= account'[o].cash
  BY DEF CashTypeOK, Accounts, CashGrows
<1>2. riderCash[o] <= account[o].cash
  BY DueRange DEF AllIn
<1> QED BY <1>1, <1>2 DEF Due, AtMost

\* A deduction never changes the answer a shortage was given.
LEMMA DeductAnswers ==
    ASSUME CashTypeOK, NEW o \in Drops, shortage[o] # Nil, Answered(shortage[o]),
           NEW pay, Deduct(o, pay)
    PROVE  /\ shortage'[o] # Nil /\ Answered(shortage'[o])
           /\ shortage[o].status = "CLOSED" => shortage'[o] = shortage[o]
<1>1. shortage[o] \in Shortages
  BY DEF CashTypeOK
<1>2. CASE shortage'[o] = shortage[o]
  BY <1>2
<1>3. CASE shortage'[o] # shortage[o]
  <2>1. PICK st \in {"CLOSED", "PARTIALLY_SETTLED"} :
           /\ shortage'[o] = [shortage[o] EXCEPT !.status = st]
           /\ shortage[o].status # "CLOSED"
    BY <1>3 DEF Deduct, HasShortage, CashTypeOK
  <2>2. /\ shortage'[o] \in Shortages
        /\ shortage'[o].verdict = shortage[o].verdict
        /\ shortage'[o].accepted = shortage[o].accepted
    BY <1>1, <2>1 DEF Shortages
  <2>3. shortage'[o] # Nil
    BY <2>2, NilAssumption
  <2> QED BY <2>1, <2>2, <2>3 DEF Answered
<1> QED BY <1>2, <1>3

\* A closed shortage with its answer stays closed, with that answer.
LEMMA ClosedStays ==
    ASSUME CashTypeOK, AsksOK, CashStep, NEW o \in Drops, OrderInv(o),
           HasShortage(o, {"CLOSED"}), Answered(shortage[o])
    PROVE  HasShortage(o, {"CLOSED"})' /\ Answered(shortage'[o])
<1>1. shortage[o] # Nil /\ shortage[o].status = "CLOSED" /\ shortage[o] \in Shortages
  BY DEF HasShortage, CashTypeOK
<1>2. shortage'[o] = shortage[o] => HasShortage(o, {"CLOSED"})' /\ Answered(shortage'[o])
  BY DEF HasShortage
<1>3. ASSUME NEW t \in Remits, Remit(t), Holds(t, o) PROVE FALSE
  <2>1. account[o].status # "PAID"
    BY <1>3 DEF OrderInv, StillTrue, Holds, Remit, Asking
  <2> QED BY <1>1, <2>1 DEF OrderInv, RowExact
<1>4. ASSUME NEW t \in Remits, DecideShort(t) \/ Accept(t), Holds(t, o) PROVE FALSE
  <2>1. StillTrue(asked[t]) /\ asked[t].on = o /\ asked[t].op \in {"decide", "accept"}
    BY <1>4 DEF OrderInv, Holds, DecideShort, Accept, Asking
  <2> QED BY <1>1, <2>1 DEF StillTrue, HasShortage
<1>5. ASSUME NEW t \in Remits, Finalize(t), Holds(t, o) PROVE shortage'[o] = shortage[o]
  <2>1. shortage'[o] = [shortage[o] EXCEPT !.status = "CLOSED"]
    BY <1>5, SettlementAssumption DEF Finalize, Holds, CashTypeOK
  <2> QED BY <1>1, <2>1 DEF Shortages
<1>6. ASSUME NEW pay \in 1 .. Total[o], Deduct(o, pay) PROVE shortage'[o] = shortage[o]
  BY <1>1, <1>6, DeductAnswers
<1>7. Quiet(o) => shortage'[o] = shortage[o]
  BY DEF Quiet
<1> QED BY <1>2, <1>3, <1>4, <1>5, <1>6, <1>7, OrderChange DEF Commits

\* The shortage a settlement holds keeps its answer until the settlement commits.
LEMMA HeldAnswer ==
    ASSUME CashTypeOK, AsksOK, CashStep, NEW o \in Drops, OrderInv(o),
           NEW t \in Remits, Holds(t, o), asked'[t] = asked[t],
           shortage[o] # Nil, Answered(shortage[o])
    PROVE  shortage'[o] # Nil /\ Answered(shortage'[o])
<1>1. ASSUME NEW u \in Remits, Commits(u), Holds(u, o) PROVE FALSE
  <2>1. u = t
    BY <1>1 DEF OrderInv, Alone
  <2>2. asked'[u] = Nil
    BY <1>1 DEF Commits, Remit, DecideShort, Accept, Finalize, Answer, CashTypeOK
  <2> QED BY <2>1, <2>2 DEF Holds
<1>2. ASSUME NEW pay \in 1 .. Total[o], Deduct(o, pay)
      PROVE  shortage'[o] # Nil /\ Answered(shortage'[o])
  BY <1>2, DeductAnswers
<1>3. Quiet(o) => shortage'[o] # Nil /\ Answered(shortage'[o])
  BY DEF Quiet
<1> QED BY <1>1, <1>2, <1>3, OrderChange

\* A request that is about to settle the run found all the cash in, or the only
\* newest shortage answered.
LEMMA AskAnswered ==
    ASSUME CashTypeOK, IdsOK, OrdersOK, tangled = {}, NEW t \in Remits, FinalizeAsk(t)
    PROVE  AllIn \/ \E o \in Drops : /\ asked'[t].on = o /\ shortage[o] # Nil
                                     /\ Answered(shortage[o])
<1>1. PICK o \in Newest \cup {Nil} :
         /\ asked' = [asked EXCEPT ![t] = [op |-> "finalize", on |-> o]]
         /\ o = Nil => Newest = {}
  BY SettlementAssumption DEF FinalizeAsk, Ask, Newest, Pending
<1>2. asked'[t].on = o
  BY <1>1 DEF CashTypeOK
<1>3. CASE CashShort = 0
  BY <1>3, ShortOfNothing
<1>4. CASE CashShort # 0
  <2>1. CashShort > 0
    BY <1>4, ShortOfNothing
  <2>2. PICK p \in Newest : Cleared(shortage[p])
    BY <2>1 DEF FinalizeAsk
  <2>3. o \in Newest
    BY <1>1, <2>2
  <2>4. /\ o \in Drops /\ p \in Drops
        /\ shortage[o] \in Shortages /\ shortage[p] \in Shortages
        /\ shortage[o] # Nil /\ shortage[p] # Nil
        /\ shortage[p].status # "CLOSED"
        /\ shortage[o].id <= shortage[p].id /\ shortage[p].id <= shortage[o].id
    BY <2>2, <2>3 DEF Newest, Pending, HasShortage, CashTypeOK
  <2>5. shortage[o].id = shortage[p].id
    BY <2>4 DEF Shortages
  <2>6. o = p
    BY <2>4, <2>5 DEF IdsOK
  <2>7. shortage[p].status = "WAIVED" => shortage[p].verdict = "WAIVE"
    BY <2>4 DEF OrdersOK, OrderInv, DebtExact, VerdictOK
  <2>8. Answered(shortage[p])
    BY <2>2, <2>4, <2>7 DEF Cleared, Answered
  <2> QED BY <1>2, <2>4, <2>6, <2>8
<1> QED BY <1>3, <1>4

\* A run is settled only with all the cash in, or with an answer to its shortage.
LEMMA LetGoStep ==
    ASSUME CashTypeOK, CashTypeOK', ShortOK, AsksOK, CashGrows, OrdersOK, IdsOK, LetGo,
           riderCash' = riderCash, CashStep, CashNote
    PROVE  LetGo'
<1> SUFFICES ASSUME tangled' = {}
             PROVE  /\ runState' = "SETTLED" =>
                          AllIn' \/ \E o \in Drops : /\ HasShortage(o, {"CLOSED"})'
                                                     /\ Answered(shortage'[o])
                    /\ \A t \in Remits : asked'[t] # Nil /\ asked'[t].op = "finalize" =>
                          AllIn' \/ \E o \in Drops : /\ asked'[t].on = o
                                                     /\ shortage'[o] # Nil
                                                     /\ Answered(shortage'[o])
  BY DEF LetGo, HasShortage, Answered, Asking
<1>1. tangled = {}
  BY DEF CashNote
<1>2. \A o \in Drops : OrderInv(o)
  BY <1>1 DEF OrdersOK
<1>3. AllIn => AllIn'
  BY AllInStays
<1>4. ASSUME NEW t \in Remits, Finalize(t)
      PROVE  AllIn' \/ \E o \in Drops : /\ HasShortage(o, {"CLOSED"})'
                                        /\ Answered(shortage'[o])
  <2>1. CASE AllIn
    BY <1>3, <2>1
  <2>2. CASE ~AllIn
    <3>1. PICK o \in Drops : /\ asked[t].on = o /\ shortage[o] # Nil
                             /\ Answered(shortage[o])
      BY <1>1, <1>4, <2>2 DEF LetGo, Finalize
    <3>2. shortage[o] \in Shortages
      BY <3>1 DEF CashTypeOK
    <3>3. shortage'[o] = [shortage[o] EXCEPT !.status = "CLOSED"]
      BY <1>4, <3>1, SettlementAssumption DEF Finalize, CashTypeOK
    <3>4. /\ shortage'[o] \in Shortages /\ shortage'[o].status = "CLOSED"
          /\ shortage'[o].verdict = shortage[o].verdict
          /\ shortage'[o].accepted = shortage[o].accepted
      BY <3>2, <3>3 DEF Shortages
    <3>5. shortage'[o] # Nil
      BY <3>4, NilAssumption
    <3> QED BY <3>1, <3>4, <3>5 DEF HasShortage, Answered
  <2> QED BY <2>1, <2>2
<1>5. ASSUME runState' = "SETTLED"
      PROVE  AllIn' \/ \E o \in Drops : /\ HasShortage(o, {"CLOSED"})'
                                        /\ Answered(shortage'[o])
  <2>1. runState = "SETTLED" \/ AutoSettle \/ \E t \in Remits : Finalize(t)
    BY <1>5 DEF CashStep, OpenRemit, LockExpires, PlanDeduction, Deduct, ClaimRun, RemitAsk,
           DecideAsk, AcceptAsk, FinalizeAsk, Remit, DecideShort, Accept, GiveUp
  <2>2. AutoSettle => AllIn
    BY ShortOfNothing DEF AutoSettle
  <2>3. CASE runState = "SETTLED"
    <3>1. AllIn \/ \E o \in Drops : HasShortage(o, {"CLOSED"}) /\ Answered(shortage[o])
      BY <1>1, <2>3 DEF LetGo
    <3>2. ASSUME NEW o \in Drops, HasShortage(o, {"CLOSED"}), Answered(shortage[o])
          PROVE  HasShortage(o, {"CLOSED"})' /\ Answered(shortage'[o])
      BY <1>2, <3>2, ClosedStays
    <3> QED BY <1>3, <3>1, <3>2
  <2> QED BY <1>3, <1>4, <2>1, <2>2, <2>3
<1>6. ASSUME NEW t \in Remits, asked'[t] # Nil, asked'[t].op = "finalize"
      PROVE  AllIn' \/ \E o \in Drops : /\ asked'[t].on = o /\ shortage'[o] # Nil
                                        /\ Answered(shortage'[o])
  <2>1. CASE asked'[t] = asked[t]
    <3>1. CASE AllIn
      BY <1>3, <3>1
    <3>2. CASE ~AllIn
      <4>1. PICK o \in Drops : /\ asked[t].on = o /\ shortage[o] # Nil
                               /\ Answered(shortage[o])
        BY <1>1, <1>6, <2>1, <3>2 DEF LetGo, Asking
      <4>2. Holds(t, o)
        BY <1>6, <2>1, <4>1 DEF Holds
      <4> QED BY <1>2, <2>1, <4>1, <4>2, HeldAnswer
    <3> QED BY <3>1, <3>2
  <2>2. CASE asked'[t] # asked[t]
    <3>1. FinalizeAsk(t) /\ shortage' = shortage
      BY <1>6, <2>2, NewAskTrue
    <3> QED BY <1>1, <1>3, <3>1, AskAnswered
  <2> QED BY <2>1, <2>2
<1> QED BY <1>5, <1>6

\* Numbers stay unique, and every settlement has its answer.
LEMMA LetGoAlways == CashSpec => [](IdsOK /\ LetGo)
<1>1. CashInit => IdsOK /\ LetGo
  BY DEF CashInit, IdsOK, LetGo, Asking
<1>2. CashInv /\ OrdersOK /\ IdsOK /\ LetGo /\ CashNext /\ CashInv' => (IdsOK /\ LetGo)'
  <2> SUFFICES ASSUME CashInv, CashInv', OrdersOK, IdsOK, LetGo, CashNext
               PROVE  IdsOK' /\ LetGo'
    OBVIOUS
  <2>1. CashStep /\ CashNote /\ CashTypeOK /\ CashTypeOK' /\ ShortOK /\ AsksOK
    BY DEF CashInv, CashNext
  <2>2. riderCash' = riderCash
    BY <2>1, CashTypeStep
  <2>3. CashGrows
    BY <2>1, CashGrowsStep
  <2> QED BY <2>1, <2>2, <2>3, NumbersStep, LetGoStep
<1>3. IdsOK /\ LetGo /\ UNCHANGED cashVars => (IdsOK /\ LetGo)'
  BY DEF cashVars, IdsOK, Seen, LetGo, AllIn, Due, HasShortage, Answered, Asking
<1> QED BY <1>1, <1>2, <1>3, CashInvariant, OrdersAlways, PTL DEF CashSpec

\* A run that is short of cash is settled only with a shortage the manager let go or
\* the rider accepted.
THEOREM ShortagesAnswered == CashSpec => []ShortageAnswered
<1>1. CashInv /\ LetGo => ShortageAnswered
  <2> SUFFICES ASSUME CashInv, LetGo, runState = "SETTLED", CashShort > 0, tangled = {}
               PROVE  \E o \in Drops : shortage[o] # Nil /\ Answered(shortage[o])
    BY DEF ShortageAnswered, Answered
  <2>1. ~AllIn
    BY ShortOfNothing DEF CashInv
  <2> QED BY <2>1 DEF LetGo, HasShortage
<1> QED BY <1>1, CashInvariant, LetGoAlways, PTL

=============================================================================
