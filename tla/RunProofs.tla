----------------------------- MODULE RunProofs -----------------------------
(***************************************************************************)
(* The check-in of a run, for any number of receipts, any totals and any   *)
(* number of overlapping requests: a case keeps its terms, and after the   *)
(* submit every receipt that no overlap touched has exactly one answer.    *)
(*                                                                         *)
(* The run and its orders, for any number of runs, orders and requests, of *)
(* any quantities and with any rows read before they changed: what no two  *)
(* requests ever handled at once is loaded, carried, closed and reviewed   *)
(* as it should.  What a request holds is sound of what it alone handles   *)
(* (Sound), a step leaves alone what its request does not hold (SameOrder, *)
(* SameRun), and what a dispatch or an opening has compared is in stock    *)
(* unless a cell fell under it (StockFit).  Runs that leave share no order *)
(* even when an order was put on both (RoadsApart).                        *)
(***************************************************************************)
EXTENDS ClearanceGate, DeliveryRun, SumProofs

-----------------------------------------------------------------------------
(* The gate of the check-in *)


\* A case and its slip tell the same balance until the case is rejected, and an
\* approval grants all of it.
CaseSound(k) ==
    claim[k] # Nothing =>
        /\ slip[k] # Nothing
        /\ claim[k].owed > 0
        /\ ~Rejected(k) => claim[k].owed = Balance(k, slip[k].cash)
        /\ claim[k].granted + claim[k].off =
              IF claim[k].kind \in Approvals THEN claim[k].owed ELSE 0

CasesSound == \A k \in Slips \ loose : CaseSound(k)

VoidsSound == \A k \in Slips \ loose : Voided(k) => Rejected(k)

PendingUndecided ==
    \A k \in Slips : claim[k] # Nothing =>
        (claim[k].status = "NEEDS_CLEARANCE" <=> claim[k].kind = Nothing)

\* A key that two requests have in hand is loose.
HandsApart ==
    \A t, u \in Posts : \A k \in Slips :
        t # u /\ k \in Concerns(post[t]) /\ k \in Concerns(post[u]) => k \in loose

\* A decision has the terms of its case in hand, and the case still waits.
DecisionInHand ==
    \A t \in Posts : Posting(t, "decide") =>
        /\ claim[post[t].key] # Nothing
        /\ claim[post[t].key].owed = post[t].owed
        /\ post[t].key \notin loose => claim[post[t].key].status = "NEEDS_CLEARANCE"

\* After the submit nothing is in hand and nothing waits, loose keys apart.
NothingLeftOpen ==
    trip = "CHECKED_IN" =>
        /\ \A t \in Posts : Concerns(post[t]) \subseteq loose
        /\ \A k \in Slips \ loose :
              claim[k] # Nothing => claim[k].status = "DECIDED"

GateInv ==
    /\ GateTypeOK
    /\ CasesSound
    /\ VoidsSound
    /\ PendingUndecided
    /\ HandsApart
    /\ DecisionInHand
    /\ NothingLeftOpen

-----------------------------------------------------------------------------
(* Shapes *)

\* Amounts the forms may carry are natural numbers.
LEMMA PriceNat == \A k \in Slips : Price[k] \in Nat /\ Price[k] > 0
  BY GateAssumption

LEMMA CashNat ==
  ASSUME NEW cash \in UNION {0 .. Price[k] : k \in Slips}
  PROVE  cash \in Nat
  BY PriceNat

\* What a request has in hand has the shape of its operation.
LEMMA HandShape ==
  ASSUME GateTypeOK, NEW t \in Posts, post[t] # Nothing
  PROVE  /\ post[t] \in PostRows
         /\ post[t].op \in {"send", "void", "decide", "save"}
         /\ post[t].op = "save" => post[t].seen \in SUBSET Slips
         /\ post[t].op # "save" => post[t].key \in Slips
         /\ post[t].op = "decide" => post[t].owed \in Nat
  <1>1. post[t] \in PostRows
    BY DEF GateTypeOK
  <1> QED
    BY <1>1 DEF PostRows

\* A request begins, or ends; the others keep what they have in hand.
LEMMA BeginShape ==
  ASSUME GateTypeOK, NEW t \in Posts, NEW p \in PostRows, BeginPost(t, p)
  PROVE  /\ post' \in [Posts -> PostRows \cup {Nothing}]
         /\ post[t] = Nothing
         /\ post'[t] = p
         /\ \A u \in Posts \ {t} : post'[u] = post[u]
  BY DEF GateTypeOK, BeginPost

LEMMA EndShape ==
  ASSUME GateTypeOK, NEW t \in Posts, EndPost(t)
  PROVE  /\ post' \in [Posts -> PostRows \cup {Nothing}]
         /\ post'[t] = Nothing
         /\ \A u \in Posts \ {t} : post'[u] = post[u]
  BY DEF GateTypeOK, EndPost

LEMMA SendTyped ==
  ASSUME GateTypeOK, NEW t \in Posts, Posting(t, "send"),
         NEW cash \in UNION {0 .. Price[k] : k \in Slips}, Send(t, cash)
  PROVE  LET k == post[t].key IN
         /\ k \in Slips
         /\ cash \in Nat
         /\ claim[k] = Nothing
         /\ Balance(k, cash) \in Nat
         /\ Balance(k, cash) > 0
         /\ slip' = [slip EXCEPT ![k] = Written(k, cash)]
         /\ slip' \in [Slips -> SlipRows \cup {Nothing}]
         /\ claim' = [claim EXCEPT ![k] = Opened(cash, k)]
         /\ claim' \in [Slips -> ClaimRows \cup {Nothing}]
  <1> DEFINE k == post[t].key
  <1>1. k \in Slips /\ cash \in Nat
    BY HandShape, CashNat DEF Posting
  <1>2. claim[k] = Nothing /\ cash < Price[k]
    BY DEF Send, MaySend
  <1>3. Balance(k, cash) \in Nat /\ Balance(k, cash) > 0
    BY <1>1, <1>2, PriceNat DEF Balance
  <1>4. Voided(k) \in BOOLEAN
    BY <1>1 DEF Voided, GateTypeOK, SlipRows
  <1>5. Written(k, cash) \in SlipRows
    BY <1>1, <1>4 DEF Written, SlipRows
  <1>6. Opened(cash, k) \in ClaimRows
    BY <1>3 DEF Opened, ClaimRows
  <1>7. slip' = [slip EXCEPT ![k] = Written(k, cash)] /\ claim' = [claim EXCEPT ![k] = Opened(cash, k)]
    BY DEF Send
  <1> QED
    BY <1>1, <1>2, <1>3, <1>5, <1>6, <1>7 DEF GateTypeOK

LEMMA ClaimShape ==
  ASSUME GateTypeOK, NEW k \in Slips, claim[k] # Nothing
  PROVE  /\ claim[k] \in ClaimRows
         /\ claim[k].status \in {"NEEDS_CLEARANCE", "DECIDED"}
         /\ claim[k].owed \in Nat
         /\ claim[k].kind \in Approvals \cup {"REJECT", Nothing}
         /\ claim[k].granted \in Nat
         /\ claim[k].off \in Nat
  <1>1. claim[k] \in ClaimRows
    BY DEF GateTypeOK
  <1> QED
    BY <1>1 DEF ClaimRows

LEMMA SlipShape ==
  ASSUME GateTypeOK, NEW k \in Slips, slip[k] # Nothing
  PROVE  slip[k] \in SlipRows /\ slip[k].cash \in Nat /\ slip[k].void \in BOOLEAN
  <1>1. slip[k] \in SlipRows
    BY DEF GateTypeOK
  <1> QED
    BY <1>1 DEF SlipRows

\* A decision rewrites the case it has in hand.
LEMMA DecidedShape ==
  ASSUME GateTypeOK, DecisionInHand, NEW t \in Posts, Posting(t, "decide"),
         NEW kind \in Approvals \cup {"REJECT"}, NEW ar \in Nat, NEW off \in Nat,
         claim' = [claim EXCEPT ![post[t].key] = Decided(claim[post[t].key], kind, ar, off)]
  PROVE  LET k == post[t].key IN
         /\ k \in Slips
         /\ claim[k] # Nothing
         /\ claim[k].owed = post[t].owed
         /\ claim'[k] = Decided(claim[k], kind, ar, off)
         /\ claim'[k] # Nothing
         /\ \A j \in Slips \ {k} : claim'[j] = claim[j]
         /\ claim' \in [Slips -> ClaimRows \cup {Nothing}]
  <1> DEFINE k == post[t].key
             row == Decided(claim[k], kind, ar, off)
  <1>1. k \in Slips /\ claim[k] # Nothing /\ claim[k].owed = post[t].owed
    BY HandShape DEF Posting, DecisionInHand
  <1>2. /\ claim[k].owed \in Nat
        /\ claim[k].granted + ar \in Nat
        /\ claim[k].off + off \in Nat
    BY <1>1, ClaimShape
  <1>3. row \in ClaimRows
    BY <1>2 DEF ClaimRows, Decided
  <1>4. claim' = [claim EXCEPT ![k] = row]
    OBVIOUS
  <1> HIDE DEF row
  <1>5. claim'[k] = row /\ \A j \in Slips \ {k} : claim'[j] = claim[j]
    BY <1>1, <1>4 DEF GateTypeOK
  <1>6. claim' \in [Slips -> ClaimRows \cup {Nothing}]
    BY <1>3, <1>4 DEF GateTypeOK
  <1>7. claim'[k] # Nothing
    BY <1>3, <1>5, NothingAssumption
  <1> QED
    BY <1>1, <1>5, <1>6, <1>7 DEF row

LEMMA ApproveTyped ==
  ASSUME GateTypeOK, DecisionInHand, NEW t \in Posts, NEW off \in Rebates, Approve(t, off)
  PROVE  LET k == post[t].key IN
         /\ k \in Slips
         /\ claim[k] # Nothing
         /\ off \in Nat
         /\ off <= claim[k].owed
         /\ KindOf(claim[k].owed, off) \in Approvals
         /\ claim'[k] = Decided(claim[k], KindOf(claim[k].owed, off), claim[k].owed - off, off)
         /\ claim'[k] # Nothing
         /\ \A j \in Slips \ {k} : claim'[j] = claim[j]
         /\ claim' \in [Slips -> ClaimRows \cup {Nothing}]
  <1> DEFINE k == post[t].key
             kind == KindOf(post[t].owed, off)
             ar == post[t].owed - off
  <1>1. Posting(t, "decide") /\ off <= post[t].owed
    BY DEF Approve
  <1>2. post[t].owed \in Nat /\ off \in Nat
    BY <1>1, HandShape, GateAssumption DEF Posting
  <1>3. ar \in Nat
    BY <1>1, <1>2
  <1>4. kind \in Approvals
    BY DEF KindOf, Approvals
  <1>5. claim' = [claim EXCEPT ![k] = Decided(claim[k], kind, ar, off)]
    BY DEF Approve, GrantedAr
  <1> HIDE DEF kind, ar
  <1>6. /\ k \in Slips
        /\ claim[k] # Nothing
        /\ claim[k].owed = post[t].owed
        /\ claim'[k] = Decided(claim[k], kind, ar, off)
        /\ claim'[k] # Nothing
        /\ \A j \in Slips \ {k} : claim'[j] = claim[j]
        /\ claim' \in [Slips -> ClaimRows \cup {Nothing}]
    BY <1>1, <1>2, <1>3, <1>4, <1>5, DecidedShape
  <1> QED
    BY <1>1, <1>2, <1>4, <1>6 DEF kind, ar

LEMMA RejectTyped ==
  ASSUME GateTypeOK, DecisionInHand, NEW t \in Posts, Reject(t)
  PROVE  LET k == post[t].key IN
         /\ k \in Slips
         /\ claim[k] # Nothing
         /\ claim'[k] = Decided(claim[k], "REJECT", 0, 0)
         /\ claim'[k] # Nothing
         /\ \A j \in Slips \ {k} : claim'[j] = claim[j]
         /\ claim' \in [Slips -> ClaimRows \cup {Nothing}]
  <1>1. Posting(t, "decide")
    BY DEF Reject
  <1>2. claim' = [claim EXCEPT ![post[t].key] = Decided(claim[post[t].key], "REJECT", 0, 0)]
    BY DEF Reject
  <1> QED
    BY <1>1, <1>2, DecidedShape

LEMMA VoidTyped ==
  ASSUME GateTypeOK, NEW t \in Posts, MarkVoid(t)
  PROVE  LET k == post[t].key IN
         /\ k \in Slips
         /\ Rejected(k)
         /\ slip'[k] # Nothing
         /\ slip[k] # Nothing => slip'[k].cash = slip[k].cash
         /\ \A j \in Slips \ {k} : slip'[j] = slip[j]
         /\ slip' \in [Slips -> SlipRows \cup {Nothing}]
  <1> DEFINE k == post[t].key
             cash == IF slip[k] = Nothing THEN 0 ELSE slip[k].cash
             row == [cash |-> cash, void |-> TRUE]
  <1>1. k \in Slips /\ Rejected(k)
    BY HandShape DEF MarkVoid, Posting
  <1>2. cash \in Nat
    BY <1>1, SlipShape
  <1>3. row \in SlipRows
    BY <1>2 DEF SlipRows
  <1>4. slip' = [slip EXCEPT ![k] = row]
    BY DEF MarkVoid
  <1> QED
    BY <1>1, <1>3, <1>4, NothingAssumption DEF GateTypeOK

\* The amounts of a form.
Forms == [Slips -> UNION {0 .. Price[k] : k \in Slips}]

LEMMA SaveTyped ==
  ASSUME GateTypeOK, NEW t \in Posts, NEW submit \in BOOLEAN, NEW roads \in SUBSET Roads,
         NEW bad \in SUBSET Parents, NEW cash \in Forms, Save(t, submit, roads, bad, cash)
  PROVE  /\ trip' \in {"DISPATCHED", "CHECKED_IN"}
         /\ failed' \in SUBSET Parents
         /\ slip' \in [Slips -> SlipRows \cup {Nothing}]
         /\ \A k \in Slips : cash[k] \in Nat
  <1>1. \A k \in Slips : cash[k] \in Nat
    BY CashNat DEF Forms
  <1>2. \A k \in Slips : Written(k, cash[k]) \in SlipRows
    <2>1. \A k \in Slips : Voided(k) \in BOOLEAN
      BY SlipShape DEF Voided
    <2> QED
      BY <1>1, <2>1 DEF Written, SlipRows
  <1>3. slip' = [k \in Slips |->
                   IF k \in Parents \cup roads THEN Written(k, cash[k])
                   ELSE IF Kept(k, Parents \cup roads) THEN slip[k] ELSE Nothing]
    BY DEF Save
  <1>4. slip' \in [Slips -> SlipRows \cup {Nothing}]
    BY <1>2, <1>3 DEF GateTypeOK
  <1>5. trip' \in {"DISPATCHED", "CHECKED_IN"} /\ failed' \in SUBSET Parents
    BY DEF Save
  <1> QED
    BY <1>1, <1>4, <1>5

\* A step of one request: which rows it may change, by what it has in hand.
LEMMA StepFrame ==
  ASSUME GateTypeOK, DecisionInHand, NEW t \in Posts, GateStep(t)
  PROVE  /\ trip' \in {"DISPATCHED", "CHECKED_IN"}
         /\ slip' \in [Slips -> SlipRows \cup {Nothing}]
         /\ failed' \in SUBSET Parents
         /\ claim' \in [Slips -> ClaimRows \cup {Nothing}]
         /\ post' \in [Posts -> PostRows \cup {Nothing}]
         /\ \A u \in Posts \ {t} : post'[u] = post[u]
         /\ \A k \in Slips : k \notin Concerns(post[t]) =>
               claim'[k] = claim[k] /\ slip'[k] = slip[k]
         /\ post'[t] = Nothing \/ post[t] = Nothing
  <1> DEFINE Frame == \A k \in Slips : k \notin Concerns(post[t]) =>
                         claim'[k] = claim[k] /\ slip'[k] = slip[k]
             Goal == /\ trip' \in {"DISPATCHED", "CHECKED_IN"}
                     /\ slip' \in [Slips -> SlipRows \cup {Nothing}]
                     /\ failed' \in SUBSET Parents
                     /\ claim' \in [Slips -> ClaimRows \cup {Nothing}]
                     /\ post' \in [Posts -> PostRows \cup {Nothing}]
                     /\ \A u \in Posts \ {t} : post'[u] = post[u]
                     /\ Frame
                     /\ post'[t] = Nothing \/ post[t] = Nothing
  <1> USE DEF GateTypeOK
  <1>1. ASSUME NEW k \in Slips, SendBegin(t, k) PROVE Goal
    <2>1. [op |-> "send", key |-> k] \in PostRows
      BY DEF PostRows
    <2> QED
      BY <1>1, <2>1, BeginShape DEF SendBegin
  <1>2. ASSUME NEW k \in Slips, DecideBegin(t, k) PROVE Goal
    <2>1. claim[k].owed \in Nat
      BY <1>2, ClaimShape DEF DecideBegin
    <2>2. [op |-> "decide", key |-> k, owed |-> claim[k].owed] \in PostRows
      BY <2>1 DEF PostRows
    <2> QED
      BY <1>2, <2>2, BeginShape DEF DecideBegin
  <1>3. ASSUME NEW k \in Slips, VoidBegin(t, k) PROVE Goal
    <2>1. [op |-> "void", key |-> k] \in PostRows
      BY DEF PostRows
    <2> QED
      BY <1>3, <2>1, BeginShape DEF VoidBegin
  <1>4. ASSUME NEW seen \in SUBSET Slips, SaveBegin(t, seen) PROVE Goal
    <2>1. [op |-> "save", seen |-> seen] \in PostRows
      BY DEF PostRows
    <2> QED
      BY <1>4, <2>1, BeginShape DEF SaveBegin
  <1> DEFINE key == post[t].key
  <1>5. ASSUME NEW cash \in UNION {0 .. Price[k] : k \in Slips}, Send(t, cash) PROVE Goal
    <2>1. Posting(t, "send")
      BY <1>5 DEF Send
    <2>2. /\ key \in Slips
          /\ slip' = [slip EXCEPT ![key] = Written(key, cash)]
          /\ claim' = [claim EXCEPT ![key] = Opened(cash, key)]
          /\ slip' \in [Slips -> SlipRows \cup {Nothing}]
          /\ claim' \in [Slips -> ClaimRows \cup {Nothing}]
      BY <1>5, <2>1, SendTyped
    <2>3. Concerns(post[t]) = {key}
      BY <2>1 DEF Posting, Concerns
    <2>4. Frame
      BY <2>2, <2>3
    <2>5. EndPost(t) /\ trip' = trip /\ failed' = failed
      BY <1>5 DEF Send
    <2> QED
      BY <2>2, <2>4, <2>5, EndShape
  <1>6. ASSUME NEW off \in Rebates, Approve(t, off) PROVE Goal
    <2>1. Posting(t, "decide") /\ EndPost(t) /\ UNCHANGED <<trip, slip, failed>>
      BY <1>6 DEF Approve
    <2>2. /\ key \in Slips
          /\ \A j \in Slips \ {key} : claim'[j] = claim[j]
          /\ claim' \in [Slips -> ClaimRows \cup {Nothing}]
      BY <1>6, ApproveTyped
    <2>3. Concerns(post[t]) = {key}
      BY <2>1 DEF Posting, Concerns
    <2>4. Frame
      BY <2>1, <2>2, <2>3
    <2> QED
      BY <2>1, <2>2, <2>4, EndShape
  <1>7. ASSUME Reject(t) PROVE Goal
    <2>1. Posting(t, "decide") /\ EndPost(t) /\ UNCHANGED <<trip, slip, failed>>
      BY <1>7 DEF Reject
    <2>2. /\ key \in Slips
          /\ \A j \in Slips \ {key} : claim'[j] = claim[j]
          /\ claim' \in [Slips -> ClaimRows \cup {Nothing}]
      BY <1>7, RejectTyped
    <2>3. Concerns(post[t]) = {key}
      BY <2>1 DEF Posting, Concerns
    <2>4. Frame
      BY <2>1, <2>2, <2>3
    <2> QED
      BY <2>1, <2>2, <2>4, EndShape
  <1>8. ASSUME MarkVoid(t) PROVE Goal
    <2>1. Posting(t, "void") /\ EndPost(t) /\ UNCHANGED <<trip, failed, claim>>
      BY <1>8 DEF MarkVoid
    <2>2. /\ key \in Slips
          /\ \A j \in Slips \ {key} : slip'[j] = slip[j]
          /\ slip' \in [Slips -> SlipRows \cup {Nothing}]
      BY <1>8, VoidTyped
    <2>3. Concerns(post[t]) = {key}
      BY <2>1 DEF Posting, Concerns
    <2>4. Frame
      BY <2>1, <2>2, <2>3
    <2> QED
      BY <2>1, <2>2, <2>4, EndShape
  <1>9. ASSUME NEW submit \in BOOLEAN, NEW roads \in SUBSET Roads, NEW bad \in SUBSET Parents,
               NEW cash \in Forms, Save(t, submit, roads, bad, cash)
        PROVE  Goal
    <2>1. Posting(t, "save") /\ EndPost(t) /\ claim' = claim
      BY <1>9 DEF Save
    <2>2. /\ trip' \in {"DISPATCHED", "CHECKED_IN"}
          /\ failed' \in SUBSET Parents
          /\ slip' \in [Slips -> SlipRows \cup {Nothing}]
      BY <1>9, SaveTyped
    <2>3. Concerns(post[t]) = Slips
      BY <2>1 DEF Posting, Concerns
    <2>4. Frame
      BY <2>3
    <2> QED
      BY <2>1, <2>2, <2>4, EndShape
  <1>10. ASSUME DropPost(t) PROVE Goal
    BY <1>10, EndShape DEF DropPost
  <1>11. Goal
    BY <1>1, <1>2, <1>3, <1>4, <1>5, <1>6, <1>7, <1>8, <1>9, <1>10 DEF GateStep, Forms
  <1> QED
    BY <1>11

-----------------------------------------------------------------------------
(* Steps *)

\* How a step marks the keys it touched from an old page or beside another request.
Marked(t) ==
    loose' = loose \cup Stale(t) \cup
               {k \in Slips : \E u \in Posts \ {t} :
                                 /\ k \in Concerns(post'[u])
                                 /\ k \in Concerns(post'[t]) \cup Concerns(post[t])}

LEMMA Marking ==
  ASSUME GateTypeOK, NEW t \in Posts, Marked(t)
  PROVE  /\ loose \subseteq loose'
         /\ loose' \in SUBSET Slips
         /\ \A k \in Slips \ loose' :
               /\ k \notin loose
               /\ k \notin Stale(t)
               /\ k \in Concerns(post[t]) \/ k \in Concerns(post'[t]) =>
                     \A u \in Posts \ {t} : k \notin Concerns(post'[u])
  <1>1. Stale(t) \subseteq Slips
    BY DEF Stale, Cased
  <1> QED
    BY <1>1 DEF Marked, GateTypeOK

\* A request that begins changes no row; only a decision begins after the submit.
LEMMA Beginning ==
  ASSUME GateTypeOK, NEW t \in Posts, post[t] = Nothing, GateStep(t)
  PROVE  /\ UNCHANGED <<trip, slip, failed, claim>>
         /\ post'[t] \in PostRows
         /\ trip = "DISPATCHED" \/ post'[t].op = "decide"
         /\ post'[t].op = "decide" =>
               LET k == post'[t].key IN
               /\ k \in Slips
               /\ claim[k] # Nothing
               /\ claim[k].status = "NEEDS_CLEARANCE"
               /\ claim[k].owed = post'[t].owed
  <1> DEFINE Goal ==
         /\ UNCHANGED <<trip, slip, failed, claim>>
         /\ post'[t] \in PostRows
         /\ trip = "DISPATCHED" \/ post'[t].op = "decide"
         /\ post'[t].op = "decide" =>
               LET k == post'[t].key IN
               /\ k \in Slips
               /\ claim[k] # Nothing
               /\ claim[k].status = "NEEDS_CLEARANCE"
               /\ claim[k].owed = post'[t].owed
  <1>1. ASSUME NEW k \in Slips, SendBegin(t, k) PROVE Goal
    <2>1. [op |-> "send", key |-> k] \in PostRows
      BY DEF PostRows
    <2>2. post'[t] = [op |-> "send", key |-> k]
      BY <1>1, <2>1, BeginShape DEF SendBegin
    <2> QED
      BY <1>1, <2>1, <2>2 DEF SendBegin, EditableTrip
  <1>2. ASSUME NEW k \in Slips, DecideBegin(t, k) PROVE Goal
    <2>1. claim[k].owed \in Nat
      BY <1>2, ClaimShape DEF DecideBegin
    <2>2. [op |-> "decide", key |-> k, owed |-> claim[k].owed] \in PostRows
      BY <2>1 DEF PostRows
    <2>3. post'[t] = [op |-> "decide", key |-> k, owed |-> claim[k].owed]
      BY <1>2, <2>2, BeginShape DEF DecideBegin
    <2> QED
      BY <1>2, <2>2, <2>3 DEF DecideBegin
  <1>3. ASSUME NEW k \in Slips, VoidBegin(t, k) PROVE Goal
    <2>1. [op |-> "void", key |-> k] \in PostRows
      BY DEF PostRows
    <2>2. post'[t] = [op |-> "void", key |-> k]
      BY <1>3, <2>1, BeginShape DEF VoidBegin
    <2> QED
      BY <1>3, <2>1, <2>2 DEF VoidBegin, EditableTrip
  <1>4. ASSUME NEW seen \in SUBSET Slips, SaveBegin(t, seen) PROVE Goal
    <2>1. [op |-> "save", seen |-> seen] \in PostRows
      BY DEF PostRows
    <2>2. post'[t] = [op |-> "save", seen |-> seen]
      BY <1>4, <2>1, BeginShape DEF SaveBegin
    <2> QED
      BY <1>4, <2>1, <2>2 DEF SaveBegin, EditableTrip
  <1> QED
    BY <1>1, <1>2, <1>3, <1>4
       DEF GateStep, Send, Approve, Reject, MarkVoid, Save, Posting, DropPost

\* A request that has something in hand commits it or drops it.
LEMMA Ending ==
  ASSUME NEW t \in Posts, post[t] # Nothing, GateStep(t)
  PROVE  \/ \E cash \in UNION {0 .. Price[k] : k \in Slips} : Send(t, cash)
         \/ \E off \in Rebates : Approve(t, off)
         \/ Reject(t)
         \/ MarkVoid(t)
         \/ \E submit \in BOOLEAN, roads \in SUBSET Roads, bad \in SUBSET Parents :
               \E cash \in Forms : Save(t, submit, roads, bad, cash)
         \/ DropPost(t)
  BY DEF GateStep, SendBegin, DecideBegin, VoidBegin, SaveBegin, BeginPost, Forms

\* A case, once there, keeps its terms and stays decided: no request writes over it.
LEMMA CaseKept ==
  ASSUME GateTypeOK, DecisionInHand, NEW t \in Posts, GateStep(t),
         NEW k \in Slips, claim[k] # Nothing
  PROVE  /\ claim'[k] # Nothing
         /\ claim'[k].owed = claim[k].owed
         /\ claim[k].status = "DECIDED" => claim'[k].status = "DECIDED"
  <1> DEFINE Goal == /\ claim'[k] # Nothing
                     /\ claim'[k].owed = claim[k].owed
                     /\ claim[k].status = "DECIDED" => claim'[k].status = "DECIDED"
             key == post[t].key
  <1>1. CASE post[t] = Nothing
    BY <1>1, Beginning
  <1>2. ASSUME NEW cash \in UNION {0 .. Price[j] : j \in Slips}, Send(t, cash) PROVE Goal
    <2>1. /\ key \in Slips
          /\ claim[key] = Nothing
          /\ claim' = [claim EXCEPT ![key] = Opened(cash, key)]
      BY <1>2, SendTyped DEF Send
    <2> QED
      BY <2>1 DEF GateTypeOK
  <1>3. ASSUME NEW kind, NEW ar, NEW off, key \in Slips, claim'[key] # Nothing,
               claim'[key] = Decided(claim[key], kind, ar, off),
               \A j \in Slips \ {key} : claim'[j] = claim[j]
        PROVE  Goal
    <2>1. claim'[key].status = "DECIDED" /\ claim'[key].owed = claim[key].owed
      BY <1>3 DEF Decided
    <2> QED
      BY <1>3, <2>1
  <1>4. ASSUME NEW off \in Rebates, Approve(t, off) PROVE Goal
    BY <1>4, <1>3, ApproveTyped
  <1>5. ASSUME Reject(t) PROVE Goal
    BY <1>5, <1>3, RejectTyped
  <1>6. claim' = claim => Goal
    OBVIOUS
  <1>7. CASE post[t] # Nothing
    <2>1. \/ MarkVoid(t) \/ DropPost(t)
          \/ \E submit \in BOOLEAN, roads \in SUBSET Roads, bad \in SUBSET Parents :
                \E cash \in Forms : Save(t, submit, roads, bad, cash)
          => claim' = claim
      BY DEF MarkVoid, DropPost, Save
    <2> QED
      BY <1>7, <1>2, <1>4, <1>5, <1>6, <2>1, Ending
  <1> QED
    BY <1>1, <1>7

LEMMA TypeStep ==
  ASSUME GateTypeOK, DecisionInHand, NEW t \in Posts, GateStep(t), Marked(t)
  PROVE  GateTypeOK'
  <1>1. loose' \in SUBSET Slips
    BY Marking
  <1> QED
    BY <1>1, StepFrame DEF GateTypeOK

LEMMA HandsStep ==
  ASSUME GateTypeOK, DecisionInHand, HandsApart, NEW t \in Posts, GateStep(t), Marked(t)
  PROVE  HandsApart'
  <1> SUFFICES ASSUME NEW u \in Posts, NEW v \in Posts, NEW k \in Slips, u # v,
                      k \in Concerns(post'[u]), k \in Concerns(post'[v])
               PROVE  k \in loose'
    BY DEF HandsApart
  <1>1. CASE u # t /\ v # t
    <2>1. post'[u] = post[u] /\ post'[v] = post[v]
      BY <1>1, StepFrame
    <2>2. k \in loose
      BY <2>1 DEF HandsApart
    <2> QED
      BY <2>2 DEF Marked
  <1>2. CASE u = t
    BY <1>2 DEF Marked
  <1>3. CASE v = t
    BY <1>3 DEF Marked
  <1> QED
    BY <1>1, <1>2, <1>3

LEMMA DecisionStep ==
  ASSUME GateTypeOK, DecisionInHand, NEW t \in Posts, GateStep(t), Marked(t)
  PROVE  DecisionInHand'
  <1> SUFFICES ASSUME NEW u \in Posts, post'[u] # Nothing, post'[u].op = "decide"
               PROVE  LET k == post'[u].key IN
                      /\ claim'[k] # Nothing
                      /\ claim'[k].owed = post'[u].owed
                      /\ k \notin loose' => claim'[k].status = "NEEDS_CLEARANCE"
    BY DEF DecisionInHand, Posting
  <1> DEFINE k == post'[u].key
  <1>1. CASE u = t
    <2>1. post[t] = Nothing
      BY <1>1, StepFrame
    <2>2. claim' = claim
      BY <2>1, Beginning
    <2>3. /\ claim[k] # Nothing
          /\ claim[k].status = "NEEDS_CLEARANCE"
          /\ claim[k].owed = post'[u].owed
      BY <1>1, <2>1, Beginning
    <2> QED
      BY <2>2, <2>3
  <1>2. CASE u # t
    <2>1. post'[u] = post[u]
      BY <1>2, StepFrame
    <2>2. /\ k \in Slips
          /\ claim[k] # Nothing
          /\ claim[k].owed = post'[u].owed
          /\ k \notin loose => claim[k].status = "NEEDS_CLEARANCE"
      BY <2>1, HandShape DEF DecisionInHand, Posting
    <2>3. claim'[k] # Nothing /\ claim'[k].owed = claim[k].owed
      BY <2>2, CaseKept
    <2>4. ASSUME k \notin loose' PROVE claim'[k].status = "NEEDS_CLEARANCE"
      <3>1. k \in Concerns(post'[u])
        BY DEF Concerns
      <3>2. k \notin loose /\ k \notin Concerns(post[t])
        BY <1>2, <2>2, <2>4, <3>1, Marking
      <3>3. claim'[k] = claim[k]
        BY <2>2, <3>2, StepFrame
      <3> QED
        BY <2>2, <3>2, <3>3
    <2> QED
      BY <2>2, <2>3, <2>4
  <1> QED
    BY <1>1, <1>2

\* Only a save moves the run, and it has every key in hand.
LEMMA TripStep ==
  ASSUME NEW t \in Posts, post[t] # Nothing, GateStep(t)
  PROVE  \/ trip' = trip /\ failed' = failed
         \/ /\ Posting(t, "save")
            /\ \E submit \in BOOLEAN, roads \in SUBSET Roads, bad \in SUBSET Parents :
                  \E cash \in Forms : Save(t, submit, roads, bad, cash)
  BY Ending DEF Send, Approve, Reject, MarkVoid, Save, DropPost

LEMMA ConcernsKeys ==
  ASSUME GateTypeOK, NEW t \in Posts
  PROVE  Concerns(post[t]) \subseteq Slips
  BY HandShape DEF Concerns

LEMMA OpenStep ==
  ASSUME GateTypeOK, DecisionInHand, NothingLeftOpen, NEW t \in Posts, GateStep(t), Marked(t)
  PROVE  NothingLeftOpen'
  <1> SUFFICES ASSUME trip' = "CHECKED_IN"
               PROVE  /\ \A u \in Posts : Concerns(post'[u]) \subseteq loose'
                      /\ \A k \in Slips \ loose' :
                            claim'[k] # Nothing => claim'[k].status = "DECIDED"
    BY DEF NothingLeftOpen, Concerns
  <1>1. loose \subseteq loose'
    BY Marking
  <1>2. CASE post[t] = Nothing
    <2>1. trip = "CHECKED_IN" /\ claim' = claim
      BY <1>2, Beginning
    <2>2. post'[t].op = "decide" /\ post'[t] \in PostRows
      BY <1>2, <2>1, Beginning
    <2>3. post'[t].key \in loose
      BY <1>2, <2>1, <2>2, Beginning DEF NothingLeftOpen
    <2>4. Concerns(post'[t]) = {post'[t].key}
      BY <2>2, NothingAssumption DEF Concerns
    <2>5. \A u \in Posts : Concerns(post'[u]) \subseteq loose
      BY <2>1, <2>3, <2>4, StepFrame DEF NothingLeftOpen
    <2> QED
      BY <1>1, <2>1, <2>5 DEF NothingLeftOpen
  <1>3. CASE post[t] # Nothing
    <2>1. post'[t] = Nothing
      BY <1>3, StepFrame
    <2>2. Concerns(post'[t]) = {}
      BY <2>1 DEF Concerns
    <2>3. CASE trip' = trip
      <3>1. \A u \in Posts : Concerns(post[u]) \subseteq loose
        BY <2>3 DEF NothingLeftOpen
      <3>2. \A u \in Posts : Concerns(post'[u]) \subseteq loose
        BY <2>2, <3>1, StepFrame
      <3>3. \A k \in Slips \ loose' : claim'[k] = claim[k]
        BY <1>1, <3>1, StepFrame
      <3> QED
        BY <1>1, <2>3, <3>2, <3>3 DEF NothingLeftOpen
    <2>4. ASSUME Posting(t, "save"), NEW submit \in BOOLEAN, NEW roads \in SUBSET Roads,
                 NEW bad \in SUBSET Parents, NEW cash \in Forms,
                 Save(t, submit, roads, bad, cash)
          PROVE  /\ \A u \in Posts : Concerns(post'[u]) \subseteq loose'
                 /\ \A k \in Slips : claim'[k] # Nothing => claim'[k].status = "DECIDED"
      <3>1. Concerns(post[t]) = Slips
        BY <2>4 DEF Posting, Concerns
      <3>2. ASSUME NEW u \in Posts, NEW k \in Concerns(post'[u]) PROVE k \in loose'
        <4>1. u # t /\ k \in Slips
          BY <2>2, <3>2, StepFrame, ConcernsKeys
        <4> QED
          BY <3>1, <3>2, <4>1 DEF Marked
      <3>3. GateOpen((Parents \cup roads) \ bad, cash) /\ claim' = claim
        BY <2>4 DEF Save
      <3>4. \A k \in Slips : claim[k] # Nothing => claim[k].status = "DECIDED"
        BY <3>3, ClaimShape DEF GateOpen, Cased
      <3> QED
        BY <3>2, <3>3, <3>4
    <2> QED
      BY <1>3, <2>3, <2>4, TripStep
  <1> QED
    BY <1>2, <1>3

LEMMA PendingStep ==
  ASSUME GateTypeOK, DecisionInHand, PendingUndecided, NEW t \in Posts, GateStep(t)
  PROVE  PendingUndecided'
  <1> DEFINE key == post[t].key
             Goal == \A k \in Slips : claim'[k] # Nothing =>
                        (claim'[k].status = "NEEDS_CLEARANCE" <=> claim'[k].kind = Nothing)
  <1>1. claim' = claim => Goal
    BY DEF PendingUndecided
  <1>2. ASSUME NEW cash \in UNION {0 .. Price[k] : k \in Slips}, Send(t, cash) PROVE Goal
    <2>1. key \in Slips /\ claim' = [claim EXCEPT ![key] = Opened(cash, key)]
      BY <1>2, SendTyped DEF Send
    <2>2. Opened(cash, key).status = "NEEDS_CLEARANCE" /\ Opened(cash, key).kind = Nothing
      BY DEF Opened
    <2>3. \A k \in Slips : claim'[k] = IF k = key THEN Opened(cash, key) ELSE claim[k]
      BY <2>1 DEF GateTypeOK
    <2> QED
      BY <2>2, <2>3 DEF PendingUndecided
  <1>3. ASSUME NEW kind \in Approvals \cup {"REJECT"}, NEW ar, NEW off,
               claim'[key] = Decided(claim[key], kind, ar, off),
               \A j \in Slips \ {key} : claim'[j] = claim[j]
        PROVE  Goal
    <2>1. claim'[key].status = "DECIDED" /\ claim'[key].kind = kind
      BY <1>3 DEF Decided
    <2>2. kind # Nothing
      BY NothingAssumption
    <2> QED
      BY <1>3, <2>1, <2>2 DEF PendingUndecided
  <1>4. ASSUME NEW off \in Rebates, Approve(t, off) PROVE Goal
    BY <1>4, <1>3, ApproveTyped
  <1>5. ASSUME Reject(t) PROVE Goal
    BY <1>5, <1>3, RejectTyped
  <1>6. CASE post[t] = Nothing
    BY <1>1, <1>6, Beginning DEF PendingUndecided
  <1>7. CASE post[t] # Nothing
    <2>1. \/ MarkVoid(t) \/ DropPost(t)
          \/ \E submit \in BOOLEAN, roads \in SUBSET Roads, bad \in SUBSET Parents :
                \E cash \in Forms : Save(t, submit, roads, bad, cash)
          => claim' = claim
      BY DEF MarkVoid, DropPost, Save
    <2>2. Goal
      BY <1>7, <1>1, <1>2, <1>4, <1>5, <2>1, Ending
    <2> QED
      BY <2>2 DEF PendingUndecided
  <1> QED
    BY <1>6, <1>7

\* What a save leaves of a slip: listed ones carry the form's cash, and a slip
\* that is not listed and has no case is gone, as long as the run has an order.
LEMMA SavedSlip ==
  ASSUME GateTypeOK, NEW t \in Posts, NEW submit \in BOOLEAN, NEW roads \in SUBSET Roads,
         NEW bad \in SUBSET Parents, NEW cash \in Forms, Save(t, submit, roads, bad, cash),
         NEW k \in Slips
  PROVE  /\ k \in Parents \cup roads =>
               /\ slip'[k] # Nothing
               /\ slip'[k].cash = cash[k]
               /\ slip'[k].void = Voided(k)
         /\ k \notin Parents \cup roads => slip'[k] = slip[k] \/ slip'[k] = Nothing
         /\ k \notin Parents \cup roads /\ k \notin Cased /\ Parents # {} => slip'[k] = Nothing
  <1> DEFINE listed == Parents \cup roads
  <1>1. slip'[k] = IF k \in listed THEN Written(k, cash[k])
                   ELSE IF Kept(k, listed) THEN slip[k] ELSE Nothing
    BY DEF Save
  <1>2. k \in listed => slip'[k] # Nothing
    <2>1. Voided(k) \in BOOLEAN /\ cash[k] \in Nat
      BY SlipShape, SaveTyped DEF Voided
    <2>2. Written(k, cash[k]) \in SlipRows
      BY <2>1 DEF Written, SlipRows
    <2> QED
      BY <1>1, <2>2, NothingAssumption
  <1>3. Written(k, cash[k]).cash = cash[k] /\ Written(k, cash[k]).void = Voided(k)
    BY DEF Written
  <1> QED
    BY <1>1, <1>2, <1>3 DEF Kept

\* A save of a page that knows the case of a key posts the slip as it was, or pays
\* a rejected one in full.
LEMMA KnownSlip ==
  ASSUME GateTypeOK, NEW t \in Posts, Marked(t), NEW submit \in BOOLEAN,
         NEW roads \in SUBSET Roads, NEW bad \in SUBSET Parents, NEW cash \in Forms,
         Save(t, submit, roads, bad, cash), NEW k \in Slips \ loose', claim[k] # Nothing
  PROVE  /\ k \in (Parents \cup roads) \ bad
         /\ slip[k] # Nothing
         /\ cash[k] = slip[k].cash \/ (Rejected(k) /\ cash[k] = Price[k])
  <1>1. Stale(t) = Cased \ post[t].seen
    BY EndShape DEF Save, Stale
  <1>2. k \in post[t].seen
    BY <1>1, Marking DEF Cased
  <1> QED
    BY <1>2 DEF Save, Locked

LEMMA SoundStep ==
  ASSUME GateTypeOK, DecisionInHand, PendingUndecided, CasesSound, VoidsSound,
         NEW t \in Posts, GateStep(t), Marked(t), NEW k \in Slips \ loose'
  PROVE  CaseSound(k)' /\ (Voided(k) => Rejected(k))'
  <1> DEFINE key == post[t].key
             Goal == CaseSound(k)' /\ (Voided(k) => Rejected(k))'
  <1>1. k \notin loose /\ CaseSound(k) /\ (Voided(k) => Rejected(k))
    BY Marking DEF CasesSound, VoidsSound
  <1>2. claim'[k] = claim[k] /\ slip'[k] = slip[k] => Goal
    BY <1>1 DEF CaseSound, Voided, Rejected, Balance
  <1>3. CASE k \notin Concerns(post[t])
    BY <1>2, <1>3, StepFrame
  <1>4. CASE k \in Concerns(post[t])
    <2>1. post[t] # Nothing
      BY <1>4 DEF Concerns
    <2>2. ASSUME NEW cash \in UNION {0 .. Price[j] : j \in Slips}, Send(t, cash) PROVE Goal
      <3>1. /\ key \in Slips
            /\ cash \in Nat
            /\ claim[key] = Nothing
            /\ Balance(key, cash) \in Nat
            /\ Balance(key, cash) > 0
            /\ slip' = [slip EXCEPT ![key] = Written(key, cash)]
            /\ slip' \in [Slips -> SlipRows \cup {Nothing}]
            /\ claim' = [claim EXCEPT ![key] = Opened(cash, key)]
        BY <2>2, SendTyped DEF Send
      <3>2. k = key
        BY <1>4, <2>2 DEF Send, Posting, Concerns
      <3>3. claim'[k] = Opened(cash, k) /\ slip'[k] = Written(k, cash)
        BY <3>1, <3>2 DEF GateTypeOK
      <3>4. ~ Voided(k)
        BY <1>1, <3>1, <3>2 DEF Rejected
      <3>5. slip'[k] # Nothing /\ slip'[k].cash = cash /\ slip'[k].void = FALSE
        <4>1. Voided(k) = FALSE /\ cash \in Nat
          BY <3>1, <3>4, SlipShape DEF Voided
        <4>2. Written(k, cash) \in SlipRows
          BY <4>1 DEF Written, SlipRows
        <4> QED
          BY <3>3, <4>1, <4>2, NothingAssumption DEF Written
      <3>6. /\ claim'[k].owed = Balance(k, cash)
            /\ claim'[k].kind = Nothing
            /\ claim'[k].granted = 0
            /\ claim'[k].off = 0
        BY <3>3 DEF Opened
      <3>7. CaseSound(k)'
        BY <3>1, <3>2, <3>5, <3>6, NothingAssumption DEF CaseSound, Balance
      <3> QED
        BY <3>5, <3>7 DEF Voided
    <2>3. ASSUME Posting(t, "decide")
          PROVE  /\ k = key
                 /\ slip[k] # Nothing
                 /\ ~ Voided(k)
                 /\ claim[k].owed > 0
                 /\ claim[k].owed = Balance(k, slip[k].cash)
                 /\ claim[k].granted = 0
                 /\ claim[k].off = 0
      <3>1. k = key
        BY <1>4, <2>3 DEF Posting, Concerns
      <3>2. claim[k] # Nothing /\ claim[k].kind = Nothing
        BY <1>1, <2>3, <3>1, HandShape DEF DecisionInHand, PendingUndecided, Posting
      <3>3. ~ Rejected(k)
        BY <3>2, NothingAssumption DEF Rejected
      <3>4. claim[k].granted + claim[k].off = 0
        BY <1>1, <3>2, NothingAssumption DEF CaseSound
      <3>5. claim[k].granted \in Nat /\ claim[k].off \in Nat
        BY <3>2, ClaimShape
      <3> QED
        BY <1>1, <3>1, <3>2, <3>3, <3>4, <3>5 DEF CaseSound
    <2>4. ASSUME NEW off \in Rebates, Approve(t, off) PROVE Goal
      <3>1. Posting(t, "decide") /\ slip' = slip
        BY <2>4 DEF Approve
      <3>2. /\ off \in Nat
            /\ claim'[k] = Decided(claim[k], KindOf(claim[k].owed, off), claim[k].owed - off, off)
            /\ KindOf(claim[k].owed, off) \in Approvals
            /\ claim[k] # Nothing
        BY <2>3, <2>4, <3>1, ApproveTyped
      <3>3. claim[k].owed \in Nat
        BY <3>2, ClaimShape
      <3>4. /\ claim'[k].owed = claim[k].owed
            /\ claim'[k].kind \in Approvals
            /\ claim'[k].granted + claim'[k].off = claim[k].owed
        BY <2>3, <3>1, <3>2, <3>3 DEF Decided
      <3>5. CaseSound(k)'
        BY <2>3, <3>1, <3>4 DEF CaseSound, Balance
      <3> QED
        BY <2>3, <3>1, <3>5 DEF Voided
    <2>5. ASSUME Reject(t) PROVE Goal
      <3>1. Posting(t, "decide") /\ slip' = slip
        BY <2>5 DEF Reject
      <3>2. claim'[k] = Decided(claim[k], "REJECT", 0, 0) /\ claim'[k] # Nothing
        BY <2>3, <2>5, <3>1, RejectTyped
      <3>3. /\ claim'[k].owed = claim[k].owed
            /\ claim'[k].kind = "REJECT"
            /\ claim'[k].granted + claim'[k].off = 0
        BY <2>3, <3>1, <3>2 DEF Decided
      <3>4. "REJECT" \notin Approvals
        BY DEF Approvals
      <3>5. CaseSound(k)'
        BY <2>3, <3>1, <3>3, <3>4 DEF CaseSound, Rejected
      <3> QED
        BY <3>2, <3>3, <3>5 DEF Rejected
    <2>6. ASSUME MarkVoid(t) PROVE Goal
      <3>1. k = key /\ claim' = claim
        BY <1>4, <2>6 DEF MarkVoid, Posting, Concerns
      <3>2. Rejected(k) /\ slip'[k] # Nothing
        BY <2>6, <3>1, VoidTyped
      <3> QED
        BY <1>1, <3>1, <3>2 DEF CaseSound, Rejected
    <2>7. ASSUME NEW submit \in BOOLEAN, NEW roads \in SUBSET Roads, NEW bad \in SUBSET Parents,
                 NEW cash \in Forms, Save(t, submit, roads, bad, cash)
          PROVE  Goal
      <3>1. claim' = claim
        BY <2>7 DEF Save
      <3>2. slip'[k] # Nothing /\ slip'[k].void => Rejected(k)
        BY <1>1, <2>7, SavedSlip DEF Voided
      <3>3. ASSUME claim[k] # Nothing
            PROVE  slip'[k] # Nothing /\ (~Rejected(k) => slip'[k].cash = slip[k].cash)
        BY <2>7, <3>3, KnownSlip, SavedSlip
      <3>4. CaseSound(k)'
        BY <1>1, <3>1, <3>3 DEF CaseSound, Rejected, Balance
      <3> QED
        BY <3>1, <3>2, <3>4 DEF Voided, Rejected
    <2>8. ASSUME DropPost(t) PROVE Goal
      BY <1>2, <2>8 DEF DropPost
    <2> QED
      BY <2>1, <2>2, <2>4, <2>5, <2>6, <2>7, <2>8, Ending
  <1> QED
    BY <1>3, <1>4

\* After the submit every receipt has its answer: the step that submits, and every
\* step after it.
LEMMA AnsweredStep ==
  ASSUME Parents # {}, GateInv, SubmittedAnswered, NEW t \in Posts, GateStep(t), Marked(t)
  PROVE  SubmittedAnswered'
  <1> GateTypeOK /\ DecisionInHand /\ CasesSound /\ VoidsSound /\ NothingLeftOpen
    BY DEF GateInv
  <1> DEFINE Answered(k) ==
               slip[k] # Nothing =>
                  IF k \in failed THEN slip[k].cash = 0 /\ k \notin Cased
                  ELSE \/ slip[k].cash = Price[k] /\ (k \in Cased => Rejected(k))
                       \/ slip[k].void /\ Rejected(k)
                       \/ /\ k \in Cased
                          /\ claim[k].granted + claim[k].off = Balance(k, slip[k].cash)
  <1> SUFFICES ASSUME trip' = "CHECKED_IN", NEW k \in Slips \ loose'
               PROVE  Answered(k)'
    BY DEF SubmittedAnswered
  <1>1. k \notin loose
    BY Marking
  <1>2. CASE trip = "CHECKED_IN" /\ failed' = failed
    <2>1. k \notin Concerns(post[t])
      BY <1>1, <1>2 DEF NothingLeftOpen
    <2>2. claim'[k] = claim[k] /\ slip'[k] = slip[k]
      BY <2>1, StepFrame
    <2>3. Answered(k)
      BY <1>1, <1>2 DEF SubmittedAnswered
    <2> QED
      BY <1>2, <2>2, <2>3 DEF Cased, Rejected, Balance
  <1>3. ASSUME NEW submit \in BOOLEAN, NEW roads \in SUBSET Roads, NEW bad \in SUBSET Parents,
               NEW cash \in Forms, Save(t, submit, roads, bad, cash)
        PROVE  Answered(k)'
    <2> DEFINE listed == Parents \cup roads
    <2>1. submit /\ failed' = bad /\ claim' = claim
      BY <1>3 DEF Save
    <2>0. /\ k \in listed =>
                slip'[k] # Nothing /\ slip'[k].cash = cash[k] /\ slip'[k].void = Voided(k)
          /\ k \notin listed /\ claim[k] = Nothing => slip'[k] = Nothing
          /\ claim[k] # Nothing =>
                /\ k \in listed \ bad
                /\ slip[k] # Nothing
                /\ cash[k] = slip[k].cash \/ (Rejected(k) /\ cash[k] = Price[k])
      BY <1>3, SavedSlip, KnownSlip DEF Cased
    <2>2. GateOpen(listed \ bad, cash)
      BY <1>3, <2>1 DEF Save
    <2>3. CASE k \in bad
      <3>1. k \in listed /\ claim[k] = Nothing /\ cash[k] = 0
        BY <1>3, <2>3 DEF Save, MayFail
      <3>2. slip'[k].cash = 0
        BY <2>0, <3>1
      <3> QED
        BY <2>1, <2>3, <3>1, <3>2 DEF Cased
    <2>4. CASE k \in listed \ bad
      <3>1. slip'[k].cash = cash[k] /\ slip'[k].void = Voided(k)
        BY <2>0, <2>4
      <3>2. SettledSlip(k, cash[k])
        BY <2>2, <2>4 DEF GateOpen
      <3>3. cash[k] \in Nat /\ Price[k] \in Nat
        BY <1>3, SaveTyped, PriceNat
      <3>4. CASE claim[k] = Nothing
        <4>1. cash[k] = Price[k]
          BY <3>2, <3>3, <3>4 DEF SettledSlip, Balance, Cased
        <4> QED
          BY <2>1, <2>4, <3>1, <3>4, <4>1 DEF Cased
      <3>5. CASE Rejected(k)
        <4>1. claim[k] # Nothing /\ claim[k].kind = "REJECT"
          BY <3>5 DEF Rejected
        <4>2. claim[k].kind \notin Approvals
          BY <4>1 DEF Approvals
        <4>3. Voided(k) \/ cash[k] = Price[k]
          BY <3>2, <3>3, <4>2 DEF SettledSlip, Balance
        <4> QED
          BY <2>1, <2>4, <3>1, <3>5, <4>3 DEF Rejected, Voided
      <3>6. CASE claim[k] # Nothing /\ ~Rejected(k)
        <4>1. slip[k] # Nothing /\ cash[k] = slip[k].cash
          BY <2>0, <3>6
        <4>2. claim[k].owed > 0 /\ claim[k].owed = Balance(k, cash[k])
          BY <1>1, <3>6, <4>1 DEF CasesSound, CaseSound
        <4>3. ~Voided(k)
          BY <1>1, <3>6 DEF VoidsSound
        <4>4. claim[k].kind \in Approvals
          BY <3>2, <4>2, <4>3 DEF SettledSlip
        <4>5. claim[k].granted + claim[k].off = Balance(k, cash[k])
          BY <1>1, <3>6, <4>2, <4>4 DEF CasesSound, CaseSound
        <4> QED
          BY <2>1, <2>4, <3>1, <3>6, <4>5 DEF Cased, Balance
      <3> QED
        BY <3>4, <3>5, <3>6
    <2>5. CASE k \notin listed
      <3>1. claim[k] = Nothing
        BY <2>0, <2>5
      <3>2. slip'[k] = Nothing
        BY <2>0, <2>5, <3>1
      <3> QED
        BY <3>2
    <2> QED
      BY <2>3, <2>4, <2>5
  <1> QED
    <2>1. CASE post[t] = Nothing
      BY <1>2, <2>1, Beginning
    <2>2. CASE post[t] # Nothing
      BY <1>2, <1>3, <2>2, TripStep
    <2> QED
      BY <2>1, <2>2

-----------------------------------------------------------------------------
(* Theorems *)

LEMMA GateInitInv == GateInit => GateInv /\ SubmittedAnswered
  <1> SUFFICES ASSUME GateInit PROVE GateInv /\ SubmittedAnswered
    OBVIOUS
  <1>1. GateTypeOK
    BY DEF GateInit, GateTypeOK
  <1> QED
    BY <1>1 DEF GateInit, GateInv, CasesSound, CaseSound, VoidsSound, Voided, PendingUndecided,
                HandsApart, Concerns, DecisionInHand, Posting, NothingLeftOpen, SubmittedAnswered

LEMMA GateStepInv == GateInv /\ [GateNext]_gateVars => GateInv'
  <1> SUFFICES ASSUME GateInv, [GateNext]_gateVars PROVE GateInv'
    OBVIOUS
  <1>1. ASSUME NEW t \in Posts, GateStep(t), Marked(t) PROVE GateInv'
    <2> USE DEF GateInv
    <2>1. GateTypeOK' /\ PendingUndecided' /\ HandsApart' /\ DecisionInHand' /\ NothingLeftOpen'
      BY <1>1, TypeStep, PendingStep, HandsStep, DecisionStep, OpenStep
    <2>2. \A k \in Slips \ loose' : CaseSound(k)' /\ (Voided(k) => Rejected(k))'
      BY <1>1, SoundStep
    <2>3. CasesSound' /\ VoidsSound'
      BY <2>2 DEF CasesSound, VoidsSound, CaseSound, Voided, Rejected
    <2> QED
      BY <2>1, <2>3
  <1>2. CASE UNCHANGED gateVars
    BY <1>2 DEF gateVars, GateInv, GateTypeOK, CasesSound, CaseSound, VoidsSound, Voided, Rejected,
                Balance, PendingUndecided, HandsApart, Concerns, DecisionInHand, Posting,
                NothingLeftOpen
  <1> QED
    BY <1>1, <1>2 DEF GateNext, Marked

\* The inductive invariant: cases and slips agree, requests in hand are apart from
\* each other, and nothing is left open after the submit, loose keys apart.
THEOREM GateInvariant == GateSpec => []GateInv
  BY GateInitInv, GateStepInv, PTL DEF GateSpec

\* Every variable of the check-in keeps its shape, for any receipts and requests.
THEOREM GateTypeCorrect == GateSpec => []GateTypeOK
  <1>1. GateInv => GateTypeOK
    BY DEF GateInv
  <1> QED
    BY <1>1, GateInvariant, PTL

\* However requests overlap and pages age, a case keeps the terms it was sent with
\* and is never reopened (the unique key of the case, and the status of its row).
THEOREM CaseFinal == GateSpec => CaseIsFinal
  <1> DEFINE Final == \A k \in Slips : claim[k] # Nothing =>
                         /\ claim'[k] # Nothing
                         /\ claim'[k].owed = claim[k].owed
                         /\ claim[k].status = "DECIDED" => claim'[k].status = "DECIDED"
  <1>1. GateInv /\ [GateNext]_gateVars => [Final]_gateVars
    BY CaseKept DEF GateInv, GateNext
  <1> QED
    BY <1>1, GateInvariant, PTL DEF GateSpec, CaseIsFinal

\* In a run with at least one order, after the submit every peso of a receipt no
\* overlap touched has exactly one answer: cash, credit and discount, or a void.
THEOREM SubmittedSafe ==
  ASSUME Parents # {}
  PROVE  GateSpec => []SubmittedAnswered
  <1>1. GateInit => SubmittedAnswered
    BY GateInitInv
  <1>2. GateInv /\ SubmittedAnswered /\ [GateNext]_gateVars => SubmittedAnswered'
    <2> SUFFICES ASSUME GateInv, SubmittedAnswered, [GateNext]_gateVars PROVE SubmittedAnswered'
      OBVIOUS
    <2>1. ASSUME NEW t \in Posts, GateStep(t), Marked(t) PROVE SubmittedAnswered'
      BY <2>1, AnsweredStep
    <2>2. CASE UNCHANGED gateVars
      BY <2>2 DEF gateVars, SubmittedAnswered, Cased, Rejected, Balance
    <2> QED
      BY <2>1, <2>2 DEF GateNext, Marked
  <1> QED
    BY <1>1, <1>2, GateInvariant, PTL DEF GateSpec

-----------------------------------------------------------------------------
(* Types *)

\* A cell of a table holds a row or None, not both.
LEMMA RowKinds ==
    ASSUME TypeOK
    PROVE  /\ \A r \in Runs : run[r] # None => run[r] \in RunRows
           /\ \A r \in Runs, o \in Orders : link[r][o] # None => link[r][o] \in LinkRows
           /\ \A t \in Requests : job[t] # None => job[t] \in Jobs
BY DEF TypeOK

\* A job that is written is not None, nor are rows.
LEMMA RowsKnown ==
    /\ \A x \in RunRows : x # None
    /\ \A x \in LinkRows : x # None
    /\ \A x \in Jobs : x # None
    /\ \A r \in Runs : r # None
BY NoneAssumption

\* What a request holds, by what it does.
LEMMA JobFields ==
    ASSUME NEW j \in Jobs
    PROVE  /\ j.op \in {"create", "release", "cancel", "save", "dispatch", "revert",
                        "checkin", "remit", "post", "open"}
           /\ j.orders \in SUBSET Orders
           /\ j.op \in {"create", "open"} => j.run = None
           /\ j.op = "open" => j.orders = {} /\ j.packs \in Nat
           /\ j.op \notin {"create", "open"} => j.run \in Runs
           /\ j.op \in {"save", "dispatch", "revert"} => j.extra \in Nat
           /\ j.op = "save" => j.orders = {}
           /\ j.op = "revert" => j.cellOf \in [Orders -> Cells]
<1>1. /\ j.op \in {"create", "release", "cancel", "save", "dispatch", "revert",
                   "checkin", "remit", "post", "open"}
      /\ j.orders \in SUBSET Orders
  BY DEF Jobs
<1>2. /\ j.op \in {"create", "open"} => j.run = None
      /\ j.op \notin {"create", "open"} => j.run \in Runs
  BY DEF Jobs
<1>3. j.op = "open" => j.orders = {} /\ j.packs \in Nat
  BY RunAssumption DEF Jobs
<1>4. /\ j.op \in {"save", "dispatch", "revert"} => j.extra \in Nat
      /\ j.op = "save" => j.orders = {}
      /\ j.op = "revert" => j.cellOf \in [Orders -> Cells]
  BY DEF Jobs
<1> QED
  BY <1>1, <1>2, <1>3, <1>4

\* What a check-in and a remit hold besides.
LEMMA CloseFields ==
    ASSUME NEW j \in Jobs
    PROVE  /\ j.op = "checkin" => /\ j.status \in Active /\ j.submit \in BOOLEAN
                                  /\ j.failed \in SUBSET Orders /\ j.road \in Nat
           /\ j.op \in {"remit", "post"} =>
                 /\ j.failed \in SUBSET Orders /\ j.unsold \in Nat
                 /\ j.lost \in BOOLEAN /\ j.road \in Nat
           /\ j.op = "post" => j.known \in BOOLEAN /\ j.moved \in BOOLEAN
BY DEF Jobs

\* The reads, one by one: each puts a job of its kind in the table.
LEMMA CreateJob ==
    ASSUME NEW S \in SUBSET Orders
    PROVE  [op |-> "create", run |-> None, orders |-> S] \in Jobs
BY DEF Jobs

\* Releasing an order from a run, or cancelling it,
LEMMA ReleaseJob ==
    ASSUME NEW r \in Runs, NEW S \in SUBSET Orders, NEW op \in {"release", "cancel"}
    PROVE  [op |-> op, run |-> r, orders |-> S] \in Jobs
BY DEF Jobs

\* saving the loadout,
LEMMA SaveJob ==
    ASSUME NEW r \in Runs, NEW x \in Nat
    PROVE  [op |-> "save", run |-> r, orders |-> {}, extra |-> x] \in Jobs
BY DEF Jobs

\* dispatching,
LEMMA DispatchJob ==
    ASSUME NEW r \in Runs, NEW S \in SUBSET Orders, NEW x \in Nat
    PROVE  [op |-> "dispatch", run |-> r, orders |-> S, extra |-> x] \in Jobs
BY DEF Jobs

\* reverting,
LEMMA RevertJob ==
    ASSUME NEW r \in Runs, NEW S \in SUBSET Orders, NEW x \in Nat,
           NEW c \in [Orders -> Cells]
    PROVE  [op |-> "revert", run |-> r, orders |-> S, extra |-> x, cellOf |-> c] \in Jobs
BY DEF Jobs

\* checking in,
LEMMA CheckinJob ==
    ASSUME NEW r \in Runs, NEW S \in SUBSET Orders, NEW status \in Active,
           NEW submit \in BOOLEAN, NEW F \in SUBSET Orders, NEW n \in Nat
    PROVE  [op |-> "checkin", run |-> r, orders |-> S, status |-> status,
            submit |-> submit, failed |-> F, road |-> n] \in Jobs
BY DEF Jobs

\* remitting,
LEMMA RemitJob ==
    ASSUME NEW r \in Runs, NEW S \in SUBSET Orders, NEW F \in SUBSET Orders,
           NEW u \in Nat, NEW lost \in BOOLEAN, NEW n \in Nat
    PROVE  [op |-> "remit", run |-> r, orders |-> S, failed |-> F, unsold |-> u,
            lost |-> lost, road |-> n] \in Jobs
BY DEF Jobs

\* and the remit that has read again inside its transaction.
LEMMA PostJob ==
    ASSUME NEW r \in Runs, NEW S \in SUBSET Orders, NEW F \in SUBSET Orders,
           NEW u \in Nat, NEW lost \in BOOLEAN, NEW n \in Nat,
           NEW known \in BOOLEAN, NEW moved \in BOOLEAN
    PROVE  [op |-> "post", run |-> r, orders |-> S, failed |-> F, unsold |-> u,
            lost |-> lost, road |-> n, known |-> known, moved |-> moved] \in Jobs
BY DEF Jobs

\* A request that opens packs holds their number.
LEMMA OpenJob ==
    ASSUME NEW n \in Opens
    PROVE  [op |-> "open", run |-> None, orders |-> {}, packs |-> n] \in Jobs
BY DEF Jobs

\* The table of jobs keeps its type when a request starts or finishes.
LEMMA StartType ==
    ASSUME TypeOK, NEW t \in Requests, NEW j \in Jobs, Start(t, j)
    PROVE  /\ job' \in [Requests -> Jobs \cup {None}]
           /\ job[t] = None /\ job'[t] = j
           /\ \A u \in Requests \ {t} : job'[u] = job[u]
BY DEF TypeOK, Start

\* Finishing empties its cell.
LEMMA FinishType ==
    ASSUME TypeOK, NEW t \in Requests, Finish(t)
    PROVE  /\ job' \in [Requests -> Jobs \cup {None}]
           /\ job'[t] = None
           /\ \A u \in Requests \ {t} : job'[u] = job[u]
BY DEF TypeOK, Finish

-----------------------------------------------------------------------------
(* Units *)

\* The units of any orders are a number.
LEMMA UnitsType ==
    ASSUME NEW S \in SUBSET Orders
    PROVE  Units(S) \in Nat /\ IsFiniteSet(S)
<1>1. IsFiniteSet(S)
  BY RunAssumption, FS_Subset
<1>2. \A o \in S : Qty[o] \in Nat
  BY RunAssumption
<1> QED
  BY <1>1, <1>2, SumNat DEF Units

\* The units of orders told apart by a cell are those of both parts.
LEMMA UnitsSplit ==
    ASSUME NEW S \in SUBSET Orders, NEW A \in SUBSET S
    PROVE  Units(S) = Units(A) + Units(S \ A)
<1>1. IsFiniteSet(S) /\ \A o \in S : Qty[o] \in Int
  BY UnitsType, RunAssumption
<1> QED
  BY <1>1, SumSplit DEF Units

\* What dispatch and revert move, cell by cell, is all of the load.
LEMMA DeltaSum ==
    ASSUME NEW S \in SUBSET Orders, NEW x \in Nat, NEW cellOf \in [Orders -> Cells]
    PROVE  /\ Delta(S, x, cellOf) \in [Cells -> Nat]
           /\ Delta(S, x, cellOf)["PACK"] + Delta(S, x, cellOf)["RETAIL"] = Units(S) + x
<1> PICK P \in SUBSET S, R \in SUBSET S :
       P = {o \in S : cellOf[o] = "PACK"} /\ R = {o \in S : cellOf[o] = "RETAIL"}
  OBVIOUS
<1>1. R = S \ P
  BY DEF Cells
<1>2. Units(S) = Units(P) + Units(R) /\ Units(P) \in Nat /\ Units(R) \in Nat
  BY <1>1, UnitsSplit, UnitsType
<1>3. Delta(S, x, cellOf)["PACK"] = Units(P) + x
  BY DEF Delta, Cells
<1>4. Delta(S, x, cellOf)["RETAIL"] = Units(R) + 0
  BY DEF Delta, Cells
<1>5. \A c \in Cells : Delta(S, x, cellOf)[c] \in Nat
  BY <1>2, <1>3, <1>4 DEF Cells
<1>6. Delta(S, x, cellOf) \in [Cells -> Nat]
  <2>1. Delta(S, x, cellOf) = [c \in Cells |-> Delta(S, x, cellOf)[c]]
    BY DEF Delta
  <2> QED
    BY <1>5, <2>1
<1> QED
  BY <1>2, <1>3, <1>4, <1>6

\* Of a run with a row what is loaded and what is sold are numbers.
LEMMA RecapType ==
    ASSUME TypeOK, NEW r \in Runs, run[r] # None
    PROVE  /\ Loaded(r) \in Nat /\ Sold(r) \in Nat
           /\ Linked(r) \in SUBSET Orders /\ Failed(r) \in SUBSET Linked(r)
<1>1. Linked(r) \in SUBSET Orders /\ Failed(r) \in SUBSET Linked(r)
  BY DEF Linked, Failed
<1>2. run[r].extra \in Nat /\ road[r] \in Nat
  BY RowKinds DEF TypeOK, RunRows
<1>3. Units(Linked(r)) \in Nat /\ Units(Linked(r) \ Failed(r)) \in Nat
  BY <1>1, UnitsType
<1> QED
  BY <1>1, <1>2, <1>3 DEF Loaded, Sold

-----------------------------------------------------------------------------
(* Types, step by step *)

\* Counts per cell add up, and change sign, cell by cell.
LEMMA CellCounts ==
    ASSUME NEW a \in [Cells -> Int], NEW d \in [Cells -> Int]
    PROVE  /\ [c \in Cells |-> a[c] + d[c]] \in [Cells -> Int]
           /\ [c \in Cells |-> 0 - d[c]] \in [Cells -> Int]
<1>1. \A c \in Cells : a[c] \in Int /\ d[c] \in Int
  OBVIOUS
<1>2. \A c \in Cells : a[c] + d[c] \in Int /\ 0 - d[c] \in Int
  BY <1>1
<1> QED
  BY <1>2

\* What loading and unloading do to the cells.
LEMMA LoadType ==
    ASSUME TypeOK, NEW r \in Runs, NEW d \in [Cells -> Int], Load(r, d)
    PROVE  /\ stock' \in [Cells -> Int] /\ away' \in [Runs -> [Cells -> Int]]
           /\ \A c \in Cells : stock'[c] = stock[c] - d[c]
           /\ \A c \in Cells : away'[r][c] = away[r][c] + d[c]
           /\ \A q \in Runs \ {r} : away'[q] = away[q]
<1> PICK a \in [Cells -> Int] : a = away[r]
  BY DEF TypeOK
<1> PICK b \in [Cells -> Int] : b = [c \in Cells |-> a[c] + d[c]]
  BY CellCounts
<1>1. away' = [away EXCEPT ![r] = [c \in Cells |-> away[r][c] + d[c]]]
  BY DEF Load
<1>2. away' = [away EXCEPT ![r] = b]
  BY <1>1
<1>3. stock' = [c \in Cells |-> stock[c] - d[c]]
  BY DEF Load
<1>4. away \in [Runs -> [Cells -> Int]] /\ stock \in [Cells -> Int]
  BY DEF TypeOK
<1>5. stock' \in [Cells -> Int] /\ away' \in [Runs -> [Cells -> Int]]
  BY <1>2, <1>3, <1>4
<1>6. \A c \in Cells : stock'[c] = stock[c] - d[c]
  BY <1>3
<1>7. away'[r] = b /\ \A q \in Runs \ {r} : away'[q] = away[q]
  BY <1>2, <1>4
<1> QED
  BY <1>5, <1>6, <1>7

\* Unloading is loading the opposite.
LEMMA UnloadType ==
    ASSUME TypeOK, NEW r \in Runs, NEW d \in [Cells -> Int], Unload(r, d)
    PROVE  /\ stock' \in [Cells -> Int] /\ away' \in [Runs -> [Cells -> Int]]
           /\ \A c \in Cells : stock'[c] = stock[c] + d[c]
           /\ \A c \in Cells : away'[r][c] = away[r][c] - d[c]
           /\ \A q \in Runs \ {r} : away'[q] = away[q]
<1> PICK e \in [Cells -> Int] : e = [c \in Cells |-> 0 - d[c]]
  BY CellCounts
<1>1. Load(r, e)
  BY DEF Unload
<1>2. /\ stock' \in [Cells -> Int] /\ away' \in [Runs -> [Cells -> Int]]
      /\ \A c \in Cells : stock'[c] = stock[c] - e[c]
      /\ \A c \in Cells : away'[r][c] = away[r][c] + e[c]
      /\ \A q \in Runs \ {r} : away'[q] = away[q]
  BY <1>1, LoadType
<1>3. \A c \in Cells : stock[c] - e[c] = stock[c] + d[c]
  BY DEF TypeOK
<1>4. \A c \in Cells : away[r][c] + e[c] = away[r][c] - d[c]
  <2> PICK a \in [Cells -> Int] : a = away[r]
    BY DEF TypeOK
  <2>1. \A c \in Cells : a[c] + e[c] = a[c] - d[c]
    OBVIOUS
  <2> QED
    BY <2>1
<1> QED
  BY <1>2, <1>3, <1>4

\* The mark of dispatched orders.
LEMMA MarkType ==
    ASSUME TypeOK, NEW S \in SUBSET Orders, NEW b \in BOOLEAN, Mark(S, b)
    PROVE  /\ order' \in [Orders -> OrderRows]
           /\ \A o \in Orders \ S : order'[o] = order[o]
           /\ \A o \in S : order'[o].dispatched = b /\ order'[o].cancelled = order[o].cancelled
<1>1. ASSUME NEW o \in Orders
      PROVE  /\ [order[o] EXCEPT !.dispatched = b] \in OrderRows
             /\ [order[o] EXCEPT !.dispatched = b].dispatched = b
             /\ [order[o] EXCEPT !.dispatched = b].cancelled = order[o].cancelled
  <2> PICK q \in OrderRows : q = order[o]
    BY DEF TypeOK
  <2>1. /\ [q EXCEPT !.dispatched = b] \in OrderRows
        /\ [q EXCEPT !.dispatched = b].dispatched = b
        /\ [q EXCEPT !.dispatched = b].cancelled = q.cancelled
    BY DEF OrderRows
  <2> QED
    BY <2>1
<1>2. order' = [o \in Orders |->
                  IF o \in S THEN [order[o] EXCEPT !.dispatched = b] ELSE order[o]]
  BY DEF Mark
<1>3. \A o \in Orders : order[o] \in OrderRows
  BY DEF TypeOK
<1> QED
  BY <1>1, <1>2, <1>3

-----------------------------------------------------------------------------
(* What holds of an order, and of a run, whose requests never overlap, and  *)
(* of what a request has read of it.                                        *)

Holds(t, o) == job[t] # None /\ o \in job[t].orders

On(t, r) == job[t] # None /\ job[t].run = r

\* At most one request handles what no two ever handled.
Single ==
    \A x \in Runs \cup Orders : Alone(x) =>
        \A t \in Handling(x), u \in Handling(x) : t = u

\* A run that is not created yet has nothing.
Blank(r) ==
    run[r] = None =>
        /\ Linked(r) = {} /\ road[r] = 0 /\ missing[r] = 0 /\ r \notin returned
        /\ \A c \in Cells : away[r][c] = 0

Carrying == {"DISPATCHED", "CHECKED_IN"}

\* Of a run that exists; of its orders a request that moves the run has read all
\* that are still linked, as none is linked later.
JobShape(j) ==
    /\ j.op \notin {"create", "open"} => run[j.run] # None
    /\ j.op \in {"dispatch", "revert", "checkin", "remit", "post"} =>
          Linked(j.run) \subseteq j.orders
    /\ j.op \in {"checkin", "remit", "post"} => j.failed \subseteq j.orders
    /\ j.op = "checkin" => j.status \in Carrying /\ (j.submit => j.status = "CHECKED_IN")

\* An order is on one active run at most, with its goods or without.
OrderFit(o) ==
    /\ \A r \in ActiveRuns(o), q \in ActiveRuns(o) : r = q
    /\ order[o].cancelled => ActiveRuns(o) = {}
    /\ order[o].dispatched <=> Carriers(o) # {}
    /\ \A r \in Carriers(o), q \in Carriers(o) : r = q
    /\ \A r \in ActiveRuns(o) : HasStatus(r, {"PLANNED"}) => Carriers(o) = {}
    /\ \A r \in Pending(o), q \in Pending(o) : r = q
    /\ \A r \in ActiveRuns(o) : Pending(o) \subseteq {r}
    /\ \A r \in Pending(o) : HasStatus(r, {"CLOSED"}) => Queued(o)

\* What a request has read of an order.
OrderJob(j, o) ==
    /\ j.op \in {"create", "cancel"} => Queued(o)
    /\ j.op = "cancel" => j.run \in Pending(o)
    /\ j.op \notin {"create", "cancel", "open"} => o \in Linked(j.run)
    /\ j.op \in {"release", "dispatch"} => HasStatus(j.run, {"PLANNED"})
    /\ j.op = "revert" => HasStatus(j.run, {"DISPATCHED"})
    /\ j.op = "checkin" => HasStatus(j.run, Carrying)
    /\ j.op \in {"remit", "post"} =>
          HasStatus(j.run, {"CHECKED_IN"}) /\ (o \in j.failed <=> o \in Failed(j.run))

\* The goods of a run are accounted for, and its marks agree with its status.
RunFit(r) ==
    run[r] # None =>
        /\ run[r].status = "PLANNED" => Out(r) = 0
        /\ run[r].status \in Carrying => Out(r) = Loaded(r)
        /\ run[r].status = "CLOSED" => Out(r) = Sold(r) + missing[r]
        /\ run[r].status \in Active => missing[r] = 0 /\ r \notin returned
        /\ run[r].checkedIn => run[r].status \in {"CHECKED_IN", "CLOSED"}

\* What a request has read of its run.
RunJob(j) ==
    /\ j.op \in {"release", "save", "dispatch"} => HasStatus(j.run, {"PLANNED"})
    /\ j.op = "cancel" => j.orders \subseteq Failed(j.run)
    /\ j.op \in {"dispatch", "revert", "checkin", "remit", "post"} =>
          j.orders = Linked(j.run)
    /\ j.op = "revert" => HasStatus(j.run, {"DISPATCHED"}) /\ j.extra = run[j.run].extra
    /\ j.op = "checkin" => Editable(j.run) /\ (~j.submit => j.status = run[j.run].status)
    /\ j.op \in {"remit", "post"} =>
          /\ HasStatus(j.run, {"CHECKED_IN"})
          /\ j.failed = Failed(j.run) /\ j.unsold = Loaded(j.run) - Sold(j.run)
    /\ j.op = "post" => (j.moved <=> j.run \in returned)

\* What a request has read still holds of what it alone handles.
Sound(j) ==
    /\ JobShape(j)
    /\ \A o \in j.orders : Alone(o) => OrderJob(j, o)
    /\ j.op \notin {"create", "open"} /\ Alone(j.run) => RunJob(j)

RunInv ==
    /\ TypeOK
    /\ Single
    /\ \A r \in Runs : Blank(r)
    /\ \A r \in Runs : Alone(r) => RunFit(r)
    /\ \A o \in Orders : Alone(o) => OrderFit(o)
    /\ \A t \in Requests, j \in Jobs : job[t] = j => Sound(j)

-----------------------------------------------------------------------------
(* What a step leaves alone *)

SameOrder(o) ==
    /\ order'[o] = order[o]
    /\ \A r \in Runs :
          /\ link'[r][o] = link[r][o]
          /\ link[r][o] # None =>
                run[r] # None /\ run'[r] # None /\ run'[r].status = run[r].status

SameRun(r) ==
    /\ run'[r] = run[r] /\ Linked(r)' = Linked(r) /\ Failed(r)' = Failed(r)
    /\ road'[r] = road[r] /\ missing'[r] = missing[r]
    /\ (r \in returned' <=> r \in returned) /\ away'[r] = away[r]

\* What was submitted of a run, or closed, stays.
Frozen(r) ==
    run[r] # None /\ run[r].checkedIn =>
        /\ run'[r].checkedIn
        /\ run[r].status = "CLOSED" => run'[r].status = "CLOSED"
        /\ run'[r].extra = run[r].extra
        /\ road'[r] = road[r]
        /\ Failed(r)' = Failed(r)

\* What every step does: the invariant again, nothing submitted edited, and no
\* order put on a run that exists already.
StepKept ==
    /\ RunInv'
    /\ \A r \in Runs : Alone(r)' => Frozen(r)
    /\ \A r \in Runs : run[r] # None => Linked(r)' \subseteq Linked(r)

\* Of an order that is left alone everything reads the same.
LEMMA SameOrderReads ==
    ASSUME NEW o \in Orders, SameOrder(o)
    PROVE  /\ ActiveRuns(o)' = ActiveRuns(o) /\ Carriers(o)' = Carriers(o)
           /\ Pending(o)' = Pending(o) /\ (Queued(o)' <=> Queued(o))
           /\ \A r \in Runs : o \in Linked(r)' <=> o \in Linked(r)
           /\ \A r \in Runs : o \in Failed(r)' <=> o \in Failed(r)
           /\ \A r \in Runs : \A S : o \in Linked(r) =>
                 (HasStatus(r, S)' <=> HasStatus(r, S))
<1>1. \A r \in Runs : o \in Linked(r)' <=> o \in Linked(r)
  BY DEF SameOrder, Linked
<1>2. \A r \in Runs : o \in Failed(r)' <=> o \in Failed(r)
  BY DEF SameOrder, Linked, Failed
<1>3. \A r \in Runs : \A S : o \in Linked(r) => (HasStatus(r, S)' <=> HasStatus(r, S))
  BY DEF SameOrder, Linked, HasStatus
<1>4. ActiveRuns(o)' = ActiveRuns(o)
  BY <1>1, <1>3 DEF ActiveRuns
<1>5. Carriers(o)' = Carriers(o)
  BY <1>1, <1>2, <1>3 DEF Carriers
<1>6. Pending(o)' = Pending(o)
  BY <1>1, <1>2 DEF Pending, SameOrder
<1>7. Queued(o)' <=> Queued(o)
  BY <1>4 DEF Queued, SameOrder
<1> QED
  BY <1>1, <1>2, <1>3, <1>4, <1>5, <1>6, <1>7

\* And it fits as it did.
LEMMA SameOrderFits ==
    ASSUME NEW o \in Orders, SameOrder(o)
    PROVE  /\ OrderFit(o) => OrderFit(o)'
           /\ \A j \in Jobs : OrderJob(j, o) => OrderJob(j, o)'
<1>1. /\ ActiveRuns(o)' = ActiveRuns(o) /\ Carriers(o)' = Carriers(o)
      /\ Pending(o)' = Pending(o) /\ (Queued(o)' <=> Queued(o))
  BY SameOrderReads
<1>2. \A r \in Runs : (o \in Linked(r)' <=> o \in Linked(r))
                       /\ (o \in Failed(r)' <=> o \in Failed(r))
  BY SameOrderReads
<1>3. \A r \in Runs : \A S : o \in Linked(r) => (HasStatus(r, S)' <=> HasStatus(r, S))
  BY SameOrderReads
<1>4. /\ \A r \in ActiveRuns(o) : r \in Runs /\ o \in Linked(r)
      /\ \A r \in Pending(o) : r \in Runs /\ o \in Linked(r)
  BY DEF ActiveRuns, Pending, Failed
<1>5. order'[o] = order[o]
  BY DEF SameOrder
<1>6. ASSUME OrderFit(o) PROVE OrderFit(o)'
  <2>1. \A r \in ActiveRuns(o) : HasStatus(r, {"PLANNED"})' => HasStatus(r, {"PLANNED"})
    BY <1>3, <1>4
  <2>2. \A r \in Pending(o) : HasStatus(r, {"CLOSED"})' => HasStatus(r, {"CLOSED"})
    BY <1>3, <1>4
  <2> QED
    BY <1>1, <1>5, <1>6, <2>1, <2>2 DEF OrderFit
<1>7. ASSUME NEW j \in Jobs, OrderJob(j, o) PROVE OrderJob(j, o)'
  <2>1. CASE j.op \in {"create", "cancel", "open"}
    BY <1>1, <1>7, <2>1 DEF OrderJob
  <2>2. CASE j.op \notin {"create", "cancel", "open"}
    <3>1. j.run \in Runs /\ o \in Linked(j.run)
      BY <1>7, <2>2, JobFields DEF OrderJob
    <3>2. \A S : HasStatus(j.run, S) => HasStatus(j.run, S)'
      BY <1>3, <3>1
    <3>3. /\ j.op \in {"release", "dispatch"} => HasStatus(j.run, {"PLANNED"})'
          /\ j.op = "revert" => HasStatus(j.run, {"DISPATCHED"})'
          /\ j.op = "checkin" => HasStatus(j.run, Carrying)'
          /\ j.op \in {"remit", "post"} => HasStatus(j.run, {"CHECKED_IN"})'
      BY <1>7, <3>2 DEF OrderJob, Carrying
    <3>4. o \in Linked(j.run)' /\ (o \in Failed(j.run)' <=> o \in Failed(j.run))
      BY <1>2, <3>1
    <3> QED
      BY <1>7, <2>2, <3>3, <3>4 DEF OrderJob, Carrying
  <2> QED
    BY <2>1, <2>2
<1> QED
  BY <1>6, <1>7

\* A run that is left alone fits as it did.
LEMMA SameRunFits ==
    ASSUME NEW r \in Runs, SameRun(r)
    PROVE  /\ RunFit(r) => RunFit(r)'
           /\ \A j \in Jobs : j.run = r /\ RunJob(j) => RunJob(j)'
<1>1. /\ run'[r] = run[r] /\ road'[r] = road[r] /\ missing'[r] = missing[r]
      /\ (r \in returned' <=> r \in returned)
  BY DEF SameRun
<1>2. Linked(r)' = Linked(r) /\ Failed(r)' = Failed(r)
  BY DEF SameRun
<1>3. Out(r)' = Out(r)
  BY DEF SameRun, Out
<1>4. Loaded(r)' = Loaded(r) /\ Sold(r)' = Sold(r)
  BY <1>1, <1>2 DEF Loaded, Sold
<1>5. \A S : HasStatus(r, S)' <=> HasStatus(r, S)
  BY <1>1 DEF HasStatus
<1>6. Editable(r)' <=> Editable(r)
  BY <1>1, <1>5 DEF Editable
<1>7. RunFit(r) => RunFit(r)'
  BY <1>1, <1>3, <1>4 DEF RunFit
<1>8. ASSUME NEW j \in Jobs, j.run = r, RunJob(j) PROVE RunJob(j)'
  BY <1>1, <1>2, <1>4, <1>5, <1>6, <1>8 DEF RunJob
<1> QED
  BY <1>7, <1>8

\* A set of requests that does not count more than one has one at most.
LEMMA FewAreOne ==
    ASSUME NEW H \in SUBSET Requests, ~(Cardinality(H) > 1), NEW t \in H, NEW u \in H
    PROVE  t = u
<1> SUFFICES ASSUME t # u PROVE FALSE
  OBVIOUS
<1>1. IsFiniteSet(H) /\ Cardinality(H) \in Nat
  BY RunAssumption, FS_Subset, FS_CardinalityType
<1>2. IsFiniteSet({t, u}) /\ Cardinality({t, u}) = 2
  <2>1. IsFiniteSet({t}) /\ Cardinality({t}) = 1
    BY FS_Singleton
  <2> PICK T : T = {t}
    OBVIOUS
  <2>2. IsFiniteSet(T) /\ Cardinality(T) = 1 /\ u \notin T /\ {t, u} = T \cup {u}
    BY <2>1
  <2>3. IsFiniteSet(T \cup {u}) /\ Cardinality(T \cup {u}) = 1 + 1
    BY <2>2, FS_AddElement
  <2> QED
    BY <2>2, <2>3
<1>3. Cardinality({t, u}) <= Cardinality(H)
  BY <1>1, FS_Subset
<1> QED
  BY <1>1, <1>2, <1>3

\* Once two requests were at it at the same time, it is noted.
LEMMA NoteSingle ==
    ASSUME TypeOK, Note
    PROVE  Single' /\ contended \subseteq contended'
<1>1. contended \subseteq contended'
  BY DEF Note
<1>2. ASSUME NEW x \in Runs \cup Orders, Alone(x)',
             NEW t \in Handling(x)', NEW u \in Handling(x)'
      PROVE  t = u
  <2> PICK H : H = Handling(x)'
    OBVIOUS
  <2>1. H \in SUBSET Requests /\ t \in H /\ u \in H
    BY <1>2 DEF Handling
  <2>2. ~(Cardinality(H) > 1)
    BY <1>2 DEF Note, Alone
  <2> QED
    BY <2>1, <2>2, FewAreOne
<1> QED
  BY <1>1, <1>2 DEF Single

\* Two requests never hold an order nobody else ever shared, nor a run.
LEMMA OneHolds ==
    ASSUME Single, NEW t \in Requests, NEW u \in Requests
    PROVE  /\ \A o \in Orders : Alone(o) /\ Holds(t, o) /\ Holds(u, o) => t = u
           /\ \A r \in Runs : Alone(r) /\ On(t, r) /\ On(u, r) => t = u
BY DEF Single, Holds, On, Handling

\* What the request holds after the step is sound, of what was not contended before.
HeldSound(t) ==
    \A j \in Jobs : job'[t] = j =>
        /\ JobShape(j)'
        /\ \A o \in j.orders : Alone(o) => OrderJob(j, o)'
        /\ j.op \notin {"create", "open"} /\ Alone(j.run) => RunJob(j)'

\* A step of one request keeps the invariant when it leaves alone what the request
\* does not hold, and fits what it holds.
LEMMA StepKeeps ==
    ASSUME RunInv, TypeOK', Note, NEW t,
           \A u \in Requests : u # t => job'[u] = job[u],
           \A o \in Orders :
              SameOrder(o) \/ (t \in Requests /\ Holds(t, o) /\ (Alone(o) => OrderFit(o)')),
           \A r \in Runs :
              SameRun(r)
              \/ ((run[r] = None \/ (t \in Requests /\ On(t, r))) /\ (Alone(r) => RunFit(r)' /\ Frozen(r))),
           \A r \in Runs :
              Blank(r)' /\ (run[r] # None => run'[r] # None /\ Linked(r)' \subseteq Linked(r)),
           t \in Requests => HeldSound(t)
    PROVE  StepKept
<1>1. Single' /\ contended \subseteq contended' /\ TypeOK
  BY NoteSingle DEF RunInv
<1>2. \A x : Alone(x)' => Alone(x)
  BY <1>1 DEF Alone
<1>3. ASSUME NEW o \in Orders, Alone(o)' PROVE OrderFit(o)'
  BY <1>2, <1>3, SameOrderFits DEF RunInv
<1>4. ASSUME NEW r \in Runs, Alone(r)' PROVE RunFit(r)'
  BY <1>2, <1>4, SameRunFits DEF RunInv
<1>5. ASSUME NEW u \in Requests, NEW j \in Jobs, job'[u] = j, u # t
      PROVE  Sound(j)'
  <2>1. job[u] = j /\ Sound(j) /\ job[u] # None
    BY <1>5, RowsKnown DEF RunInv
  <2>2. /\ j.orders \in SUBSET Orders
        /\ j.op \notin {"create", "open"} => j.run \in Runs
        /\ j.op \in {"dispatch", "revert", "checkin", "remit", "post"} => j.op \notin {"create", "open"}
    BY JobFields
  <2>3. JobShape(j)
    BY <2>1 DEF Sound
  <2>4. JobShape(j)'
    BY <2>2, <2>3 DEF JobShape, Carrying
  <2>5. ASSUME NEW o \in j.orders, Alone(o)' PROVE OrderJob(j, o)'
    <3>1. o \in Orders /\ Alone(o) /\ OrderJob(j, o)
      BY <1>2, <2>1, <2>2, <2>5 DEF Sound
    <3>2. SameOrder(o)
      <4>1. ASSUME t \in Requests, Holds(t, o) PROVE FALSE
        <5>1. Holds(u, o)
          BY <2>1, <2>5 DEF Holds
        <5> QED
          BY <1>5, <3>1, <4>1, <5>1, OneHolds DEF RunInv
      <4> QED
        BY <3>1, <4>1
    <3> QED
      BY <3>1, <3>2, SameOrderFits
  <2>6. ASSUME j.op \notin {"create", "open"}, Alone(j.run)' PROVE RunJob(j)'
    <3> PICK r \in Runs : r = j.run
      BY <2>2, <2>6
    <3>1. Alone(r) /\ RunJob(j) /\ run[r] # None
      BY <1>2, <2>1, <2>3, <2>6 DEF Sound, JobShape
    <3>2. SameRun(r)
      <4>1. ASSUME t \in Requests, On(t, r) PROVE FALSE
        <5>1. On(u, r)
          BY <2>1 DEF On
        <5> QED
          BY <1>5, <3>1, <4>1, <5>1, OneHolds DEF RunInv
      <4> QED
        BY <3>1, <4>1
    <3> QED
      BY <3>1, <3>2, SameRunFits
  <2> QED
    BY <2>4, <2>5, <2>6 DEF Sound
<1>6. ASSUME NEW u \in Requests, NEW j \in Jobs, job'[u] = j
      PROVE  Sound(j)'
  <2>1. CASE u = t
    BY <1>2, <1>6, <2>1 DEF Sound, HeldSound
  <2>2. CASE u # t
    BY <1>5, <1>6, <2>2
  <2> QED
    BY <2>1, <2>2
<1>7. RunInv'
  BY <1>1, <1>3, <1>4, <1>6 DEF RunInv
<1>8. ASSUME NEW r \in Runs, Alone(r)' PROVE Frozen(r)
  BY <1>2, <1>8 DEF SameRun, Frozen
<1>9. \A r \in Runs : run[r] # None => Linked(r)' \subseteq Linked(r)
  OBVIOUS
<1> QED
  BY <1>7, <1>8, <1>9 DEF StepKept

-----------------------------------------------------------------------------
(* The steps that only read *)

\* What is noted is a run, an order or the stock.
LEMMA NoteType ==
    ASSUME TypeOK, Note
    PROVE  contended' \subseteq Runs \cup Orders \cup {"stock"}
BY DEF TypeOK, Note

\* An order that is linked to a run is linked to one that exists.
LEMMA LinkedExists ==
    ASSUME RunInv, NEW r \in Runs, NEW o \in Orders, link[r][o] # None
    PROVE  run[r] # None
<1>1. Blank(r)
  BY DEF RunInv
<1> QED
  BY <1>1 DEF Blank, Linked

\* Where nothing but the jobs changes, every order and run is left alone.
LEMMA UnchangedSame ==
    ASSUME RunInv, UNCHANGED <<run, link, order, road, missing, returned, away>>
    PROVE  /\ \A o \in Orders : SameOrder(o)
           /\ \A r \in Runs : SameRun(r) /\ Blank(r)' /\ Linked(r)' = Linked(r)
                              /\ (run[r] # None => run'[r] # None)
<1>1. ASSUME NEW o \in Orders PROVE SameOrder(o)
  BY LinkedExists DEF SameOrder
<1>2. ASSUME NEW r \in Runs
      PROVE  SameRun(r) /\ Blank(r)' /\ Linked(r)' = Linked(r)
             /\ (run[r] # None => run'[r] # None)
  <2>1. Linked(r)' = Linked(r)
    BY DEF Linked
  <2>2. Failed(r)' = Failed(r)
    BY <2>1 DEF Failed
  <2>3. SameRun(r)
    BY <2>1, <2>2 DEF SameRun
  <2>4. Blank(r)
    BY DEF RunInv
  <2>5. Blank(r)'
    BY <2>1, <2>4 DEF Blank
  <2> QED
    BY <2>1, <2>3, <2>5
<1> QED
  BY <1>1, <1>2

\* A read keeps the invariant when what it read is so.
LEMMA ReadKeeps ==
    ASSUME RunInv, Note, NEW t \in Requests, NEW k \in Jobs, Start(t, k),
           UNCHANGED <<run, link, order, road, posted, returned, missing, stock, away>>,
           Sound(k)
    PROVE  StepKept
<1>1. TypeOK
  BY DEF RunInv
<1>2. /\ job' \in [Requests -> Jobs \cup {None}] /\ job'[t] = k
      /\ \A u \in Requests : u # t => job'[u] = job[u]
  BY <1>1, StartType
<1>3. TypeOK'
  BY <1>1, <1>2, NoteType DEF TypeOK
<1>4. /\ \A o \in Orders : SameOrder(o)
      /\ \A r \in Runs : SameRun(r) /\ Blank(r)' /\ Linked(r)' = Linked(r)
                         /\ (run[r] # None => run'[r] # None)
  BY UnchangedSame
<1>5. JobShape(k)'
  BY DEF Sound, JobShape, Linked
<1>6. ASSUME NEW o \in k.orders, Alone(o) PROVE OrderJob(k, o)'
  <2>1. o \in Orders /\ OrderJob(k, o)
    BY <1>6, JobFields DEF Sound
  <2> QED
    BY <1>4, <2>1, SameOrderFits
<1>7. ASSUME k.op \notin {"create", "open"}, Alone(k.run) PROVE RunJob(k)'
  <2> PICK r \in Runs : r = k.run
    BY <1>7, JobFields
  <2>1. RunJob(k)
    BY <1>7 DEF Sound
  <2> QED
    BY <1>4, <2>1, SameRunFits
<1>8. \A j \in Jobs : job'[t] = j => j = k
  BY <1>2
<1>9. HeldSound(t)
  <2> SUFFICES ASSUME NEW j \in Jobs, job'[t] = j
               PROVE  /\ JobShape(j)'
                      /\ \A o \in j.orders : Alone(o) => OrderJob(j, o)'
                      /\ j.op \notin {"create", "open"} /\ Alone(j.run) => RunJob(j)'
    BY DEF HeldSound
  <2>1. j = k
    BY <1>8
  <2> QED
    BY <1>5, <1>6, <1>7, <2>1, Zenon
<1>10. \A r \in Runs : Blank(r)'
          /\ (run[r] # None => run'[r] # None /\ Linked(r)' \subseteq Linked(r))
  BY <1>4
<1>11. /\ \A o \in Orders : SameOrder(o) \/ (t \in Requests /\ Holds(t, o) /\ (Alone(o) => OrderFit(o)'))
       /\ \A r \in Runs : SameRun(r)
             \/ ((run[r] = None \/ (t \in Requests /\ On(t, r))) /\ (Alone(r) => RunFit(r)' /\ Frozen(r)))
  BY <1>4
<1>12. \A u \in Requests : u # t => job'[u] = job[u]
  BY <1>2
<1> QED
  BY <1>3, <1>9, <1>10, <1>11, <1>12, StepKeeps

\* A commit keeps the invariant when it fits what the request held.
LEMMA CommitKeeps ==
    ASSUME RunInv, TypeOK', Note, NEW t \in Requests, Finish(t),
           \A o \in Orders : SameOrder(o) \/ (Holds(t, o) /\ (Alone(o) => OrderFit(o)')),
           \A r \in Runs :
              SameRun(r) \/ ((run[r] = None \/ On(t, r)) /\ (Alone(r) => RunFit(r)' /\ Frozen(r))),
           \A r \in Runs :
              Blank(r)' /\ (run[r] # None => run'[r] # None /\ Linked(r)' \subseteq Linked(r))
    PROVE  StepKept
<1>1. job'[t] = None /\ \A u \in Requests : u # t => job'[u] = job[u]
  BY FinishType DEF RunInv
<1>2. HeldSound(t)
  BY <1>1, RowsKnown DEF HeldSound
<1> QED
  BY <1>1, <1>2, StepKeeps

\* Orders accepted from the queue are not dispatched and on no active run.
LEMMA CreateReadKeeps ==
    ASSUME RunInv, Note, NEW t \in Requests, NEW S \in SUBSET Orders, CreateRead(t, S)
    PROVE  StepKept
<1> PICK k \in Jobs : k = [op |-> "create", run |-> None, orders |-> S]
  BY CreateJob
<1>1. k.op = "create" /\ k.orders = S
  OBVIOUS
<1>2. Sound(k)
  BY <1>1 DEF CreateRead, Sound, JobShape, OrderJob
<1> QED
  BY <1>2, ReadKeeps DEF CreateRead

\* The order to cancel has a failed attempt that waits for its review.
LEMMA CancelReadKeeps ==
    ASSUME RunInv, Note, NEW t \in Requests, NEW o \in Orders, NEW r \in Runs,
           CancelRead(t, o, r)
    PROVE  StepKept
<1> PICK k \in Jobs : k = [op |-> "cancel", run |-> r, orders |-> {o}]
  BY ReleaseJob
<1>1. k.op = "cancel" /\ k.orders = {o} /\ k.run = r
  OBVIOUS
<1>2. Queued(o) /\ r \in Pending(o)
  BY DEF CancelRead
<1>3. o \in Failed(r) /\ link[r][o] # None
  BY <1>2 DEF Pending, Failed, Linked
<1>4. run[r] # None
  BY <1>3, LinkedExists
<1>5. JobShape(k)
  BY <1>1, <1>4 DEF JobShape
<1>6. OrderJob(k, o)
  BY <1>1, <1>2 DEF OrderJob
<1>7. RunJob(k)
  BY <1>1, <1>3 DEF RunJob
<1>8. Sound(k)
  BY <1>1, <1>5, <1>6, <1>7 DEF Sound
<1> QED
  BY <1>8, ReadKeeps DEF CancelRead

\* The order to release is on the run, which is planned.
LEMMA ReleaseReadKeeps ==
    ASSUME RunInv, Note, NEW t \in Requests, NEW r \in Runs, NEW o \in Orders,
           ReleaseRead(t, r, o)
    PROVE  StepKept
<1> PICK k \in Jobs : k = [op |-> "release", run |-> r, orders |-> {o}]
  BY ReleaseJob
<1>1. k.op = "release" /\ k.orders = {o} /\ k.run = r
  OBVIOUS
<1>2. HasStatus(r, {"PLANNED"}) /\ o \in Linked(r) /\ run[r] # None
  BY DEF ReleaseRead, HasStatus
<1>3. JobShape(k) /\ OrderJob(k, o) /\ RunJob(k)
  BY <1>1, <1>2 DEF JobShape, OrderJob, RunJob
<1>4. Sound(k)
  BY <1>1, <1>3 DEF Sound
<1> QED
  BY <1>4, ReadKeeps DEF ReleaseRead

\* The loadout of a planned run is read and nothing of its orders.
LEMMA SaveLoadoutReadKeeps ==
    ASSUME RunInv, Note, NEW t \in Requests, NEW r \in Runs, NEW x \in Extras,
           SaveLoadoutRead(t, r, x)
    PROVE  StepKept
<1>1. x \in Nat
  BY RunAssumption
<1> PICK k \in Jobs : k = [op |-> "save", run |-> r, orders |-> {}, extra |-> x]
  BY <1>1, SaveJob
<1>2. k.op = "save" /\ k.orders = {} /\ k.run = r
  OBVIOUS
<1>3. HasStatus(r, {"PLANNED"}) /\ run[r] # None
  BY DEF SaveLoadoutRead, HasStatus
<1>4. JobShape(k) /\ RunJob(k)
  BY <1>2, <1>3 DEF JobShape, RunJob
<1>5. Sound(k)
  BY <1>2, <1>4 DEF Sound
<1> QED
  BY <1>5, ReadKeeps DEF SaveLoadoutRead

\* A dispatch has read all orders of the planned run.
LEMMA DispatchReadKeeps ==
    ASSUME RunInv, Note, NEW t \in Requests, NEW r \in Runs, NEW x \in Extras,
           DispatchRead(t, r, x)
    PROVE  StepKept
<1> PICK S \in SUBSET Orders : S = Linked(r)
  BY DEF Linked
<1>1. x \in Nat
  BY RunAssumption
<1> PICK k \in Jobs : k = [op |-> "dispatch", run |-> r, orders |-> S, extra |-> x]
  BY <1>1, DispatchJob
<1>2. k.op = "dispatch" /\ k.orders = Linked(r) /\ k.run = r
  OBVIOUS
<1>3. HasStatus(r, {"PLANNED"}) /\ run[r] # None
  BY DEF DispatchRead, HasStatus
<1>4. JobShape(k) /\ RunJob(k) /\ \A o \in k.orders : OrderJob(k, o)
  BY <1>2, <1>3 DEF JobShape, RunJob, OrderJob
<1>5. Sound(k)
  BY <1>4 DEF Sound
<1> QED
  BY <1>5, ReadKeeps DEF DispatchRead

\* A revert has read them of a dispatched one, and its loadout.
LEMMA RevertReadKeeps ==
    ASSUME RunInv, Note, NEW t \in Requests, NEW r \in Runs,
           NEW cellOf \in [Orders -> Cells], RevertRead(t, r, cellOf)
    PROVE  StepKept
<1> PICK S \in SUBSET Orders : S = Linked(r)
  BY DEF Linked
<1>1. HasStatus(r, {"DISPATCHED"}) /\ run[r] # None
  BY DEF RevertRead, HasStatus
<1> PICK x \in Nat : x = run[r].extra
  BY <1>1, RowKinds DEF RunInv, RunRows
<1> PICK k \in Jobs : k = [op |-> "revert", run |-> r, orders |-> S, extra |-> x,
                           cellOf |-> cellOf]
  BY RevertJob
<1>2. k.op = "revert" /\ k.orders = Linked(r) /\ k.run = r /\ k.extra = run[r].extra
  OBVIOUS
<1>3. JobShape(k) /\ RunJob(k) /\ \A o \in k.orders : OrderJob(k, o)
  BY <1>1, <1>2 DEF JobShape, RunJob, OrderJob
<1>4. Sound(k)
  BY <1>3 DEF Sound
<1> QED
  BY <1>4, ReadKeeps DEF RevertRead

\* A check-in has read a run on the road that can still be edited.
LEMMA CheckinReadKeeps ==
    ASSUME RunInv, Note, NEW t \in Requests, NEW r \in Runs, NEW submit \in BOOLEAN,
           NEW fails \in SUBSET Orders, NEW sales \in Sales,
           CheckinRead(t, r, submit, fails, sales)
    PROVE  StepKept
<1> PICK S \in SUBSET Orders : S = Linked(r)
  BY DEF Linked
<1>1. /\ Editable(r) /\ HasStatus(r, Carrying) /\ run[r] # None
      /\ fails \subseteq S /\ sales \in Nat
  BY RunAssumption DEF CheckinRead, Editable, HasStatus, Carrying
<1> PICK status \in Carrying : status = IF submit THEN "CHECKED_IN" ELSE run[r].status
  BY <1>1 DEF HasStatus, Carrying
<1>2. status \in Active
  BY DEF Carrying, Active
<1> PICK k \in Jobs : k = [op |-> "checkin", run |-> r, orders |-> S, status |-> status,
                           submit |-> submit, failed |-> fails, road |-> sales]
  BY <1>1, <1>2, CheckinJob
<1>3. /\ k.op = "checkin" /\ k.orders = Linked(r) /\ k.run = r /\ k.failed \subseteq k.orders
      /\ k.status \in Carrying /\ (k.submit => k.status = "CHECKED_IN")
      /\ (~k.submit => k.status = run[r].status)
  BY <1>1
<1>4. JobShape(k) /\ RunJob(k) /\ \A o \in k.orders : OrderJob(k, o)
  BY <1>1, <1>3 DEF JobShape, RunJob, OrderJob
<1>5. Sound(k)
  BY <1>4 DEF Sound
<1> QED
  BY <1>5, ReadKeeps DEF CheckinRead

\* A remit has read what was reported and counted what is unsold.
LEMMA RemitReadKeeps ==
    ASSUME RunInv, Note, NEW t \in Requests, NEW r \in Runs, NEW lost \in BOOLEAN,
           RemitRead(t, r, lost)
    PROVE  StepKept
<1>1. HasStatus(r, {"CHECKED_IN"}) /\ run[r] # None /\ Sold(r) <= Loaded(r)
  BY DEF RemitRead, HasStatus, NotOversold
<1>2. Loaded(r) \in Nat /\ Sold(r) \in Nat /\ road[r] \in Nat
      /\ Linked(r) \in SUBSET Orders /\ Failed(r) \in SUBSET Linked(r)
  BY <1>1, RecapType DEF RunInv, TypeOK
<1> PICK S \in SUBSET Orders, F \in SUBSET Orders :
       S = Linked(r) /\ F = Failed(r) /\ F \subseteq S
  BY <1>2
<1> PICK u \in Nat, n \in Nat : u = Loaded(r) - Sold(r) /\ n = road[r]
  BY <1>1, <1>2
<1> PICK k \in Jobs : k = [op |-> "remit", run |-> r, orders |-> S, failed |-> F,
                           unsold |-> u, lost |-> lost, road |-> n]
  BY RemitJob
<1>3. /\ k.op = "remit" /\ k.orders = Linked(r) /\ k.run = r /\ k.failed = Failed(r)
      /\ k.unsold = Loaded(r) - Sold(r) /\ k.failed \subseteq k.orders
  OBVIOUS
<1>4. JobShape(k) /\ RunJob(k) /\ \A o \in k.orders : OrderJob(k, o)
  BY <1>1, <1>3 DEF JobShape, RunJob, OrderJob
<1>5. Sound(k)
  BY <1>4 DEF Sound
<1> QED
  BY <1>5, ReadKeeps DEF RemitRead

-----------------------------------------------------------------------------
(* The steps that write *)

\* What a running request holds is a job, and sound.
LEMMA RunningSound ==
    ASSUME RunInv, NEW t \in Requests, NEW op, Running(t, op)
    PROVE  /\ job[t] \in Jobs /\ job[t].op = op /\ Sound(job[t])
           /\ \A o \in job[t].orders : o \in Orders /\ Holds(t, o)
           /\ op \notin {"create", "open"} =>
                 /\ job[t].run \in Runs /\ On(t, job[t].run)
                 /\ run[job[t].run] # None /\ run[job[t].run] \in RunRows
<1>1. job[t] \in Jobs /\ job[t].op = op /\ job[t] # None
  BY RowKinds DEF Running, RunInv
<1> PICK j \in Jobs : j = job[t]
  BY <1>1
<1>2. Sound(j)
  BY DEF RunInv
<1>3. j.op \notin {"create", "open"} => j.run \in Runs /\ run[j.run] # None /\ run[j.run] \in RunRows
  BY <1>2, JobFields, RowKinds DEF RunInv, Sound, JobShape
<1> QED
  BY <1>1, <1>2, <1>3, JobFields DEF Holds, On

\* A run that is planned or just dispatched is not checked in.
LEMMA NotSubmitted ==
    ASSUME NEW r \in Runs, RunFit(r),
           HasStatus(r, {"PLANNED"}) \/ HasStatus(r, {"DISPATCHED"})
    PROVE  Frozen(r)
BY DEF RunFit, HasStatus, Frozen

\* A new run has no orders and nothing out.
LEMMA NewRunKeeps ==
    ASSUME RunInv, Note, NEW r \in Runs, NewRun(r)
    PROVE  StepKept
<1>1. TypeOK /\ run[r] = None /\ Blank(r)
  BY DEF RunInv, NewRun
<1>2. Planned \in RunRows /\ Planned # None
  BY RowsKnown DEF Planned, RunRows, Active
<1>3. run' = [run EXCEPT ![r] = Planned]
      /\ UNCHANGED <<link, order, road, posted, returned, missing, stock, job, away>>
  BY DEF NewRun
<1>4. run'[r] = Planned /\ \A q \in Runs : q # r => run'[q] = run[q]
  BY <1>1, <1>3 DEF TypeOK
<1>5. TypeOK'
  BY <1>1, <1>2, <1>3, NoteType DEF TypeOK
<1>6. \A q \in Runs : Linked(q)' = Linked(q) /\ Failed(q)' = Failed(q)
  BY <1>3 DEF Linked, Failed
<1>7. ASSUME NEW o \in Orders PROVE SameOrder(o)
  BY <1>1, <1>3, <1>4, LinkedExists DEF SameOrder, Blank, Linked
<1>8. ASSUME NEW q \in Runs, q # r PROVE SameRun(q)
  BY <1>3, <1>4, <1>6, <1>8 DEF SameRun
<1>9. RunFit(r)'
  <2>1. Out(r)' = 0
    BY <1>1, <1>3 DEF Blank, Out, Cells
  <2>2. missing'[r] = 0 /\ r \notin returned'
    BY <1>1, <1>3 DEF Blank
  <2> QED
    BY <1>4, <2>1, <2>2 DEF RunFit, Planned, Active, Carrying
<1>10. ASSUME NEW q \in Runs
       PROVE  Blank(q)' /\ (run[q] # None => run'[q] # None /\ Linked(q)' \subseteq Linked(q))
  <2>1. Blank(q)
    BY DEF RunInv
  <2> QED
    BY <1>1, <1>2, <1>3, <1>4, <1>6, <2>1 DEF Blank
<1> PICK t : t \notin Requests
  BY NoSetContainsEverything
<1>11. \A o \in Orders :
          SameOrder(o) \/ (t \in Requests /\ Holds(t, o) /\ (Alone(o) => OrderFit(o)'))
  BY <1>7
<1>12. \A q \in Runs :
          SameRun(q)
          \/ ((run[q] = None \/ (t \in Requests /\ On(t, q))) /\ (Alone(q) => RunFit(q)' /\ Frozen(q)))
  BY <1>1, <1>8, <1>9 DEF Frozen
<1>13. \A u \in Requests : u # t => job'[u] = job[u]
  BY <1>3
<1> QED
  BY <1>5, <1>10, <1>11, <1>12, <1>13, StepKeeps

\* A creation that fails leaves everything as it was.
LEMMA CreateFailsKeeps ==
    ASSUME RunInv, Note, NEW t \in Requests, CreateFails(t)
    PROVE  StepKept
<1>1. TypeOK /\ Finish(t)
      /\ UNCHANGED <<run, link, order, road, posted, returned, missing, stock, away>>
  BY DEF RunInv, CreateFails
<1>2. TypeOK'
  BY <1>1, FinishType, NoteType DEF TypeOK
<1>3. /\ \A o \in Orders : SameOrder(o)
      /\ \A r \in Runs : SameRun(r) /\ Blank(r)' /\ Linked(r)' = Linked(r)
                         /\ (run[r] # None => run'[r] # None)
  BY <1>1, UnchangedSame
<1>4. /\ \A o \in Orders : SameOrder(o) \/ (Holds(t, o) /\ (Alone(o) => OrderFit(o)'))
      /\ \A r \in Runs :
            SameRun(r) \/ ((run[r] = None \/ On(t, r)) /\ (Alone(r) => RunFit(r)' /\ Frozen(r)))
      /\ \A r \in Runs :
            Blank(r)' /\ (run[r] # None => run'[r] # None /\ Linked(r)' \subseteq Linked(r))
  BY <1>3
<1> QED
  BY <1>1, <1>2, <1>4, CommitKeeps

\* The cells alone may change: that touches no order and no run.
LEMMA CellsKeep ==
    ASSUME RunInv, Note, stock' \in [Cells -> Int],
           UNCHANGED <<run, link, order, road, posted, returned, missing, job, away>>
    PROVE  StepKept
<1>1. TypeOK'
  BY NoteType DEF RunInv, TypeOK
<1>2. /\ \A o \in Orders : SameOrder(o)
      /\ \A r \in Runs : SameRun(r) /\ Blank(r)' /\ Linked(r)' = Linked(r)
                         /\ (run[r] # None => run'[r] # None)
  BY UnchangedSame
<1> PICK t : t \notin Requests
  BY NoSetContainsEverything
<1>3. /\ \A o \in Orders :
            SameOrder(o) \/ (t \in Requests /\ Holds(t, o) /\ (Alone(o) => OrderFit(o)'))
      /\ \A r \in Runs :
            SameRun(r)
            \/ ((run[r] = None \/ (t \in Requests /\ On(t, r))) /\ (Alone(r) => RunFit(r)' /\ Frozen(r)))
      /\ \A r \in Runs :
            Blank(r)' /\ (run[r] # None => run'[r] # None /\ Linked(r)' \subseteq Linked(r))
  BY <1>2
<1> QED
  BY <1>1, <1>3, StepKeeps

\* A sale at the counter takes what it finds, the product form writes figures.
LEMMA CellsWritten ==
    ASSUME TypeOK,
           \/ \E d \in CounterSales : SellAtCounter(d)
           \/ \E figures \in Figures : SaveProduct(figures)
    PROVE  /\ stock' \in [Cells -> Int]
           /\ (\A c \in Cells : stock[c] >= 0) => \A c \in Cells : stock'[c] >= 0
           /\ UNCHANGED <<run, link, order, road, posted, returned, missing, job, away>>
<1>1. ASSUME NEW d \in CounterSales, SellAtCounter(d)
      PROVE  stock' \in [Cells -> Int] /\ \A c \in Cells : stock'[c] >= 0
  <2>1. d \in [Cells -> Nat] /\ stock \in [Cells -> Int]
    BY RunAssumption DEF TypeOK
  <2>2. stock' = [c \in Cells |-> stock[c] - d[c]] /\ \A c \in Cells : d[c] <= stock[c]
    BY <1>1 DEF SellAtCounter, InStock
  <2> QED
    BY <2>1, <2>2
<1>2. ASSUME NEW figures \in Figures, SaveProduct(figures)
      PROVE  stock' \in [Cells -> Int] /\ \A c \in Cells : stock'[c] >= 0
  <2>1. stock' = figures /\ figures \in [Cells -> Nat]
    BY <1>2, RunAssumption DEF SaveProduct
  <2> QED
    BY <2>1
<1>3. UNCHANGED <<run, link, order, road, posted, returned, missing, job, away>>
  BY DEF SellAtCounter, SaveProduct
<1> QED
  BY <1>1, <1>2, <1>3

\* Opening takes packs and adds what is in them.
LEMMA CellsOpened ==
    ASSUME RunInv, NEW t \in Requests, Open(t), NEW j \in Jobs, j = job[t]
    PROVE  /\ j.op = "open" /\ j.packs \in Nat /\ j.packs * PackSize \in Nat
           /\ stock' \in [Cells -> Int]
           /\ stock'["PACK"] = stock["PACK"] - j.packs
           /\ stock'["RETAIL"] = stock["RETAIL"] + j.packs * PackSize
<1>1. j.op = "open" /\ j.packs \in Nat
  BY JobFields DEF Open, Running
<1>2. PackSize \in Nat
  BY RunAssumption
<1>3. j.packs * PackSize \in Nat
  BY <1>1, <1>2
<1> PICK n \in Nat, m \in Nat : n = j.packs /\ m = j.packs * PackSize
  BY <1>1, <1>3
<1>4. stock \in [Cells -> Int]
  BY DEF RunInv, TypeOK
<1>5. stock' = [stock EXCEPT !["PACK"] = stock["PACK"] - n, !["RETAIL"] = stock["RETAIL"] + m]
  BY DEF Open
<1>6. /\ stock' \in [Cells -> Int]
      /\ stock'["PACK"] = stock["PACK"] - n /\ stock'["RETAIL"] = stock["RETAIL"] + m
  BY <1>4, <1>5 DEF Cells
<1> QED
  BY <1>1, <1>3, <1>6

\* No step of the others that write the cells touches an order or a run.
LEMMA ElsewhereKeeps ==
    ASSUME RunInv, Note, Elsewhere
    PROVE  StepKept
<1>1. TypeOK
  BY DEF RunInv
<1>2. CASE \/ \E d \in CounterSales : SellAtCounter(d)
           \/ \E figures \in Figures : SaveProduct(figures)
  BY <1>1, <1>2, CellsWritten, CellsKeep
<1>3. ASSUME NEW t \in Requests, NEW n \in Opens, OpenRead(t, n) PROVE StepKept
  <2> PICK k \in Jobs : k = [op |-> "open", run |-> None, orders |-> {}, packs |-> n]
    BY OpenJob
  <2>1. k.op = "open" /\ k.orders = {}
    OBVIOUS
  <2>2. Sound(k)
    BY <2>1 DEF Sound, JobShape
  <2> QED
    BY <1>3, <2>2, ReadKeeps DEF OpenRead
<1>4. ASSUME NEW t \in Requests, Open(t) PROVE StepKept
  <2> PICK j \in Jobs : j = job[t]
    BY <1>1, <1>4, RowKinds DEF Open, Running
  <2>1. stock' \in [Cells -> Int]
    BY <1>4, CellsOpened
  <2>2. Finish(t) /\ UNCHANGED <<run, link, order, road, posted, returned, missing, away>>
    BY <1>4 DEF Open
  <2>3. TypeOK'
    BY <1>1, <2>1, <2>2, FinishType, NoteType DEF TypeOK
  <2>4. /\ \A o \in Orders : SameOrder(o)
        /\ \A r \in Runs : SameRun(r) /\ Blank(r)' /\ Linked(r)' = Linked(r)
                           /\ (run[r] # None => run'[r] # None)
    BY <2>2, UnchangedSame
  <2>5. /\ \A o \in Orders : SameOrder(o) \/ (Holds(t, o) /\ (Alone(o) => OrderFit(o)'))
        /\ \A r \in Runs :
              SameRun(r) \/ ((run[r] = None \/ On(t, r)) /\ (Alone(r) => RunFit(r)' /\ Frozen(r)))
        /\ \A r \in Runs :
              Blank(r)' /\ (run[r] # None => run'[r] # None /\ Linked(r)' \subseteq Linked(r))
    BY <2>4
  <2> QED
    BY <2>2, <2>3, <2>5, CommitKeeps
<1> QED
  BY <1>2, <1>3, <1>4 DEF Elsewhere

\* Saving the loadout of a planned run.
LEMMA SaveLoadoutKeeps ==
    ASSUME RunInv, Note, NEW t \in Requests, SaveLoadout(t)
    PROVE  StepKept
<1>1. Running(t, "save") /\ Finish(t) /\ TypeOK
      /\ UNCHANGED <<link, order, road, posted, returned, missing, stock, away>>
  BY DEF SaveLoadout, RunInv
<1> PICK j \in Jobs : j = job[t] /\ j.op = "save"
  BY <1>1, RunningSound
<1>2. j.run \in Runs /\ j.extra \in Nat
  BY JobFields
<1> PICK r \in Runs, x \in Nat : r = j.run /\ x = j.extra
  BY <1>2
<1>3. run[r] # None /\ run[r] \in RunRows /\ Sound(j) /\ On(t, r)
  BY <1>1, RunningSound
<1> PICK row \in RunRows : row = run[r]
  BY <1>3
<1>4. /\ [row EXCEPT !.extra = x] \in RunRows /\ [row EXCEPT !.extra = x] # None
      /\ [row EXCEPT !.extra = x].status = row.status
      /\ [row EXCEPT !.extra = x].checkedIn = row.checkedIn
  <2>1. [row EXCEPT !.extra = x] \in RunRows
    BY DEF RunRows
  <2> QED
    BY <2>1, RowsKnown DEF RunRows
<1>5. run' = [run EXCEPT ![r] = [row EXCEPT !.extra = x]]
  <2>1. run' = [run EXCEPT ![r] = [run[r] EXCEPT !.extra = x]]
    BY DEF SaveLoadout
  <2> QED
    BY <2>1
<1>6. run'[r] = [row EXCEPT !.extra = x] /\ \A q \in Runs : q # r => run'[q] = run[q]
  BY <1>1, <1>5 DEF TypeOK
<1>7. run'[r] \in RunRows /\ run'[r] # None
      /\ run'[r].status = run[r].status /\ run'[r].checkedIn = run[r].checkedIn
  BY <1>4, <1>6
<1>8. TypeOK'
  <2>1. PICK next \in RunRows : next = [row EXCEPT !.extra = x]
    BY <1>4
  <2>2. run' = [run EXCEPT ![r] = next]
    BY <1>5, <2>1
  <2>3. run' \in [Runs -> RunRows \cup {None}]
    BY <1>1, <2>2 DEF TypeOK
  <2> QED
    BY <1>1, <2>3, FinishType, NoteType DEF TypeOK
<1>9. \A q \in Runs : Linked(q)' = Linked(q) /\ Failed(q)' = Failed(q)
  BY <1>1 DEF Linked, Failed
<1>10. ASSUME NEW o \in Orders PROVE SameOrder(o)
  <2>1. order'[o] = order[o] /\ \A q \in Runs : link'[q][o] = link[q][o]
    BY <1>1
  <2>2. ASSUME NEW q \in Runs, link[q][o] # None
        PROVE  run[q] # None /\ run'[q] # None /\ run'[q].status = run[q].status
    <3>1. run[q] # None
      BY <2>2, LinkedExists
    <3>2. CASE q = r
      BY <3>1, <3>2, <1>7
    <3>3. CASE q # r
      BY <3>1, <3>3, <1>6
    <3> QED
      BY <3>2, <3>3
  <2> QED
    BY <2>1, <2>2 DEF SameOrder
<1>11. ASSUME NEW q \in Runs, q # r PROVE SameRun(q)
  BY <1>1, <1>6, <1>9, <1>11 DEF SameRun
<1>12. ASSUME Alone(r) PROVE RunFit(r)' /\ Frozen(r)
  <2>1. HasStatus(r, {"PLANNED"}) /\ RunFit(r)
    BY <1>3, <1>12 DEF RunInv, Sound, RunJob
  <2>2. Out(r)' = Out(r)
    BY <1>1 DEF Out
  <2>3. RunFit(r)'
    BY <1>1, <1>3, <1>7, <2>1, <2>2 DEF RunFit, HasStatus, Carrying
  <2> QED
    BY <2>1, <2>3, NotSubmitted
<1>13. ASSUME NEW q \in Runs
       PROVE  Blank(q)' /\ (run[q] # None => run'[q] # None /\ Linked(q)' \subseteq Linked(q))
  <2>1. Blank(q)
    BY DEF RunInv
  <2> QED
    BY <1>1, <1>3, <1>6, <1>7, <1>9, <2>1 DEF Blank
<1>14. /\ \A o \in Orders : SameOrder(o) \/ (Holds(t, o) /\ (Alone(o) => OrderFit(o)'))
       /\ \A q \in Runs :
             SameRun(q) \/ ((run[q] = None \/ On(t, q)) /\ (Alone(q) => RunFit(q)' /\ Frozen(q)))
  BY <1>3, <1>10, <1>11, <1>12
<1> QED
  BY <1>1, <1>8, <1>13, <1>14, CommitKeeps

\* Writing the links of one run leaves those of the others.
LEMMA Relinks ==
    ASSUME TypeOK, NEW r \in Runs, NEW w \in [Orders -> LinkRows \cup {None}],
           link' = [link EXCEPT ![r] = w]
    PROVE  /\ link' \in [Runs -> [Orders -> LinkRows \cup {None}]]
           /\ link'[r] = w
           /\ \A q \in Runs : q # r =>
                link'[q] = link[q] /\ Linked(q)' = Linked(q) /\ Failed(q)' = Failed(q)
<1>1. /\ link' \in [Runs -> [Orders -> LinkRows \cup {None}]]
      /\ link'[r] = w /\ \A q \in Runs : q # r => link'[q] = link[q]
  BY DEF TypeOK
<1>2. ASSUME NEW q \in Runs, q # r PROVE Linked(q)' = Linked(q) /\ Failed(q)' = Failed(q)
  <2>1. Linked(q)' = Linked(q)
    BY <1>1, <1>2 DEF Linked
  <2> QED
    BY <1>1, <1>2, <2>1 DEF Failed
<1> QED
  BY <1>1, <1>2

\* The link of a reviewed failure is a link.
LEMMA ReviewedType ==
    /\ Reviewed \in LinkRows /\ Reviewed # None
    /\ Reviewed.failed = TRUE /\ Reviewed.final = TRUE
BY RowsKnown DEF Reviewed, LinkRows

\* Releasing an order of a planned run.
LEMMA ReleaseKeeps ==
    ASSUME RunInv, Note, NEW t \in Requests, Release(t)
    PROVE  StepKept
<1>1. Running(t, "release") /\ Finish(t) /\ TypeOK
      /\ UNCHANGED <<run, order, road, posted, returned, missing, stock, away>>
  BY DEF Release, RunInv
<1> PICK j \in Jobs : j = job[t] /\ j.op = "release"
  BY <1>1, RunningSound
<1> PICK r \in Runs, S \in SUBSET Orders : r = j.run /\ S = j.orders
  BY JobFields
<1>2. run[r] # None /\ Sound(j) /\ On(t, r) /\ \A o \in S : Holds(t, o)
  BY <1>1, RunningSound
<1> PICK w \in [Orders -> LinkRows \cup {None}] :
       w = [o \in Orders |-> IF o \in S THEN None ELSE link[r][o]]
  <2>1. \A o \in Orders : link[r][o] \in LinkRows \cup {None}
    BY <1>1 DEF TypeOK
  <2> QED
    BY <2>1
<1>3. link' = [link EXCEPT ![r] = w]
  BY DEF Release
<1>4. /\ link' \in [Runs -> [Orders -> LinkRows \cup {None}]]
      /\ link'[r] = w
      /\ \A q \in Runs : q # r =>
            link'[q] = link[q] /\ Linked(q)' = Linked(q) /\ Failed(q)' = Failed(q)
  BY <1>1, <1>3, Relinks
<1>5. TypeOK'
  BY <1>1, <1>4, FinishType, NoteType DEF TypeOK
<1>6. /\ \A o \in Orders : link'[r][o] = IF o \in S THEN None ELSE link[r][o]
      /\ Linked(r)' = Linked(r) \ S
  <2>1. \A o \in Orders : link'[r][o] = IF o \in S THEN None ELSE link[r][o]
    BY <1>4
  <2> QED
    BY <2>1 DEF Linked
<1>7. ASSUME NEW o \in Orders, o \notin S PROVE SameOrder(o)
  <2>1. \A q \in Runs : link'[q][o] = link[q][o]
    BY <1>4, <1>6, <1>7
  <2> QED
    BY <1>1, <2>1, LinkedExists DEF SameOrder
<1>8. ASSUME NEW o \in S, Alone(o) PROVE OrderFit(o)'
  <2>1. o \in Orders /\ OrderFit(o) /\ o \in Linked(r) /\ HasStatus(r, {"PLANNED"})
    BY <1>2, <1>8 DEF RunInv, Sound, OrderJob
  <2>2. \A q \in Runs : (o \in Linked(q)' <=> o \in Linked(q) /\ q # r)
    BY <1>4, <1>6, <1>8
  <2>3. \A q \in Runs : (o \in Failed(q)' <=> o \in Failed(q) /\ q # r)
    BY <1>4, <2>2 DEF Failed
  <2>4. \A q \in Runs : q # r => link'[q][o] = link[q][o]
    BY <1>4
  <2>5. \A q \in Runs : \A T : HasStatus(q, T)' <=> HasStatus(q, T)
    BY <1>1 DEF HasStatus
  <2>6. r \in ActiveRuns(o)
    BY <2>1 DEF ActiveRuns, HasStatus, Active
  <2>7. ActiveRuns(o)' = {}
    <3>1. ActiveRuns(o)' \subseteq ActiveRuns(o) \ {r}
      BY <2>2, <2>5 DEF ActiveRuns
    <3> QED
      BY <2>1, <2>6, <3>1 DEF OrderFit
  <2>8. Carriers(o) = {} /\ Carriers(o)' = {}
    <3>1. Carriers(o) = {}
      BY <2>1, <2>6 DEF OrderFit
    <3>2. \A q \in Runs : o \in Linked(q)' /\ o \notin Failed(q)' =>
             o \in Linked(q) /\ o \notin Failed(q)
      BY <2>2, <2>3
    <3>3. Carriers(o)' \subseteq Carriers(o)
      BY <2>2, <2>5, <3>2 DEF Carriers
    <3> QED
      BY <3>1, <3>3
  <2>9. Pending(o)' = {}
    <3>1. Pending(o)' \subseteq Pending(o) \ {r}
      BY <2>3, <2>4 DEF Pending
    <3> QED
      BY <2>1, <2>6, <3>1 DEF OrderFit
  <2>10. order'[o] = order[o]
    BY <1>1
  <2> QED
    BY <2>1, <2>7, <2>8, <2>9, <2>10 DEF OrderFit
<1>9. ASSUME NEW q \in Runs, q # r PROVE SameRun(q)
  BY <1>1, <1>4, <1>9 DEF SameRun
<1>10. ASSUME Alone(r) PROVE RunFit(r)' /\ Frozen(r)
  <2>1. HasStatus(r, {"PLANNED"}) /\ RunFit(r)
    BY <1>2, <1>10 DEF RunInv, Sound, RunJob
  <2>2. Out(r)' = Out(r)
    BY <1>1 DEF Out
  <2>3. RunFit(r)'
    BY <1>1, <2>1, <2>2 DEF RunFit, HasStatus, Carrying
  <2> QED
    BY <2>1, <2>3, NotSubmitted
<1>11. ASSUME NEW q \in Runs
       PROVE  Blank(q)' /\ (run[q] # None => run'[q] # None /\ Linked(q)' \subseteq Linked(q))
  <2>1. Blank(q)
    BY DEF RunInv
  <2>2. Linked(q)' \subseteq Linked(q)
    BY <1>4, <1>6
  <2> QED
    BY <1>1, <2>1, <2>2 DEF Blank
<1>12. /\ \A o \in Orders : SameOrder(o) \/ (Holds(t, o) /\ (Alone(o) => OrderFit(o)'))
       /\ \A q \in Runs :
             SameRun(q) \/ ((run[q] = None \/ On(t, q)) /\ (Alone(q) => RunFit(q)' /\ Frozen(q)))
  BY <1>2, <1>7, <1>8, <1>9, <1>10
<1> QED
  BY <1>1, <1>5, <1>11, <1>12, CommitKeeps

\* Cancelling an order whose failed attempt waits for its review.
LEMMA CancelKeeps ==
    ASSUME RunInv, Note, NEW t \in Requests, Cancel(t)
    PROVE  StepKept
<1>1. Running(t, "cancel") /\ Finish(t) /\ TypeOK
      /\ UNCHANGED <<run, road, posted, returned, missing, stock, away>>
  BY DEF Cancel, RunInv
<1> PICK j \in Jobs : j = job[t] /\ j.op = "cancel"
  BY <1>1, RunningSound
<1> PICK r \in Runs, S \in SUBSET Orders : r = j.run /\ S = j.orders
  BY JobFields
<1>2. run[r] # None /\ Sound(j) /\ On(t, r) /\ \A o \in S : Holds(t, o)
  BY <1>1, RunningSound
<1>3. CASE ~(S \subseteq Linked(r))
  <2>1. UNCHANGED <<order, link>>
    BY <1>3 DEF Cancel
  <2>2. TypeOK'
    BY <1>1, <2>1, FinishType, NoteType DEF TypeOK
  <2>3. /\ \A o \in Orders : SameOrder(o)
        /\ \A q \in Runs : SameRun(q) /\ Blank(q)' /\ Linked(q)' = Linked(q)
                           /\ (run[q] # None => run'[q] # None)
    BY <1>1, <2>1, UnchangedSame
  <2>4. /\ \A o \in Orders : SameOrder(o) \/ (Holds(t, o) /\ (Alone(o) => OrderFit(o)'))
        /\ \A q \in Runs :
              SameRun(q) \/ ((run[q] = None \/ On(t, q)) /\ (Alone(q) => RunFit(q)' /\ Frozen(q)))
        /\ \A q \in Runs :
              Blank(q)' /\ (run[q] # None => run'[q] # None /\ Linked(q)' \subseteq Linked(q))
    BY <2>3
  <2> QED
    BY <1>1, <2>2, <2>4, CommitKeeps
<1>4. CASE S \subseteq Linked(r)
  <2> PICK w \in [Orders -> LinkRows \cup {None}] :
         w = [o \in Orders |-> IF o \in S THEN Reviewed ELSE link[r][o]]
    <3>1. \A o \in Orders : link[r][o] \in LinkRows \cup {None}
      BY <1>1 DEF TypeOK
    <3> QED
      BY <3>1, ReviewedType
  <2>1. link' = [link EXCEPT ![r] = w]
    BY <1>4 DEF Cancel
  <2>2. order' = [o \in Orders |-> IF o \in S THEN [cancelled |-> TRUE, dispatched |-> FALSE]
                                   ELSE order[o]]
    BY <1>4 DEF Cancel
  <2>3. /\ link' \in [Runs -> [Orders -> LinkRows \cup {None}]]
        /\ link'[r] = w
        /\ \A q \in Runs : q # r =>
              link'[q] = link[q] /\ Linked(q)' = Linked(q) /\ Failed(q)' = Failed(q)
    BY <1>1, <2>1, Relinks
  <2>4. TypeOK'
    <3>1. order' \in [Orders -> OrderRows]
      BY <1>1, <2>2 DEF TypeOK, OrderRows
    <3> QED
      BY <1>1, <2>3, <3>1, FinishType, NoteType DEF TypeOK
  <2>5. /\ \A o \in Orders : link'[r][o] = IF o \in S THEN Reviewed ELSE link[r][o]
        /\ Linked(r)' = Linked(r)
    <3>1. \A o \in Orders : link'[r][o] = IF o \in S THEN Reviewed ELSE link[r][o]
      BY <2>3
    <3>2. \A o \in Orders : link'[r][o] # None <=> link[r][o] # None
      BY <1>4, <3>1, ReviewedType DEF Linked
    <3> QED
      BY <3>1, <3>2 DEF Linked
  <2>6. ASSUME NEW o \in Orders, o \notin S PROVE SameOrder(o)
    <3>1. \A q \in Runs : link'[q][o] = link[q][o]
      BY <2>3, <2>5, <2>6
    <3> QED
      BY <1>1, <2>2, <2>6, <3>1, LinkedExists DEF SameOrder
  <2>7. ASSUME NEW o \in S, Alone(o) PROVE OrderFit(o)'
    <3>1. o \in Orders /\ OrderFit(o) /\ Queued(o) /\ r \in Pending(o)
      BY <1>2, <2>7 DEF RunInv, Sound, OrderJob
    <3>2. \A q \in Runs : o \in Linked(q)' <=> o \in Linked(q)
      BY <2>3, <2>5
    <3>3. \A q \in Runs : o \in Failed(q)' <=> o \in Failed(q)
      <4>1. o \in Failed(r) /\ o \in Failed(r)'
        BY <2>5, <2>7, <3>1, <3>2, ReviewedType DEF Pending, Failed
      <4> QED
        BY <2>3, <4>1
    <3>4. \A q \in Runs : \A T : HasStatus(q, T)' <=> HasStatus(q, T)
      BY <1>1 DEF HasStatus
    <3>5. ActiveRuns(o)' = {}
      <4>1. ActiveRuns(o)' = ActiveRuns(o)
        BY <3>2, <3>4 DEF ActiveRuns
      <4> QED
        BY <3>1, <4>1 DEF Queued
    <3>6. Carriers(o)' = {}
      <4>1. Carriers(o)' = Carriers(o)
        BY <3>2, <3>3, <3>4 DEF Carriers
      <4> QED
        BY <3>1, <4>1 DEF Queued, OrderFit
    <3>7. Pending(o)' = {}
      <4>1. link'[r][o].final
        BY <2>5, <2>7, <3>1, ReviewedType
      <4>2. Pending(o)' \subseteq Pending(o) \ {r}
        BY <2>3, <3>3, <4>1 DEF Pending
      <4> QED
        BY <3>1, <4>2 DEF OrderFit
    <3>8. order'[o].cancelled = TRUE /\ order'[o].dispatched = FALSE
      BY <2>2, <2>7, <3>1
    <3> QED
      BY <3>5, <3>6, <3>7, <3>8 DEF OrderFit
  <2>8. ASSUME NEW q \in Runs, q # r PROVE SameRun(q)
    BY <1>1, <2>3, <2>8 DEF SameRun
  <2>9. ASSUME Alone(r) PROVE RunFit(r)' /\ Frozen(r)
    <3>1. S \subseteq Failed(r) /\ RunFit(r)
      BY <1>2, <2>9 DEF RunInv, Sound, RunJob
    <3>2. Failed(r)' = Failed(r)
      BY <2>5, <3>1, ReviewedType DEF Failed, Linked
    <3>3. SameRun(r)
      BY <1>1, <2>5, <3>2 DEF SameRun
    <3> QED
      BY <3>1, <3>3, SameRunFits DEF SameRun, Frozen
  <2>10. ASSUME NEW q \in Runs
         PROVE  Blank(q)' /\ (run[q] # None => run'[q] # None /\ Linked(q)' \subseteq Linked(q))
    <3>1. Blank(q)
      BY DEF RunInv
    <3>2. Linked(q)' = Linked(q)
      BY <2>3, <2>5
    <3> QED
      BY <1>1, <3>1, <3>2 DEF Blank
  <2>11. /\ \A o \in Orders : SameOrder(o) \/ (Holds(t, o) /\ (Alone(o) => OrderFit(o)'))
         /\ \A q \in Runs :
               SameRun(q) \/ ((run[q] = None \/ On(t, q)) /\ (Alone(q) => RunFit(q)' /\ Frozen(q)))
    BY <1>2, <2>6, <2>7, <2>8, <2>9
  <2> QED
    BY <1>1, <2>4, <2>10, <2>11, CommitKeeps
<1> QED
  BY <1>3, <1>4

\* Linking orders of the queue to a new run.
LEMMA CreateKeeps ==
    ASSUME RunInv, Note, NEW t \in Requests, NEW r \in Runs, Create(t, r)
    PROVE  StepKept
<1>1. Running(t, "create") /\ Finish(t) /\ TypeOK /\ run[r] = None
      /\ run' = [run EXCEPT ![r] = Planned]
      /\ UNCHANGED <<order, road, posted, returned, missing, stock, away>>
  BY DEF Create, RunInv
<1> PICK j \in Jobs : j = job[t] /\ j.op = "create"
  BY <1>1, RunningSound
<1> PICK S \in SUBSET Orders : S = j.orders
  BY JobFields
<1>2. Sound(j) /\ \A o \in S : Holds(t, o)
  BY <1>1, RunningSound
<1> PICK fresh \in LinkRows : fresh = [failed |-> FALSE, final |-> FALSE]
  BY DEF LinkRows
<1> PICK latest \in [job[t].orders -> Runs \cup {None}] :
      /\ \A o \in job[t].orders :
           IF Pending(o) = {} THEN latest[o] = None ELSE latest[o] \in Pending(o)
      /\ link' = [q \in Runs |-> [o \in Orders |->
           IF o \notin job[t].orders THEN link[q][o]
           ELSE IF q = r THEN [failed |-> FALSE, final |-> FALSE]
           ELSE IF q = latest[o] THEN Reviewed
           ELSE link[q][o]]]
  BY DEF Create
<1>0. \A o \in S : IF Pending(o) = {} THEN latest[o] = None ELSE latest[o] \in Pending(o)
  OBVIOUS
<1>3. /\ \A q \in Runs, o \in Orders : o \notin S => link'[q][o] = link[q][o]
      /\ \A o \in S : link'[r][o] = fresh
      /\ \A q \in Runs, o \in S : q # r =>
            link'[q][o] = IF q = latest[o] THEN Reviewed ELSE link[q][o]
  OBVIOUS
<1>4. fresh # None /\ ~fresh.failed /\ ~fresh.final
  BY RowsKnown
<1>5. /\ Planned \in RunRows /\ Planned # None
      /\ run'[r] = Planned /\ \A q \in Runs : q # r => run'[q] = run[q]
  <2>1. Planned \in RunRows /\ Planned # None
    BY RowsKnown DEF Planned, RunRows, Active
  <2> QED
    BY <1>1, <2>1 DEF TypeOK
<1>6. \A o \in Orders : link[r][o] = None
  BY <1>1, LinkedExists
<1>7. \A o \in S : \A q \in Runs : q = latest[o] => o \in Failed(q) /\ q \in Pending(o)
  BY <1>0, RowsKnown DEF Pending
<1>8. ASSUME NEW q \in Runs, q # r
      PROVE  Linked(q)' = Linked(q) /\ Failed(q)' = Failed(q)
  <2>1. \A o \in Orders : link'[q][o] # None <=> link[q][o] # None
    <3> TAKE o \in Orders
    <3>1. CASE o \in S /\ q = latest[o]
      BY <1>3, <1>7, <1>8, <3>1, ReviewedType DEF Failed, Linked
    <3>2. CASE ~(o \in S /\ q = latest[o])
      BY <1>3, <1>8, <3>2
    <3> QED
      BY <3>1, <3>2
  <2>2. Linked(q)' = Linked(q)
    BY <2>1 DEF Linked
  <2>3. \A o \in Linked(q) : link'[q][o].failed <=> link[q][o].failed
    <3> SUFFICES ASSUME NEW o \in Linked(q)
                 PROVE  link'[q][o].failed <=> link[q][o].failed
      OBVIOUS
    <3>0. o \in Orders
      BY DEF Linked
    <3>1. CASE o \in S /\ q = latest[o]
      BY <1>3, <1>7, <1>8, <3>1, ReviewedType DEF Failed
    <3>2. CASE ~(o \in S /\ q = latest[o])
      BY <1>3, <1>8, <3>0, <3>2
    <3> QED
      BY <3>1, <3>2
  <2>4. Failed(q)' = Failed(q)
    BY <2>2, <2>3 DEF Failed
  <2> QED
    BY <2>2, <2>4
<1>9. Linked(r)' = S /\ Failed(r)' = {}
  <2>1. \A o \in Orders : link'[r][o] # None <=> o \in S
    BY <1>3, <1>4, <1>6
  <2>2. Linked(r)' = S
    BY <2>1 DEF Linked
  <2> QED
    BY <1>3, <1>4, <2>2 DEF Failed
<1>10. TypeOK'
  <2>1. run' \in [Runs -> RunRows \cup {None}]
    BY <1>1, <1>5 DEF TypeOK
  <2>2. ASSUME NEW q \in Runs, NEW o \in Orders
        PROVE  link'[q][o] \in LinkRows \cup {None}
    BY <1>1, <1>3, ReviewedType DEF TypeOK
  <2>3. link' \in [Runs -> [Orders -> LinkRows \cup {None}]]
    BY <2>2
  <2> QED
    BY <1>1, <2>1, <2>3, FinishType, NoteType DEF TypeOK
<1>11. ASSUME NEW o \in Orders, o \notin S PROVE SameOrder(o)
  BY <1>1, <1>3, <1>5, <1>11, LinkedExists DEF SameOrder
<1>12. ASSUME NEW o \in S, Alone(o) PROVE OrderFit(o)'
  <2>1. o \in Orders /\ OrderFit(o) /\ Queued(o)
    BY <1>2, <1>12 DEF RunInv, Sound, OrderJob
  <2>2. \A q \in Runs : q # r => /\ o \in Linked(q)' <=> o \in Linked(q)
                                 /\ o \in Failed(q)' <=> o \in Failed(q)
                                 /\ \A T : HasStatus(q, T)' <=> HasStatus(q, T)
    BY <1>5, <1>8 DEF HasStatus
  <2>3. o \in Linked(r)' /\ o \notin Failed(r)' /\ run'[r].status = "PLANNED"
    BY <1>5, <1>9 DEF Planned
  <2>4. ActiveRuns(o)' \subseteq {r}
    <3>1. ActiveRuns(o)' \subseteq ActiveRuns(o) \cup {r}
      BY <2>2 DEF ActiveRuns
    <3> QED
      BY <2>1, <3>1 DEF Queued
  <2>5. Carriers(o)' = {}
    <3>1. Carriers(o) = {}
      BY <2>1 DEF Queued, OrderFit
    <3>2. r \notin Carriers(o)'
      BY <2>3 DEF Carriers, HasStatus
    <3>3. Carriers(o)' \subseteq Carriers(o)
      BY <2>2, <3>2 DEF Carriers
    <3> QED
      BY <3>1, <3>3
  <2>6. Pending(o)' = {}
    <3>1. ASSUME NEW q \in Pending(o)' PROVE FALSE
      <4>1. q \in Runs /\ o \in Failed(q)' /\ ~link'[q][o].final
        BY <3>1 DEF Pending
      <4>2. q # r
        BY <2>3, <4>1
      <4>3. q # latest[o]
        BY <1>3, <4>1, <4>2, ReviewedType
      <4>4. q \in Pending(o)
        BY <1>3, <2>2, <4>1, <4>2, <4>3 DEF Pending
      <4>5. latest[o] \in Pending(o)
        BY <1>0, <4>4
      <4> QED
        BY <2>1, <4>3, <4>4, <4>5 DEF OrderFit
    <3> QED
      BY <3>1
  <2>7. ~order'[o].cancelled /\ ~order'[o].dispatched
    BY <1>1, <2>1 DEF Queued
  <2> QED
    BY <2>4, <2>5, <2>6, <2>7 DEF OrderFit
<1>13. ASSUME NEW q \in Runs, q # r PROVE SameRun(q)
  BY <1>1, <1>5, <1>8, <1>13 DEF SameRun
<1>14. RunFit(r)'
  <2>1. Blank(r)
    BY DEF RunInv
  <2>2. Out(r)' = 0
    BY <1>1, <2>1 DEF Blank, Out, Cells
  <2>3. missing'[r] = 0 /\ r \notin returned'
    BY <1>1, <2>1 DEF Blank
  <2> QED
    BY <1>5, <2>2, <2>3 DEF RunFit, Planned, Active, Carrying
<1>15. ASSUME NEW q \in Runs
       PROVE  Blank(q)' /\ (run[q] # None => run'[q] # None /\ Linked(q)' \subseteq Linked(q))
  <2>1. Blank(q)
    BY DEF RunInv
  <2>2. CASE q = r
    BY <1>1, <1>5, <2>2 DEF Blank
  <2>3. CASE q # r
    BY <1>1, <1>5, <1>8, <2>1, <2>3 DEF Blank
  <2> QED
    BY <2>2, <2>3
<1>16. /\ \A o \in Orders : SameOrder(o) \/ (Holds(t, o) /\ (Alone(o) => OrderFit(o)'))
       /\ \A q \in Runs :
             SameRun(q) \/ ((run[q] = None \/ On(t, q)) /\ (Alone(q) => RunFit(q)' /\ Frozen(q)))
  BY <1>1, <1>2, <1>11, <1>12, <1>13, <1>14 DEF Frozen
<1> QED
  BY <1>1, <1>10, <1>15, <1>16, CommitKeeps

\* Orders not linked to the one run that changes are left alone.
LEMMA OthersLeft ==
    ASSUME RunInv, NEW r \in Runs, UNCHANGED link,
           \A q \in Runs : q # r => run'[q] = run[q],
           NEW o \in Orders, o \notin Linked(r), order'[o] = order[o]
    PROVE  SameOrder(o)
<1>1. \A q \in Runs : link'[q][o] = link[q][o]
  OBVIOUS
<1>2. link[r][o] = None
  BY DEF Linked
<1> QED
  BY <1>1, <1>2, LinkedExists DEF SameOrder

\* While no link changes, neither do the orders of a run.
LEMMA LinksStay ==
    ASSUME UNCHANGED link
    PROVE  \A q \in Runs : Linked(q)' = Linked(q) /\ Failed(q)' = Failed(q)
BY DEF Linked, Failed

\* The run that changes is not blank, and the others are what they were.
LEMMA BlankStays ==
    ASSUME RunInv, NEW r \in Runs, run[r] # None, run'[r] # None,
           \A q \in Runs : q # r => SameRun(q)
    PROVE  \A q \in Runs : Blank(q)' /\ (run[q] # None => run'[q] # None)
<1> SUFFICES ASSUME NEW q \in Runs
             PROVE  Blank(q)' /\ (run[q] # None => run'[q] # None)
  OBVIOUS
<1>1. CASE q = r
  BY <1>1 DEF Blank
<1>2. CASE q # r
  <2>1. SameRun(q) /\ Blank(q)
    BY <1>2 DEF RunInv
  <2> QED
    BY <2>1 DEF SameRun, Blank
<1> QED
  BY <1>1, <1>2

\* Dispatching a planned run takes its load, the orders and the extra packs.
LEMMA DispatchKeeps ==
    ASSUME RunInv, Note, NEW t \in Requests, Dispatch(t)
    PROVE  StepKept
<1>1. Running(t, "dispatch") /\ Finish(t) /\ TypeOK
      /\ UNCHANGED <<link, road, posted, returned, missing>>
  BY DEF Dispatch, RunInv
<1> PICK j \in Jobs : j = job[t] /\ j.op = "dispatch"
  BY <1>1, RunningSound
<1> PICK r \in Runs, S \in SUBSET Orders, x \in Nat : r = j.run /\ S = j.orders /\ x = j.extra
  BY JobFields
<1>2. /\ run[r] # None /\ run[r] \in RunRows /\ Sound(j) /\ On(t, r)
      /\ \A o \in S : Holds(t, o)
  BY <1>1, RunningSound
<1>3. Linked(r) \subseteq S
  BY <1>2 DEF Sound, JobShape
<1> PICK d \in [Cells -> Int] : d = Delta(S, x, UnitKind)
                                /\ d["PACK"] + d["RETAIL"] = Units(S) + x
  <2>1. UnitKind \in [Orders -> Cells]
    BY RunAssumption
  <2>2. /\ Delta(S, x, UnitKind) \in [Cells -> Nat]
        /\ Delta(S, x, UnitKind)["PACK"] + Delta(S, x, UnitKind)["RETAIL"] = Units(S) + x
    BY <2>1, DeltaSum, Zenon
  <2> QED
    BY <2>2
<1>4. Load(r, d) /\ Mark(S, TRUE)
      /\ run' = [run EXCEPT ![r] = [status |-> "DISPATCHED", checkedIn |-> FALSE, extra |-> x]]
  <2>1. d = Delta(job[t].orders, job[t].extra, UnitKind)
    OBVIOUS
  <2> QED
    BY <2>1 DEF Dispatch
<1> PICK row \in RunRows :
       row = [status |-> "DISPATCHED", checkedIn |-> FALSE, extra |-> x]
  BY DEF RunRows, Active
<1>5. row # None /\ run'[r] = row /\ \A q \in Runs : q # r => run'[q] = run[q]
  BY <1>1, <1>4, RowsKnown DEF TypeOK
<1>6. /\ stock' \in [Cells -> Int] /\ away' \in [Runs -> [Cells -> Int]]
      /\ \A c \in Cells : away'[r][c] = away[r][c] + d[c]
      /\ \A q \in Runs \ {r} : away'[q] = away[q]
  BY <1>1, <1>4, LoadType
<1>7. /\ order' \in [Orders -> OrderRows]
      /\ \A o \in Orders \ S : order'[o] = order[o]
      /\ \A o \in S : order'[o].dispatched = TRUE /\ order'[o].cancelled = order[o].cancelled
  BY <1>1, <1>4, MarkType
<1>8. TypeOK'
  <2>1. run' \in [Runs -> RunRows \cup {None}]
    BY <1>1, <1>4 DEF TypeOK
  <2> QED
    BY <1>1, <1>6, <1>7, <2>1, FinishType, NoteType DEF TypeOK
<1>9. \A q \in Runs : Linked(q)' = Linked(q) /\ Failed(q)' = Failed(q)
  BY <1>1, LinksStay
<1>10. ASSUME NEW o \in Orders, o \notin S PROVE SameOrder(o)
  BY <1>1, <1>3, <1>5, <1>7, <1>10, OthersLeft
<1>11. ASSUME NEW o \in S, Alone(o) PROVE OrderFit(o)'
  <2>1. o \in Orders /\ OrderFit(o) /\ o \in Linked(r) /\ HasStatus(r, {"PLANNED"})
    BY <1>2, <1>11 DEF RunInv, Sound, OrderJob
  <2>2. r \in ActiveRuns(o)
    BY <2>1 DEF ActiveRuns, HasStatus, Active
  <2>3. ActiveRuns(o) = {r} /\ Carriers(o) = {} /\ ~order[o].cancelled /\ Pending(o) \subseteq {r}
    BY <2>1, <2>2 DEF OrderFit
  <2>4. run'[r].status = "DISPATCHED"
    BY <1>5
  <2>5. \A q \in Runs : q # r => \A T : HasStatus(q, T)' <=> HasStatus(q, T)
    BY <1>5 DEF HasStatus
  <2>6. ActiveRuns(o)' \subseteq {r}
    <3>1. ActiveRuns(o)' \subseteq ActiveRuns(o) \cup {r}
      BY <1>9, <2>5 DEF ActiveRuns
    <3> QED
      BY <2>3, <3>1
  <2>7. Carriers(o)' = {r}
    <3>1. r \in Carriers(o)'
      BY <1>5, <1>9, <2>1, <2>4 DEF Carriers, HasStatus
    <3>2. Carriers(o)' \subseteq Carriers(o) \cup {r}
      BY <1>9, <2>5 DEF Carriers
    <3> QED
      BY <2>3, <3>1, <3>2
  <2>8. Pending(o)' = Pending(o)
    BY <1>1, <1>9 DEF Pending
  <2>9. ~HasStatus(r, {"PLANNED"})' /\ ~HasStatus(r, {"CLOSED"})'
    BY <2>4 DEF HasStatus
  <2>10. order'[o].dispatched /\ ~order'[o].cancelled
    BY <1>7, <1>11, <2>3
  <2> QED
    BY <2>3, <2>6, <2>7, <2>8, <2>9, <2>10 DEF OrderFit
<1>12. ASSUME NEW q \in Runs, q # r PROVE SameRun(q)
  BY <1>1, <1>5, <1>6, <1>9, <1>12 DEF SameRun
<1>13. ASSUME Alone(r) PROVE RunFit(r)' /\ Frozen(r)
  <2>1. HasStatus(r, {"PLANNED"}) /\ RunFit(r) /\ S = Linked(r)
    BY <1>2, <1>13 DEF RunInv, Sound, RunJob
  <2>2. Out(r) = 0 /\ missing[r] = 0 /\ r \notin returned
    BY <1>2, <2>1 DEF RunFit, HasStatus, Active
  <2>3. Out(r)' = Out(r) + (d["PACK"] + d["RETAIL"])
    <3> PICK a \in [Cells -> Int], b \in [Cells -> Int] : a = away[r] /\ b = away'[r]
      BY <1>1, <1>6 DEF TypeOK
    <3>1. b["PACK"] = a["PACK"] + d["PACK"] /\ b["RETAIL"] = a["RETAIL"] + d["RETAIL"]
      BY <1>6 DEF Cells
    <3>2. a["PACK"] \in Int /\ a["RETAIL"] \in Int /\ d["PACK"] \in Int /\ d["RETAIL"] \in Int
      BY DEF Cells
    <3> QED
      BY <3>1, <3>2 DEF Out
  <2>4. Loaded(r)' = x + Units(S)
    BY <1>5, <1>9, <2>1 DEF Loaded, Units
  <2>5. Out(r)' = Loaded(r)'
    <3>1. Units(S) \in Nat
      BY UnitsType
    <3> QED
      BY <2>2, <2>3, <2>4, <3>1
  <2>6. RunFit(r)'
    BY <1>1, <1>5, <2>2, <2>5 DEF RunFit, Carrying, Active
  <2> QED
    BY <2>1, <2>6, NotSubmitted
<1>14. \A q \in Runs :
          Blank(q)' /\ (run[q] # None => run'[q] # None /\ Linked(q)' \subseteq Linked(q))
  BY <1>2, <1>5, <1>9, <1>12, BlankStays
<1>15. /\ \A o \in Orders : SameOrder(o) \/ (Holds(t, o) /\ (Alone(o) => OrderFit(o)'))
       /\ \A q \in Runs :
             SameRun(q) \/ ((run[q] = None \/ On(t, q)) /\ (Alone(q) => RunFit(q)' /\ Frozen(q)))
  BY <1>2, <1>10, <1>11, <1>12, <1>13
<1> QED
  BY <1>1, <1>8, <1>14, <1>15, CommitKeeps

\* A row of a run stays one with another status and check-in mark.
LEMMA RowExcept ==
    ASSUME NEW old \in RunRows, NEW status \in Active, NEW done \in BOOLEAN
    PROVE  \E row \in RunRows :
              /\ row = [old EXCEPT !.status = status, !.checkedIn = done]
              /\ row.status = status /\ row.checkedIn = done /\ row.extra = old.extra
<1> DEFINE row == [old EXCEPT !.status = status, !.checkedIn = done]
<1>1. row.status = status /\ row.checkedIn = done /\ row.extra = old.extra
  BY DEF RunRows
<1>2. row \in RunRows
  BY DEF RunRows
<1> QED
  BY <1>1, <1>2, Zenon

\* Reverting a dispatched run puts all of it back.
LEMMA RevertKeeps ==
    ASSUME RunInv, Note, NEW t \in Requests, Revert(t)
    PROVE  StepKept
<1>1. Running(t, "revert") /\ Finish(t) /\ TypeOK /\ UNCHANGED <<link, returned>>
  BY DEF Revert, RunInv
<1> PICK j \in Jobs : j = job[t] /\ j.op = "revert"
  BY <1>1, RunningSound
<1> PICK r \in Runs, S \in SUBSET Orders, x \in Nat, cellOf \in [Orders -> Cells] :
       r = j.run /\ S = j.orders /\ x = j.extra /\ cellOf = j.cellOf
  BY JobFields
<1>2. /\ run[r] # None /\ run[r] \in RunRows /\ Sound(j) /\ On(t, r)
      /\ \A o \in S : Holds(t, o)
  BY <1>1, RunningSound
<1>3. Linked(r) \subseteq S
  BY <1>2 DEF Sound, JobShape
<1> PICK d \in [Cells -> Int] : d = Delta(S, x, cellOf)
                                /\ d["PACK"] + d["RETAIL"] = Units(S) + x
  <2>1. /\ Delta(S, x, cellOf) \in [Cells -> Nat]
        /\ Delta(S, x, cellOf)["PACK"] + Delta(S, x, cellOf)["RETAIL"] = Units(S) + x
    BY DeltaSum, ZenonT(30)
  <2> QED
    BY <2>1
<1> PICK old \in RunRows : old = run[r]
  BY <1>2
<1>4. /\ Unload(r, d) /\ Mark(S, FALSE)
      /\ road' = [road EXCEPT ![r] = 0] /\ posted' = posted \ {r}
      /\ missing' = [missing EXCEPT ![r] = 0]
      /\ run' = [run EXCEPT ![r] = [old EXCEPT !.status = "PLANNED", !.checkedIn = FALSE]]
  <2>1. d = Delta(job[t].orders, job[t].extra, job[t].cellOf)
    OBVIOUS
  <2>2. Unload(r, d) /\ Mark(S, FALSE)
    BY <2>1 DEF Revert
  <2>3. run' = [run EXCEPT ![r] = [run[r] EXCEPT !.status = "PLANNED", !.checkedIn = FALSE]]
    BY DEF Revert
  <2> QED
    BY <2>2, <2>3 DEF Revert
<1> PICK row \in RunRows :
       /\ row = [old EXCEPT !.status = "PLANNED", !.checkedIn = FALSE]
       /\ row.status = "PLANNED" /\ row.checkedIn = FALSE /\ row.extra = old.extra
  BY RowExcept DEF Active
<1>5. row # None /\ run'[r] = row /\ \A q \in Runs : q # r => run'[q] = run[q]
  BY <1>1, <1>4, RowsKnown DEF TypeOK
<1>6. /\ stock' \in [Cells -> Int] /\ away' \in [Runs -> [Cells -> Int]]
      /\ \A c \in Cells : away'[r][c] = away[r][c] - d[c]
      /\ \A q \in Runs \ {r} : away'[q] = away[q]
  BY <1>1, <1>4, UnloadType
<1>7. /\ order' \in [Orders -> OrderRows]
      /\ \A o \in Orders \ S : order'[o] = order[o]
      /\ \A o \in S : order'[o].dispatched = FALSE /\ order'[o].cancelled = order[o].cancelled
  BY <1>1, <1>4, MarkType
<1>8. /\ road' \in [Runs -> Nat] /\ missing' \in [Runs -> Nat] /\ posted' \subseteq Runs
      /\ missing'[r] = 0
      /\ \A q \in Runs : q # r => road'[q] = road[q] /\ missing'[q] = missing[q]
  BY <1>1, <1>4 DEF TypeOK
<1>9. TypeOK'
  <2>1. run' \in [Runs -> RunRows \cup {None}]
    BY <1>1, <1>4 DEF TypeOK
  <2> QED
    BY <1>1, <1>6, <1>7, <1>8, <2>1, FinishType, NoteType DEF TypeOK
<1>10. \A q \in Runs : Linked(q)' = Linked(q) /\ Failed(q)' = Failed(q)
  BY <1>1, LinksStay
<1>11. ASSUME NEW o \in Orders, o \notin S PROVE SameOrder(o)
  BY <1>1, <1>3, <1>5, <1>7, <1>11, OthersLeft
<1>12. ASSUME NEW o \in S, Alone(o) PROVE OrderFit(o)'
  <2>1. o \in Orders /\ OrderFit(o) /\ o \in Linked(r) /\ HasStatus(r, {"DISPATCHED"})
    BY <1>2, <1>12 DEF RunInv, Sound, OrderJob
  <2>2. r \in ActiveRuns(o) /\ r \in Carriers(o)
    BY <2>1 DEF ActiveRuns, Carriers, HasStatus, Active
  <2>3. /\ ActiveRuns(o) = {r} /\ Carriers(o) = {r}
        /\ ~order[o].cancelled /\ Pending(o) \subseteq {r}
    BY <2>1, <2>2 DEF OrderFit
  <2>4. \A q \in Runs : q # r => \A T : HasStatus(q, T)' <=> HasStatus(q, T)
    BY <1>5 DEF HasStatus
  <2>5. ActiveRuns(o)' \subseteq {r}
    <3>1. ActiveRuns(o)' \subseteq ActiveRuns(o) \cup {r}
      BY <1>10, <2>4 DEF ActiveRuns
    <3> QED
      BY <2>3, <3>1
  <2>6. Carriers(o)' = {}
    <3>1. r \notin Carriers(o)'
      BY <1>5 DEF Carriers, HasStatus
    <3>2. Carriers(o)' \subseteq Carriers(o) \ {r}
      BY <1>10, <2>4, <3>1 DEF Carriers
    <3> QED
      BY <2>3, <3>2
  <2>7. Pending(o)' = Pending(o)
    BY <1>1, <1>10 DEF Pending
  <2>8. ~HasStatus(r, {"CLOSED"})'
    BY <1>5 DEF HasStatus
  <2>9. ~order'[o].dispatched /\ ~order'[o].cancelled
    BY <1>7, <1>12, <2>3
  <2> QED
    BY <2>3, <2>5, <2>6, <2>7, <2>8, <2>9 DEF OrderFit
<1>13. ASSUME NEW q \in Runs, q # r PROVE SameRun(q)
  BY <1>1, <1>5, <1>6, <1>8, <1>10, <1>13 DEF SameRun
<1>14. ASSUME Alone(r) PROVE RunFit(r)' /\ Frozen(r)
  <2>1. HasStatus(r, {"DISPATCHED"}) /\ RunFit(r) /\ S = Linked(r) /\ x = old.extra
    BY <1>2, <1>14 DEF RunInv, Sound, RunJob
  <2>2. Out(r) = Loaded(r) /\ r \notin returned
    BY <1>2, <2>1 DEF RunFit, HasStatus, Active, Carrying
  <2>3. Out(r)' = Out(r) - (d["PACK"] + d["RETAIL"])
    <3> PICK a \in [Cells -> Int], b \in [Cells -> Int] : a = away[r] /\ b = away'[r]
      BY <1>1, <1>6 DEF TypeOK
    <3>1. b["PACK"] = a["PACK"] - d["PACK"] /\ b["RETAIL"] = a["RETAIL"] - d["RETAIL"]
      BY <1>6 DEF Cells
    <3>2. a["PACK"] \in Int /\ a["RETAIL"] \in Int /\ d["PACK"] \in Int /\ d["RETAIL"] \in Int
      BY DEF Cells
    <3> QED
      BY <3>1, <3>2 DEF Out
  <2>4. Loaded(r) = x + Units(S)
    BY <2>1 DEF Loaded
  <2>5. Out(r)' = 0
    <3>1. Units(S) \in Nat
      BY UnitsType
    <3> QED
      BY <2>2, <2>3, <2>4, <3>1
  <2>6. RunFit(r)'
    BY <1>1, <1>5, <1>8, <2>2, <2>5 DEF RunFit, Carrying, Active
  <2> QED
    BY <2>1, <2>6, NotSubmitted
<1>15. \A q \in Runs :
          Blank(q)' /\ (run[q] # None => run'[q] # None /\ Linked(q)' \subseteq Linked(q))
  BY <1>2, <1>5, <1>10, <1>13, BlankStays
<1>16. /\ \A o \in Orders : SameOrder(o) \/ (Holds(t, o) /\ (Alone(o) => OrderFit(o)'))
       /\ \A q \in Runs :
             SameRun(q) \/ ((run[q] = None \/ On(t, q)) /\ (Alone(q) => RunFit(q)' /\ Frozen(q)))
  BY <1>2, <1>11, <1>12, <1>13, <1>14
<1> QED
  BY <1>1, <1>9, <1>15, <1>16, CommitKeeps

\* A check-in of orders that are still linked writes the outcome of each of them.
LEMMA CheckinLinks ==
    ASSUME NEW t \in Requests, Checkin(t), job[t].orders \subseteq Linked(job[t].run),
           NEW w,
           w = [o \in Orders |->
                  IF o \in job[t].orders
                  THEN [failed |-> o \in job[t].failed, final |-> FALSE]
                  ELSE link[job[t].run][o]]
    PROVE  link' = [link EXCEPT ![job[t].run] = w]
BY DEF Checkin

\* A check-in writes what the rider reported of each order and of the road sales.
LEMMA CheckinKeeps ==
    ASSUME RunInv, Note, NEW t \in Requests, Checkin(t)
    PROVE  StepKept
<1>1. Running(t, "checkin") /\ Finish(t) /\ TypeOK
      /\ UNCHANGED <<order, returned, missing, stock, away>>
  BY DEF Checkin, RunInv
<1> PICK j \in Jobs : j = job[t] /\ j.op = "checkin"
  BY <1>1, RunningSound
<1> PICK r \in Runs, S \in SUBSET Orders : r = j.run /\ S = j.orders
  BY JobFields
<1> PICK status \in Active, submit \in BOOLEAN, F \in SUBSET Orders, n \in Nat :
       status = j.status /\ submit = j.submit /\ F = j.failed /\ n = j.road
  BY CloseFields
<1>2. /\ run[r] # None /\ run[r] \in RunRows /\ Sound(j) /\ On(t, r)
      /\ \A o \in S : Holds(t, o)
  BY <1>1, RunningSound
<1>3. Linked(r) \subseteq S /\ status \in Carrying /\ (submit => status = "CHECKED_IN")
  BY <1>2 DEF Sound, JobShape
<1>4. CASE ~(S \subseteq Linked(r))
  <2>1. UNCHANGED <<run, link, road, posted>>
    BY <1>4 DEF Checkin
  <2>2. TypeOK'
    BY <1>1, <2>1, FinishType, NoteType DEF TypeOK
  <2>3. /\ \A o \in Orders : SameOrder(o)
        /\ \A q \in Runs : SameRun(q) /\ Blank(q)' /\ Linked(q)' = Linked(q)
                           /\ (run[q] # None => run'[q] # None)
    BY <1>1, <2>1, UnchangedSame
  <2>4. /\ \A o \in Orders : SameOrder(o) \/ (Holds(t, o) /\ (Alone(o) => OrderFit(o)'))
        /\ \A q \in Runs :
              SameRun(q) \/ ((run[q] = None \/ On(t, q)) /\ (Alone(q) => RunFit(q)' /\ Frozen(q)))
        /\ \A q \in Runs :
              Blank(q)' /\ (run[q] # None => run'[q] # None /\ Linked(q)' \subseteq Linked(q))
    BY <2>3
  <2> QED
    BY <1>1, <2>2, <2>4, CommitKeeps
<1>5. CASE S \subseteq Linked(r)
  <2>1. S = Linked(r)
    BY <1>3, <1>5
  <2> PICK old \in RunRows : old = run[r]
    BY <1>2
  <2> PICK done \in BOOLEAN : done = (old.checkedIn \/ submit)
    OBVIOUS
  <2>2. run' = [run EXCEPT ![r] = [old EXCEPT !.status = status, !.checkedIn = done]]
    <3>1. run' = [run EXCEPT ![r] = [run[r] EXCEPT !.status = job[t].status,
                                     !.checkedIn = run[r].checkedIn \/ job[t].submit]]
      BY <1>5 DEF Checkin
    <3> QED
      BY <3>1
  <2> PICK row \in RunRows :
         /\ row = [old EXCEPT !.status = status, !.checkedIn = done]
         /\ row.status = status /\ row.checkedIn = done /\ row.extra = old.extra
    <3> DEFINE e == [old EXCEPT !.status = status, !.checkedIn = done]
    <3>1. e.status = status /\ e.checkedIn = done /\ e.extra = old.extra
      BY DEF RunRows
    <3>2. e \in RunRows
      BY DEF RunRows
    <3> QED
      BY <3>1, <3>2, Zenon
  <2>3. row # None /\ run'[r] = row /\ \A q \in Runs : q # r => run'[q] = run[q]
    BY <1>1, <2>2, RowsKnown DEF TypeOK
  <2> PICK w \in [Orders -> LinkRows \cup {None}] :
         w = [o \in Orders |-> IF o \in S THEN [failed |-> o \in F, final |-> FALSE]
                               ELSE link[r][o]]
    <3>1. \A o \in Orders : link[r][o] \in LinkRows \cup {None}
      BY <1>1 DEF TypeOK
    <3>2. \A o \in Orders : [failed |-> o \in F, final |-> FALSE] \in LinkRows
      BY DEF LinkRows
    <3> QED
      BY <3>1, <3>2
  <2>4. link' = [link EXCEPT ![r] = w]
    <3>1. job[t].run = r /\ job[t].orders = S /\ job[t].failed = F
      OBVIOUS
    <3>2. w = [o \in Orders |->
                 IF o \in job[t].orders
                 THEN [failed |-> o \in job[t].failed, final |-> FALSE]
                 ELSE link[job[t].run][o]]
      BY <3>1, Zenon
    <3>3. job[t].orders \subseteq Linked(job[t].run)
      BY <1>5, <3>1, Zenon
    <3>4. link' = [link EXCEPT ![job[t].run] = w]
      BY <3>2, <3>3, CheckinLinks, Zenon
    <3> QED
      BY <3>1, <3>4, Zenon
  <2>5. /\ link' \in [Runs -> [Orders -> LinkRows \cup {None}]]
        /\ link'[r] = w
        /\ \A q \in Runs : q # r =>
              link'[q] = link[q] /\ Linked(q)' = Linked(q) /\ Failed(q)' = Failed(q)
    BY <1>1, <2>4, Relinks
  <2>6. /\ road' \in [Runs -> Nat] /\ posted' \subseteq Runs
        /\ \A q \in Runs : q # r => road'[q] = road[q]
    <3>1. road' = road \/ road' = [road EXCEPT ![r] = n]
      BY <1>5 DEF Checkin
    <3>2. posted' = posted \/ posted' = posted \ {r}
      BY <1>5 DEF Checkin
    <3> QED
      BY <1>1, <3>1, <3>2 DEF TypeOK
  <2>7. TypeOK'
    <3>1. run' \in [Runs -> RunRows \cup {None}]
      BY <1>1, <2>2 DEF TypeOK
    <3> QED
      BY <1>1, <2>5, <2>6, <3>1, FinishType, NoteType DEF TypeOK
  <2>8. \A o \in Orders : (o \notin S => link'[r][o] = link[r][o])
                          /\ (o \in S => link'[r][o] # None)
    <3>1. \A o \in Orders : [failed |-> o \in F, final |-> FALSE] \in LinkRows
      BY DEF LinkRows
    <3> QED
      BY <2>5, <3>1, RowsKnown
  <2>9. Linked(r)' = S
    <3>1. \A o \in Orders : link'[r][o] # None <=> o \in S
      BY <2>1, <2>8 DEF Linked
    <3> QED
      BY <3>1 DEF Linked
  <2>10. ASSUME NEW o \in Orders, o \notin S PROVE SameOrder(o)
    <3>1. \A q \in Runs : link'[q][o] = link[q][o]
      BY <2>5, <2>8, <2>10
    <3>2. link[r][o] = None
      BY <2>1, <2>10 DEF Linked
    <3> QED
      BY <1>1, <2>3, <3>1, <3>2, LinkedExists DEF SameOrder
  <2>11. ASSUME NEW o \in S, Alone(o) PROVE OrderFit(o)'
    <3>1. o \in Orders /\ OrderFit(o) /\ o \in Linked(r) /\ HasStatus(r, Carrying)
      BY <1>2, <2>11 DEF RunInv, Sound, OrderJob
    <3>2. r \in ActiveRuns(o) /\ r \in Carriers(o)
      BY <3>1 DEF ActiveRuns, Carriers, HasStatus, Active, Carrying
    <3>3. /\ ActiveRuns(o) = {r} /\ Carriers(o) = {r}
          /\ ~order[o].cancelled /\ Pending(o) \subseteq {r} /\ order[o].dispatched
      BY <3>1, <3>2 DEF OrderFit
    <3>4. \A q \in Runs : q # r => /\ o \in Linked(q)' <=> o \in Linked(q)
                                   /\ o \in Failed(q)' <=> o \in Failed(q)
                                   /\ \A T : HasStatus(q, T)' <=> HasStatus(q, T)
      BY <2>3, <2>5 DEF HasStatus
    <3>5. HasStatus(r, Carrying)'
      BY <1>3, <2>3 DEF HasStatus, Carrying
    <3>6. ActiveRuns(o)' \subseteq {r}
      <4>1. ActiveRuns(o)' \subseteq ActiveRuns(o) \cup {r}
        BY <3>4 DEF ActiveRuns
      <4> QED
        BY <3>3, <4>1
    <3>7. Carriers(o)' = {r}
      <4>1. r \in Carriers(o)'
        BY <2>9, <2>11, <3>5 DEF Carriers, Carrying
      <4>2. Carriers(o)' \subseteq Carriers(o) \cup {r}
        BY <3>4 DEF Carriers
      <4> QED
        BY <3>3, <4>1, <4>2
    <3>8. Pending(o)' \subseteq {r}
      <4>1. Pending(o)' \subseteq Pending(o) \cup {r}
        BY <2>5, <3>4 DEF Pending
      <4> QED
        BY <3>3, <4>1
    <3>9. ~HasStatus(r, {"PLANNED"})' /\ ~HasStatus(r, {"CLOSED"})'
      BY <3>5 DEF HasStatus, Carrying
    <3>10. order'[o] = order[o]
      BY <1>1
    <3> QED
      BY <3>3, <3>6, <3>7, <3>8, <3>9, <3>10 DEF OrderFit
  <2>12. ASSUME NEW q \in Runs, q # r PROVE SameRun(q)
    BY <1>1, <2>3, <2>5, <2>6, <2>12 DEF SameRun
  <2>13. ASSUME Alone(r) PROVE RunFit(r)' /\ Frozen(r)
    <3>1. Editable(r) /\ RunFit(r) /\ (~submit => status = old.status)
      BY <1>2, <2>13 DEF RunInv, Sound, RunJob
    <3>2. /\ old.status \in Carrying /\ ~(old.status = "CHECKED_IN" /\ old.checkedIn)
          /\ Out(r) = Loaded(r) /\ missing[r] = 0 /\ r \notin returned
          /\ (old.checkedIn => old.status \in {"CHECKED_IN", "CLOSED"})
      BY <1>2, <3>1 DEF RunFit, Editable, HasStatus, Carrying, Active
    <3>3. Out(r)' = Out(r)
      BY <1>1 DEF Out
    <3>4. Loaded(r)' = Loaded(r)
      BY <2>1, <2>3, <2>9 DEF Loaded, Units
    <3>5. done => submit
      BY <3>2 DEF Carrying
    <3>6. RunFit(r)'
      BY <1>1, <1>3, <2>3, <3>2, <3>3, <3>4, <3>5 DEF RunFit, Carrying, Active
    <3>7. ~run[r].checkedIn
      BY <3>2 DEF Carrying
    <3> QED
      BY <3>6, <3>7 DEF Frozen
  <2>14. \A q \in Runs :
            Blank(q)' /\ (run[q] # None => run'[q] # None /\ Linked(q)' \subseteq Linked(q))
    <3>1. \A q \in Runs : Blank(q)' /\ (run[q] # None => run'[q] # None)
      BY <1>2, <2>3, <2>12, BlankStays
    <3> QED
      BY <2>1, <2>5, <2>9, <3>1
  <2>15. /\ \A o \in Orders : SameOrder(o) \/ (Holds(t, o) /\ (Alone(o) => OrderFit(o)'))
         /\ \A q \in Runs :
               SameRun(q) \/ ((run[q] = None \/ On(t, q)) /\ (Alone(q) => RunFit(q)' /\ Frozen(q)))
    BY <1>2, <2>10, <2>11, <2>12, <2>13
  <2> QED
    BY <1>1, <2>7, <2>14, <2>15, CommitKeeps
<1> QED
  BY <1>4, <1>5

\* The remit reads again inside its transaction and keeps what it had read before.
LEMMA RemitCheckKeeps ==
    ASSUME RunInv, Note, NEW t \in Requests, RemitCheck(t)
    PROVE  StepKept
<1>1. Running(t, "remit") /\ TypeOK
      /\ UNCHANGED <<run, link, order, road, posted, returned, missing, stock, away>>
  BY DEF RemitCheck, RunInv
<1> PICK j \in Jobs : j = job[t] /\ j.op = "remit"
  BY <1>1, RunningSound
<1> PICK r \in Runs, S \in SUBSET Orders : r = j.run /\ S = j.orders
  BY JobFields
<1> PICK F \in SUBSET Orders, u \in Nat, lost \in BOOLEAN, n \in Nat :
       F = j.failed /\ u = j.unsold /\ lost = j.lost /\ n = j.road
  BY CloseFields
<1>2. run[r] # None /\ Sound(j)
  BY <1>1, RunningSound
<1>3. /\ \A o \in Orders : SameOrder(o)
      /\ \A q \in Runs : SameRun(q) /\ Blank(q)' /\ Linked(q)' = Linked(q)
                         /\ (run[q] # None => run'[q] # None)
  BY <1>1, UnchangedSame
<1>4. /\ \A o \in Orders : SameOrder(o) \/ (t \in Requests /\ Holds(t, o) /\ (Alone(o) => OrderFit(o)'))
      /\ \A q \in Runs : SameRun(q)
            \/ ((run[q] = None \/ (t \in Requests /\ On(t, q))) /\ (Alone(q) => RunFit(q)' /\ Frozen(q)))
      /\ \A q \in Runs :
            Blank(q)' /\ (run[q] # None => run'[q] # None /\ Linked(q)' \subseteq Linked(q))
  BY <1>3
<1>5. CASE ~HasStatus(r, {"CHECKED_IN"})
  <2>1. Finish(t)
    BY <1>5 DEF RemitCheck
  <2>2. TypeOK' /\ job'[t] = None /\ \A v \in Requests : v # t => job'[v] = job[v]
    BY <1>1, <2>1, FinishType, NoteType DEF TypeOK
  <2>3. HeldSound(t)
    BY <2>2, RowsKnown DEF HeldSound
  <2> QED
    BY <1>4, <2>2, <2>3, StepKeeps
<1>6. CASE HasStatus(r, {"CHECKED_IN"})
  <2> PICK k \in Jobs : k = [op |-> "post", run |-> r, orders |-> S, failed |-> F,
                             unsold |-> u, lost |-> lost, road |-> n,
                             known |-> r \in posted, moved |-> r \in returned]
    <3>1. (r \in posted) \in BOOLEAN /\ (r \in returned) \in BOOLEAN
      OBVIOUS
    <3> QED
      BY <3>1 DEF Jobs
  <2>1. /\ k.op = "post" /\ k.run = r /\ k.orders = S /\ k.failed = F /\ k.unsold = u
        /\ (k.moved <=> r \in returned)
    OBVIOUS
  <2>2. job' = [job EXCEPT ![t] = k]
    <3>1. job' = [job EXCEPT ![t] =
             [op |-> "post", run |-> job[t].run, orders |-> job[t].orders,
              failed |-> job[t].failed, unsold |-> job[t].unsold, lost |-> job[t].lost,
              road |-> job[t].road, known |-> job[t].run \in posted,
              moved |-> job[t].run \in returned]]
      BY <1>6 DEF RemitCheck
    <3>2. k = [op |-> "post", run |-> job[t].run, orders |-> job[t].orders,
               failed |-> job[t].failed, unsold |-> job[t].unsold, lost |-> job[t].lost,
               road |-> job[t].road, known |-> job[t].run \in posted,
               moved |-> job[t].run \in returned]
      OBVIOUS
    <3> QED
      BY <3>1, <3>2
  <2>3. /\ job' \in [Requests -> Jobs \cup {None}] /\ job'[t] = k
        /\ \A v \in Requests : v # t => job'[v] = job[v]
    BY <1>1, <2>2 DEF TypeOK
  <2>4. TypeOK'
    BY <1>1, <2>3, NoteType DEF TypeOK
  <2>5. JobShape(k)'
    BY <1>1, <1>2, <2>1 DEF Sound, JobShape, Linked
  <2>6. ASSUME NEW o \in k.orders, Alone(o) PROVE OrderJob(k, o)'
    <3>1. o \in Orders /\ OrderJob(j, o)
      BY <1>2, <2>1, <2>6 DEF Sound
    <3>2. OrderJob(k, o)
      BY <2>1, <3>1 DEF OrderJob
    <3> QED
      BY <1>3, <3>1, <3>2, SameOrderFits
  <2>7. ASSUME Alone(k.run) PROVE RunJob(k)'
    <3>1. RunJob(j)
      BY <1>2, <2>1, <2>7 DEF Sound
    <3>2. RunJob(k)
      BY <2>1, <3>1 DEF RunJob
    <3> QED
      BY <1>3, <2>1, <3>2, SameRunFits
  <2>8. HeldSound(t)
    <3> SUFFICES ASSUME NEW i \in Jobs, job'[t] = i
                 PROVE  /\ JobShape(i)'
                        /\ \A o \in i.orders : Alone(o) => OrderJob(i, o)'
                        /\ i.op \notin {"create", "open"} /\ Alone(i.run) => RunJob(i)'
      BY DEF HeldSound
    <3>1. i = k
      BY <2>3
    <3> QED
      BY <2>5, <2>6, <2>7, <3>1, Zenon
  <2>9. \A v \in Requests : v # t => job'[v] = job[v]
    BY <2>3
  <2> QED
    BY <1>4, <2>4, <2>8, <2>9, StepKeeps
<1> QED
  BY <1>5, <1>6

\* The remit closes the run: unsold goods are back in stock or charged.
LEMMA RemitPostKeeps ==
    ASSUME RunInv, Note, NEW t \in Requests, RemitPost(t)
    PROVE  StepKept
<1>1. Running(t, "post") /\ Finish(t) /\ TypeOK /\ UNCHANGED <<link, road>>
  BY DEF RemitPost, RunInv
<1> PICK j \in Jobs : j = job[t] /\ j.op = "post"
  BY <1>1, RunningSound
<1> PICK r \in Runs, S \in SUBSET Orders : r = j.run /\ S = j.orders
  BY JobFields
<1> PICK F \in SUBSET Orders, u \in Nat, lost \in BOOLEAN, n \in Nat :
       F = j.failed /\ u = j.unsold /\ lost = j.lost /\ n = j.road
  BY CloseFields
<1>2. /\ run[r] # None /\ run[r] \in RunRows /\ Sound(j) /\ On(t, r)
      /\ \A o \in S : Holds(t, o)
  BY <1>1, RunningSound
<1>3. Linked(r) \subseteq S /\ F \subseteq S
  BY <1>2 DEF Sound, JobShape
<1>4. CASE Clashes(j)
  <2>1. UNCHANGED <<run, order, posted, returned, missing, stock, away>>
    BY <1>4 DEF RemitPost
  <2>2. TypeOK'
    BY <1>1, <2>1, FinishType, NoteType DEF TypeOK
  <2>3. /\ \A o \in Orders : SameOrder(o)
        /\ \A q \in Runs : SameRun(q) /\ Blank(q)' /\ Linked(q)' = Linked(q)
                           /\ (run[q] # None => run'[q] # None)
    BY <1>1, <2>1, UnchangedSame
  <2>4. /\ \A o \in Orders : SameOrder(o) \/ (Holds(t, o) /\ (Alone(o) => OrderFit(o)'))
        /\ \A q \in Runs :
              SameRun(q) \/ ((run[q] = None \/ On(t, q)) /\ (Alone(q) => RunFit(q)' /\ Frozen(q)))
        /\ \A q \in Runs :
              Blank(q)' /\ (run[q] # None => run'[q] # None /\ Linked(q)' \subseteq Linked(q))
    BY <2>3
  <2> QED
    BY <1>1, <2>2, <2>4, CommitKeeps
<1>5. CASE ~Clashes(j)
  <2> PICK old \in RunRows : old = run[r]
    BY <1>2
  <2> PICK back \in Nat : back = IF j.lost \/ j.moved THEN 0 ELSE j.unsold
    OBVIOUS
  <2> PICK d \in [Cells -> Int] : d = [c \in Cells |-> IF c = "PACK" THEN back ELSE 0]
    <3>1. \A c \in Cells : (IF c = "PACK" THEN back ELSE 0) \in Int
      OBVIOUS
    <3> QED
      BY <3>1
  <2> PICK charged \in Nat : charged = IF lost THEN u ELSE 0
    OBVIOUS
  <2>1. /\ posted' = (IF j.road > 0 THEN posted \cup {r} ELSE posted)
        /\ missing' = [missing EXCEPT ![r] = missing[r] + charged]
        /\ Mark(F, FALSE)
        /\ run' = [run EXCEPT ![r] = [old EXCEPT !.status = "CLOSED"]]
    <3>1. /\ posted' = (IF j.road > 0 THEN posted \cup {j.run} ELSE posted)
          /\ missing' = [missing EXCEPT ![j.run] =
                           missing[j.run] + IF j.lost THEN j.unsold ELSE 0]
          /\ Mark(j.failed, FALSE)
          /\ run' = [run EXCEPT ![j.run] = [run[j.run] EXCEPT !.status = "CLOSED"]]
      BY <1>5 DEF RemitPost
    <3>2. posted' = (IF j.road > 0 THEN posted \cup {r} ELSE posted)
      BY <3>1
    <3>3. missing' = [missing EXCEPT ![r] = missing[r] + charged]
      BY <3>1
    <3>4. Mark(F, FALSE)
      BY <3>1
    <3>5. run' = [run EXCEPT ![r] = [old EXCEPT !.status = "CLOSED"]]
      BY <3>1
    <3> QED
      BY <3>2, <3>3, <3>4, <3>5
  <2>2. Unload(r, d) /\ returned' = (IF back > 0 THEN returned \cup {r} ELSE returned)
    <3>1. PutBack(j)
      BY <1>5 DEF RemitPost
    <3>2. /\ Unload(j.run, [c \in Cells |-> IF c = "PACK"
                               THEN (IF j.lost \/ j.moved THEN 0 ELSE j.unsold) ELSE 0])
          /\ returned' = (IF (IF j.lost \/ j.moved THEN 0 ELSE j.unsold) > 0
                          THEN returned \cup {j.run} ELSE returned)
      BY <3>1 DEF PutBack
    <3>3. d = [c \in Cells |-> IF c = "PACK"
                               THEN (IF j.lost \/ j.moved THEN 0 ELSE j.unsold) ELSE 0]
      OBVIOUS
    <3>4. Unload(r, d)
      BY <3>2, <3>3
    <3> QED
      BY <3>2, <3>4
  <2> PICK row \in RunRows :
         /\ row = [old EXCEPT !.status = "CLOSED"] /\ row.status = "CLOSED"
         /\ row.checkedIn = old.checkedIn /\ row.extra = old.extra
    <3> DEFINE e == [old EXCEPT !.status = "CLOSED"]
    <3>1. e.status = "CLOSED" /\ e.checkedIn = old.checkedIn /\ e.extra = old.extra
      BY DEF RunRows
    <3>2. e \in RunRows
      BY DEF RunRows
    <3> QED
      BY <3>1, <3>2, Zenon
  <2>3. row # None /\ run'[r] = row /\ \A q \in Runs : q # r => run'[q] = run[q]
    BY <1>1, <2>1, RowsKnown DEF TypeOK
  <2>4. /\ stock' \in [Cells -> Int] /\ away' \in [Runs -> [Cells -> Int]]
        /\ \A c \in Cells : away'[r][c] = away[r][c] - d[c]
        /\ \A q \in Runs \ {r} : away'[q] = away[q]
    BY <1>1, <2>2, UnloadType
  <2>5. /\ order' \in [Orders -> OrderRows]
        /\ \A o \in Orders \ F : order'[o] = order[o]
        /\ \A o \in F : order'[o].dispatched = FALSE /\ order'[o].cancelled = order[o].cancelled
    BY <1>1, <2>1, MarkType
  <2>6. /\ missing' \in [Runs -> Nat] /\ missing'[r] = missing[r] + charged
        /\ \A q \in Runs : q # r => missing'[q] = missing[q]
        /\ missing[r] \in Nat
    <3>1. missing \in [Runs -> Nat] /\ missing[r] + charged \in Nat
      BY <1>1 DEF TypeOK
    <3> QED
      BY <2>1, <3>1
  <2>7. /\ posted' \subseteq Runs /\ returned' \subseteq Runs
        /\ \A q \in Runs : q # r => (q \in returned' <=> q \in returned)
    BY <1>1, <2>1, <2>2 DEF TypeOK
  <2>8. TypeOK'
    <3>1. run' \in [Runs -> RunRows \cup {None}]
      BY <1>1, <2>1 DEF TypeOK
    <3> QED
      BY <1>1, <2>4, <2>5, <2>6, <2>7, <3>1, FinishType, NoteType DEF TypeOK
  <2>9. \A q \in Runs : Linked(q)' = Linked(q) /\ Failed(q)' = Failed(q)
    BY <1>1, LinksStay
  <2>10. ASSUME NEW o \in Orders, o \notin S PROVE SameOrder(o)
    BY <1>1, <1>3, <2>3, <2>5, <2>10, OthersLeft
  <2>11. ASSUME NEW o \in S, Alone(o) PROVE OrderFit(o)'
    <3>1. /\ o \in Orders /\ OrderFit(o) /\ o \in Linked(r) /\ HasStatus(r, {"CHECKED_IN"})
          /\ (o \in F <=> o \in Failed(r))
      BY <1>2, <2>11 DEF RunInv, Sound, OrderJob
    <3>2. r \in ActiveRuns(o) /\ r \in Carriers(o)
      BY <3>1 DEF ActiveRuns, Carriers, HasStatus, Active
    <3>3. /\ ActiveRuns(o) = {r} /\ Carriers(o) = {r} /\ order[o].dispatched
          /\ ~order[o].cancelled /\ Pending(o) \subseteq {r}
      BY <3>1, <3>2 DEF OrderFit
    <3>4. \A q \in Runs : q # r => \A T : HasStatus(q, T)' <=> HasStatus(q, T)
      BY <2>3 DEF HasStatus
    <3>5. ActiveRuns(o)' = {}
      <4>1. r \notin ActiveRuns(o)'
        BY <2>3 DEF ActiveRuns, HasStatus, Active
      <4>2. ActiveRuns(o)' \subseteq ActiveRuns(o) \ {r}
        BY <2>9, <3>4, <4>1 DEF ActiveRuns
      <4> QED
        BY <3>3, <4>2
    <3>6. Carriers(o)' = IF o \in Failed(r) THEN {} ELSE {r}
      <4>1. r \in Carriers(o)' <=> o \notin Failed(r)
        BY <2>3, <2>9, <3>1 DEF Carriers, HasStatus
      <4>2. Carriers(o)' \subseteq Carriers(o)
        BY <2>9, <3>3, <3>4 DEF Carriers
      <4> QED
        BY <3>3, <4>1, <4>2
    <3>7. Pending(o)' = Pending(o)
      BY <1>1, <2>9 DEF Pending
    <3>8. ~order'[o].cancelled /\ (order'[o].dispatched <=> o \notin Failed(r))
      BY <2>5, <3>1, <3>3
    <3>9. \A q \in Pending(o) : o \in Failed(r) /\ q = r
      BY <3>3 DEF Pending
    <3>10. \A q \in Pending(o)' : Queued(o)'
      BY <3>5, <3>7, <3>8, <3>9 DEF Queued
    <3>11. order'[o].dispatched <=> Carriers(o)' # {}
      BY <3>6, <3>8
    <3>12. \A p \in Carriers(o)', q \in Carriers(o)' : p = q
      BY <3>6
    <3>13. \A p \in Pending(o)', q \in Pending(o)' : p = q
      BY <3>7, <3>9
    <3> QED
      BY <3>5, <3>8, <3>10, <3>11, <3>12, <3>13 DEF OrderFit
  <2>12. ASSUME NEW q \in Runs, q # r PROVE SameRun(q)
    BY <1>1, <2>3, <2>4, <2>6, <2>7, <2>9, <2>12 DEF SameRun
  <2>13. ASSUME Alone(r) PROVE RunFit(r)' /\ Frozen(r)
    <3>1. /\ HasStatus(r, {"CHECKED_IN"}) /\ RunFit(r) /\ u = Loaded(r) - Sold(r)
          /\ (j.moved <=> r \in returned)
      BY <1>2, <2>13 DEF RunInv, Sound, RunJob
    <3>2. Out(r) = Loaded(r) /\ missing[r] = 0 /\ r \notin returned
      BY <1>2, <3>1 DEF RunFit, HasStatus, Active, Carrying
    <3>3. back = IF lost THEN 0 ELSE u
      BY <3>1, <3>2
    <3>4. Out(r)' = Out(r) - back
      <4> PICK a \in [Cells -> Int], b \in [Cells -> Int] : a = away[r] /\ b = away'[r]
        BY <1>1, <2>4 DEF TypeOK
      <4>1. b["PACK"] = a["PACK"] - back /\ b["RETAIL"] = a["RETAIL"] - 0
        BY <2>4 DEF Cells
      <4>2. a["PACK"] \in Int /\ a["RETAIL"] \in Int
        BY DEF Cells
      <4> QED
        BY <4>1, <4>2 DEF Out
    <3>5. Sold(r)' = Sold(r)
      BY <1>1, <2>9 DEF Sold, Units
    <3>6. Loaded(r) \in Nat /\ Sold(r) \in Nat
      BY <1>1, <1>2, RecapType
    <3>7. Out(r)' = Sold(r)' + missing'[r]
      BY <2>6, <3>1, <3>2, <3>3, <3>4, <3>5, <3>6
    <3>8. RunFit(r)'
      BY <2>3, <3>7 DEF RunFit, Carrying, Active
    <3>9. Frozen(r)
      BY <1>1, <2>3, <2>9 DEF Frozen
    <3> QED
      BY <3>8, <3>9
  <2>14. \A q \in Runs :
            Blank(q)' /\ (run[q] # None => run'[q] # None /\ Linked(q)' \subseteq Linked(q))
    BY <1>2, <2>3, <2>9, <2>12, BlankStays
  <2>15. /\ \A o \in Orders : SameOrder(o) \/ (Holds(t, o) /\ (Alone(o) => OrderFit(o)'))
         /\ \A q \in Runs :
               SameRun(q) \/ ((run[q] = None \/ On(t, q)) /\ (Alone(q) => RunFit(q)' /\ Frozen(q)))
    BY <1>2, <2>10, <2>11, <2>12, <2>13
  <2> QED
    BY <1>1, <2>8, <2>14, <2>15, CommitKeeps
<1> QED
  BY <1>4, <1>5

-----------------------------------------------------------------------------
(* What a cell holds while no request is undercut *)

\* What a dispatch or an opening is about to take from the cells.
Want(j) ==
    IF j.op = "dispatch" THEN Delta(j.orders, j.extra, UnitKind)
    ELSE [c \in Cells |-> IF c = "PACK" THEN j.packs ELSE 0]

\* What was compared is still there, whatever was written meanwhile.
StockFit ==
    Alone("stock") =>
        /\ \A c \in Cells : stock[c] >= 0
        /\ \A t \in Requests, j \in Jobs :
              job[t] = j /\ j.op \in {"dispatch", "open"} => InStock(Want(j))

\* A request that is about to take from the cells after a step was so before, or
\* has compared just now.
TakersKnown ==
    \A t \in Requests, j \in Jobs : job'[t] = j /\ j.op \in {"dispatch", "open"} =>
        job[t] = j \/ (InStock(Want(j)) /\ UNCHANGED stock)

\* The numbers that are compared.
LEMMA WantType ==
    ASSUME NEW j \in Jobs, j.op \in {"dispatch", "open"}
    PROVE  Want(j) \in [Cells -> Nat]
<1>1. CASE j.op = "dispatch"
  <2> PICK S \in SUBSET Orders, x \in Nat : S = j.orders /\ x = j.extra
    BY <1>1, JobFields
  <2>1. Delta(S, x, UnitKind) \in [Cells -> Nat]
    BY DeltaSum, RunAssumption
  <2> QED
    BY <1>1, <2>1 DEF Want
<1>2. CASE j.op = "open"
  <2>1. j.packs \in Nat
    BY <1>2, JobFields
  <2>2. \A c \in Cells : (IF c = "PACK" THEN j.packs ELSE 0) \in Nat
    BY <2>1
  <2> QED
    BY <1>2, <2>2 DEF Want
<1> QED
  BY <1>1, <1>2

\* A step keeps the cells sufficient when it leaves none below zero, and lets no
\* request take what it has not compared.
LEMMA FitStays ==
    ASSUME TypeOK, TypeOK', StockFit, Note, TakersKnown,
           Alone("stock") => \A c \in Cells : stock'[c] >= 0
    PROVE  StockFit'
<1> SUFFICES ASSUME Alone("stock")'
             PROVE  /\ \A c \in Cells : stock'[c] >= 0
                    /\ \A t \in Requests, j \in Jobs :
                          job'[t] = j /\ j.op \in {"dispatch", "open"} => InStock(Want(j))'
  BY DEF StockFit
<1>1. Alone("stock") /\ ~Undercut
  BY DEF Note, Alone
<1>2. ASSUME NEW t \in Requests, NEW j \in Jobs, job'[t] = j,
             j.op \in {"dispatch", "open"}
      PROVE  InStock(Want(j))'
  <2>1. InStock(Want(j))
    BY <1>1, <1>2 DEF StockFit, TakersKnown
  <2>2. t \in Takers'
    BY <1>2, RowsKnown DEF Takers, Running
  <2>3. \A c \in Cells : stock[c] \in Int /\ stock'[c] \in Int /\ ~(stock'[c] < stock[c])
    BY <1>1, <2>2 DEF Undercut, TypeOK
  <2> PICK d \in [Cells -> Nat] : d = Want(j)
    BY <1>2, WantType
  <2>4. \A c \in Cells : d[c] <= stock[c]
    BY <2>1 DEF InStock
  <2>5. \A c \in Cells : d[c] <= stock'[c]
    BY <2>3, <2>4
  <2>6. \A c \in Cells : Want(j)[c] <= stock'[c]
    BY <2>5
  <2> QED
    BY <2>6 DEF InStock, Want, Delta, Units
<1> QED
  BY <1>1, <1>2

\* That is so of a step that takes from no cell.
LEMMA RisingKeeps ==
    ASSUME TypeOK, TypeOK', StockFit, Note, TakersKnown,
           \A c \in Cells : stock'[c] >= stock[c]
    PROVE  StockFit'
<1>1. Alone("stock") => \A c \in Cells : stock'[c] >= 0
  BY DEF StockFit, TypeOK
<1> QED
  BY <1>1, FitStays

\* A request that starts or finishes something else begins no taking.
LEMMA JobsRise ==
    ASSUME TypeOK, NEW t \in Requests, NEW k,
           Finish(t) \/ (Start(t, k) /\ k.op \notin {"dispatch", "open"}) \/ UNCHANGED job
    PROVE  \A u \in Requests, j \in Jobs :
              job'[u] = j /\ j.op \in {"dispatch", "open"} => job[u] = j
BY RowsKnown DEF TypeOK, Start, Finish

\* What is unloaded goes back to stock.
LEMMA UnloadRises ==
    ASSUME TypeOK, NEW r \in Runs, NEW d \in [Cells -> Nat], Unload(r, d)
    PROVE  \A c \in Cells : stock'[c] >= stock[c]
<1>1. d \in [Cells -> Int]
  OBVIOUS
<1>2. \A c \in Cells : stock'[c] = stock[c] + d[c]
  BY <1>1, UnloadType
<1> QED
  BY <1>2 DEF TypeOK

\* Nothing that leaves the stock alone takes from it.
LEMMA StockStays ==
    ASSUME TypeOK, UNCHANGED stock
    PROVE  \A c \in Cells : stock'[c] >= stock[c]
BY DEF TypeOK

\* Only two reads begin a taking.
LEMMA TakersStay ==
    ASSUME TypeOK, Step,
           ~\E t \in Requests, r \in Runs, x \in Extras : DispatchRead(t, r, x),
           ~\E t \in Requests, n \in Opens : OpenRead(t, n)
    PROVE  \A u \in Requests, j \in Jobs :
              job'[u] = j /\ j.op \in {"dispatch", "open"} => job[u] = j
<1>1. ASSUME \/ \E d \in CounterSales : SellAtCounter(d)
             \/ \E figures \in Figures : SaveProduct(figures)
      PROVE  UNCHANGED job
  BY <1>1 DEF SellAtCounter, SaveProduct
<1>2. ASSUME NEW r \in Runs, NewRun(r) PROVE UNCHANGED job
  BY <1>2 DEF NewRun
<1>3. ASSUME NEW t \in Requests,
             \/ \E r \in Runs : Create(t, r)
             \/ CreateFails(t) \/ Cancel(t) \/ Release(t) \/ SaveLoadout(t)
             \/ Dispatch(t) \/ Revert(t) \/ Checkin(t) \/ RemitPost(t) \/ Open(t)
      PROVE  Finish(t)
  BY <1>3 DEF Create, CreateFails, Cancel, Release, SaveLoadout, Dispatch, Revert,
              Checkin, RemitPost, Open
<1>4. ASSUME NEW t \in Requests,
             \/ \E S \in SUBSET Orders : CreateRead(t, S)
             \/ \E o \in Orders, r \in Runs : CancelRead(t, o, r)
             \/ \E r \in Runs, o \in Orders : ReleaseRead(t, r, o)
             \/ \E r \in Runs, x \in Extras : SaveLoadoutRead(t, r, x)
             \/ \E r \in Runs, cellOf \in [Orders -> Cells] : RevertRead(t, r, cellOf)
             \/ \E r \in Runs, submit \in BOOLEAN, fails \in SUBSET Orders, sales \in Sales :
                  CheckinRead(t, r, submit, fails, sales)
             \/ \E r \in Runs, lost \in BOOLEAN : RemitRead(t, r, lost)
      PROVE  \E k : Start(t, k) /\ k.op \notin {"dispatch", "open"}
  <2>1. ASSUME NEW S \in SUBSET Orders, CreateRead(t, S)
        PROVE  \E k : Start(t, k) /\ k.op \notin {"dispatch", "open"}
    <3> DEFINE k == [op |-> "create", run |-> None, orders |-> S]
    <3>1. Start(t, k) /\ k.op \notin {"dispatch", "open"}
      BY <2>1 DEF CreateRead
    <3> QED
      BY <3>1
  <2>2. ASSUME NEW o \in Orders, NEW r \in Runs, CancelRead(t, o, r)
        PROVE  \E k : Start(t, k) /\ k.op \notin {"dispatch", "open"}
    <3> DEFINE k == [op |-> "cancel", run |-> r, orders |-> {o}]
    <3>1. Start(t, k) /\ k.op \notin {"dispatch", "open"}
      BY <2>2 DEF CancelRead
    <3> QED
      BY <3>1
  <2>3. ASSUME NEW o \in Orders, NEW r \in Runs, ReleaseRead(t, r, o)
        PROVE  \E k : Start(t, k) /\ k.op \notin {"dispatch", "open"}
    <3> DEFINE k == [op |-> "release", run |-> r, orders |-> {o}]
    <3>1. Start(t, k) /\ k.op \notin {"dispatch", "open"}
      BY <2>3 DEF ReleaseRead
    <3> QED
      BY <3>1
  <2>4. ASSUME NEW r \in Runs, NEW x \in Extras, SaveLoadoutRead(t, r, x)
        PROVE  \E k : Start(t, k) /\ k.op \notin {"dispatch", "open"}
    <3> DEFINE k == [op |-> "save", run |-> r, orders |-> {}, extra |-> x]
    <3>1. Start(t, k) /\ k.op \notin {"dispatch", "open"}
      BY <2>4 DEF SaveLoadoutRead
    <3> QED
      BY <3>1
  <2>5. ASSUME NEW r \in Runs, NEW cellOf \in [Orders -> Cells], RevertRead(t, r, cellOf)
        PROVE  \E k : Start(t, k) /\ k.op \notin {"dispatch", "open"}
    <3> DEFINE k == [op |-> "revert", run |-> r, orders |-> Linked(r),
                     extra |-> run[r].extra, cellOf |-> cellOf]
    <3>1. Start(t, k) /\ k.op \notin {"dispatch", "open"}
      BY <2>5 DEF RevertRead
    <3> QED
      BY <3>1
  <2>6. ASSUME NEW r \in Runs, NEW submit \in BOOLEAN, NEW fails \in SUBSET Orders,
               NEW sales \in Sales, CheckinRead(t, r, submit, fails, sales)
        PROVE  \E k : Start(t, k) /\ k.op \notin {"dispatch", "open"}
    <3> DEFINE k == [op |-> "checkin", run |-> r, orders |-> Linked(r),
                     status |-> IF submit THEN "CHECKED_IN" ELSE run[r].status,
                     submit |-> submit, failed |-> fails, road |-> sales]
    <3>1. Start(t, k) /\ k.op \notin {"dispatch", "open"}
      BY <2>6 DEF CheckinRead
    <3> QED
      BY <3>1
  <2>7. ASSUME NEW r \in Runs, NEW lost \in BOOLEAN, RemitRead(t, r, lost)
        PROVE  \E k : Start(t, k) /\ k.op \notin {"dispatch", "open"}
    <3> DEFINE k == [op |-> "remit", run |-> r, orders |-> Linked(r),
                     failed |-> Failed(r), unsold |-> Loaded(r) - Sold(r),
                     lost |-> lost, road |-> road[r]]
    <3>1. Start(t, k) /\ k.op \notin {"dispatch", "open"}
      BY <2>7 DEF RemitRead
    <3> QED
      BY <3>1
  <2> QED
    BY <1>4, <2>1, <2>2, <2>3, <2>4, <2>5, <2>6, <2>7
<1>5. ASSUME NEW t \in Requests, RemitCheck(t)
      PROVE  \A u \in Requests, j \in Jobs :
                job'[u] = j /\ j.op \in {"dispatch", "open"} => job[u] = j
  <2>1. CASE Finish(t)
    BY <2>1, JobsRise
  <2>2. CASE ~Finish(t)
    <3> PICK k : job' = [job EXCEPT ![t] = k] /\ k.op = "post"
      <4> DEFINE k == [op |-> "post", run |-> job[t].run, orders |-> job[t].orders,
                       failed |-> job[t].failed, unsold |-> job[t].unsold,
                       lost |-> job[t].lost, road |-> job[t].road,
                       known |-> job[t].run \in posted, moved |-> job[t].run \in returned]
      <4>1. job' = [job EXCEPT ![t] = k] /\ k.op = "post"
        BY <1>5, <2>2 DEF RemitCheck
      <4> QED
        BY <4>1
    <3> QED
      BY DEF TypeOK
  <2> QED
    BY <2>1, <2>2
<1>6. \/ \E d \in CounterSales : SellAtCounter(d)
      \/ \E figures \in Figures : SaveProduct(figures)
      \/ \E r \in Runs : NewRun(r)
      \/ \E t \in Requests :
           \/ \/ \E r \in Runs : Create(t, r)
              \/ CreateFails(t) \/ Cancel(t) \/ Release(t) \/ SaveLoadout(t)
              \/ Dispatch(t) \/ Revert(t) \/ Checkin(t) \/ RemitPost(t) \/ Open(t)
           \/ \/ \E S \in SUBSET Orders : CreateRead(t, S)
              \/ \E o \in Orders, r \in Runs : CancelRead(t, o, r)
              \/ \E r \in Runs, o \in Orders : ReleaseRead(t, r, o)
              \/ \E r \in Runs, x \in Extras : SaveLoadoutRead(t, r, x)
              \/ \E r \in Runs, cellOf \in [Orders -> Cells] : RevertRead(t, r, cellOf)
              \/ \E r \in Runs, submit \in BOOLEAN, fails \in SUBSET Orders, sales \in Sales :
                   CheckinRead(t, r, submit, fails, sales)
              \/ \E r \in Runs, lost \in BOOLEAN : RemitRead(t, r, lost)
           \/ RemitCheck(t)
  BY DEF Step, Elsewhere
<1> QED
  BY <1>1, <1>2, <1>3, <1>4, <1>5, <1>6, JobsRise

\* A taking begins on what is in stock.
LEMMA TakerStarts ==
    ASSUME TypeOK, NEW t \in Requests, NEW k, Start(t, k), UNCHANGED stock, InStock(Want(k))
    PROVE  TakersKnown
<1>1. job' = [job EXCEPT ![t] = k]
  BY DEF Start
<1>2. \A u \in Requests, j \in Jobs : job'[u] = j => job[u] = j \/ j = k
  BY <1>1 DEF TypeOK
<1>3. \A u \in Requests, j \in Jobs : job'[u] = j /\ j.op \in {"dispatch", "open"} =>
         job[u] = j \/ InStock(Want(j))
  BY <1>2, Zenon
<1> QED
  BY <1>3 DEF TakersKnown

\* A dispatch that begins,
LEMMA DispatchReadTakes ==
    ASSUME TypeOK, NEW t \in Requests, NEW r \in Runs, NEW x \in Extras, DispatchRead(t, r, x)
    PROVE  TakersKnown
<1>1. Start(t, [op |-> "dispatch", run |-> r, orders |-> Linked(r), extra |-> x])
      /\ InStock(Delta(Linked(r), x, UnitKind)) /\ UNCHANGED stock
  BY DEF DispatchRead
<1> PICK S : S = Linked(r)
  OBVIOUS
<1> PICK k : k = [op |-> "dispatch", run |-> r, orders |-> S, extra |-> x]
  OBVIOUS
<1>2. k.op = "dispatch" /\ k.orders = S /\ k.extra = x
  OBVIOUS
<1>3. InStock(Delta(S, x, UnitKind))
  BY <1>1
<1>4. InStock(Want(k))
  BY <1>2, <1>3 DEF Want
<1>5. Start(t, k)
  BY <1>1
<1> QED
  BY <1>1, <1>4, <1>5, TakerStarts

\* and an opening.
LEMMA OpenReadTakes ==
    ASSUME TypeOK, StockFit, Alone("stock"), NEW t \in Requests, NEW n \in Opens, OpenRead(t, n)
    PROVE  TakersKnown
<1>1. Start(t, [op |-> "open", run |-> None, orders |-> {}, packs |-> n])
      /\ n <= stock["PACK"] /\ UNCHANGED stock
  BY DEF OpenRead
<1> PICK k : k = [op |-> "open", run |-> None, orders |-> {}, packs |-> n]
  OBVIOUS
<1>2. k.op = "open" /\ k.packs = n
  OBVIOUS
<1>3. \A c \in Cells : stock[c] \in Int /\ stock[c] >= 0
  BY DEF StockFit, TypeOK
<1>4. InStock(Want(k))
  BY <1>1, <1>2, <1>3 DEF Want, InStock
<1>5. Start(t, k)
  BY <1>1
<1> QED
  BY <1>1, <1>4, <1>5, TakerStarts

\* A revert puts back what was taken out.
LEMMA RevertRises ==
    ASSUME RunInv, NEW t \in Requests, Revert(t)
    PROVE  \A c \in Cells : stock'[c] >= stock[c]
<1>1. TypeOK /\ Running(t, "revert") /\ Finish(t)
  BY DEF Revert, RunInv
<1> PICK j \in Jobs : j = job[t] /\ j.op = "revert"
  BY <1>1, RunningSound
<1> PICK r \in Runs, S \in SUBSET Orders, x \in Nat, cellOf \in [Orders -> Cells] :
       r = j.run /\ S = j.orders /\ x = j.extra /\ cellOf = j.cellOf
  BY JobFields
<1> PICK d \in [Cells -> Nat] : d = Delta(S, x, cellOf)
  BY DeltaSum
<1>2. Unload(r, d)
  <2>1. d = Delta(job[t].orders, job[t].extra, job[t].cellOf)
    OBVIOUS
  <2> QED
    BY <2>1 DEF Revert
<1> QED
  BY <1>1, <1>2, UnloadRises

\* A remit puts back what was not sold.
LEMMA RemitPostRises ==
    ASSUME RunInv, NEW t \in Requests, RemitPost(t)
    PROVE  \A c \in Cells : stock'[c] >= stock[c]
<1>1. TypeOK /\ Running(t, "post") /\ Finish(t)
  BY DEF RemitPost, RunInv
<1> PICK j \in Jobs : j = job[t] /\ j.op = "post"
  BY <1>1, RunningSound
<1>2. j.run \in Runs /\ j.unsold \in Nat
  BY JobFields, CloseFields
<1> PICK r \in Runs : r = j.run
  BY <1>2
<1>3. CASE Clashes(j)
  BY <1>1, <1>3, StockStays DEF RemitPost
<1>4. CASE ~Clashes(j)
  <2> PICK d \in [Cells -> Nat] :
         d = [c \in Cells |-> IF c = "PACK"
                              THEN (IF j.lost \/ j.moved THEN 0 ELSE j.unsold) ELSE 0]
    <3>1. \A c \in Cells : (IF c = "PACK"
                            THEN (IF j.lost \/ j.moved THEN 0 ELSE j.unsold) ELSE 0) \in Nat
      BY <1>2
    <3> QED
      BY <3>1
  <2>1. PutBack(j)
    BY <1>4 DEF RemitPost
  <2>2. Unload(j.run, [c \in Cells |-> IF c = "PACK"
                              THEN (IF j.lost \/ j.moved THEN 0 ELSE j.unsold) ELSE 0])
    BY <2>1 DEF PutBack
  <2>3. Unload(r, d)
    BY <2>2
  <2> QED
    BY <1>1, <2>3, UnloadRises
<1> QED
  BY <1>3, <1>4

\* A dispatch that nothing undercut takes what is there.
LEMMA DispatchStock ==
    ASSUME RunInv, StockFit, Alone("stock"), NEW t \in Requests, Dispatch(t)
    PROVE  \A c \in Cells : stock'[c] >= 0
<1>1. TypeOK /\ Running(t, "dispatch")
  BY DEF Dispatch, RunInv
<1> PICK j \in Jobs : j = job[t] /\ j.op = "dispatch"
  BY <1>1, RunningSound
<1> PICK r \in Runs, S \in SUBSET Orders, x \in Nat : r = j.run /\ S = j.orders /\ x = j.extra
  BY JobFields
<1> PICK d \in [Cells -> Int] : d = Delta(S, x, UnitKind)
  <2>1. Delta(S, x, UnitKind) \in [Cells -> Nat]
    BY DeltaSum, RunAssumption
  <2> QED
    BY <2>1
<1>2. Load(r, d)
  <2>1. d = Delta(job[t].orders, job[t].extra, UnitKind)
    OBVIOUS
  <2> QED
    BY <2>1 DEF Dispatch
<1>3. \A c \in Cells : stock'[c] = stock[c] - d[c]
  BY <1>1, <1>2, LoadType
<1>4. \A c \in Cells : d[c] <= stock[c]
  <2>1. InStock(Want(j))
    BY DEF StockFit
  <2>2. InStock(d)
    BY <2>1 DEF Want
  <2> QED
    BY <2>2 DEF InStock
<1> QED
  BY <1>1, <1>3, <1>4 DEF TypeOK

\* So does an opening.
LEMMA OpenStock ==
    ASSUME RunInv, StockFit, Alone("stock"), NEW t \in Requests, Open(t)
    PROVE  \A c \in Cells : stock'[c] >= 0
<1>1. TypeOK /\ Running(t, "open")
  BY DEF Open, RunInv
<1> PICK j \in Jobs : j = job[t]
  BY <1>1, RowKinds DEF Running
<1>2. /\ j.op = "open" /\ j.packs \in Nat /\ j.packs * PackSize \in Nat
      /\ stock'["PACK"] = stock["PACK"] - j.packs
      /\ stock'["RETAIL"] = stock["RETAIL"] + j.packs * PackSize
  BY CellsOpened
<1> PICK n \in Nat, m \in Nat : n = j.packs /\ m = j.packs * PackSize
  BY <1>2
<1>3. InStock(Want(j))
  BY <1>2 DEF StockFit
<1>4. n <= stock["PACK"]
  BY <1>2, <1>3 DEF InStock, Want, Cells
<1>5. stock["PACK"] \in Int /\ stock["RETAIL"] \in Int /\ stock["RETAIL"] >= 0
  BY DEF StockFit, TypeOK, Cells, RunInv
<1>6. stock'["PACK"] = stock["PACK"] - n /\ stock'["RETAIL"] = stock["RETAIL"] + m
  BY <1>2
<1> QED
  BY <1>4, <1>5, <1>6 DEF Cells

-----------------------------------------------------------------------------
(* Two runs on the road *)

\* The run is on the road, or a dispatch is about to send it.
Leaving(r) ==
    OnRoad(r) \/ \E t \in Requests : Running(t, "dispatch") /\ job[t].run = r

\* No order is on two runs that leave, each handled by one request at a time.
RoadsApart ==
    \A r \in Runs, q \in Runs :
        r # q /\ Alone(r) /\ Alone(q) /\ Leaving(r) /\ Leaving(q)
            => Linked(r) \cap Linked(q) = {}

\* A run that leaves exists, and is active.
LEMMA LeavingActive ==
    ASSUME RunInv, NEW r \in Runs, Leaving(r)
    PROVE  run[r] # None /\ (Alone(r) => HasStatus(r, Active))
<1>1. CASE OnRoad(r)
  BY <1>1 DEF OnRoad, HasStatus, Active
<1>2. ASSUME NEW t \in Requests, Running(t, "dispatch"), job[t].run = r
      PROVE  run[r] # None /\ (Alone(r) => HasStatus(r, Active))
  <2> PICK j \in Jobs : j = job[t] /\ j.op = "dispatch" /\ Sound(j)
    BY <1>2, RunningSound
  <2>1. j.run = r
    BY <1>2
  <2>2. run[r] # None
    BY <2>1 DEF Sound, JobShape
  <2>3. Alone(r) => RunJob(j)
    BY <2>1 DEF Sound
  <2>4. Alone(r) => HasStatus(r, {"PLANNED"})
    BY <2>1, <2>3 DEF RunJob
  <2> QED
    BY <2>2, <2>4 DEF HasStatus, Active
<1> QED
  BY <1>1, <1>2 DEF Leaving

\* Only a dispatch puts a run on the road that was not there.
LEMMA RoadTaken ==
    ASSUME RunInv, Step, NEW r \in Runs, Alone(r), OnRoad(r)'
    PROVE  Leaving(r)
<1>1. TypeOK
  BY DEF RunInv
<1>2. run'[r] # None /\ run'[r].status \in Carrying
  BY DEF OnRoad, HasStatus, Carrying
<1>3. ASSUME run'[r] = run[r] PROVE Leaving(r)
  BY <1>2, <1>3 DEF Leaving, OnRoad, HasStatus, Carrying
<1>4. ASSUME NEW q \in Runs, run' = [run EXCEPT ![q] = Planned] PROVE Leaving(r)
  <2>1. r # q
    BY <1>1, <1>2, <1>4 DEF TypeOK, Planned, Carrying
  <2>2. run'[r] = run[r]
    BY <1>1, <1>4, <2>1 DEF TypeOK
  <2> QED
    BY <1>3, <2>2
<1>5. ASSUME NEW t \in Requests, SaveLoadout(t) PROVE Leaving(r)
  <2>1. job[t].run \in Runs /\ run[job[t].run] # None
    BY <1>5, RunningSound DEF SaveLoadout
  <2> PICK q \in Runs : q = job[t].run
    BY <2>1
  <2> PICK x : x = job[t].extra
    OBVIOUS
  <2>2. run' = [run EXCEPT ![q].extra = x] /\ run[q] \in RunRows
    BY <1>1, <1>5, <2>1, RowKinds DEF SaveLoadout
  <2>3. r # q => run'[r] = run[r]
    BY <1>1, <2>2 DEF TypeOK
  <2>4. r = q => run'[r].status = run[r].status
    BY <1>1, <2>2 DEF TypeOK, RunRows
  <2>5. r = q => OnRoad(r)
    BY <1>2, <2>1, <2>4 DEF OnRoad, HasStatus, Carrying
  <2> QED
    BY <1>3, <2>3, <2>5 DEF Leaving
<1>6. ASSUME NEW t \in Requests, Dispatch(t) PROVE Leaving(r)
  <2>1. Running(t, "dispatch") /\ job[t].run \in Runs
    BY <1>6, RunningSound DEF Dispatch
  <2> PICK q \in Runs : q = job[t].run
    BY <2>1
  <2>2. r # q => run'[r] = run[r]
    BY <1>1, <1>6 DEF Dispatch, TypeOK
  <2> QED
    BY <1>3, <2>1, <2>2 DEF Leaving
<1>7. ASSUME NEW t \in Requests, Revert(t) PROVE Leaving(r)
  <2>1. job[t].run \in Runs /\ run[job[t].run] # None
    BY <1>7, RunningSound DEF Revert
  <2> PICK q \in Runs : q = job[t].run
    BY <2>1
  <2>2. run' = [run EXCEPT ![q].status = "PLANNED", ![q].checkedIn = FALSE]
        /\ run[q] \in RunRows
    BY <1>1, <1>7, <2>1, RowKinds DEF Revert
  <2>3. r # q => run'[r] = run[r]
    BY <1>1, <2>2 DEF TypeOK
  <2>4. r # q
    BY <1>1, <1>2, <2>2 DEF TypeOK, RunRows, Carrying
  <2> QED
    BY <1>3, <2>3, <2>4
<1>8. ASSUME NEW t \in Requests, Checkin(t) PROVE Leaving(r)
  <2>1. Running(t, "checkin")
    BY <1>8 DEF Checkin
  <2> PICK j \in Jobs : j = job[t] /\ j.op = "checkin" /\ Sound(j)
    BY <2>1, RunningSound
  <2> PICK q \in Runs : q = j.run
    BY JobFields
  <2>2. r # q => run'[r] = run[r]
    BY <1>1, <1>8 DEF Checkin, TypeOK
  <2>3. r = q => RunJob(j)
    BY DEF Sound
  <2>4. r = q => OnRoad(r)
    BY <2>3 DEF RunJob, Editable, OnRoad
  <2> QED
    BY <1>3, <2>2, <2>4 DEF Leaving
<1>9. ASSUME NEW t \in Requests, RemitPost(t) PROVE Leaving(r)
  <2>1. job[t].run \in Runs /\ run[job[t].run] # None
    BY <1>9, RunningSound DEF RemitPost
  <2> PICK q \in Runs : q = job[t].run
    BY <2>1
  <2>2. run' = run \/ run' = [run EXCEPT ![q].status = "CLOSED"]
    BY <1>9 DEF RemitPost
  <2>3. ASSUME run' = [run EXCEPT ![q].status = "CLOSED"] PROVE run'[r] = run[r]
    <3>1. run[q] \in RunRows
      BY <1>1, <2>1, RowKinds
    <3>2. r # q
      BY <1>1, <1>2, <2>3, <3>1 DEF TypeOK, RunRows, Carrying
    <3> QED
      BY <1>1, <2>3, <3>2 DEF TypeOK
  <2> QED
    BY <1>3, <2>2, <2>3
<1>10. ASSUME UNCHANGED run PROVE Leaving(r)
  BY <1>3, <1>10
<1>11. \/ \E q \in Runs : run' = [run EXCEPT ![q] = Planned]
       \/ \E t \in Requests : \/ SaveLoadout(t) \/ Dispatch(t) \/ Revert(t)
                                \/ Checkin(t) \/ RemitPost(t)
       \/ UNCHANGED run
  BY DEF Step, Elsewhere, NewRun, Create, CreateRead, CreateFails, CancelRead, Cancel,
         ReleaseRead, Release, SaveLoadoutRead, DispatchRead, RevertRead, CheckinRead,
         RemitRead, RemitCheck, SellAtCounter, OpenRead, Open, SaveProduct
<1> QED
  BY <1>4, <1>5, <1>6, <1>7, <1>8, <1>9, <1>10, <1>11

\* A step that begins no dispatch sends no run on its way.
LEMMA NoneSent ==
    ASSUME RunInv, TypeOK', Step, NEW r \in Runs, Alone(r), Leaving(r)',
           ~\E t \in Requests, q \in Runs, x \in Extras : DispatchRead(t, q, x)
    PROVE  Leaving(r)
<1>1. TypeOK
  BY DEF RunInv
<1>2. CASE OnRoad(r)'
  BY <1>2, RoadTaken
<1>3. ASSUME NEW u \in Requests, Running(u, "dispatch")', job'[u].run = r
      PROVE  Leaving(r)
  <2>1. job'[u] # None /\ job'[u].op = "dispatch"
    BY <1>3 DEF Running
  <2>2. job'[u] \in Jobs
    BY <2>1 DEF TypeOK
  <2> PICK j \in Jobs : j = job'[u] /\ j.op = "dispatch"
    BY <2>1, <2>2
  <2>3. ASSUME ~\E t \in Requests, n \in Opens : OpenRead(t, n) PROVE job[u] = j
    BY <1>1, <2>3, TakersStay
  <2>4. ASSUME NEW t \in Requests, NEW n \in Opens, OpenRead(t, n) PROVE job[u] = j
    <3>1. job' = [job EXCEPT ![t] = [op |-> "open", run |-> None, orders |-> {}, packs |-> n]]
      BY <2>4 DEF OpenRead, Start
    <3>2. u # t
      BY <1>1, <3>1 DEF TypeOK
    <3> QED
      BY <1>1, <3>1, <3>2 DEF TypeOK
  <2>5. job[u] = j
    BY <2>3, <2>4
  <2> QED
    BY <1>3, <2>5, RowsKnown DEF Leaving, Running
<1> QED
  BY <1>2, <1>3 DEF Leaving

\* A dispatch that begins has looked at every run that leaves.
LEMMA SentApart ==
    ASSUME RunInv, TypeOK', RoadsApart, NEW t \in Requests, NEW s \in Runs, NEW x \in Extras,
           DispatchRead(t, s, x),
           NEW r \in Runs, NEW q \in Runs, r # q, Alone(r), Alone(q), Leaving(r)', Leaving(q)'
    PROVE  Linked(r) \cap Linked(q) = {}
<1>1. TypeOK
  BY DEF RunInv
<1>2. UNCHANGED run
  BY DEF DispatchRead
<1>3. ASSUME NEW p \in Runs, p # s, Leaving(p)' PROVE Leaving(p)
  <2>1. CASE OnRoad(p)'
    BY <1>2, <2>1 DEF Leaving, OnRoad, HasStatus
  <2>2. ASSUME NEW u \in Requests, Running(u, "dispatch")', job'[u].run = p
        PROVE  Leaving(p)
    <3>1. job' = [job EXCEPT ![t] = [op |-> "dispatch", run |-> s, orders |-> Linked(s),
                                     extra |-> x]]
      BY DEF DispatchRead, Start
    <3>2. u # t
      BY <1>1, <1>3, <2>2, <3>1 DEF TypeOK
    <3>3. job'[u] = job[u]
      BY <1>1, <3>1, <3>2 DEF TypeOK
    <3> QED
      BY <2>2, <3>3 DEF Leaving, Running
  <2> QED
    BY <1>3, <2>1, <2>2 DEF Leaving
<1>4. ASSUME NEW p \in Runs, p # s, Alone(p), Leaving(p) PROVE Linked(s) \cap Linked(p) = {}
  <2>1. HasStatus(p, Active)
    BY <1>4, LeavingActive
  <2>2. ASSUME NEW o \in Linked(s), o \in Linked(p) PROVE FALSE
    <3>1. ActiveRuns(o) \subseteq {s}
      BY DEF DispatchRead, OnThisRunOnly
    <3>2. p \in ActiveRuns(o)
      BY <2>1, <2>2 DEF ActiveRuns
    <3> QED
      BY <1>4, <3>1, <3>2
  <2> QED
    BY <2>2
<1>5. CASE r = s
  BY <1>3, <1>4, <1>5
<1>6. CASE q = s
  <2>1. Linked(q) \cap Linked(r) = {}
    BY <1>3, <1>4, <1>6
  <2> QED
    BY <2>1
<1>7. CASE r # s /\ q # s
  BY <1>3, <1>7 DEF RoadsApart
<1> QED
  BY <1>5, <1>6, <1>7

\* Runs that leave stay apart.
LEMMA NextRoads ==
    ASSUME RunInv, StepKept, RoadsApart, Next
    PROVE  RoadsApart'
<1> SUFFICES ASSUME NEW r \in Runs, NEW q \in Runs, r # q, Alone(r)', Alone(q)',
                    Leaving(r)', Leaving(q)'
             PROVE  Linked(r)' \cap Linked(q)' = {}
  BY DEF RoadsApart
<1>1. TypeOK /\ TypeOK' /\ Step /\ Note
  BY DEF StepKept, RunInv, Next
<1>2. Alone(r) /\ Alone(q)
  BY DEF Next, Note, Alone
<1>3. CASE ~\E t \in Requests, s \in Runs, x \in Extras : DispatchRead(t, s, x)
  <2>1. Leaving(r) /\ Leaving(q)
    BY <1>1, <1>2, <1>3, NoneSent
  <2>2. Linked(r) \cap Linked(q) = {}
    BY <1>2, <2>1 DEF RoadsApart
  <2>3. run[r] # None /\ run[q] # None
    BY <2>1, LeavingActive
  <2> QED
    BY <2>2, <2>3 DEF StepKept
<1>4. ASSUME NEW t \in Requests, NEW s \in Runs, NEW x \in Extras, DispatchRead(t, s, x)
      PROVE  Linked(r)' \cap Linked(q)' = {}
  <2>1. Linked(r) \cap Linked(q) = {}
    BY <1>1, <1>2, <1>4, SentApart
  <2>2. Linked(r)' = Linked(r) /\ Linked(q)' = Linked(q)
    BY <1>4 DEF DispatchRead, Linked
  <2> QED
    BY <2>1, <2>2
<1> QED
  BY <1>3, <1>4

-----------------------------------------------------------------------------
(* The theorems *)

\* At first nothing is planned, loaded or held.
LEMMA InitKeeps ==
    ASSUME Init
    PROVE  RunInv /\ StockFit /\ RoadsApart
<1>1. TypeOK
  BY RunAssumption DEF Init, TypeOK, OrderRows
<1>2. \A t \in Requests : job[t] = None
  BY DEF Init
<1>3. Single
  BY <1>2 DEF Single, Handling
<1>4. \A r \in Runs : run[r] = None /\ Linked(r) = {} /\ Failed(r) = {}
  <2>1. \A r \in Runs : run[r] = None /\ Linked(r) = {}
    BY DEF Init, Linked
  <2> QED
    BY <2>1 DEF Failed
<1>5. \A r \in Runs : Blank(r)
  BY <1>4 DEF Init, Blank
<1>6. \A r \in Runs : RunFit(r)
  BY <1>4 DEF RunFit
<1>7. ASSUME NEW o \in Orders PROVE OrderFit(o)
  <2>1. ActiveRuns(o) = {} /\ Carriers(o) = {} /\ Pending(o) = {}
    BY <1>4 DEF ActiveRuns, Carriers, Pending
  <2>2. ~order[o].dispatched
    BY DEF Init
  <2> QED
    BY <2>1, <2>2 DEF OrderFit
<1>8. \A t \in Requests, j \in Jobs : ~(job[t] = j)
  BY <1>2, RowsKnown
<1>9. RunInv
  BY <1>1, <1>3, <1>5, <1>6, <1>7, <1>8 DEF RunInv
<1>10. \A c \in Cells : stock[c] >= 0
  BY RunAssumption DEF Init
<1>11. RoadsApart
  BY <1>4 DEF RoadsApart
<1> QED
  BY <1>8, <1>9, <1>10, <1>11 DEF StockFit

\* Every step keeps what holds of the orders and the runs, and edits nothing
\* that was submitted.
LEMMA NextKeeps ==
    ASSUME RunInv, Next
    PROVE  StepKept
<1>1. Note
  BY DEF Next
<1>2. ASSUME NEW r \in Runs, NewRun(r) PROVE StepKept
  BY <1>1, <1>2, NewRunKeeps
<1>3. ASSUME NEW t \in Requests, NEW S \in SUBSET Orders, CreateRead(t, S) PROVE StepKept
  BY <1>1, <1>3, CreateReadKeeps
<1>4. ASSUME NEW t \in Requests, NEW r \in Runs, Create(t, r) PROVE StepKept
  BY <1>1, <1>4, CreateKeeps
<1>5. ASSUME NEW t \in Requests, CreateFails(t) PROVE StepKept
  BY <1>1, <1>5, CreateFailsKeeps
<1>6. ASSUME NEW t \in Requests, NEW o \in Orders, NEW r \in Runs, CancelRead(t, o, r)
      PROVE StepKept
  BY <1>1, <1>6, CancelReadKeeps
<1>7. ASSUME NEW t \in Requests, Cancel(t) PROVE StepKept
  BY <1>1, <1>7, CancelKeeps
<1>8. ASSUME NEW t \in Requests, NEW r \in Runs, NEW o \in Orders, ReleaseRead(t, r, o)
      PROVE StepKept
  BY <1>1, <1>8, ReleaseReadKeeps
<1>9. ASSUME NEW t \in Requests, Release(t) PROVE StepKept
  BY <1>1, <1>9, ReleaseKeeps
<1>10. ASSUME NEW t \in Requests, NEW r \in Runs, NEW x \in Extras, SaveLoadoutRead(t, r, x)
       PROVE StepKept
  BY <1>1, <1>10, SaveLoadoutReadKeeps
<1>11. ASSUME NEW t \in Requests, SaveLoadout(t) PROVE StepKept
  BY <1>1, <1>11, SaveLoadoutKeeps
<1>12. ASSUME NEW t \in Requests, NEW r \in Runs, NEW x \in Extras, DispatchRead(t, r, x)
       PROVE StepKept
  BY <1>1, <1>12, DispatchReadKeeps
<1>13. ASSUME NEW t \in Requests, Dispatch(t) PROVE StepKept
  BY <1>1, <1>13, DispatchKeeps
<1>14. ASSUME NEW t \in Requests, NEW r \in Runs, NEW cellOf \in [Orders -> Cells],
              RevertRead(t, r, cellOf)
       PROVE StepKept
  BY <1>1, <1>14, RevertReadKeeps
<1>15. ASSUME NEW t \in Requests, Revert(t) PROVE StepKept
  BY <1>1, <1>15, RevertKeeps
<1>16. ASSUME NEW t \in Requests, NEW r \in Runs, NEW submit \in BOOLEAN,
              NEW fails \in SUBSET Orders, NEW sales \in Sales,
              CheckinRead(t, r, submit, fails, sales)
       PROVE StepKept
  BY <1>1, <1>16, CheckinReadKeeps
<1>17. ASSUME NEW t \in Requests, Checkin(t) PROVE StepKept
  BY <1>1, <1>17, CheckinKeeps
<1>18. ASSUME NEW t \in Requests, NEW r \in Runs, NEW lost \in BOOLEAN, RemitRead(t, r, lost)
       PROVE StepKept
  BY <1>1, <1>18, RemitReadKeeps
<1>19. ASSUME NEW t \in Requests, RemitCheck(t) PROVE StepKept
  BY <1>1, <1>19, RemitCheckKeeps
<1>20. ASSUME NEW t \in Requests, RemitPost(t) PROVE StepKept
  BY <1>1, <1>20, RemitPostKeeps
<1>21. ASSUME Elsewhere PROVE StepKept
  BY <1>1, <1>21, ElsewhereKeeps
<1> QED
  BY <1>2, <1>3, <1>4, <1>5, <1>6, <1>7, <1>8, <1>9, <1>10, <1>11, <1>12, <1>13, <1>14,
     <1>15, <1>16, <1>17, <1>18, <1>19, <1>20, <1>21 DEF Next, Step

\* And of the stock.
LEMMA NextStock ==
    ASSUME RunInv, RunInv', StockFit, Next
    PROVE  StockFit'
<1>1. TypeOK /\ TypeOK' /\ Step /\ Note
  BY DEF RunInv, Next
<1>2. ASSUME NEW t \in Requests, NEW r \in Runs, NEW x \in Extras, DispatchRead(t, r, x)
      PROVE  StockFit'
  <2>1. UNCHANGED stock
    BY <1>2 DEF DispatchRead
  <2> QED
    BY <1>1, <1>2, <2>1, StockStays, DispatchReadTakes, RisingKeeps
<1>3. ASSUME NEW t \in Requests, NEW n \in Opens, OpenRead(t, n)
      PROVE  StockFit'
  <2>1. UNCHANGED stock
    BY <1>3 DEF OpenRead
  <2>2. CASE Alone("stock")
    BY <1>1, <1>3, <2>1, <2>2, StockStays, OpenReadTakes, RisingKeeps
  <2>3. CASE ~Alone("stock")
    BY <1>1, <2>3 DEF Note, Alone, StockFit
  <2> QED
    BY <2>2, <2>3
<1>4. ASSUME ~\E t \in Requests, r \in Runs, x \in Extras : DispatchRead(t, r, x),
             ~\E t \in Requests, n \in Opens : OpenRead(t, n)
      PROVE  StockFit'
  <2>1. TakersKnown
    BY <1>1, <1>4, TakersStay DEF TakersKnown
  <2>2. ASSUME NEW t \in Requests, Dispatch(t) PROVE StockFit'
    BY <1>1, <2>1, <2>2, DispatchStock, FitStays
  <2>3. ASSUME NEW t \in Requests, Open(t) PROVE StockFit'
    BY <1>1, <2>1, <2>3, OpenStock, FitStays
  <2>4. ASSUME \/ \E d \in CounterSales : SellAtCounter(d)
               \/ \E figures \in Figures : SaveProduct(figures)
        PROVE  StockFit'
    <3>1. Alone("stock") => \A c \in Cells : stock'[c] >= 0
      BY <1>1, <2>4, CellsWritten DEF StockFit
    <3> QED
      BY <1>1, <2>1, <3>1, FitStays
  <2>5. ASSUME NEW t \in Requests, Revert(t) PROVE StockFit'
    BY <1>1, <2>1, <2>5, RevertRises, RisingKeeps
  <2>6. ASSUME NEW t \in Requests, RemitPost(t) PROVE StockFit'
    BY <1>1, <2>1, <2>6, RemitPostRises, RisingKeeps
  <2>7. ASSUME UNCHANGED stock PROVE StockFit'
    BY <1>1, <2>1, <2>7, StockStays, RisingKeeps
  <2>8. \/ \E t \in Requests : Dispatch(t) \/ Open(t) \/ Revert(t) \/ RemitPost(t)
        \/ \E d \in CounterSales : SellAtCounter(d)
        \/ \E figures \in Figures : SaveProduct(figures)
        \/ UNCHANGED stock
    BY <1>1 DEF Step, Elsewhere, NewRun, CreateRead, Create, CreateFails, CancelRead,
       Cancel, ReleaseRead, Release, SaveLoadoutRead, SaveLoadout, DispatchRead,
       RevertRead, CheckinRead, Checkin, RemitRead, RemitCheck, OpenRead
  <2> QED
    BY <2>2, <2>3, <2>4, <2>5, <2>6, <2>7, <2>8
<1> QED
  BY <1>2, <1>3, <1>4

\* A step that changes nothing keeps everything.
LEMMA StutterKeeps ==
    ASSUME RunInv, UNCHANGED vars
    PROVE  StepKept
<1>1. /\ \A o \in Orders : SameOrder(o)
      /\ \A r \in Runs : SameRun(r) /\ Blank(r)'
  BY UnchangedSame DEF vars
<1>2. \A x : Alone(x)' <=> Alone(x)
  BY DEF vars, Alone
<1>3. TypeOK'
  BY DEF vars, RunInv, TypeOK
<1>4. Single'
  BY DEF vars, RunInv, Single, Handling, Alone
<1>5. ASSUME NEW t \in Requests, NEW j \in Jobs, job'[t] = j PROVE Sound(j)'
  <2>1. Sound(j)
    BY <1>5 DEF vars, RunInv
  <2>2. JobShape(j)'
    BY <2>1 DEF vars, Sound, JobShape, Linked
  <2>3. \A o \in j.orders : Alone(o)' => OrderJob(j, o)'
    BY <1>1, <1>2, <2>1, JobFields, SameOrderFits DEF Sound
  <2>4. j.op \notin {"create", "open"} /\ Alone(j.run)' => RunJob(j)'
    BY <1>1, <1>2, <2>1, JobFields, SameRunFits DEF Sound
  <2> QED
    BY <2>2, <2>3, <2>4 DEF Sound
<1>6. \A r \in Runs : Alone(r)' => RunFit(r)'
  BY <1>1, <1>2, SameRunFits DEF RunInv
<1>7. \A o \in Orders : Alone(o)' => OrderFit(o)'
  BY <1>1, <1>2, SameOrderFits DEF RunInv
<1>8. RunInv'
  BY <1>1, <1>3, <1>4, <1>5, <1>6, <1>7 DEF RunInv
<1>9. \A r \in Runs : Frozen(r)
  BY <1>1 DEF SameRun, Frozen
<1>10. \A r \in Runs : Linked(r)' = Linked(r)
  BY DEF vars, Linked
<1> QED
  BY <1>8, <1>9, <1>10 DEF StepKept

\* The runs, orders and requests agree in every reachable state, what a request has
\* compared is there unless it was undercut, and runs that leave share no order.
THEOREM RunInvariant == Spec => [](RunInv /\ StockFit /\ RoadsApart)
<1>1. Init => RunInv /\ StockFit /\ RoadsApart
  BY InitKeeps
<1>2. RunInv /\ StockFit /\ RoadsApart /\ [Next]_vars => RunInv' /\ StockFit' /\ RoadsApart'
  <2> SUFFICES ASSUME RunInv, StockFit, RoadsApart, [Next]_vars
               PROVE  RunInv' /\ StockFit' /\ RoadsApart'
    OBVIOUS
  <2>1. CASE Next
    <3>1. StepKept
      BY <2>1, NextKeeps
    <3>2. RunInv'
      BY <3>1 DEF StepKept
    <3>3. StockFit'
      BY <2>1, <3>2, NextStock
    <3>4. RoadsApart'
      BY <2>1, <3>1, NextRoads
    <3> QED
      BY <3>2, <3>3, <3>4
  <2>2. CASE UNCHANGED vars
    <3>1. RunInv'
      BY <2>2, StutterKeeps DEF StepKept
    <3>2. StockFit'
      BY <2>2 DEF vars, StockFit, Alone, InStock, Want, Delta, Units
    <3>3. RoadsApart'
      BY <2>2 DEF vars, RoadsApart, Alone, Leaving, OnRoad, HasStatus, Running, Linked
    <3> QED
      BY <3>1, <3>2, <3>3
  <2> QED
    BY <2>1, <2>2
<1> QED
  BY <1>1, <1>2, PTL DEF Spec

\* The rows have their types.
THEOREM TypeCorrect == Spec => []TypeOK
<1>1. RunInv => TypeOK
  BY DEF RunInv
<1> QED
  BY <1>1, RunInvariant, PTL

\* Of a run whose requests never overlap the goods are accounted for at every
\* stage, and no cell is negative as long as none fell, whoever wrote it, between the
\* reads and the commit of a dispatch or an opening.
THEOREM GoodsAreAccounted == Spec => []GoodsAccounted
<1>1. RunInv /\ StockFit => GoodsAccounted
  <2> SUFFICES ASSUME RunInv, StockFit PROVE GoodsAccounted
    OBVIOUS
  <2>1. ASSUME NEW r \in Runs, run[r] # None, Alone(r)
        PROVE  Out(r) = CASE run[r].status = "PLANNED" -> 0
                          [] run[r].status = "CLOSED" -> Sold(r) + missing[r]
                          [] OTHER -> Loaded(r)
    <3>1. RunFit(r) /\ run[r].status \in Active \cup {"CLOSED"}
      BY <2>1, RowKinds DEF RunInv, RunRows
    <3>2. CASE run[r].status = "PLANNED"
      BY <2>1, <3>1, <3>2 DEF RunFit
    <3>3. CASE run[r].status = "CLOSED"
      BY <2>1, <3>1, <3>3 DEF RunFit
    <3>4. CASE run[r].status \notin {"PLANNED", "CLOSED"}
      BY <2>1, <3>1, <3>4 DEF RunFit, Active, Carrying
    <3> QED
      BY <3>2, <3>3, <3>4
  <2> QED
    BY <2>1 DEF GoodsAccounted, StockFit
<1> QED
  BY <1>1, RunInvariant, PTL

\* A set without two elements counts one at most.
LEMMA OneAtMost ==
    ASSUME NEW S, \A x \in S, y \in S : x = y
    PROVE  Cardinality(S) <= 1
<1>1. CASE S = {}
  BY <1>1, FS_EmptySet
<1>2. CASE S # {}
  <2> PICK x \in S : TRUE
    BY <1>2
  <2>1. S = {x}
    OBVIOUS
  <2> QED
    BY <2>1, FS_Singleton
<1> QED
  BY <1>1, <1>2

\* An order whose requests never overlap is on one active run at most.
THEOREM ActiveRunIsOne == Spec => []OneActiveRun
<1>1. RunInv => OneActiveRun
  BY OneAtMost DEF RunInv, OneActiveRun, OrderFit
<1> QED
  BY <1>1, RunInvariant, PTL

\* Whatever managers assign at the same time, the goods of an order are never out on
\* two runs, each handled by one request at a time.
THEOREM RoadsNeverShared == Spec => []NeverOnTwoRoads
<1>1. RoadsApart => NeverOnTwoRoads
  BY DEF RoadsApart, NeverOnTwoRoads, Leaving
<1> QED
  BY <1>1, RunInvariant, PTL

\* An order whose requests never overlap is marked exactly while one run carries it or delivered it.
THEOREM DispatchIsMarked == Spec => []DispatchedMark
<1>1. RunInv => DispatchedMark
  BY OneAtMost DEF RunInv, DispatchedMark, OrderFit
<1> QED
  BY <1>1, RunInvariant, PTL

\* A failed delivery of it waits for one review, and in the dispatch queue.
THEOREM FailuresReviewed == Spec => []FailedReviewed
<1>1. RunInv => FailedReviewed
  BY OneAtMost DEF RunInv, FailedReviewed, OrderFit
<1> QED
  BY <1>1, RunInvariant, PTL

\* What the rider submitted, or the remit closed, no later step edits while the
\* requests of the run never overlap.
THEOREM SubmittedStays == Spec => SubmittedIsFinal
<1>1. RunInv /\ [Next]_vars =>
        \A r \in Runs : run[r] # None /\ run[r].checkedIn /\ (r \notin contended') =>
          /\ run'[r].checkedIn
          /\ run[r].status = "CLOSED" => run'[r].status = "CLOSED"
          /\ run'[r].extra = run[r].extra
          /\ road'[r] = road[r]
          /\ Failed(r)' = Failed(r)
  <2>1. RunInv /\ [Next]_vars => StepKept
    BY NextKeeps, StutterKeeps
  <2> QED
    BY <2>1 DEF StepKept, Frozen, Alone
<1> QED
  BY <1>1, RunInvariant, PTL DEF Spec, SubmittedIsFinal

=============================================================================
