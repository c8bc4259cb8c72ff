--------------------------- MODULE ClearanceGate ---------------------------
(***************************************************************************)
(* The rider's check-in of a run, receipt by receipt: what is short of its *)
(* frozen total is sent to the manager for clearance, a rejected slip is   *)
(* paid in full or voided, a failed delivery is reported, and the submit   *)
(* passes only when nothing is pending and every balance has an answer.    *)
(*                                                                         *)
(* Source: app/routes/runs.$id.rider-checkin.tsx,                          *)
(* app/services/riderCheckin.server.ts and                                 *)
(* app/routes/store.clearance_.$caseId.tsx.                                *)
(*                                                                         *)
(* The action reads the status of the run before its transaction opens,    *)
(* and never again.  The rider fills the form on a page loaded earlier:    *)
(* the page locks the slips whose case it knows of, the action does not.   *)
(***************************************************************************)
EXTENDS Integers, FiniteSets

CONSTANTS
    Parents,    \* keys of the receipts of the orders of the run
    Roads,      \* keys of the receipts of sales on the road
    Price,      \* frozen total of a receipt
    Known,      \* the receipts with a customer record
    Rebates,    \* discounts a manager may approve
    Posts,      \* requests the server handles at the same time
    PostsAtOnce,\* bound: the requests in flight at once, by the cases there are
    Nothing

Slips == Parents \cup Roads

ASSUME GateAssumption ==
    /\ Parents \cap Roads = {}
    /\ Price \in [Slips -> Nat \ {0}]
    /\ Known \subseteq Slips
    /\ Rebates \subseteq Nat
    /\ PostsAtOnce \in [SUBSET Slips -> Nat]

VARIABLES
    trip,       \* status of the DeliveryRun
    slip,       \* RunReceipt of a key, or Nothing
    failed,     \* parents whose delivery is reported failed
    claim,      \* ClearanceCase of a key with its last decision, or Nothing
    post,       \* what a request has read and not yet committed, or Nothing
    loose       \* history: keys changed by overlapping requests or a stale page

gateVars == <<trip, slip, failed, claim, post, loose>>

Approvals == {"APPROVE_OPEN_BALANCE", "APPROVE_DISCOUNT_OVERRIDE", "APPROVE_HYBRID"}

SlipRows == [cash : Nat, void : BOOLEAN]

\* Terms of the case as sent, what was granted to the customer as A/R, and the
\* discount approved, over all decisions.
ClaimRows == [status : {"NEEDS_CLEARANCE", "DECIDED"}, owed : Nat,
              kind : Approvals \cup {"REJECT", Nothing}, granted : Nat, off : Nat]

PostRows == [op : {"send", "void"}, key : Slips]
            \cup [op : {"decide"}, key : Slips, owed : Nat]
            \cup [op : {"save"}, seen : SUBSET Slips]

ASSUME NothingAssumption ==
    /\ Nothing \notin SlipRows
    /\ Nothing \notin ClaimRows
    /\ Nothing \notin PostRows
    /\ Nothing \notin Approvals \cup {"REJECT"}

Cased == {k \in Slips : claim[k] # Nothing}

Balance(k, cash) == Price[k] - cash

Posting(t, op) == post[t] # Nothing /\ post[t].op = op

BeginPost(t, p) ==
    /\ post[t] = Nothing
    /\ Cardinality({u \in Posts : post[u] # Nothing}) < PostsAtOnce[Cased]
    /\ post' = [post EXCEPT ![t] = p]

EndPost(t) == post' = [post EXCEPT ![t] = Nothing]

\* The keys a request may change.
Concerns(p) == IF p = Nothing THEN {} ELSE IF p.op = "save" THEN Slips ELSE {p.key}

GateInit ==
    /\ trip = "DISPATCHED"
    /\ slip = [k \in Slips |-> Nothing]
    /\ failed = {}
    /\ claim = [k \in Slips |-> Nothing]
    /\ post = [t \in Posts |-> Nothing]
    /\ loose = {}

\* The page and the action are closed once the check-in is submitted.
EditableTrip == trip = "DISPATCHED"

-----------------------------------------------------------------------------
(* One receipt: sent, decided, voided *)

SendBegin(t, k) ==
    /\ EditableTrip
    /\ BeginPost(t, [op |-> "send", key |-> k])
    /\ UNCHANGED <<trip, slip, failed, claim>>

\* Mutant: a key sent before is sent again, with other terms.
MaySendAgain(k) == TRUE

\* The key of a case is unique: it is sent once.
MaySend(k) == claim[k] = Nothing

Opened(cash, k) ==
    [status |-> "NEEDS_CLEARANCE", owed |-> Balance(k, cash), kind |-> Nothing,
     granted |-> 0, off |-> 0]

Voided(k) == slip[k] # Nothing /\ slip[k].void

\* The row is upserted by its key, and a note that says VOIDED stays.
Written(k, cash) == [cash |-> cash, void |-> Voided(k)]

\* The slip is written with the cash in hand, and the case opened; a report of a
\* failed delivery is not looked at.
Send(t, cash) ==
    LET k == post[t].key IN
    /\ Posting(t, "send")
    /\ cash < Price[k]
    /\ MaySend(k)
    /\ slip' = [slip EXCEPT ![k] = Written(k, cash)]
    /\ claim' = [claim EXCEPT ![k] = Opened(cash, k)]
    /\ EndPost(t)
    /\ UNCHANGED <<trip, failed>>

DecideBegin(t, k) ==
    /\ claim[k] # Nothing
    /\ claim[k].status = "NEEDS_CLEARANCE"
    /\ BeginPost(t, [op |-> "decide", key |-> k, owed |-> claim[k].owed])
    /\ UNCHANGED <<trip, slip, failed, claim>>

KindOf(owed, off) ==
    IF off = 0 THEN "APPROVE_OPEN_BALANCE"
    ELSE IF off = owed THEN "APPROVE_DISCOUNT_OVERRIDE" ELSE "APPROVE_HYBRID"

GrantedAr(owed, off) == owed - off

\* The decision on a case, on top of what was decided before.
Decided(case, kind, ar, off) ==
    [status |-> "DECIDED", owed |-> case.owed, kind |-> kind,
     granted |-> case.granted + ar, off |-> case.off + off]

Approve(t, off) ==
    LET k == post[t].key
        owed == post[t].owed IN
    /\ Posting(t, "decide")
    /\ off <= owed
    /\ owed > off => k \in Known
    /\ claim' = [claim EXCEPT ![k] = Decided(@, KindOf(owed, off), GrantedAr(owed, off), off)]
    /\ EndPost(t)
    /\ UNCHANGED <<trip, slip, failed>>

Reject(t) ==
    /\ Posting(t, "decide")
    /\ claim' = [claim EXCEPT ![post[t].key] = Decided(@, "REJECT", 0, 0)]
    /\ EndPost(t)
    /\ UNCHANGED <<trip, slip, failed>>

VoidBegin(t, k) ==
    /\ EditableTrip
    /\ BeginPost(t, [op |-> "void", key |-> k])
    /\ UNCHANGED <<trip, slip, failed, claim>>

Rejected(k) == claim[k] # Nothing /\ claim[k].kind = "REJECT"

MarkVoid(t) ==
    LET k == post[t].key IN
    /\ Posting(t, "void")
    /\ Rejected(k)
    /\ slip' = [slip EXCEPT ![k] = [cash |-> IF slip[k] = Nothing THEN 0 ELSE slip[k].cash,
                                    void |-> TRUE]]
    /\ EndPost(t)
    /\ UNCHANGED <<trip, failed, claim>>

-----------------------------------------------------------------------------
(* The whole form: draft and submit *)

\* The page knows of some of the cases, or of all when it is fresh.
SaveBegin(t, seen) ==
    /\ EditableTrip
    /\ seen \subseteq Cased
    /\ BeginPost(t, [op |-> "save", seen |-> seen])
    /\ UNCHANGED <<trip, slip, failed, claim>>

\* A slip the page has locked is posted as it is, or paid in full when rejected.
Locked(k, cash) ==
    /\ slip[k] # Nothing
    /\ cash = slip[k].cash \/ (Rejected(k) /\ cash = Price[k])

MayFail(k) == claim[k] = Nothing

\* Mutant: an answer of either kind lets the slip pass.
SettledOnceDecided(k, cash) == Balance(k, cash) = 0 \/ k \in Cased

SettledSlip(k, cash) ==
    \/ Balance(k, cash) = 0
    \/ k \in Cased /\ (Voided(k) \/ claim[k].kind \in Approvals)

\* Only what the form lists is checked slip by slip; a pending case anywhere in
\* the run stops the submit.
GateOpen(listed, cash) ==
    /\ \A k \in Cased : claim[k].status # "NEEDS_CLEARANCE"
    /\ \A k \in listed : SettledSlip(k, cash[k])

\* Slips the form no longer lists are deleted, unless a case refers to them or
\* the form is empty.
Kept(k, listed) == k \in listed \/ k \in Cased \/ listed = {}

\* The submit and the draft write the same rows; a draft writes back the status
\* it read.
Save(t, submit, roads, bad, cash) ==
    LET listed == Parents \cup roads IN
    /\ Posting(t, "save")
    /\ \A k \in post[t].seen : k \in listed \ bad /\ Locked(k, cash[k])
    /\ \A k \in bad : MayFail(k) /\ cash[k] = 0
    /\ submit => GateOpen(listed \ bad, cash)
    /\ slip' = [k \in Slips |->
                  IF k \in listed THEN Written(k, cash[k])
                  ELSE IF Kept(k, listed) THEN slip[k] ELSE Nothing]
    /\ failed' = bad
    /\ trip' = IF submit THEN "CHECKED_IN" ELSE "DISPATCHED"
    /\ EndPost(t)
    /\ UNCHANGED claim

\* A refused request, or one that fails, leaves nothing behind.
DropPost(t) ==
    /\ post[t] # Nothing
    /\ EndPost(t)
    /\ UNCHANGED <<trip, slip, failed, claim>>

GateStep(t) ==
    \/ \E k \in Slips : SendBegin(t, k) \/ DecideBegin(t, k) \/ VoidBegin(t, k)
    \/ \E seen \in SUBSET Slips : SaveBegin(t, seen)
    \/ \E cash \in UNION {0 .. Price[k] : k \in Slips} : Send(t, cash)
    \/ \E off \in Rebates : Approve(t, off)
    \/ Reject(t)
    \/ MarkVoid(t)
    \/ \E submit \in BOOLEAN, roads \in SUBSET Roads, bad \in SUBSET Parents :
          \E cash \in [Slips -> UNION {0 .. Price[k] : k \in Slips}] :
             /\ \A k \in Slips : cash[k] <= IF k \in Parents \cup roads THEN Price[k] ELSE 0
             /\ Save(t, submit, roads, bad, cash)
    \/ DropPost(t)

\* A save that commits from a page that did not know of a case, and requests that
\* had the same key in hand.
Stale(t) == IF Posting(t, "save") /\ post'[t] = Nothing THEN Cased \ post[t].seen ELSE {}

GateNext ==
    \E t \in Posts :
        /\ GateStep(t)
        /\ loose' = loose \cup Stale(t) \cup
              {k \in Slips : \E u \in Posts \ {t} :
                                /\ k \in Concerns(post'[u])
                                /\ k \in Concerns(post'[t]) \cup Concerns(post[t])}

GateSpec == GateInit /\ [][GateNext]_gateVars

-----------------------------------------------------------------------------
(* Properties *)

\* Every variable keeps its shape.
GateTypeOK ==
    /\ trip \in {"DISPATCHED", "CHECKED_IN"}
    /\ slip \in [Slips -> SlipRows \cup {Nothing}]
    /\ failed \in SUBSET Parents
    /\ claim \in [Slips -> ClaimRows \cup {Nothing}]
    /\ post \in [Posts -> PostRows \cup {Nothing}]
    /\ loose \in SUBSET Slips

\* After the submit every peso of a delivered receipt has one answer: cash, or a
\* receivable and a discount of exactly the rest, or a void after a rejection; and
\* for a failed delivery nobody pays or owes.
SubmittedAnswered ==
    trip = "CHECKED_IN" =>
        \A k \in Slips \ loose : slip[k] # Nothing =>
            IF k \in failed THEN slip[k].cash = 0 /\ k \notin Cased
            ELSE \/ slip[k].cash = Price[k] /\ (k \in Cased => Rejected(k))
                 \/ slip[k].void /\ Rejected(k)
                 \/ /\ k \in Cased
                    /\ claim[k].granted + claim[k].off = Balance(k, slip[k].cash)

\* However requests overlap and pages age, a case keeps the terms it was sent
\* with, is never reopened, and its key is never sent again.
CaseIsFinal ==
    [][\A k \in Slips : claim[k] # Nothing =>
          /\ claim'[k] # Nothing
          /\ claim'[k].owed = claim[k].owed
          /\ claim[k].status = "DECIDED" => claim'[k].status = "DECIDED"]_gateVars

=============================================================================
