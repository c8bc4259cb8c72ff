---------------------------- MODULE DeliveryRun ----------------------------
(***************************************************************************)
(* A delivery run and the orders linked to it: assignment from the         *)
(* dispatch queue, the loadout that leaves with the rider, the rider's     *)
(* check-in, the manager's remit that closes the run, the revert of a      *)
(* dispatched run, and the review of a failed delivery.                    *)
(*                                                                         *)
(* Source: app/routes/store.dispatch.tsx, runs.new.tsx,                    *)
(* runs.$id.dispatch.tsx, runs.$id.rider-checkin.tsx, runs.$id.remit.tsx   *)
(* and app/services/delivery-run-assignment.server.ts,                     *)
(* runRecap.server.ts.                                                     *)
(*                                                                         *)
(* Every handler reads and checks first and commits one READ COMMITTED     *)
(* transaction later; what it has read may be stale by then.  All goods    *)
(* are of one product, kept in two cells: whole packs (Product.stock) and  *)
(* loose units (Product.packingStock).  The others that write these cells  *)
(* move them here too: sales at the counter (cashier.$id.tsx), packs       *)
(* opened for retail (products._index.tsx) and the product form            *)
(* (product-upsert-action.server.ts).  Cash, clearance cases and the       *)
(* settlement of the orders after the run is closed are left out: whether  *)
(* a submit passes the clearance gate is a free choice here.               *)
(***************************************************************************)
EXTENDS Integers, FiniteSets, Functions

CONSTANTS
    Runs,           \* ids of DeliveryRun rows that may be created
    Orders,         \* DELIVERY orders a customer placed
    Requests,       \* requests the server handles at the same time
    UnitKind,       \* per order, the cell its line is taken from
    Qty,            \* per order, the quantity of its line
    Inferred,       \* per order, the cells a comparison of its frozen price
                    \* with the live prices of the product may point to
    PartlyPaid,     \* the orders that are PARTIALLY_PAID
    Extras,         \* extra packs a manager may load
    Sales,          \* packs a rider may report sold on the road
    InitialStock,   \* units in a cell at first
    CounterSales,   \* units of the cells a sale at the counter may take
    Opens,          \* packs an admin may open at once
    PackSize,       \* loose units in a pack
    Figures,        \* what an admin may write into the product form
    None

Cells == {"PACK", "RETAIL"}

ASSUME RunAssumption ==
    /\ UnitKind \in [Orders -> Cells]
    /\ Qty \in [Orders -> Nat \ {0}]
    /\ Inferred \in [Orders -> SUBSET Cells]
    /\ \A o \in Orders : Inferred[o] # {}
    /\ PartlyPaid \subseteq Orders
    /\ Extras \subseteq Nat /\ Sales \subseteq Nat
    /\ InitialStock \in [Cells -> Nat]
    /\ CounterSales \subseteq [Cells -> Nat] /\ Figures \subseteq [Cells -> Nat]
    /\ Opens \subseteq Nat /\ PackSize \in Nat
    /\ IsFiniteSet(Orders) /\ IsFiniteSet(Requests)

VARIABLES
    run,        \* DeliveryRun rows, None until created
    link,       \* DeliveryRunOrder rows, per run and order, or None
    order,      \* Order rows
    road,       \* per run, units on its ROAD receipts
    posted,     \* runs whose ROAD receipts have become RS orders
    returned,   \* runs with RETURN_IN stock movements
    missing,    \* per run, units charged to the rider by its variance rows
    stock,      \* units in a cell
    job,        \* what a request has read and is about to commit, or None
    away,       \* history: per run, units of a cell taken out and not put back
    contended   \* history: runs and orders two requests ever handled at once, and
                \* "stock" once a cell fell below what a request had read of it

vars == <<run, link, order, road, posted, returned, missing, stock, job, away,
          contended>>

-----------------------------------------------------------------------------
(* Rows and what the handlers read from them *)

Active == {"PLANNED", "DISPATCHED", "CHECKED_IN"}

RunRows == [status : Active \cup {"CLOSED"}, checkedIn : BOOLEAN, extra : Nat]

\* failed: attemptOutcome is one of the two NO_RELEASE values, which no handler
\* tells apart; final: attemptFinalizedAt is set.
LinkRows == [failed : BOOLEAN, final : BOOLEAN]

OrderRows == [cancelled : BOOLEAN, dispatched : BOOLEAN]

HasStatus(r, S) == run[r] # None /\ run[r].status \in S

Linked(r) == {o \in Orders : link[r][o] # None}

Failed(r) == {o \in Linked(r) : link[r][o].failed}

\* loadActiveDeliveryRunLinksByOrderIds
ActiveRuns(o) == {r \in Runs : o \in Linked(r) /\ HasStatus(r, Active)}

\* loadPendingFailedDeliveryLinks
Pending(o) == {r \in Runs : o \in Failed(r) /\ ~link[r][o].final}

\* Mutant: the queue does not look for an active run.
QueuedAnywhere(o) == ~order[o].cancelled /\ ~order[o].dispatched

\* Orders store.dispatch accepts: open, not dispatched, on no active run.
Queued(o) ==
    ~order[o].cancelled /\ ~order[o].dispatched /\ ActiveRuns(o) = {}

Units(S) == SumFunctionOnSet(Qty, S)

\* loadRunRecap, which adds quantities of a product whatever their unit kind
Loaded(r) == run[r].extra + Units(Linked(r))

Sold(r) == road[r] + Units(Linked(r) \ Failed(r))

\* The deltas of dispatch and of revert, which place each order in a cell.
Delta(S, extra, cellOf) ==
    [c \in Cells |-> Units({o \in S : cellOf[o] = c})
                     + IF c = "PACK" THEN extra ELSE 0]

Jobs ==
    [op : {"create"}, run : {None}, orders : SUBSET Orders]
    \cup [op : {"open"}, run : {None}, orders : {{}}, packs : Opens]
    \cup [op : {"release", "cancel"}, run : Runs, orders : SUBSET Orders]
    \cup [op : {"save"}, run : Runs, orders : {{}}, extra : Nat]
    \cup [op : {"dispatch"}, run : Runs, orders : SUBSET Orders, extra : Nat]
    \cup [op : {"revert"}, run : Runs, orders : SUBSET Orders, extra : Nat,
          cellOf : [Orders -> Cells]]
    \cup [op : {"checkin"}, run : Runs, orders : SUBSET Orders,
          status : Active, submit : BOOLEAN, failed : SUBSET Orders, road : Nat]
    \cup [op : {"remit"}, run : Runs, orders : SUBSET Orders,
          failed : SUBSET Orders, unsold : Nat, lost : BOOLEAN, road : Nat]
    \cup [op : {"post"}, run : Runs, orders : SUBSET Orders,
          failed : SUBSET Orders, unsold : Nat, lost : BOOLEAN, road : Nat,
          known : BOOLEAN, moved : BOOLEAN]

ASSUME NoneAssumption == None \notin Runs \cup RunRows \cup LinkRows \cup Jobs

Start(t, j) ==
    /\ job[t] = None
    /\ job' = [job EXCEPT ![t] = j]

Running(t, op) == job[t] # None /\ job[t].op = op

Finish(t) == job' = [job EXCEPT ![t] = None]

Handling(x) ==
    {t \in Requests : job[t] # None /\ (x = job[t].run \/ x \in job[t].orders)}

\* The requests that have compared the cells and are about to take from them.
Takers == {t \in Requests : Running(t, "dispatch") \/ Running(t, "open")}

\* No two requests ever handled x at the same time.
Alone(x) == x \notin contended

-----------------------------------------------------------------------------
Init ==
    /\ run = [r \in Runs |-> None]
    /\ link = [r \in Runs |-> [o \in Orders |-> None]]
    /\ order = [o \in Orders |-> [cancelled |-> FALSE, dispatched |-> FALSE]]
    /\ road = [r \in Runs |-> 0]
    /\ posted = {}
    /\ returned = {}
    /\ missing = [r \in Runs |-> 0]
    /\ stock = InitialStock
    /\ job = [t \in Requests |-> None]
    /\ away = [r \in Runs |-> [c \in Cells |-> 0]]
    /\ contended = {}

Planned == [status |-> "PLANNED", checkedIn |-> FALSE, extra |-> 0]

-----------------------------------------------------------------------------
(* The dispatch queue *)

\* Create an empty run: one insert.
NewRun(r) ==
    /\ run[r] = None
    /\ run' = [run EXCEPT ![r] = Planned]
    /\ UNCHANGED <<link, order, road, posted, returned, missing, stock, job, away>>

CreateRead(t, S) ==
    /\ S # {}
    /\ \A o \in S : Queued(o)
    /\ Start(t, [op |-> "create", run |-> None, orders |-> S])
    /\ UNCHANGED <<run, link, order, road, posted, returned, missing, stock, away>>

\* Mutant: the outcome is written and the review left open.
Unreviewed == [failed |-> TRUE, final |-> FALSE]

\* The link of a failed attempt the manager has reviewed.
Reviewed == [failed |-> TRUE, final |-> TRUE]

\* Links the orders to a new run and closes the review of the latest failed
\* attempt of each; of links reported at the same time any may be the latest.
Create(t, r) ==
    /\ Running(t, "create")
    /\ run[r] = None
    /\ run' = [run EXCEPT ![r] = Planned]
    /\ \E latest \in [job[t].orders -> Runs \cup {None}] :
         /\ \A o \in job[t].orders :
              IF Pending(o) = {} THEN latest[o] = None ELSE latest[o] \in Pending(o)
         /\ link' = [q \in Runs |-> [o \in Orders |->
              IF o \notin job[t].orders THEN link[q][o]
              ELSE IF q = r THEN [failed |-> FALSE, final |-> FALSE]
              ELSE IF q = latest[o] THEN Reviewed
              ELSE link[q][o]]]
    /\ Finish(t)
    /\ UNCHANGED <<order, road, posted, returned, missing, stock, away>>

\* No unused run code was found, or the transaction failed.
CreateFails(t) ==
    /\ Running(t, "create")
    /\ Finish(t)
    /\ UNCHANGED <<run, link, order, road, posted, returned, missing, stock, away>>

CancelRead(t, o, r) ==
    /\ Queued(o)
    /\ o \notin PartlyPaid
    /\ r \in Pending(o)
    /\ Start(t, [op |-> "cancel", run |-> r, orders |-> {o}])
    /\ UNCHANGED <<run, link, order, road, posted, returned, missing, stock, away>>

\* The update of the link fails, and the transaction with it, once it is gone.
Cancel(t) ==
    /\ Running(t, "cancel")
    /\ LET r == job[t].run  S == job[t].orders IN
         IF S \subseteq Linked(r)
         THEN /\ order' = [o \in Orders |->
                    IF o \in S THEN [cancelled |-> TRUE, dispatched |-> FALSE]
                    ELSE order[o]]
              /\ link' = [link EXCEPT ![r] = [o \in Orders |->
                    IF o \in S THEN Reviewed
                    ELSE link[r][o]]]
         ELSE UNCHANGED <<order, link>>
    /\ Finish(t)
    /\ UNCHANGED <<run, road, posted, returned, missing, stock, away>>

-----------------------------------------------------------------------------
(* Staging a PLANNED run *)

ReleaseRead(t, r, o) ==
    /\ HasStatus(r, {"PLANNED"})
    /\ o \in Linked(r)
    /\ ~order[o].dispatched
    /\ Start(t, [op |-> "release", run |-> r, orders |-> {o}])
    /\ UNCHANGED <<run, link, order, road, posted, returned, missing, stock, away>>

Release(t) ==
    /\ Running(t, "release")
    /\ link' = [link EXCEPT ![job[t].run] = [o \in Orders |->
                  IF o \in job[t].orders THEN None ELSE @[o]]]
    /\ Finish(t)
    /\ UNCHANGED <<run, order, road, posted, returned, missing, stock, away>>

SaveLoadoutRead(t, r, x) ==
    /\ HasStatus(r, {"PLANNED"})
    /\ Start(t, [op |-> "save", run |-> r, orders |-> {}, extra |-> x])
    /\ UNCHANGED <<run, link, order, road, posted, returned, missing, stock, away>>

SaveLoadout(t) ==
    /\ Running(t, "save")
    /\ run' = [run EXCEPT ![job[t].run].extra = job[t].extra]
    /\ Finish(t)
    /\ UNCHANGED <<link, order, road, posted, returned, missing, stock, away>>

-----------------------------------------------------------------------------
(* Dispatch and its revert *)

\* The final stock validation of dispatch.
InStock(d) == \A c \in Cells : d[c] <= stock[c]

\* Mutant: dispatch trusts the assignment of its orders.
OnAnyRun(r) == TRUE

\* Dispatch refuses orders that are on another active run.
OnThisRunOnly(r) == \A o \in Linked(r) : ActiveRuns(o) \subseteq {r}

DispatchRead(t, r, x) ==
    /\ HasStatus(r, {"PLANNED"})
    /\ OnThisRunOnly(r)
    /\ Units(Linked(r)) + x > 0
    /\ InStock(Delta(Linked(r), x, UnitKind))
    /\ Start(t, [op |-> "dispatch", run |-> r, orders |-> Linked(r), extra |-> x])
    /\ UNCHANGED <<run, link, order, road, posted, returned, missing, stock, away>>

\* Moves d out of the cells and onto the run.
Load(r, d) ==
    /\ stock' = [c \in Cells |-> stock[c] - d[c]]
    /\ away' = [away EXCEPT ![r] = [c \in Cells |-> @[c] + d[c]]]

Unload(r, d) == Load(r, [c \in Cells |-> 0 - d[c]])

\* Mutant: dispatchedAt is stamped and never cleared.
MarkForGood(S, dispatched) ==
    order' = [o \in Orders |->
                IF o \in S /\ dispatched THEN [order[o] EXCEPT !.dispatched = TRUE]
                ELSE order[o]]

Mark(S, dispatched) ==
    order' = [o \in Orders |->
                IF o \in S THEN [order[o] EXCEPT !.dispatched = dispatched]
                ELSE order[o]]

\* The decrements ask for nothing: what was read may no longer be in stock.
Dispatch(t) ==
    /\ Running(t, "dispatch")
    /\ Load(job[t].run, Delta(job[t].orders, job[t].extra, UnitKind))
    /\ run' = [run EXCEPT ![job[t].run] =
                 [status |-> "DISPATCHED", checkedIn |-> FALSE,
                  extra |-> job[t].extra]]
    /\ Mark(job[t].orders, TRUE)
    /\ Finish(t)
    /\ UNCHANGED <<link, road, posted, returned, missing>>

\* Revert does not read the stored unit kind: it infers the cell of each line.
RevertRead(t, r, cellOf) ==
    /\ HasStatus(r, {"DISPATCHED"})
    /\ \A o \in Orders : cellOf[o] \in IF o \in Linked(r) THEN Inferred[o]
                                       ELSE {UnitKind[o]}
    /\ Start(t, [op |-> "revert", run |-> r, orders |-> Linked(r),
                 extra |-> run[r].extra, cellOf |-> cellOf])
    /\ UNCHANGED <<run, link, order, road, posted, returned, missing, stock, away>>

\* The receipts and the variance rows of the run are deleted; what the rider
\* reported of an attempt stays on the link.
Revert(t) ==
    /\ Running(t, "revert")
    /\ LET r == job[t].run IN
         /\ Unload(r, Delta(job[t].orders, job[t].extra, job[t].cellOf))
         /\ road' = [road EXCEPT ![r] = 0]
         /\ posted' = posted \ {r}
         /\ missing' = [missing EXCEPT ![r] = 0]
         /\ Mark(job[t].orders, FALSE)
         /\ run' = [run EXCEPT ![r].status = "PLANNED", ![r].checkedIn = FALSE]
    /\ Finish(t)
    /\ UNCHANGED <<link, returned>>

-----------------------------------------------------------------------------
(* The rider's check-in *)

\* Mutant: the lock of a submitted check-in is forgotten.
EditableAlways(r) == HasStatus(r, {"DISPATCHED", "CHECKED_IN"})

Editable(r) ==
    /\ HasStatus(r, {"DISPATCHED", "CHECKED_IN"})
    /\ ~(run[r].status = "CHECKED_IN" /\ run[r].checkedIn)

CheckinRead(t, r, submit, failed, sales) ==
    /\ Editable(r)
    /\ failed \subseteq Linked(r)
    /\ Start(t, [op |-> "checkin", run |-> r, orders |-> Linked(r),
                 status |-> IF submit THEN "CHECKED_IN" ELSE run[r].status,
                 submit |-> submit, failed |-> failed, road |-> sales])
    /\ UNCHANGED <<run, link, order, road, posted, returned, missing, stock, away>>

\* Receipts that are no longer posted are deleted, unless nothing is posted.
KeepsReceipts(j) == j.road = 0 /\ j.orders = {}

\* A draft writes back the status that was read.
Checkin(t) ==
    /\ Running(t, "checkin")
    /\ LET j == job[t]  r == job[t].run IN
         IF j.orders \subseteq Linked(r)
         THEN /\ run' = [run EXCEPT ![r].status = j.status,
                                    ![r].checkedIn = @ \/ j.submit]
              /\ link' = [link EXCEPT ![r] = [o \in Orders |->
                    IF o \in j.orders
                    THEN [failed |-> o \in j.failed, final |-> FALSE]
                    ELSE link[r][o]]]
              /\ road' = IF KeepsReceipts(j) THEN road
                         ELSE [road EXCEPT ![r] = j.road]
              /\ posted' = IF j.road = 0 /\ ~KeepsReceipts(j) THEN posted \ {r}
                           ELSE posted
         ELSE UNCHANGED <<run, link, road, posted>>
    /\ Finish(t)
    /\ UNCHANGED <<order, returned, missing, stock, away>>

-----------------------------------------------------------------------------
(* The manager's remit *)

\* Mutant: the remit takes the sales as they were submitted.
OversoldToo(r) == TRUE

\* The guard "sold <= loaded", on the totals of the recap.
NotOversold(r) == Sold(r) <= Loaded(r)

RemitRead(t, r, lost) ==
    /\ HasStatus(r, {"CHECKED_IN"})
    /\ NotOversold(r)
    /\ lost => Sold(r) < Loaded(r)
    /\ Start(t, [op |-> "remit", run |-> r, orders |-> Linked(r),
                 failed |-> Failed(r), unsold |-> Loaded(r) - Sold(r),
                 lost |-> lost, road |-> road[r]])
    /\ UNCHANGED <<run, link, order, road, posted, returned, missing, stock, away>>

\* Inside the transaction the status is read again, and whether the RS orders
\* and the returns are there already.
RemitCheck(t) ==
    /\ Running(t, "remit")
    /\ LET j == job[t] IN
         IF HasStatus(j.run, {"CHECKED_IN"})
         THEN job' = [job EXCEPT ![t] =
                [op |-> "post", run |-> j.run, orders |-> j.orders,
                 failed |-> j.failed, unsold |-> j.unsold, lost |-> j.lost,
                 road |-> j.road, known |-> j.run \in posted,
                 moved |-> j.run \in returned]]
         ELSE Finish(t)
    /\ UNCHANGED <<run, link, order, road, posted, returned, missing, stock, away>>

\* Mutant: goods marked missing are returned to stock too.
PutBackAll(j) ==
    LET back == IF j.moved THEN 0 ELSE j.unsold IN
      /\ Unload(j.run, [c \in Cells |-> IF c = "PACK" THEN back ELSE 0])
      /\ returned' = IF back > 0 THEN returned \cup {j.run} ELSE returned

\* Unsold goods go back to the pack cell, whichever cell they were taken from.
PutBack(j) ==
    LET back == IF j.lost \/ j.moved THEN 0 ELSE j.unsold IN
      /\ Unload(j.run, [c \in Cells |-> IF c = "PACK" THEN back ELSE 0])
      /\ returned' = IF back > 0 THEN returned \cup {j.run} ELSE returned

\* An RS order another remit has created meanwhile has the same unique code.
Clashes(j) == j.road > 0 /\ ~j.known /\ j.run \in posted

RemitPost(t) ==
    /\ Running(t, "post")
    /\ LET j == job[t] IN
         IF Clashes(j)
         THEN UNCHANGED <<run, order, posted, returned, missing, stock, away>>
         ELSE /\ posted' = IF j.road > 0 THEN posted \cup {j.run} ELSE posted
              /\ PutBack(j)
              /\ missing' = [missing EXCEPT ![j.run] =
                               @ + IF j.lost THEN j.unsold ELSE 0]
              /\ Mark(j.failed, FALSE)
              /\ run' = [run EXCEPT ![j.run].status = "CLOSED"]
    /\ Finish(t)
    /\ UNCHANGED <<link, road>>

-----------------------------------------------------------------------------
(* Others that write the cells *)

\* The settlement of a slip compares and decrements in one update.
SellAtCounter(d) ==
    /\ InStock(d)
    /\ stock' = [c \in Cells |-> stock[c] - d[c]]
    /\ UNCHANGED <<run, link, order, road, posted, returned, missing, job, away>>

OpenRead(t, n) ==
    /\ n <= stock["PACK"]
    /\ Start(t, [op |-> "open", run |-> None, orders |-> {}, packs |-> n])
    /\ UNCHANGED <<run, link, order, road, posted, returned, missing, stock, away>>

\* The update looks at nothing again.
Open(t) ==
    /\ Running(t, "open")
    /\ stock' = [stock EXCEPT !["PACK"] = @ - job[t].packs,
                              !["RETAIL"] = @ + job[t].packs * PackSize]
    /\ Finish(t)
    /\ UNCHANGED <<run, link, order, road, posted, returned, missing, away>>

\* The form overwrites both cells, whatever they hold by now.
SaveProduct(figures) ==
    /\ stock' = figures
    /\ UNCHANGED <<run, link, order, road, posted, returned, missing, job, away>>

Elsewhere ==
    \/ \E d \in CounterSales : SellAtCounter(d)
    \/ \E t \in Requests, n \in Opens : OpenRead(t, n)
    \/ \E t \in Requests : Open(t)
    \/ \E figures \in Figures : SaveProduct(figures)

-----------------------------------------------------------------------------
Step ==
    \/ \E r \in Runs : NewRun(r)
    \/ \E t \in Requests, S \in SUBSET Orders : CreateRead(t, S)
    \/ \E t \in Requests, r \in Runs : Create(t, r)
    \/ \E t \in Requests : CreateFails(t)
    \/ \E t \in Requests, o \in Orders, r \in Runs : CancelRead(t, o, r)
    \/ \E t \in Requests : Cancel(t)
    \/ \E t \in Requests, r \in Runs, o \in Orders : ReleaseRead(t, r, o)
    \/ \E t \in Requests : Release(t)
    \/ \E t \in Requests, r \in Runs, x \in Extras : SaveLoadoutRead(t, r, x)
    \/ \E t \in Requests : SaveLoadout(t)
    \/ \E t \in Requests, r \in Runs, x \in Extras : DispatchRead(t, r, x)
    \/ \E t \in Requests : Dispatch(t)
    \/ \E t \in Requests, r \in Runs, cellOf \in [Orders -> Cells] :
         RevertRead(t, r, cellOf)
    \/ \E t \in Requests : Revert(t)
    \/ \E t \in Requests, r \in Runs, submit \in BOOLEAN,
          failed \in SUBSET Orders, sales \in Sales :
         CheckinRead(t, r, submit, failed, sales)
    \/ \E t \in Requests : Checkin(t)
    \/ \E t \in Requests, r \in Runs, lost \in BOOLEAN : RemitRead(t, r, lost)
    \/ \E t \in Requests : RemitCheck(t)
    \/ \E t \in Requests : RemitPost(t)
    \/ Elsewhere

\* A cell falls under a request that has compared it.
Undercut == Takers' # {} /\ \E c \in Cells : stock'[c] < stock[c]

Note ==
    contended' = contended
        \cup {x \in Runs \cup Orders : Cardinality(Handling(x)') > 1}
        \cup {x \in {"stock"} : Undercut}

Next == Step /\ Note

Spec == Init /\ [][Next]_vars

-----------------------------------------------------------------------------
(* Properties *)

\* The rows have their types; only the history variable away and the cells,
\* which a dispatch or an opening overdraws when they fell since it read them, may
\* be negative.
TypeOK ==
    /\ run \in [Runs -> RunRows \cup {None}]
    /\ link \in [Runs -> [Orders -> LinkRows \cup {None}]]
    /\ order \in [Orders -> OrderRows]
    /\ road \in [Runs -> Nat]
    /\ posted \subseteq Runs /\ returned \subseteq Runs
    /\ missing \in [Runs -> Nat]
    /\ stock \in [Cells -> Int]
    /\ job \in [Requests -> Jobs \cup {None}]
    /\ away \in [Runs -> [Cells -> Int]]
    /\ contended \subseteq Runs \cup Orders \cup {"stock"}

Out(r) == away[r]["PACK"] + away[r]["RETAIL"]

\* Of a run whose requests never overlap the goods are accounted for at every
\* stage: nothing is out while it is planned, again after a revert; what the
\* recap calls loaded is out while it is on the road; once it is closed what
\* is out was sold or is charged to the rider.  And no cell is negative as long as
\* none fell, by a dispatch, a sale at the counter, an opening or a saved form,
\* between the reads and the commit of a dispatch or an opening.
GoodsAccounted ==
    /\ \A r \in Runs : run[r] # None /\ Alone(r) =>
          Out(r) = CASE run[r].status = "PLANNED" -> 0
                     [] run[r].status = "CLOSED" -> Sold(r) + missing[r]
                     [] OTHER -> Loaded(r)
    /\ Alone("stock") => \A c \in Cells : stock[c] >= 0

\* An order whose requests never overlap is on one active run at most, and on
\* none once it is cancelled.
OneActiveRun ==
    \A o \in Orders : Alone(o) =>
        /\ Cardinality(ActiveRuns(o)) <= 1
        /\ order[o].cancelled => ActiveRuns(o) = {}

\* The runs that have the goods of an order, or have delivered them.
Carriers(o) ==
    {r \in Runs : /\ o \in Linked(r)
                  /\ \/ HasStatus(r, {"DISPATCHED", "CHECKED_IN"})
                     \/ HasStatus(r, {"CLOSED"}) /\ o \notin Failed(r)}

OnRoad(r) == HasStatus(r, {"DISPATCHED", "CHECKED_IN"})

\* Even when two managers have put an order on two runs at the same time, its goods
\* are never out on both: dispatch looks again for another active run, and that is
\* enough for two runs of which each is handled by one request at a time.
NeverOnTwoRoads ==
    \A r, q \in Runs :
        r # q /\ Alone(r) /\ Alone(q) /\ OnRoad(r) /\ OnRoad(q)
            => Linked(r) \cap Linked(q) = {}

\* dispatchedAt, which keeps an order out of the queue, is set exactly while
\* one run carries the order or has delivered it: an order whose requests never
\* overlap is delivered once.
DispatchedMark ==
    \A o \in Orders : Alone(o) =>
        /\ order[o].dispatched <=> Carriers(o) # {}
        /\ Cardinality(Carriers(o)) <= 1

\* A failed delivery of a closed run that nobody reviewed leaves the order in
\* the dispatch queue, with one attempt to review, if no requests overlap at it.
FailedReviewed ==
    \A o \in Orders : Alone(o) =>
        /\ Cardinality(Pending(o)) <= 1
        /\ \A r \in Pending(o) : HasStatus(r, {"CLOSED"}) => Queued(o)

\* What the rider submitted, or the remit closed, is what stays: of a run
\* whose requests never overlap no later step edits the road sales, the failed
\* deliveries or the loadout, and the run is not reopened.
SubmittedIsFinal ==
    [][\A r \in Runs : run[r] # None /\ run[r].checkedIn /\ (r \notin contended') =>
         /\ run'[r].checkedIn
         /\ run[r].status = "CLOSED" => run'[r].status = "CLOSED"
         /\ run'[r].extra = run[r].extra
         /\ road'[r] = road[r]
         /\ Failed(r)' = Failed(r)]_vars

\* "Revert must restore ALL inventory deducted during dispatch": of a run whose
\* requests never overlap no cell is short, or over, while the run is planned.
RevertRestoresCells ==
    \A r \in Runs : HasStatus(r, {"PLANNED"}) /\ Alone(r) =>
        \A c \in Cells : away[r][c] = 0

=============================================================================
