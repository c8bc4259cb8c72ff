-------------------------- MODULE CustomerPricing --------------------------
(***************************************************************************)
(* The price rules an admin keeps for a customer, the order whose price    *)
(* they fix when it is created, and the quote a rider gets for a sale on   *)
(* the road.                                                               *)
(*                                                                         *)
(* Source: app/routes/customers.$id_.pricing.tsx,                          *)
(* app/routes/customers.$id_.pricing_.$ruleId.tsx,                         *)
(* app/routes/orders.new.tsx, app/routes/api.quote-pricing.tsx and         *)
(* app/services/pricing.ts.                                                *)
(*                                                                         *)
(* A handler reads, checks and writes without a transaction: each is a     *)
(* read and a commit.  One customer is modelled.  Money is counted in      *)
(* cents, quantities in quarters, computed exactly; time in half days, so  *)
(* that a day starts at an even instant and work is done at the odd one.   *)
(***************************************************************************)
EXTENDS Integers, FiniteSets, Functions

CONSTANTS
    Products,   \* the products for sale
    Shelves,    \* what the product form may hold: prices, and stock in quarters
    RuleIds,    \* ids of CustomerItemPrice rows
    TextRank,   \* order of the ids as text
    Forms,      \* what an admin may write: goods, term, first and last day
    LastDay,    \* bound: the clock stops
    Carts,      \* what a customer may order: quarters of the goods
    Tabs,       \* requests the server handles at the same time
    Unset

Goods == Products \X {"PACK", "RETAIL"}

Terms == [mode : {"FIXED_PRICE", "FIXED_DISCOUNT", "PERCENT_DISCOUNT"}, value : Nat]

\* An end that is open is before and after everything.
NoLater(a, b) == a # Unset /\ b # Unset => a <= b

ASSUME PricingAssumption ==
    /\ Shelves \subseteq [price : Nat, srp : Nat, packs : Nat, loose : Nat,
                          retail : BOOLEAN]
    /\ TextRank \in [RuleIds -> Nat]
    /\ Forms \subseteq [on : Goods, term : Terms, first : Nat \cup {Unset},
                         last : Nat \cup {Unset}, active : BOOLEAN]
    /\ \A f \in Forms : NoLater(f.first, f.last)
    /\ IsFiniteSet(Products) /\ IsFiniteSet(RuleIds)
    /\ LastDay \in Nat /\ Carts \subseteq [Goods -> Nat]

VARIABLES
    shelf,      \* per product, its prices and stock
    rules,      \* the rules of the customer, or Unset
    today,      \* the clock
    tab,        \* what a request has read and not yet committed, or Unset
    slipOf,     \* the last order created, or Unset
    rushed      \* history: rules written by requests that overlapped

pricingVars == <<shelf, rules, today, tab, slipOf, rushed>>

RuleRows == [on : Goods, term : Terms, from : Nat \cup {Unset}, to : Nat \cup {Unset},
             active : BOOLEAN]

TabRows == [op : {"create"}, row : RuleRows, alone : BOOLEAN]
           \cup [op : {"save"}, id : RuleIds, row : RuleRows, alone : BOOLEAN]
           \cup [op : {"turn on"}, id : RuleIds, alone : BOOLEAN]
           \cup [op : {"order"}, qty : [Goods -> Nat], base : [Goods -> Nat]]

ASSUME UnsetAssumption == Unset \notin Nat /\ Unset \notin RuleRows \cup TabRows

Now == 2 * today + 1

Lesser(a, b) == IF a <= b THEN a ELSE b

\* Math.round of n / d: the nearest integer, halves up.
Rounded(n, d) == (2 * n + d) \div (2 * d)

Known(i) == rules[i] # Unset

PricingInit ==
    /\ shelf \in [Products -> Shelves]
    /\ rules = [i \in RuleIds |-> Unset]
    /\ today = 0
    /\ tab = [t \in Tabs |-> Unset]
    /\ slipOf = Unset
    /\ rushed = {}

Doing(t, op) == tab[t] # Unset /\ tab[t].op = op

EndTab(t) == tab' = [tab EXCEPT ![t] = Unset]

-----------------------------------------------------------------------------
(* Rules *)

\* Mutant: the two ends of the new period are swapped.
ListGuardSwapped(row, i) ==
    LET q == rules[i] IN
    /\ q.active /\ q.on = row.on
    /\ NoLater(q.from, row.from)
    /\ NoLater(row.to, q.to)

\* The rules a new one of the same goods would overlap, as the list page asks the
\* database: where the new period is open, it puts the present moment.
ListGuardSees(row, i) ==
    LET q == rules[i] IN
    /\ q.active /\ q.on = row.on
    /\ NoLater(IF row.from = Unset THEN Now ELSE row.from, q.to)
    /\ NoLater(q.from, IF row.to = Unset THEN Now ELSE row.to)

\* The edit page asks it with the ends of time.
EditGuardSees(row, i) ==
    LET q == rules[i] IN
    /\ q.active /\ q.on = row.on
    /\ NoLater(q.from, row.to)
    /\ NoLater(row.from, q.to)

\* The unique key of the table, to which an open end equals nothing.
Duplicate(row, i) ==
    Known(i) /\ rules[i].on = row.on /\ row.from # Unset /\ row.to # Unset
    /\ rules[i].from = row.from /\ rules[i].to = row.to

\* The list page ends a rule when its last day begins, the edit page when it ends.
Row(f, lastInstant) ==
    [on |-> f.on, term |-> f.term, active |-> f.active,
     from |-> IF f.first = Unset THEN Unset ELSE 2 * f.first,
     to |-> IF f.last = Unset THEN Unset ELSE 2 * f.last + lastInstant]

\* The other requests that change rules.
Others(t) == {u \in Tabs \ {t} : tab[u] # Unset /\ tab[u].op # "order"}

\* A request that changes rules begins; those in flight are no longer alone.
BeginRule(t, job) ==
    /\ tab[t] = Unset
    /\ tab' = [u \in Tabs |->
                 IF u = t THEN job
                 ELSE IF u \in Others(t) THEN [tab[u] EXCEPT !.alone = FALSE] ELSE tab[u]]
    /\ UNCHANGED <<shelf, rules, today, slipOf, rushed>>

CreateBegin(t, row) ==
    /\ row.active => \A i \in RuleIds : Known(i) => ~ListGuardSees(row, i)
    /\ BeginRule(t, [op |-> "create", row |-> row, alone |-> Others(t) = {}])

TurnOnBegin(t, id) ==
    /\ Known(id)
    /\ \A i \in RuleIds \ {id} : Known(i) => ~ListGuardSees(rules[id], i)
    /\ BeginRule(t, [op |-> "turn on", id |-> id, alone |-> Others(t) = {}])

SaveBegin(t, id, row) ==
    /\ Known(id)
    /\ row.active => \A i \in RuleIds \ {id} : Known(i) => ~EditGuardSees(row, i)
    /\ BeginRule(t, [op |-> "save", id |-> id, row |-> row, alone |-> Others(t) = {}])

WriteRule(t, id, row) ==
    /\ rules' = [rules EXCEPT ![id] = row]
    /\ rushed' = IF tab[t].alone THEN rushed ELSE rushed \cup {id}
    /\ EndTab(t)
    /\ UNCHANGED <<shelf, today, slipOf>>

CreateRule(t, id) ==
    /\ Doing(t, "create")
    /\ ~Known(id)
    /\ \A i \in RuleIds : ~Duplicate(tab[t].row, i)
    /\ WriteRule(t, id, tab[t].row)

TurnOn(t) ==
    /\ Doing(t, "turn on")
    /\ Known(tab[t].id)
    /\ WriteRule(t, tab[t].id, [rules[tab[t].id] EXCEPT !.active = TRUE])

SaveRule(t) ==
    /\ Doing(t, "save")
    /\ Known(tab[t].id)
    /\ \A i \in RuleIds \ {tab[t].id} : ~Duplicate(tab[t].row, i)
    /\ WriteRule(t, tab[t].id, tab[t].row)

TurnOff(id) ==
    /\ Known(id)
    /\ rules' = [rules EXCEPT ![id].active = FALSE]
    /\ UNCHANGED <<shelf, today, tab, slipOf, rushed>>

DeleteRule(id) ==
    /\ Known(id)
    /\ rules' = [rules EXCEPT ![id] = Unset]
    /\ UNCHANGED <<shelf, today, tab, slipOf, rushed>>

-----------------------------------------------------------------------------
(* Prices *)

Base(p, kind) ==
    IF kind = "PACK" /\ shelf[p].srp > 0 THEN shelf[p].srp ELSE shelf[p].price

InForce(i, g) ==
    /\ Known(i) /\ rules[i].active /\ rules[i].on = g
    /\ NoLater(rules[i].from, Now) /\ NoLater(Now, rules[i].to)

\* Rules apply in the order of their ids as text.
FirstByText(S) == CHOOSE i \in S : \A j \in S : TextRank[i] <= TextRank[j]

LastByText(S) == CHOOSE i \in S : \A j \in S : TextRank[j] <= TextRank[i]

\* FIXED_DISCOUNT becomes an override of the base it is given.
Override(i, base) ==
    IF rules[i].term.mode = "FIXED_PRICE" THEN rules[i].term.value
    ELSE base - Lesser(base, rules[i].term.value)

Off(i, price) == Rounded(price * (100 - rules[i].term.value), 100)

\* Every percentage of S is taken off what the ones before it left of the price.
PercentsOff(S, price) ==
    LET left[T \in SUBSET S] ==
          IF T = {} THEN price ELSE Off(LastByText(T), left[T \ {LastByText(T)}]) IN
    left[S]

\* applyDiscounts: the first override replaces the price, then come the percentages.
Effective(g, start, base) ==
    LET here == {i \in RuleIds : InForce(i, g)}
        percents == {i \in here : rules[i].term.mode = "PERCENT_DISCOUNT"}
        overrides == here \ percents IN
    PercentsOff(percents,
                IF overrides = {} THEN start ELSE Override(FirstByText(overrides), base))

\* The road sale asks for the price the customer is to pay.
Quote(p, kind) ==
    LET retail == shelf[p].retail /\ shelf[p].price > 0
        start == IF kind = "RETAIL" /\ retail THEN shelf[p].price ELSE Base(p, "PACK") IN
    IF start = 0 THEN 0 ELSE Effective(<<p, kind>>, start, start)

-----------------------------------------------------------------------------
(* Orders *)

Available(g, n) ==
    LET s == shelf[g[1]] IN
    IF g[2] = "RETAIL" THEN s.retail /\ s.loose > 0 /\ n <= s.loose
    ELSE n % 4 = 0 /\ n <= s.packs

\* The pad sends its cart; the base prices come from the products as they are.
OrderBegin(t, qty) ==
    /\ tab[t] = Unset
    /\ \E g \in Goods : qty[g] > 0
    /\ \A g \in Goods : qty[g] > 0 => Base(g[1], g[2]) > 0 /\ Available(g, qty[g])
    /\ tab' = [tab EXCEPT ![t] = [op |-> "order", qty |-> qty,
                                  base |-> [g \in Goods |-> Base(g[1], g[2])]]]
    /\ UNCHANGED <<shelf, rules, today, slipOf, rushed>>

\* Mutant: a fixed discount is taken off the retail price, for packs too.
UnitOffRetail(g, base) ==
    LET e == Effective(g, base, shelf[g[1]].price) IN
    IF e > 0 THEN Lesser(base, e) ELSE base

\* The rules are read after the products, and the base of a fixed discount again.
Unit(g, base) ==
    LET e == Effective(g, base, Base(g[1], g[2])) IN
    IF e > 0 THEN Lesser(base, e) ELSE base

\* The form refuses an order unless the sum, rounded once, is the sum of the rounded
\* lines, before and after discounts.
TotalsAgree(qty, price) ==
    Rounded(SumFunction([g \in Goods |-> qty[g] * price[g]]), 4)
        = SumFunction([g \in Goods |-> Rounded(qty[g] * price[g], 4)])

CreateOrder(t) ==
    LET qty == tab[t].qty
        base == tab[t].base
        unit == [g \in Goods |-> Unit(g, base[g])]
        cost(price) == [g \in Goods |-> qty[g] * price[g]] IN
    /\ Doing(t, "order")
    /\ TotalsAgree(qty, unit) /\ TotalsAgree(qty, base)
    /\ slipOf' = [unit |-> unit, total |-> [g \in Goods |-> Rounded(cost(unit)[g], 4)],
                  subtotal |-> Rounded(SumFunction(cost(unit)), 4),
                  before |-> Rounded(SumFunction(cost(base)), 4)]
    /\ EndTab(t)
    /\ UNCHANGED <<shelf, rules, today, rushed>>

-----------------------------------------------------------------------------
\* The product form and the stock movements.
Restock(p, s) ==
    /\ shelf' = [shelf EXCEPT ![p] = s]
    /\ UNCHANGED <<rules, today, tab, slipOf, rushed>>

NextMorning ==
    /\ today < LastDay
    /\ today' = today + 1
    /\ UNCHANGED <<shelf, rules, tab, slipOf, rushed>>

\* A request that is refused or lost leaves nothing behind.
DropTab(t) ==
    /\ tab[t] # Unset
    /\ EndTab(t)
    /\ UNCHANGED <<shelf, rules, today, slipOf, rushed>>

PricingNext ==
    \/ \E t \in Tabs :
          \/ \E f \in Forms : CreateBegin(t, Row(f, 0))
          \/ \E f \in Forms, id \in RuleIds : SaveBegin(t, id, Row(f, 1))
          \/ \E id \in RuleIds : TurnOnBegin(t, id) \/ CreateRule(t, id)
          \/ TurnOn(t) \/ SaveRule(t)
          \/ \E qty \in Carts : OrderBegin(t, qty)
          \/ CreateOrder(t)
          \/ DropTab(t)
    \/ \E id \in RuleIds : TurnOff(id) \/ DeleteRule(id)
    \/ \E p \in Products, s \in Shelves : Restock(p, s)
    \/ NextMorning

PricingSpec == PricingInit /\ [][PricingNext]_pricingVars

-----------------------------------------------------------------------------
(* Properties *)

\* Two rules that share an instant from now on.
Collide(i, j) ==
    LET a == rules[i]
        b == rules[j] IN
    /\ a.active /\ b.active /\ a.on = b.on
    /\ NoLater(Now, a.to) /\ NoLater(Now, b.to)
    /\ NoLater(a.from, b.to) /\ NoLater(b.from, a.to)

\* Three guards on three forms keep one rule at a time for the same goods, as long
\* as requests do not overlap and both rules have an end.
OneRuleAtATime ==
    \A i, j \in RuleIds \ rushed :
        i # j /\ Known(i) /\ Known(j) /\ rules[i].to # Unset /\ rules[j].to # Unset
            => ~Collide(i, j)

\* What a rider quotes on the road is what the pad would charge at the same moment,
\* for goods both sell, unless the rules put the price above the shelf or at zero.
QuoteHonoured ==
    \A g \in Goods :
        LET quoted == Quote(g[1], g[2])
            base == Base(g[1], g[2]) IN
        base > 0 /\ (g[2] = "RETAIL" => shelf[g[1]].retail) /\ quoted \in 1 .. base
            => quoted = Unit(g, base)

\* customers.$id_.pricing.tsx: "There is already an active rule overlapping this
\* period" and "Another active rule overlaps.  Deactivate it first."
NoRulesOverlap ==
    \A i, j \in RuleIds \ rushed :
        i # j /\ Known(i) /\ Known(j) => ~Collide(i, j)

=============================================================================
