------------------------- MODULE MCCustomerPricing -------------------------
(***************************************************************************)
(* Instances of CustomerPricing for TLC: one price with every period, or   *)
(* every kind of price with no period and orders.                          *)
(***************************************************************************)
EXTENDS CustomerPricing, TLC

CONSTANTS ga, gb

VARIABLE scene

\* The sequence of ids passes a power of ten: 9 and 10, as text, change places.
MCTextRank == [i \in RuleIds |-> 3 - i]

MCShelves == {[price |-> 6, srp |-> 0, packs |-> 4, loose |-> 4, retail |-> TRUE],
              [price |-> 10, srp |-> 8, packs |-> 4, loose |-> 1, retail |-> TRUE]}

Form(kind, mode, value, first, last) ==
    [on |-> <<ga, kind>>, term |-> [mode |-> mode, value |-> value],
     first |-> first, last |-> last, active |-> TRUE]

MCForms ==
    {Form("PACK", "FIXED_PRICE", 7, f, l) :
        <<f, l>> \in {<<Unset, Unset>>, <<Unset, 0>>, <<0, Unset>>, <<1, Unset>>,
                     <<0, 1>>, <<1, 1>>}}
    \cup {Form(k, m[1], m[2], Unset, Unset) :
        k \in {"PACK", "RETAIL"},
        m \in {<<"FIXED_PRICE", 7>>, <<"FIXED_DISCOUNT", 7>>, <<"PERCENT_DISCOUNT", 25>>}}

Cart(a, b, c) ==
    [g \in Goods |-> CASE g = <<ga, "PACK">> -> a [] g = <<ga, "RETAIL">> -> b
                       [] g = <<gb, "RETAIL">> -> c [] OTHER -> 0]

MCCarts == {Cart(4, 1, 0), Cart(0, 1, 1), Cart(0, 2, 1)}

PricesInit ==
    /\ scene \in {"periods", "prices"}
    /\ PricingInit
    /\ shelf[gb].srp = 0
    /\ scene = "periods" => shelf[ga].srp > 0

Busy == {t \in Tabs : tab'[t] # Unset}

InPlay == {i \in RuleIds : Known(i)}

Periods ==
    /\ UNCHANGED shelf
    /\ \A t \in Busy : tab'[t].op # "order"
    /\ \A t \in Busy : tab'[t].op \in {"create", "save"} =>
          tab'[t].row.on = <<ga, "PACK">> /\ tab'[t].row.term.mode = "FIXED_PRICE"

Prices ==
    /\ UNCHANGED <<today, shelf[gb]>>
    /\ \A i \in RuleIds : rules'[i] # Unset => rules'[i].active
    /\ \A t \in Busy : tab'[t].op \in {"create", "save"} =>
          tab'[t].row.from = Unset /\ tab'[t].row.to = Unset

\* Requests overlap while there is no rule, and orders with one rule; the first
\* order is the last.
PricesNext ==
    /\ UNCHANGED scene
    /\ slipOf = Unset
    /\ PricingNext
    /\ Cardinality(Busy) = 2 =>
          \/ InPlay = {}
          \/ Cardinality(InPlay) = 1 /\ \E t \in Tabs : tab'[t].op = "order"
    /\ scene = "periods" => Periods
    /\ scene = "prices" => Prices

PricesSpec == PricesInit /\ [][PricesNext]_<<scene, pricingVars>>

=============================================================================
