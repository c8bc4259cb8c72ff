------------------------------ MODULE MCStore ------------------------------
(***************************************************************************)
(* The store front, on small instances: the price of a slip is frozen when *)
(* the slip is created, and the counter works on frozen slips, so that a   *)
(* behaviour plays the pricing or the counter with its stockroom.          *)
(***************************************************************************)
EXTENDS MCCounterSale, MCCustomerPricing, Stockroom

CONSTANT p2

\* The orders compete for two packs, with each other and with who opens them.
MCNeeds == o1 :> (p1 :> 1 @@ p2 :> 0) @@ o2 :> (p1 :> 2 @@ p2 :> 1)

StoreInit ==
    /\ scene \in {"counter", "stockroom", "periods", "prices"}
    /\ Init
    /\ StockroomInit
    /\ PricingInit
    /\ shelf[gb].srp = 0
    /\ scene # "prices" => shelf[ga].srp > 0

\* The second slip is one that the cashiers only settle.
SecondSettled ==
    \A r \in Requests :
        job[r] # None /\ job[r].order = o2 => job[r].op \in {"claim", "settle", "pay"}

\* The admin overlaps with one request of the counter at a time.
AtMostOneServed == Cardinality({r \in Requests : job[r] # None}) <= 1

StoreNext ==
    /\ UNCHANGED scene
    /\ \/ scene = "counter" /\ Next /\ SecondSettled' /\ UNCHANGED <<stockroomVars, pricingVars>>
       \/ /\ scene = "stockroom"
          /\ StockroomNext
          /\ SecondSettled' /\ AtMostOneServed'
          /\ UNCHANGED pricingVars
       \/ scene \in {"periods", "prices"} /\ PricesNext /\ UNCHANGED <<vars, stockroomVars>>

StoreSpec == StoreInit /\ [][StoreNext]_<<scene, vars, stockroomVars, pricingVars>>

=============================================================================
