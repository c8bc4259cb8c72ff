--------------------------- MODULE MCCounterSale ---------------------------
(* Instances of CounterSale for TLC. *)
EXTENDS CounterSale, TLC

CONSTANTS o1, o2, p1

\* Two orders; the first has a customer record.
MCTotal == o1 :> 5 @@ o2 :> 1

\* One order alone.
MCTotalOne == o1 :> 5
MCNeedsOne == o1 :> (p1 :> 1)
Symmetry == Permutations(Cashiers) \cup Permutations(Requests)

=============================================================================
