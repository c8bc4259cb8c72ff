--------------------------- MODULE MCReceivables ---------------------------
(* Instances of Receivables for TLC. *)
EXTENDS Receivables, TLC

\* Two lines, each worth more than MONEY_EPS.
MCAmount == 1 :> 2 @@ 2 :> 2

\* One line alone.
MCAmountOne == 1 :> 3

Symmetry == Permutations(Requests)

=============================================================================
