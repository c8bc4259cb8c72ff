--------------------------- MODULE MCCashierShift ---------------------------
(* Instances of CashierShift for TLC. *)
EXTENDS CashierShift, TLC

\* Ids are interchangeable: no handler compares two of them.
Symmetry ==
    Permutations(Cashiers) \cup Permutations(Managers)
        \cup Permutations(Shifts) \cup Permutations(Requests)

=============================================================================
