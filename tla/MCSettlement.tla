---------------------------- MODULE MCSettlement ----------------------------
(***************************************************************************)
(* Money after the sale, on small instances: the ledger of customers' open *)
(* balances, the check-in of a run's receipts, and the settlement of its   *)
(* cash.  The check-in ends before the cash is remitted and the ledger     *)
(* lives on when both are over; none writes the rows of another, so a      *)
(* behaviour plays one of them.                                            *)
(***************************************************************************)
EXTENDS Receivables, RiderSettlement, ClearanceGate, TLC

CONSTANTS o1, o2, ca, cb, k1, k2, t1, t2

VARIABLE scene

moneyVars == <<scene, vars, cashVars, gateVars>>

\* Two lines, each worth more than MONEY_EPS.
MCAmount == 1 :> 2 @@ 2 :> 2

MCTotal == [o \in Drops |-> 2]

\* The first order has a total of two, the sale on the road of one.
MCPrice == [k \in Slips |-> IF k = k1 THEN 2 ELSE 1]

\* Requests overlap more where there is less to do.
MCOverlap == [S \in SUBSET Drops |-> IF Cardinality(S) = 1 THEN 2 ELSE 1]

MCAtOnce == [S \in SUBSET Slips |-> IF Cardinality(S) = 2 THEN 1 ELSE 2]

Symmetry == Permutations({ca, cb}) \cup Permutations({t1, t2})

MoneyInit ==
    /\ scene \in {"ledger", "gate", "cash"}
    /\ Init
    /\ CashInit
    /\ scene # "cash" => released = {} /\ \A o \in Drops : riderCash[o] = 0
    /\ GateInit

MoneyNext ==
    /\ UNCHANGED scene
    /\ \/ scene = "ledger" /\ Next /\ UNCHANGED <<cashVars, gateVars>>
       \/ scene = "cash" /\ CashNext /\ UNCHANGED <<vars, gateVars>>
       \/ scene = "gate" /\ GateNext /\ UNCHANGED <<vars, cashVars>>

MoneySpec == MoneyInit /\ [][MoneyNext]_moneyVars

=============================================================================
