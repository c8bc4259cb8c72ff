---------------------------- MODULE ShiftCustody ----------------------------
(***************************************************************************)
(* What the shift routes promise, without sessions, ledgers or requests: a *)
(* cashier has charge of at most one drawer, passes through the stages of  *)
(* a shift in order, and every drawer is reckoned once, when the manager   *)
(* closes it.  CashierShift implements this specification.                 *)
(***************************************************************************)
CONSTANTS Cashiers, Shifts, None

VARIABLES
    stage,      \* how far a cashier is with the drawer in hand
    reckoning   \* how a shift ended, or None

Stages == {"none", "opening", "trading", "counted"}

Reckonings == {"balanced", "over", "charged", "excused"}

Init ==
    /\ stage = [c \in Cashiers |-> "none"]
    /\ reckoning = [s \in Shifts |-> None]

Move(c, from, to) == stage[c] = from /\ stage' = [stage EXCEPT ![c] = to]

HandOver(c) == Move(c, "none", "opening") /\ UNCHANGED reckoning

TakeCharge(c) == Move(c, "opening", "trading") /\ UNCHANGED reckoning

Count(c) == Move(c, "trading", "counted") /\ UNCHANGED reckoning

Reckon(c) ==
    /\ Move(c, "counted", "none")
    /\ \E s \in Shifts, o \in Reckonings :
          /\ reckoning[s] = None
          /\ reckoning' = [reckoning EXCEPT ![s] = o]

Next == \E c \in Cashiers : HandOver(c) \/ TakeCharge(c) \/ Count(c) \/ Reckon(c)

Spec == Init /\ [][Next]_<<stage, reckoning>>

=============================================================================
