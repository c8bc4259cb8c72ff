SPECIFICATION Spec
CONSTANTS
    Cashiers = {c1}
    Managers = {m1, m2}
    Shifts = {s1, s2}
    Requests = {r1, r2}
    Floats = {0, 1}
    Amounts = {1}
    Counts = {0, 1}
    None = None
SYMMETRY Symmetry
INVARIANTS
    OneLiveShiftPerCashier
    DrawerFloor
    ChargeMatchesShortage
PROPERTIES
    CountIsFinal
    CustodyRefined
\* The shift ids and the requests are used up.
CHECK_DEADLOCK FALSE
