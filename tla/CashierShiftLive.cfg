SPECIFICATION FairSpec
CONSTANTS
    Cashiers = {c1}
    Managers = {m1}
    Shifts = {s1, s2}
    Requests = {r1}
    Floats = {0, 1}
    Amounts = {1}
    Counts = {1}
    None = None
PROPERTIES
    EveryShiftCloses
\* The shift ids and the requests are used up.
CHECK_DEADLOCK FALSE
