SPECIFICATION Spec
CONSTANTS
    Cashiers = {c1}
    Managers = {m1}
    Shifts = {s1}
    Requests = {r1, r2}
    Floats = {0, 1}
    Amounts = {1}
    Counts = {0, 1}
    None = None
PROPERTIES
    DrawerLockedAfterSubmit
CHECK_DEADLOCK FALSE
