SPECIFICATION Spec
CONSTANTS
    o1 = o1
    o2 = o2
    p1 = p1
    Cashiers = {c1, c2}
    Orders = {o1}
    Accounts = {o1}
    Requests = {r1, r2}
    Cells = {p1}
    Total <- MCTotalOne
    Needs <- MCNeedsOne
    InitialStock = 2
    Cash = {0, 2, 5}
    Discounts = {0, 3}
    MoneyEps = 1
    None = None
INVARIANT
    GoodsTakenOnce
CHECK_DEADLOCK FALSE
