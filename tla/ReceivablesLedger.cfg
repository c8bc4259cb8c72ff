SPECIFICATION Spec
CONSTANTS
    Lines = {1}
    Amount <- MCAmountOne
    Entries = {1, 2}
    Requests = {r1, r2}
    Tenders = {1, 4}
    Discounts = {0, 1}
    MoneyEps = 1
    None = None
INVARIANT
    LedgerBalances
CHECK_DEADLOCK FALSE
