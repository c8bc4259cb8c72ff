SPECIFICATION BoundedSpec
CONSTANTS
    r1 = r1
    r2 = r2
    o1 = o1
    o2 = o2
    t1 = t1
    t2 = t2
    Runs = {r1, r2}
    Orders = {o1, o2}
    Requests = {t1}
    UnitKind <- MCUnitKind
    Qty <- MCQty
    Inferred <- MCInferredStale
    PartlyPaid = {}
    Extras = {1}
    Sales = {0, 2}
    InitialStock <- MCInitialStock
    CounterSales = {}
    Opens = {}
    PackSize = 2
    Figures = {}
    None = None
CHECK_DEADLOCK FALSE
INVARIANTS
    RevertRestoresCells
