SPECIFICATION BoundedSpec
CONSTANTS
    r1 = r1
    r2 = r2
    o1 = o1
    o2 = o2
    t1 = t1
    t2 = t2
    Runs = {r1, r2}
    Orders = {o1, o2}
    Requests = {t1, t2}
    UnitKind <- MCUnitKind
    Qty <- MCQty
    Inferred <- MCInferred
    PartlyPaid = {}
    Extras = {1}
    Sales = {0, 2}
    InitialStock <- MCInitialStock
    CounterSales <- MCCounterSales
    Opens = {1}
    PackSize = 2
    Figures <- MCFigures
    None = None
SYMMETRY Symmetry
CHECK_DEADLOCK FALSE
INVARIANTS
    TypeOK
    GoodsAccounted
    OneActiveRun
    NeverOnTwoRoads
    DispatchedMark
    FailedReviewed
PROPERTIES
    SubmittedIsFinal
