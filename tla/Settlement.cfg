SPECIFICATION MoneySpec
CONSTANTS
    o1 = o1
    o2 = o2
    ca = ca
    cb = cb
    k1 = k1
    k2 = k2
    t1 = t1
    t2 = t2
    Nil = Nil
    Nothing = Nothing
    None = None
    Lines = {1, 2}
    Amount <- MCAmount
    Entries = {1, 2, 3, 4}
    Requests = {t1, t2}
    Tenders = {3}
    Discounts = {0, 1}
    MoneyEps = 1
    Drops = {o1, o2}
    Total <- MCTotal
    Customers = {o1}
    Cashiers = {ca, cb}
    Counted = {0, 1, 2}
    Remits = {t1, t2}
    MayOverlap <- MCOverlap
    Parents = {k1}
    Roads = {k2}
    Price <- MCPrice
    Known = {k1}
    Rebates = {0, 1, 2}
    Posts = {t1, t2}
    PostsAtOnce <- MCAtOnce
SYMMETRY Symmetry
\* The lines are decided, the run settled, the check-in submitted.
CHECK_DEADLOCK FALSE
INVARIANTS
    DebtNeverVanishes
    TenderAccounted
    NoLockCycle
    OneAtATimeIsExact
    SettledAccounted
    RemitExact
    ChargeStands
    ShortageAnswered
    SubmittedAnswered
PROPERTY
    CaseIsFinal
