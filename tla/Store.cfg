SPECIFICATION StoreSpec
CONSTANTS
    o1 = o1
    o2 = o2
    p1 = p1
    p2 = p2
    ga = ga
    gb = gb
    None = None
    Unset = Unset
    Cashiers = {c1, c2}
    Orders = {o1, o2}
    Accounts = {o1}
    Requests = {r1, r2}
    Cells = {p1, p2}
    Admins = {a1}
    Pack = p1
    Piece = p2
    PackSize = 2
    Opens = {1, 2}
    Deliveries = {1}
    MaxDelivered = 1
    Total <- MCTotal
    Needs <- MCNeeds
    InitialStock = 2
    Cash = {0, 3}
    Discounts = {1, 3}
    MoneyEps = 1
    Products = {ga, gb}
    Shelves <- MCShelves
    RuleIds = {1, 2}
    TextRank <- MCTextRank
    Forms <- MCForms
    LastDay = 1
    Carts <- MCCarts
    Tabs = {r1, r2}
SYMMETRY Symmetry
\* The slips are paid or deleted, the clock has stopped.
CHECK_DEADLOCK FALSE
INVARIANTS
    SaleCovered
    GoodsFollowSettlement
    ApprovalCovers
    OneAtATimeIsExact
    OfficialReceipts
    StockAccounted
    OneRuleAtATime
    QuoteHonoured
