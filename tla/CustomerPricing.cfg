SPECIFICATION PricesSpec
CONSTANTS
    ga = ga
    gb = gb
    Unset = Unset
    Products = {ga, gb}
    Shelves <- MCShelves
    RuleIds = {1, 2}
    TextRank <- MCTextRank
    Forms <- MCForms
    LastDay = 1
    Carts <- MCCarts
    Tabs = {r1, r2}
CHECK_DEADLOCK FALSE
INVARIANT
    NoRulesOverlap
