SPECIFICATION Spec
CONSTANTS
    w1 = w1
    r1 = r1
    r2 = r2
    shift = shift
    s1 = s1
    t1 = t1
    t2 = t2
    a1 = a1
    d1 = d1
    None = None
    Unpriced = Unpriced
    Workers = {w1}
    Days = {1}
    Rates = {1}
    Runs = {r1, r2}
    Cutoff <- MCCutoff
    Charges = {1, 2, 3}
    Owner <- MCOwner
    Amount <- MCAmount
    Extras = {0, 1}
    Takes = {2}
    Tasks = {t1, t2}
    TasksAtOnce = 2
    MaxBuilds = 2
    Blank = Blank
    OFF = OFF
    Dates = {1, 2}
    Shifts = {shift}
    Pattern <- MCPattern
    Wanted <- MCWanted
    Suspensions = {s1}
    Covered = {2}
    Results = {"WORKED", "SUSPENDED"}
    LastDay = 2
    Reqs = {t1, t2}
    RowIds = {1, 2, 3}
    PayDays = {1, 2, 3}
    DayRates = {1}
    Entries = {t1, t2}
    Absent = Absent
    ReqsAtOnce <- MCAtOnce
    Accounts = {a1}
    Trips = {d1}
    Desks = {t1, t2}
    MaxStints = 3
    Nobody = Nobody
SYMMETRY Symmetry
CHECK_DEADLOCK FALSE
INVARIANTS
    DeductionsCarried
    NeverOvertaken
    OneActiveRow
    SuspensionsOwned
    OneRatePerDay
    OneLaneAtATime
PROPERTIES
    FinalizedFrozen
    PublishedKept
    ReviewKept
