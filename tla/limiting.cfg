SPECIFICATION FairSpec
CONSTANTS
    None = None
    c1 = c1
    address = address  account = account
    x = x  y = y  victim = victim  hidden = hidden
    Clients = {c1}
    Policies = {address, account}
    Subjects = {x, y, victim}
    Unresolved = hidden
    Limit <- OneEach
    Window <- TwoEach
    FailsOpen = {account}
    Skips = {address}
    Attempts <- SignIns
    MaxBuckets = 2
    BurnCap = 5
INVARIANTS RateInv BudgetOfOthers
PROPERTIES LiveCountersKept Released
CHECK_DEADLOCK FALSE
