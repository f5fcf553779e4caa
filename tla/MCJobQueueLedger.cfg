SPECIFICATION LedgerSpec
CONSTANTS
    Tenants = {t1}
    Payloads = {w1}
    Producers = {p1, p2}
    Consumers = {c1, c2}
    MaxAttempts = 2
    Limit = 1
    MaxJobs = 3
    MaxDeliveries = 2
SYMMETRY Symmetry
CHECK_DEADLOCK FALSE
INVARIANTS LockedStaysPending LedgerCovered
