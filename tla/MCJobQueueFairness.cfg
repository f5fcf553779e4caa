SPECIFICATION FairSpec
CONSTANTS
    Tenants = {t1, t2}
    Payloads = {w1}
    Producers = {p1}
    Consumers = {c1}
    MaxAttempts = 1
    Limit = 1
    MaxJobs = 4
    MaxDeliveries = 1
SYMMETRY Symmetry
INVARIANTS OvertakeWindow TenantFifo 
CHECK_DEADLOCK FALSE
