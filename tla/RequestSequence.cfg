CONSTANTS
    t1 = t1  t2 = t2
    r1 = r1  r2 = r2  r3 = r3
    NoRequest = NoRequest
    Threads = {t1, t2}
    Requests = {r1, r2, r3}
    MaxEntries = 2
    Headroom = 1
    MaxCalls = 4
SPECIFICATION Spec
INVARIANTS TypeOK OrdersGapFreeUnlessEvicted CapRestored
PROPERTIES CallsReturn ImplementsNumberSource
CHECK_DEADLOCK FALSE
