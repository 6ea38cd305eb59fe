SPECIFICATION Spec
CONSTANTS
    s1 = s1
    s2 = s2
    t1 = t1
    t2 = t2
    o1 = o1
    p = p
    q = q
    None = None
    Processes = {s1}
    Threads = {t1, t2}
    ProcessOf <- MC_ProcessOf
    Operators = {}
    Payloads = {p}
    max_attempts = 2
    LeaseTime = 1
    MaxCrashes = 0
    MaxStoreErrors = 0
INVARIANTS
    CreatedOnce
