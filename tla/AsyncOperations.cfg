SPECIFICATION MC_FairSpec
CONSTANTS
    s1 = s1
    s2 = s2
    t1 = t1
    t2 = t2
    o1 = o1
    p = p
    q = q
    None = None
    Processes = {s1, s2}
    Threads = {t1, t2}
    ProcessOf <- MC_ProcessOf
    Operators = {o1}
    Payloads = {p, q}
    max_attempts = 2
    LeaseTime = 1
    MaxCrashes = 1
    MaxStoreErrors = 1
INVARIANTS
    TypeOK
    AttemptsBounded
    SuccessNamesOwnProposal
PROPERTIES
    RunsEnd
