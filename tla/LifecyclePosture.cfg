SPECIFICATION MC_Spec
CONSTANTS
    c1 = c1
    c2 = c2
    v1 = v1
    v2 = v2
    v3 = v3
    k1 = k1
    k2 = k2
    u1 = u1
    u2 = u2
    r1 = r1
    g1 = g1
    None = None
    MC_Scenarios = {"posture"}
    Clients = {c1}
    VersionIds = {v1, v2, v3}
    Keys = {k1, k2}
    UpdateIds = {u1, u2}
    RequestIds = {r1, g1}
    GeneratedRequestIds = {g1}
    Times = {4}
    Requests <- MC_Requests
    RequireExpectedState = TRUE
    MaxVersions = 1
    MaxEvents = 8
INVARIANTS
    ExecutedProposalShowsExecuted
