SPECIFICATION MC_Spec
CONSTANTS
    w1 = w1
    w2 = w2
    a1 = a1
    a2 = a2
    k1 = k1
    k2 = k2
    k3 = k3
    x = x
    y = y
    p1 = p1
    p2 = p2
    d1 = d1
    d2 = d2
    q1 = q1
    q2 = q2
    n1 = n1
    n2 = n2
    None = None
    MC_Components = {"policy catalog", "policy evaluations", "memos", "ideas", "workspace", "copilot",
                     "simulation", "decision"}
    PolicyWorkers = {w1, w2}
    MaxPolicyVersion = 3
    MakerCheckerVersions = {1, 2}
    Actors = {a1, a2}
    PolicyKeys = {k1, k2, k3, n1, n2}
    PolicyCommands <- MC_PolicyCommands
    MaxPolicyCommands = 3
    EvalWorkers = {w1, w2}
    MaxEvaluation = 2
    Officers = {a1, a2}
    EvalKeys = {k1, k2, k3}
    EvalCommands <- MC_EvalCommands
    MaxEvalCommands = 4
    BlockedCommands <- MC_BlockedCommands
    Repaired <- MC_Repaired
    MemoWorkers = {w1, w2}
    MemoVersions = {1, 2}
    MemoKeys = {k1, k2}
    MemoContents = {x, y}
    MemoRequests <- MC_MemoRequests
    MaxMemoRequests = 4
    IdeaWorkers = {w1, w2}
    Intents = {n1, n2}
    Intakes = {x, y}
    RefusedIntakes = {y}
    IntakeKeys = {k1}
    LinkableProposals = {p1, p2}
    Endings = {"EXECUTED", "CANCELLED"}
    MaxIdeaRequests = 4
    WorkspaceUsers = {w1, w2}
    Drafts = {d1, d2}
    InitialDraft = d1
    HandoffKeys = {n1, n2}
    MaxWorkspaceCommands = 3
    MaxForeignVersions = 1
    CopilotWorkers = {w1, w2}
    Packets = {q1, q2}
    ProjectedPackets = {q2}
    PacketContents = {n1, n2}
    Requesters = {a1}
    Reviewers = {a1, a2}
    RunKeys = {k1, k2}
    ReviewRequests <- MC_ReviewRequests
    AiSlots = 1
    AiAttempts = 2
    MaxCopilotCalls = 5
    MaxCurrency = 3
    BaseCurrency = 2
    Instruments = {1, 2, 3, 4}
    SimInputs <- MC_SimInputs
    Products = {1, 2, 3}
    DecisionInputs <- MC_DecisionInputs
SYMMETRY MC_Symmetry
INVARIANTS
    PolicyKeyNamesOneEvent
    ActivationsAreChecked
    RecordMatchesTrail
    SignOffsHaveAnotherMaker
    ReportsFollowSignOff
    EvalKeysNameTheirEvents
    MemoCreatedOnce
    MemoKeyBindsRequest
    OneReportPerMemoKey
    RealizationMatchesHistory
    OneRealizationPerProposal
    ClosedAsProposalEnded
    SavedVersionsNumbered
    ReviewsStandOnDrafts
    RunsKeepTheirEvidence
    SlotsAreReturned
    ReadyCarriesAllTrades
    ReadyIsExecutable
    BuysWaitForFunding
    ClientStatusIsEarned
PROPERTIES
    PolicyAuditAppendOnly
    PackStaysActive
CHECK_DEADLOCK FALSE
