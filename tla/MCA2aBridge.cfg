SPECIFICATION A2aSpec
CONSTANTS
    k1 = k1
    k2 = k2
    urn = urn
    deleteA = deleteA
    deleteB = deleteB
    Threads = {k1, k2, urn}
    ContextId <- Contextual
    TaskId <- Named
    Unknown = "unknown"
    Actions = {deleteA, deleteB}
    ValueOf <- StringValue
    RarTypes = {"task"}
    ExpectedRar = {"task"}
    Contexts = {"alice"}
    Keys = {"secret"}
    Secret = "secret"
    TicksPerSecond = 1
    MaxTTL = 1
    TTLs = {1}
    MaxTime = 2
    MaxApprovals = 1
    MaxMints = 2
    MaxRestarts = 1
SYMMETRY TaskAndActionSymmetry
INVARIANTS
    A2aIInv ElicitationsLeadBack ResumedByOwnContext SignedProposalsRun
    AnswersRunOnce
CHECK_DEADLOCK FALSE
