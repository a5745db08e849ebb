SPECIFICATION FairMcpSpec
CONSTANTS
    w1 = w1
    w2 = w2
    Windows = {w1, w2}
    SessionIds <- GateSessions
    Loop = "loop"
    Threads = {"loop"}
    Actions = {"delete A"}
    ValueOf <- StringValue
    RarTypes = {"task"}
    GateRar = "task"
    ExpectedRar = {"task"}
    Contexts = {"alice", "bob"}
    Scopes <- TwoWriters
    Keys = {"secret"}
    Secret = "secret"
    TicksPerSecond = 1
    MaxTTL = 2
    TTLs = {2}
    MaxTime = 2
    MaxApprovals = 2
    MaxMints = 2
    MaxRestarts = 0
    MaxHeld = 0
    MaxSinkFailures = 0
INVARIANT OwnApproval
PROPERTY ApprovedRuns
CHECK_DEADLOCK FALSE
