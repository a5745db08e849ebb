SPECIFICATION McpSpec
CONSTANTS
    w1 = w1
    w2 = w2
    Windows = {w1, w2}
    SessionIds <- GateSessions
    Loop = "loop"
    Threads = {"loop", "poller"}
    Actions = {"delete A"}
    ValueOf <- StringValue
    RarTypes = {"task"}
    GateRar = "task"
    ExpectedRar = {"task"}
    Contexts = {"alice", "bob"}
    Scopes <- WriterAndReader
    Keys = {"secret"}
    Secret = "secret"
    TicksPerSecond = 1
    MaxTTL = 1
    TTLs = {1}
    MaxTime = 1
    MaxApprovals = 2
    MaxMints = 2
    MaxRestarts = 1
    MaxHeld = 1
    MaxSinkFailures = 1
SYMMETRY WindowSymmetry
INVARIANTS McpIInv ExecutionsWereConsented RowsAccountedFor
PROPERTIES DecisionStands ServerKeepsContract
CHECK_DEADLOCK FALSE
