SPECIFICATION T2Spec
CONSTANTS
    r1 = r1
    r2 = r2
    Threads = {"t"}
    RsThreads = {r1, r2}
    Actions = {"no such command", "delete B", "delete B for client"}
    ValueOf <- StringValue
    KnownActions = {"delete B", "delete B for client"}
    RunnableActions = {"delete B"}
    RarTypes = {"task"}
    Contexts = {"alice"}
    Keys = {"user", "mint"}
    Issuers = {"vault", "elsewhere"}
    Audiences = {"bridge"}
    Algorithms = {"HS256"}
    UserSecret = "user"
    Self <- VaultSelf
    RsVerifier <- VaultSelf
    ForeignTokens <- OtherTokens
    TicksPerSecond = 1
    MaxTTL = 1
    TTLs = {1}
    MaxTime = 2
    MaxApprovals = 1
    MaxMints = 2
    MaxRestarts = 1
    MaxRsRestarts = 1
SYMMETRY RsThreadSymmetry
INVARIANTS T2IInv RsParameterBinding OneExecutionPerPairOfLives RsReplayWindowBounded
    RsTokenLostOnlyToBadCall
PROPERTY RsKeepsContract
CHECK_DEADLOCK FALSE
