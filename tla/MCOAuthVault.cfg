SPECIFICATION Spec
CONSTANTS
    t1 = t1
    t2 = t2
    Threads = {t1, t2}
    Actions = {"set 1", "set True", "delete B"}
    ValueOf <- PythonValue
    RarTypes = {"task", "other"}
    Contexts = {"alice"}
    Keys = {"user", "mint", "foreign"}
    Issuers = {"vault", "elsewhere"}
    Audiences = {"bridge"}
    Algorithms = {"HS256", "none"}
    UserSecret = "user"
    Self <- VaultSelf
    ForeignTokens <- OddTokens
    TicksPerSecond = 1
    MaxTTL = 1
    TTLs = {1, 2}
    MaxTime = 2
    MaxApprovals = 1
    MaxMints = 2
    MaxRestarts = 1
SYMMETRY ThreadSymmetry
INVARIANTS
    IInv SignatureLostOnlyToEncoding ParameterBinding TokenSpentOncePerLife
    ReplayWindowBounded SignatureExchangedOncePerLife
PROPERTY KeepsContract
CHECK_DEADLOCK FALSE
