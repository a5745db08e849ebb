SPECIFICATION Spec
CONSTANTS
    t1 = t1
    t2 = t2
    Threads = {t1, t2}
    Actions = {"set 1", "delete B"}
    ValueOf <- PythonValue
    RarTypes = {"task"}
    Contexts = {"alice"}
    Keys = {"user", "mint", "foreign"}
    Issuers = {"vault", "elsewhere"}
    Audiences = {"bridge"}
    Algorithms = {"HS256", "none"}
    UserSecret = "user"
    Self <- VaultSelf
    ForeignTokens <- OtherTokens
    TicksPerSecond = 2
    MaxTTL = 2
    TTLs = {2}
    MaxTime = 3
    MaxApprovals = 2
    MaxMints = 2
    MaxRestarts = 0
SYMMETRY ThreadSymmetry
INVARIANT SpentSignatureHasCredential
CHECK_DEADLOCK FALSE
