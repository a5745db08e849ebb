SPECIFICATION Spec
CONSTANTS
    t1 = t1
    t2 = t2
    Threads = {t1, t2}
    Actions = {"delete A", "delete B"}
    ValueOf <- StringValue
    RarTypes = {"task", "other"}
    Contexts = {"alice"}
    Keys = {"secret", "foreign"}
    Secret = "secret"
    ExpectedRar = {"task"}
    TicksPerSecond = 2
    MaxTTL = 2
    TTLs = {2, 4}
    MaxTime = 3
    MaxApprovals = 2
    MaxMints = 2
    MaxRestarts = 1
SYMMETRY ThreadSymmetry
INVARIANTS
    IInv ParameterBinding CredentialSpentOnce CredentialDiesWithProcess
    LifetimeEnforced SignatureExchangedOncePerLife
PROPERTY KeepsContract
CHECK_DEADLOCK FALSE
