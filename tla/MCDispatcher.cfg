SPECIFICATION DispatcherSpec
CONSTANTS
    x = x
    y = y
    t1 = t1
    t2 = t2
    Threads = {t1, t2}
    Nobody = "nobody"
    Ids = {"A", "B"}
    Texts = {x, y}
    Keep = "keep"
    MaxVersions = 2
    Callers = {"reader"}
    InProcess = "in process"
    Unfit = {"unfit"}
    Scopes <- ReadersOnly
SYMMETRY TextAndThreadSymmetry
INVARIANTS
    DispatcherIInv ReturnsWholeTasks DeletionsConsented SpentCredentialsRun
CHECK_DEADLOCK FALSE
