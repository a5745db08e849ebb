SPECIFICATION TokenSpec
CONSTANTS
    a1 = a1
    a2 = a2
    tokA = tokA
    tokB = tokB
    none = none
    Admins = {a1, a2}
    Tokens = {tokA, tokB}
    Inodes = {1, 2, 3, 4}
    NoFile = none
    MaxCrashes = 1
SYMMETRY AdminSymmetry
INVARIANTS TokenIInv QuietStoreIsExact RevocationHolds LiveTokenHonoured
CHECK_DEADLOCK FALSE
