SPECIFICATION FairSpec
CONSTANTS
    a = a
    b = b
    m = m
    s = s
    Procs = {a, b, m, s}
    Companions = {d1, d2}
    None = None
    Role <- MCRole
    Abi <- MCAbi
    Lib <- MCLib
    ZygiskDir = {1, 2, 3, 4}
    HasEntry = {3}
    Scenes <- MCScenes
PROPERTIES StartupErrorEnds
CHECK_DEADLOCK FALSE
