SPECIFICATION FairSpec
CONSTANTS
    m1 = m1
    m2 = m2
    Modules = {m1, m2}
    ZygiskModules = {m1}
    RiruModules = {}
    NoModule = NoModule
    Scenes <- MCScenes
CHECK_DEADLOCK FALSE
INVARIANTS
    BootloopBounded
    OffStaysOff
    RemovedGone

    
