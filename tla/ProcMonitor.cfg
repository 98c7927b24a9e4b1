\* Four small devices, with su mounted as module_kitsune.cpp does it.
SPECIFICATION FairSpec
CONSTANTS
    Pids = {p1, p2, p3}
    None = None
    SuBinOpen = TRUE
    Scenes <- MCScenes

    
PROPERTIES
    TargetsChanged
    
CHECK_DEADLOCK FALSE
