\* Any two callers with any requests, in any order.
SPECIFICATION FairSpec
CONSTANTS
    Clients = {c1, c2}
    Daemons = {d1, d2}
    None = None
    Kinds <- MCRequests
    EntryRecurses = FALSE
INVARIANTS
    AnswerIsTrue
    OnlyPermitted
    
    OneDaemon

    
CHECK_DEADLOCK FALSE
