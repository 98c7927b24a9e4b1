\* Two requests, one change of the database besides the answers.
SPECIFICATION FairSpec
CONSTANTS
    r1 = r1
    r2 = r2
    Requests = {r1, r2}
    None = None
    Uids <- MCUids
    Scenes <- MCScenes
    MaxChanges = 1
INVARIANTS
    GrantBacked
    
    SharedDecision
PROPERTIES
    RequestsAnswered
CHECK_DEADLOCK FALSE
