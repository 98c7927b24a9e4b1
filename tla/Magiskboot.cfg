SPECIFICATION Spec
CONSTANTS
    Page = 2
    BlockSize = 4
    ArgsSize = 2
    ExtraArgsSize = 2
    NameSize = 2
    Rounds = 2
    Originals <- MCOriginals
    NewFiles <- MCNewFiles
    OutCap = 2
    Chunk = 3
    BlockSz = 2
    ReadMax = 4
    Jobs <- MCJobs
INVARIANTS
    RepackFaithful
    SealsHold
    StreamFaithful
CHECK_DEADLOCK FALSE
