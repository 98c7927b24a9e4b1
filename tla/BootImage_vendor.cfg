SPECIFICATION ImageSpec
CONSTANTS
    Page = 2
    BlockSize = 4
    ArgsSize = 2
    ExtraArgsSize = 2
    NameSize = 2
    Rounds = 2
    Originals <- MCVendor
    NewFiles <- MCNewFiles
INVARIANTS
    VendorFaithful
CHECK_DEADLOCK FALSE
