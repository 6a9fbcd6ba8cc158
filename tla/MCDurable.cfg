SPECIFICATION DurableSpec
CONSTANTS
    None = None
    Item <- ReplayItems
    Attr <- ReplayAttr
    Kinds = {"forward"}
    Job = {"j1", "j2"}
    Key = {"k1", "k2"}
    Chat = {"c1"}
    Topic = {}
    Msg = {1, 2}
    Album = {}
    CancelRequests <- NoRequests
    MaxPending = 3
    RecentKeys = 3
    BatchMax = 2
    Retries = 0
    PatientRetries = 0
    MaxFloods = 0
    QuietWindows = 0
    MaxBoots = 1
    MaxWrites = 1
INVARIANTS
    DurableTypeOK
    EveryChangeSaved
    
    HeldNotCopied
PROPERTIES
    DurableUntilSettled
CHECK_DEADLOCK FALSE
