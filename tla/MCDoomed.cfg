SPECIFICATION DurableSpec
CONSTANTS
    None = None
    Item <- PairItems
    Attr <- PairAttr
    Kinds = {"forward"}
    Job = {"j1"}
    Key = {"k1"}
    Chat = {"c1"}
    Topic = {}
    Msg = {1}
    Album = {}
    CancelRequests <- CancelAll
    MaxPending = 3
    RecentKeys = 3
    BatchMax = 2
    Retries = 0
    PatientRetries = 1
    MaxFloods = 0
    QuietWindows = 0
    MaxBoots = 1
    MaxWrites = 2
PROPERTIES
    DoomedStaysDoomed
CHECK_DEADLOCK FALSE
