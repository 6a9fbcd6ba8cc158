SPECIFICATION Spec
CONSTANTS
    None = None
    Item <- AlbumItems
    Attr <- AlbumAttr
    Kinds = {"react", "read"}
    Job = {"j1"}
    Key = {"k1", "k2", "k3", "k4"}
    Chat = {"c1"}
    Topic = {}
    Msg = {1, 2, 3}
    Album = {"g"}
    CancelRequests = {}
    MaxPending = 1
    RecentKeys = 1
    BatchMax = 2
    Retries = 0
    PatientRetries = 0
    MaxFloods = 0
    QuietWindows = 0
INVARIANTS
    AlbumActsOnce
    CaptionFlagAgrees
PROPERTIES
    RunningKeepsTarget
CHECK_DEADLOCK FALSE
