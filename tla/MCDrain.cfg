SPECIFICATION FairSpec
CONSTANTS
    None = None
    Item <- DrainItems
    Attr <- DrainAttr
    Kinds = {"read", "react"}
    Job = {"j1"}
    Key = {"k2", "k3"}
    Chat = {"c1"}
    Topic = {}
    Msg = {1, 2}
    Album = {}
    CancelRequests <- CoalesceRequests
    MaxPending = 3
    RecentKeys = 3
    BatchMax = 2
    Retries = 0
    PatientRetries = 1
    MaxFloods = 0
    QuietWindows = 1
PROPERTIES
    EveryActionEnds
CHECK_DEADLOCK FALSE
