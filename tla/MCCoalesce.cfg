SPECIFICATION Spec
CONSTANTS
    None = None
    Item <- CoalesceItems
    Attr <- CoalesceAttr
    Kinds = {"read"}
    Job = {"j1"}
    Key = {"k1", "k2", "k3", "k4"}
    Chat = {"c1"}
    Topic = {}
    Msg = {1, 2}
    Album = {}
    CancelRequests <- CoalesceRequests
    MaxPending = 3
    RecentKeys = 3
    BatchMax = 2
    Retries = 0
    PatientRetries = 1
    MaxFloods = 0
    QuietWindows = 1
INVARIANTS
    Scheduled
    NoLostWakeup
    SoundBatches
    BatchesFit

    
CHECK_DEADLOCK FALSE
