SPECIFICATION Spec
CONSTANTS
    None = None
    Item <- RetryItems
    Attr <- RetryAttr
    Kinds = {"reply"}
    Job = {"j1", "j2"}
    Key = {"k1", "k2"}
    Chat = {"c1", "c2"}
    Topic = {}
    Msg = {1}
    Album = {}
    CancelRequests <- RetryRequests
    MaxPending = 2
    RecentKeys = 1
    BatchMax = 2
    Retries = 1
    PatientRetries = 1
    MaxFloods = 1
    QuietWindows = 0
INVARIANTS
    TypeOK
    OneItemPerKey
    BoundedRetries
PROPERTIES
    DoomedNeverRequeued
    PromiseKept
CHECK_DEADLOCK FALSE
