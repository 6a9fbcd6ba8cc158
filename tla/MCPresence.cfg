SPECIFICATION Spec
CONSTANTS
    Worker = {"react", "reply"}
    Actions = 4
    Disconnects = 1
INVARIANTS
    PresenceTypeOK
    OnlineWhileActing
CHECK_DEADLOCK FALSE
