SPECIFICATION FairSpec
CONSTANTS
    Worker = {"react", "reply"}
    Actions = 4
    Disconnects = 0
PROPERTIES
    GoesOffline
CHECK_DEADLOCK FALSE
