SPECIFICATION FairSpec
CONSTANTS
    Lane <- Lanes
    Worker = {w1, w2}
    LaneOf <- Chats
    LaneSize = 1
    QueueSize = 2
    Attempts = 2
    MaxCommands = 2
INVARIANTS
    DeliveryTypeOK
    LaneOrderKept
    OnePlace
PROPERTIES
    
    NeverStuck
CHECK_DEADLOCK FALSE
