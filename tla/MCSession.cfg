SPECIFICATION FairSpec
CONSTANTS
    Object = {first, second}
    Request = {strict, generous}
    None = None
    Budgets = {1, 2}
    Default = 3
    MaxDrops = 2
INVARIANTS
    SessionTypeOK
    
    CaughtUpWhenOnline
    
PROPERTY Recovers
CHECK_DEADLOCK FALSE
