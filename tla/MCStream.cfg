SPECIFICATION Spec
CONSTANTS
    None = None
    Account <- Accounts
    RingSize = 2
    QueueSize = 1
    MaxSeq <- Numbers
    MaxBoots = 1
    MaxFaults = 1
    MaxStreams = 2
INVARIANTS
    StreamTypeOK
    
    CursorSurvives

    
CHECK_DEADLOCK FALSE
