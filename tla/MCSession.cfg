\* Four messages of the client, two of the remote end.
SPECIFICATION FairSpec
CONSTANTS
    MaxSent <- MaxSentMC
    None = None
INVARIANTS
    InOrder
    
    OnlyKnownUsers

    
CHECK_DEADLOCK FALSE
