SPECIFICATION Spec
CONSTANTS
    Uses <- MCUses
    MaxClients = 2
    MaxItems = 2
    TIMELINE_CAPACITY = 2
    CAPTURE_UI_LIMIT = 1
    None = None
    MAX_STREAMS = 16
    Installed <- MCInstalled
INVARIANTS
    RowsOfOneRun
    

    
    
    
CHECK_DEADLOCK FALSE
