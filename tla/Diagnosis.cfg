SPECIFICATION InspectionSpec
CONSTANTS
    None = None
    Requests <- MCRequests
    Readings <- MCReadings
    MaxServers = 2
    ChannelCap = 64
INVARIANTS
    FindingsAreEarned
    
    SkipsProveNothing
    StreamIsTheReport
    
    MatchingRulesExplain
    
    VpnVerdictsAgree
PROPERTIES
    DiagnosisEnds
CHECK_DEADLOCK FALSE
