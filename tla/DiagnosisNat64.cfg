\* A DNS64 server with each of the prefix lengths.
SPECIFICATION InspectionSpec
CONSTANTS
    None = None
    Requests <- Nat64Requests
    Readings <- MCReadings
    MaxServers = 2
    ChannelCap = 64
INVARIANT
    Nat64PrefixRecovered
CHECK_DEADLOCK FALSE
