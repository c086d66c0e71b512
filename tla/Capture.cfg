\* Both limits set, five packets of two lengths.
SPECIFICATION FairSpec
CONSTANTS
  max_packets = 3
  max_bytes = 5
  Lengths <- TwoLengths
  Backlog = 2
  MaxTraffic = 5
INVARIANTS WithinLimits StatsMatchStream StopWithinOnePacket
 
CHECK_DEADLOCK FALSE
