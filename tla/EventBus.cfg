\* A channel of two entries, three link changes and a push, both kinds of subscriber.
SPECIFICATION FairSpec
CONSTANTS
  n1 = n1  r1 = r1  p1 = p1
  Networks <- OneNetwork
  Routes <- OneRoutes
  Pushers <- OnePusher
  EVENT_CHANNEL_CAPACITY = 2
  MaxChanges = 3
  MaxPushes = 1
INVARIANTS GapsAdmitted ViewIsCurrent
 
CHECK_DEADLOCK FALSE
