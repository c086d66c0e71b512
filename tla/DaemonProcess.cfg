\* Daemons started and stopped one at a time, and killed at any time.
SPECIFICATION Spec
CONSTANTS
  c1 = c1  c2 = c2  c3 = c3  d1 = d1  d2 = d2  d3 = d3
  None = None  Nobody = Nobody
  Clients <- MCClients
  Peer <- MCPeer
  Policy <- MCPolicy
  Daemons <- MCDaemons
  Self = d1
  ExitWhenIdle = TRUE
  Overlap = FALSE
  MaxStarts = 2
INVARIANTS NoExitWhileServing Reachable
PROPERTIES IdleExit RefusedByALiveDaemon
CHECK_DEADLOCK FALSE
