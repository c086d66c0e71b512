\* Two interfaces with global addresses only, watched from the start.
SPECIFICATION Spec
CONSTANTS
  k1 = k1
  Links = {1, 2}
  Addrs <- GlobalAddrs
  Mtus = {1280, 1500}
  Neighbors <- OneNeighbor
  Present = {}
INVARIANTS FamiliesTold NeighboursTold
CHECK_DEADLOCK FALSE
