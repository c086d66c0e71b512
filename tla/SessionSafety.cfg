\* Two calls against a limit of one stream, every kind of request.
SPECIFICATION Spec
CONSTANTS
  t1 = t1  t2 = t2
  NoTask = NoTask
  Tasks <- TwoTasks
  Ids <- TwoIds
  MAX_STREAMS = 1
  WRITE_QUEUE_DEPTH = 1
  MaxItems = 1
  MaxUnary = 1
  MaxEnds = 0
  Uses = {"cancel", "capture", "stop", "unary"}
  IdReuse = "never"
SYMMETRY TaskSymmetry
INVARIANTS TypeOK RegistryWithinLimit NoOrphan UnregisteredMeansOver
CHECK_DEADLOCK FALSE
