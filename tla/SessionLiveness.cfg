\* Teardown and reporting under the runtime's fairness; no symmetry.
SPECIFICATION FairSpec
CONSTANTS
  t1 = t1  t2 = t2
  NoTask = NoTask
  Tasks <- TwoTasks
  Ids <- TwoIds
  MAX_STREAMS = 1
  WRITE_QUEUE_DEPTH = 1
  MaxItems = 0
  MaxUnary = 1
  MaxEnds = 0
  Uses = {"cancel", "unary"}
  IdReuse = "never"
PROPERTIES TeardownCompletes OverIsReported
CHECK_DEADLOCK FALSE
