\* The call contract below the stream limit, ids reused as service.proto allows.
SPECIFICATION Spec
CONSTANTS
  t1 = t1  t2 = t2
  NoTask = NoTask
  Tasks <- TwoTasks
  Ids <- TwoIds
  MAX_STREAMS = 3
  WRITE_QUEUE_DEPTH = 1
  MaxItems = 1
  MaxUnary = 0
  MaxEnds = 0
  Uses = {"capture"}
  IdReuse = "completed"
PROPERTY ContractSpec
CHECK_DEADLOCK FALSE
