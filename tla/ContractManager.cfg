SPECIFICATION LiveSpec
CONSTANTS
  NumTypes = 2
  StartBlock = 1
  MaxBlock = 5
  HistBatch = 1
  PollBatch = 2
  PrunedBuffer = 2
  HeadLag = 1
  MaxFaults = 3
INVARIANTS
  TypeOK
  NothingForgotten
  CursorInv
PROPERTIES
  PollCommitsDelivered
  CursorRetreatsOnlyByJump
  CheckpointStaysAboveResume
  ImplementsFeed
  CatchesUp
CHECK_DEADLOCK FALSE
