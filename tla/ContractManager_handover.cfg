SPECIFICATION Spec
CONSTANTS
  NumTypes = 2
  StartBlock = 1
  MaxBlock = 5
  HistBatch = 1
  PollBatch = 2
  PrunedBuffer = 2
  HeadLag = 0
  MaxFaults = 1
INVARIANTS
  HandOverIsComplete
CHECK_DEADLOCK FALSE
