SPECIFICATION RLiveSpec
CONSTANTS
  NumTypes = 2
  StartBlock = 0
  MaxBlock = 2
  HistBatch = 1
  PollBatch = 2
  PrunedBuffer = 1
  HeadLag = 0
  MaxFaults = 1
  Requests = {r1}
  RepBatch = 2
INVARIANTS
PROPERTIES
  PollCommitsItsRange
  ReprocessRestoresRange
  LoopSurvivesReprocess
CHECK_DEADLOCK FALSE
