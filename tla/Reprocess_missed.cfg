SPECIFICATION RSpec
CONSTANTS
  NumTypes = 2
  StartBlock = 1
  MaxBlock = 4
  HistBatch = 1
  PollBatch = 2
  PrunedBuffer = 1
  HeadLag = 0
  MaxFaults = 0
  Requests = {r1}
  RepBatch = 2
INVARIANTS
  ReprocessMissesNothing
CHECK_DEADLOCK FALSE
