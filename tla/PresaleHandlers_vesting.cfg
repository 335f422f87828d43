SPECIFICATION Spec
CONSTANTS
  w1 = w1
  t1 = t1
  t2 = t2
  Wallets = {w1}
  TxHashes = {t1, t2}
  ScheduleIds = {0}
  Log <- ShortLog
  Requests = {}
  RequestKinds <- AnyKinds
  Loop = loop
  MayOverlap = FALSE
  MaxFaults = 0
  MaxResets = 0
INVARIANTS
  ClaimsReachSchedules
CHECK_DEADLOCK FALSE
