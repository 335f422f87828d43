SPECIFICATION Spec
CONSTANTS
  w1 = w1
  t1 = t1
  t2 = t2
  Wallets = {w1}
  TxHashes = {t1, t2}
  ScheduleIds = {0}
  Log <- ShortLog
  Requests = {r1}
  RequestKinds <- AnyKinds
  Loop = loop
  MayOverlap = TRUE
  MaxFaults = 0
  MaxResets = 0
INVARIANTS
  HandledOncePerMarker
CHECK_DEADLOCK FALSE
