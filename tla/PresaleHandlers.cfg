SPECIFICATION LiveSpec
CONSTANTS
  w1 = w1
  t1 = t1
  t2 = t2
  Wallets = {w1}
  TxHashes = {t1, t2}
  ScheduleIds = {0}
  Log <- ShortLog
  Requests = {r1}
  RequestKinds <- AnyKinds
  Loop = loop
  MayOverlap = FALSE
  MaxFaults = 1
  MaxResets = 1
INVARIANTS
  TypeOK
  RepeatsAreAccounted
  ClaimsLostOnlyByFaults
  LedgerMatchesMarkers
  LoopPassesOverFailuresOnly
  MarkedPurchaseIsRecorded
  UnclaimedBalances
PROPERTIES
  EveryEventSettles
CHECK_DEADLOCK FALSE
