SPECIFICATION BuyerSpec
CONSTANTS
  w1 = w1
  w2 = w2
  t1 = t1
  t2 = t2
  Wallets = {w1, w2}
  TxHashes = {t1, t2}
  ScheduleIds = {0}
  Log <- BuyAndClaim
  Requests = {r1}
  RequestKinds <- AllKinds
  Loop = loop
  MayOverlap = TRUE
  MaxFaults = 0
  MaxResets = 0
  EditedAmounts = {0}
  MaxEdits = 1
INVARIANTS
  TransactionsBackedByBalances
  UneditedBalancesAgree
  OwnSchedulesNotOverclaimed
CHECK_DEADLOCK FALSE
