SPECIFICATION Spec
CONSTANTS
  Wallets = {w1}
  LoginRequests = {l1, l2}
  MaxNonces = 2
  Tables = {"BT", "PSS"}
  DeskRequests = {d1}
  Reviewers = {admin}
  MaxRows = 3
  MaxRemovals = 1
  t1 = t1
  t2 = t2
  Sample = Sample
  Senders = {s1}
  Purchases <- TwoPurchases
  MaxTime = 0
  MaxSends = 0
  MaxFailures = 0
  Addresses = {a1}
  Founder = a1
  AdminRequests = {}
  MaxAdminIds = 1
  Callers = {}
  NumProviders = 1
  MaxConsecutiveFailures = 1
  MaxRetries = 1
  MaxVerdicts = 0
  Probes = {}
  HealthyLag = 1
  NodeLag = 0
  MaxHead = 1
  MaxHandOuts = 0
INVARIANTS
  NoncesAreUsedOnce
CHECK_DEADLOCK FALSE
