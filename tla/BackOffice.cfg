SPECIFICATION Spec
CONSTANTS
  Wallets = {w1}
  LoginRequests = {l1, l2, l3}
  MaxNonces = 3
  Tables = {"BT", "PSS"}
  DeskRequests = {d1, d2}
  Reviewers = {admin}
  MaxRows = 2
  MaxRemovals = 1
  t1 = t1
  t2 = t2
  Sample = Sample
  Senders = {s1, s2}
  Purchases <- TwoPurchases
  MaxTime = 1
  MaxSends = 3
  MaxFailures = 1
  Addresses = {a1, a2, a3}
  Founder = a1
  AdminRequests = {r1, r2}
  MaxAdminIds = 3
  Callers = {}
  NumProviders = 2
  MaxConsecutiveFailures = 1
  MaxRetries = 1
  MaxVerdicts = 2
  Probes = {h1}
  HealthyLag = 2
  NodeLag = 1
  MaxHead = 3
  MaxHandOuts = 4
INVARIANTS
  TypeOK
  LoginsUseUpNonces
  NumbersHaveNoGaps
  DecisionsHitTheRowSeen
  CertificatesAreTheirOwn
  RecordsAreTrue
  RemovedAdminsFinishRequestsOnly
  LockoutNeedsSelfRemovalOrRace
  RotationIsFair
  HealthyReportsAreSound
PROPERTIES
  UsedNoncesAreRefused
CHECK_DEADLOCK FALSE
