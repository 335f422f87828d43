SPECIFICATION LiveSpec
CONSTANTS
  Callers = {e1}
  NumProviders = 2
  MaxConsecutiveFailures = 2
  MaxRetries = 2
  Attempts = 2
  MaxVerdicts = 1
  MaxTimeouts = 1
  MaxCrashes = 1
INVARIANTS
  TypeOK
  HealthMatchesFailures
  WritesRepeatOnlyAfterInterruption
  CompletedJobsAreHandled
  GivenUpOnlyAfterAllTries
  FailuresAreKept
PROPERTIES
  EveryJobEnds
CHECK_DEADLOCK FALSE
