\* One document, converted up to twice, for a command line that waits and one
\* that does not; an abandoned submit, no relay.
CONSTANTS
  d1 = d1
  Docs = {d1}
  Clis = {c1, c2}
  Waiting = {c1}
  Listings <- MCListings
  MaxSubmissions = 1
  MaxSafetyPolls = 1
  CheckAttempts = 1
  CallbackAttempts = 0
  MaxRuns = 2
  MaxTasks = 3
  MaxAbandoned = 1
SPECIFICATION SystemFairSpec
INVARIANTS TypeOK LoadBounded RecordHonest SuccessIsReal
PROPERTY EveryWaitEnds
CHECK_DEADLOCK FALSE
