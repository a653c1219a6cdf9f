\* Two documents contend for the one submit slot; the callback of each is
\* delivered once, or refused and lost to the safety polls.
CONSTANTS
  Docs = {d1, d2}
  MaxSubmissions = 1
  MaxSafetyPolls = 1
  CheckAttempts = 1
  CallbackAttempts = 1
  MaxRuns = 1
  MaxTasks = 2
  MaxAbandoned = 0
SPECIFICATION FairSpec
INVARIANTS VerdictHonest SlotIsAwaited
PROPERTY EveryRunCloses
CHECK_DEADLOCK FALSE
