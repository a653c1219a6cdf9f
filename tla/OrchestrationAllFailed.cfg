\* A document whose second conversion produces nothing.
CONSTANTS
  Docs = {d1}
  MaxSubmissions = 1
  MaxSafetyPolls = 1
  CheckAttempts = 1
  CallbackAttempts = 1
  MaxRuns = 2
  MaxTasks = 2
  MaxAbandoned = 0
SPECIFICATION Spec
INVARIANT AllFailedIsAFailure
CHECK_DEADLOCK FALSE
