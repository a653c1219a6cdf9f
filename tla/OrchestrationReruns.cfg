\* A document converted again after its first run closed, checks and callbacks
\* attempted twice, and two tasks: a lost or abandoned one and its successor,
\* or one of each run, with the callbacks of both still on their way.
CONSTANTS
  Docs = {d1}
  MaxSubmissions = 2
  MaxSafetyPolls = 2
  CheckAttempts = 2
  CallbackAttempts = 2
  MaxRuns = 2
  MaxTasks = 2
  MaxAbandoned = 1
SPECIFICATION Spec
INVARIANTS VerdictHonest NoNeedlessConversion AcknowledgedIsTold
CHECK_DEADLOCK FALSE
