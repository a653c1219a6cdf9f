\* What the PollBudgetExhausted message says.
CONSTANTS
  Docs = {d1}
  MaxSubmissions = 1
  MaxSafetyPolls = 1
  CheckAttempts = 1
  CallbackAttempts = 1
  MaxRuns = 1
  MaxTasks = 1
  MaxAbandoned = 0
SPECIFICATION Spec
INVARIANT BudgetSpentMeansNoCallback
CHECK_DEADLOCK FALSE
