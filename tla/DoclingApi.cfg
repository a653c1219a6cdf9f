\* A submit of one tenant and a second call of the same or the other: back
\* pressure once, the queue processor dies once.
CONSTANTS
  c1 = c1
  t1 = t1
  Calls = {c1, c2}
  Tenants = {t1, t2}
  MaxWaits = 1
  MaxFaults = 1
  MaxDeaths = 1
SPECIFICATION MCFairSpec
INVARIANTS TypeOK SubscribersAreServed ClosedOnTheEnding ForeignTasksLookUnknown
PROPERTIES RequestsWearOut ServiceKept CompletionIsHeard EveryRequestAnswered DeadProcessorReplaced
CHECK_DEADLOCK FALSE
