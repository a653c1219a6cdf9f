\* One document, whose runs three command lines start or find running; one of
\* them awaits the results.  Workflows of two documents share no state here.
CONSTANTS
  d1 = d1
  t1 = t1
  t2 = t2
  c1 = c1
  c2 = c2
  c3 = c3
  NoTask = NoTask
  Docs = {d1}
  Tasks = {t1, t2}
  Clis = {c1, c2, c3}
  Waiting = {c1}
  Listings <- MCListings
  MaxSubmissions = 3
  MaxSafetyPolls = 2
  CheckAttempts = 2
  MaxRuns = 2
SPECIFICATION StarterSpec
INVARIANTS TypeOK SubmissionsBounded PollsBounded GivesUpOnlyWhenSpent ExitCodeHonest
PROPERTIES FirstReportWins RunsWearOut Contract
SYMMETRY MCSymmetry
CHECK_DEADLOCK FALSE
