\* What the cleanup promises, no request failing.
CONSTANTS
  Calls = {c1, c2, c3}
  Upload <- OneFile
  Formats <- Markdown
  Zip = FALSE
  MaxFaults = 0
SPECIFICATION Spec
INVARIANT CleanupNeverRisksDelivery
CHECK_DEADLOCK FALSE
