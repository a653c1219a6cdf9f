\* Two workers, an abandoned submit, an upload; more documents than the queue
\* and the slots hold.
CONSTANTS
  NoDoc = NoDoc
  Docs = {d1, d2, d3, d4}
  Workers = {w1, w2}
  MaxQueued = 1
  MaxRunning = 1
  MaxAbandoned = 1
  MaxUploads = 1
SPECIFICATION FairSpec
INVARIANTS TypeOK OvershootBounded OneTaskEach
PROPERTY EveryDocumentAdmitted
CHECK_DEADLOCK FALSE
