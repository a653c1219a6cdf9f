\* Two files, either of which may fail to convert, fetched one by one; one
\* of the formats has no field in the response; an upload and another call of any kind.
CONSTANTS
  Calls = {c1, c2}
  Upload <- TwoFiles
  Formats <- Mixed
  Zip = FALSE
  MaxFaults = 2
SPECIFICATION FairSpec
INVARIANT EachFileItsOwn
PROPERTY EveryCallAnswered
CHECK_DEADLOCK FALSE
