\* a.pdf and a.docx in one upload.
CONSTANTS
  Calls = {c1, c2}
  Upload <- SameStem
  Formats <- Markdown
  Zip = TRUE
  MaxFaults = 0
SPECIFICATION Spec
INVARIANT FailedIsMarkedFailed
CHECK_DEADLOCK FALSE
