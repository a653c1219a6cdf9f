\* Two clients ask for the result of one upload while storage is cleaned.
CONSTANTS
  Calls = {c1, c2, c3}
  Upload <- OneFile
  Formats <- Markdown
  Zip = FALSE
  MaxFaults = 1
SPECIFICATION Spec
INVARIANTS TypeOK LostOnlyAfterDelivery RecordDeletedLast
PROPERTIES TicketHonoured ClaimKept
SYMMETRY CallSymmetry
CHECK_DEADLOCK FALSE
