SPECIFICATION RunSpec
CHECK_DEADLOCK FALSE
CONSTANTS
  MaxEdits = 1
  Transcripts = FALSE
  Deadlines = TRUE
INVARIANT SuccessStands
