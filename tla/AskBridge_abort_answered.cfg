\* A timeout against an operator answering at the same time.
SPECIFICATION Spec
CONSTANTS
  Ask = {a1}
  Human = {h1}
  MaxPending = 1
  QuestionTimeout = TRUE
  AbortPolicy = TRUE
  WallClock = FALSE
INVARIANTS
  NoAbortAfterAnswer
