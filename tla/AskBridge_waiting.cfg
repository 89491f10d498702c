\* An answer to one question against a new question.
SPECIFICATION Spec
CONSTANTS
  Ask = {a1, a2}
  Human = {h1}
  MaxPending = 2
  QuestionTimeout = FALSE
  AbortPolicy = FALSE
  WallClock = FALSE
SYMMETRY Symmetry
INVARIANTS
  WaitingWhileOutstanding
