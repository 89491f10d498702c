\* Two questions for one place and an operator, racing the timers under the abort
\* policy, the run's deadline and its cancellation.
SPECIFICATION FairSpec
CONSTANTS
  Ask = {a1, a2}
  Human = {h1}
  MaxPending = 1
  QuestionTimeout = TRUE
  AbortPolicy = TRUE
  WallClock = TRUE
INVARIANTS
  TypeOK
  AbortNeverDone
  PendingBounded
PROPERTIES
  ChannelSpec
  AbortEndsRun
  QuestionsResolve
