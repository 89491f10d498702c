SPECIFICATION LaunchSpec
CHECK_DEADLOCK FALSE
CONSTANTS
  Files <- SomeFiles
  Commands <- SomeCommands
INVARIANT PromptNotHijacked
