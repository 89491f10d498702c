SPECIFICATION SessionSpec
CONSTANTS
  Owner = o
  Attach = {p1}
  Stop = {s1}
  Rm = {}
  KeepGiven = TRUE
  MaxCrashes = 0
INVARIANT KeptHasSandbox
