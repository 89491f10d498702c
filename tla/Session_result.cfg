SPECIFICATION SessionSpec
CONSTANTS
  Owner = o
  Attach = {}
  Stop = {s1}
  Rm = {}
  KeepGiven = FALSE
  MaxCrashes = 0
PROPERTY ResultStands
