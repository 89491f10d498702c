SPECIFICATION CollectSpec
CHECK_DEADLOCK FALSE
CONSTANTS
  owner = owner
  visitor = visitor
  Supervisor = owner
  Visitors <- MCVisitors
  MaxVersions = 1
INVARIANT PatchSurvivesGit
