SPECIFICATION Spec
CHECK_DEADLOCK FALSE
CONSTANTS
  Owner = owner
  Attach = {p1, p2}
  Stop = {s1}
  Rm = {d1}
  KeepGiven = TRUE
  MaxCrashes = 1
  Run = {1, 2, 3, 4, 5}
  Limit <- MixedLimits
  MaxEdits = 2
  Transcripts = TRUE
  Deadlines = TRUE
  Supervisor = supervisor
  Visitors = {visitor}
  MaxVersions = 1
  MaxUpgrades = 3
  Runs = {r1, r2}
  Images = {i}
  Image <- OneImage
  MaxLog = 5
  Chunk = 2
  Files <- SomeFiles
  Commands <- SomeCommands
  Label = {"a", "b", "1"}
  Hosts <- SomeHosts
  Entries <- SomeEntries
  Policies <- SomePolicies
  Tip = tip
  Path = {"p", "h"}
  Reason = {"hook"}
  Char = {"a", "b", "n"}
  MaxLen = 5
  HeadLen = 2
  Field = {"k", "l", "m"}
  Scalar = {"null", "wide", "rounded", "x", "y"}
  Depth = 3
  KeySets <- SomeKeySets
  Inputs <- SomeInputs
  Words = 16
  Scale = 2
  MemMargin = 3
  DiskMargin = 2
INVARIANTS
  TypeOK
  OneInside SandboxReachable NoneStranded Capped
  RelationsExact PolicyHolds RedactionHolds RestStays LintHolds SeedHolds BundleClones ResourcesHold
  SnapshotIsOfStart NothingLeftBehind DoneIsWhole
  GitNotTrusted KraytIsThere BackupIsWhole OrphansNamed WholeLogShown
  OperatorDecides PromptIsTheOperators OneCredential
PROPERTIES
  SignalTearsDown PoolSpec Served
  DiagnosticsFirst EndedRunReturns PatchIsCurrent RetentionHolds AttachEnds
