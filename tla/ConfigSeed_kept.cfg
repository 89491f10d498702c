\* Seeding a file that may hold an integer of more than 53 bits.
SPECIFICATION SeedSpec
CHECK_DEADLOCK FALSE
CONSTANTS
  Field = {"k", "l", "m"}
  Scalar = {"null", "wide", "rounded", "x", "y"}
  Depth = 3
INVARIANT NothingOverwritten
