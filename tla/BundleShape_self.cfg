\* Repositories of up to three commits, shallow or not, their HEAD on a branch or off it.
SPECIFICATION BundleSpec
CHECK_DEADLOCK FALSE
CONSTANT Tip = tip
INVARIANT SelfContained
