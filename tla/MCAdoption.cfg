CONSTANTS
    Specs <- TwoSpecs
    Manifests <- MoreManifests
    UserOps = {"apply"}
    MaxUser = 1
    MaxFaults = 0
SPECIFICATION Spec
INVARIANT MigratedIsUsers
CHECK_DEADLOCK FALSE
