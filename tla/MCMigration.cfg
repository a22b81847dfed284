CONSTANTS
    Specs <- TwoSpecs
    Manifests <- SomeManifests
    UserOps = {"edit", "bundle", "apply", "delete"}
    MaxUser = 3
    MaxFaults = 1
SPECIFICATION FairSpec
INVARIANTS TypeOK RestIsConsistent SafeToDelete
PROPERTY Converges
CHECK_DEADLOCK FALSE
