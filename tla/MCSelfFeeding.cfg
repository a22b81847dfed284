CONSTANTS
    Inputs <- NamespaceInputs
    Datas <- TwoDatas
    FilterExpiredCerts = FALSE
    FilterNonCACerts = FALSE
    DataKeys = {"ca", "mine"}
    MaxInLine = 5
    MaxEdits = 1
SPECIFICATION TNSpec
INVARIANT NoSelfFeeding
CHECK_DEADLOCK FALSE
