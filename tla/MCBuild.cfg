CONSTANTS
    Inputs <- AllInputs
    FilterExpiredCerts = TRUE
    FilterNonCACerts = TRUE
    DataKeys = {"ca", "other", "b", "jks"}
    MaxInLine = 5
SPECIFICATION Spec
INVARIANTS IsUnionOfSources BlamesARealFault ReportsDefaultCAs AcceptedPackageIsValid
           AdmittedIsUnderstood RoundTripIsEquivalent ConvertsToAdmissible
CHECK_DEADLOCK FALSE
