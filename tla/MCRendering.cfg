CONSTANTS
    ca = ca  jks = jks  p12 = p12
    Keys = {ca, jks, p12}
    SortedNames <- NamesAB
    Inputs <- AllInputs
    MaxEdits = 2
SPECIFICATION Spec
INVARIANTS CertsCurrent NothingLeftOver UpToDateInItsFormats Settles
