CONSTANTS
    ca = ca  jks = jks  p12 = p12
    Keys = {ca, jks, p12}
    SortedNames <- NamesAB
    Inputs <- ProfileInputs
    MaxEdits = 1
SPECIFICATION Spec
INVARIANTS DataUpToDate
