CONSTANTS
    n1 = n1  n2 = n2  n3 = n3  s1 = s1  s2 = s2  cas = cas  ca = ca  jks = jks
    Namespaces = {n1, n2, n3}
    TargetNamespaces = {n1, n2}
    Kinds = {"ConfigMap"}
    Sources = {s1, cas}
    DefaultCAs = cas
    Keys = {ca}
    Specs <- FixedSpec
    SecretTargetsEnabled = FALSE
    Finalizers = FALSE
    FaultSites = {}
    UserOps = {"target", "source"}
    MaxUser = 1
    MaxFaults = 0
SPECIFICATION FairSpec
INVARIANTS StaysInTargetNamespaces
PROPERTIES TargetsServed ImplementsStore
CHECK_DEADLOCK FALSE
