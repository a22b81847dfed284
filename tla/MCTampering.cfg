CONSTANTS
    n1 = n1  n2 = n2  n3 = n3  s1 = s1  s2 = s2  cas = cas  ca = ca  jks = jks
    Namespaces = {n1}
    TargetNamespaces = {n1}
    Kinds = {"ConfigMap"}
    Sources = {s1, cas}
    DefaultCAs = cas
    Keys = {ca, jks}
    Specs <- FormatSpecs
    SecretTargetsEnabled = FALSE
    Finalizers = TRUE
    FaultSites = {}
    UserOps = {"bundle", "source", "spec", "target"}
    MaxUser = 3
    MaxFaults = 0
SPECIFICATION Spec
INVARIANTS RestIsSynced RestIsClean
CHECK_DEADLOCK FALSE
