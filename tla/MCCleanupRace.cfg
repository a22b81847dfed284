CONSTANTS
    n1 = n1  n2 = n2  n3 = n3  s1 = s1  s2 = s2  cas = cas  ca = ca  jks = jks
    Namespaces = {n1}
    TargetNamespaces = {n1}
    Kinds = {"ConfigMap"}
    Sources = {s1, cas}
    DefaultCAs = cas
    Keys = {ca}
    Specs <- SelectorSpecs
    SecretTargetsEnabled = FALSE
    Finalizers = FALSE
    FaultSites = {}
    UserOps = {"spec", "target"}
    MaxUser = 2
    MaxFaults = 0
SPECIFICATION Spec
PROPERTIES DeletesOnlyEmpty
CHECK_DEADLOCK FALSE
