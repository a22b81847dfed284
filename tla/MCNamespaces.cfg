CONSTANTS
    n1 = n1  n2 = n2  n3 = n3  s1 = s1  s2 = s2  cas = cas  ca = ca  jks = jks
    Namespaces = {n1}
    TargetNamespaces = {n1}
    Kinds = {"ConfigMap", "Secret"}
    Sources = {s1, cas}
    DefaultCAs = cas
    Keys = {ca}
    Specs <- KindSpecs
    SecretTargetsEnabled = TRUE
    Finalizers = FALSE
    FaultSites = {"patch", "cleanup", "delete", "status"}
    UserOps = {"spec", "namespace"}
    MaxUser = 2
    MaxFaults = 1
SPECIFICATION Spec
INVARIANTS RestIsSynced RestIsClean
CHECK_DEADLOCK FALSE
