CONSTANTS
    n1 = n1  n2 = n2  n3 = n3  s1 = s1  s2 = s2  cas = cas  ca = ca  jks = jks
    Namespaces = {n1}
    TargetNamespaces = {n1}
    Kinds = {"ConfigMap"}
    Sources = {s1, s2, cas}
    DefaultCAs = cas
    Keys = {ca}
    Specs <- SourceSpecs
    SecretTargetsEnabled = FALSE
    Finalizers = FALSE
    FaultSites = {"patch", "cleanup", "delete", "status"}
    UserOps = {"spec", "source"}
    MaxUser = 2
    MaxFaults = 1
SPECIFICATION Spec
INVARIANTS TypeOK RestIsSynced WholeBundles
PROPERTIES NoRollback
CHECK_DEADLOCK FALSE
