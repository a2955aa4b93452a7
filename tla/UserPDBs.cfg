CONSTANTS
    w1 = w1
    w2 = w2
    p1 = p1
    a = a
    b = b
    User = User
    None = None
    Pods = {p1}
    WCs = {w1}
    Subjects = {}
    Labels = {a}
    Age <- MCAge
    LeaseDuration = 1
    Specs <- OneSpec
    InitialWCs = {w1}
    InitialPods = {p1}
    InitialNS <- Guarded
    Kinds = {"cover", "pdb", "pod", "restart"}
    MaxChanges = 3
    MaxEvictions = 0
    MaxFaults = 1
    MaxTime = 0
SPECIFICATION Spec
CHECK_DEADLOCK FALSE
INVARIANTS ProtectedWhenQuiescent CleanWhenQuiescent
PROPERTIES UserPDBUntouched
