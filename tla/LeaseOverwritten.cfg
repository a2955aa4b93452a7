CONSTANTS
    w1 = w1
    w2 = w2
    p1 = p1
    a = a
    b = b
    User = User
    None = None
    Pods = {p1}
    WCs = {w1}
    Subjects = {s1}
    Labels = {a}
    Age <- MCAge
    LeaseDuration = 1
    Specs <- OneSpec
    InitialWCs = {w1}
    InitialPods = {p1}
    InitialNS <- Guarded
    Kinds = {}
    MaxChanges = 0
    MaxEvictions = 2
    MaxFaults = 0
    MaxTime = 1
SPECIFICATION Spec
PROPERTIES ActiveLeaseUntouched
CHECK_DEADLOCK FALSE
