CONSTANTS
    w1 = w1
    w2 = w2
    p1 = p1
    a = a
    b = b
    User = User
    None = None
    Pods = {p1}
    WCs = {w1, w2}
    Subjects = {}
    Labels = {a, b}
    Age <- MCAge
    LeaseDuration = 1
    Specs <- TwoClasses
    InitialWCs = {w1, w2}
    InitialPods = {p1}
    InitialNS <- Guarded
    Kinds = {"delwc", "spec"}
    MaxChanges = 2
    MaxEvictions = 0
    MaxFaults = 0
    MaxTime = 0
SPECIFICATION Spec
INVARIANTS ProtectedWhenQuiescent
CHECK_DEADLOCK FALSE
