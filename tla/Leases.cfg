CONSTANTS
    w1 = w1
    w2 = w2
    p1 = p1
    a = a
    b = b
    User = User
    None = None
    Pods = {p1}
    WCs = {w1}
    Subjects = {s1, s2}
    Labels = {a}
    Age <- MCAge
    LeaseDuration = 1
    Specs <- OneSpec
    InitialWCs = {w1}
    InitialPods = {p1}
    InitialNS <- Guarded
    Kinds = {"pod", "restart"}
    MaxChanges = 1
    MaxEvictions = 2
    MaxFaults = 1
    MaxTime = 1
SPECIFICATION Spec
SYMMETRY Symmetry
INVARIANTS TypeOK NoLostRequest LeaseWasRequested ProtectedWhenQuiescent
CHECK_DEADLOCK FALSE
