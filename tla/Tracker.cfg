CONSTANTS
    None = None
    Pods = {p1}
    WCs = {w1, w2}
    Subjects = {s1, s2}
    Callers = {c1, c2}
    BufferSize = 1
    MaxCalls = 2
    MaxFailures = 1
    MaxInstances = 2
    MaxEvents = 1
SPECIFICATION FairSpec
INVARIANTS TypeOK NoLostWakeUp
PROPERTIES ImplementsHandoff EventuallyDrained
CHECK_DEADLOCK FALSE
