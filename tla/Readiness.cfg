CONSTANTS
    DayLen = 4
    WeekLen = 3
    Pods = {p1, p2}
    Policies <- AllPolicies
    Phases = {0}
    Horizon = 14
    MaxEvents = 2
SPECIFICATION Spec
SYMMETRY Symmetry
INVARIANTS TypeOK WindowsOnceOpened ReadyOnlyWhenAllowed WebhookAgrees
CHECK_DEADLOCK FALSE
