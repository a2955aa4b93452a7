SPECIFICATION Spec
CONSTANTS
    Pods = {1, 2}
    Owned = {1, 2}
    SpotNodes = {"s"}
    None = None
    NoPod = NoPod
    Gone = Gone
    Plans <- MCPlans
    Statuses <- MCStatuses
    Missing = Missing
    Unparsable = Unparsable
    Starts <- MCStarts
    Windows = {0, 2}
    RetryDelay = 1
    TooNewDelay = 2
    MaxTime = 3
    MaxEvents = 2
INVARIANTS TypeOK ConditionAtRest ReversionScheduled RatioHeld 
PROPERTY EvictsOnlyFallback
CHECK_DEADLOCK FALSE
