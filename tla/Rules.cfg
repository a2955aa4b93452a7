SPECIFICATION Either
CONSTANTS
    Days = {"sat", "sun"}
    Unset = Unset
    Invalid = Invalid
    Keys = {"app", "tier"}
    Values = {"x", "y"}
    Other = Other
    Absent = Absent
    NilSelector = NilSelector
    GuardrailInputs <- MCGuardrailInputs
    DisruptionInputs <- MCDisruptionInputs
    StrategyInputs <- MCStrategyInputs
    PolicyInputs <- MCPolicyInputs
    Nodes <- MCNodes
    SpotNodes <- MCSpotNodes
    Tainted <- MCTainted
    NoClass = NoClass
    Asked <- MCAsked
    Refinements <- MCRefinements
    MaxGuardrails = 3
    MaxRequirements = 2
INVARIANTS OverlapIsExact DisruptionRulesRespected CapacityRulesRespected AcceptedIsSatisfiable PlacementEnforced
CHECK_DEADLOCK FALSE
