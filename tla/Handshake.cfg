SPECIFICATION Spec
CONSTANTS
    Days = {"sat", "sun"}
    Unset = Unset
    Invalid = Invalid
    Keys = {"app"}
    Values = {"x", "y"}
    Other = Other
    Absent = Absent
    NilSelector = NilSelector
    OtherKind = OtherKind
    a = a
    b = b
    Policies = {a, b}
    Specs <- MCSpecs
    Reversions <- MCReversions
    GuardrailLists <- MCGuardrailLists
    OtherSelectors <- MCOtherSelectors
    Clusters <- MCClusters
    MaxEdits = 2
    MaxLag = 2
INVARIANTS TypeOK ConditionsAtRest FallbackAtRest MutatesOnlyValidated
PROPERTY Settles
CHECK_DEADLOCK FALSE
