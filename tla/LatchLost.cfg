SPECIFICATION Spec
CONSTANTS
    Days = {"sat", "sun"}
    Unset = Unset
    Invalid = Invalid
    Keys = {"app"}
    Values = {"x", "y"}
    Other = Other
    Absent = Absent
    NilSelector = NilSelector
    OtherKind = OtherKind
    a = a
    b = b
    Policies = {a, b}
    Specs <- LatchSpecs
    Reversions <- MCReversions
    GuardrailLists <- MCGuardrailLists
    OtherSelectors <- MCOtherSelectors
    Clusters <- Latched
    MaxEdits = 1
    MaxLag = 2
PROPERTY LatchHeld
CHECK_DEADLOCK FALSE
