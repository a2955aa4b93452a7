----------------------- MODULE ValidationRulesProofs -----------------------
(***************************************************************************)
(* Proofs about ValidationRules, for any label keys and values, any        *)
(* guardrails and policies, and any number of them.                        *)
(***************************************************************************)
EXTENDS ValidationRules, RulesProofs, SequenceTheorems

Selectors == {NilSelector} \cup {sel \in SUBSET Requirement : ValidSelector(sel)}

-----------------------------------------------------------------------------
(* Types. *)

\* Initially there is nothing to type.
LEMMA TypeInit == Init => TypeOK
BY InputsAssumption DEF Init, TypeOK

\* A selector grows by requirements that are valid on their own, and shrinks.
LEMMA SelectorTypes ==
    ASSUME NEW sel \in Selectors, NEW r \in Requirement
    PROVE  /\ ValidSelector({r}) => With(sel, r) \in Selectors
           /\ sel # NilSelector  => sel \ {r} \in Selectors
BY DEF Selectors, ValidSelector, With

\* Every step keeps the types.
LEMMA TypeNext == TypeOK /\ [Next]_vars => TypeOK'
<1> SUFFICES ASSUME TypeOK, [Next]_vars PROVE TypeOK'
    OBVIOUS
<1>1. ASSUME NEW g \in GuardrailInputs, CreateGuardrail(g) PROVE TypeOK'
    <2>1. gs \in Seq(GuardrailInputs) /\ <<g>> \in Seq(GuardrailInputs) /\ Len(<<g>>) = 1
        BY DEF TypeOK
    <2>2. Append(gs, g) \in Seq(GuardrailInputs) /\ Len(Append(gs, g)) = Len(gs) + 1
        BY <2>1
    <2>3. <<g>> \o gs \in Seq(GuardrailInputs) /\ Len(<<g>> \o gs) = Len(gs) + 1
        BY <2>1, ConcatProperties
    <2>4. gs' \in Seq(GuardrailInputs) /\ Len(gs') = Len(gs) + 1
        BY <1>1, <2>2, <2>3 DEF CreateGuardrail
    <2> QED
        BY <1>1, <2>1, <2>4, InputsAssumption DEF CreateGuardrail, TypeOK
<1>2. CASE DeleteGuardrail
    <2>1. gs' \in Seq(GuardrailInputs) /\ Len(gs') = Len(gs) - 1
        BY <1>2 DEF DeleteGuardrail, TypeOK
    <2> QED
        BY <1>2, <2>1, InputsAssumption DEF DeleteGuardrail, TypeOK
<1>3. ASSUME NEW r \in Requirement, AddRequirement(r) \/ DropRequirement(r) PROVE TypeOK'
    <2>1. gs' = gs
        BY <1>3 DEF AddRequirement, DropRequirement
    <2>2. first \in Selectors /\ second \in Selectors
        BY DEF TypeOK, Selectors
    <2>3. first' \in Selectors /\ second' \in Selectors
        BY <1>3, <2>2, SelectorTypes DEF AddRequirement, DropRequirement
    <2> QED
        BY <2>1, <2>3 DEF TypeOK, Selectors
<1>4. CASE UNCHANGED vars
    BY <1>4 DEF vars, TypeOK
<1> QED
    BY <1>1, <1>2, <1>3, <1>4 DEF Next

\* The selectors stay valid and the guardrails stay within their inputs.
THEOREM RulesTypes == Spec => []TypeOK
BY TypeInit, TypeNext, PTL DEF Spec

-----------------------------------------------------------------------------
(* The overlap of two selectors. *)

\* detectOverlaps reports two classes exactly if one Pod can be selected by both, for any label keys and values
\* and any number of requirements.
THEOREM RulesOverlapIsExact == Spec => []OverlapIsExact
<1>1. TypeOK => OverlapIsExact
    <2> SUFFICES ASSUME TypeOK PROVE OverlapIsExact
        OBVIOUS
    <2>1. first \in {NilSelector} \cup SUBSET Requirement /\ second \in {NilSelector} \cup SUBSET Requirement
        BY DEF TypeOK
    <2> QED
        BY <2>1, OverlapExact DEF OverlapIsExact
<1> QED
    BY <1>1, RulesTypes, PTL

-----------------------------------------------------------------------------
(* Several guardrails: the lemmas are those of RulesProofs. *)

\* The guardrails of a list are guardrails.
LEMMA ElemsType == TypeOK => Elems(gs) \subseteq Guardrail
BY InputsAssumption DEF TypeOK, Elems

\* validateAgainstGuardrails, which checks one effective guardrail, accepts a disruption policy exactly if each
\* guardrail does, however many there are and whether or not they leave a common day.
THEOREM RulesDisruptionRulesRespected == Spec => []DisruptionRulesRespected
<1>1. TypeOK => DisruptionRulesRespected
    BY ElemsType, DisruptionExact, InputsAssumption DEF DisruptionRulesRespected
<1> QED
    BY <1>1, RulesTypes, PTL

\* validateCapacityStrategy, on constraints folded from all guardrails, accepts a strategy exactly if each guardrail
\* does, Forbidden before Required, for any number of guardrails in any order.
THEOREM RulesCapacityRulesRespected == Spec => []CapacityRulesRespected
<1>1. TypeOK => CapacityRulesRespected
    <2>1. TypeOK => gs \in Seq(Guardrail)
        BY InputsAssumption DEF TypeOK
    <2> QED
        BY <2>1, CapacityExact, InputsAssumption DEF CapacityRulesRespected
<1> QED
    BY <1>1, RulesTypes, PTL

-----------------------------------------------------------------------------
(* One guardrail the admission webhook accepts. *)

\* Spot only, without fallback, and a reversion policy without a minimum time.
SpotOnly     == [type |-> "Spot", ratio |-> 100, fallback |-> "Fail"]
Reverting(a) == [action |-> a, minDuration |-> Unset]

\* A class may leave its strategy out or ask for Spot only, and a policy may ask for any reversion.
PlainInputs ==
    /\ Unset \notin CapacityStrategy /\ {Unset, SpotOnly} \subseteq StrategyInputs
    /\ \A a \in Action : Reverting(a) \in PolicyInputs

\* The guardrails of a list of one.
LEMMA ElemsOfOne ==
    ASSUME NEW g \in Guardrail
    PROVE  <<g>> \in Seq(Guardrail) /\ Elems(<<g>>) = {g}
BY DEF Elems

\* Leaving the strategy out respects a guardrail that forbids Spot, and Spot only every other.
LEMMA SomeStrategy ==
    ASSUME PlainInputs, NEW g \in Guardrail, GuardrailAccepted(g)
    PROVE  \E cs \in StrategyInputs : CapacityViolations(cs, <<g>>) = {}
<1>1. <<g>> \in Seq(Guardrail) /\ Elems(<<g>>) = {g} /\ Parsed(<<g>>) = {g}
    BY ElemsOfOne DEF Parsed, GuardrailAccepted
<1>2. g.parses /\ g.mode # Invalid /\ g.minSpotRatio # Invalid
    BY DEF GuardrailAccepted
<1>3. CASE g.mode = "Forbidden"
    <2>1. RespectsCapacity(Unset, <<g>>)
        BY <1>1, <1>2, <1>3 DEF RespectsCapacity
    <2> QED
        BY <1>1, <2>1, CapacityExact DEF PlainInputs
<1>4. CASE g.mode # "Forbidden"
    <2>1. SpotOnly \in CapacityStrategy /\ SpotOnly # Unset
        BY DEF SpotOnly, CapacityStrategy, Ratio, PlainInputs
    <2>2. SpotOnly.type = "Spot" /\ SpotOnly.ratio = 100 /\ SpotOnly.fallback = "Fail"
        BY DEF SpotOnly
    <2>3. g.minSpotRatio # Unset => 100 >= g.minSpotRatio
        BY <1>2 DEF Guardrail, Ratio
    <2>4. RespectsCapacity(SpotOnly, <<g>>)
        BY <1>1, <1>2, <1>4, <2>1, <2>2, <2>3 DEF RespectsCapacity
    <2> QED
        BY <1>1, <2>1, <2>4, CapacityExact DEF PlainInputs
<1> QED
    BY <1>3, <1>4

\* The reversion that a guardrail requires, or else an active one, respects it.
LEMMA SomePolicy ==
    ASSUME PlainInputs, NEW g \in Guardrail, GuardrailAccepted(g), g.mode # "Forbidden"
    PROVE  \E rev \in PolicyInputs : PolicyViolations(rev, <<g>>) = {}
<1>1. Elems(<<g>>) = {g} /\ Parsed(<<g>>) = {g} /\ g.parses
    BY ElemsOfOne DEF Parsed, GuardrailAccepted
<1>2. PICK a \in Action : g.required \in {Unset, a} /\ (g.maxFallbackDuration # Unset => a # "None")
    <2>1. g.required \in Action \cup {Unset}
        BY DEF Guardrail
    <2>2. g.maxFallbackDuration # Unset => g.required # "None"
        BY DEF GuardrailAccepted
    <2>3. CASE g.required = Unset
        BY <2>3 DEF Action
    <2>4. CASE g.required # Unset
        BY <2>1, <2>2, <2>4
    <2> QED
        BY <2>3, <2>4
<1>3. Reverting(a).action = a /\ Reverting(a).minDuration = Unset
    BY DEF Reverting
<1>4. PolicyViolations(Reverting(a), <<g>>) = {}
    BY <1>1, <1>2, <1>3 DEF PolicyViolations
<1> QED
    BY <1>4 DEF PlainInputs

\* No guardrail that the admission webhook accepts turns every class or, unless it forbids Spot, every policy down,
\* whatever its values: two strategies and three policies always are enough.
THEOREM RulesAcceptedIsSatisfiable == PlainInputs => (Spec => []AcceptedIsSatisfiable)
<1> SUFFICES ASSUME PlainInputs PROVE Spec => []AcceptedIsSatisfiable
    OBVIOUS
<1>1. TypeOK => AcceptedIsSatisfiable
    <2> SUFFICES ASSUME TypeOK, NEW i \in DOMAIN gs, GuardrailAccepted(gs[i])
                 PROVE  /\ \E cs \in StrategyInputs : CapacityViolations(cs, <<gs[i]>>) = {}
                        /\ gs[i].mode # "Forbidden" => \E rev \in PolicyInputs : PolicyViolations(rev, <<gs[i]>>) = {}
        BY DEF AcceptedIsSatisfiable
    <2>1. PICK g \in Guardrail : g = gs[i]
        BY ElemsType DEF Elems
    <2> QED
        BY <2>1, SomeStrategy, SomePolicy
<1> QED
    BY <1>1, RulesTypes, PTL
=============================================================================
