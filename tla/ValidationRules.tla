-------------------------- MODULE ValidationRules --------------------------
(***************************************************************************)
(* The verdicts of Guardrails and SelectorOverlap against what they are    *)
(* documented to mean, while an administrator creates and deletes          *)
(* guardrails and a user adds requirements to the selectors of two         *)
(* classes.                                                                *)
(***************************************************************************)
EXTENDS Guardrails, SelectorOverlap, FiniteSets

CONSTANTS
    GuardrailInputs,    \* guardrails
    DisruptionInputs,   \* disruption policies
    StrategyInputs,     \* capacity strategies, Unset included
    PolicyInputs,       \* reversion policies
    MaxGuardrails,      \* bound on the guardrails at one time
    MaxRequirements     \* bound on the requirements of one selector

ASSUME InputsAssumption ==
    /\ GuardrailInputs \subseteq Guardrail /\ DisruptionInputs \subseteq DisruptionPolicy
    /\ StrategyInputs \subseteq CapacityStrategy \cup {Unset} /\ PolicyInputs \subseteq Reversion
    /\ MaxGuardrails \in Nat /\ MaxRequirements \in Nat

VARIABLES
    gs,              \* the guardrails, in the order the cache lists them
    first, second    \* the podSelectors of two classes

vars == <<gs, first, second>>

Init == gs = <<>> /\ first = NilSelector /\ second = NilSelector

\* The two parts do not depend on each other, so only one of them moves away from its initial state.

\* A list has no order of its own: the new guardrail may come first or last.
CreateGuardrail(g) ==
    /\ first = NilSelector /\ second = NilSelector
    /\ Len(gs) < MaxGuardrails
    /\ gs' = Append(gs, g) \/ gs' = <<g>> \o gs
    /\ UNCHANGED <<first, second>>

DeleteGuardrail ==
    /\ gs # <<>>
    /\ gs' = Tail(gs)
    /\ UNCHANGED <<first, second>>

With(sel, r) == IF sel = NilSelector THEN {r} ELSE sel \cup {r}
Room(sel)    == sel # NilSelector => Cardinality(sel) < MaxRequirements

AddRequirement(r) ==
    /\ gs = <<>> /\ ValidSelector({r})
    /\ \/ Room(first)  /\ first'  = With(first, r)  /\ UNCHANGED second
       \/ Room(second) /\ second' = With(second, r) /\ UNCHANGED first
    /\ UNCHANGED gs

\* The last requirement to go leaves the empty selector, which selects every Pod.
DropRequirement(r) ==
    /\ \/ first # NilSelector  /\ r \in first  /\ first'  = first \ {r}  /\ UNCHANGED second
       \/ second # NilSelector /\ r \in second /\ second' = second \ {r} /\ UNCHANGED first
    /\ UNCHANGED gs

Next ==
    \/ \E g \in GuardrailInputs : CreateGuardrail(g)
    \/ DeleteGuardrail
    \/ \E r \in Requirement : AddRequirement(r) \/ DropRequirement(r)

Spec == Init /\ [][Next]_vars

-----------------------------------------------------------------------------
(* Properties *)

\* Every piece of state has its type.
TypeOK ==
    /\ gs \in Seq(GuardrailInputs) /\ Len(gs) <= MaxGuardrails
    /\ {first, second} \subseteq {NilSelector} \cup {sel \in SUBSET Requirement : ValidSelector(sel)}

\* The overlap that detectOverlaps reports between two classes is exact: one Pod can be selected by both.
OverlapIsExact == SelectorsOverlap(first, second) <=> CanSelectOnePod(first, second)

\* The one effective guardrail that validateAgainstGuardrails builds accepts a disruption policy exactly if each
\* guardrail does on its own, also when no day is left that all of them allow.
DisruptionRulesRespected ==
    \A dp \in DisruptionInputs : DisruptionViolations(dp, gs) = {} <=> RespectsDisruption(dp, gs)

\* The constraints folded from all guardrails accept a capacity strategy exactly if each guardrail does, with
\* Forbidden before Required, whatever order the list comes in and whatever part of it does not parse.
CapacityRulesRespected ==
    \A cs \in StrategyInputs : CapacityViolations(cs, gs) = {} <=> RespectsCapacity(cs, gs)

\* A guardrail the admission webhook accepts leaves a capacity strategy and, unless it forbids Spot, a policy
\* that respects it: no accepted guardrail turns every class of the cluster down.
AcceptedIsSatisfiable ==
    \A i \in DOMAIN gs : GuardrailAccepted(gs[i]) =>
        /\ \E cs \in StrategyInputs : CapacityViolations(cs, <<gs[i]>>) = {}
        /\ gs[i].mode # "Forbidden" => \E rev \in PolicyInputs : PolicyViolations(rev, <<gs[i]>>) = {}
=============================================================================
