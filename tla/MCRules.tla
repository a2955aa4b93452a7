------------------------------ MODULE MCRules ------------------------------
(***************************************************************************)
(* Small instances of ValidationRules and PodAffinity, which have nothing  *)
(* to do with each other: a behaviour is one of either.                    *)
(***************************************************************************)
EXTENDS ValidationRules, PodAffinity

Free == [days |-> {}, maxWindows |-> 0, maxDays |-> 0, parses |-> TRUE, mode |-> "Allowed",
         minSpotRatio |-> Unset, allowFallback |-> TRUE, maxFallbackRatio |-> Unset,
         required |-> Unset, maxFallbackDuration |-> Unset]

Count(n) == [kind |-> "Count", n |-> n]

OfDisruption ==
    {[Free EXCEPT !.days = d, !.maxWindows = w, !.maxDays = m] : d \in {{}, {"sat"}, {"sun"}}, w \in {0, 1}, m \in {0, 2}}

OfCapacity ==
    {[Free EXCEPT !.mode = m, !.minSpotRatio = s, !.allowFallback = f[1], !.maxFallbackRatio = f[2]] :
        m \in {"Allowed", "Required", "Forbidden", Invalid}, s \in {Unset, 50, Invalid},
        f \in {<<TRUE, Unset>>, <<TRUE, Count(0)>>, <<TRUE, Count(1)>>, <<FALSE, Unset>>}}

OfPolicies ==
    {[Free EXCEPT !.required = a, !.maxFallbackDuration = d] :
        a \in {"None", "Active", Unset}, d \in {Unset, 0, 1}}

MCGuardrailInputs == OfDisruption \cup OfCapacity \cup OfPolicies \cup {[Free EXCEPT !.parses = FALSE]}

MCDisruptionInputs ==
    [windows : {<<>>, <<{}>>, <<{"sat"}>>, <<{"sat"}, {"sun"}>>}, maxDays : {0, 2, 3}]

MCStrategyInputs ==
    {Unset} \cup [type : {"Spot", "OnDemand"}, ratio : {0, 40, 60, 100}, fallback : {"Fail", "FallbackToOnDemand"}]

\* The CRD allows a minDurationOnFallback other than 0 with Active only.
MCPolicyInputs == {r \in [action : Action, minDuration : {Unset, 0, 2}] : r.minDuration = 2 => r.action = "Active"}

-----------------------------------------------------------------------------
Node(spot, family) == [spot |-> spot, family |-> family]
MCNodes     == {Node(spot, family) : spot \in BOOLEAN, family \in {"e2", "n2"}}
MCSpotNodes == {n \in MCNodes : n.spot}
MCTainted   == {Node(TRUE, "e2")}
Family(f)   == {n \in MCNodes : n.family = f}

UserTerms == {{}, {Family("e2")}, {Family("n2"), MCSpotNodes}, {MCNodes \ MCSpotNodes}}

MCAsked ==
    [spotSelector : BOOLEAN, class : {NoClass, Family("e2")}, tolerates : BOOLEAN, terms : SUBSET UserTerms]

MCRefinements == [class : {NoClass, Family("n2")}, families : {{}, Family("e2"), Family("n2")}]

Plain == [spotSelector |-> FALSE, class |-> NoClass, tolerates |-> FALSE, terms |-> {}]

\* While the rules change nothing is placed, and it does not matter which Pod waits.
ChangeRules == asked = Plain /\ placed = Unplaced /\ Next /\ UNCHANGED affinityVars
PlacePod    == gs = <<>> /\ first = NilSelector /\ second = NilSelector /\ AffinityNext /\ UNCHANGED vars

EitherInit == Init /\ AffinityInit
EitherNext == ChangeRules \/ PlacePod
Either     == EitherInit /\ [][EitherNext]_<<vars, affinityVars>>
=============================================================================
