---------------------------- MODULE MCHandshake ----------------------------
(***************************************************************************)
(* Small instances of PlacementHandshake.                                  *)
(***************************************************************************)
EXTENDS PlacementHandshake, TLC

CONSTANTS a, b

In(v)    == [key |-> "app", op |-> "In", values |-> {v}]
NotIn(v) == [key |-> "app", op |-> "NotIn", values |-> {v}]
NoApp    == [key |-> "app", op |-> "DoesNotExist", values |-> {}]

Spot(ratio, fallback) == [type |-> "Spot", ratio |-> ratio, fallback |-> fallback]
AnyDay   == [windows |-> <<>>, maxDays |-> 0]
Weekend  == [windows |-> <<{"sat"}>>, maxDays |-> 3]

Class(cs, dp, sel, ref) == [cs |-> cs, dp |-> dp, sel |-> sel, ref |-> ref]

Sticky(ratio) == Class(Spot(ratio, "FallbackToOnDemand"), Weekend, {NotIn("x")}, a)

MCSpecs ==
    {Sticky(100),
     Class(Spot(50, "FallbackToOnDemand"), AnyDay, {In("x"), NotIn("y")}, b),
     Class(Unset, Weekend, {NoApp}, OtherKind)}

Free == [days |-> {}, maxWindows |-> 0, maxDays |-> 0, parses |-> TRUE, mode |-> "Allowed",
         minSpotRatio |-> Unset, allowFallback |-> TRUE, maxFallbackRatio |-> Unset,
         required |-> Unset, maxFallbackDuration |-> Unset]

Strict == <<[Free EXCEPT !.mode = "Required", !.days = {"sat"}], [Free EXCEPT !.minSpotRatio = 80, !.required = "None"]>>

MCGuardrailLists == {<<>>, Strict}

None == [action |-> "None", minDuration |-> Unset]
Active == [action |-> "Active", minDuration |-> 2]
MCReversions == {None, Active}
MCOtherSelectors == {NilSelector, {NotIn("x")}}

\* Classes that all controllers have reconciled, in a cluster without guardrails.
AtRest(spec, fb) ==
    [gen |-> 1, spec |-> spec, fb |-> fb, att |-> Condition("True", "ProfileResolved", {}, spec.ref, 1),
     val |-> Condition("True", "NoGuardrails", {}, Unset, 1)]

InFallback == Condition("True", "FallbackActive", {}, Unset, 1)

MCClusters ==
    {[wc |-> NewClass(Sticky(100)), rev |-> a :> None @@ b :> Unset, gs |-> Strict, sel |-> {NotIn("x")}, pods |-> "none"],
     [wc |-> AtRest(Sticky(100), InFallback), rev |-> a :> None @@ b :> Unset, gs |-> <<>>, sel |-> NilSelector, pods |-> "fallback"]}

\* A class in fallback whose user changes its ratio: nothing that may end the fallback happens.
LatchSpecs == {Sticky(100), Sticky(50)}
Latched    == {k \in MCClusters : k.wc.fb = InFallback}
=============================================================================
