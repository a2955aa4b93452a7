------------------------- MODULE PodAffinityProofs -------------------------
(***************************************************************************)
(* For any nodes, Pods and policies: a placed Pod may run exactly where    *)
(* its own affinity and the placement allow.                               *)
(***************************************************************************)
EXTENDS PodAffinity, TLAPS

\* requireNodeSelectorTerms is a conjunction: combining terms leaves the nodes that satisfy both.
LEMMA RequireIsAnd ==
    ASSUME NEW terms, NEW new, {} \notin terms, {} \notin new, new # {}, NEW n
    PROVE  Matches(n, RequireNodeSelectorTerms(terms, new)) <=> Matches(n, terms) /\ Matches(n, new)
<1>1. CASE terms = {}
  BY <1>1 DEF RequireNodeSelectorTerms, Matches
<1>2. CASE terms # {}
  <2> DEFINE both == {e \cup t : e \in terms, t \in new}
  <2>1. RequireNodeSelectorTerms(terms, new) = both
    BY <1>2 DEF RequireNodeSelectorTerms
  <2>a. \A b : b \in both <=> \E e \in terms, t \in new : b = e \cup t
    OBVIOUS
  <2> HIDE DEF both
  <2>2. both # {}
    <3>1. PICK e \in terms, t \in new : TRUE
      BY <1>2
    <3>2. e \cup t \in both
      BY <2>a
    <3>3. QED
      BY <3>2
  <2>3. ASSUME Matches(n, both)
        PROVE  Matches(n, terms) /\ Matches(n, new)
    <3>1. PICK b \in both : b # {} /\ \A r \in b : n \in r
      BY <2>2, <2>3 DEF Matches
    <3>2. PICK e \in terms, t \in new : b = e \cup t
      BY <2>a, <3>1
    <3>3. e # {} /\ t # {}
      BY <3>2
    <3>4. (\A r \in e : n \in r) /\ (\A r \in t : n \in r)
      BY <3>1, <3>2
    <3>5. QED
      BY <3>2, <3>3, <3>4 DEF Matches
  <2>4. ASSUME Matches(n, terms), Matches(n, new)
        PROVE  Matches(n, both)
    <3>1. PICK e \in terms : e # {} /\ \A r \in e : n \in r
      BY <1>2, <2>4 DEF Matches
    <3>2. PICK t \in new : t # {} /\ \A r \in t : n \in r
      BY <2>4 DEF Matches
    <3>3. e \cup t \in both /\ e \cup t # {} /\ \A r \in e \cup t : n \in r
      BY <2>a, <3>1, <3>2
    <3>4. QED
      BY <3>3 DEF Matches
  <2>5. QED
    BY <2>1, <2>3, <2>4
<1>3. QED
  BY <1>1, <1>2

\* What the terms of the webhook ask of a node.
LEMMA OnDemandTerm == \A n : Matches(n, {{OnDemand}}) <=> n \in OnDemand
  BY DEF Matches

\* What the terms of a fallback family select.
LEMMA FamilyTerms ==
    \A n, families : Matches(n, {{SpotNodes}, {OnDemand, families}})
                         <=> n \in SpotNodes \/ (n \in OnDemand /\ n \in families)
<1> SUFFICES ASSUME NEW n, NEW families
             PROVE  Matches(n, {{SpotNodes}, {OnDemand, families}})
                         <=> n \in SpotNodes \/ (n \in OnDemand /\ n \in families)
  OBVIOUS
<1> DEFINE terms == {{SpotNodes}, {OnDemand, families}}
<1>1. Matches(n, terms) <=> \E t \in terms : t # {} /\ \A r \in t : n \in r
  BY DEF Matches
<1>2. (\E t \in terms : t # {} /\ \A r \in t : n \in r)
          <=> \/ {SpotNodes} # {} /\ \A r \in {SpotNodes} : n \in r
              \/ {OnDemand, families} # {} /\ \A r \in {OnDemand, families} : n \in r
  BY ZenonT(30)
<1>3. QED
  BY <1>1, <1>2

-----------------------------------------------------------------------------
\* The fields of a Pod, and that a Pod still to be placed is the one that was asked for.
PodInv ==
    /\ asked \in PodSpec /\ pod \in PodSpec
    /\ placed = Unplaced => pod = asked
    /\ PlacementEnforced

\* The webhook's mutation for On-Demand.
LEMMA OnDemandStep == PodInv /\ MutateForOnDemand => PlacementEnforced'
<1> SUFFICES ASSUME PodInv, MutateForOnDemand
             PROVE  PlacementEnforced'
  OBVIOUS
<1>0. asked' = asked /\ placed'.as = "ondemand"
  BY DEF MutateForOnDemand
<1> SUFFICES ASSUME {} \notin asked.terms
             PROVE  /\ ~IsPodTargetedForSpot(pod')
                    /\ Eligible(pod') = {n \in OnDemand : Selected(n, asked.class) /\ Matches(n, asked.terms)}
  BY <1>0 DEF PlacementEnforced, Eligible, Selected, Matches
<1> DEFINE terms == RequireNodeSelectorTerms(asked.terms, {{OnDemand}})
<1>1. pod = asked /\ asked \in PodSpec
  BY DEF PodInv, MutateForOnDemand
<1>2. /\ pod'.spotSelector = FALSE /\ pod'.tolerates = FALSE
      /\ pod'.class = asked.class /\ pod'.terms = terms
  BY <1>1 DEF MutateForOnDemand, PodSpec
<1>3. \A n : Matches(n, terms) <=> Matches(n, asked.terms) /\ n \in OnDemand
  <2>1. TAKE n
  <2>2. Matches(n, terms) <=> Matches(n, asked.terms) /\ Matches(n, {{OnDemand}})
    <3>1. {} \notin {{OnDemand}} /\ {{OnDemand}} # {}
      OBVIOUS
    <3> QED
      BY <3>1, RequireIsAnd
  <2>3. QED
    BY <2>2, OnDemandTerm
<1>4. Eligible(pod') = {n \in Nodes : Selected(n, asked.class) /\ Matches(n, terms) /\ n \notin Tainted}
  BY <1>2 DEF Eligible
<1>5. OnDemand \subseteq Nodes /\ OnDemand \cap Tainted = {}
  BY NodesAssumption DEF OnDemand
<1>6. QED
  BY <1>2, <1>3, <1>4, <1>5 DEF IsPodTargetedForSpot

\* The webhook's mutation for Spot.
LEMMA SpotStep ==
    ASSUME NEW fallback \in BOOLEAN, NEW by \in Refinements, PodInv, MutateForSpot(fallback, by)
    PROVE  PlacementEnforced'
<1> DEFINE class    == IF asked.class = NoClass THEN by.class ELSE asked.class
           limited  == fallback /\ by.families # {}
           families == {{SpotNodes}, {OnDemand, by.families}}
           terms    == IF limited THEN RequireNodeSelectorTerms(asked.terms, families) ELSE asked.terms
           strict   == ~fallback \/ asked.spotSelector
<1>1. pod = asked /\ asked \in PodSpec
  BY DEF PodInv, MutateForSpot
<1>2. /\ asked' = asked /\ placed'.by = by
      /\ placed'.as = IF fallback THEN "flexible" ELSE "strict"
  BY DEF MutateForSpot
<1> SUFFICES ASSUME {} \notin asked.terms
             PROVE  /\ IsPodTargetedForSpot(pod')
                    /\ Eligible(pod') = {n \in Nodes : /\ Matches(n, asked.terms) /\ Selected(n, class)
                                                       /\ strict => n \in SpotNodes
                                                       /\ n \in OnDemand /\ by.families # {} => n \in by.families}
  BY <1>2 DEF PlacementEnforced, Eligible, Selected, Matches
<1>3. /\ pod'.spotSelector = (asked.spotSelector \/ ~fallback) /\ pod'.tolerates = TRUE
      /\ pod'.class = class /\ pod'.terms = terms
  BY <1>1 DEF MutateForSpot, PodSpec
<1>4. \A n \in Nodes : Matches(n, terms) <=> Matches(n, asked.terms) /\ (limited /\ n \in OnDemand => n \in by.families)
  <2>1. CASE ~limited
    BY <2>1
  <2>2. CASE limited
    <3>1. TAKE n \in Nodes
    <3>2. Matches(n, terms) <=> Matches(n, asked.terms) /\ Matches(n, families)
      <4>1. {} \notin families /\ families # {}
        OBVIOUS
      <4> QED
        BY <2>2, <4>1, RequireIsAnd
    <3>3. Matches(n, families) <=> n \in SpotNodes \/ (n \in OnDemand /\ n \in by.families)
      BY FamilyTerms
    <3>4. n \in OnDemand <=> n \notin SpotNodes
      BY DEF OnDemand
    <3>5. QED
      BY <2>2, <3>2, <3>3, <3>4
  <2>3. QED
    BY <2>1, <2>2
<1>5. Eligible(pod') = {n \in Nodes : (strict => n \in SpotNodes) /\ Selected(n, class) /\ Matches(n, terms)}
  BY <1>3 DEF Eligible
<1>6. \A n \in Nodes : n \in SpotNodes => n \notin OnDemand
  BY DEF OnDemand
<1>7. IsPodTargetedForSpot(pod')
  BY <1>3 DEF IsPodTargetedForSpot
<1>8. QED
  BY <1>4, <1>5, <1>6, <1>7

\* PodInv is inductive.
LEMMA PodInvKept == PodInv /\ [AffinityNext]_affinityVars => PodInv'
<1> SUFFICES ASSUME PodInv, [AffinityNext]_affinityVars
             PROVE  PodInv'
  OBVIOUS
<1>1. CASE MutateForOnDemand
  <2>1. placed' # Unplaced /\ asked' = asked
    BY <1>1 DEF MutateForOnDemand, Unplaced
  <2>2. RequireNodeSelectorTerms(pod.terms, {{OnDemand}}) \subseteq SUBSET SUBSET Nodes
    BY NodesAssumption DEF PodInv, PodSpec, RequireNodeSelectorTerms, OnDemand
  <2>3. pod' \in PodSpec
    BY <1>1, <2>2 DEF MutateForOnDemand, PodInv, PodSpec
  <2>4. QED
    BY <1>1, <2>1, <2>3, OnDemandStep DEF PodInv
<1>2. ASSUME NEW fallback \in BOOLEAN, NEW by \in Refinements, MutateForSpot(fallback, by)
      PROVE  PodInv'
  <2>1. placed' # Unplaced /\ asked' = asked
    BY <1>2 DEF MutateForSpot, Unplaced
  <2>2. RequireNodeSelectorTerms(pod.terms, {{SpotNodes}, {OnDemand, by.families}}) \subseteq SUBSET SUBSET Nodes
    BY NodesAssumption, AskedAssumption DEF PodInv, PodSpec, RequireNodeSelectorTerms, OnDemand
  <2>3. pod' \in PodSpec
    BY <1>2, <2>2, AskedAssumption DEF MutateForSpot, PodInv, PodSpec
  <2>4. QED
    BY <1>2, <2>1, <2>3, SpotStep DEF PodInv
<1>3. CASE UNCHANGED affinityVars
  BY <1>3 DEF affinityVars, PodInv, PlacementEnforced, Eligible, Selected, Matches, IsPodTargetedForSpot
<1>4. QED
  BY <1>1, <1>2, <1>3 DEF AffinityNext

\* Every Pod the webhook places may run exactly where its own affinity and the placement allow, and is
\* recognised as targeted for Spot later (mutateForSpot, mutateForOnDemand).
THEOREM AffinityPlacementEnforced == AffinitySpec => []PlacementEnforced
<1>1. AffinityInit => PodInv
  BY AskedAssumption DEF AffinityInit, PodInv, PlacementEnforced
<1>2. PodInv => PlacementEnforced
  BY DEF PodInv
<1>3. QED
  BY <1>1, <1>2, PodInvKept, PTL DEF AffinitySpec
=============================================================================
