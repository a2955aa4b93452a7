---------------------------- MODULE PodAffinity ----------------------------
(***************************************************************************)
(* What the Pod placement webhook writes into a Pod's nodeSelector,        *)
(* tolerations and node affinity (internal/webhook/v1/pod_placement.go),   *)
(* and where the scheduler may then run the Pod.                           *)
(*                                                                         *)
(* A node selector requirement is the set of the nodes that satisfy it, a  *)
(* term a set of requirements.  Terms are alternatives.                    *)
(***************************************************************************)
CONSTANTS
    Nodes,
    SpotNodes,    \* nodes with the label gke-spot=true
    Tainted,      \* nodes with the taint of the same name
    NoClass,      \* no compute class is selected
    Asked,        \* the Pods users create
    Refinements   \* what a GKESpotPlacementPolicy may add: [class, families]

\* spotSelector: the nodeSelector has gke-spot=true; class: the nodes of the compute class it selects;
\* tolerates: the Spot toleration is there; terms: required node affinity, {} if there is none.
PodSpec == [spotSelector : BOOLEAN, class : {NoClass} \cup SUBSET Nodes, tolerates : BOOLEAN,
            terms : SUBSET SUBSET SUBSET Nodes]

ASSUME NodesAssumption == Tainted \subseteq SpotNodes /\ SpotNodes \subseteq Nodes
ASSUME AskedAssumption ==
    /\ Asked \subseteq PodSpec
    /\ Refinements \subseteq [class : {NoClass} \cup SUBSET Nodes, families : SUBSET Nodes]

VARIABLES
    asked,   \* the Pod as it was created
    pod,     \* the Pod as it is admitted
    placed   \* how the webhook has placed it: [as, by], Unplaced before

affinityVars == <<asked, pod, placed>>

Unplaced == [as |-> "unplaced"]
OnDemand == Nodes \ SpotNodes    \* gke-spot DoesNotExist

-----------------------------------------------------------------------------
\* Mutant: the new terms are appended to the existing ones.
RequireNodeSelectorTermsAppended(terms, new) == terms \cup new

\* requireNodeSelectorTerms: every existing term is combined with every new one.
RequireNodeSelectorTerms(terms, new) ==
    IF terms = {} THEN new ELSE {e \cup t : e \in terms, t \in new}

MutateForOnDemand ==
    /\ placed = Unplaced /\ placed' = [as |-> "ondemand"]
    /\ pod' = [pod EXCEPT !.spotSelector = FALSE, !.tolerates = FALSE,
                          !.terms = RequireNodeSelectorTerms(@, {{OnDemand}})]
    /\ UNCHANGED asked

\* mutateForSpot; a policy without fallback families (or no policy) leaves the affinity alone.  The preference
\* for Spot nodes decides where a Pod runs, never where it may run, and is left out.
MutateForSpot(fallback, by) ==
    LET families == {{SpotNodes}, {OnDemand, by.families}}
    IN  /\ placed = Unplaced /\ placed' = [as |-> IF fallback THEN "flexible" ELSE "strict", by |-> by]
        /\ pod' = [pod EXCEPT !.tolerates = TRUE,
                              !.class = IF @ = NoClass THEN by.class ELSE @,
                              !.spotSelector = @ \/ ~fallback,
                              !.terms = IF fallback /\ by.families # {}
                                        THEN RequireNodeSelectorTerms(@, families) ELSE @]
        /\ UNCHANGED asked

AffinityInit == asked \in Asked /\ pod = asked /\ placed = Unplaced

AffinityNext ==
    \/ MutateForOnDemand
    \/ \E fallback \in BOOLEAN, by \in Refinements : MutateForSpot(fallback, by)

AffinitySpec == AffinityInit /\ [][AffinityNext]_affinityVars

-----------------------------------------------------------------------------
(* Where a Pod may run, as Kubernetes defines it: a term without requirements
   matches no node. *)

Matches(n, terms) == terms # {} => \E t \in terms : t # {} /\ \A r \in t : n \in r

Selected(n, class) == class # NoClass => n \in class

Eligible(p) ==
    {n \in Nodes : /\ p.spotSelector => n \in SpotNodes
                   /\ Selected(n, p.class) /\ Matches(n, p.terms)
                   /\ n \in Tainted => p.tolerates}

IsPodTargetedForSpot(p) == p.spotSelector \/ p.tolerates

\* A placed Pod may run exactly on the nodes that its own affinity and the placement allow: its alternatives
\* are never widened by those of the webhook, nor lost.  And it counts as targeted for Spot, by which the
\* controller and the webhook classify it later, exactly if it was placed there.  (A term without requirements
\* is the exception README.md describes.)
PlacementEnforced ==
    placed # Unplaced /\ {} \notin asked.terms =>
        /\ IsPodTargetedForSpot(pod) <=> placed.as # "ondemand"
        /\ placed.as = "ondemand" =>
               Eligible(pod) = {n \in OnDemand : Selected(n, asked.class) /\ Matches(n, asked.terms)}
        /\ placed.as # "ondemand" =>
               Eligible(pod) = {n \in Nodes : /\ Matches(n, asked.terms)
                                              /\ Selected(n, IF asked.class = NoClass THEN placed.by.class ELSE asked.class)
                                              /\ placed.as = "strict" \/ asked.spotSelector => n \in SpotNodes
                                              /\ n \in OnDemand /\ placed.by.families # {} => n \in placed.by.families}
=============================================================================
