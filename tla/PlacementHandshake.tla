------------------------ MODULE PlacementHandshake ------------------------
(***************************************************************************)
(* How three controllers agree, through conditions on its status, on       *)
(* whether a WorkloadClass may place Pods on Spot:                         *)
(*   - the WorkloadClass controller writes Validated and resets            *)
(*     PlacementPluginAttached on every new generation;                    *)
(*   - the GKESpotPlacementPolicy controller stamps                        *)
(*     PlacementPluginAttached on the classes that reference a policy;     *)
(*   - the GKE Spot placement controller keeps InFallback, and lets        *)
(*     go of it when the class is not ready;                               *)
(* while the Pod placement webhook reads all three.                        *)
(*                                                                         *)
(* One class is followed.  Every process reads the shared informer cache;  *)
(* writes are optimistic: a status update succeeds only if the object it   *)
(* was computed from is the server's latest.  Each controller has one      *)
(* worker and a deduplicating queue.                                       *)
(***************************************************************************)
EXTENDS Guardrails, SelectorOverlap

CONSTANTS
    Policies,         \* names of GKESpotPlacementPolicies
    OtherKind,        \* a reference to some other kind of infrastructure profile
    Specs,            \* the specs users give the class
    Reversions,       \* the specs users give a policy
    GuardrailLists,   \* the guardrails administrators install
    OtherSelectors,   \* podSelectors of the other class of the namespace; NilSelector when there is none
    Clusters,         \* the clusters to start from: [wc, rev, gs, sel, pods], see Init
    MaxEdits,         \* bound on the changes made by users, administrators and the cluster
    MaxLag            \* bound on how many versions of the class the cache is behind

ASSUME BoundsAssumption == MaxEdits \in Nat \ {0} /\ MaxLag \in Nat \ {0}

VARIABLES
    versions,   \* versions of the class from the cache's (first) to the server's (last)
    pol, cpol,  \* the policies, and the cached ones
    env, cenv,  \* guardrails, the other class's selector and the class's Pods, and the cached ones
    central, policy, placement,                  \* the workers
    centralQueued, policyQueued, placementQueued, \* the queues
    edits,      \* changes made so far
    inForce,    \* guardrail lists that have been in force
    skipped,    \* whether the last stamp was left out because an outdated version of the class had it
    released    \* whether something that may end InFallback=True has happened since it was recorded

objects == <<versions, pol, env>>
caches  == <<cpol, cenv>>
workers == <<central, policy, placement>>
queues  == <<centralQueued, policyQueued, placementQueued>>
history == <<edits, inForce, skipped, released>>
vars    == <<versions, pol, cpol, env, cenv, workers, queues, history>>

-----------------------------------------------------------------------------
(* Objects *)

Spec_ == [cs : CapacityStrategy \cup {Unset}, dp : DisruptionPolicy, sel : {NilSelector} \cup SUBSET Requirement,
          ref : Policies \cup {OtherKind, Unset}]

\* A condition; why stands for its message, of for the policy a message names.
NoCondition == [status |-> "Absent", reason |-> Unset, why |-> {}, of |-> Unset, obs |-> 0]
Condition(status, reason, why, of, gen) ==
    [status |-> status, reason |-> reason, why |-> why, of |-> of, obs |-> gen]

\* The reasons of the three conditions.
Reasons ==
    {"NoGuardrails", "ValidationPassed", "ValidationFailed", "SelectorOverlap",
     "PluginPending", "ProfileResolved", "PluginResolutionFailed", "FallbackActive", "SpotTargetMet"}

\* What a message may tell: the fields of a class and of a policy that break a rule, and what else is the matter.
Messages ==
    {"podSelector", "disjointDaysOfWeek", "daysOfWeek", "maxAllowedWindows", "maxNonDisruptionDurationDays",
     "parameters", "capacityStrategy", "required", "forbidden", "spotRatio", "fallback",
     "requiredReversionAction", "maxFallbackDuration", "minDurationOnFallback",
     "overlap", "unattached", "notFound", "none", "clean"}

ConditionType ==
    [status : {"Absent", "True", "False"}, reason : Reasons \cup {Unset}, why : SUBSET Messages,
     of : Policies \cup {Unset}, obs : Nat]

ClassType == [gen : Nat, spec : Spec_, val : ConditionType, att : ConditionType, fb : ConditionType]

ASSUME InputsAssumption ==
    /\ Specs \subseteq Spec_ /\ Reversions \subseteq Reversion /\ GuardrailLists \subseteq Seq(Guardrail)
    /\ OtherSelectors \subseteq {NilSelector} \cup SUBSET Requirement
    /\ Unset \notin Policies

NewClass(spec) == [gen |-> 1, spec |-> spec, val |-> NoCondition, att |-> NoCondition, fb |-> NoCondition]

wc  == versions[Len(versions)]
cwc == versions[1]

\* Whether an object read from the cache is the one the server has.
CacheCurrent == Len(versions) = 1

ReferencesGKESpotPlacementPolicy(spec) == spec.ref \in Policies
TargetsSpot(spec)      == spec.cs # Unset /\ spec.cs.type = "Spot" /\ spec.cs.ratio > 0
IsGKESpotManaged(spec) == spec.cs # Unset /\ spec.ref # OtherKind
TracksFallback(spec)   == TargetsSpot(spec) /\ spec.cs.fallback = "FallbackToOnDemand"

IsValidated(c) == c.status = "True" \/ c.reason = "SelectorOverlap"

\* isReady of the placement controller: it does not look at the observed generation.
IsReady(c) ==
    /\ IsValidated(c.val)
    /\ ReferencesGKESpotPlacementPolicy(c.spec) => c.att.status = "True"

IsPlacementPluginPending(c) == c.att.status = "False" /\ c.att.reason = "PluginPending"

\* Mutant: the webhook accepts conditions observed for an older generation.
MutatesStale(c) ==
    /\ c.spec.cs # Unset /\ c.spec.ref # OtherKind
    /\ IsValidated(c.val)
    /\ ReferencesGKESpotPlacementPolicy(c.spec) => c.att.status = "True"

\* The gate of PodPlacementDefaulter.Default: whether a Pod of the class may be mutated (reading the policy
\* and the counts may still fail, and the Pod is admitted unchanged then).
Mutates(c) ==
    /\ c.spec.cs # Unset /\ c.spec.ref # OtherKind
    /\ IsValidated(c.val) /\ c.val.obs = c.gen
    /\ ReferencesGKESpotPlacementPolicy(c.spec) => c.att.status = "True" /\ c.att.obs = c.gen

-----------------------------------------------------------------------------
(* What the controllers compute *)

\* validateSpec; the names of weekdays and time zones are checked the same way, and left out.
SpecViolations(spec) == IF spec.sel # NilSelector /\ ~ValidSelector(spec.sel) THEN {"podSelector"} ELSE {}

\* validatedCondition.
ValidatedCondition(c, gs, otherSel) ==
    LET violations == SpecViolations(c.spec) \cup DisruptionViolations(c.spec.dp, gs) \cup CapacityViolations(c.spec.cs, gs)
        overlap    == IF SelectorsOverlap(c.spec.sel, otherSel) THEN {"overlap"} ELSE {}
    IN  CASE violations # {} -> Condition("False", "ValidationFailed", violations \cup overlap, Unset, c.gen)
          [] violations = {} /\ overlap # {} -> Condition("False", "SelectorOverlap", overlap, Unset, c.gen)
          [] violations \cup overlap = {} ->
                 Condition("True", IF gs = <<>> THEN "NoGuardrails" ELSE "ValidationPassed", {}, Unset, c.gen)

\* placementPluginCondition: kept if it is about this generation, otherwise pending.
PlacementPluginCondition(c) ==
    CASE c.spec.ref = Unset -> NoCondition
      [] c.spec.ref # Unset /\ c.att.status # "Absent" /\ c.att.obs = c.gen -> c.att
      [] OTHER -> Condition("False", "PluginPending", {}, Unset, c.gen)

\* reconcileConditions and addPlacementViolation.
Reconciled(val, att) ==
    IF att.status \in {"Absent", "True"} THEN val
    ELSE [val EXCEPT !.status = "False", !.reason = "ValidationFailed", !.of = att.of,
                     !.why = @ \cup {"unattached"} \cup att.why]

CentralStatus(c, gs, otherSel) ==
    LET att == PlacementPluginCondition(c)
    IN  [c EXCEPT !.att = att, !.val = Reconciled(ValidatedCondition(c, gs, otherSel), att)]

\* validateAgainstGuardrails of the policy controller, and the condition it makes of the verdict.
Verdict(rev, gen, gs) ==
    LET violations == PolicyViolations(rev, gs)
    IN  IF violations = {} THEN Condition("True", IF gs = <<>> THEN "NoGuardrails" ELSE "ValidationPassed", {}, Unset, gen)
        ELSE Condition("False", "ValidationFailed", violations, Unset, gen)

\* The three sets of statusOptions; the generation is filled in when the condition is stamped.
Attached(name)        == Condition("True", "ProfileResolved", {}, name, 0)
NotFound(name)        == Condition("False", "PluginResolutionFailed", {"notFound"}, name, 0)
Rejected(name, why)   == Condition("False", "PluginResolutionFailed", why, name, 0)

\* What the policy controller stamps on a class that references policy p, which it read as o.
Stamp(p, o, gs) ==
    LET val == Verdict(o.rev, o.gen, gs)
    IN  IF o = Unset THEN NotFound(p) ELSE IF val.status = "True" THEN Attached(p) ELSE Rejected(p, val.why)

\* attachedPolicy and reversionActionFor, on the cached policies.
ReversionActionFor(c, ps) ==
    IF ReferencesGKESpotPlacementPolicy(c.spec) /\ c.att.status = "True" /\ ps[c.spec.ref] # Unset
    THEN ps[c.spec.ref].rev.action ELSE "Lazy"

\* "Leave the condition as it is", the second result of desiredFallbackCondition.
Keep == [status |-> "Kept"]

\* Mutant: InFallback=True is kept whatever the reversion action is.
DesiredAlwaysLatched(c, pods, action) ==
    IF ~TracksFallback(c.spec) THEN NoCondition
    ELSE CASE pods = "fallback" -> Condition("True", "FallbackActive", {}, Unset, c.gen)
           [] pods = "clean" /\ c.fb.status = "True" -> Keep
           [] OTHER -> Condition("False", "SpotTargetMet", {pods}, Unset, c.gen)

\* desiredFallbackCondition: NoCondition to remove it, Keep to leave it alone.
DesiredFallbackCondition(c, pods, action) ==
    IF ~TracksFallback(c.spec) THEN NoCondition
    ELSE CASE pods = "fallback" -> Condition("True", "FallbackActive", {}, Unset, c.gen)
           [] pods = "clean" /\ c.fb.status = "True" /\ action = "None" -> Keep
           [] OTHER -> Condition("False", "SpotTargetMet", {pods}, Unset, c.gen)

-----------------------------------------------------------------------------
(* Initial state: the class was just created, or everything is at rest.  rev[p] is the
   spec of policy p, Unset if there is no such policy.  A creation counts as an edit. *)

\* Policy p of cluster k.
PolicyOf(k, p) ==
    IF k.rev[p] = Unset THEN Unset ELSE [gen |-> 1, rev |-> k.rev[p], val |-> Verdict(k.rev[p], 1, k.gs)]

\* The conditions of a class that is not new are those the three controllers would write.
AtRestIn(k) ==
    /\ CentralStatus(k.wc, k.gs, k.sel) = k.wc
    /\ k.wc.spec.ref \in Policies =>
           k.wc.att = [Stamp(k.wc.spec.ref, PolicyOf(k, k.wc.spec.ref), k.gs) EXCEPT !.obs = k.wc.gen]
    /\ IsGKESpotManaged(k.wc.spec) =>
           IF IsReady(k.wc)
           THEN DesiredFallbackCondition(k.wc, k.pods, ReversionActionFor(k.wc, [p \in Policies |-> PolicyOf(k, p)]))
                    \in {k.wc.fb, Keep}
           ELSE k.wc.fb = NoCondition

\* A class that has been validated was compared with the guardrails that are there.
ASSUME ClustersAssumption ==
    \A k \in Clusters :
        /\ k.wc \in ClassType /\ k.rev \in [Policies -> Reversions \cup {Unset}]
        /\ k.gs \in GuardrailLists /\ k.sel \in OtherSelectors /\ k.pods \in {"none", "clean", "fallback"}
        /\ k.wc.val.obs <= k.wc.gen
        /\ IsValidated(k.wc.val) => RespectsCapacity(k.wc.spec.cs, k.gs) /\ RespectsDisruption(k.wc.spec.dp, k.gs)
        /\ k.wc.val # NoCondition => AtRestIn(k)

Idle == [pc |-> "idle"]

Init ==
    /\ \E k \in Clusters :
           LET new == k.wc.val = NoCondition
           IN  /\ versions = <<k.wc>>
               /\ pol = [p \in Policies |-> PolicyOf(k, p)]
               /\ env = [gs |-> k.gs, sel |-> k.sel, pods |-> k.pods]
               /\ centralQueued = new
               /\ policyQueued = IF new THEN {k.wc.spec.ref} \cap Policies ELSE {}
               /\ placementQueued = (new /\ IsGKESpotManaged(k.wc.spec))
               /\ edits = IF new THEN 1 ELSE 0
               /\ released = (k.wc.fb.status # "True")
    /\ cpol = pol /\ cenv = env
    /\ central = Idle /\ policy = Idle /\ placement = Idle
    /\ inForce = {env.gs} /\ skipped = FALSE

-----------------------------------------------------------------------------
(* Writing the class *)

\* The server accepts a new version; every object read before is out of date now.
Put(new) ==
    /\ Len(versions) <= MaxLag
    /\ versions' = Append(versions, new)

\* Any write makes the central worker's copy stale, whoever the writer is.
CentralCopyStale == central' = IF central.pc = "idle" THEN Idle ELSE [central EXCEPT !.current = FALSE]

-----------------------------------------------------------------------------
(* The WorkloadClass controller (Reconcile, up to the status update) *)

CentralGet ==
    /\ central.pc = "idle" /\ centralQueued
    /\ centralQueued' = FALSE
    /\ central' = [pc |-> "judge", c |-> cwc, current |-> CacheCurrent]
    /\ UNCHANGED <<objects, caches, policy, placement, policyQueued, placementQueued, history>>

\* Mutant: the status is written even when nothing changed.
JudgeAlwaysWrites ==
    /\ central.pc = "judge"
    /\ central' = [central EXCEPT !.pc = "update", !.c = CentralStatus(central.c, cenv.gs, cenv.sel)]
    /\ UNCHANGED <<objects, caches, policy, placement, queues, history>>

CentralJudge ==
    /\ central.pc = "judge"
    /\ LET new == CentralStatus(central.c, cenv.gs, cenv.sel)
       IN  central' = IF new = central.c THEN Idle ELSE [central EXCEPT !.pc = "update", !.c = new]
    /\ UNCHANGED <<objects, caches, policy, placement, queues, history>>

\* Status().Update: a conflict is an error, and the class is reconciled again.
CentralUpdate ==
    /\ central.pc = "update"
    /\ central' = Idle
    /\ \/ central.current /\ Put(central.c) /\ UNCHANGED centralQueued
       \/ ~central.current /\ centralQueued' = TRUE /\ UNCHANGED versions
    /\ UNCHANGED <<pol, env, caches, policy, placement, policyQueued, placementQueued, history>>

-----------------------------------------------------------------------------
(* The GKESpotPlacementPolicy controller *)

PolicyGet(p) ==
    /\ policy.pc = "idle" /\ p \in policyQueued
    /\ policyQueued' = policyQueued \ {p}
    /\ LET old  == cpol[p]
           val  == Verdict(old.rev, old.gen, cenv.gs)
           cond == Stamp(p, old, cenv.gs)
       IN  policy' = IF old = Unset \/ old.val = val THEN [pc |-> "list", name |-> p, cond |-> cond]
                     ELSE [pc |-> "status", name |-> p, cond |-> cond, old |-> old, val |-> val]
    /\ UNCHANGED <<objects, caches, central, placement, centralQueued, placementQueued, history>>

\* The policy's own status; a conflict ends the reconcile, and it is tried again.
PolicyStatus ==
    /\ policy.pc = "status"
    /\ LET p == policy.name
       IN  \/ /\ pol[p] = policy.old
              /\ pol' = [pol EXCEPT ![p].val = policy.val]
              /\ policy' = [pc |-> "list", name |-> p, cond |-> policy.cond]
              /\ UNCHANGED policyQueued
           \/ /\ pol[p] # policy.old
              /\ policy' = Idle /\ policyQueued' = policyQueued \cup {p}
              /\ UNCHANGED pol
    /\ UNCHANGED <<versions, env, caches, central, placement, centralQueued, placementQueued, history>>

\* updateReferencingWorkloadClasses lists the classes and keeps those that reference the policy.
PolicyList ==
    /\ policy.pc = "list"
    /\ policy' = IF cwc.spec.ref = policy.name THEN [policy EXCEPT !.pc = "stamp"] ELSE Idle
    /\ UNCHANGED <<objects, caches, central, placement, queues, history>>

\* updateWorkloadClassStatus: the class is read again and the condition is about its latest generation,
\* whatever it references now.  On a conflict the worker tries again, which is this step taken later, or
\* gives up and the policy is reconciled again.  (A write between the read and the update has the effect
\* of a read from a stale cache.)
PolicyStamp ==
    /\ policy.pc = "stamp"
    /\ LET new == [cwc EXCEPT !.att = [policy.cond EXCEPT !.obs = cwc.gen]]
       IN  \/ /\ new = cwc
              /\ policy' = Idle /\ skipped' = (wc.att # cwc.att)
              /\ UNCHANGED <<versions, central, policyQueued>>
           \/ /\ new # cwc /\ CacheCurrent
              /\ Put(new) /\ CentralCopyStale
              /\ policy' = Idle /\ skipped' = FALSE /\ UNCHANGED policyQueued
           \/ /\ new # cwc /\ ~CacheCurrent
              /\ policy' = Idle /\ policyQueued' = policyQueued \cup {policy.name}
              /\ UNCHANGED <<versions, central, skipped>>
    /\ UNCHANGED <<pol, env, caches, placement, centralQueued, placementQueued, edits, inForce, released>>

-----------------------------------------------------------------------------
(* The GKE Spot placement controller, without reversion (see SpotPlacement) *)

PlacementGet ==
    /\ placement.pc = "idle" /\ placementQueued
    /\ placementQueued' = FALSE
    /\ placement' =
           CASE IsGKESpotManaged(cwc.spec) /\ IsReady(cwc) -> [pc |-> "observe", c |-> cwc]
             [] IsGKESpotManaged(cwc.spec) /\ ~IsReady(cwc) /\ IsPlacementPluginPending(cwc) -> Idle
             [] OTHER -> [pc |-> "set", desired |-> NoCondition]
    /\ UNCHANGED <<objects, caches, central, policy, centralQueued, policyQueued, history>>

\* Mutant: the early return of reconcileFallbackState is missing.
ObserveWithoutReturn ==
    /\ placement.pc = "observe"
    /\ placement' = [pc |-> "set", desired |-> DesiredFallbackCondition(placement.c, cenv.pods,
                                                                          ReversionActionFor(placement.c, cpol))]
    /\ UNCHANGED <<objects, caches, central, policy, queues, history>>

\* The policy, the Spot nodes and the Pods are read from the cache.
PlacementObserve ==
    /\ placement.pc = "observe"
    /\ LET desired == DesiredFallbackCondition(placement.c, cenv.pods, ReversionActionFor(placement.c, cpol))
       IN  placement' = IF desired = Keep THEN Idle ELSE [pc |-> "set", desired |-> desired]
    /\ UNCHANGED <<objects, caches, central, policy, queues, history>>

\* setFallbackCondition: like PolicyStamp, on the class as it is read now; what is desired is not reconsidered.
PlacementSet ==
    /\ placement.pc = "set"
    /\ LET new == [cwc EXCEPT !.fb = placement.desired]
       IN  \/ /\ new = cwc
              /\ placement' = Idle /\ UNCHANGED <<versions, central, placementQueued, released>>
           \/ /\ new # cwc /\ CacheCurrent
              /\ Put(new) /\ CentralCopyStale
              /\ released' = IF new.fb.status = "True" /\ cwc.fb.status # "True" THEN env.pods = "none" ELSE released
              /\ placement' = Idle /\ UNCHANGED placementQueued
           \/ /\ new # cwc /\ ~CacheCurrent
              /\ placement' = Idle /\ placementQueued' = TRUE
              /\ UNCHANGED <<versions, central, released>>
    /\ UNCHANGED <<pol, env, caches, policy, centralQueued, policyQueued, edits, inForce, skipped>>

-----------------------------------------------------------------------------
(* The shared cache is told of a change, and the watches queue reconciles *)

\* Mutant: a new generation of the class does not wake the policies it references.
DeliverClassSilently ==
    /\ Len(versions) > 1
    /\ versions' = Tail(versions)
    /\ centralQueued' = TRUE
    /\ placementQueued' = (placementQueued \/ IsGKESpotManaged(versions[1].spec) \/ IsGKESpotManaged(versions[2].spec))
    /\ UNCHANGED <<pol, env, caches, workers, policyQueued, history>>

\* Every update of the class wakes its controller; a new generation wakes the policies that the old and the
\* new object reference; gkeSpotManagedPredicate looks at both objects too.
DeliverClass ==
    /\ Len(versions) > 1
    /\ versions' = Tail(versions)
    /\ LET old == versions[1]
           new == versions[2]
       IN  /\ centralQueued' = TRUE
           /\ policyQueued' = policyQueued \cup
                  IF old.gen # new.gen THEN {old.spec.ref, new.spec.ref} \cap Policies ELSE {}
           /\ placementQueued' = (placementQueued \/ IsGKESpotManaged(old.spec) \/ IsGKESpotManaged(new.spec))
    /\ UNCHANGED <<pol, env, caches, workers, history>>

\* Any change of a policy wakes its own controller; a new generation, a creation or a deletion wakes the
\* placement controller of a class that references it and tracks fallback.
DeliverPolicy(p) ==
    /\ cpol[p] # pol[p]
    /\ cpol' = [cpol EXCEPT ![p] = pol[p]]
    /\ policyQueued' = policyQueued \cup {p}
    /\ LET spec    == cwc.spec
           changed == Unset \in {cpol[p], pol[p]} \/ cpol[p].gen # pol[p].gen
       IN  placementQueued' = (placementQueued \/ (changed /\ spec.ref = p /\ TracksFallback(spec)))
    /\ UNCHANGED <<objects, cenv, workers, centralQueued, history>>

\* enqueueSpotTargetingWorkloadClasses, the map function of most watches of the placement controller.
WakePlacement ==
    placementQueued' = (placementQueued \/ (IsGKESpotManaged(cwc.spec) /\ TracksFallback(cwc.spec)))

DeliverGuardrails ==
    /\ cenv.gs # env.gs
    /\ cenv' = [cenv EXCEPT !.gs = env.gs]
    /\ centralQueued' = TRUE
    /\ policyQueued' = policyQueued \cup {p \in Policies : cpol[p] # Unset}
    /\ WakePlacement
    /\ UNCHANGED <<objects, cpol, workers, history>>

DeliverOtherClass ==
    /\ cenv.sel # env.sel
    /\ cenv' = [cenv EXCEPT !.sel = env.sel]
    /\ centralQueued' = TRUE
    /\ UNCHANGED <<objects, cpol, workers, policyQueued, placementQueued, history>>

\* podPlacementChangePredicate ignores Pods that are created but not bound yet.
DeliverPods ==
    /\ cenv.pods # env.pods
    /\ cenv' = [cenv EXCEPT !.pods = env.pods]
    /\ \/ WakePlacement
       \/ cenv.pods = "none" /\ env.pods = "clean" /\ UNCHANGED placementQueued
    /\ UNCHANGED <<objects, cpol, workers, centralQueued, policyQueued, history>>

-----------------------------------------------------------------------------
(* Users, administrators and the cluster *)

Edit == edits < MaxEdits /\ edits' = edits + 1

\* A class with this spec keeps its InFallback condition, as far as guardrails and scope are concerned.
StaysInForce(spec) ==
    /\ TracksFallback(spec) /\ spec.ref = wc.spec.ref
    /\ SpecViolations(spec) = {} /\ RespectsDisruption(spec.dp, env.gs) /\ RespectsCapacity(spec.cs, env.gs)

EditClass(spec) ==
    /\ Edit /\ spec # wc.spec
    /\ Put([wc EXCEPT !.gen = @ + 1, !.spec = spec]) /\ CentralCopyStale
    /\ released' = (released \/ ~StaysInForce(spec))
    /\ UNCHANGED <<pol, env, caches, policy, placement, queues, inForce, skipped>>

CreatePolicy(p, rev) ==
    /\ Edit /\ pol[p] = Unset /\ cpol[p] = Unset   \* the cache has seen the deletion, if there was one
    /\ pol' = [pol EXCEPT ![p] = [gen |-> 1, rev |-> rev, val |-> NoCondition]]
    /\ released' = TRUE
    /\ UNCHANGED <<versions, env, caches, workers, queues, inForce, skipped>>

EditPolicy(p, rev) ==
    /\ Edit /\ pol[p] # Unset /\ rev # pol[p].rev
    /\ pol' = [pol EXCEPT ![p].gen = @ + 1, ![p].rev = rev]
    /\ released' = TRUE
    /\ UNCHANGED <<versions, env, caches, workers, queues, inForce, skipped>>

DeletePolicy(p) ==
    /\ Edit /\ pol[p] # Unset
    /\ pol' = [pol EXCEPT ![p] = Unset]
    /\ released' = TRUE
    /\ UNCHANGED <<versions, env, caches, workers, queues, inForce, skipped>>

\* The guardrail webhook admits valid guardrails only; older ones may stay.
EditGuardrails(gs) ==
    /\ Edit /\ gs # env.gs
    /\ \A g \in Elems(gs) : GuardrailAccepted(g) \/ g \in Elems(env.gs)
    /\ env' = [env EXCEPT !.gs = gs] /\ inForce' = inForce \cup {gs}
    /\ released' = TRUE
    /\ UNCHANGED <<versions, pol, caches, workers, queues, skipped>>

EditOtherClass(sel) ==
    /\ Edit /\ sel # env.sel
    /\ env' = [env EXCEPT !.sel = sel]
    /\ UNCHANGED <<versions, pol, caches, workers, queues, inForce, skipped, released>>

\* External: Pods come and go and are scheduled; "fallback" when one that targets Spot runs elsewhere.
MovePods(pods) ==
    /\ Edit /\ pods # env.pods
    /\ env' = [env EXCEPT !.pods = pods]
    /\ released' = (released \/ pods = "none")
    /\ UNCHANGED <<versions, pol, caches, workers, queues, inForce, skipped>>

-----------------------------------------------------------------------------
Central   == CentralGet \/ CentralJudge \/ CentralUpdate
Policy    == (\E p \in Policies : PolicyGet(p)) \/ PolicyStatus \/ PolicyList \/ PolicyStamp
Placement == PlacementGet \/ PlacementObserve \/ PlacementSet
Deliver   == DeliverClass \/ (\E p \in Policies : DeliverPolicy(p)) \/ DeliverGuardrails \/ DeliverOtherClass \/ DeliverPods

Environment ==
    \/ \E spec \in Specs : EditClass(spec)
    \/ \E p \in Policies, rev \in Reversions : CreatePolicy(p, rev) \/ EditPolicy(p, rev)
    \/ \E p \in Policies : DeletePolicy(p)
    \/ \E gs \in GuardrailLists : EditGuardrails(gs)
    \/ \E sel \in OtherSelectors : EditOtherClass(sel)
    \/ \E pods \in {"none", "clean", "fallback"} : MovePods(pods)

Next == Central \/ Policy \/ Placement \/ Deliver \/ Environment

\* The watches deliver what there is to deliver, and the workers do not all stop while there is work; which
\* of them goes on is left open.
Fairness == WF_vars(Deliver) /\ WF_vars(Central \/ Policy \/ Placement)

Spec == Init /\ [][Next]_vars /\ Fairness

-----------------------------------------------------------------------------
(* Properties *)

\* Every piece of state has its type; in particular a worker in the middle of a reconcile has what its next
\* step needs.
TypeOK ==
    /\ Len(versions) \in 1 .. MaxLag + 1 /\ \A i \in DOMAIN versions : versions[i] \in ClassType
    /\ \A p \in Policies : \A o \in {pol[p], cpol[p]} :
           o # Unset => o.gen \in Nat /\ o.rev \in Reversions /\ o.val \in ConditionType
    /\ \A e \in {env, cenv} : e.gs \in GuardrailLists /\ e.sel \in OtherSelectors /\ e.pods \in {"none", "clean", "fallback"}
    /\ central.pc \in {"judge", "update"} => central.c \in ClassType /\ central.current \in BOOLEAN
    /\ policy.pc \in {"status", "list", "stamp"} => policy.name \in Policies /\ policy.cond \in ConditionType
    /\ placement.pc = "observe" => placement.c \in ClassType
    /\ placement.pc = "set" => placement.desired \in ConditionType
    /\ centralQueued \in BOOLEAN /\ placementQueued \in BOOLEAN /\ policyQueued \subseteq Policies
    /\ edits \in 0 .. MaxEdits /\ inForce \subseteq GuardrailLists /\ skipped \in BOOLEAN /\ released \in BOOLEAN

\* Nothing is queued, running or undelivered.
Quiet ==
    /\ ~centralQueued /\ policyQueued = {} /\ ~placementQueued
    /\ central = Idle /\ policy = Idle /\ placement = Idle
    /\ CacheCurrent /\ cpol = pol /\ cenv = env

\* When everything is at rest, PlacementPluginAttached and Validated are about the class's current generation,
\* the policy it references now and the guardrails in force now: no lost wake-up, no verdict of an old read
\* and no stamp meant for another policy survives.  On disruption and capacity the verdict is the documented one,
\* every guardrail is respected, and an overlap is reported exactly if one Pod can be selected twice.  (Two exceptions
\* are described in README.md: a class that turns to another kind of profile, and a stamp left out because an
\* outdated version of the class had it already.)
ConditionsAtRest ==
    Quiet /\ wc.spec.ref # OtherKind /\ ~skipped =>
        LET ref      == wc.spec.ref
            exists   == ref \in Policies /\ pol[ref] # Unset
            attached == exists /\ PolicyViolations(pol[ref].rev, env.gs) = {}
            valid    == /\ SpecViolations(wc.spec) = {}
                        /\ RespectsDisruption(wc.spec.dp, env.gs) /\ RespectsCapacity(wc.spec.cs, env.gs)
            overlap  == CanSelectOnePod(wc.spec.sel, env.sel)
        IN  /\ IF ref = Unset THEN wc.att = NoCondition
               ELSE wc.att.obs = wc.gen /\ (wc.att.status = "True" <=> attached)
            /\ ref \in Policies => wc.att.of = ref
            /\ wc.val.obs = wc.gen
            /\ wc.val.status = "True" <=> valid /\ ~overlap /\ (ref # Unset => attached)
            /\ wc.val.reason = "SelectorOverlap" <=> valid /\ overlap /\ (ref # Unset => attached)

\* When everything is at rest, InFallback is there exactly if the class is ready and tracks fallback, and it
\* says whether Pods are in fallback; only reversion None may keep it True, and only while there are Pods.
\* (A class that leaves the plugin's scope may keep it: README.md describes how.)
FallbackAtRest ==
    Quiet /\ IsGKESpotManaged(wc.spec) =>
        IF ~(IsReady(wc) /\ TracksFallback(wc.spec)) THEN wc.fb = NoCondition
        ELSE /\ env.pods = "fallback" => wc.fb.status = "True"
             /\ env.pods = "none" => wc.fb.status = "False"
             /\ env.pods = "clean" /\ ReversionActionFor(wc, pol) # "None" => wc.fb.status = "False"

\* The webhook places a Pod only by a capacity strategy that was compared with guardrails in force, never by
\* one that an edit has put in the place of the strategy that was validated.
MutatesOnlyValidated ==
    \A i \in DOMAIN versions :
        Mutates(versions[i]) => \E gs \in inForce : /\ RespectsCapacity(versions[i].spec.cs, gs)
                                                    /\ RespectsDisruption(versions[i].spec.dp, gs)

\* Once nobody edits anything, the three controllers stop writing: they do not undo each other's conditions.
Settles == <>[]Quiet

\* With reversion None, InFallback=True stays until the workload scales to zero; an edit of the class that
\* keeps it in scope and valid does not take it away.
LatchHeld == [][wc.fb.status = "True" /\ wc'.fb.status # "True" => released]_vars
=============================================================================
