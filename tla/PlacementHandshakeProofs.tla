---------------------- MODULE PlacementHandshakeProofs ----------------------
(***************************************************************************)
(* Proofs about PlacementHandshake for any specs, policies, guardrails and *)
(* selectors, any number of edits and any lag of the cache.                *)
(***************************************************************************)
EXTENDS PlacementHandshake, RulesProofs, TLAPS

-----------------------------------------------------------------------------
(* Types of what the controllers compute. *)

\* A policy as it is stored.
PolicyObject == [gen : Nat, rev : Reversions, val : ConditionType]

Environments(lists) == [gs : lists, sel : OtherSelectors, pods : {"none", "clean", "fallback"}]

CentralWorker   == {Idle} \cup [pc : {"judge", "update"}, c : ClassType, current : BOOLEAN]
PolicyWorker    ==
    {Idle} \cup [pc : {"list", "stamp"}, name : Policies, cond : ConditionType]
           \cup [pc : {"status"}, name : Policies, cond : ConditionType, old : PolicyObject, val : ConditionType]
PlacementWorker == {Idle} \cup [pc : {"observe"}, c : ClassType] \cup [pc : {"set"}, desired : ConditionType]

\* Violations are named in messages.
LEMMA ViolationsAreMessages ==
    ASSUME NEW dp, NEW cs, NEW rev, NEW gs
    PROVE  /\ DisruptionViolations(dp, gs) \in SUBSET Messages
           /\ CapacityViolations(cs, gs) \in SUBSET Messages
           /\ PolicyViolations(rev, gs) \in SUBSET Messages
<1>1. \A g : GuardrailViolations(dp, g) \in SUBSET Messages
    BY DEF GuardrailViolations, Messages
<1>2. DisruptionViolations(dp, gs) \in SUBSET Messages
    BY <1>1 DEF DisruptionViolations, Messages
<1>3. CapacityViolations(cs, gs) \in SUBSET Messages
    BY DEF CapacityViolations, Messages
<1>4. PolicyViolations(rev, gs) \in SUBSET Messages
    BY DEF PolicyViolations, Messages
<1> QED
    BY <1>2, <1>3, <1>4

\* What Condition makes.
LEMMA ConditionIsType ==
    ASSUME NEW status \in {"True", "False"}, NEW reason \in Reasons, NEW why \in SUBSET Messages,
           NEW of \in Policies \cup {Unset}, NEW gen \in Nat
    PROVE  Condition(status, reason, why, of, gen) \in ConditionType
  BY DEF Condition, ConditionType

\* No condition is one, too.
LEMMA NoConditionIsType == NoCondition \in ConditionType
  BY DEF NoCondition, ConditionType

\* The verdict on a policy is a condition.
LEMMA VerdictIsType ==
    ASSUME NEW rev, NEW gen \in Nat, NEW gs
    PROVE  Verdict(rev, gen, gs) \in ConditionType
  BY ViolationsAreMessages, ConditionIsType DEF Verdict, Reasons

\* What the class's status says was judged, was judged by guardrails of lists.
Sound(c, lists) ==
    /\ c.val.obs <= c.gen
    /\ IsValidated(c.val) /\ c.val.obs = c.gen =>
           \E gs \in lists : RespectsCapacity(c.spec.cs, gs) /\ RespectsDisruption(c.spec.dp, gs)

\* The status the WorkloadClass controller writes is sound.
LEMMA CentralStatusSound ==
    ASSUME NEW c \in ClassType, NEW lists \in SUBSET Seq(Guardrail), NEW gs \in lists, NEW sel
    PROVE  CentralStatus(c, gs, sel) \in ClassType /\ Sound(CentralStatus(c, gs, sel), lists)
<1> DEFINE att == PlacementPluginCondition(c)
           judged == ValidatedCondition(c, gs, sel)
           val == Reconciled(judged, att)
           new == CentralStatus(c, gs, sel)
           violations == SpecViolations(c.spec) \cup DisruptionViolations(c.spec.dp, gs) \cup CapacityViolations(c.spec.cs, gs)
           overlap    == IF SelectorsOverlap(c.spec.sel, sel) THEN {"overlap"} ELSE {}
<1>1. c.gen \in Nat /\ c.spec \in Spec_ /\ c.att \in ConditionType
    BY DEF ClassType
<1>2. c.spec.cs \in CapacityStrategy \cup {Unset} /\ c.spec.dp \in DisruptionPolicy /\ gs \in Seq(Guardrail)
    BY <1>1 DEF Spec_
<1>3. att \in ConditionType
    BY <1>1, NoConditionIsType, ConditionIsType DEF PlacementPluginCondition, Reasons
<1>4. violations \in SUBSET Messages /\ overlap \in SUBSET Messages
    BY ViolationsAreMessages DEF SpecViolations, Messages
<1> HIDE DEF violations, overlap
<1>5. \/ violations # {} /\ judged = Condition("False", "ValidationFailed", violations \cup overlap, Unset, c.gen)
      \/ violations = {} /\ \/ judged = Condition("False", "SelectorOverlap", overlap, Unset, c.gen)
                            \/ judged = Condition("True", "NoGuardrails", {}, Unset, c.gen)
                            \/ judged = Condition("True", "ValidationPassed", {}, Unset, c.gen)
    BY DEF ValidatedCondition, violations, overlap
<1>6. judged \in ConditionType /\ judged.obs = c.gen
  <2>1. /\ Condition("False", "ValidationFailed", violations \cup overlap, Unset, c.gen) \in ConditionType
        /\ Condition("False", "SelectorOverlap", overlap, Unset, c.gen) \in ConditionType
    BY <1>1, <1>4, ConditionIsType DEF Reasons
  <2>2. /\ Condition("True", "NoGuardrails", {}, Unset, c.gen) \in ConditionType
        /\ Condition("True", "ValidationPassed", {}, Unset, c.gen) \in ConditionType
    BY <1>1, ConditionIsType DEF Reasons
  <2>3. judged.obs = c.gen
    BY <1>5 DEF Condition
  <2> HIDE DEF judged
  <2> QED
    BY <1>5, <2>1, <2>2, <2>3
<1>7. IsValidated(judged) => violations = {}
    BY <1>5 DEF Condition, IsValidated
<1> HIDE DEF att, judged
<1>8. val \in ConditionType /\ val.obs = c.gen /\ (IsValidated(val) => IsValidated(judged))
    BY <1>3, <1>6 DEF Reconciled, ConditionType, IsValidated, Reasons, Messages
<1>9. new = [c EXCEPT !.att = att, !.val = val]
    BY DEF CentralStatus, att, judged
<1> HIDE DEF val, new
<1>10. new \in ClassType /\ new.val = val /\ new.gen = c.gen /\ new.spec = c.spec
    BY <1>3, <1>8, <1>9 DEF ClassType
<1>11. violations = {} => RespectsCapacity(c.spec.cs, gs) /\ RespectsDisruption(c.spec.dp, gs)
  <2>1. Elems(gs) \subseteq Guardrail
    BY <1>2 DEF Elems
  <2>2. violations = {} => DisruptionViolations(c.spec.dp, gs) = {} /\ CapacityViolations(c.spec.cs, gs) = {}
    BY DEF violations
  <2> QED
    BY <1>2, <2>1, <2>2, CapacityExact, DisruptionExact
<1> QED
    BY <1>1, <1>7, <1>8, <1>10, <1>11 DEF Sound, new

\* The fallback condition to write.
LEMMA DesiredIsType ==
    ASSUME NEW c \in ClassType, NEW pods \in {"none", "clean", "fallback"}, NEW action,
           DesiredFallbackCondition(c, pods, action) # Keep
    PROVE  DesiredFallbackCondition(c, pods, action) \in ConditionType
<1>1. c.gen \in Nat /\ {pods} \in SUBSET Messages
    BY DEF ClassType, Messages
<1>2. /\ Condition("True", "FallbackActive", {}, Unset, c.gen) \in ConditionType
      /\ Condition("False", "SpotTargetMet", {pods}, Unset, c.gen) \in ConditionType
    BY <1>1, ConditionIsType DEF Reasons
<1> QED
    BY <1>2, NoConditionIsType DEF DesiredFallbackCondition

\* The stamps of the policy controller; a policy that exists is attached exactly if it respects the guardrails.
LEMMA StampIsType ==
    ASSUME NEW p \in Policies, NEW o \in PolicyObject \cup {Unset}, NEW gs
    PROVE  /\ Stamp(p, o, gs) \in ConditionType
           /\ Stamp(p, o, gs).of = p
           /\ Stamp(p, o, gs).status \in {"True", "False"}
           /\ Stamp(p, o, gs).reason # "PluginPending"
           /\ Stamp(p, o, gs).status = "True" <=> o # Unset /\ PolicyViolations(o.rev, gs) = {}
<1> DEFINE val == Verdict(o.rev, o.gen, gs)
<1>1. ASSUME NEW why \in SUBSET Messages
      PROVE  /\ Attached(p) \in ConditionType /\ Attached(p).of = p /\ Attached(p).status = "True"
             /\ Attached(p).reason # "PluginPending"
             /\ NotFound(p) \in ConditionType /\ NotFound(p).of = p /\ NotFound(p).status = "False"
             /\ NotFound(p).reason # "PluginPending"
             /\ Rejected(p, why) \in ConditionType /\ Rejected(p, why).of = p /\ Rejected(p, why).status = "False"
             /\ Rejected(p, why).reason # "PluginPending"
    BY DEF Attached, NotFound, Rejected, Condition, ConditionType, Reasons, Messages
<1>2. CASE o = Unset
    BY <1>1, <1>2 DEF Stamp
<1>3. CASE o # Unset
  <2>1. val \in ConditionType
    BY <1>3, VerdictIsType DEF PolicyObject
  <2>2. val.why \in SUBSET Messages
    BY <2>1 DEF ConditionType
  <2>3. val.status = "True" <=> PolicyViolations(o.rev, gs) = {}
    BY DEF Verdict, Condition
  <2>4. Stamp(p, o, gs) = IF val.status = "True" THEN Attached(p) ELSE Rejected(p, val.why)
    BY <1>3 DEF Stamp
  <2> HIDE DEF val
  <2> QED
    BY <1>1, <1>3, <2>2, <2>3, <2>4
<1> QED
    BY <1>2, <1>3

-----------------------------------------------------------------------------
(* The invariant. *)

VersionsInv ==
    /\ versions \in Seq(ClassType) /\ Len(versions) \in 1 .. MaxLag + 1
    /\ \A i \in 1 .. Len(versions) : Sound(versions[i], inForce)

ObjectsInv ==
    /\ pol \in [Policies -> PolicyObject \cup {Unset}] /\ cpol \in [Policies -> PolicyObject \cup {Unset}]
    /\ env \in Environments(inForce) /\ cenv \in Environments(inForce)
    /\ inForce \in SUBSET GuardrailLists

CentralInv == central \in CentralWorker /\ (central.pc # "idle" => Sound(central.c, inForce))

WorkersInv == policy \in PolicyWorker /\ placement \in PlacementWorker

QueuesInv ==
    /\ centralQueued \in BOOLEAN /\ placementQueued \in BOOLEAN /\ policyQueued \in SUBSET Policies
    /\ edits \in 0 .. MaxEdits /\ skipped \in BOOLEAN /\ released \in BOOLEAN

HandshakeInv == VersionsInv /\ ObjectsInv /\ CentralInv /\ WorkersInv /\ QueuesInv

\* The types of the class as the server and as the cache have it.
LEMMA ClassTypes ==
    ASSUME VersionsInv
    PROVE  wc \in ClassType /\ cwc \in ClassType /\ Sound(wc, inForce) /\ Sound(cwc, inForce)
<1>1. Len(versions) \in Nat /\ Len(versions) \in 1 .. Len(versions) /\ 1 \in 1 .. Len(versions)
    BY BoundsAssumption DEF VersionsInv
<1> QED
    BY <1>1 DEF VersionsInv, wc, cwc

\* The server accepts a version that is sound.
LEMMA PutSound ==
    ASSUME VersionsInv, NEW new \in ClassType, Sound(new, inForce), Put(new), inForce' = inForce
    PROVE  VersionsInv'
<1>1. /\ versions \in Seq(ClassType) /\ Len(versions) \in Nat /\ Len(versions) >= 1
      /\ Len(versions) <= MaxLag /\ MaxLag \in Nat
      /\ versions' = Append(versions, new)
    BY BoundsAssumption DEF VersionsInv, Put
<1>2. versions' \in Seq(ClassType) /\ Len(versions') = Len(versions) + 1
    BY <1>1
<1>3. \A i \in 1 .. Len(versions') : versions'[i] = IF i <= Len(versions) THEN versions[i] ELSE new
    BY <1>1
<1>4. \A i \in 1 .. Len(versions') : Sound(versions'[i], inForce)
  <2> SUFFICES ASSUME NEW i \in 1 .. Len(versions') PROVE Sound(versions'[i], inForce)
    OBVIOUS
  <2>1. CASE i <= Len(versions)
    BY <1>1, <1>2, <1>3, <2>1 DEF VersionsInv
  <2>2. CASE ~(i <= Len(versions))
    BY <1>3, <2>2
  <2> QED
    BY <2>1, <2>2
<1>5. Len(versions') \in 1 .. MaxLag + 1
    BY <1>1, <1>2
<1> QED
    BY <1>2, <1>4, <1>5 DEF VersionsInv

\* Making the central worker's copy stale leaves it sound.
LEMMA StaleSound ==
    ASSUME CentralInv, CentralCopyStale, inForce' = inForce
    PROVE  CentralInv'
<1>1. CASE central.pc = "idle"
    BY <1>1 DEF CentralCopyStale, CentralInv, CentralWorker, Idle
<1>2. CASE central.pc # "idle"
  <2>1. central \in [pc : {"judge", "update"}, c : ClassType, current : BOOLEAN]
    BY <1>2 DEF CentralInv, CentralWorker, Idle
  <2>2. central' = [central EXCEPT !.current = FALSE]
    BY <1>2 DEF CentralCopyStale
  <2>3. central' \in [pc : {"judge", "update"}, c : ClassType, current : BOOLEAN] /\ central'.c = central.c
    BY <2>1, <2>2
  <2> QED
    BY <1>2, <2>3 DEF CentralInv, CentralWorker
<1> QED
    BY <1>1, <1>2

\* Conditions other than Validated do not matter to Sound.
LEMMA OtherConditions ==
    ASSUME NEW c \in ClassType, NEW lists, Sound(c, lists), NEW cond \in ConditionType
    PROVE  /\ [c EXCEPT !.att = cond] \in ClassType /\ Sound([c EXCEPT !.att = cond], lists)
           /\ [c EXCEPT !.fb = cond] \in ClassType /\ Sound([c EXCEPT !.fb = cond], lists)
  BY DEF ClassType, Sound

\* A new generation has not been judged.
LEMMA NewGeneration ==
    ASSUME NEW c \in ClassType, NEW lists, Sound(c, lists), NEW spec \in Spec_
    PROVE  LET new == [c EXCEPT !.gen = @ + 1, !.spec = spec]
           IN  new \in ClassType /\ Sound(new, lists)
<1> DEFINE new == [c EXCEPT !.gen = @ + 1, !.spec = spec]
<1>1. c.gen \in Nat /\ c.val \in ConditionType /\ c.val.obs \in Nat
    BY DEF ClassType, ConditionType
<1>2. new \in ClassType /\ new.gen = c.gen + 1 /\ new.val = c.val
  <2>1. PICK g \in Nat : g = c.gen + 1
    BY <1>1
  <2>2. new = [c EXCEPT !.gen = g, !.spec = spec]
    BY <2>1
  <2>3. [c EXCEPT !.gen = g, !.spec = spec] \in ClassType
    BY DEF ClassType
  <2> QED
    BY <2>1, <2>2, <2>3 DEF ClassType
<1>3. new.val.obs < new.gen
    BY <1>1, <1>2 DEF Sound
<1> QED
    BY <1>1, <1>2, <1>3 DEF Sound

\* More guardrail lists do no harm.
LEMMA MoreLists ==
    ASSUME NEW c, NEW few, NEW many, few \subseteq many, Sound(c, few)
    PROVE  Sound(c, many)
  BY DEF Sound

\* Guardrail lists are lists of guardrails.
LEMMA ListTypes ==
    ASSUME ObjectsInv
    PROVE  inForce \in SUBSET Seq(Guardrail) /\ env.gs \in inForce /\ cenv.gs \in inForce
  BY InputsAssumption DEF ObjectsInv, Environments

\* What is left alone keeps its part of the invariant.
LEMMA Frame ==
    /\ VersionsInv /\ UNCHANGED <<versions, inForce>> => VersionsInv'
    /\ ObjectsInv /\ UNCHANGED <<pol, cpol, env, cenv, inForce>> => ObjectsInv'
    /\ CentralInv /\ UNCHANGED <<central, inForce>> => CentralInv'
    /\ WorkersInv /\ UNCHANGED <<policy, placement>> => WorkersInv'
    /\ QueuesInv /\ UNCHANGED <<centralQueued, policyQueued, placementQueued, edits, skipped, released>> => QueuesInv'
  BY DEF VersionsInv, ObjectsInv, CentralInv, WorkersInv, QueuesInv

\* The invariant holds in every cluster to start from.
LEMMA HandshakeInit == Init => HandshakeInv
<1> SUFFICES ASSUME Init PROVE HandshakeInv
    OBVIOUS
<1>1. PICK k \in Clusters :
        /\ versions = <<k.wc>>
        /\ pol = [p \in Policies |-> PolicyOf(k, p)]
        /\ env = [gs |-> k.gs, sel |-> k.sel, pods |-> k.pods]
        /\ centralQueued = (k.wc.val = NoCondition)
        /\ policyQueued = IF k.wc.val = NoCondition THEN {k.wc.spec.ref} \cap Policies ELSE {}
        /\ placementQueued = (k.wc.val = NoCondition /\ IsGKESpotManaged(k.wc.spec))
        /\ edits = (IF k.wc.val = NoCondition THEN 1 ELSE 0)
        /\ released = (k.wc.fb.status # "True")
    BY DEF Init
<1>2. /\ k.wc \in ClassType /\ k.rev \in [Policies -> Reversions \cup {Unset}]
      /\ k.gs \in GuardrailLists /\ k.sel \in OtherSelectors /\ k.pods \in {"none", "clean", "fallback"}
      /\ Sound(k.wc, {k.gs})
    BY ClustersAssumption DEF Sound
<1>3. inForce = {k.gs} /\ cpol = pol /\ cenv = env /\ central = Idle /\ policy = Idle /\ placement = Idle
      /\ skipped = FALSE
    BY <1>1 DEF Init
<1>4. VersionsInv
    BY <1>1, <1>2, <1>3, BoundsAssumption DEF VersionsInv
<1>5. ObjectsInv
  <2>1. \A p \in Policies : PolicyOf(k, p) \in PolicyObject \cup {Unset}
    BY <1>2, VerdictIsType DEF PolicyOf, PolicyObject
  <2>2. pol \in [Policies -> PolicyObject \cup {Unset}]
    BY <1>1, <2>1
  <2> QED
    BY <1>1, <1>2, <1>3, <2>2 DEF ObjectsInv, Environments
<1>6. CentralInv /\ WorkersInv
    BY <1>3 DEF CentralInv, WorkersInv, CentralWorker, PolicyWorker, PlacementWorker, Idle
<1>7. QueuesInv
  <2>1. edits \in 0 .. MaxEdits
    BY <1>1, BoundsAssumption
  <2>2. policyQueued \in SUBSET Policies
    BY <1>1
  <2>3. centralQueued \in BOOLEAN /\ placementQueued \in BOOLEAN /\ released \in BOOLEAN
    BY <1>1, Zenon
  <2> QED
    BY <1>3, <2>1, <2>2, <2>3 DEF QueuesInv
<1> QED
    BY <1>4, <1>5, <1>6, <1>7 DEF HandshakeInv

-----------------------------------------------------------------------------
(* The WorkloadClass controller. *)

\* The three steps of the WorkloadClass controller: read, judge, update the status.
LEMMA CentralStep ==
    ASSUME HandshakeInv, Central
    PROVE  HandshakeInv'
<1>0. VersionsInv /\ ObjectsInv /\ CentralInv /\ WorkersInv /\ QueuesInv
    BY DEF HandshakeInv
<1>1. CASE CentralGet
  <2>1. UNCHANGED <<versions, pol, cpol, env, cenv, inForce, policy, placement>>
    BY <1>1 DEF CentralGet, objects, caches, history
  <2>2. CentralInv'
    <3>1. central' = [pc |-> "judge", c |-> cwc, current |-> CacheCurrent] /\ CacheCurrent \in BOOLEAN
      BY <1>1 DEF CentralGet, CacheCurrent
    <3> QED
      BY <1>0, <2>1, <3>1, ClassTypes DEF CentralInv, CentralWorker
  <2>3. QueuesInv'
    BY <1>0, <1>1 DEF CentralGet, QueuesInv, history
  <2> QED
    BY <1>0, <2>1, <2>2, <2>3, Frame DEF HandshakeInv
<1>2. CASE CentralJudge
  <2>1. UNCHANGED <<versions, pol, cpol, env, cenv, inForce, policy, placement>>
        /\ UNCHANGED <<centralQueued, policyQueued, placementQueued, edits, skipped, released>>
    BY <1>2 DEF CentralJudge, objects, caches, queues, history
  <2>2. CentralInv'
    <3> DEFINE new == CentralStatus(central.c, cenv.gs, cenv.sel)
    <3>1. central \in [pc : {"judge", "update"}, c : ClassType, current : BOOLEAN]
      BY <1>0, <1>2 DEF CentralJudge, CentralInv, CentralWorker, Idle
    <3>2. new \in ClassType /\ Sound(new, inForce)
      BY <1>0, <3>1, ListTypes, CentralStatusSound
    <3>3. central' = IF new = central.c THEN Idle ELSE [central EXCEPT !.pc = "update", !.c = new]
      BY <1>2 DEF CentralJudge
    <3> HIDE DEF new
    <3>4. [central EXCEPT !.pc = "update", !.c = new] \in [pc : {"judge", "update"}, c : ClassType, current : BOOLEAN]
          /\ [central EXCEPT !.pc = "update", !.c = new].c = new
      BY <3>1, <3>2
    <3> QED
      BY <2>1, <3>2, <3>3, <3>4 DEF CentralInv, CentralWorker, Idle
  <2> QED
    BY <1>0, <2>1, <2>2, Frame DEF HandshakeInv
<1>3. CASE CentralUpdate
  <2>1. UNCHANGED <<pol, cpol, env, cenv, inForce, policy, placement, policyQueued, placementQueued, edits, skipped, released>>
    BY <1>3 DEF CentralUpdate, caches, history
  <2>2. central \in [pc : {"judge", "update"}, c : ClassType, current : BOOLEAN] /\ Sound(central.c, inForce)
    BY <1>0, <1>3 DEF CentralUpdate, CentralInv, CentralWorker, Idle
  <2>3. VersionsInv'
    <3>1. CASE Put(central.c)
      BY <1>0, <2>1, <2>2, <3>1, PutSound
    <3>2. CASE UNCHANGED versions
      BY <1>0, <2>1, <3>2, Frame
    <3> QED
      BY <1>3, <3>1, <3>2 DEF CentralUpdate
  <2>4. CentralInv'
    BY <1>3 DEF CentralUpdate, CentralInv, CentralWorker, Idle
  <2>5. QueuesInv'
    BY <1>0, <1>3, <2>1 DEF CentralUpdate, QueuesInv
  <2> QED
    BY <1>0, <2>1, <2>3, <2>4, <2>5, Frame DEF HandshakeInv
<1> QED
    BY <1>1, <1>2, <1>3 DEF Central

-----------------------------------------------------------------------------
(* The GKESpotPlacementPolicy controller. *)

\* The policy controller reads the policy it is to reconcile.
LEMMA PolicyGetStep ==
    ASSUME HandshakeInv, NEW p \in Policies, PolicyGet(p)
    PROVE  HandshakeInv'
<1>0. VersionsInv /\ ObjectsInv /\ CentralInv /\ WorkersInv /\ QueuesInv
    BY DEF HandshakeInv
<1>1. /\ UNCHANGED <<versions, pol, cpol, env, cenv, inForce, central, placement>>
      /\ UNCHANGED <<centralQueued, placementQueued, edits, skipped, released>>
    BY DEF PolicyGet, objects, caches, history
<1> DEFINE old  == cpol[p]
           val  == Verdict(old.rev, old.gen, cenv.gs)
           cond == Stamp(p, old, cenv.gs)
<1>2. policy' \in PolicyWorker
  <2>1. old \in PolicyObject \cup {Unset}
    BY <1>0 DEF ObjectsInv
  <2>2. cond \in ConditionType
    BY <2>1, StampIsType
  <2>3. old # Unset => val \in ConditionType
    BY <2>1, VerdictIsType DEF PolicyObject
  <2>4. \/ policy' = [pc |-> "list", name |-> p, cond |-> cond]
        \/ old # Unset /\ policy' = [pc |-> "status", name |-> p, cond |-> cond, old |-> old, val |-> val]
    BY DEF PolicyGet
  <2> HIDE DEF cond, val, old
  <2> QED
    BY <2>1, <2>2, <2>3, <2>4 DEF PolicyWorker
<1>3. QueuesInv'
    BY <1>0, <1>1 DEF PolicyGet, QueuesInv
<1>4. WorkersInv'
    BY <1>0, <1>1, <1>2 DEF WorkersInv
<1> QED
    BY <1>0, <1>1, <1>3, <1>4, Frame DEF HandshakeInv

\* It writes the status of that policy.
LEMMA PolicyStatusStep ==
    ASSUME HandshakeInv, PolicyStatus
    PROVE  HandshakeInv'
<1>0. VersionsInv /\ ObjectsInv /\ CentralInv /\ WorkersInv /\ QueuesInv
    BY DEF HandshakeInv
<1>1. /\ UNCHANGED <<versions, cpol, env, cenv, inForce, central, placement>>
      /\ UNCHANGED <<centralQueued, placementQueued, edits, skipped, released>>
    BY DEF PolicyStatus, caches, history
<1>2. policy \in [pc : {"status"}, name : Policies, cond : ConditionType, old : PolicyObject, val : ConditionType]
    BY <1>0 DEF PolicyStatus, WorkersInv, PolicyWorker, Idle
<1>3. CASE /\ pol[policy.name] = policy.old
           /\ pol' = [pol EXCEPT ![policy.name].val = policy.val]
           /\ policy' = [pc |-> "list", name |-> policy.name, cond |-> policy.cond]
           /\ UNCHANGED policyQueued
  <2>1. [policy.old EXCEPT !.val = policy.val] \in PolicyObject
    BY <1>2 DEF PolicyObject
  <2>2. pol' = [pol EXCEPT ![policy.name] = [policy.old EXCEPT !.val = policy.val]]
    BY <1>0, <1>2, <1>3 DEF ObjectsInv
  <2>3. ObjectsInv'
    BY <1>0, <1>1, <1>2, <2>1, <2>2 DEF ObjectsInv
  <2>4. WorkersInv'
    BY <1>0, <1>1, <1>2, <1>3 DEF WorkersInv, PolicyWorker
  <2> QED
    BY <1>0, <1>1, <1>3, <2>3, <2>4, Frame DEF HandshakeInv
<1>4. CASE policy' = Idle /\ policyQueued' = policyQueued \cup {policy.name} /\ UNCHANGED pol
  <2>1. WorkersInv'
    BY <1>0, <1>1, <1>4 DEF WorkersInv, PolicyWorker
  <2>2. QueuesInv'
    BY <1>0, <1>1, <1>2, <1>4 DEF QueuesInv
  <2> QED
    BY <1>0, <1>1, <1>4, <2>1, <2>2, Frame DEF HandshakeInv
<1> QED
    BY <1>3, <1>4 DEF PolicyStatus

\* It lists the classes that refer to the policy.
LEMMA PolicyListStep ==
    ASSUME HandshakeInv, PolicyList
    PROVE  HandshakeInv'
<1>0. VersionsInv /\ ObjectsInv /\ CentralInv /\ WorkersInv /\ QueuesInv
    BY DEF HandshakeInv
<1>1. /\ UNCHANGED <<versions, pol, cpol, env, cenv, inForce, central, placement>>
      /\ UNCHANGED <<centralQueued, policyQueued, placementQueued, edits, skipped, released>>
    BY DEF PolicyList, objects, caches, queues, history
<1>2. policy \in [pc : {"list", "stamp"}, name : Policies, cond : ConditionType]
    BY <1>0 DEF PolicyList, WorkersInv, PolicyWorker, Idle
<1>3. policy' = Idle \/ policy' = [policy EXCEPT !.pc = "stamp"]
    BY DEF PolicyList
<1>4. policy' \in PolicyWorker
    BY <1>2, <1>3 DEF PolicyWorker
<1>5. WorkersInv'
    BY <1>0, <1>1, <1>4 DEF WorkersInv
<1> QED
    BY <1>0, <1>1, <1>5, Frame DEF HandshakeInv

\* It stamps the policy condition on one class of its list.
LEMMA PolicyStampStep ==
    ASSUME HandshakeInv, PolicyStamp
    PROVE  HandshakeInv'
<1>0. VersionsInv /\ ObjectsInv /\ CentralInv /\ WorkersInv /\ QueuesInv
    BY DEF HandshakeInv
<1>1. /\ UNCHANGED <<pol, cpol, env, cenv, inForce, placement>>
      /\ UNCHANGED <<centralQueued, placementQueued, edits, released>>
    BY DEF PolicyStamp, caches
<1>2. policy \in [pc : {"list", "stamp"}, name : Policies, cond : ConditionType]
    BY <1>0 DEF PolicyStamp, WorkersInv, PolicyWorker, Idle
<1> DEFINE stamp == [policy.cond EXCEPT !.obs = cwc.gen]
           new == [cwc EXCEPT !.att = stamp]
<1>3. new \in ClassType /\ Sound(new, inForce)
  <2>1. cwc \in ClassType /\ Sound(cwc, inForce) /\ cwc.gen \in Nat
    BY <1>0, ClassTypes DEF ClassType
  <2>2. stamp \in ConditionType
    BY <1>2, <2>1 DEF ConditionType
  <2> HIDE DEF stamp
  <2> QED
    BY <2>1, <2>2, OtherConditions
<1>4. \/ UNCHANGED <<versions, central>>
      \/ Put(new) /\ CentralCopyStale
    BY DEF PolicyStamp
<1> HIDE DEF new
<1>5. VersionsInv' /\ CentralInv'
    BY <1>0, <1>1, <1>3, <1>4, PutSound, StaleSound, Frame
<1>6. policy' = Idle
    BY DEF PolicyStamp
<1>7. WorkersInv'
    BY <1>0, <1>1, <1>6 DEF WorkersInv, PolicyWorker
<1>8. policyQueued' \in SUBSET Policies /\ skipped' \in BOOLEAN
  <2>1. policyQueued' = policyQueued \/ policyQueued' = policyQueued \cup {policy.name}
    BY DEF PolicyStamp
  <2>2. skipped' = skipped \/ skipped' = (wc.att # cwc.att) \/ skipped' = FALSE
    BY DEF PolicyStamp
  <2>3. skipped' \in BOOLEAN
    BY <1>0, <2>2, Zenon DEF QueuesInv
  <2> QED
    BY <1>0, <1>2, <2>1, <2>3 DEF QueuesInv
<1>9. QueuesInv'
    BY <1>0, <1>1, <1>8 DEF QueuesInv
<1> QED
    BY <1>0, <1>1, <1>5, <1>7, <1>9, Frame DEF HandshakeInv

-----------------------------------------------------------------------------
(* The GKE Spot placement controller. *)

\* The steps of the Spot placement controller.
LEMMA PlacementStep ==
    ASSUME HandshakeInv, Placement
    PROVE  HandshakeInv'
<1>0. VersionsInv /\ ObjectsInv /\ CentralInv /\ WorkersInv /\ QueuesInv
    BY DEF HandshakeInv
<1>1. CASE PlacementGet
  <2>1. /\ UNCHANGED <<versions, pol, cpol, env, cenv, inForce, central, policy>>
        /\ UNCHANGED <<centralQueued, policyQueued, edits, skipped, released>>
        /\ placementQueued' = FALSE
    BY <1>1 DEF PlacementGet, objects, caches, history
  <2>2. \/ placement' = [pc |-> "observe", c |-> cwc] \/ placement' = Idle
        \/ placement' = [pc |-> "set", desired |-> NoCondition]
    BY <1>1 DEF PlacementGet
  <2>3. cwc \in ClassType
    BY <1>0, ClassTypes
  <2>4. WorkersInv'
    BY <1>0, <2>1, <2>2, <2>3, NoConditionIsType DEF WorkersInv, PlacementWorker
  <2>5. QueuesInv'
    BY <1>0, <2>1 DEF QueuesInv
  <2> QED
    BY <1>0, <2>1, <2>4, <2>5, Frame DEF HandshakeInv
<1>2. CASE PlacementObserve
  <2>1. /\ UNCHANGED <<versions, pol, cpol, env, cenv, inForce, central, policy>>
        /\ UNCHANGED <<centralQueued, policyQueued, placementQueued, edits, skipped, released>>
    BY <1>2 DEF PlacementObserve, objects, caches, queues, history
  <2> DEFINE desired == DesiredFallbackCondition(placement.c, cenv.pods, ReversionActionFor(placement.c, cpol))
  <2>2. placement' = IF desired = Keep THEN Idle ELSE [pc |-> "set", desired |-> desired]
    BY <1>2 DEF PlacementObserve
  <2>3. placement.c \in ClassType
    BY <1>0, <1>2 DEF PlacementObserve, WorkersInv, PlacementWorker, Idle
  <2>4. cenv.pods \in {"none", "clean", "fallback"}
    BY <1>0 DEF ObjectsInv, Environments
  <2>5. desired # Keep => desired \in ConditionType
    BY <2>3, <2>4, DesiredIsType
  <2> HIDE DEF desired
  <2>6. WorkersInv'
    BY <1>0, <2>1, <2>2, <2>5 DEF WorkersInv, PlacementWorker
  <2> QED
    BY <1>0, <2>1, <2>6, Frame DEF HandshakeInv
<1>3. CASE PlacementSet
  <2>1. /\ UNCHANGED <<pol, cpol, env, cenv, inForce, policy>>
        /\ UNCHANGED <<centralQueued, policyQueued, edits, skipped>>
    BY <1>3 DEF PlacementSet, caches
  <2> DEFINE new == [cwc EXCEPT !.fb = placement.desired]
  <2>2. placement.desired \in ConditionType
    BY <1>0, <1>3 DEF PlacementSet, WorkersInv, PlacementWorker, Idle
  <2>3. new \in ClassType /\ Sound(new, inForce)
    BY <1>0, <2>2, ClassTypes, OtherConditions
  <2>4. \/ UNCHANGED <<versions, central, released>>
        \/ /\ Put(new) /\ CentralCopyStale
           /\ released' = (env.pods = "none") \/ released' = released
    BY <1>3 DEF PlacementSet
  <2> HIDE DEF new
  <2>5. VersionsInv' /\ CentralInv'
    BY <1>0, <2>1, <2>3, <2>4, PutSound, StaleSound, Frame
  <2>6. released' \in BOOLEAN
    BY <1>0, <2>4, Zenon DEF QueuesInv
  <2>7. placement' = Idle /\ (placementQueued' = placementQueued \/ placementQueued' = TRUE)
    BY <1>3 DEF PlacementSet
  <2>8. WorkersInv'
    BY <1>0, <2>1, <2>7 DEF WorkersInv, PlacementWorker
  <2>9. QueuesInv'
    BY <1>0, <2>1, <2>6, <2>7 DEF QueuesInv
  <2> QED
    BY <1>0, <2>1, <2>5, <2>8, <2>9, Frame DEF HandshakeInv
<1> QED
    BY <1>1, <1>2, <1>3 DEF Placement

-----------------------------------------------------------------------------
(* The watches. *)

\* The class reaches the cache and wakes its controllers.
LEMMA DeliverClassStep ==
    ASSUME HandshakeInv, DeliverClass
    PROVE  HandshakeInv'
<1>0. VersionsInv /\ ObjectsInv /\ CentralInv /\ WorkersInv /\ QueuesInv
    BY DEF HandshakeInv
<1>1. /\ UNCHANGED <<pol, cpol, env, cenv, inForce, central, policy, placement, edits, skipped, released>>
      /\ versions' = Tail(versions) /\ Len(versions) > 1 /\ centralQueued' = TRUE
    BY DEF DeliverClass, caches, workers, history
<1>2. VersionsInv'
  <2>1. versions \in Seq(ClassType) /\ Len(versions) \in 1 .. MaxLag + 1 /\ versions # <<>> /\ MaxLag \in Nat
    BY <1>0, <1>1, BoundsAssumption DEF VersionsInv
  <2>2. versions' \in Seq(ClassType) /\ Len(versions') = Len(versions) - 1
    BY <1>1, <2>1
  <2>3. \A i \in 1 .. Len(versions') : versions'[i] = versions[i + 1] /\ i + 1 \in 1 .. Len(versions)
    BY <1>1, <2>1, <2>2
  <2>4. Len(versions') \in 1 .. MaxLag + 1
    BY <1>1, <2>1, <2>2
  <2> QED
    BY <1>0, <1>1, <2>2, <2>3, <2>4 DEF VersionsInv
<1>3. placementQueued' \in BOOLEAN
    BY DEF DeliverClass
<1>4. policyQueued' \in SUBSET Policies
    BY <1>0 DEF DeliverClass, QueuesInv
<1>5. QueuesInv'
    BY <1>0, <1>1, <1>3, <1>4 DEF QueuesInv
<1> QED
    BY <1>0, <1>1, <1>2, <1>5, Frame DEF HandshakeInv

\* The policies, the guardrails, the other class and the Pods reach the cache.
LEMMA DeliverOtherStep ==
    ASSUME HandshakeInv,
           (\E p \in Policies : DeliverPolicy(p)) \/ DeliverGuardrails \/ DeliverOtherClass \/ DeliverPods
    PROVE  HandshakeInv'
<1>0. VersionsInv /\ ObjectsInv /\ CentralInv /\ WorkersInv /\ QueuesInv
    BY DEF HandshakeInv
<1>1. /\ UNCHANGED <<versions, pol, env, inForce, central, policy, placement, edits, skipped, released>>
      /\ centralQueued' = centralQueued \/ centralQueued' = TRUE
    BY DEF DeliverPolicy, DeliverGuardrails, DeliverOtherClass, DeliverPods, objects, caches, workers, history
<1>2. ObjectsInv'
  <2>1. ASSUME NEW p \in Policies, DeliverPolicy(p) PROVE ObjectsInv'
    <3>1. cpol' = [cpol EXCEPT ![p] = pol[p]] /\ cenv' = cenv
      BY <2>1 DEF DeliverPolicy
    <3> QED
      BY <1>0, <1>1, <3>1 DEF ObjectsInv
  <2>2. CASE DeliverGuardrails \/ DeliverOtherClass \/ DeliverPods
    <3>1. cpol' = cpol
      BY <2>2 DEF DeliverGuardrails, DeliverOtherClass, DeliverPods
    <3>2. cenv' = [cenv EXCEPT !.gs = env.gs] \/ cenv' = [cenv EXCEPT !.sel = env.sel] \/ cenv' = [cenv EXCEPT !.pods = env.pods]
      BY <2>2 DEF DeliverGuardrails, DeliverOtherClass, DeliverPods
    <3>3. cenv' \in Environments(inForce)
      BY <1>0, <3>2 DEF ObjectsInv, Environments
    <3> QED
      BY <1>0, <1>1, <3>1, <3>3 DEF ObjectsInv
  <2> QED
    BY <2>1, <2>2
<1>3. policyQueued' \in SUBSET Policies
  <2>1. ASSUME NEW p \in Policies, DeliverPolicy(p) PROVE policyQueued' \in SUBSET Policies
    BY <1>0, <2>1 DEF DeliverPolicy, QueuesInv
  <2>2. CASE DeliverGuardrails \/ DeliverOtherClass \/ DeliverPods
    BY <1>0, <2>2 DEF DeliverGuardrails, DeliverOtherClass, DeliverPods, QueuesInv
  <2> QED
    BY <2>1, <2>2
<1>4. placementQueued' \in BOOLEAN
  <2>1. ASSUME NEW p \in Policies, DeliverPolicy(p) PROVE placementQueued' \in BOOLEAN
    BY <2>1 DEF DeliverPolicy
  <2>2. CASE DeliverGuardrails \/ DeliverOtherClass \/ DeliverPods
    <3>1. WakePlacement \/ placementQueued' = placementQueued
      BY <2>2 DEF DeliverGuardrails, DeliverOtherClass, DeliverPods
    <3> QED
      BY <1>0, <3>1 DEF WakePlacement, QueuesInv
  <2> QED
    BY <2>1, <2>2
<1>5. QueuesInv'
    BY <1>0, <1>1, <1>3, <1>4 DEF QueuesInv
<1> QED
    BY <1>0, <1>1, <1>2, <1>5, Frame DEF HandshakeInv

-----------------------------------------------------------------------------
(* Users, administrators and the cluster. *)

\* An edit is counted.
LEMMA EditCounted ==
    ASSUME QueuesInv, Edit, UNCHANGED <<queues, skipped>>, released' \in BOOLEAN
    PROVE  QueuesInv'
<1>1. edits' \in 0 .. MaxEdits
    BY BoundsAssumption DEF QueuesInv, Edit
<1> QED
    BY <1>1 DEF QueuesInv, queues

\* A user edits the class.
LEMMA EditClassStep ==
    ASSUME HandshakeInv, NEW spec \in Specs, EditClass(spec)
    PROVE  HandshakeInv'
<1>0. VersionsInv /\ ObjectsInv /\ CentralInv /\ WorkersInv /\ QueuesInv
    BY DEF HandshakeInv
<1>1. UNCHANGED <<pol, cpol, env, cenv, inForce, policy, placement, queues, skipped>> /\ Edit
    BY DEF EditClass, caches
<1> DEFINE new == [wc EXCEPT !.gen = @ + 1, !.spec = spec]
<1>2. spec \in Spec_
    BY InputsAssumption
<1>3. new \in ClassType /\ Sound(new, inForce)
    BY <1>0, <1>2, ClassTypes, NewGeneration
<1>4. Put(new) /\ CentralCopyStale
    BY DEF EditClass
<1> HIDE DEF new
<1>5. VersionsInv' /\ CentralInv'
    BY <1>0, <1>1, <1>3, <1>4, PutSound, StaleSound
<1>6. released' \in BOOLEAN
    BY DEF EditClass
<1> QED
    BY <1>0, <1>1, <1>5, <1>6, EditCounted, Frame DEF HandshakeInv

\* A user creates, edits or deletes a policy.
LEMMA EditPoliciesStep ==
    ASSUME HandshakeInv, NEW p \in Policies, NEW rev \in Reversions,
           CreatePolicy(p, rev) \/ EditPolicy(p, rev) \/ DeletePolicy(p)
    PROVE  HandshakeInv'
<1>0. VersionsInv /\ ObjectsInv /\ CentralInv /\ WorkersInv /\ QueuesInv
    BY DEF HandshakeInv
<1>1. UNCHANGED <<versions, cpol, env, cenv, inForce, central, policy, placement, queues, skipped>> /\ Edit /\ released' = TRUE
    BY DEF CreatePolicy, EditPolicy, DeletePolicy, caches, workers
<1>2. PICK o \in PolicyObject \cup {Unset} : pol' = [pol EXCEPT ![p] = o]
  <2>1. CASE CreatePolicy(p, rev)
    <3> DEFINE o == [gen |-> 1, rev |-> rev, val |-> NoCondition]
    <3>1. o \in PolicyObject
      BY NoConditionIsType DEF PolicyObject
    <3>2. pol' = [pol EXCEPT ![p] = o]
      BY <2>1 DEF CreatePolicy
    <3> HIDE DEF o
    <3> QED
      BY <3>1, <3>2
  <2>2. CASE EditPolicy(p, rev)
    <3>1. pol[p] \in PolicyObject /\ pol[p].gen \in Nat
      BY <1>0, <2>2 DEF EditPolicy, ObjectsInv, PolicyObject
    <3>2. PICK g \in Nat : g = pol[p].gen + 1
      BY <3>1
    <3> DEFINE o == [pol[p] EXCEPT !.gen = g, !.rev = rev]
    <3>3. o \in PolicyObject
      BY <3>1 DEF PolicyObject
    <3>4. pol' = [pol EXCEPT ![p] = o]
      <4>1. pol' = [pol EXCEPT ![p].gen = @ + 1, ![p].rev = rev]
        BY <2>2 DEF EditPolicy
      <4> QED
        BY <1>0, <3>1, <3>2, <4>1 DEF ObjectsInv
    <3> HIDE DEF o
    <3> QED
      BY <3>3, <3>4
  <2>3. CASE DeletePolicy(p)
    BY <2>3 DEF DeletePolicy
  <2> QED
    BY <2>1, <2>2, <2>3
<1>3. ObjectsInv'
    BY <1>0, <1>1, <1>2 DEF ObjectsInv
<1> QED
    BY <1>0, <1>1, <1>3, EditCounted, Frame DEF HandshakeInv

\* An administrator edits the guardrails.
LEMMA EditGuardrailsStep ==
    ASSUME HandshakeInv, NEW gs \in GuardrailLists, EditGuardrails(gs)
    PROVE  HandshakeInv'
<1>0. VersionsInv /\ ObjectsInv /\ CentralInv /\ WorkersInv /\ QueuesInv
    BY DEF HandshakeInv
<1>1. /\ UNCHANGED <<versions, pol, cpol, cenv, central, policy, placement, queues, skipped>>
      /\ Edit /\ released' = TRUE
      /\ env' = [env EXCEPT !.gs = gs] /\ inForce' = inForce \cup {gs}
    BY DEF EditGuardrails, caches, workers
<1>2. VersionsInv'
    BY <1>0, <1>1, MoreLists DEF VersionsInv
<1>3. CentralInv'
    BY <1>0, <1>1, MoreLists DEF CentralInv
<1>4. ObjectsInv'
  <2>1. env' \in Environments(inForce') /\ cenv' \in Environments(inForce')
    BY <1>0, <1>1 DEF ObjectsInv, Environments
  <2> QED
    BY <1>0, <1>1, <2>1 DEF ObjectsInv
<1> QED
    BY <1>0, <1>1, <1>2, <1>3, <1>4, EditCounted, Frame DEF HandshakeInv

\* The other class is edited, Pods move.
LEMMA EditClusterStep ==
    ASSUME HandshakeInv,
           \/ \E sel \in OtherSelectors : EditOtherClass(sel)
           \/ \E pods \in {"none", "clean", "fallback"} : MovePods(pods)
    PROVE  HandshakeInv'
<1>0. VersionsInv /\ ObjectsInv /\ CentralInv /\ WorkersInv /\ QueuesInv
    BY DEF HandshakeInv
<1>1. /\ UNCHANGED <<versions, pol, cpol, cenv, inForce, central, policy, placement, queues, skipped>> /\ Edit
    BY DEF EditOtherClass, MovePods, caches, workers
<1>2. released' \in BOOLEAN
    BY <1>0 DEF EditOtherClass, MovePods, QueuesInv
<1>3. env' \in Environments(inForce)
    BY <1>0 DEF EditOtherClass, MovePods, ObjectsInv, Environments
<1>4. ObjectsInv'
    BY <1>0, <1>1, <1>3 DEF ObjectsInv
<1> QED
    BY <1>0, <1>1, <1>2, <1>4, EditCounted, Frame DEF HandshakeInv

-----------------------------------------------------------------------------
\* HandshakeInv is inductive.
LEMMA HandshakeNext == HandshakeInv /\ [Next]_vars => HandshakeInv'
<1> SUFFICES ASSUME HandshakeInv, [Next]_vars PROVE HandshakeInv'
    OBVIOUS
<1>1. CASE Central
    BY <1>1, CentralStep
<1>2. CASE Policy
    BY <1>2, PolicyGetStep, PolicyStatusStep, PolicyListStep, PolicyStampStep DEF Policy
<1>3. CASE Placement
    BY <1>3, PlacementStep
<1>4. CASE Deliver
    BY <1>4, DeliverClassStep, DeliverOtherStep DEF Deliver
<1>5. CASE Environment
  <2>1. ASSUME NEW p \in Policies, DeletePolicy(p) PROVE HandshakeInv'
    <3>1. PICK rev : rev \in Reversions
      BY <2>1 DEF DeletePolicy, HandshakeInv, ObjectsInv, PolicyObject
    <3> QED
      BY <2>1, <3>1, EditPoliciesStep
  <2> QED
    BY <1>5, <2>1, EditClassStep, EditPoliciesStep, EditGuardrailsStep, EditClusterStep DEF Environment
<1>6. CASE UNCHANGED vars
    BY <1>6, Frame DEF vars, workers, queues, history, HandshakeInv
<1> QED
    BY <1>1, <1>2, <1>3, <1>4, <1>5, <1>6 DEF Next

\* Every piece of state has its type, for any specs, policies and guardrails.
THEOREM HandshakeTypes == Spec => []TypeOK
<1>1. HandshakeInv => TypeOK
  <2> SUFFICES ASSUME HandshakeInv PROVE TypeOK
    OBVIOUS
  <2>0. VersionsInv /\ ObjectsInv /\ CentralInv /\ WorkersInv /\ QueuesInv
    BY DEF HandshakeInv
  <2>1. Len(versions) \in 1 .. MaxLag + 1 /\ \A i \in DOMAIN versions : versions[i] \in ClassType
    BY <2>0 DEF VersionsInv
  <2>2. \A p \in Policies : \A o \in {pol[p], cpol[p]} :
            o # Unset => o.gen \in Nat /\ o.rev \in Reversions /\ o.val \in ConditionType
    BY <2>0 DEF ObjectsInv, PolicyObject
  <2>3. \A e \in {env, cenv} : e.gs \in GuardrailLists /\ e.sel \in OtherSelectors /\ e.pods \in {"none", "clean", "fallback"}
    BY <2>0 DEF ObjectsInv, Environments
  <2>4. central.pc \in {"judge", "update"} => central.c \in ClassType /\ central.current \in BOOLEAN
    BY <2>0 DEF CentralInv, CentralWorker, Idle
  <2>5. policy.pc \in {"status", "list", "stamp"} => policy.name \in Policies /\ policy.cond \in ConditionType
    BY <2>0 DEF WorkersInv, PolicyWorker, Idle
  <2>6. /\ placement.pc = "observe" => placement.c \in ClassType
        /\ placement.pc = "set" => placement.desired \in ConditionType
    BY <2>0 DEF WorkersInv, PlacementWorker, Idle
  <2>7. /\ centralQueued \in BOOLEAN /\ placementQueued \in BOOLEAN /\ policyQueued \subseteq Policies
        /\ edits \in 0 .. MaxEdits /\ inForce \subseteq GuardrailLists /\ skipped \in BOOLEAN /\ released \in BOOLEAN
    BY <2>0 DEF QueuesInv, ObjectsInv
  <2> QED
    BY <2>1, <2>2, <2>3, <2>4, <2>5, <2>6, <2>7 DEF TypeOK
<1> QED
    BY <1>1, HandshakeInit, HandshakeNext, PTL DEF Spec

\* However the three controllers, their stale reads and the edits interleave, a class by which the webhook
\* would place Pods has a strategy and a disruption policy that guardrails in force once allowed.
THEOREM HandshakeMutatesOnlyValidated == Spec => []MutatesOnlyValidated
<1>1. HandshakeInv => MutatesOnlyValidated
  <2> SUFFICES ASSUME HandshakeInv, NEW i \in DOMAIN versions, Mutates(versions[i])
               PROVE  \E gs \in inForce : /\ RespectsCapacity(versions[i].spec.cs, gs)
                                          /\ RespectsDisruption(versions[i].spec.dp, gs)
    BY DEF MutatesOnlyValidated
  <2>1. Sound(versions[i], inForce)
    BY DEF HandshakeInv, VersionsInv
  <2> QED
    BY <2>1 DEF Mutates, Sound
<1> QED
    BY <1>1, HandshakeInit, HandshakeNext, PTL DEF Spec

-----------------------------------------------------------------------------
(* What is at rest is right.  For each controller the invariant says that the
   class is as it would leave it, unless something is going to wake it. *)

\* Generations only grow, and a generation has one spec.
GenerationsInv ==
    \A i, j \in 1 .. Len(versions) : i <= j =>
        /\ versions[i].gen <= versions[j].gen
        /\ versions[i].gen = versions[j].gen => versions[i].spec = versions[j].spec

\* While nothing is written after it read the class, the central worker's copy is the server's.
CurrentInv ==
    central.pc # "idle" /\ central.current =>
        /\ central.pc = "judge" => central.c = wc
        /\ central.pc = "update" => /\ central.c.gen = wc.gen /\ central.c.spec = wc.spec
                                    /\ central.c.att = PlacementPluginCondition(wc)

\* Unless the WorkloadClass controller is going to look at it again, it would leave the cached class as it is.
CentralRest ==
    \/ centralQueued \/ Len(versions) > 1
    \/ central.pc = "update" \/ (central.pc = "judge" /\ central.c = cwc)
    \/ CentralStatus(cwc, cenv.gs, cenv.sel) = cwc

\* A policy whose verdict has changed since the policy worker read it is queued.
FreshInv ==
    policy.pc # "idle" =>
        /\ policy.cond.status # "Absent" /\ policy.cond.reason # "PluginPending"
        /\ \/ policy.name \in policyQueued
           \/ policy.cond = Stamp(policy.name, cpol[policy.name], cenv.gs)

\* The policy that the class references is going to be looked at: it is queued, being worked on,
\* or will be queued when the class's new generation is delivered.
Awaited ==
    \/ wc.spec.ref \in policyQueued \/ cwc.gen # wc.gen
    \/ policy.pc # "idle" /\ policy.name = wc.spec.ref

\* A policy's stamp is late for a class that references another policy by now only if that one follows.
LateStampInv == policy.pc = "stamp" /\ wc.spec.ref \in Policies => Awaited

\* Otherwise the class carries the stamp of the policy it references.
StampRest ==
    wc.spec.ref \in Policies =>
        \/ Awaited \/ skipped
        \/ wc.att = [Stamp(wc.spec.ref, cpol[wc.spec.ref], cenv.gs) EXCEPT !.obs = wc.gen]

\* A stamp for the current generation.
Stamped(c) == c.att.status # "Absent" /\ c.att.obs = c.gen /\ c.att.reason # "PluginPending"

\* What is stamped stays so until the next generation, and a class is stamped unless its policy is awaited.
StampedInv ==
    /\ \A i, j \in 1 .. Len(versions) :
           i <= j /\ versions[i].gen = versions[j].gen =>
               (versions[i].spec.ref \in Policies /\ Stamped(versions[i]) => Stamped(versions[j]))
    /\ wc.spec.ref \in Policies => Awaited \/ Stamped(wc)

\* A cached policy of the same generation has the same spec, and only a policy that exists is written.
PolicyGenerationsInv ==
    /\ \A p \in Policies : cpol[p] # Unset /\ pol[p] # Unset =>
           /\ cpol[p].gen <= pol[p].gen
           /\ cpol[p].gen = pol[p].gen => cpol[p].rev = pol[p].rev
    /\ policy.pc = "status" => policy.old # Unset

\* What FallbackAtRest asks of the condition.
FallbackFits(c, cond, pods, ps) ==
    IF ~(IsReady(c) /\ TracksFallback(c.spec)) THEN cond = NoCondition
    ELSE /\ pods = "fallback" => cond.status = "True"
         /\ pods = "none" => cond.status = "False"
         /\ pods = "clean" /\ ReversionActionFor(c, ps) # "None" => cond.status = "False"

\* Unless the placement controller is going to look at it again, a class it manages has the condition that fits.
FallbackRest ==
    /\ placement.pc = "observe" => IsReady(placement.c)
    /\ \/ placementQueued \/ Len(versions) > 1
       \/ ~IsGKESpotManaged(cwc.spec)
       \/ ~IsReady(cwc) /\ IsPlacementPluginPending(cwc)
       \/ placement.pc = "observe" /\ placement.c = cwc
       \/ placement.pc = "set" /\ FallbackFits(cwc, placement.desired, cenv.pods, cpol)
       \/ FallbackFits(cwc, cwc.fb, cenv.pods, cpol)

-----------------------------------------------------------------------------
(* The versions of the class. *)

\* A new version becomes the server's, and the cache is behind.
LEMMA PutFacts ==
    ASSUME VersionsInv, NEW new, Put(new)
    PROVE  /\ Len(versions) \in Nat /\ Len(versions) >= 1
           /\ Len(versions') = Len(versions) + 1
           /\ \A i \in 1 .. Len(versions) : versions'[i] = versions[i]
           /\ versions'[Len(versions) + 1] = new
           /\ wc' = new /\ cwc' = cwc
<1>1. /\ versions \in Seq(ClassType) /\ Len(versions) \in Nat /\ Len(versions) >= 1
      /\ versions' = Append(versions, new)
    BY BoundsAssumption DEF VersionsInv, Put
<1>2. /\ Len(versions') = Len(versions) + 1
      /\ \A i \in 1 .. Len(versions) : versions'[i] = versions[i]
      /\ versions'[Len(versions) + 1] = new
    BY <1>1
<1>3. versions'[1] = versions[1] /\ versions'[Len(versions')] = new
    BY <1>1, <1>2
<1> QED
    BY <1>1, <1>2, <1>3 DEF wc, cwc

\* The cache learns of the next version.
LEMMA TailFacts ==
    ASSUME VersionsInv, Len(versions) > 1, versions' = Tail(versions)
    PROVE  /\ Len(versions) \in Nat
           /\ Len(versions') = Len(versions) - 1
           /\ \A i \in 1 .. Len(versions') : versions'[i] = versions[i + 1]
           /\ wc' = wc /\ cwc' = versions[2]
<1>1. versions \in Seq(ClassType) /\ Len(versions) \in Nat /\ versions # <<>>
    BY BoundsAssumption DEF VersionsInv
<1>2. Len(versions') = Len(versions) - 1 /\ \A i \in 1 .. Len(versions') : versions'[i] = versions[i + 1]
    BY <1>1
<1>3. versions'[1] = versions[2] /\ versions'[Len(versions')] = versions[Len(versions)]
    BY <1>1, <1>2
<1> QED
    BY <1>1, <1>2, <1>3 DEF wc, cwc

\* A cache that is current has the server's version, and otherwise it may have another.
LEMMA CurrentFacts ==
    ASSUME VersionsInv
    PROVE  /\ CacheCurrent => cwc = wc
           /\ Len(versions) \in Nat /\ Len(versions) >= 1 /\ (CacheCurrent <=> ~(Len(versions) > 1))
<1>1. Len(versions) \in Nat /\ Len(versions) >= 1
    BY BoundsAssumption DEF VersionsInv
<1>2. CacheCurrent => cwc = wc
    BY DEF CacheCurrent, wc, cwc
<1>3. CacheCurrent <=> ~(Len(versions) > 1)
  <2>1. \A n \in Nat : n >= 1 => (n = 1 <=> ~(n > 1))
    OBVIOUS
  <2> QED
    BY <1>1, <2>1, Zenon DEF CacheCurrent
<1> QED
    BY <1>1, <1>2, <1>3

\* No version is newer than the server's, and one of its generation has its spec.
LEMMA VersionFacts ==
    ASSUME VersionsInv, GenerationsInv, NEW i \in 1 .. Len(versions)
    PROVE  /\ versions[i] \in ClassType /\ versions[i].gen \in Nat /\ versions[i].gen <= wc.gen
           /\ versions[i].gen = wc.gen => versions[i].spec = wc.spec
<1>1. Len(versions) \in 1 .. Len(versions) /\ i <= Len(versions)
    BY CurrentFacts
<1>2. versions[i] \in ClassType
    BY DEF VersionsInv
<1>3. versions[i].gen \in Nat
    BY <1>2 DEF ClassType
<1> QED
    BY <1>1, <1>2, <1>3 DEF GenerationsInv, wc

\* What a step may do to the versions.
Write ==
    \/ UNCHANGED versions
    \/ DeliverClass
    \/ \E new \in ClassType : Put(new) /\ new.gen = wc.gen + 1
    \/ \E new \in ClassType : /\ Put(new) /\ new.gen = wc.gen /\ new.spec = wc.spec
                              /\ new.att = wc.att \/ new.att = PlacementPluginCondition(wc) \/ (PolicyStamp /\ Stamped(new))

\* What each step of the specification does to them.
LEMMA Writes ==
    ASSUME HandshakeInv, CurrentInv, FreshInv, [Next]_vars
    PROVE  Write
<1>0. VersionsInv /\ ObjectsInv /\ CentralInv /\ WorkersInv /\ QueuesInv /\ cwc \in ClassType /\ wc \in ClassType
    BY ClassTypes DEF HandshakeInv
<1>1. CASE CentralUpdate
  <2>1. UNCHANGED versions \/ (central.current /\ Put(central.c))
    BY <1>1 DEF CentralUpdate
  <2>2. central.c \in ClassType
    BY <1>0, <1>1 DEF CentralUpdate, CentralInv, CentralWorker, Idle
  <2>3. central.current => /\ central.c.gen = wc.gen /\ central.c.spec = wc.spec
                           /\ central.c.att = PlacementPluginCondition(wc)
    BY <1>1 DEF CentralUpdate, CurrentInv
  <2> QED
    BY <2>1, <2>2, <2>3 DEF Write
<1>2. CASE PolicyStamp
  <2> DEFINE stamp == [policy.cond EXCEPT !.obs = cwc.gen]
             new == [cwc EXCEPT !.att = stamp]
  <2>1. UNCHANGED versions \/ (CacheCurrent /\ Put(new))
    BY <1>2 DEF PolicyStamp
  <2>2. /\ policy.cond \in ConditionType /\ cwc.gen \in Nat
        /\ policy.cond.status # "Absent" /\ policy.cond.reason # "PluginPending"
    BY <1>0, <1>2 DEF PolicyStamp, WorkersInv, PolicyWorker, Idle, FreshInv, ClassType
  <2>3. stamp \in ConditionType /\ stamp.status # "Absent" /\ stamp.reason # "PluginPending" /\ stamp.obs = cwc.gen
    BY <2>2 DEF ConditionType
  <2> HIDE DEF stamp
  <2>4. new \in ClassType /\ new.gen = cwc.gen /\ new.spec = cwc.spec /\ new.att = stamp
    BY <1>0, <2>3 DEF ClassType
  <2> HIDE DEF new
  <2>5. Stamped(new)
    BY <2>3, <2>4 DEF Stamped
  <2> QED
    BY <1>0, <1>2, <2>1, <2>4, <2>5, CurrentFacts DEF Write
<1>3. CASE PlacementSet
  <2> DEFINE new == [cwc EXCEPT !.fb = placement.desired]
  <2>1. UNCHANGED versions \/ (CacheCurrent /\ Put(new))
    BY <1>3 DEF PlacementSet
  <2>2. placement.desired \in ConditionType
    BY <1>0, <1>3 DEF PlacementSet, WorkersInv, PlacementWorker, Idle
  <2>3. new \in ClassType /\ new.gen = cwc.gen /\ new.spec = cwc.spec /\ new.att = cwc.att
    BY <1>0, <2>2 DEF ClassType
  <2> HIDE DEF new
  <2> QED
    BY <1>0, <2>1, <2>3, CurrentFacts DEF Write
<1>4. CASE DeliverClass
    BY <1>4 DEF Write
<1>5. ASSUME NEW spec \in Specs, EditClass(spec) PROVE Write
  <2> DEFINE new == [wc EXCEPT !.gen = @ + 1, !.spec = spec]
  <2>1. Put(new)
    BY <1>5 DEF EditClass
  <2>2. new \in ClassType
    BY <1>0, ClassTypes, NewGeneration, InputsAssumption
  <2>3. new.gen = wc.gen + 1
    BY <1>0 DEF ClassType
  <2> HIDE DEF new
  <2> QED
    BY <2>1, <2>2, <2>3 DEF Write
<1>6. CASE \/ CentralGet \/ CentralJudge \/ (\E p \in Policies : PolicyGet(p)) \/ PolicyStatus \/ PolicyList
           \/ PlacementGet \/ PlacementObserve
    BY <1>6 DEF CentralGet, CentralJudge, PolicyGet, PolicyStatus, PolicyList, PlacementGet, PlacementObserve, objects, Write
<1>7. CASE (\E p \in Policies : DeliverPolicy(p)) \/ DeliverGuardrails \/ DeliverOtherClass \/ DeliverPods
    BY <1>7 DEF DeliverPolicy, DeliverGuardrails, DeliverOtherClass, DeliverPods, objects, Write
<1>8. CASE \/ \E p \in Policies, rev \in Reversions : CreatePolicy(p, rev) \/ EditPolicy(p, rev)
           \/ \E p \in Policies : DeletePolicy(p)
           \/ \E gs \in GuardrailLists : EditGuardrails(gs)
           \/ \E sel \in OtherSelectors : EditOtherClass(sel)
           \/ \E pods \in {"none", "clean", "fallback"} : MovePods(pods)
    BY <1>8 DEF CreatePolicy, EditPolicy, DeletePolicy, EditGuardrails, EditOtherClass, MovePods, Write
<1>9. CASE UNCHANGED vars
    BY <1>9 DEF vars, Write
<1> QED
    BY <1>1, <1>2, <1>3, <1>4, <1>5, <1>6, <1>7, <1>8, <1>9
       DEF Next, Central, Policy, Placement, Deliver, Environment

\* The generations stay in order.
LEMMA GenerationsNext ==
    ASSUME HandshakeInv, GenerationsInv, Write
    PROVE  GenerationsInv'
<1>0. VersionsInv /\ wc \in ClassType /\ wc.gen \in Nat
    BY ClassTypes DEF HandshakeInv, ClassType
<1>1. CASE UNCHANGED versions
    BY <1>1 DEF GenerationsInv
<1>2. CASE DeliverClass
  <2> SUFFICES ASSUME NEW i \in 1 .. Len(versions'), NEW j \in 1 .. Len(versions'), i <= j
               PROVE  /\ versions'[i].gen <= versions'[j].gen
                      /\ versions'[i].gen = versions'[j].gen => versions'[i].spec = versions'[j].spec
    BY DEF GenerationsInv
  <2>1. /\ i + 1 \in 1 .. Len(versions) /\ j + 1 \in 1 .. Len(versions) /\ i + 1 <= j + 1
        /\ versions'[i] = versions[i + 1] /\ versions'[j] = versions[j + 1]
    BY <1>0, <1>2, TailFacts DEF DeliverClass
  <2> QED
    BY <2>1 DEF GenerationsInv
<1>3. ASSUME NEW new \in ClassType, Put(new), new.gen = wc.gen + 1 \/ (new.gen = wc.gen /\ new.spec = wc.spec)
      PROVE  GenerationsInv'
  <2>1. /\ Len(versions) \in Nat /\ Len(versions) >= 1 /\ Len(versions') = Len(versions) + 1
        /\ \A i \in 1 .. Len(versions) : versions'[i] = versions[i]
        /\ versions'[Len(versions) + 1] = new
    BY <1>0, <1>3, PutFacts
  <2>2. ASSUME NEW i \in 1 .. Len(versions)
        PROVE  /\ versions[i].gen \in Nat /\ versions[i].gen <= wc.gen
               /\ versions[i].gen = wc.gen => versions[i].spec = wc.spec
    BY <1>0, <2>2, VersionFacts
  <2>3. ASSUME NEW i \in 1 .. Len(versions)
        PROVE  /\ versions[i].gen <= new.gen
               /\ versions[i].gen = new.gen => versions[i].spec = new.spec
    <3>1. CASE new.gen = wc.gen + 1
      BY <1>0, <2>2, <3>1
    <3>2. CASE new.gen = wc.gen /\ new.spec = wc.spec
      BY <2>2, <3>2
    <3> QED
      BY <1>3, <3>1, <3>2
  <2>4. new.gen <= new.gen
    BY <1>0, <1>3
  <2> SUFFICES ASSUME NEW i \in 1 .. Len(versions'), NEW j \in 1 .. Len(versions'), i <= j
               PROVE  /\ versions'[i].gen <= versions'[j].gen
                      /\ versions'[i].gen = versions'[j].gen => versions'[i].spec = versions'[j].spec
    BY DEF GenerationsInv
  <2>5. CASE j \in 1 .. Len(versions)
    <3>1. i \in 1 .. Len(versions)
      BY <2>1, <2>5
    <3> QED
      BY <2>1, <2>5, <3>1 DEF GenerationsInv
  <2>6. CASE j = Len(versions) + 1
    <3>1. i \in 1 .. Len(versions) \/ i = Len(versions) + 1
      BY <2>1, <2>6
    <3>2. CASE i \in 1 .. Len(versions)
      BY <2>1, <2>3, <2>6, <3>2
    <3>3. CASE i = Len(versions) + 1
      BY <2>1, <2>4, <2>6, <3>3
    <3> QED
      BY <3>1, <3>2, <3>3
  <2> QED
    BY <2>1, <2>5, <2>6
<1> QED
    BY <1>1, <1>2, <1>3 DEF Write

\* Where nothing is written or delivered, the class stays what it is.
LEMMA SameClass ==
    ASSUME UNCHANGED versions
    PROVE  wc' = wc /\ cwc' = cwc /\ Len(versions') = Len(versions)
  BY DEF wc, cwc

\* Edits of other objects than the class.
EditElsewhere ==
    \/ \E p \in Policies, rev \in Reversions : CreatePolicy(p, rev) \/ EditPolicy(p, rev)
    \/ \E p \in Policies : DeletePolicy(p)
    \/ \E gs \in GuardrailLists : EditGuardrails(gs)
    \/ \E sel \in OtherSelectors : EditOtherClass(sel)
    \/ \E pods \in {"none", "clean", "fallback"} : MovePods(pods)

\* They are not seen before they are delivered.
LEMMA ElsewhereFrame ==
    ASSUME EditElsewhere
    PROVE  UNCHANGED <<versions, cpol, cenv, central, policy, placement, centralQueued, policyQueued, placementQueued, skipped>>
  BY DEF EditElsewhere, CreatePolicy, EditPolicy, DeletePolicy, EditGuardrails, EditOtherClass, MovePods,
         caches, workers, queues

-----------------------------------------------------------------------------
(* The WorkloadClass controller at rest. *)

\* What the controller makes of a class, apart from Validated.
LEMMA CentralStatusShape ==
    ASSUME NEW c \in ClassType, NEW gs, NEW sel
    PROVE  /\ CentralStatus(c, gs, sel).gen = c.gen /\ CentralStatus(c, gs, sel).spec = c.spec
           /\ CentralStatus(c, gs, sel).att = PlacementPluginCondition(c)
           /\ CentralStatus(c, gs, sel).val = Reconciled(ValidatedCondition(c, gs, sel), PlacementPluginCondition(c))
  BY DEF CentralStatus, ClassType

\* The central worker's copy stays current only while it is the server's.
LEMMA CurrentNext ==
    ASSUME HandshakeInv, CurrentInv, [Next]_vars
    PROVE  CurrentInv'
<1>0. VersionsInv /\ CentralInv /\ wc \in ClassType
    BY ClassTypes DEF HandshakeInv
<1>1. ASSUME UNCHANGED central, wc' = wc PROVE CurrentInv'
    BY <1>1 DEF CurrentInv, PlacementPluginCondition
<1>2. ASSUME CentralCopyStale PROVE CurrentInv'
  <2>1. CASE central.pc = "idle"
    BY <1>2, <2>1 DEF CentralCopyStale, Idle, CurrentInv
  <2>2. CASE central.pc # "idle"
    <3>1. central \in [pc : {"judge", "update"}, c : ClassType, current : BOOLEAN]
      BY <1>0, <2>2 DEF CentralInv, CentralWorker, Idle
    <3>2. central'.current = FALSE
      BY <1>2, <2>2, <3>1 DEF CentralCopyStale
    <3> QED
      BY <3>2 DEF CurrentInv
  <2> QED
    BY <2>1, <2>2
<1>3. CASE CentralGet
  <2>1. central' = [pc |-> "judge", c |-> cwc, current |-> CacheCurrent] /\ wc' = wc
    BY <1>3, SameClass DEF CentralGet, objects
  <2>2. central'.pc = "judge" /\ central'.c = cwc /\ (central'.current => cwc = wc)
    BY <1>0, <2>1, CurrentFacts
  <2> QED
    BY <2>1, <2>2 DEF CurrentInv
<1>4. CASE CentralJudge
  <2> DEFINE new == CentralStatus(central.c, cenv.gs, cenv.sel)
  <2>1. central' = (IF new = central.c THEN Idle ELSE [central EXCEPT !.pc = "update", !.c = new]) /\ wc' = wc
    BY <1>4, SameClass DEF CentralJudge, objects
  <2>2. central \in [pc : {"judge", "update"}, c : ClassType, current : BOOLEAN] /\ central.pc = "judge"
    BY <1>0, <1>4 DEF CentralJudge, CentralInv, CentralWorker, Idle
  <2>3. central.current => central.c = wc
    BY <2>2 DEF CurrentInv
  <2>4. new.gen = central.c.gen /\ new.spec = central.c.spec /\ new.att = PlacementPluginCondition(central.c)
    BY <2>2, CentralStatusShape
  <2> HIDE DEF new
  <2>5. CASE new = central.c
    BY <2>1, <2>5 DEF CurrentInv, Idle
  <2>6. CASE new # central.c
    <3>1. central'.pc = "update" /\ central'.c = new /\ central'.current = central.current
      BY <2>1, <2>2, <2>6
    <3>2. PlacementPluginCondition(wc)' = PlacementPluginCondition(wc)
      BY <2>1 DEF PlacementPluginCondition
    <3> QED
      BY <2>1, <2>3, <2>4, <3>1, <3>2 DEF CurrentInv
  <2> QED
    BY <2>5, <2>6
<1>5. CASE CentralUpdate
    BY <1>5 DEF CentralUpdate, CurrentInv, Idle
<1>6. CASE PolicyStamp
    BY <1>1, <1>2, <1>6, SameClass DEF PolicyStamp
<1>7. CASE PlacementSet
    BY <1>1, <1>2, <1>7, SameClass DEF PlacementSet
<1>8. CASE DeliverClass
    BY <1>0, <1>1, <1>8, TailFacts DEF DeliverClass, workers
<1>9. CASE \E spec \in Specs : EditClass(spec)
    BY <1>2, <1>9 DEF EditClass
<1>10. CASE \/ (\E p \in Policies : PolicyGet(p)) \/ PolicyStatus \/ PolicyList \/ PlacementGet \/ PlacementObserve
            \/ (\E p \in Policies : DeliverPolicy(p)) \/ DeliverGuardrails \/ DeliverOtherClass \/ DeliverPods
            \/ UNCHANGED vars
  <2>1. UNCHANGED <<versions, central>>
    BY <1>10 DEF PolicyGet, PolicyStatus, PolicyList, PlacementGet, PlacementObserve, DeliverPolicy, DeliverGuardrails,
                 DeliverOtherClass, DeliverPods, objects, workers, vars
  <2> QED
    BY <1>1, <2>1, SameClass
<1>11. CASE EditElsewhere
  <2>1. UNCHANGED <<versions, central>>
    BY <1>11, ElsewhereFrame
  <2> QED
    BY <1>1, <2>1, SameClass
<1> QED
    BY <1>3, <1>4, <1>5, <1>6, <1>7, <1>8, <1>9, <1>10, <1>11
       DEF Next, Central, Policy, Placement, Deliver, Environment, EditElsewhere

\* Whatever makes the WorkloadClass controller's last look outdated wakes it.
LEMMA CentralRestNext ==
    ASSUME HandshakeInv, CentralRest, [Next]_vars
    PROVE  CentralRest'
<1>0. VersionsInv /\ ObjectsInv /\ CentralInv
    BY DEF HandshakeInv
<1>1. ASSUME NEW new, Put(new) PROVE CentralRest'
    BY <1>0, <1>1, PutFacts DEF CentralRest
<1>2. ASSUME UNCHANGED <<versions, central, centralQueued>>, cenv'.gs = cenv.gs, cenv'.sel = cenv.sel
      PROVE  CentralRest'
  <2>1. cwc' = cwc /\ Len(versions') = Len(versions)
    BY <1>2, SameClass
  <2>2. CentralStatus(cwc, cenv.gs, cenv.sel)' = CentralStatus(cwc, cenv.gs, cenv.sel)
    BY <1>2, <2>1 DEF CentralStatus, ValidatedCondition, PlacementPluginCondition
  <2> QED
    BY <1>2, <2>1, <2>2 DEF CentralRest
<1>3. CASE centralQueued'
    BY <1>3 DEF CentralRest
<1>4. CASE CentralGet
  <2>1. central' = [pc |-> "judge", c |-> cwc, current |-> CacheCurrent] /\ cwc' = cwc
    BY <1>4, SameClass DEF CentralGet, objects
  <2>2. central'.pc = "judge" /\ central'.c = cwc
    BY <2>1
  <2> QED
    BY <2>1, <2>2 DEF CentralRest
<1>5. CASE CentralJudge
  <2> DEFINE new == CentralStatus(central.c, cenv.gs, cenv.sel)
  <2>1. /\ central' = (IF new = central.c THEN Idle ELSE [central EXCEPT !.pc = "update", !.c = new])
        /\ cwc' = cwc /\ Len(versions') = Len(versions) /\ UNCHANGED <<centralQueued, cenv>>
    BY <1>5, SameClass DEF CentralJudge, objects, caches, queues
  <2>2. central \in [pc : {"judge", "update"}, c : ClassType, current : BOOLEAN] /\ central.pc = "judge"
    BY <1>0, <1>5 DEF CentralJudge, CentralInv, CentralWorker, Idle
  <2>3. CASE new # central.c
    <3>1. central'.pc = "update"
      BY <2>1, <2>2, <2>3
    <3> QED
      BY <3>1 DEF CentralRest
  <2>4. CASE new = central.c
    <3>1. central.c = cwc => CentralStatus(cwc, cenv.gs, cenv.sel) = cwc
      BY <2>4
    <3>2. CentralStatus(cwc, cenv.gs, cenv.sel)' = CentralStatus(cwc, cenv.gs, cenv.sel)
      BY <2>1 DEF CentralStatus, ValidatedCondition, PlacementPluginCondition
    <3> QED
      BY <2>1, <2>2, <3>1, <3>2 DEF CentralRest
  <2> QED
    BY <2>3, <2>4
<1>6. CASE CentralUpdate
    BY <1>1, <1>3, <1>6 DEF CentralUpdate
<1>7. CASE PolicyStamp
  <2>1. (UNCHANGED <<versions, central>>) \/ \E new : Put(new)
    BY <1>7 DEF PolicyStamp
  <2>2. UNCHANGED <<centralQueued, cenv>>
    BY <1>7 DEF PolicyStamp, caches
  <2> QED
    BY <1>1, <1>2, <2>1, <2>2
<1>8. CASE PlacementSet
  <2>1. (UNCHANGED <<versions, central>>) \/ \E new : Put(new)
    BY <1>8 DEF PlacementSet
  <2>2. UNCHANGED <<centralQueued, cenv>>
    BY <1>8 DEF PlacementSet, caches
  <2> QED
    BY <1>1, <1>2, <2>1, <2>2
<1>9. CASE DeliverClass \/ DeliverGuardrails \/ DeliverOtherClass
    BY <1>3, <1>9 DEF DeliverClass, DeliverGuardrails, DeliverOtherClass
<1>10. CASE \E spec \in Specs : EditClass(spec)
    BY <1>1, <1>10 DEF EditClass
<1>11. CASE DeliverPods
  <2>1. cenv'.gs = cenv.gs /\ cenv'.sel = cenv.sel /\ UNCHANGED <<versions, central, centralQueued>>
    BY <1>0, <1>11 DEF DeliverPods, ObjectsInv, Environments, objects, workers
  <2> QED
    BY <1>2, <2>1
<1>12. CASE \/ (\E p \in Policies : PolicyGet(p)) \/ PolicyStatus \/ PolicyList \/ PlacementGet \/ PlacementObserve
            \/ (\E p \in Policies : DeliverPolicy(p)) \/ UNCHANGED vars
  <2>1. UNCHANGED <<versions, central, centralQueued, cenv>>
    BY <1>12 DEF PolicyGet, PolicyStatus, PolicyList, PlacementGet, PlacementObserve, DeliverPolicy,
                 objects, caches, workers, queues, vars
  <2> QED
    BY <1>2, <2>1
<1>13. CASE EditElsewhere
  <2>1. UNCHANGED <<versions, central, centralQueued, cenv>>
    BY <1>13, ElsewhereFrame
  <2> QED
    BY <1>2, <2>1
<1> QED
    BY <1>4, <1>5, <1>6, <1>7, <1>8, <1>9, <1>10, <1>11, <1>12, <1>13
       DEF Next, Central, Policy, Placement, Deliver, Environment, EditElsewhere

-----------------------------------------------------------------------------
(* The GKESpotPlacementPolicy controller at rest. *)

\* What the policy worker does: it takes a policy up, goes on with it, stamps it or puts it back, or gives it up
\* because the cached class does not reference it.
LEMMA PolicySteps ==
    ASSUME HandshakeInv, FreshInv
    PROVE  /\ \A p \in Policies : PolicyGet(p) =>
                  /\ UNCHANGED <<versions, cpol, cenv, skipped>>
                  /\ policy.pc = "idle" /\ policyQueued' = policyQueued \ {p}
                  /\ policy'.pc \in {"status", "list"} /\ policy'.name = p
                  /\ policy'.cond = Stamp(p, cpol[p], cenv.gs)
           /\ PolicyStatus =>
                  /\ UNCHANGED <<versions, cpol, cenv, skipped>>
                  /\ \/ policy.pc # "idle" /\ policy'.pc = "list" /\ policy'.name = policy.name /\ policy'.cond = policy.cond
                        /\ UNCHANGED policyQueued
                     \/ policy'.pc = "idle" /\ policyQueued' = policyQueued \cup {policy.name}
           /\ PolicyList =>
                  /\ UNCHANGED <<versions, cpol, cenv, skipped, policyQueued>>
                  /\ \/ /\ policy.pc # "idle" /\ cwc.spec.ref = policy.name
                        /\ policy'.pc = "stamp" /\ policy'.name = policy.name /\ policy'.cond = policy.cond
                     \/ cwc.spec.ref # policy.name /\ policy'.pc = "idle"
           /\ PolicyStamp => policy'.pc = "idle" /\ UNCHANGED <<cpol, cenv>> /\ policy.pc = "stamp"
<1>0. ObjectsInv /\ policy \in PolicyWorker
    BY DEF HandshakeInv, WorkersInv
<1>1. ASSUME NEW p \in Policies, PolicyGet(p)
      PROVE  /\ UNCHANGED <<versions, cpol, cenv, skipped>>
             /\ policy.pc = "idle" /\ policyQueued' = policyQueued \ {p}
             /\ policy'.pc \in {"status", "list"} /\ policy'.name = p
             /\ policy'.cond = Stamp(p, cpol[p], cenv.gs)
    BY <1>1 DEF PolicyGet, objects, caches, history
<1>2. ASSUME PolicyStatus
      PROVE  /\ UNCHANGED <<versions, cpol, cenv, skipped>>
             /\ \/ policy.pc # "idle" /\ policy'.pc = "list" /\ policy'.name = policy.name /\ policy'.cond = policy.cond
                   /\ UNCHANGED policyQueued
                \/ policy'.pc = "idle" /\ policyQueued' = policyQueued \cup {policy.name}
    BY <1>2 DEF PolicyStatus, caches, history, Idle
<1>3. ASSUME PolicyList
      PROVE  /\ UNCHANGED <<versions, cpol, cenv, skipped, policyQueued>>
             /\ \/ /\ policy.pc # "idle" /\ cwc.spec.ref = policy.name
                   /\ policy'.pc = "stamp" /\ policy'.name = policy.name /\ policy'.cond = policy.cond
                \/ cwc.spec.ref # policy.name /\ policy'.pc = "idle"
  <2>1. UNCHANGED <<versions, cpol, cenv, skipped, policyQueued>> /\ policy.pc = "list"
        /\ policy' = IF cwc.spec.ref = policy.name THEN [policy EXCEPT !.pc = "stamp"] ELSE Idle
    BY <1>3 DEF PolicyList, objects, caches, queues, history
  <2>2. policy \in [pc : {"list", "stamp"}, name : Policies, cond : ConditionType]
    BY <1>0, <2>1 DEF PolicyWorker, Idle
  <2>3. cwc.spec.ref = policy.name =>
            policy'.pc = "stamp" /\ policy'.name = policy.name /\ policy'.cond = policy.cond
    BY <2>1, <2>2
  <2>4. cwc.spec.ref # policy.name => policy'.pc = "idle"
    BY <2>1 DEF Idle
  <2> QED
    BY <2>1, <2>3, <2>4
<1>4. PolicyStamp => policy'.pc = "idle" /\ UNCHANGED <<cpol, cenv>> /\ policy.pc = "stamp"
    BY DEF PolicyStamp, caches, Idle
<1> QED
    BY <1>1, <1>2, <1>3, <1>4

\* What every other step leaves the policy worker.
LEMMA OtherSteps ==
    ASSUME HandshakeInv, [Next]_vars, ~Policy
    PROVE  /\ UNCHANGED <<policy, skipped>> /\ policyQueued \subseteq policyQueued'
           /\ \A q \in Policies : \/ q \in policyQueued'
                                  \/ Stamp(q, cpol[q], cenv.gs)' = Stamp(q, cpol[q], cenv.gs)
<1>0. ObjectsInv /\ policyQueued \in SUBSET Policies
    BY DEF HandshakeInv, QueuesInv
<1>1. CASE EditElsewhere \/ Central \/ Placement \/ DeliverClass \/ (\E spec \in Specs : EditClass(spec)) \/ UNCHANGED vars
  <2>1. UNCHANGED <<policy, skipped, cpol, cenv>> /\ policyQueued \subseteq policyQueued'
    BY <1>1, ElsewhereFrame
       DEF Central, CentralGet, CentralJudge, CentralUpdate, Placement, PlacementGet, PlacementObserve, PlacementSet,
           DeliverClass, EditClass, caches, workers, queues, history, vars
  <2> QED
    BY <2>1 DEF Stamp, Verdict
<1>2. ASSUME NEW p \in Policies, DeliverPolicy(p)
      PROVE  /\ UNCHANGED <<policy, skipped>> /\ policyQueued \subseteq policyQueued'
             /\ \A q \in Policies : \/ q \in policyQueued'
                                    \/ Stamp(q, cpol[q], cenv.gs)' = Stamp(q, cpol[q], cenv.gs)
  <2>1. UNCHANGED <<policy, skipped, cenv>> /\ policyQueued' = policyQueued \cup {p}
    BY <1>2 DEF DeliverPolicy, workers, history
  <2>2. \A q \in Policies : q # p => cpol'[q] = cpol[q]
    BY <1>0, <1>2 DEF DeliverPolicy, ObjectsInv
  <2> QED
    BY <2>1, <2>2 DEF Stamp, Verdict
<1>3. CASE DeliverGuardrails
  <2>1. UNCHANGED <<policy, skipped, cpol>> /\ policyQueued' = policyQueued \cup {p \in Policies : cpol[p] # Unset}
    BY <1>3 DEF DeliverGuardrails, workers, history
  <2> QED
    BY <2>1 DEF Stamp
<1>4. CASE DeliverOtherClass \/ DeliverPods
  <2>1. UNCHANGED <<policy, skipped, cpol, policyQueued>> /\ cenv'.gs = cenv.gs
    BY <1>0, <1>4 DEF DeliverOtherClass, DeliverPods, workers, history, ObjectsInv, Environments
  <2> QED
    BY <2>1 DEF Stamp, Verdict
<1> QED
    BY <1>1, <1>2, <1>3, <1>4 DEF Next, Deliver, Environment, EditElsewhere

\* Whatever outdates the policy worker's verdict queues the policy again.
LEMMA FreshNext ==
    ASSUME HandshakeInv, FreshInv, [Next]_vars
    PROVE  FreshInv'
<1>0. ObjectsInv /\ policy \in PolicyWorker
    BY DEF HandshakeInv, WorkersInv
<1>1. ASSUME NEW p \in Policies, PolicyGet(p) PROVE FreshInv'
  <2>1. /\ UNCHANGED <<cpol, cenv>> /\ policy'.name = p /\ policy'.cond = Stamp(p, cpol[p], cenv.gs)
    BY <1>1, PolicySteps
  <2>2. Stamp(p, cpol[p], cenv.gs).status # "Absent" /\ Stamp(p, cpol[p], cenv.gs).reason # "PluginPending"
    BY <1>0, StampIsType DEF ObjectsInv
  <2> QED
    BY <2>1, <2>2 DEF FreshInv, Stamp, Verdict
<1>2. CASE PolicyStatus \/ PolicyList
    BY <1>2, PolicySteps DEF FreshInv, Stamp, Verdict
<1>3. CASE PolicyStamp
    BY <1>3, PolicySteps DEF FreshInv
<1>4. CASE ~Policy
  <2>1. UNCHANGED policy /\ policyQueued \subseteq policyQueued'
    BY <1>4, OtherSteps
  <2>2. policy.pc # "idle" => policy.name \in Policies
    BY <1>0 DEF PolicyWorker, Idle
  <2> QED
    BY <1>4, <2>1, <2>2, OtherSteps DEF FreshInv
<1> QED
    BY <1>1, <1>2, <1>3, <1>4 DEF Policy

\* A class that carries a stamp keeps it through the WorkloadClass controller.
LEMMA StampKept ==
    ASSUME NEW c, c.spec.ref \in Policies, Stamped(c)
    PROVE  PlacementPluginCondition(c) = c.att
  BY InputsAssumption DEF PlacementPluginCondition, Stamped

\* A step of another process, as the policy controller sees it.
LEMMA ClassSteps ==
    ASSUME HandshakeInv, GenerationsInv, CurrentInv, FreshInv, [Next]_vars, ~Policy
    PROVE  \/ Awaited'
           \/ /\ ~(Awaited /\ wc.spec.ref \in Policies)
              /\ wc'.gen = wc.gen /\ wc'.spec = wc.spec
              /\ wc'.att = wc.att \/ wc'.att = PlacementPluginCondition(wc)
<1>0. VersionsInv /\ Write /\ wc \in ClassType /\ cwc \in ClassType /\ cwc.gen \in Nat /\ wc.gen \in Nat
    BY Writes, ClassTypes DEF HandshakeInv, ClassType
<1>1. cwc.gen <= wc.gen
    BY <1>0, CurrentFacts, VersionFacts DEF cwc
<1>2. UNCHANGED policy /\ policyQueued \subseteq policyQueued'
    BY OtherSteps
<1>3. ASSUME wc'.gen = wc.gen, wc'.spec = wc.spec, cwc' = cwc PROVE Awaited => Awaited'
    BY <1>2, <1>3 DEF Awaited
<1>4. CASE UNCHANGED versions
    BY <1>3, <1>4, SameClass
<1>5. CASE DeliverClass
  <2>1. wc' = wc /\ cwc' = versions[2] /\ 2 \in 1 .. Len(versions) /\ cwc = versions[1]
    BY <1>0, <1>5, TailFacts, CurrentFacts DEF DeliverClass, cwc
  <2>2. versions[2].gen = wc.gen => versions[2].spec = wc.spec
    BY <1>0, <2>1, VersionFacts
  <2>3. cwc.gen # versions[2].gen /\ versions[2].spec.ref \in Policies => versions[2].spec.ref \in policyQueued'
    BY <1>5, <2>1 DEF DeliverClass
  <2>4. Awaited /\ wc.spec.ref \in Policies => Awaited'
    BY <1>2, <2>1, <2>2, <2>3 DEF Awaited
  <2> QED
    BY <2>1, <2>4
<1>6. ASSUME NEW new \in ClassType, Put(new), new.gen = wc.gen + 1 PROVE Awaited'
  <2>1. wc' = new /\ cwc' = cwc
    BY <1>0, <1>6, PutFacts
  <2>2. cwc'.gen # wc'.gen
    BY <1>0, <1>1, <1>6, <2>1
  <2> QED
    BY <2>2 DEF Awaited
<1>7. ASSUME NEW new \in ClassType, Put(new), new.gen = wc.gen, new.spec = wc.spec,
             new.att = wc.att \/ new.att = PlacementPluginCondition(wc)
      PROVE  \/ Awaited'
             \/ /\ ~(Awaited /\ wc.spec.ref \in Policies)
                /\ wc'.gen = wc.gen /\ wc'.spec = wc.spec
                /\ wc'.att = wc.att \/ wc'.att = PlacementPluginCondition(wc)
  <2>1. wc' = new /\ cwc' = cwc
    BY <1>0, <1>7, PutFacts
  <2> QED
    BY <1>3, <1>7, <2>1
<1>8. ~PolicyStamp
    BY DEF Policy
<1> QED
    BY <1>0, <1>4, <1>5, <1>6, <1>7, <1>8 DEF Write

\* The cached class references what the class does, or an older generation did.
LEMMA CachedSpec ==
    ASSUME HandshakeInv, GenerationsInv, cwc.gen = wc.gen
    PROVE  cwc.spec = wc.spec
  BY CurrentFacts, VersionFacts DEF HandshakeInv, cwc

\* The policy worker's steps before the stamp leave the class alone, and a policy that is awaited stays so.
LEMMA EarlySteps ==
    ASSUME HandshakeInv, GenerationsInv, FreshInv, (\E p \in Policies : PolicyGet(p)) \/ PolicyStatus \/ PolicyList
    PROVE  /\ wc' = wc /\ cwc' = cwc /\ UNCHANGED <<cpol, cenv, skipped>>
           /\ Awaited => Awaited'
           /\ policy'.pc = "stamp" => Awaited'
<1>1. CASE \E p \in Policies : PolicyGet(p)
    BY <1>1, PolicySteps, SameClass DEF Awaited
<1>2. CASE PolicyStatus
    BY <1>2, PolicySteps, SameClass DEF Awaited
<1>3. CASE PolicyList
  <2>1. cwc.spec.ref # wc.spec.ref => cwc.gen # wc.gen
    BY CachedSpec
  <2>2. wc' = wc /\ cwc' = cwc /\ UNCHANGED <<cpol, cenv, skipped, policyQueued>>
    BY <1>3, PolicySteps, SameClass
  <2>3. CASE cwc.spec.ref = policy.name /\ policy'.pc = "stamp" /\ policy'.name = policy.name
    BY <2>1, <2>2, <2>3 DEF Awaited
  <2>4. CASE cwc.spec.ref # policy.name /\ policy'.pc = "idle"
    BY <2>1, <2>2, <2>4 DEF Awaited
  <2> QED
    BY <1>3, <2>2, <2>3, <2>4, PolicySteps
<1> QED
    BY <1>1, <1>2, <1>3

\* A worker about to stamp a class that has moved on to another policy is followed by that policy's.
LEMMA LateStampNext ==
    ASSUME HandshakeInv, GenerationsInv, CurrentInv, FreshInv, LateStampInv, [Next]_vars
    PROVE  LateStampInv'
<1>1. CASE (\E p \in Policies : PolicyGet(p)) \/ PolicyStatus \/ PolicyList
    BY <1>1, EarlySteps DEF LateStampInv
<1>2. CASE PolicyStamp
    BY <1>2, PolicySteps DEF LateStampInv
<1>3. CASE ~Policy
    BY <1>3, ClassSteps, OtherSteps DEF LateStampInv
<1> QED
    BY <1>1, <1>2, <1>3 DEF Policy

\* A stamp after which no policy is awaited is that of the policy the class references, as the cache has it, or it
\* was left out because the cached class carries it.
LEMMA StampStep ==
    ASSUME HandshakeInv, GenerationsInv, FreshInv, LateStampInv, PolicyStamp, wc'.spec.ref \in Policies, ~Awaited'
    PROVE  LET stamp == [Stamp(wc.spec.ref, cpol[wc.spec.ref], cenv.gs) EXCEPT !.obs = wc.gen]
           IN  /\ wc'.spec = wc.spec /\ wc'.gen = wc.gen /\ cwc.gen = wc.gen /\ UNCHANGED <<cpol, cenv>>
               /\ stamp.status # "Absent" /\ stamp.reason # "PluginPending" /\ stamp.obs = wc.gen
               /\ \/ wc'.att = stamp
                  \/ cwc.att = stamp /\ skipped' = (wc.att # cwc.att) /\ wc' = wc
<1> DEFINE cond == [policy.cond EXCEPT !.obs = cwc.gen]
           new == [cwc EXCEPT !.att = cond]
<1>0. VersionsInv /\ ObjectsInv /\ policy \in PolicyWorker /\ wc \in ClassType /\ cwc \in ClassType /\ policy.pc = "stamp"
      /\ UNCHANGED <<cpol, cenv>> /\ policy'.pc = "idle"
    BY ClassTypes, PolicySteps DEF HandshakeInv, WorkersInv
<1>1. policy.name \in Policies /\ policy.cond \in ConditionType /\ cwc.gen \in Nat
    BY <1>0 DEF PolicyWorker, Idle, ClassType
<1>2. new.gen = cwc.gen /\ new.spec = cwc.spec /\ new.att = cond
    BY <1>0 DEF ClassType
<1>3. \/ new = cwc /\ UNCHANGED <<versions, policyQueued>> /\ skipped' = (wc.att # cwc.att)
      \/ CacheCurrent /\ Put(new) /\ UNCHANGED policyQueued
      \/ UNCHANGED versions /\ policyQueued' = policyQueued \cup {policy.name}
    BY DEF PolicyStamp
<1> HIDE DEF new, cond
<1>4. wc'.spec = wc.spec /\ wc'.gen = wc.gen /\ cwc' = cwc /\ policyQueued \subseteq policyQueued'
  <2>1. CASE UNCHANGED versions
    BY <1>3, <2>1, SameClass
  <2>2. CASE CacheCurrent /\ Put(new) /\ UNCHANGED policyQueued
    BY <1>0, <1>2, <2>2, CurrentFacts, PutFacts
  <2> QED
    BY <1>3, <2>1, <2>2
<1>5. wc.spec.ref \notin policyQueued' /\ cwc.gen = wc.gen
    BY <1>4 DEF Awaited
<1>6. policy.name = wc.spec.ref
    BY <1>0, <1>4, <1>5 DEF LateStampInv, Awaited
<1>7. policy.cond = Stamp(wc.spec.ref, cpol[wc.spec.ref], cenv.gs)
    BY <1>0, <1>4, <1>5, <1>6 DEF FreshInv
<1>8. policy.cond.status # "Absent" /\ policy.cond.reason # "PluginPending"
    BY <1>0 DEF FreshInv
<1>9. cond = [Stamp(wc.spec.ref, cpol[wc.spec.ref], cenv.gs) EXCEPT !.obs = wc.gen]
    BY <1>5, <1>7 DEF cond
<1>10. cond.status # "Absent" /\ cond.reason # "PluginPending" /\ cond.obs = wc.gen
    BY <1>1, <1>5, <1>8 DEF cond, ConditionType
<1>11. wc'.att = cond \/ (cwc.att = cond /\ skipped' = (wc.att # cwc.att) /\ wc' = wc)
  <2>1. CASE new = cwc /\ UNCHANGED <<versions, policyQueued>> /\ skipped' = (wc.att # cwc.att)
    BY <1>2, <2>1, SameClass
  <2>2. CASE CacheCurrent /\ Put(new) /\ UNCHANGED policyQueued
    BY <1>0, <1>2, <2>2, PutFacts
  <2> QED
    BY <1>3, <1>5, <1>6, <2>1, <2>2
<1> QED
    BY <1>0, <1>4, <1>5, <1>9, <1>10, <1>11

\* A stamp is one for the generation it was made for.
LEMMA StampIsStamped ==
    ASSUME ObjectsInv, wc.spec.ref \in Policies, wc \in ClassType,
           wc.att = [Stamp(wc.spec.ref, cpol[wc.spec.ref], cenv.gs) EXCEPT !.obs = wc.gen]
    PROVE  Stamped(wc)
<1> DEFINE stamp == Stamp(wc.spec.ref, cpol[wc.spec.ref], cenv.gs)
<1>1. stamp \in ConditionType /\ stamp.status \in {"True", "False"} /\ stamp.reason # "PluginPending"
  <2>1. PICK p \in Policies : p = wc.spec.ref
    OBVIOUS
  <2>2. cpol[p] \in PolicyObject \cup {Unset}
    BY DEF ObjectsInv
  <2>3. /\ Stamp(p, cpol[p], cenv.gs) \in ConditionType /\ Stamp(p, cpol[p], cenv.gs).status \in {"True", "False"}
        /\ Stamp(p, cpol[p], cenv.gs).reason # "PluginPending"
    BY <2>2, StampIsType
  <2> QED
    BY <2>1, <2>3
<1> HIDE DEF stamp
<1>2. wc.att = [stamp EXCEPT !.obs = wc.gen]
    BY DEF stamp
<1> QED
    BY <1>1, <1>2 DEF Stamped, ConditionType

\* The class carries the stamp of the policy it references unless that policy is going to be looked at.
LEMMA StampRestNext ==
    ASSUME HandshakeInv, GenerationsInv, CurrentInv, FreshInv, LateStampInv, StampRest, [Next]_vars
    PROVE  StampRest'
<1>0. ObjectsInv /\ wc \in ClassType
    BY ClassTypes DEF HandshakeInv
<1>1. CASE (\E p \in Policies : PolicyGet(p)) \/ PolicyStatus \/ PolicyList
  <2>1. /\ wc' = wc /\ UNCHANGED <<cpol, cenv, skipped>> /\ (Awaited => Awaited')
    BY <1>1, EarlySteps
  <2>2. Stamp(wc.spec.ref, cpol[wc.spec.ref], cenv.gs)' = Stamp(wc.spec.ref, cpol[wc.spec.ref], cenv.gs)
    BY <2>1 DEF Stamp, Verdict
  <2> QED
    BY <2>1, <2>2 DEF StampRest
<1>2. CASE PolicyStamp
  <2> SUFFICES ASSUME wc'.spec.ref \in Policies, ~Awaited', ~skipped'
               PROVE  wc'.att = [Stamp(wc.spec.ref, cpol[wc.spec.ref], cenv.gs)' EXCEPT !.obs = wc'.gen]
    BY DEF StampRest
  <2> DEFINE stamp == [Stamp(wc.spec.ref, cpol[wc.spec.ref], cenv.gs) EXCEPT !.obs = wc.gen]
  <2>1. /\ wc'.spec = wc.spec /\ wc'.gen = wc.gen /\ UNCHANGED <<cpol, cenv>>
        /\ wc'.att = stamp \/ (cwc.att = stamp /\ skipped' = (wc.att # cwc.att) /\ wc' = wc)
    BY <1>2, StampStep
  <2>2. Stamp(wc.spec.ref, cpol[wc.spec.ref], cenv.gs)' = Stamp(wc.spec.ref, cpol[wc.spec.ref], cenv.gs)
    BY <2>1 DEF Stamp, Verdict
  <2>3. wc'.att = stamp
    <3> HIDE DEF stamp
    <3> QED
      BY <2>1
  <2> QED
    BY <2>1, <2>2, <2>3
<1>3. CASE ~Policy
  <2> SUFFICES ASSUME wc'.spec.ref \in Policies, ~Awaited', ~skipped'
               PROVE  wc'.att = [Stamp(wc.spec.ref, cpol[wc.spec.ref], cenv.gs)' EXCEPT !.obs = wc'.gen]
    BY DEF StampRest
  <2>1. /\ ~Awaited /\ wc'.gen = wc.gen /\ wc'.spec = wc.spec
        /\ wc'.att = wc.att \/ wc'.att = PlacementPluginCondition(wc)
    BY <1>3, ClassSteps
  <2>2. wc.att = [Stamp(wc.spec.ref, cpol[wc.spec.ref], cenv.gs) EXCEPT !.obs = wc.gen]
    BY <1>3, <2>1, OtherSteps DEF StampRest
  <2>3. wc'.att = wc.att
    BY <1>0, <2>1, <2>2, StampIsStamped, StampKept
  <2>4. Stamp(wc.spec.ref, cpol[wc.spec.ref], cenv.gs)' = Stamp(wc.spec.ref, cpol[wc.spec.ref], cenv.gs)
    <3>1. wc.spec.ref \notin policyQueued'
      BY <2>1 DEF Awaited
    <3>2. Stamp(wc.spec.ref, cpol'[wc.spec.ref], cenv'.gs) = Stamp(wc.spec.ref, cpol[wc.spec.ref], cenv.gs)
      BY <1>3, <2>1, <3>1, OtherSteps
    <3> QED
      BY <2>1, <3>2
  <2> QED
    BY <2>1, <2>2, <2>3, <2>4
<1> QED
    BY <1>1, <1>2, <1>3 DEF Policy

\* A version of the current generation that is stamped is followed by stamped ones.
LEMMA StampedVersionsNext ==
    ASSUME HandshakeInv, GenerationsInv, StampedInv, Write
    PROVE  \A i, j \in 1 .. Len(versions') :
               i <= j /\ versions'[i].gen = versions'[j].gen =>
                   (versions'[i].spec.ref \in Policies /\ Stamped(versions'[i]) => Stamped(versions'[j]))
<1>0. VersionsInv /\ wc \in ClassType /\ wc.gen \in Nat /\ Len(versions) \in 1 .. Len(versions)
    BY ClassTypes, CurrentFacts DEF HandshakeInv, ClassType
<1> SUFFICES ASSUME NEW i \in 1 .. Len(versions'), NEW j \in 1 .. Len(versions'), i <= j,
                    versions'[i].gen = versions'[j].gen, versions'[i].spec.ref \in Policies, Stamped(versions'[i])
             PROVE  Stamped(versions'[j])
    OBVIOUS
<1>1. CASE UNCHANGED versions
    BY <1>1 DEF StampedInv
<1>2. CASE DeliverClass
  <2>1. /\ i + 1 \in 1 .. Len(versions) /\ j + 1 \in 1 .. Len(versions) /\ i + 1 <= j + 1
        /\ versions'[i] = versions[i + 1] /\ versions'[j] = versions[j + 1]
    BY <1>0, <1>2, TailFacts DEF DeliverClass
  <2> QED
    BY <2>1 DEF StampedInv
<1>3. ASSUME NEW new \in ClassType, Put(new),
             \/ new.gen = wc.gen + 1
             \/ /\ new.gen = wc.gen /\ new.spec = wc.spec
                /\ new.att = wc.att \/ new.att = PlacementPluginCondition(wc) \/ Stamped(new)
      PROVE  Stamped(versions'[j])
  <2>1. /\ Len(versions) \in Nat /\ Len(versions) >= 1 /\ Len(versions') = Len(versions) + 1
        /\ \A m \in 1 .. Len(versions) : versions'[m] = versions[m]
        /\ versions'[Len(versions) + 1] = new
    BY <1>0, <1>3, PutFacts
  <2>2. CASE j \in 1 .. Len(versions)
    <3>1. i \in 1 .. Len(versions)
      BY <2>1, <2>2
    <3> QED
      BY <2>1, <2>2, <3>1 DEF StampedInv
  <2>3. CASE i \in 1 .. Len(versions) /\ j = Len(versions) + 1
    <3>1. versions'[i] = versions[i] /\ versions'[j] = new
      BY <2>1, <2>3
    <3>2. /\ versions[i].gen \in Nat /\ versions[i].gen <= wc.gen
          /\ versions[i].gen = wc.gen => versions[i].spec = wc.spec
      BY <1>0, <2>3, VersionFacts
    <3>3. new.gen # wc.gen + 1
      BY <1>0, <3>1, <3>2
    <3>4. versions[i].gen = wc.gen /\ wc.spec.ref \in Policies
      BY <1>3, <3>1, <3>2, <3>3
    <3>5. Stamped(wc)
      <4>1. i <= Len(versions) /\ wc = versions[Len(versions)]
        BY <2>1, <2>3 DEF wc
      <4> QED
        BY <1>0, <2>3, <3>1, <3>4, <4>1 DEF StampedInv
    <3>6. PlacementPluginCondition(wc) = wc.att
      BY <3>4, <3>5, StampKept
    <3> QED
      BY <1>3, <3>1, <3>3, <3>5, <3>6 DEF Stamped
  <2>4. CASE i = Len(versions) + 1 /\ j = Len(versions) + 1
    BY <2>4
  <2>5. \/ j \in 1 .. Len(versions) \/ (i \in 1 .. Len(versions) /\ j = Len(versions) + 1)
        \/ (i = Len(versions) + 1 /\ j = Len(versions) + 1)
    BY <2>1
  <2> QED
    BY <2>2, <2>3, <2>4, <2>5
<1> QED
    BY <1>1, <1>2, <1>3 DEF Write

\* A class is stamped unless the policy it references is going to be looked at.
LEMMA StampedNext ==
    ASSUME HandshakeInv, GenerationsInv, CurrentInv, FreshInv, LateStampInv, StampedInv, [Next]_vars
    PROVE  StampedInv'
<1>0. VersionsInv /\ Len(versions) \in 1 .. Len(versions) /\ 1 \in 1 .. Len(versions)
    BY CurrentFacts DEF HandshakeInv
<1>1. wc'.spec.ref \in Policies => Awaited' \/ Stamped(wc)'
  <2> SUFFICES ASSUME wc'.spec.ref \in Policies, ~Awaited' PROVE Stamped(wc')
    BY DEF Stamped
  <2>1. CASE (\E p \in Policies : PolicyGet(p)) \/ PolicyStatus \/ PolicyList
    BY <2>1, EarlySteps DEF StampedInv
  <2>2. CASE PolicyStamp
    <3> DEFINE stamp == [Stamp(wc.spec.ref, cpol[wc.spec.ref], cenv.gs) EXCEPT !.obs = wc.gen]
    <3>1. /\ wc'.spec = wc.spec /\ wc'.gen = wc.gen /\ cwc.gen = wc.gen
          /\ stamp.status # "Absent" /\ stamp.reason # "PluginPending" /\ stamp.obs = wc.gen
          /\ wc'.att = stamp \/ (cwc.att = stamp /\ wc' = wc)
      BY <2>2, StampStep
    <3> HIDE DEF stamp
    <3>2. CASE wc'.att = stamp
      BY <3>1, <3>2 DEF Stamped
    <3>3. CASE cwc.att = stamp /\ wc' = wc
      <4>1. Stamped(cwc) /\ cwc.spec = wc.spec
        BY <3>1, <3>3, CachedSpec DEF Stamped
      <4>2. Stamped(wc)
        BY <1>0, <3>1, <4>1, CurrentFacts DEF StampedInv, wc, cwc
      <4> QED
        BY <3>3, <4>2
    <3> QED
      BY <3>1, <3>2, <3>3
  <2>3. CASE ~Policy
    <3>1. /\ ~Awaited /\ wc'.gen = wc.gen /\ wc'.spec = wc.spec
          /\ wc'.att = wc.att \/ wc'.att = PlacementPluginCondition(wc)
      BY <2>3, ClassSteps
    <3>2. Stamped(wc)
      BY <3>1 DEF StampedInv
    <3> QED
      BY <3>1, <3>2, StampKept DEF Stamped
  <2> QED
    BY <2>1, <2>2, <2>3 DEF Policy
<1>2. Write
    BY Writes
<1> QED
    BY <1>1, <1>2, StampedVersionsNext DEF StampedInv, Stamped

-----------------------------------------------------------------------------
(* The placement controller at rest. *)

\* The cached policies are never ahead, and a generation of a policy has one spec.
LEMMA PolicyGenerationsNext ==
    ASSUME HandshakeInv, PolicyGenerationsInv, [Next]_vars
    PROVE  PolicyGenerationsInv'
<1>0. /\ pol \in [Policies -> PolicyObject \cup {Unset}] /\ cpol \in [Policies -> PolicyObject \cup {Unset}]
      /\ \A p \in Policies : /\ pol[p] # Unset => pol[p].gen \in Nat
                             /\ cpol[p] # Unset => cpol[p].gen \in Nat
    BY DEF HandshakeInv, ObjectsInv, PolicyObject
<1>1. ASSUME UNCHANGED <<pol, cpol, policy>> PROVE PolicyGenerationsInv'
    BY <1>1 DEF PolicyGenerationsInv
<1>2. ASSUME UNCHANGED cpol, UNCHANGED policy \/ policy'.pc # "status", NEW q \in Policies, NEW new,
             pol' = [pol EXCEPT ![q] = new],
             new # Unset /\ cpol[q] # Unset => /\ cpol[q].gen <= new.gen
                                               /\ cpol[q].gen = new.gen => cpol[q].rev = new.rev
      PROVE  PolicyGenerationsInv'
  <2>1. \A p \in Policies : pol'[p] = IF p = q THEN new ELSE pol[p]
    BY <1>0, <1>2
  <2> QED
    BY <1>2, <2>1 DEF PolicyGenerationsInv
<1>3. CASE PolicyStatus
  <2> DEFINE q == policy.name
             new == [pol[q] EXCEPT !.val = policy.val]
  <2>1. q \in Policies /\ policy.old \in PolicyObject /\ policy.old # Unset /\ UNCHANGED cpol /\ policy'.pc # "status"
    BY <1>3 DEF PolicyStatus, HandshakeInv, WorkersInv, PolicyWorker, Idle, caches, PolicyGenerationsInv
  <2>2. (UNCHANGED pol) \/ (pol[q] = policy.old /\ pol' = [pol EXCEPT ![q] = new])
    BY <1>3 DEF PolicyStatus
  <2>3. CASE pol[q] = policy.old /\ pol' = [pol EXCEPT ![q] = new]
    <3>1. pol[q] \in PolicyObject /\ pol[q] # Unset
      BY <2>1, <2>3
    <3>2. new.gen = pol[q].gen /\ new.rev = pol[q].rev
      BY <3>1 DEF PolicyObject
    <3> HIDE DEF new, q
    <3>3. cpol[q] # Unset => cpol[q].gen <= new.gen /\ (cpol[q].gen = new.gen => cpol[q].rev = new.rev)
      BY <2>1, <3>1, <3>2 DEF PolicyGenerationsInv
    <3> QED
      BY <1>2, <2>1, <2>3, <3>3
  <2>4. CASE UNCHANGED pol
    BY <2>1, <2>4 DEF PolicyGenerationsInv
  <2> QED
    BY <2>2, <2>3, <2>4
<1>4. ASSUME NEW p \in Policies, DeliverPolicy(p) PROVE PolicyGenerationsInv'
  <2>1. UNCHANGED <<pol, policy>> /\ \A q \in Policies : cpol'[q] = IF q = p THEN pol[p] ELSE cpol[q]
    BY <1>0, <1>4 DEF DeliverPolicy, objects, workers
  <2>2. pol[p] # Unset => pol[p].gen <= pol[p].gen
    BY <1>0
  <2> QED
    BY <2>1, <2>2 DEF PolicyGenerationsInv
<1>5. ASSUME NEW p \in Policies, NEW rev \in Reversions, CreatePolicy(p, rev) PROVE PolicyGenerationsInv'
  <2>1. UNCHANGED <<cpol, policy>> /\ cpol[p] = Unset
        /\ pol' = [pol EXCEPT ![p] = [gen |-> 1, rev |-> rev, val |-> NoCondition]]
    BY <1>5 DEF CreatePolicy, caches, workers
  <2> QED
    BY <1>2, <2>1
<1>6. ASSUME NEW p \in Policies, NEW rev \in Reversions, EditPolicy(p, rev) PROVE PolicyGenerationsInv'
  <2> DEFINE new == [pol[p] EXCEPT !.gen = @ + 1, !.rev = rev]
  <2>1. UNCHANGED <<cpol, policy>> /\ pol[p] # Unset /\ pol' = [pol EXCEPT ![p] = new]
    BY <1>6 DEF EditPolicy, caches, workers
  <2>2. pol[p] \in PolicyObject
    BY <1>0, <2>1
  <2>3. new.gen = pol[p].gen + 1
    BY <2>2 DEF PolicyObject
  <2> HIDE DEF new
  <2>4. cpol[p] # Unset => cpol[p].gen <= pol[p].gen /\ cpol[p].gen \in Nat /\ pol[p].gen \in Nat
    BY <1>0, <2>1 DEF PolicyGenerationsInv
  <2>5. cpol[p] # Unset => cpol[p].gen <= new.gen /\ cpol[p].gen # new.gen
    BY <2>3, <2>4
  <2> QED
    BY <1>2, <2>1, <2>5
<1>7. ASSUME NEW p \in Policies, DeletePolicy(p) PROVE PolicyGenerationsInv'
  <2>1. UNCHANGED <<cpol, policy>> /\ pol' = [pol EXCEPT ![p] = Unset]
    BY <1>7 DEF DeletePolicy, caches, workers
  <2> QED
    BY <1>2, <2>1
<1>8. ASSUME NEW p \in Policies, PolicyGet(p) PROVE PolicyGenerationsInv'
  <2>1. UNCHANGED <<pol, cpol>> /\ (policy'.pc = "status" => policy'.old # Unset)
    BY <1>8 DEF PolicyGet, objects, caches
  <2> QED
    BY <2>1 DEF PolicyGenerationsInv
<1>9. CASE PolicyList \/ PolicyStamp
  <2>1. policy'.pc # "status"
    <3>1. CASE PolicyStamp
      BY <3>1 DEF PolicyStamp, Idle
    <3>2. CASE PolicyList
      <4>1. policy \in [pc : {"list", "stamp"}, name : Policies, cond : ConditionType]
        BY <3>2 DEF PolicyList, HandshakeInv, WorkersInv, PolicyWorker, Idle
      <4> QED
        BY <3>2, <4>1 DEF PolicyList, Idle
    <3> QED
      BY <1>9, <3>1, <3>2
  <2>2. UNCHANGED <<pol, cpol>>
    BY <1>9 DEF PolicyList, PolicyStamp, objects, caches
  <2> QED
    BY <2>1, <2>2 DEF PolicyGenerationsInv
<1>10. CASE \/ Central \/ Placement \/ DeliverClass \/ DeliverGuardrails \/ DeliverOtherClass \/ DeliverPods
            \/ (\E spec \in Specs : EditClass(spec)) \/ (\E gs \in GuardrailLists : EditGuardrails(gs))
            \/ (\E sel \in OtherSelectors : EditOtherClass(sel))
            \/ (\E pods \in {"none", "clean", "fallback"} : MovePods(pods)) \/ UNCHANGED vars
  <2>1. UNCHANGED <<pol, cpol, policy>>
    BY <1>10 DEF Central, CentralGet, CentralJudge, CentralUpdate, Placement, PlacementGet, PlacementObserve, PlacementSet,
                 DeliverClass, DeliverGuardrails, DeliverOtherClass, DeliverPods, EditClass, EditGuardrails,
                 EditOtherClass, MovePods, objects, caches, workers, vars
  <2> QED
    BY <1>1, <2>1
<1> QED
    BY <1>3, <1>4, <1>5, <1>6, <1>7, <1>8, <1>9, <1>10 DEF Next, Policy, Deliver, Environment

\* What the placement worker is about to write fits the class it looked at.
LEMMA DesiredFits ==
    ASSUME NEW c, NEW ps, IsReady(c), NEW pods \in {"none", "clean", "fallback"}
    PROVE  LET desired == DesiredFallbackCondition(c, pods, ReversionActionFor(c, ps))
           IN  FallbackFits(c, IF desired = Keep THEN c.fb ELSE desired, pods, ps)
<1> DEFINE action == ReversionActionFor(c, ps)
           desired == DesiredFallbackCondition(c, pods, action)
<1>1. CASE ~TracksFallback(c.spec)
    BY <1>1 DEF DesiredFallbackCondition, FallbackFits, NoCondition, Keep
<1>2. CASE TracksFallback(c.spec)
  <2>1. /\ Condition("True", "FallbackActive", {}, Unset, c.gen).status = "True"
        /\ Condition("False", "SpotTargetMet", {pods}, Unset, c.gen).status = "False"
        /\ Keep.status = "Kept"
    BY DEF Condition, Keep
  <2>2. CASE pods = "fallback"
    BY <1>2, <2>1, <2>2 DEF DesiredFallbackCondition, FallbackFits
  <2>3. CASE pods = "none"
    BY <1>2, <2>1, <2>3 DEF DesiredFallbackCondition, FallbackFits
  <2>4. CASE pods = "clean"
    <3> HIDE DEF action
    <3>1. desired = IF c.fb.status = "True" /\ action = "None" THEN Keep
                    ELSE Condition("False", "SpotTargetMet", {pods}, Unset, c.gen)
      BY <1>2, <2>4 DEF DesiredFallbackCondition
    <3> HIDE DEF desired
    <3>2. action # "None" => (IF desired = Keep THEN c.fb ELSE desired).status = "False"
      BY <2>1, <3>1
    <3> QED
      BY <1>2, <2>4, <3>2 DEF FallbackFits, action, desired
  <2> QED
    BY <2>2, <2>3, <2>4
<1> QED
    BY <1>1, <1>2

\* Pods and policies matter only to a class that tracks fallback.
LEMMA FallbackFitsFrame ==
    ASSUME NEW c, NEW cond, NEW pods, NEW more, NEW ps, NEW qs,
           TracksFallback(c.spec) => pods = more /\ ReversionActionFor(c, ps) = ReversionActionFor(c, qs),
           FallbackFits(c, cond, pods, ps)
    PROVE  FallbackFits(c, cond, more, qs)
  BY DEF FallbackFits

\* Whatever makes the placement controller's last look outdated wakes it.
LEMMA FallbackRestNext ==
    ASSUME HandshakeInv, PolicyGenerationsInv, FallbackRest, [Next]_vars
    PROVE  FallbackRest'
<1>0. /\ VersionsInv /\ ObjectsInv /\ placement \in PlacementWorker
      /\ cenv.pods \in {"none", "clean", "fallback"} /\ (placement.pc = "observe" => IsReady(placement.c))
    BY DEF HandshakeInv, WorkersInv, ObjectsInv, Environments, FallbackRest
<1>1. ASSUME UNCHANGED placement \/ placement' = Idle, NEW new, Put(new) PROVE FallbackRest'
  <2>1. placement'.pc = "observe" => IsReady(placement.c)'
    BY <1>0, <1>1 DEF Idle, IsReady
  <2> QED
    BY <1>0, <1>1, <2>1, PutFacts DEF FallbackRest
<1>2. ASSUME UNCHANGED placement \/ placement' = Idle, placementQueued' PROVE FallbackRest'
    BY <1>0, <1>2 DEF FallbackRest, Idle, IsReady
<1>3. ASSUME UNCHANGED <<versions, placement, placementQueued, cpol>>, cenv'.pods = cenv.pods PROVE FallbackRest'
  <2>1. cwc' = cwc /\ Len(versions') = Len(versions)
    BY <1>3, SameClass
  <2> QED
    BY <1>3, <2>1 DEF FallbackRest, FallbackFits, IsReady, ReversionActionFor
<1>4. CASE PlacementGet
  <2>1. cwc' = cwc /\ UNCHANGED <<cpol, cenv>>
    BY <1>4, SameClass DEF PlacementGet, objects, caches
  <2>2. CASE IsGKESpotManaged(cwc.spec) /\ IsReady(cwc)
    <3>1. placement' = [pc |-> "observe", c |-> cwc]
      BY <1>4, <2>2 DEF PlacementGet
    <3>2. placement'.pc = "observe" /\ placement'.c = cwc
      BY <3>1
    <3>3. IsReady(placement.c)'
      BY <2>2, <3>2 DEF IsReady
    <3> QED
      BY <2>1, <3>2, <3>3 DEF FallbackRest
  <2>3. CASE IsGKESpotManaged(cwc.spec) /\ ~IsReady(cwc) /\ IsPlacementPluginPending(cwc)
    <3>1. placement'.pc = "idle"
      BY <1>4, <2>3 DEF PlacementGet, Idle
    <3> QED
      BY <2>1, <2>3, <3>1 DEF FallbackRest, IsReady
  <2>4. CASE ~IsGKESpotManaged(cwc.spec) \/ (~IsReady(cwc) /\ ~IsPlacementPluginPending(cwc))
    <3>1. placement' = [pc |-> "set", desired |-> NoCondition]
      BY <1>4, <2>4 DEF PlacementGet
    <3>2. placement'.pc = "set" /\ placement'.desired = NoCondition
      BY <3>1
    <3> QED
      BY <2>1, <2>4, <3>2 DEF FallbackRest, FallbackFits, IsReady
  <2> QED
    BY <2>2, <2>3, <2>4
<1>5. CASE PlacementObserve
  <2> DEFINE desired == DesiredFallbackCondition(placement.c, cenv.pods, ReversionActionFor(placement.c, cpol))
  <2>1. /\ cwc' = cwc /\ Len(versions') = Len(versions) /\ UNCHANGED <<cpol, cenv, placementQueued>>
        /\ placement.pc = "observe"
        /\ placement' = IF desired = Keep THEN Idle ELSE [pc |-> "set", desired |-> desired]
    BY <1>5, SameClass DEF PlacementObserve, objects, caches, queues
  <2>2. FallbackFits(placement.c, IF desired = Keep THEN placement.c.fb ELSE desired, cenv.pods, cpol)
    BY <1>0, <2>1, DesiredFits
  <2> HIDE DEF desired
  <2>3. /\ placement'.pc # "observe"
        /\ desired # Keep => placement'.pc = "set" /\ placement'.desired = desired
    BY <2>1 DEF Idle
  <2>4. CASE placement.c = cwc
    <3>1. desired = Keep => FallbackFits(cwc, cwc.fb, cenv.pods, cpol)
      BY <2>2, <2>4
    <3>2. desired # Keep => FallbackFits(cwc, desired, cenv.pods, cpol)
      BY <2>2, <2>4
    <3> QED
      BY <2>1, <2>3, <3>1, <3>2 DEF FallbackRest, FallbackFits, IsReady, ReversionActionFor
  <2>5. CASE placement.c # cwc
    BY <2>1, <2>3, <2>5 DEF FallbackRest, FallbackFits, IsReady, ReversionActionFor
  <2> QED
    BY <2>4, <2>5
<1>6. CASE PlacementSet
  <2> DEFINE new == [cwc EXCEPT !.fb = placement.desired]
  <2>1. /\ placement.pc = "set" /\ placement' = Idle /\ UNCHANGED <<cpol, cenv>>
        /\ \/ new = cwc /\ UNCHANGED <<versions, placementQueued>>
           \/ Put(new)
           \/ placementQueued'
    BY <1>6 DEF PlacementSet, caches
  <2>2. CASE new = cwc /\ UNCHANGED <<versions, placementQueued>>
    <3>1. cwc.fb = placement.desired
      <4>1. new.fb = placement.desired
        BY <1>0, ClassTypes DEF ClassType
      <4> QED
        BY <2>2, <4>1
    <3>2. cwc' = cwc /\ Len(versions') = Len(versions) /\ placement'.pc = "idle"
      BY <2>1, <2>2, SameClass DEF Idle
    <3> HIDE DEF new
    <3> QED
      BY <2>1, <2>2, <3>1, <3>2 DEF FallbackRest, FallbackFits, IsReady, ReversionActionFor
  <2> HIDE DEF new
  <2> QED
    BY <1>1, <1>2, <2>1, <2>2
<1>7. CASE DeliverClass
  <2>1. UNCHANGED placement /\ cwc' = versions[2]
        /\ placementQueued' = (placementQueued \/ IsGKESpotManaged(versions[1].spec) \/ IsGKESpotManaged(versions[2].spec))
    BY <1>0, <1>7, TailFacts DEF DeliverClass, workers
  <2>2. CASE placementQueued'
    BY <1>2, <2>1, <2>2
  <2>3. CASE ~IsGKESpotManaged(versions[2].spec)
    BY <1>0, <2>1, <2>3 DEF FallbackRest, IsReady
  <2> QED
    BY <2>1, <2>2, <2>3
<1>8. ASSUME NEW p \in Policies, DeliverPolicy(p) PROVE FallbackRest'
  <2>1. /\ cwc' = cwc /\ Len(versions') = Len(versions) /\ UNCHANGED <<placement, cenv>>
        /\ cpol' = [cpol EXCEPT ![p] = pol[p]]
        /\ placementQueued' = (placementQueued \/ (/\ Unset \in {cpol[p], pol[p]} \/ cpol[p].gen # pol[p].gen
                                                   /\ cwc.spec.ref = p /\ TracksFallback(cwc.spec)))
    BY <1>8, SameClass DEF DeliverPolicy, objects, workers
  <2>2. CASE placementQueued'
    BY <1>2, <2>1, <2>2
  <2>3. CASE ~placementQueued'
    <3>1. ASSUME TracksFallback(cwc.spec) PROVE ReversionActionFor(cwc, cpol') = ReversionActionFor(cwc, cpol)
      <4>1. CASE cwc.spec.ref = p
        <5>1. cpol[p] # Unset /\ pol[p] # Unset /\ cpol[p].gen = pol[p].gen
          BY <2>1, <2>3, <3>1, <4>1
        <5>2. cpol[p].rev = pol[p].rev
          BY <5>1 DEF PolicyGenerationsInv
        <5>3. cpol'[p] = pol[p]
          BY <1>0, <2>1 DEF ObjectsInv
        <5> QED
          BY <4>1, <5>1, <5>2, <5>3 DEF ReversionActionFor
      <4>2. CASE cwc.spec.ref \in Policies /\ cwc.spec.ref # p
        <5>1. cpol'[cwc.spec.ref] = cpol[cwc.spec.ref]
          BY <1>0, <2>1, <4>2 DEF ObjectsInv
        <5> QED
          BY <5>1 DEF ReversionActionFor
      <4>3. CASE cwc.spec.ref \notin Policies
        BY <4>3 DEF ReversionActionFor, ReferencesGKESpotPlacementPolicy
      <4> QED
        BY <4>1, <4>2, <4>3
    <3>2. \A cond : FallbackFits(cwc, cond, cenv.pods, cpol) => FallbackFits(cwc, cond, cenv.pods, cpol')
      BY <3>1, FallbackFitsFrame
    <3> QED
      BY <1>0, <2>1, <2>3, <3>2 DEF FallbackRest, IsReady
  <2> QED
    BY <2>2, <2>3
<1>9. CASE DeliverPods
  <2>1. /\ cwc' = cwc /\ Len(versions') = Len(versions) /\ UNCHANGED <<placement, cpol>>
        /\ cenv'.pods = env.pods
        /\ \/ placementQueued' = (placementQueued \/ (IsGKESpotManaged(cwc.spec) /\ TracksFallback(cwc.spec)))
           \/ cenv.pods = "none" /\ env.pods = "clean" /\ UNCHANGED placementQueued
    BY <1>0, <1>9, SameClass DEF DeliverPods, WakePlacement, objects, workers, ObjectsInv, Environments
  <2>2. CASE placementQueued'
    BY <1>2, <2>1, <2>2
  <2>3. CASE ~placementQueued'
    <3>1. CASE ~IsGKESpotManaged(cwc.spec)
      BY <1>0, <2>1, <3>1 DEF FallbackRest, IsReady
    <3>2. CASE ~TracksFallback(cwc.spec)
      <4>1. \A cond : FallbackFits(cwc, cond, cenv.pods, cpol) => FallbackFits(cwc, cond, env.pods, cpol)
        BY <3>2, FallbackFitsFrame
      <4> QED
        BY <1>0, <2>1, <2>3, <4>1 DEF FallbackRest, IsReady
    <3>3. CASE cenv.pods = "none" /\ env.pods = "clean" /\ UNCHANGED placementQueued
      <4>1. \A cond : FallbackFits(cwc, cond, cenv.pods, cpol) => FallbackFits(cwc, cond, env.pods, cpol)
        BY <3>3 DEF FallbackFits
      <4> QED
        BY <1>0, <2>1, <2>3, <3>3, <4>1 DEF FallbackRest, IsReady
    <3> QED
      BY <2>1, <2>3, <3>1, <3>2, <3>3
  <2> QED
    BY <2>2, <2>3
<1>10. CASE DeliverGuardrails
  <2>1. /\ UNCHANGED <<versions, placement, cpol>> /\ cenv'.pods = cenv.pods
        /\ placementQueued' \/ placementQueued' = placementQueued
    BY <1>0, <1>10 DEF DeliverGuardrails, WakePlacement, objects, workers, ObjectsInv, Environments, HandshakeInv, QueuesInv
  <2> QED
    BY <1>2, <1>3, <2>1
<1>11. CASE CentralUpdate
  <2>1. /\ UNCHANGED <<placement, placementQueued, cpol, cenv>>
        /\ Put(central.c) \/ UNCHANGED versions
    BY <1>11 DEF CentralUpdate, caches
  <2> QED
    BY <1>1, <1>3, <2>1
<1>12. CASE PolicyStamp
  <2>1. /\ UNCHANGED <<placement, placementQueued, cpol, cenv>>
        /\ (\E new : Put(new)) \/ UNCHANGED versions
    BY <1>12 DEF PolicyStamp, caches
  <2> QED
    BY <1>1, <1>3, <2>1
<1>13. ASSUME NEW spec \in Specs, EditClass(spec) PROVE FallbackRest'
  <2>1. UNCHANGED placement /\ \E new : Put(new)
    BY <1>13 DEF EditClass
  <2> QED
    BY <1>1, <2>1
<1>14. CASE \/ CentralGet \/ CentralJudge \/ (\E p \in Policies : PolicyGet(p)) \/ PolicyStatus \/ PolicyList
            \/ DeliverOtherClass \/ EditElsewhere \/ UNCHANGED vars
  <2>1. UNCHANGED <<versions, placement, placementQueued, cpol>> /\ cenv'.pods = cenv.pods
    BY <1>0, <1>14, ElsewhereFrame
       DEF CentralGet, CentralJudge, PolicyGet, PolicyStatus, PolicyList, DeliverOtherClass, objects, caches, workers,
           queues, vars, ObjectsInv, Environments
  <2> QED
    BY <1>3, <2>1
<1> QED
    BY <1>4, <1>5, <1>6, <1>7, <1>8, <1>9, <1>10, <1>11, <1>12, <1>13, <1>14
       DEF Next, Central, Policy, Placement, Deliver, Environment, EditElsewhere

-----------------------------------------------------------------------------
(* Rest. *)

RestInv ==
    /\ HandshakeInv /\ GenerationsInv /\ CurrentInv /\ CentralRest
    /\ FreshInv /\ LateStampInv /\ StampRest /\ StampedInv
    /\ PolicyGenerationsInv /\ FallbackRest

\* The clusters to start from are at rest, or everything about the new class is queued.
LEMMA RestInit == Init => RestInv
<1> SUFFICES ASSUME Init PROVE RestInv
    OBVIOUS
<1>0. HandshakeInv
    BY HandshakeInit
<1>1. PICK k \in Clusters :
        /\ versions = <<k.wc>>
        /\ pol = [p \in Policies |-> PolicyOf(k, p)]
        /\ env = [gs |-> k.gs, sel |-> k.sel, pods |-> k.pods]
        /\ centralQueued = (k.wc.val = NoCondition)
        /\ policyQueued = IF k.wc.val = NoCondition THEN {k.wc.spec.ref} \cap Policies ELSE {}
        /\ placementQueued = (k.wc.val = NoCondition /\ IsGKESpotManaged(k.wc.spec))
    BY DEF Init
<1>2. /\ cpol = pol /\ cenv = env /\ central.pc = "idle" /\ policy.pc = "idle" /\ placement.pc = "idle"
      /\ cenv.gs = k.gs /\ cenv.sel = k.sel /\ cenv.pods = k.pods
    BY <1>1 DEF Init, Idle
<1>3. wc = k.wc /\ cwc = k.wc /\ Len(versions) = 1 /\ versions[1] = k.wc
    BY <1>1 DEF wc, cwc
<1>4. k.wc \in ClassType /\ k.wc.gen \in Nat /\ k.pods \in {"none", "clean", "fallback"}
    BY ClustersAssumption DEF ClassType
<1>5. k.wc.val # NoCondition => AtRestIn(k)
    BY ClustersAssumption
<1>6. GenerationsInv
  <2>1. \A i \in 1 .. Len(versions) : versions[i] = k.wc
    BY <1>3
  <2>2. k.wc.gen <= k.wc.gen
    BY <1>4
  <2> QED
    BY <2>1, <2>2 DEF GenerationsInv
<1>7. CurrentInv /\ FreshInv /\ LateStampInv
    BY <1>2 DEF CurrentInv, FreshInv, LateStampInv
<1>8. CentralRest
    BY <1>1, <1>2, <1>3, <1>5 DEF CentralRest, AtRestIn
<1>9. k.wc.spec.ref \in Policies =>
          Awaited \/ wc.att = [Stamp(wc.spec.ref, cpol[wc.spec.ref], cenv.gs) EXCEPT !.obs = wc.gen]
  <2> SUFFICES ASSUME k.wc.spec.ref \in Policies
               PROVE  Awaited \/ wc.att = [Stamp(wc.spec.ref, cpol[wc.spec.ref], cenv.gs) EXCEPT !.obs = wc.gen]
    OBVIOUS
  <2>1. CASE k.wc.val = NoCondition
    BY <1>1, <1>3, <2>1 DEF Awaited
  <2>2. CASE k.wc.val # NoCondition
    <3>1. cpol[k.wc.spec.ref] = PolicyOf(k, k.wc.spec.ref)
      BY <1>1, <1>2
    <3> QED
      BY <1>2, <1>3, <1>5, <2>2, <3>1 DEF AtRestIn
  <2> QED
    BY <2>1, <2>2
<1>10. StampRest
    BY <1>3, <1>9 DEF StampRest
<1>11. StampedInv
  <2>1. wc.spec.ref \in Policies => Awaited \/ Stamped(wc)
    BY <1>0, <1>3, <1>4, <1>9, StampIsStamped DEF HandshakeInv
  <2> QED
    BY <1>3, <2>1 DEF StampedInv
<1>12. PolicyGenerationsInv
  <2>1. \A p \in Policies : pol[p] # Unset => pol[p].gen \in Nat
    BY <1>0 DEF HandshakeInv, ObjectsInv, PolicyObject
  <2> QED
    BY <1>2, <2>1 DEF PolicyGenerationsInv
<1>13. FallbackRest
  <2>1. CASE k.wc.val = NoCondition \/ ~IsGKESpotManaged(k.wc.spec)
    BY <1>1, <1>2, <1>3, <2>1 DEF FallbackRest
  <2>2. CASE k.wc.val # NoCondition /\ IsGKESpotManaged(k.wc.spec) /\ ~IsReady(k.wc)
    BY <1>2, <1>3, <1>5, <2>2 DEF AtRestIn, FallbackRest, FallbackFits
  <2>3. CASE k.wc.val # NoCondition /\ IsGKESpotManaged(k.wc.spec) /\ IsReady(k.wc)
    <3> DEFINE desired == DesiredFallbackCondition(k.wc, k.pods, ReversionActionFor(k.wc, pol))
    <3>1. desired \in {k.wc.fb, Keep}
      BY <1>1, <1>5, <2>3 DEF AtRestIn
    <3>2. FallbackFits(k.wc, IF desired = Keep THEN k.wc.fb ELSE desired, k.pods, pol)
      BY <1>4, <2>3, DesiredFits
    <3> HIDE DEF desired
    <3>3. FallbackFits(k.wc, k.wc.fb, k.pods, pol)
      BY <3>1, <3>2
    <3> QED
      BY <1>2, <1>3, <3>3 DEF FallbackRest
  <2> QED
    BY <2>1, <2>2, <2>3
<1> QED
    BY <1>0, <1>6, <1>7, <1>8, <1>10, <1>11, <1>12, <1>13 DEF RestInv

\* Every step keeps what is not right awaited.
LEMMA RestNext == RestInv /\ [Next]_vars => RestInv'
<1> SUFFICES ASSUME RestInv, [Next]_vars PROVE RestInv'
    OBVIOUS
<1>1. /\ HandshakeInv /\ GenerationsInv /\ CurrentInv /\ CentralRest
      /\ FreshInv /\ LateStampInv /\ StampRest /\ StampedInv
      /\ PolicyGenerationsInv /\ FallbackRest
    BY DEF RestInv
<1> QED
    BY <1>1, HandshakeNext, Writes, GenerationsNext, CurrentNext, CentralRestNext, FreshNext, LateStampNext, StampRestNext,
       StampedNext, PolicyGenerationsNext, FallbackRestNext DEF RestInv

\* What is known of the class when everything is at rest.
LEMMA AtRest ==
    ASSUME RestInv, Quiet
    PROVE  /\ ObjectsInv /\ wc \in ClassType /\ cwc = wc /\ cpol = pol /\ cenv = env
           /\ CentralStatus(wc, env.gs, env.sel) = wc
           /\ wc.att = PlacementPluginCondition(wc)
           /\ wc.spec.ref \in Policies => Stamped(wc)
           /\ wc.spec.ref \in Policies /\ ~skipped =>
                  wc.att = [Stamp(wc.spec.ref, pol[wc.spec.ref], env.gs) EXCEPT !.obs = wc.gen]
<1>1. /\ VersionsInv /\ ObjectsInv /\ CentralRest /\ StampRest /\ StampedInv
    BY DEF RestInv, HandshakeInv
<1>2. /\ ~centralQueued /\ policyQueued = {} /\ central.pc = "idle" /\ policy.pc = "idle"
      /\ CacheCurrent /\ cpol = pol /\ cenv = env
    BY DEF Quiet, Idle
<1>3. wc \in ClassType /\ cwc = wc /\ ~(Len(versions) > 1)
    BY <1>1, <1>2, ClassTypes, CurrentFacts
<1>4. CentralStatus(wc, env.gs, env.sel) = wc
    BY <1>1, <1>2, <1>3 DEF CentralRest
<1>5. wc.att = PlacementPluginCondition(wc)
    BY <1>3, <1>4, CentralStatusShape
<1>6. ~Awaited
    BY <1>2, <1>3 DEF Awaited
<1>7. wc.spec.ref \in Policies => Stamped(wc)
    BY <1>1, <1>6 DEF StampedInv
<1>8. wc.spec.ref \in Policies /\ ~skipped =>
          wc.att = [Stamp(wc.spec.ref, pol[wc.spec.ref], env.gs) EXCEPT !.obs = wc.gen]
    BY <1>1, <1>2, <1>6 DEF StampRest
<1> QED
    BY <1>1, <1>2, <1>3, <1>4, <1>5, <1>7, <1>8

SelectorType == {NilSelector} \cup SUBSET Requirement

\* What Validated says of a class: it is about its generation, and the verdict is that of the documented rules.
LEMMA ValidatedShape ==
    ASSUME NEW c \in ClassType, NEW gs \in Seq(Guardrail), NEW sel \in SelectorType,
           c.val = Reconciled(ValidatedCondition(c, gs, sel), c.att)
    PROVE  /\ c.val.obs = c.gen
           /\ c.val.status = "True" <=> /\ SpecViolations(c.spec) = {}
                                        /\ RespectsDisruption(c.spec.dp, gs) /\ RespectsCapacity(c.spec.cs, gs)
                                        /\ ~CanSelectOnePod(c.spec.sel, sel) /\ c.att.status \in {"Absent", "True"}
           /\ c.val.reason = "SelectorOverlap" <=> /\ SpecViolations(c.spec) = {}
                                                   /\ RespectsDisruption(c.spec.dp, gs) /\ RespectsCapacity(c.spec.cs, gs)
                                                   /\ CanSelectOnePod(c.spec.sel, sel) /\ c.att.status \in {"Absent", "True"}
<1> DEFINE judged  == ValidatedCondition(c, gs, sel)
           valid   == /\ SpecViolations(c.spec) = {}
                      /\ RespectsDisruption(c.spec.dp, gs) /\ RespectsCapacity(c.spec.cs, gs)
           overlap == CanSelectOnePod(c.spec.sel, sel)
           fine    == c.att.status \in {"Absent", "True"}
           violations == SpecViolations(c.spec) \cup DisruptionViolations(c.spec.dp, gs) \cup CapacityViolations(c.spec.cs, gs)
           overlaps   == IF SelectorsOverlap(c.spec.sel, sel) THEN {"overlap"} ELSE {}
<1> SUFFICES /\ c.val.obs = c.gen
             /\ c.val.status = "True" <=> valid /\ ~overlap /\ fine
             /\ c.val.reason = "SelectorOverlap" <=> valid /\ overlap /\ fine
    OBVIOUS
<1>1. /\ c.spec.cs \in CapacityStrategy \cup {Unset} /\ c.spec.dp \in DisruptionPolicy
      /\ c.spec.sel \in {NilSelector} \cup SUBSET Requirement /\ c.gen \in Nat
      /\ sel \in {NilSelector} \cup SUBSET Requirement
    BY DEF ClassType, Spec_, SelectorType
<1>2. violations = {} <=> valid
  <2>1. Elems(gs) \subseteq Guardrail
    BY DEF Elems
  <2>2. DisruptionViolations(c.spec.dp, gs) = {} <=> RespectsDisruption(c.spec.dp, gs)
    BY <1>1, <2>1, DisruptionExact
  <2>3. CapacityViolations(c.spec.cs, gs) = {} <=> RespectsCapacity(c.spec.cs, gs)
    BY <1>1, CapacityExact
  <2>4. violations = {} <=> /\ SpecViolations(c.spec) = {} /\ DisruptionViolations(c.spec.dp, gs) = {}
                            /\ CapacityViolations(c.spec.cs, gs) = {}
    OBVIOUS
  <2> QED
    BY <2>2, <2>3, <2>4
<1>3. overlaps = {} <=> ~overlap
  <2>1. SelectorsOverlap(c.spec.sel, sel) <=> overlap
    BY <1>1, OverlapExact
  <2> QED
    BY <2>1
<1> HIDE DEF violations, overlaps, valid, overlap
<1>4. \/ violations # {} /\ judged = Condition("False", "ValidationFailed", violations \cup overlaps, Unset, c.gen)
      \/ violations = {} /\ overlaps # {} /\ judged = Condition("False", "SelectorOverlap", overlaps, Unset, c.gen)
      \/ violations = {} /\ overlaps = {} /\ \/ judged = Condition("True", "NoGuardrails", {}, Unset, c.gen)
                                             \/ judged = Condition("True", "ValidationPassed", {}, Unset, c.gen)
    BY DEF ValidatedCondition, violations, overlaps
<1>5. /\ judged.obs = c.gen
      /\ judged.status = "True" <=> valid /\ ~overlap
      /\ judged.reason = "SelectorOverlap" <=> valid /\ overlap
    BY <1>2, <1>3, <1>4 DEF Condition
<1>6. \E why : judged \in [status : {"True", "False"}, reason : Reasons, why : {why}, of : {Unset}, obs : {c.gen}]
    BY <1>4 DEF Condition, Reasons
<1> HIDE DEF judged
<1>7. c.val = IF fine THEN judged ELSE [judged EXCEPT !.status = "False", !.reason = "ValidationFailed", !.of = c.att.of,
                                                   !.why = @ \cup {"unattached"} \cup c.att.why]
    BY DEF Reconciled, judged
<1>8. CASE fine
    BY <1>5, <1>7, <1>8
<1>9. CASE ~fine
  <2>1. c.val.obs = c.gen /\ c.val.status = "False" /\ c.val.reason = "ValidationFailed"
    BY <1>5, <1>6, <1>7, <1>9
  <2> QED
    BY <1>9, <2>1
<1> QED
    BY <1>8, <1>9

\* However reads, writes, retries and edits interleave: once nothing is queued, running or undelivered,
\* PlacementPluginAttached and Validated are those of the current generation, policy and guardrails.
THEOREM HandshakeConditionsAtRest == Spec => []ConditionsAtRest
<1>1. RestInv => ConditionsAtRest
  <2> DEFINE ref      == wc.spec.ref
             exists   == ref \in Policies /\ pol[ref] # Unset
             attached == exists /\ PolicyViolations(pol[ref].rev, env.gs) = {}
             valid    == /\ SpecViolations(wc.spec) = {}
                         /\ RespectsDisruption(wc.spec.dp, env.gs) /\ RespectsCapacity(wc.spec.cs, env.gs)
             overlap  == CanSelectOnePod(wc.spec.sel, env.sel)
  <2> SUFFICES ASSUME RestInv, Quiet, ref # OtherKind, ~skipped
               PROVE  /\ IF ref = Unset THEN wc.att = NoCondition
                         ELSE wc.att.obs = wc.gen /\ (wc.att.status = "True" <=> attached)
                      /\ ref \in Policies => wc.att.of = ref
                      /\ wc.val.obs = wc.gen
                      /\ wc.val.status = "True" <=> valid /\ ~overlap /\ (ref # Unset => attached)
                      /\ wc.val.reason = "SelectorOverlap" <=> valid /\ overlap /\ (ref # Unset => attached)
    BY DEF ConditionsAtRest
  <2>1. /\ ObjectsInv /\ wc \in ClassType /\ wc.att \in ConditionType /\ wc.gen \in Nat
        /\ CentralStatus(wc, env.gs, env.sel) = wc
        /\ wc.att = PlacementPluginCondition(wc)
    BY AtRest DEF ClassType
  <2>2. ref \in Policies \cup {Unset} /\ Unset \notin Policies
    BY <2>1, InputsAssumption DEF ClassType, Spec_
  <2>3. env.gs \in Seq(Guardrail) /\ env.sel \in {NilSelector} \cup SUBSET Requirement
    BY <2>1, InputsAssumption DEF ObjectsInv, Environments
  <2>4. ref = Unset => wc.att = NoCondition /\ wc.att.status = "Absent"
    BY <2>1 DEF PlacementPluginCondition, NoCondition
  <2>5. ASSUME ref \in Policies
        PROVE  /\ wc.att.obs = wc.gen /\ wc.att.of = ref /\ wc.att.status \in {"True", "False"}
               /\ wc.att.status = "True" <=> attached
    <3>1. PICK p \in Policies : p = ref
      BY <2>5
    <3> DEFINE stamp == Stamp(p, pol[p], env.gs)
    <3>2. pol[p] \in PolicyObject \cup {Unset}
      BY <2>1 DEF ObjectsInv
    <3>3. /\ stamp \in ConditionType /\ stamp.of = p /\ stamp.status \in {"True", "False"}
          /\ stamp.status = "True" <=> pol[p] # Unset /\ PolicyViolations(pol[p].rev, env.gs) = {}
      BY <3>2, StampIsType
    <3>4. wc.att = [stamp EXCEPT !.obs = wc.gen]
      BY <3>1, AtRest
    <3> HIDE DEF stamp
    <3>5. wc.att.obs = wc.gen /\ wc.att.of = p /\ wc.att.status = stamp.status
      BY <3>3, <3>4 DEF ConditionType
    <3> QED
      BY <3>1, <3>3, <3>5
  <2>6. wc.val = Reconciled(ValidatedCondition(wc, env.gs, env.sel), wc.att)
    BY <2>1, CentralStatusShape
  <2>7. /\ wc.val.obs = wc.gen
        /\ wc.val.status = "True" <=> valid /\ ~overlap /\ wc.att.status \in {"Absent", "True"}
        /\ wc.val.reason = "SelectorOverlap" <=> valid /\ overlap /\ wc.att.status \in {"Absent", "True"}
    <3>1. PICK c \in ClassType, gs \in Seq(Guardrail), sel \in SelectorType : c = wc /\ gs = env.gs /\ sel = env.sel
      BY <2>1, <2>3 DEF SelectorType
    <3>2. c.val = Reconciled(ValidatedCondition(c, gs, sel), c.att)
      BY <2>1, <2>6, <3>1
    <3>3. /\ c.val.obs = c.gen
          /\ c.val.status = "True" <=> /\ SpecViolations(c.spec) = {}
                                       /\ RespectsDisruption(c.spec.dp, gs) /\ RespectsCapacity(c.spec.cs, gs)
                                       /\ ~CanSelectOnePod(c.spec.sel, sel) /\ c.att.status \in {"Absent", "True"}
          /\ c.val.reason = "SelectorOverlap" <=> /\ SpecViolations(c.spec) = {}
                                                  /\ RespectsDisruption(c.spec.dp, gs) /\ RespectsCapacity(c.spec.cs, gs)
                                                  /\ CanSelectOnePod(c.spec.sel, sel) /\ c.att.status \in {"Absent", "True"}
      BY <3>2, ValidatedShape
    <3> QED
      BY <3>1, <3>3
  <2>8. wc.att.status \in {"Absent", "True"} <=> (ref # Unset => attached)
    <3> HIDE DEF attached
    <3> QED
      BY <2>2, <2>4, <2>5
  <2> HIDE DEF attached, valid, overlap
  <2>9. CASE ref = Unset
    BY <2>2, <2>4, <2>7, <2>8, <2>9
  <2>10. CASE ref \in Policies
    BY <2>2, <2>5, <2>7, <2>8, <2>10
  <2> QED
    BY <2>2, <2>9, <2>10
<1> QED
    BY <1>1, RestInit, RestNext, PTL DEF Spec

\* However they interleave: once nothing is queued, running or undelivered, InFallback is what the class's Pods and
\* its policy's reversion action ask for, and absent where fallback is not tracked.
THEOREM HandshakeFallbackAtRest == Spec => []FallbackAtRest
<1>1. RestInv => FallbackAtRest
  <2> SUFFICES ASSUME RestInv, Quiet, IsGKESpotManaged(wc.spec)
               PROVE  FallbackFits(wc, wc.fb, env.pods, pol)
    BY DEF FallbackAtRest, FallbackFits
  <2>1. /\ wc \in ClassType /\ cwc = wc /\ cpol = pol /\ cenv = env
        /\ wc.att = PlacementPluginCondition(wc)
        /\ wc.spec.ref \in Policies => Stamped(wc)
    BY AtRest
  <2>2. ~placementQueued /\ placement.pc = "idle" /\ ~(Len(versions) > 1)
    BY CurrentFacts DEF Quiet, Idle, RestInv, HandshakeInv
  <2>3. wc.spec.ref \in Policies \cup {Unset}
    BY <2>1 DEF ClassType, Spec_, IsGKESpotManaged
  <2>4. ~IsPlacementPluginPending(wc)
    BY <2>1, <2>3 DEF IsPlacementPluginPending, Stamped, PlacementPluginCondition, NoCondition
  <2> QED
    BY <2>1, <2>2, <2>4 DEF RestInv, FallbackRest
<1> QED
    BY <1>1, RestInit, RestNext, PTL DEF Spec
=============================================================================
