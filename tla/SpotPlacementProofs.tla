------------------------- MODULE SpotPlacementProofs -------------------------
(***************************************************************************)
(* Proofs about SpotPlacement for any number of Pods and Spot nodes, any   *)
(* plans, windows and autoscaler statuses.                                 *)
(***************************************************************************)
EXTENDS SpotPlacement, FiniteSetTheorems, WellFoundedInduction, TLAPS

-----------------------------------------------------------------------------
(* The inductive invariants *)

Conditions == {"Absent", "True", "False"}

PodStates == PodType \cup {NoPod, Gone}

SinceType == UNION {[S -> Nat] : S \in SUBSET Pods}

WorkerType ==
    [pc : {"set", "evict"}, plan : Plans, desired : Conditions, fallback : SUBSET Pods, since : SinceType,
     spot : Nat, active : Nat, max : Nat \cup {None}, requeue : Nat]

\* The cluster, the caches and the clock have their types.
StateInv ==
    /\ pods \in [Pods -> PodStates] /\ cpods \in [Pods -> PodStates]
    /\ node \in [SpotNodes -> NodeStates] /\ cnode \in [SpotNodes -> NodeStates]
    /\ status \in Statuses /\ cstatus \in Statuses
    /\ plan \in Plans /\ cplan \in Plans
    /\ fb \in Conditions /\ cfb \in Conditions
    /\ queued \in BOOLEAN /\ timer \in Nat \cup {None}
    /\ now \in 0 .. MaxTime /\ events \in 0 .. MaxEvents
    /\ undisturbed \in BOOLEAN /\ raced \subseteq Pods

\* No Pod is younger than the clock.
SinceInv ==
    \A i \in Pods : /\ Exists(pods[i]) => pods[i].since <= now
                    /\ Exists(cpods[i]) => cpods[i].since <= now

\* The worker knows since when each Pod it is still to visit is in fallback, and what it counts as Spot can
\* grow by each of them.
WorkerInv ==
    /\ worker = Idle \/ worker \in WorkerType
    /\ worker # Idle =>
           /\ worker.fallback \subseteq DOMAIN worker.since
           /\ \A i \in DOMAIN worker.since : worker.since[i] <= now
           /\ worker.spot + Cardinality(worker.fallback) <= worker.active
           /\ worker.active <= Cardinality(Pods)

TypeInv == StateInv /\ SinceInv /\ WorkerInv

\* What the cache has of a Pod is what was: a Pod that is gone stays gone, one that is there keeps its
\* placement, and one that is bound its node.
PodsInv ==
    \A i \in Pods :
        /\ cpods[i] = Gone => pods[i] = Gone
        /\ Exists(cpods[i]) =>
               \/ pods[i] = Gone
               \/ /\ Exists(pods[i]) /\ pods[i].place = cpods[i].place
                  /\ cpods[i].node # None => pods[i].node = cpods[i].node /\ pods[i].since = cpods[i].since

\* A Spot node that is not cached yet came just now, so what runs on it was bound just now; nothing does while
\* it is not ready.
NodesInv ==
    \A n \in SpotNodes : cnode[n] = "absent" /\ node[n] # "absent" =>
        \A i \in Pods : \A pod \in {pods[i], cpods[i]} :
            Exists(pod) /\ pod.node = n => node[n] = "ready" /\ pod.since = now

\* A Pod that the worker is still to visit runs on a node, and if that is a Spot node it was bound just now.
VisitInv ==
    worker # Idle =>
        \A i \in worker.fallback :
            /\ pods[i] # NoPod
            /\ Exists(pods[i]) => pods[i].node # None /\ (IsSpotNode(node, pods[i].node) => worker.since[i] = now)

CacheInv == TypeInv /\ PodsInv /\ NodesInv

\* The limit that the worker goes by is that of a plan.
LimitInv == worker # Idle => worker.max = None \/ \E p \in Plans : worker.max = p.max

EvictInv == CacheInv /\ VisitInv /\ LimitInv

\* The condition is one that plan p allows for these Pods and nodes.
Fits(p, ps, ns, cond) ==
    IF ~TracksFallback(p) THEN cond = "Absent"
    ELSE IF InFallback(ps, ns) # {} THEN cond = "True"
    ELSE cond = "False" \/ (cond = "True" /\ p.action = "None" /\ Active(ps) # {})

\* A Pod whose node is gone, as the cache has it.
CachedOrphan == \E i \in Pods : Exists(cpods[i]) /\ cpods[i].node \in SpotNodes /\ cnode[cpods[i].node] = "absent"

\* Unless the class is queued, or its own update will wake it, the condition fits what the cache has, or is
\* about to; if not then because of a Pod whose removal will wake the class.
CondInv ==
    \/ queued \/ cfb # fb
    \/ worker.pc = "set" /\ Fits(cplan, cpods, cnode, worker.desired)
    \/ Fits(cplan, cpods, cnode, cfb)
    \/ TracksFallback(cplan) /\ CachedOrphan

RestInv == CacheInv /\ CondInv

TargetedPods(ps) == {i \in Active(ps) : Targeted(ps[i])}

\* The Pods admitted with all others in view that are in fallback or may yet be: a flexible one may until it is bound.
MayFallBack(ps, late) ==
    {i \in Active(ps) : /\ i \notin late
                        /\ \/ Targeted(ps[i]) /\ ps[i].node = "ondemand"
                           \/ ps[i].place = "flexible" /\ ps[i].node = None}

Ended(ps) == \E i \in Pods : ps[i] # NoPod /\ i \notin Active(ps)

\* n Pods in fallback of a total are one at most, or what the budgets allow.
WithinBudgets(n, total, budgets, ended) ==
    \/ n <= 1
    \/ \A b \in budgets : (b.kind = "Percent" /\ ended) \/ FallbackWithinBudget(n, total, b)

BudgetInv ==
    WithinBudgets(Cardinality(MayFallBack(pods, raced)), Cardinality(Active(pods)), plan.budgets, Ended(pods))

SpentInv == TypeInv /\ BudgetInv

\* While undisturbed: the plan is the cached one, every Pod is active, only Pods that target Spot run there,
\* and as long as none of these runs on an On-Demand node their number is what the ratio asks for.
ShareInv ==
    undisturbed =>
        /\ cplan = plan
        /\ \A i \in Pods : Exists(pods[i]) => pods[i].active /\ (pods[i].node \in SpotNodes => Targeted(pods[i]))
        /\ (plan.ratio \in 1 .. 99 /\ plan.action # "None" /\ \A i \in TargetedPods(pods) : pods[i].node # "ondemand") =>
               /\ Cardinality(Active(pods)) * plan.ratio <= Cardinality(TargetedPods(pods)) * 100
               /\ Cardinality(TargetedPods(pods)) > 0 =>
                      (Cardinality(TargetedPods(pods)) - 1) * 100 < Cardinality(Active(pods)) * plan.ratio

RatioInv == TypeInv /\ ShareInv

\* The Spot share is not met, and every Pod meant for On-Demand is scheduled.
Unmet(p, ps, ns) ==
    /\ \A i \in Active(ps) : ps[i].place = "ondemand" => ps[i].node # None
    /\ ~SpotShareMet(EffectiveSpot(ps, ns), Cardinality(Active(ps)), p.ratio)

Candidates == InFallback(cpods, cnode) \cap Owned

\* The time at which Pod i must be evicted, and the time from which on it may be, as the cache has it.
CachedDue(i) ==
    {t \in Nat : \/ cplan.max # None /\ t = cpods[i].since + cplan.max
                 \/ cplan.action = "Active" /\ t = cpods[i].since + cplan.min}

Overdue == \E i \in Candidates : \E t \in CachedDue(i) : t <= now

\* A reconcile at time T is in time for Pod i, or is a retry.
Covered(i, T) ==
    \A t \in CachedDue(i) :
        Unmet(cplan, cpods, cnode) \/ (cplan.max # None /\ t = cpods[i].since + cplan.max) =>
            T \in Nat /\ (T <= t \/ (Overdue /\ \E d \in Waits : T - now <= d))

\* When the class is queued again if the reconcile ends with this requeue.
Deadline(requeue) ==
    IF requeue <= 0 THEN timer
    ELSE IF timer = None \/ now + requeue < timer THEN now + requeue ELSE timer

\* A Pod has ended, and the cache does not have that yet.
EndUnseen == \E i \in Pods : Exists(cpods[i]) /\ cpods[i].active /\ (Exists(pods[i]) => ~pods[i].active)

\* The class is queued or will be as soon as something is different: the end of a Pod is seen, a Pod whose
\* node is gone is removed, the plan tracks fallback, or Spot capacity is there.
Excused ==
    \/ queued \/ ~TracksFallback(cplan) \/ ~SpotCapacityAvailable(cstatus, cnode)
    \/ CachedOrphan \/ EndUnseen

\* What the worker took down is still what the cache has.
Snapshot ==
    /\ worker.plan = cplan
    /\ worker.fallback \subseteq InFallback(cpods, cnode)
    /\ \A i \in worker.fallback : worker.since[i] = cpods[i].since
    /\ SpotShareMet(worker.spot, worker.active, worker.plan.ratio) => ~Unmet(cplan, cpods, cnode)

\* Every Pod that may be evicted is still to be visited, or its time is covered by the timer as it will be set.
ScheduleInv ==
    /\ worker # Idle => Snapshot
    /\ worker.pc = "set" => worker.fallback = InFallback(cpods, cnode)
    /\ worker.pc = "evict" => /\ worker.max = cplan.max
                              /\ \A i \in Candidates \ worker.fallback : Covered(i, Deadline(worker.requeue))
    /\ worker = Idle => \A i \in Candidates : Covered(i, timer)

ReversionInv == CacheInv /\ (Excused \/ ScheduleInv)

-----------------------------------------------------------------------------
(* What the operators compute *)

\* A Pod that exists has the type of a Pod.
LEMMA PodTyped ==
    ASSUME NEW ps \in [Pods -> PodStates], NEW i \in Pods, Exists(ps[i])
    PROVE  ps[i] \in PodType
  BY DEF PodStates, Exists

\* A set of Pods is finite, and counted.
LEMMA PodsCounted ==
    ASSUME NEW S \in SUBSET Pods
    PROVE  IsFiniteSet(S) /\ Cardinality(S) \in Nat /\ Cardinality(S) <= Cardinality(Pods)
  BY PodsAssumption, FS_Subset, FS_CardinalityType

\* Two disjoint sets of active Pods are no more than the active Pods.
LEMMA DisjointCounted ==
    ASSUME NEW S \in SUBSET Pods, NEW A \in SUBSET S, NEW B \in SUBSET S, A \cap B = {}
    PROVE  Cardinality(A) + Cardinality(B) <= Cardinality(S)
<1>1. IsFiniteSet(A) /\ IsFiniteSet(B) /\ IsFiniteSet(S)
    BY PodsCounted
<1>2. Cardinality(A) \in Nat /\ Cardinality(B) \in Nat /\ Cardinality(S) \in Nat
    BY PodsCounted
<1>3. Cardinality(A \cup B) = Cardinality(A) + Cardinality(B) - Cardinality(A \cap B)
    BY <1>1, FS_Union
<1>4. Cardinality(A \cap B) = 0
    BY FS_EmptySet
<1>5. A \cup B \in SUBSET S
    OBVIOUS
<1>6. Cardinality(A \cup B) <= Cardinality(S)
    BY <1>1, <1>5, FS_Subset
<1> QED
    BY <1>2, <1>3, <1>4, <1>6

\* classifyWorkloadPods counts no Pod both as Spot and as in fallback.
LEMMA ClassifyCounts ==
    ASSUME NEW ps, NEW ns
    PROVE  /\ InFallback(ps, ns) \in SUBSET Pods
           /\ EffectiveSpot(ps, ns) \in Nat /\ Cardinality(Active(ps)) \in Nat
           /\ EffectiveSpot(ps, ns) + Cardinality(InFallback(ps, ns)) <= Cardinality(Active(ps))
           /\ EffectiveSpot(ps, ns) <= Cardinality(Active(ps))
           /\ Cardinality(Active(ps)) <= Cardinality(Pods)
<1> DEFINE S == Active(ps)
           A == {i \in S : IF ps[i].node = None THEN Targeted(ps[i]) ELSE IsSpotNode(ns, ps[i].node)}
           B == {i \in S : ps[i].node # None /\ ~IsSpotNode(ns, ps[i].node) /\ Targeted(ps[i])}
<1>1. S \in SUBSET Pods
    BY DEF Active
<1>2. A \in SUBSET S /\ B \in SUBSET S /\ A \cap B = {}
    OBVIOUS
<1>3. EffectiveSpot(ps, ns) = Cardinality(A) /\ InFallback(ps, ns) = B
    BY DEF EffectiveSpot, InFallback
<1>4. A \in SUBSET Pods /\ B \in SUBSET Pods
    BY <1>1, <1>2
<1> HIDE DEF S, A, B
<1>5. Cardinality(A) \in Nat /\ Cardinality(B) \in Nat /\ Cardinality(S) \in Nat /\ Cardinality(S) <= Cardinality(Pods)
    BY <1>1, <1>4, PodsCounted
<1>6. Cardinality(A) + Cardinality(B) <= Cardinality(S)
    BY <1>1, <1>2, DisjointCounted
<1>7. Cardinality(A) <= Cardinality(S)
    BY <1>5, <1>6
<1> QED
    BY <1>3, <1>4, <1>5, <1>6, <1>7 DEF S

\* desiredFallbackCondition returns a condition.
LEMMA DesiredTyped ==
    ASSUME NEW p, NEW ps, NEW ns, NEW cond
    PROVE  DesiredFallbackCondition(p, ps, ns, cond) \in Conditions
<1>1. CASE ~TracksFallback(p)
    BY <1>1 DEF DesiredFallbackCondition, Conditions
<1>2. CASE TracksFallback(p) /\ InFallback(ps, ns) # {}
    BY <1>2 DEF DesiredFallbackCondition, Conditions
<1>3. CASE TracksFallback(p) /\ InFallback(ps, ns) = {}
    BY <1>3 DEF DesiredFallbackCondition, Conditions
<1> QED
    BY <1>1, <1>2, <1>3

\* ... one that fits the Pods and nodes it is computed from.
LEMMA DesiredFits ==
    ASSUME NEW p, NEW ps, NEW ns, NEW cond
    PROVE  Fits(p, ps, ns, DesiredFallbackCondition(p, ps, ns, cond))
<1>1. CASE ~TracksFallback(p)
    BY <1>1 DEF DesiredFallbackCondition, Fits
<1>2. CASE TracksFallback(p) /\ InFallback(ps, ns) # {}
    BY <1>2 DEF DesiredFallbackCondition, Fits
<1>3. CASE TracksFallback(p) /\ InFallback(ps, ns) = {}
    BY <1>3 DEF DesiredFallbackCondition, Fits
<1> QED
    BY <1>1, <1>2, <1>3

\* The sooner of two delays, of which 0 is none.
LEMMA MinPositiveTyped ==
    ASSUME NEW a \in Nat, NEW b \in Nat
    PROVE  MinPositive(a, b) \in Nat
<1>1. CASE a <= 0
    BY <1>1 DEF MinPositive
<1>2. CASE a > 0 /\ b <= 0
    BY <1>2 DEF MinPositive
<1>3. CASE a > 0 /\ b > 0
    BY <1>3 DEF MinPositive
<1> QED
    BY <1>1, <1>2, <1>3

\* A set of times has a first one.
LEMMA FirstTime ==
    ASSUME NEW S \in SUBSET Nat, S # {}
    PROVE  Min(S) \in S
<1>1. PICK x \in S : \A y \in S : <<y, x>> \notin OpToRel(<, Nat)
    BY NatLessThanWellFounded, WFMin
<1>2. ASSUME NEW y \in S
      PROVE  x <= y
  <2>1. x \in Nat /\ y \in Nat
    OBVIOUS
  <2>2. ~(y < x)
    BY <1>1, <2>1 DEF OpToRel
  <2> QED
    BY <2>1, <2>2
<1> QED
    BY <1>2 DEF Min

\* The next window is later.
LEMMA NextWindowTyped ==
    ASSUME NEW t \in 0 .. MaxTime
    PROVE  NextWindow(t) \in Nat /\ NextWindow(t) > 0
<1> DEFINE later == {w \in Windows : w > t}
<1>1. CASE later = {}
    BY <1>1, TimesAssumption DEF NextWindow
<1>2. CASE later # {}
  <2>1. later \in SUBSET Nat
    BY TimesAssumption
  <2>2. Min(later) \in later
    BY <1>2, <2>1, FirstTime
  <2>3. NextWindow(t) = Min(later) - t
    BY <1>2 DEF NextWindow
  <2>4. Min(later) \in Nat /\ Min(later) > t /\ t \in Nat
    BY <2>1, <2>2
  <2> QED
    BY <2>3, <2>4
<1> QED
    BY <1>1, <1>2

\* The time since which a Pod is in fallback.
LEMMA SinceTyped ==
    ASSUME NEW s \in SinceType, NEW i \in DOMAIN s
    PROVE  s[i] \in Nat
  BY DEF SinceType

\* The loop's decision on a Pod that the worker has a time for.
LEMMA DecisionTyped ==
    ASSUME NEW w \in WorkerType, NEW i \in DOMAIN w.since, NEW t \in Nat, w.since[i] <= t
    PROVE  Decision(w, i, t).wait \in Nat
<1> DEFINE elapsed  == t - w.since[i]
           untilMax == IF w.max = None THEN 0 ELSE w.max - elapsed
<1>1. w.since \in SinceType /\ w.max \in Nat \cup {None} /\ w.plan \in Plans
    BY DEF WorkerType
<1>2. elapsed \in Nat
    BY <1>1, SinceTyped
<1>3. w.plan.min \in Nat
    BY <1>1, InputsAssumption
<1>4. ASSUME ~(w.max # None /\ elapsed >= w.max)
      PROVE  untilMax \in Nat
    BY <1>1, <1>2, <1>4, TimesAssumption
<1>5. ASSUME ~(w.max # None /\ elapsed >= w.max), elapsed < w.plan.min
      PROVE  MinPositive(w.plan.min - elapsed, untilMax) \in Nat
  <2>1. w.plan.min - elapsed \in Nat
    BY <1>2, <1>3, <1>5
  <2> HIDE DEF untilMax, elapsed
  <2> QED
    BY <1>4, <1>5, <2>1, MinPositiveTyped
<1>6. Decision(w, i, t).wait \in
          IF i \notin Owned THEN {0}
          ELSE IF w.max # None /\ elapsed >= w.max THEN {0}
          ELSE IF w.plan.action # "Active" \/ SpotShareMet(w.spot, w.active, w.plan.ratio) THEN {untilMax}
          ELSE IF elapsed < w.plan.min THEN {MinPositive(w.plan.min - elapsed, untilMax)} ELSE {0}
    BY DEF Decision
<1> HIDE DEF untilMax, elapsed
<1> QED
    BY <1>4, <1>5, <1>6

\* The webhook gives a Pod one of three placements.
LEMMA PlacementTyped ==
    ASSUME NEW p, NEW counts, NEW cond
    PROVE  Placement(p, counts, cond) \in {"strict", "flexible", "ondemand"}
  BY DEF Placement

\* The end of a reconcile leaves a worker that is idle and a timer that is a time.
LEMMA DoneTyped ==
    ASSUME NEW requeue \in Nat, Done(requeue), timer \in Nat \cup {None}, now \in Nat
    PROVE  worker' = Idle /\ timer' \in Nat \cup {None}
  BY TimesAssumption DEF Done

-----------------------------------------------------------------------------
(* Types: the cluster *)

\* The Pods' own actions.
LEMMA PodsState ==
    ASSUME StateInv, NEW i \in Pods, Admit(i) \/ Bind(i) \/ End(i) \/ RemovePod(i) \/ Evict(i)
    PROVE  pods' \in [Pods -> PodStates]
<1>1. now \in Nat /\ pods \in [Pods -> PodStates]
    BY DEF StateInv
<1>2. Exists(pods[i]) => pods[i] \in PodType
    BY <1>1, PodTyped
<1>3. \A pod \in PodStates : [pods EXCEPT ![i] = pod] \in [Pods -> PodStates]
    BY <1>1
<1>4. CASE Admit(i)
  <2> DEFINE place == Placement(cplan, CountWorkloadClassPods(cpods, cnode), cfb)
  <2>1. place \in {"strict", "flexible", "ondemand"}
    BY PlacementTyped
  <2>2. pods' = [pods EXCEPT ![i] = [place |-> place, node |-> None, since |-> now, active |-> TRUE]]
    BY <1>4 DEF Admit
  <2> HIDE DEF place
  <2>3. [place |-> place, node |-> None, since |-> now, active |-> TRUE] \in PodStates
    BY <1>1, <2>1 DEF PodStates, PodType
  <2> QED
    BY <1>3, <2>2, <2>3
<1>5. CASE Bind(i)
  <2>1. PICK n \in SpotNodes \cup {"ondemand"} : pods' = [pods EXCEPT ![i].node = n, ![i].since = now]
    BY <1>5 DEF Bind
  <2>2. pods[i] \in PodType
    BY <1>2, <1>5 DEF Bind
  <2>3. [pods[i] EXCEPT !.node = n, !.since = now] \in PodStates
    BY <1>1, <2>2 DEF PodStates, PodType
  <2> QED
    BY <1>1, <1>3, <2>1, <2>3
<1>6. CASE End(i) \/ Evict(i)
  <2>1. pods' = [pods EXCEPT ![i].active = FALSE] /\ pods[i] \in PodType
    BY <1>2, <1>6 DEF End, Evict
  <2>2. [pods[i] EXCEPT !.active = FALSE] \in PodStates
    BY <2>1 DEF PodStates, PodType
  <2> QED
    BY <1>1, <1>3, <2>1, <2>2
<1>7. CASE RemovePod(i)
    BY <1>3, <1>7 DEF RemovePod, PodStates
<1> QED
    BY <1>4, <1>5, <1>6, <1>7

\* No step makes a Pod younger than the clock.
LEMMA PodsSince ==
    ASSUME StateInv, SinceInv, NEW i \in Pods, Admit(i) \/ Bind(i) \/ End(i) \/ RemovePod(i) \/ Evict(i)
    PROVE  SinceInv'
<1>1. now' = now /\ cpods' = cpods
    BY DEF Admit, Bind, End, RemovePod, Evict, caches
<1>2. now \in Nat /\ pods \in [Pods -> PodStates] /\ pods' \in [Pods -> PodStates]
    BY PodsState DEF StateInv
<1>3. \A j \in Pods \ {i} : pods'[j] = pods[j]
    BY <1>2 DEF Admit, Bind, End, RemovePod, Evict
<1>4. Exists(pods'[i]) => pods'[i].since <= now
  <2>1. CASE Admit(i)
    BY <1>2, <2>1 DEF Admit
  <2>2. CASE Bind(i)
    <3>1. pods[i] \in PodType
      BY <1>2, <2>2, PodTyped DEF Bind
    <3>2. PICK n : pods' = [pods EXCEPT ![i].node = n, ![i].since = now]
      BY <2>2 DEF Bind
    <3>3. pods'[i] = [pods[i] EXCEPT !.node = n, !.since = now]
      BY <1>2, <3>2
    <3> QED
      BY <1>2, <3>1, <3>3 DEF PodType
  <2>3. CASE End(i) \/ Evict(i)
    <3>1. pods[i] \in PodType /\ pods[i].since <= now
      BY <1>2, <2>3, PodTyped DEF End, Evict, SinceInv
    <3> QED
      BY <1>2, <2>3, <3>1 DEF End, Evict, PodType
  <2>4. CASE RemovePod(i)
    BY <1>2, <2>4 DEF RemovePod, Exists
  <2> QED
    BY <2>1, <2>2, <2>3, <2>4
<1> QED
    BY <1>1, <1>3, <1>4 DEF SinceInv

\* Events are counted up to their bound.
LEMMA EventCounted ==
    ASSUME Event, events \in 0 .. MaxEvents
    PROVE  events' \in 0 .. MaxEvents
  BY TimesAssumption DEF Event

\* The controller's steps.
LEMMA ControllerState ==
    ASSUME TypeInv, Controller
    PROVE  StateInv'
<1> USE DEF TypeInv
<1>1. now \in Nat /\ timer \in Nat \cup {None}
    BY DEF StateInv
<1>2. ASSUME NEW i \in Pods, worker.pc = "evict", Oldest(worker, i)
      PROVE  worker \in WorkerType /\ i \in DOMAIN worker.since /\ worker.since[i] <= now /\ worker.requeue \in Nat
  <2>1. worker # Idle
    BY <1>2 DEF Idle
  <2> QED
    BY <1>2, <2>1 DEF WorkerInv, WorkerType, Oldest
<1>3. CASE Classify
    BY <1>3 DEF StateInv, Classify, cluster, caches
<1>4. CASE SetCondition
  <2>1. worker \in WorkerType
    BY <1>4 DEF SetCondition, WorkerInv, Idle
  <2>2. worker.desired \in Conditions
    BY <2>1 DEF WorkerType
  <2>3. fb' \in Conditions /\ queued' \in BOOLEAN
    BY <1>4, <2>2 DEF SetCondition, StateInv
  <2>4. timer' \in Nat \cup {None}
    <3>1. BeginReversion => timer' \in Nat \cup {None}
      BY <1>1, DoneTyped DEF BeginReversion
    <3> QED
      BY <1>1, <1>4, <3>1 DEF SetCondition
  <2> QED
    BY <1>4, <2>3, <2>4 DEF StateInv, SetCondition, caches
<1>5. CASE EndReversion
  <2>1. worker \in WorkerType
    BY <1>5 DEF EndReversion, WorkerInv, Idle
  <2>2. timer' \in Nat \cup {None}
    BY <1>1, <1>5, <2>1, DoneTyped DEF EndReversion, WorkerType
  <2> QED
    BY <1>5, <2>2 DEF StateInv, EndReversion, cluster, caches
<1>6. CASE Requeue
    BY <1>6 DEF StateInv, Requeue, cluster, caches
<1>7. ASSUME NEW i \in Pods, Skip(i) \/ EvictNotFound(i)
      PROVE  StateInv'
    BY <1>7 DEF StateInv, Skip, EvictNotFound, cluster, caches
<1>8. ASSUME NEW i \in Pods, Evict(i)
      PROVE  StateInv'
    BY <1>8, PodsState DEF StateInv, Evict, caches
<1>9. ASSUME NEW i \in Pods, EvictRefused(i)
      PROVE  StateInv'
  <2>1. worker.requeue \in Nat
    BY <1>2, <1>9 DEF EvictRefused, Evicting
  <2>2. MinPositive(worker.requeue, NextWindow(now)) \in Nat
    BY <2>1, MinPositiveTyped, NextWindowTyped DEF StateInv
  <2>3. timer' \in Nat \cup {None}
    BY <1>1, <1>9, <2>2, DoneTyped DEF EvictRefused
  <2> QED
    BY <1>9, <2>3 DEF StateInv, EvictRefused, cluster, caches
<1>10. ASSUME NEW i \in Pods, EvictFailed(i)
       PROVE  StateInv'
    BY <1>10, EventCounted DEF StateInv, EvictFailed, cluster, caches
<1> QED
    BY <1>3, <1>4, <1>5, <1>6, <1>7, <1>8, <1>9, <1>10 DEF Controller

\* The watches' steps.
LEMMA DeliverState ==
    ASSUME StateInv, Deliver
    PROVE  StateInv'
<1>1. ASSUME NEW i \in Pods, DeliverPod(i)
      PROVE  StateInv'
  <2>1. [cpods EXCEPT ![i] = pods[i]] \in [Pods -> PodStates]
    BY DEF StateInv
  <2> QED
    BY <1>1, <2>1 DEF StateInv, DeliverPod, cluster
<1>2. ASSUME NEW n \in SpotNodes, DeliverNode(n)
      PROVE  StateInv'
  <2>1. [cnode EXCEPT ![n] = node[n]] \in [SpotNodes -> NodeStates]
    BY DEF StateInv
  <2> QED
    BY <1>2, <2>1 DEF StateInv, DeliverNode, cluster
<1>3. CASE DeliverStatus
    BY <1>3 DEF StateInv, DeliverStatus, cluster
<1>4. CASE DeliverPlan
    BY <1>4 DEF StateInv, DeliverPlan, cluster
<1>5. CASE DeliverCondition
    BY <1>5 DEF StateInv, DeliverCondition, cluster
<1> QED
    BY <1>1, <1>2, <1>3, <1>4, <1>5 DEF Deliver

\* Everything else.
LEMMA EnvironmentState ==
    ASSUME StateInv, Environment
    PROVE  StateInv'
<1>1. ASSUME NEW i \in Pods, Admit(i) \/ Bind(i) \/ End(i) \/ RemovePod(i)
      PROVE  StateInv'
  <2>1. pods' \in [Pods -> PodStates]
    BY <1>1, PodsState
  <2>2. events' \in 0 .. MaxEvents
    BY <1>1, EventCounted DEF StateInv, Admit, Bind, End, RemovePod
  <2>3. undisturbed' \in BOOLEAN /\ raced' \subseteq Pods
    BY <1>1 DEF StateInv, Admit, Bind, End, RemovePod
  <2> QED
    BY <1>1, <2>1, <2>2, <2>3 DEF StateInv, Admit, Bind, End, RemovePod, caches
<1>2. ASSUME NEW n \in SpotNodes, NEW s \in NodeStates, ChangeNode(n, s)
      PROVE  StateInv'
  <2>1. [node EXCEPT ![n] = s] \in [SpotNodes -> NodeStates]
    BY DEF StateInv
  <2> QED
    BY <1>2, <2>1, EventCounted DEF StateInv, ChangeNode, caches
<1>3. ASSUME NEW s \in Statuses, ChangeStatus(s)
      PROVE  StateInv'
    BY <1>3, EventCounted DEF StateInv, ChangeStatus, caches
<1>4. ASSUME NEW p \in Plans, ChangePlan(p)
      PROVE  StateInv'
    BY <1>4, EventCounted DEF StateInv, ChangePlan, caches
<1>5. CASE Tick
    BY <1>5, TimesAssumption DEF StateInv, Tick, cluster, caches
<1> QED
    BY <1>1, <1>2, <1>3, <1>4, <1>5 DEF Environment

\* The steps that change neither Pod, nor cached Pod, nor clock.
LEMMA PodsUntouched ==
    ASSUME Next
    PROVE  \/ UNCHANGED <<pods, cpods, now>>
           \/ \E i \in Pods : Admit(i) \/ Bind(i) \/ End(i) \/ RemovePod(i) \/ Evict(i) \/ DeliverPod(i)
           \/ Tick
<1>1. CASE Controller
  <2>1. CASE Classify \/ SetCondition \/ EndReversion \/ Requeue
    BY <2>1 DEF Classify, SetCondition, EndReversion, Requeue, cluster, caches
  <2>2. ASSUME NEW i \in Pods, Skip(i) \/ EvictNotFound(i) \/ EvictRefused(i) \/ EvictFailed(i)
        PROVE  UNCHANGED <<pods, cpods, now>>
    BY <2>2 DEF Skip, EvictNotFound, EvictRefused, EvictFailed, cluster, caches
  <2> QED
    BY <1>1, <2>1, <2>2 DEF Controller
<1>2. CASE Deliver
    BY <1>2 DEF Deliver, DeliverNode, DeliverStatus, DeliverPlan, DeliverCondition, cluster
<1>3. CASE Environment
    BY <1>3 DEF Environment, ChangeNode, ChangeStatus, ChangePlan, caches
<1> QED
    BY <1>1, <1>2, <1>3 DEF Next

\* No step makes a Pod younger than the clock.
LEMMA SinceStep ==
    ASSUME StateInv, SinceInv, Next
    PROVE  SinceInv'
<1>1. now \in Nat
    BY DEF StateInv
<1>2. CASE UNCHANGED <<pods, cpods, now>>
    BY <1>2 DEF SinceInv
<1>3. ASSUME NEW i \in Pods, Admit(i) \/ Bind(i) \/ End(i) \/ RemovePod(i) \/ Evict(i)
      PROVE  SinceInv'
    BY <1>3, PodsSince
<1>4. ASSUME NEW i \in Pods, DeliverPod(i)
      PROVE  SinceInv'
    BY <1>4 DEF SinceInv, DeliverPod, cluster, StateInv
<1>5. CASE Tick
  <2>1. pods' = pods /\ cpods' = cpods /\ now' = now + 1
    BY <1>5 DEF Tick, cluster, caches
  <2>2. ASSUME NEW j \in Pods
        PROVE  /\ Exists(pods[j]) => pods[j].since \in Nat
               /\ Exists(cpods[j]) => cpods[j].since \in Nat
    BY PodTyped DEF StateInv, PodType
  <2> QED
    BY <1>1, <2>1, <2>2 DEF SinceInv
<1> QED
    BY <1>2, <1>3, <1>4, <1>5, PodsUntouched

-----------------------------------------------------------------------------
(* Types: the worker *)

\* What the worker has when it is to visit Pods.
LEMMA WorkerAtWork ==
    ASSUME WorkerInv, worker.pc \in {"set", "evict"}
    PROVE  /\ worker \in WorkerType /\ worker # Idle
           /\ worker.fallback \subseteq DOMAIN worker.since
           /\ \A i \in DOMAIN worker.since : worker.since[i] <= now
           /\ worker.spot + Cardinality(worker.fallback) <= worker.active
           /\ worker.active <= Cardinality(Pods)
  BY DEF WorkerInv, Idle

\* A worker that keeps its counts and times and has a Pod less to visit.
LEMMA VisitedWorker ==
    ASSUME TypeInv, worker.pc = "evict", NEW i \in Pods, i \in worker.fallback, now' = now,
           NEW w \in WorkerType, worker' = w, w.fallback = worker.fallback \ {i}, w.since = worker.since,
           w.active = worker.active, w.spot \in {worker.spot, worker.spot + 1}
    PROVE  WorkerInv'
<1>1. /\ worker \in WorkerType
      /\ worker.fallback \subseteq DOMAIN worker.since
      /\ \A j \in DOMAIN worker.since : worker.since[j] <= now
      /\ worker.spot + Cardinality(worker.fallback) <= worker.active
      /\ worker.active <= Cardinality(Pods)
    BY WorkerAtWork DEF TypeInv
<1>2. worker.fallback \in SUBSET Pods /\ worker.spot \in Nat /\ worker.active \in Nat
    BY <1>1 DEF WorkerType
<1>3. IsFiniteSet(worker.fallback) /\ Cardinality(worker.fallback) \in Nat
    BY <1>2, PodsCounted
<1>4. Cardinality(worker.fallback \ {i}) = Cardinality(worker.fallback) - 1
    BY <1>3, FS_RemoveElement
<1>5. w.spot + Cardinality(w.fallback) <= w.active
    BY <1>1, <1>2, <1>3, <1>4
<1> QED
    BY <1>1, <1>5 DEF WorkerInv

\* The worker's own steps.
LEMMA WorkerStep ==
    ASSUME TypeInv, Controller
    PROVE  WorkerInv'
<1> USE DEF TypeInv
<1>1. now' = now
    BY DEF Controller, Classify, SetCondition, EndReversion, Requeue, Skip, Evict, EvictNotFound, EvictRefused, EvictFailed
<1>2. CASE Classify
  <2> DEFINE F == InFallback(cpods, cnode)
             D == DesiredFallbackCondition(cplan, cpods, cnode, cfb)
             S == EffectiveSpot(cpods, cnode)
             A == Cardinality(Active(cpods))
             V == IF TracksFallback(cplan) THEN F ELSE {}
             T == [i \in F |-> PodFallbackStartTime(cpods[i])]
  <2>1. F \in SUBSET Pods /\ S \in Nat /\ A \in Nat /\ S + Cardinality(F) <= A /\ S <= A /\ A <= Cardinality(Pods)
    BY ClassifyCounts
  <2>2. D \in Conditions
    BY DesiredTyped
  <2>3. \A i \in F : Exists(cpods[i])
    BY DEF InFallback, Active
  <2>4. \A i \in F : PodFallbackStartTime(cpods[i]) \in Nat /\ PodFallbackStartTime(cpods[i]) <= now
    BY <2>1, <2>3, PodTyped DEF PodFallbackStartTime, StateInv, SinceInv, PodType
  <2>5. worker' = [pc |-> "set", plan |-> cplan, desired |-> D, fallback |-> V, since |-> T, spot |-> S,
                   active |-> A, max |-> None, requeue |-> 0]
    BY <1>2 DEF Classify
  <2> HIDE DEF D, S, A
  <2>6. V \in SUBSET Pods /\ V \subseteq F /\ S + Cardinality(V) <= A
    BY <2>1, FS_EmptySet
  <2>7. T \in [F -> Nat]
    BY <2>4
  <2>8. T \in SinceType /\ DOMAIN T = F /\ \A i \in F : T[i] <= now
    BY <2>1, <2>4, <2>7 DEF SinceType
  <2> HIDE DEF F, V, T
  <2>9. cplan \in Plans
    BY DEF StateInv
  <2>10. worker' \in WorkerType
    BY <2>1, <2>2, <2>5, <2>6, <2>8, <2>9 DEF WorkerType
  <2> QED
    BY <1>1, <2>1, <2>5, <2>6, <2>8, <2>10 DEF WorkerInv
<1>3. CASE SetCondition
  <2>1. /\ worker \in WorkerType
        /\ worker.fallback \subseteq DOMAIN worker.since
        /\ \A i \in DOMAIN worker.since : worker.since[i] <= now
        /\ worker.spot + Cardinality(worker.fallback) <= worker.active
        /\ worker.active <= Cardinality(Pods)
    BY <1>3, WorkerAtWork DEF SetCondition
  <2>2. worker' = Idle \/ worker' = [worker EXCEPT !.pc = "evict", !.max = cplan.max]
    BY <1>3 DEF SetCondition, BeginReversion, Done
  <2>3. cplan.max \in Nat \cup {None}
    BY InputsAssumption DEF StateInv
  <2>4. [worker EXCEPT !.pc = "evict", !.max = cplan.max] \in WorkerType
    BY <2>1, <2>3 DEF WorkerType
  <2> QED
    BY <1>1, <2>1, <2>2, <2>4 DEF WorkerInv, WorkerType
<1>4. CASE EndReversion
    BY <1>4 DEF EndReversion, Done, WorkerInv
<1>5. CASE Requeue
    BY <1>5 DEF Requeue, WorkerInv
<1>6. ASSUME NEW i \in Pods, Skip(i) \/ Evict(i) \/ EvictNotFound(i) \/ EvictRefused(i) \/ EvictFailed(i)
      PROVE  WorkerInv'
  <2>1. worker.pc = "evict" /\ i \in worker.fallback
    BY <1>6 DEF Skip, Evict, EvictNotFound, EvictRefused, EvictFailed, Evicting, Oldest
  <2>2. /\ worker \in WorkerType /\ i \in DOMAIN worker.since
        /\ worker.since[i] <= now
    BY <2>1, WorkerAtWork
  <2>3. worker.requeue \in Nat /\ worker.fallback \in SUBSET Pods /\ worker.spot \in Nat /\ now \in Nat
    BY <2>2 DEF WorkerType, StateInv
  <2>4. CASE Skip(i)
    <3>1. PICK d \in Nat : d = Decision(worker, i, now).wait
      BY <2>2, <2>3, DecisionTyped
    <3>2. PICK r \in Nat : r = MinPositive(worker.requeue, d)
      BY <2>3, MinPositiveTyped
    <3>3. worker' = [worker EXCEPT !.fallback = worker.fallback \ {i}, !.requeue = r]
      BY <2>4, <3>1, <3>2 DEF Skip
    <3>4. worker' \in WorkerType
      BY <2>2, <2>3, <3>3 DEF WorkerType
    <3> QED
      BY <1>1, <2>1, <2>2, <3>3, <3>4, VisitedWorker DEF WorkerType
  <2>5. CASE Evict(i)
    <3> PICK s \in Nat : s = worker.spot + 1
      BY <2>3
    <3>1. worker' = [worker EXCEPT !.fallback = worker.fallback \ {i}, !.spot = s]
      BY <2>5 DEF Evict
    <3>2. worker' \in WorkerType
      BY <2>2, <2>3, <3>1 DEF WorkerType
    <3> QED
      BY <1>1, <2>1, <2>2, <3>1, <3>2, VisitedWorker DEF WorkerType
  <2>6. CASE EvictNotFound(i)
    <3>1. worker' = [worker EXCEPT !.fallback = worker.fallback \ {i}]
      BY <2>6 DEF EvictNotFound
    <3>2. worker' \in WorkerType
      BY <2>2, <2>3, <3>1 DEF WorkerType
    <3> QED
      BY <1>1, <2>1, <2>2, <3>1, <3>2, VisitedWorker DEF WorkerType
  <2>7. CASE EvictRefused(i)
    <3>1. CASE worker' = Idle
      BY <3>1 DEF WorkerInv
    <3>2. CASE worker' # Idle
      <4>1. PICK d \in {RetryDelay, TooNewDelay} :
                worker' = [worker EXCEPT !.fallback = worker.fallback \ {i}, !.requeue = MinPositive(worker.requeue, d)]
        BY <2>7, <3>2 DEF EvictRefused, Done
      <4>2. PICK r \in Nat : r = MinPositive(worker.requeue, d)
        BY <2>3, MinPositiveTyped, TimesAssumption
      <4>3. worker' = [worker EXCEPT !.fallback = worker.fallback \ {i}, !.requeue = r]
        BY <4>1, <4>2
      <4>4. worker' \in WorkerType
        BY <2>2, <2>3, <4>3 DEF WorkerType
      <4> QED
        BY <1>1, <2>1, <2>2, <4>3, <4>4, VisitedWorker DEF WorkerType
    <3> QED
      BY <3>1, <3>2
  <2>8. CASE EvictFailed(i)
    BY <2>8 DEF EvictFailed, WorkerInv
  <2> QED
    BY <1>6, <2>4, <2>5, <2>6, <2>7, <2>8
<1> QED
    BY <1>2, <1>3, <1>4, <1>5, <1>6 DEF Controller

\* Only the controller's steps change the worker, and the clock waits for it.
LEMMA WorkerUntouched ==
    ASSUME Deliver \/ Environment
    PROVE  worker' = worker /\ (now' = now \/ worker = Idle)
<1>1. CASE Deliver
    BY <1>1 DEF Deliver, DeliverPod, DeliverNode, DeliverStatus, DeliverPlan, DeliverCondition
<1>2. CASE Environment
    BY <1>2 DEF Environment, Admit, Bind, End, RemovePod, ChangeNode, ChangeStatus, ChangePlan, Tick, Quiet
<1> QED
    BY <1>1, <1>2

\* TypeInv is inductive.
LEMMA TypeInit ==
    ASSUME Init
    PROVE  TypeInv
<1>1. StateInv
  <2>1. PICK start \in Starts : node = start.node /\ status = start.status
    BY DEF Init
  <2>2. fb \in Conditions
    BY DesiredTyped DEF Init
  <2>3. pods \in [Pods -> PodStates] /\ node \in [SpotNodes -> NodeStates] /\ status \in Statuses
    BY <2>1, InputsAssumption DEF Init, PodStates
  <2>4. now \in 0 .. MaxTime /\ events \in 0 .. MaxEvents
    BY TimesAssumption DEF Init
  <2> QED
    BY <2>2, <2>3, <2>4 DEF Init, StateInv
<1>2. SinceInv
    BY DEF Init, SinceInv, Exists
<1>3. WorkerInv
    BY DEF Init, WorkerInv
<1> QED
    BY <1>1, <1>2, <1>3 DEF TypeInv

\* Every step keeps TypeInv.
LEMMA TypeStep ==
    ASSUME TypeInv, [Next]_vars
    PROVE  TypeInv'
<1>1. CASE UNCHANGED vars
    BY <1>1 DEF TypeInv, StateInv, SinceInv, WorkerInv, vars, cluster, caches
<1>2. CASE Next
  <2>1. StateInv'
    BY <1>2, ControllerState, DeliverState, EnvironmentState DEF Next, TypeInv
  <2>2. SinceInv'
    BY <1>2, SinceStep DEF TypeInv
  <2>3. WorkerInv'
    <3>1. CASE Controller
      BY <3>1, WorkerStep
    <3>2. CASE Deliver \/ Environment
      BY <3>2, WorkerUntouched DEF TypeInv, WorkerInv
    <3> QED
      BY <1>2, <3>1, <3>2 DEF Next
  <2> QED
    BY <2>1, <2>2, <2>3 DEF TypeInv
<1> QED
    BY <1>1, <1>2

\* Every state is type-correct and what the worker counts stays within the number of Pods, for any plans,
\* Pods, nodes, windows and statuses.
THEOREM SpotTypes == Spec => []TypeOK
<1>1. ASSUME TypeInv
      PROVE  TypeOK
  <2>1. ASSUME NEW i \in Pods, NEW pod \in {pods[i], cpods[i]}, Exists(pod)
        PROVE  pod \in PodType /\ pod.since <= now
    BY <1>1, <2>1, PodTyped DEF TypeInv, StateInv, SinceInv
  <2>2. ASSUME worker # Idle
        PROVE  /\ worker.pc \in {"set", "evict"} /\ worker.plan \in Plans
               /\ worker.desired \in {"Absent", "True", "False"}
               /\ worker.fallback \subseteq Pods /\ worker.fallback \subseteq DOMAIN worker.since
               /\ worker.active \in 0 .. Cardinality(Pods) /\ worker.spot \in 0 .. worker.active
               /\ worker.max \in Nat \cup {None} /\ worker.requeue \in Nat
    <3>1. worker \in WorkerType /\ worker.spot + Cardinality(worker.fallback) <= worker.active
      BY <1>1, <2>2 DEF TypeInv, WorkerInv
    <3>2. /\ worker.pc \in {"set", "evict"} /\ worker.plan \in Plans
          /\ worker.desired \in {"Absent", "True", "False"}
          /\ worker.fallback \in SUBSET Pods
          /\ worker.max \in Nat \cup {None} /\ worker.requeue \in Nat
          /\ worker.spot \in Nat /\ worker.active \in Nat
      BY <3>1 DEF WorkerType, Conditions
    <3>3. Cardinality(worker.fallback) \in Nat /\ Cardinality(Pods) \in Nat
      BY <3>2, PodsCounted
    <3>4. worker.fallback \subseteq DOMAIN worker.since /\ worker.active <= Cardinality(Pods)
      BY <1>1, <2>2 DEF TypeInv, WorkerInv
    <3> QED
      BY <3>1, <3>2, <3>3, <3>4
  <2> QED
    BY <1>1, <2>1, <2>2 DEF TypeInv, StateInv, TypeOK, Conditions
<1>2. Spec => []TypeInv
    BY TypeInit, TypeStep, PTL DEF Spec
<1> QED
    BY <1>1, <1>2, PTL

-----------------------------------------------------------------------------
(* The cache follows the cluster *)

\* What a step of its own does to a Pod, and that it leaves the others alone.
LEMMA PodChange ==
    ASSUME StateInv, NEW i \in Pods, Admit(i) \/ Bind(i) \/ End(i) \/ RemovePod(i) \/ Evict(i)
    PROVE  /\ \A j \in Pods \ {i} : pods'[j] = pods[j]
           /\ Admit(i) => /\ pods[i] = NoPod /\ Exists(pods'[i])
                          /\ pods'[i].node = None /\ pods'[i].active
                          /\ pods'[i].place = Placement(cplan, CountWorkloadClassPods(cpods, cnode), cfb)
           /\ Bind(i)  => /\ Exists(pods[i]) /\ pods[i].node = None /\ Exists(pods'[i])
                          /\ pods'[i].place = pods[i].place /\ pods'[i].active = pods[i].active /\ pods'[i].since = now
                          /\ \/ pods'[i].node = "ondemand"
                             \/ pods'[i].node \in SpotNodes /\ node[pods'[i].node] = "ready" /\ Targeted(pods[i])
           /\ End(i) \/ Evict(i) => /\ Exists(pods[i]) /\ Exists(pods'[i])
                                    /\ pods'[i].place = pods[i].place /\ pods'[i].node = pods[i].node
                                    /\ pods'[i].since = pods[i].since /\ pods'[i].active = FALSE
           /\ RemovePod(i) => pods'[i] = Gone /\ Exists(pods[i])
<1>1. pods \in [Pods -> PodStates] /\ now \in Nat /\ pods' \in [Pods -> PodStates]
    BY PodsState DEF StateInv
<1>2. \A j \in Pods \ {i} : pods'[j] = pods[j]
    BY <1>1 DEF Admit, Bind, End, RemovePod, Evict
<1>3. ASSUME Admit(i)
      PROVE  /\ pods[i] = NoPod /\ Exists(pods'[i]) /\ pods'[i].node = None /\ pods'[i].active
             /\ pods'[i].place = Placement(cplan, CountWorkloadClassPods(cpods, cnode), cfb)
  <2> DEFINE place == Placement(cplan, CountWorkloadClassPods(cpods, cnode), cfb)
  <2>1. pods[i] = NoPod /\ pods' = [pods EXCEPT ![i] = [place |-> place, node |-> None, since |-> now, active |-> TRUE]]
    BY <1>3 DEF Admit
  <2>2. place \in {"strict", "flexible", "ondemand"}
    BY PlacementTyped
  <2> HIDE DEF place
  <2>3. pods'[i] = [place |-> place, node |-> None, since |-> now, active |-> TRUE]
    BY <1>1, <2>1
  <2>4. pods'[i] \in PodType
    BY <1>1, <2>2, <2>3 DEF PodType
  <2>5. Exists(pods'[i])
    BY <2>4, PodsAssumption DEF Exists
  <2> QED
    BY <2>1, <2>3, <2>5 DEF place
<1>4. ASSUME Bind(i)
      PROVE  /\ Exists(pods[i]) /\ pods[i].node = None /\ Exists(pods'[i])
             /\ pods'[i].place = pods[i].place /\ pods'[i].active = pods[i].active /\ pods'[i].since = now
             /\ \/ pods'[i].node = "ondemand"
                \/ pods'[i].node \in SpotNodes /\ node[pods'[i].node] = "ready" /\ Targeted(pods[i])
  <2>1. Exists(pods[i]) /\ pods[i].node = None
    BY <1>4 DEF Bind
  <2>2. pods[i] \in PodType
    BY <1>1, <2>1, PodTyped
  <2>3. PICK n \in {m \in SpotNodes : node[m] = "ready" /\ Targeted(pods[i])} \cup {"ondemand"} :
            pods' = [pods EXCEPT ![i].node = n, ![i].since = now]
    BY <1>4 DEF Bind
  <2>4. pods'[i] = [pods[i] EXCEPT !.node = n, !.since = now]
    BY <1>1, <2>3
  <2>5. /\ pods'[i] \in PodType /\ pods'[i].node = n /\ pods'[i].place = pods[i].place
        /\ pods'[i].active = pods[i].active /\ pods'[i].since = now
    BY <1>1, <2>2, <2>4 DEF PodType
  <2>6. Exists(pods'[i])
    BY <2>5, PodsAssumption DEF Exists
  <2> QED
    BY <2>1, <2>3, <2>5, <2>6
<1>5. ASSUME End(i) \/ Evict(i)
      PROVE  /\ Exists(pods[i]) /\ Exists(pods'[i])
             /\ pods'[i].place = pods[i].place /\ pods'[i].node = pods[i].node
             /\ pods'[i].since = pods[i].since /\ pods'[i].active = FALSE
  <2>1. Exists(pods[i]) /\ pods' = [pods EXCEPT ![i].active = FALSE]
    BY <1>5 DEF End, Evict
  <2>2. pods[i] \in PodType
    BY <1>1, <2>1, PodTyped
  <2>3. pods'[i] = [pods[i] EXCEPT !.active = FALSE]
    BY <1>1, <2>1
  <2>4. /\ pods'[i] \in PodType /\ pods'[i].node = pods[i].node /\ pods'[i].place = pods[i].place
        /\ pods'[i].active = FALSE /\ pods'[i].since = pods[i].since
    BY <2>2, <2>3 DEF PodType
  <2>5. Exists(pods'[i])
    BY <2>4, PodsAssumption DEF Exists
  <2> QED
    BY <2>1, <2>4, <2>5
<1>6. RemovePod(i) => pods'[i] = Gone /\ Exists(pods[i])
    BY <1>1 DEF RemovePod
<1> QED
    BY <1>2, <1>3, <1>4, <1>5, <1>6

\* The Pods' own steps keep PodsInv.
LEMMA PodsInvStep ==
    ASSUME TypeInv, PodsInv, Next
    PROVE  PodsInv'
<1>1. StateInv
    BY DEF TypeInv
<1>2. CASE UNCHANGED <<pods, cpods, now>> \/ Tick
    BY <1>2 DEF PodsInv, Tick, cluster, caches
<1>3. ASSUME NEW i \in Pods, Admit(i) \/ Bind(i) \/ End(i) \/ RemovePod(i) \/ Evict(i)
      PROVE  PodsInv'
  <2>1. cpods' = cpods
    BY <1>3 DEF Admit, Bind, End, RemovePod, Evict, caches
  <2>2. \A j \in Pods \ {i} : pods'[j] = pods[j]
    BY <1>1, <1>3, PodChange
  <2>3. ASSUME cpods[i] = Gone
        PROVE  pods'[i] = Gone
    <3>1. pods[i] = Gone
      BY <2>3 DEF PodsInv
    <3> QED
      BY <1>1, <1>3, <3>1, PodChange, PodsAssumption DEF Exists
  <2>4. ASSUME Exists(cpods[i])
        PROVE  \/ pods'[i] = Gone
               \/ /\ Exists(pods'[i]) /\ pods'[i].place = cpods[i].place
                  /\ cpods[i].node # None => pods'[i].node = cpods[i].node /\ pods'[i].since = cpods[i].since
    <3>1. \/ pods[i] = Gone
          \/ /\ Exists(pods[i]) /\ pods[i].place = cpods[i].place
             /\ cpods[i].node # None => pods[i].node = cpods[i].node /\ pods[i].since = cpods[i].since
      BY <2>4 DEF PodsInv
    <3>2. ~Admit(i)
      BY <1>1, <1>3, <3>1, PodChange, PodsAssumption DEF Exists
    <3> QED
      BY <1>1, <1>3, <3>1, <3>2, PodChange DEF Exists
  <2> QED
    BY <2>1, <2>2, <2>3, <2>4 DEF PodsInv
<1>4. ASSUME NEW i \in Pods, DeliverPod(i)
      PROVE  PodsInv'
  <2>1. pods' = pods /\ cpods'[i] = pods[i] /\ \A j \in Pods \ {i} : cpods'[j] = cpods[j]
    BY <1>1, <1>4 DEF DeliverPod, cluster, StateInv
  <2> QED
    BY <2>1 DEF PodsInv
<1> QED
    BY <1>2, <1>3, <1>4, PodsUntouched

\* A step that changes a node or the cached one changes no Pod.
LEMMA NodesUntouched ==
    ASSUME Next
    PROVE  \/ UNCHANGED <<node, cnode>>
           \/ /\ UNCHANGED <<pods, cpods, now>>
              /\ \/ \E n \in SpotNodes, s \in NodeStates : ChangeNode(n, s)
                 \/ \E n \in SpotNodes : DeliverNode(n)
<1>1. CASE Controller
  <2>1. CASE Classify \/ SetCondition \/ EndReversion \/ Requeue
    BY <2>1 DEF Classify, SetCondition, EndReversion, Requeue, cluster, caches
  <2>2. ASSUME NEW i \in Pods, Skip(i) \/ Evict(i) \/ EvictNotFound(i) \/ EvictRefused(i) \/ EvictFailed(i)
        PROVE  UNCHANGED <<node, cnode>>
    BY <2>2 DEF Skip, Evict, EvictNotFound, EvictRefused, EvictFailed, cluster, caches
  <2> QED
    BY <1>1, <2>1, <2>2 DEF Controller
<1>2. CASE Deliver
    BY <1>2 DEF Deliver, DeliverPod, DeliverNode, DeliverStatus, DeliverPlan, DeliverCondition, cluster
<1>3. CASE Environment
    BY <1>3 DEF Environment, Admit, Bind, End, RemovePod, ChangeNode, ChangeStatus, ChangePlan, Tick, cluster, caches
<1> QED
    BY <1>1, <1>2, <1>3 DEF Next

\* A node is cached before it changes again, and one that comes back finds none of its former Pods.
LEMMA NodesInvStep ==
    ASSUME TypeInv, PodsInv, NodesInv, Next
    PROVE  NodesInv'
<1>1. StateInv
    BY DEF TypeInv
<1>2. CASE UNCHANGED <<node, cnode>>
  <2>1. CASE UNCHANGED <<pods, cpods, now>>
    BY <1>2, <2>1 DEF NodesInv
  <2>2. CASE Tick
    BY <1>2, <2>2 DEF NodesInv, Tick, Quiet
  <2>3. ASSUME NEW i \in Pods, Admit(i) \/ Bind(i) \/ End(i) \/ RemovePod(i) \/ Evict(i)
        PROVE  NodesInv'
    <3>1. now' = now /\ cpods' = cpods
      BY <2>3 DEF Admit, Bind, End, RemovePod, Evict, caches
    <3>2. \A j \in Pods \ {i} : pods'[j] = pods[j]
      BY <1>1, <2>3, PodChange
    <3>3. ASSUME NEW n \in SpotNodes, cnode[n] = "absent", node[n] # "absent", Exists(pods'[i]), pods'[i].node = n
          PROVE  node[n] = "ready" /\ pods'[i].since = now
      <4>1. ~Admit(i) /\ ~RemovePod(i)
        BY <1>1, <2>3, <3>3, PodChange, PodsAssumption DEF Exists
      <4>2. CASE Bind(i)
        BY <1>1, <3>3, <4>2, PodChange, PodsAssumption
      <4>3. CASE End(i) \/ Evict(i)
        BY <1>1, <3>3, <4>3, PodChange DEF NodesInv
      <4> QED
        BY <2>3, <4>1, <4>2, <4>3
    <3> QED
      BY <1>2, <3>1, <3>2, <3>3 DEF NodesInv
  <2>4. ASSUME NEW i \in Pods, DeliverPod(i)
        PROVE  NodesInv'
    <3>1. /\ pods' = pods /\ cpods'[i] = pods[i] /\ \A j \in Pods \ {i} : cpods'[j] = cpods[j]
          /\ now' = now
      BY <1>1, <2>4 DEF DeliverPod, cluster, StateInv
    <3> QED
      BY <1>2, <3>1 DEF NodesInv
  <2> QED
    BY <2>1, <2>2, <2>3, <2>4, PodsUntouched
<1>3. ASSUME UNCHANGED <<pods, cpods, now>>, NEW m \in SpotNodes, NEW s \in NodeStates, ChangeNode(m, s)
      PROVE  NodesInv'
  <2>1. cnode' = cnode /\ node'[m] = s /\ \A n \in SpotNodes \ {m} : node'[n] = node[n]
    BY <1>1, <1>3 DEF ChangeNode, caches, StateInv
  <2>2. cnode[m] = node[m]
    BY <1>3 DEF ChangeNode
  <2>3. node[m] = "absent" => \A i \in Pods : \A pod \in {pods[i], cpods[i]} : Exists(pod) => pod.node # m
    BY <1>3 DEF ChangeNode
  <2> QED
    BY <1>3, <2>1, <2>2, <2>3 DEF NodesInv
<1>4. ASSUME UNCHANGED <<pods, cpods, now>>, NEW m \in SpotNodes, DeliverNode(m)
      PROVE  NodesInv'
  <2>1. node' = node /\ cnode'[m] = node[m] /\ \A n \in SpotNodes \ {m} : cnode'[n] = cnode[n]
    BY <1>1, <1>4 DEF DeliverNode, cluster, StateInv
  <2> QED
    BY <1>4, <2>1 DEF NodesInv
<1> QED
    BY <1>2, <1>3, <1>4, NodesUntouched

\* CacheInv is inductive.
LEMMA CacheInit ==
    ASSUME Init
    PROVE  CacheInv
<1>1. PodsInv
    BY PodsAssumption DEF Init, PodsInv, Exists
<1>2. NodesInv
    BY DEF Init, NodesInv
<1> QED
    BY <1>1, <1>2, TypeInit DEF CacheInv

\* Every step keeps CacheInv.
LEMMA CacheStep ==
    ASSUME CacheInv, [Next]_vars
    PROVE  CacheInv'
<1>1. CASE UNCHANGED vars
    BY <1>1, TypeStep DEF CacheInv, PodsInv, NodesInv, vars, cluster, caches
<1>2. CASE Next
    BY <1>2, TypeStep, PodsInvStep, NodesInvStep DEF CacheInv
<1> QED
    BY <1>1, <1>2

-----------------------------------------------------------------------------
(* Only Pods in fallback are evicted *)

\* The Pods that classifyWorkloadPods finds in fallback are so in the cluster, unless they are gone or were bound just now.
LEMMA ClassifiedVisit ==
    ASSUME CacheInv, NEW i \in InFallback(cpods, cnode)
    PROVE  /\ i \in Pods /\ pods[i] # NoPod
           /\ Exists(pods[i]) =>
                  pods[i].node # None /\ (IsSpotNode(node, pods[i].node) => PodFallbackStartTime(cpods[i]) = now)
<1>1. i \in Pods /\ Exists(cpods[i]) /\ cpods[i].node # None /\ ~IsSpotNode(cnode, cpods[i].node)
    BY DEF InFallback, Active
<1>2. \/ pods[i] = Gone
      \/ Exists(pods[i]) /\ pods[i].node = cpods[i].node /\ pods[i].since = cpods[i].since
    BY <1>1 DEF CacheInv, PodsInv
<1>3. pods[i] # NoPod
    BY <1>2, PodsAssumption DEF Exists
<1>4. ASSUME Exists(pods[i]), IsSpotNode(node, pods[i].node)
      PROVE  cpods[i].since = now
  <2>1. pods[i].node \in SpotNodes /\ node[pods[i].node] # "absent" /\ cnode[pods[i].node] = "absent"
    BY <1>1, <1>2, <1>4 DEF IsSpotNode, Exists
  <2>2. pods[i].since = now
    BY <1>1, <1>4, <2>1 DEF CacheInv, NodesInv
  <2> QED
    BY <1>2, <1>4, <2>2 DEF Exists
<1> QED
    BY <1>1, <1>2, <1>3, <1>4 DEF PodFallbackStartTime, Exists

\* The controller's steps keep VisitInv.
LEMMA ControllerVisit ==
    ASSUME CacheInv, VisitInv, Controller
    PROVE  VisitInv'
<1>1. StateInv /\ WorkerInv
    BY DEF CacheInv, TypeInv
<1>2. now' = now /\ node' = node
    BY DEF Controller, Classify, SetCondition, EndReversion, Requeue, Skip, Evict, EvictNotFound, EvictRefused,
           EvictFailed, cluster
<1>3. CASE Classify
  <2> DEFINE F == InFallback(cpods, cnode)
             T == [i \in F |-> PodFallbackStartTime(cpods[i])]
  <2>1. worker'.fallback \subseteq F /\ worker'.since = T /\ pods' = pods
    BY <1>3 DEF Classify, cluster
  <2>2. \A i \in F : T[i] = PodFallbackStartTime(cpods[i])
    OBVIOUS
  <2> HIDE DEF T
  <2> QED
    BY <1>2, <2>1, <2>2, ClassifiedVisit DEF VisitInv
<1>4. CASE SetCondition
  <2>1. worker' = Idle \/ worker' = [worker EXCEPT !.pc = "evict", !.max = cplan.max]
    BY <1>4 DEF SetCondition, BeginReversion, Done
  <2>2. worker \in WorkerType /\ worker # Idle
    BY <1>1, <1>4, WorkerAtWork DEF SetCondition
  <2>3. worker' = Idle \/ (worker'.fallback = worker.fallback /\ worker'.since = worker.since)
    BY <2>1, <2>2 DEF WorkerType
  <2>4. pods' = pods
    BY <1>4 DEF SetCondition
  <2> QED
    BY <1>2, <2>2, <2>3, <2>4 DEF VisitInv
<1>5. CASE EndReversion
    BY <1>5 DEF EndReversion, Done, VisitInv
<1>6. CASE Requeue
    BY <1>6 DEF Requeue, VisitInv, cluster
<1>7. ASSUME NEW i \in Pods, Skip(i) \/ Evict(i) \/ EvictNotFound(i) \/ EvictRefused(i) \/ EvictFailed(i)
      PROVE  VisitInv'
  <2>1. worker.pc = "evict"
    BY <1>7 DEF Skip, Evict, EvictNotFound, EvictRefused, EvictFailed, Evicting
  <2>2. worker \in WorkerType /\ worker # Idle
    BY <1>1, <2>1, WorkerAtWork
  <2>3. worker' = Idle \/ (worker'.fallback \subseteq worker.fallback /\ worker'.since = worker.since)
    BY <1>7, <2>2 DEF Skip, Evict, EvictNotFound, EvictRefused, EvictFailed, Done, WorkerType
  <2>4. CASE Evict(i)
    <3>1. /\ \A j \in Pods \ {i} : pods'[j] = pods[j]
          /\ Exists(pods[i]) /\ Exists(pods'[i]) /\ pods'[i].node = pods[i].node
      BY <1>1, <2>4, PodChange
    <3>2. worker.fallback \in SUBSET Pods
      BY <2>2 DEF WorkerType
    <3> QED
      BY <1>2, <2>2, <2>3, <3>1, <3>2 DEF VisitInv, Exists
  <2>5. CASE ~Evict(i)
    <3>1. pods' = pods
      BY <1>7, <2>5 DEF Skip, EvictNotFound, EvictRefused, EvictFailed, cluster
    <3> QED
      BY <1>2, <2>2, <2>3, <3>1 DEF VisitInv
  <2> QED
    BY <2>4, <2>5
<1> QED
    BY <1>3, <1>4, <1>5, <1>6, <1>7 DEF Controller

\* While the worker is on its way, no Pod it is to visit is bound, and no node comes that such a Pod runs on.
LEMMA OthersVisit ==
    ASSUME CacheInv, VisitInv, Deliver \/ Environment
    PROVE  VisitInv'
<1>1. StateInv /\ WorkerInv
    BY DEF CacheInv, TypeInv
<1>2. worker' = worker /\ (now' = now \/ worker = Idle)
    BY WorkerUntouched
<1>3. CASE worker = Idle
    BY <1>2, <1>3 DEF VisitInv
<1>4. CASE worker # Idle
  <2>1. worker.fallback \in SUBSET Pods
    BY <1>1, <1>4 DEF WorkerInv, WorkerType
  <2>2. CASE UNCHANGED <<pods, node>>
    BY <1>2, <1>4, <2>2 DEF VisitInv
  <2>3. ASSUME NEW i \in Pods, Admit(i) \/ Bind(i) \/ End(i) \/ RemovePod(i)
        PROVE  VisitInv'
    <3>1. node' = node /\ now' = now
      BY <2>3 DEF Admit, Bind, End, RemovePod
    <3>2. \A j \in Pods \ {i} : pods'[j] = pods[j]
      BY <1>1, <2>3, PodChange
    <3>3. ASSUME i \in worker.fallback
          PROVE  /\ pods'[i] # NoPod
                 /\ Exists(pods'[i]) => pods'[i].node # None /\ (IsSpotNode(node, pods'[i].node) => worker.since[i] = now)
      <4>1. /\ pods[i] # NoPod
            /\ Exists(pods[i]) => pods[i].node # None /\ (IsSpotNode(node, pods[i].node) => worker.since[i] = now)
        BY <1>4, <3>3 DEF VisitInv
      <4>2. ~Admit(i) /\ ~Bind(i)
        BY <1>1, <4>1, PodChange
      <4>3. CASE End(i)
        BY <1>1, <4>1, <4>3, PodChange DEF Exists
      <4>4. CASE RemovePod(i)
        BY <1>1, <4>4, PodChange, PodsAssumption DEF Exists
      <4> QED
        BY <2>3, <4>2, <4>3, <4>4
    <3> QED
      BY <1>2, <2>1, <3>1, <3>2, <3>3 DEF VisitInv
  <2>4. ASSUME NEW m \in SpotNodes, NEW s \in NodeStates, ChangeNode(m, s)
        PROVE  VisitInv'
    <3>1. pods' = pods /\ now' = now /\ node'[m] = s /\ \A n \in SpotNodes \ {m} : node'[n] = node[n]
      BY <1>1, <2>4 DEF ChangeNode, StateInv
    <3>2. node[m] = "absent" => \A i \in Pods : Exists(pods[i]) => pods[i].node # m
      BY <2>4 DEF ChangeNode
    <3>3. \A i \in worker.fallback : Exists(pods[i]) /\ IsSpotNode(node', pods[i].node) => IsSpotNode(node, pods[i].node)
      BY <2>1, <3>1, <3>2 DEF IsSpotNode
    <3> QED
      BY <1>2, <1>4, <3>1, <3>3 DEF VisitInv
  <2>5. \/ UNCHANGED <<pods, node>>
        \/ \E i \in Pods : Admit(i) \/ Bind(i) \/ End(i) \/ RemovePod(i)
        \/ \E n \in SpotNodes, s \in NodeStates : ChangeNode(n, s)
    <3>1. CASE Deliver
      BY <3>1 DEF Deliver, DeliverPod, DeliverNode, DeliverStatus, DeliverPlan, DeliverCondition, cluster
    <3>2. CASE Environment
      BY <3>2 DEF Environment, ChangeStatus, ChangePlan, Tick, cluster
    <3> QED
      BY <3>1, <3>2
  <2> QED
    BY <2>2, <2>3, <2>4, <2>5
<1> QED
    BY <1>3, <1>4

\* The worker takes its limit from the plan.
LEMMA LimitStep ==
    ASSUME TypeInv, LimitInv, Next
    PROVE  LimitInv'
<1>1. CASE Deliver \/ Environment
    BY <1>1, WorkerUntouched DEF LimitInv
<1>2. CASE Controller
  <2>1. CASE Classify
    BY <2>1 DEF Classify, LimitInv
  <2>2. CASE SetCondition
    <3>1. worker' = Idle \/ worker' = [worker EXCEPT !.pc = "evict", !.max = cplan.max]
      BY <2>2 DEF SetCondition, BeginReversion, Done
    <3>2. worker \in WorkerType
      BY <2>2, WorkerAtWork DEF SetCondition, TypeInv
    <3>3. worker' = Idle \/ worker'.max = cplan.max
      BY <3>1, <3>2 DEF WorkerType
    <3> QED
      BY <3>3 DEF LimitInv, TypeInv, StateInv
  <2>3. CASE EndReversion
    BY <2>3 DEF EndReversion, Done, LimitInv
  <2>4. CASE Requeue
    BY <2>4 DEF Requeue, LimitInv
  <2>5. ASSUME NEW i \in Pods, Skip(i) \/ Evict(i) \/ EvictNotFound(i) \/ EvictRefused(i) \/ EvictFailed(i)
        PROVE  LimitInv'
    <3>1. worker \in WorkerType /\ worker # Idle
      BY <2>5, WorkerAtWork DEF Skip, Evict, EvictNotFound, EvictRefused, EvictFailed, Evicting, TypeInv
    <3>2. worker' = Idle \/ worker'.max = worker.max
      BY <2>5, <3>1 DEF Skip, Evict, EvictNotFound, EvictRefused, EvictFailed, Done, WorkerType
    <3> QED
      BY <3>1, <3>2 DEF LimitInv
  <2> QED
    BY <1>2, <2>1, <2>2, <2>3, <2>4, <2>5 DEF Controller
<1> QED
    BY <1>1, <1>2 DEF Next

\* EvictInv is inductive.
LEMMA EvictStep ==
    ASSUME EvictInv, [Next]_vars
    PROVE  EvictInv'
<1>1. CASE UNCHANGED vars
    BY <1>1, CacheStep DEF EvictInv, VisitInv, LimitInv, vars, cluster
<1>2. CASE Next
    BY <1>2, CacheStep, ControllerVisit, OthersVisit, LimitStep DEF EvictInv, CacheInv, Next
<1> QED
    BY <1>1, <1>2

\* Fallback is given some time: neither the minimum nor the maximum of a plan is zero.
TimeOnFallback == \A p \in Plans : p.min > 0 /\ (p.max # None => p.max > 0)

\* The controller evicts no Pod from a Spot node that is there, although it may have seen the Pod before the
\* node, for all plans that leave a Pod in fallback some time.
THEOREM SpotEvictsOnlyFallback == TimeOnFallback => (Spec => EvictsOnlyFallback)
<1> SUFFICES ASSUME TimeOnFallback
             PROVE  Spec => EvictsOnlyFallback
    OBVIOUS
<1> DEFINE A == \A i \in Pods : Evict(i) => ~IsSpotNode(node, pods[i].node) /\ pods[i].node # None
<1>1. ASSUME EvictInv, NEW i \in Pods, Evict(i)
      PROVE  ~IsSpotNode(node, pods[i].node) /\ pods[i].node # None
  <2>1. worker.pc = "evict" /\ i \in worker.fallback /\ Exists(pods[i]) /\ Decision(worker, i, now).evict
    BY <1>1 DEF Evict, Evicting, Oldest
  <2>2. worker \in WorkerType /\ worker # Idle /\ i \in DOMAIN worker.since
    BY <1>1, <2>1, WorkerAtWork DEF EvictInv, CacheInv, TypeInv
  <2>3. pods[i].node # None /\ (IsSpotNode(node, pods[i].node) => worker.since[i] = now)
    BY <1>1, <2>1, <2>2 DEF EvictInv, VisitInv
  <2>4. ASSUME worker.since[i] = now
        PROVE  FALSE
    <3>1. now \in Nat
      BY <1>1 DEF EvictInv, CacheInv, TypeInv, StateInv
    <3>2. now - worker.since[i] = 0
      BY <2>4, <3>1
    <3>3. worker.max # None => worker.max \in Nat /\ worker.max > 0
      <4>1. worker.max = None \/ \E p \in Plans : worker.max = p.max
        BY <1>1, <2>2 DEF EvictInv, LimitInv
      <4> QED
        BY <4>1, InputsAssumption DEF TimeOnFallback
    <3>4. worker.plan.min \in Nat /\ worker.plan.min > 0
      BY <2>2, InputsAssumption DEF WorkerType, TimeOnFallback
    <3>5. ~(worker.max # None /\ now - worker.since[i] >= worker.max) /\ now - worker.since[i] < worker.plan.min
      BY <3>2, <3>3, <3>4
    <3>6. Decision(worker, i, now).evict = FALSE
      BY <3>5 DEF Decision
    <3> QED
      BY <2>1, <3>6
  <2> QED
    BY <2>3, <2>4
<1>2. EvictInv => A
    BY <1>1
<1>3. Init => EvictInv
    BY CacheInit DEF Init, EvictInv, VisitInv, LimitInv
<1>4. EvictInv /\ [Next]_vars => EvictInv'
    BY EvictStep
<1> QED
    BY <1>2, <1>3, <1>4, PTL DEF Spec, EvictsOnlyFallback

-----------------------------------------------------------------------------
(* The condition at rest *)

\* A condition still fits when the Pods in fallback are the same and there still are Pods.
LEMMA FitsStill ==
    ASSUME NEW p, NEW ps, NEW ns, NEW ps2, NEW ns2, NEW cond, Fits(p, ps, ns, cond),
           TracksFallback(p) => InFallback(ps2, ns2) = InFallback(ps, ns) /\ (Active(ps) # {} => Active(ps2) # {})
    PROVE  Fits(p, ps2, ns2, cond)
  BY DEF Fits

\* CondInv outlives a change of the cached Pods and nodes after which every condition that fitted still fits.
LEMMA CondStill ==
    ASSUME CondInv, UNCHANGED <<fb, cfb, cplan, worker>>, queued => queued',
           \/ queued'
           \/ \A cond : Fits(cplan, cpods, cnode, cond) => Fits(cplan, cpods', cnode', cond)
           \/ TracksFallback(cplan) /\ CachedOrphan',
           TracksFallback(cplan) /\ CachedOrphan => queued' \/ CachedOrphan'
    PROVE  CondInv'
  BY DEF CondInv

\* podPlacementChangePredicate: what an update can be that passes unnoticed.
LEMMA SilentPod ==
    ASSUME CacheInv, NEW i \in Pods, DeliverPod(i), TracksFallback(cplan), ~queued'
    PROVE  /\ \A j \in Pods \ {i} : cpods'[j] = cpods[j]
           /\ Exists(cpods[i]) => /\ Exists(cpods'[i]) /\ cpods'[i].node = cpods[i].node
                                  /\ cpods'[i].active = cpods[i].active /\ cpods'[i].place = cpods[i].place
                                  /\ cpods[i].node # None => cpods'[i].since = cpods[i].since
           /\ ~Exists(cpods[i]) /\ Exists(cpods'[i]) => cpods'[i].node = None
           /\ InFallback(cpods', cnode') = InFallback(cpods, cnode)
           /\ Active(cpods) \subseteq Active(cpods')
<1>1. StateInv /\ PodsInv
    BY DEF CacheInv, TypeInv
<1>2. cnode' = cnode /\ ~PodPlacementChanged(cpods[i], pods[i])
    BY DEF DeliverPod
<1>3. cpods'[i] = pods[i] /\ \A j \in Pods \ {i} : cpods'[j] = cpods[j]
    BY <1>1 DEF DeliverPod, StateInv
<1>4. Exists(cpods[i]) =>
          \/ pods[i] = Gone
          \/ /\ pods[i].place = cpods[i].place
             /\ cpods[i].node # None => pods[i].since = cpods[i].since
    BY <1>1 DEF PodsInv
<1>5. /\ Exists(cpods[i]) => /\ Exists(pods[i]) /\ pods[i].node = cpods[i].node
                             /\ pods[i].active = cpods[i].active /\ pods[i].place = cpods[i].place
                             /\ cpods[i].node # None => pods[i].since = cpods[i].since
      /\ ~Exists(cpods[i]) /\ Exists(pods[i]) => pods[i].node = None
    BY <1>2, <1>4 DEF PodPlacementChanged, Exists
<1>6. InFallback(cpods', cnode') = InFallback(cpods, cnode)
  <2>1. ASSUME NEW j \in Pods
        PROVE  j \in InFallback(cpods', cnode') <=> j \in InFallback(cpods, cnode)
    BY <1>2, <1>3, <1>5 DEF InFallback, Active, Targeted
  <2>2. InFallback(cpods', cnode') \subseteq Pods /\ InFallback(cpods, cnode) \subseteq Pods
    BY DEF InFallback, Active
  <2> QED
    BY <2>1, <2>2
<1>7. Active(cpods) \subseteq Active(cpods')
    BY <1>3, <1>5 DEF Active
<1> QED
    BY <1>3, <1>5, <1>6, <1>7

\* It lets no update pass unnoticed that matters to the condition.
LEMMA DeliverPodCond ==
    ASSUME CacheInv, CondInv, NEW i \in Pods, DeliverPod(i)
    PROVE  CondInv'
<1>1. UNCHANGED <<fb, cfb, cplan, worker, cnode>> /\ (queued => queued')
    BY DEF DeliverPod, cluster
<1>2. ASSUME TracksFallback(cplan), ~queued'
      PROVE  /\ InFallback(cpods', cnode') = InFallback(cpods, cnode)
             /\ Active(cpods) # {} => Active(cpods') # {}
    BY <1>2, SilentPod
<1>3. queued' \/ \A cond : Fits(cplan, cpods, cnode, cond) => Fits(cplan, cpods', cnode', cond)
    BY <1>2, FitsStill
<1>4. ASSUME TracksFallback(cplan), CachedOrphan, ~queued'
      PROVE  CachedOrphan'
  <2>1. PICK j \in Pods : Exists(cpods[j]) /\ cpods[j].node \in SpotNodes /\ cnode[cpods[j].node] = "absent"
    BY <1>4 DEF CachedOrphan
  <2>2. Exists(cpods'[j]) /\ cpods'[j].node = cpods[j].node
    BY <1>4, <2>1, SilentPod
  <2> QED
    BY <1>1, <2>1, <2>2 DEF CachedOrphan
<1> QED
    BY <1>1, <1>3, <1>4, CondStill

\* spotNodeReadinessPredicate lets only changes of nodes pass unnoticed that no Pod runs on, or that leave
\* Pods behind whose removal will be noticed.
LEMMA SilentNode ==
    ASSUME CacheInv, NEW n \in SpotNodes, DeliverNode(n), TracksFallback(cplan), ~queued'
    PROVE  /\ CachedOrphan => CachedOrphan'
           /\ HasReadySpotNodes(cnode') <=> HasReadySpotNodes(cnode)
           /\ ~CachedOrphan' => /\ InFallback(cpods', cnode') = InFallback(cpods, cnode)
                                /\ EffectiveSpot(cpods', cnode') = EffectiveSpot(cpods, cnode)
<1>1. StateInv /\ NodesInv
    BY DEF CacheInv, TypeInv
<1>2. cpods' = cpods /\ "ready" \notin {cnode[n], node[n]}
    BY DEF DeliverNode
<1>3. /\ cnode'[n] = node[n] /\ \A m \in SpotNodes \ {n} : cnode'[m] = cnode[m]
      /\ cnode[n] # node[n] /\ cnode[n] \in NodeStates /\ node[n] \in NodeStates
    BY <1>1 DEF DeliverNode, StateInv
<1>4. {cnode[n], node[n]} = {"absent", "notReady"}
    BY <1>2, <1>3 DEF NodeStates
<1>5. ASSUME cnode[n] = "absent", NEW i \in Pods, Exists(cpods[i]), cpods[i].node = n
      PROVE  FALSE
    BY <1>1, <1>2, <1>4, <1>5 DEF NodesInv
<1>6. ASSUME CachedOrphan
      PROVE  CachedOrphan'
  <2>1. PICK j \in Pods : Exists(cpods[j]) /\ cpods[j].node \in SpotNodes /\ cnode[cpods[j].node] = "absent"
    BY <1>6 DEF CachedOrphan
  <2>2. cnode'[cpods[j].node] = "absent"
    BY <1>3, <1>5, <2>1
  <2> QED
    BY <1>2, <2>1, <2>2 DEF CachedOrphan
<1>7. HasReadySpotNodes(cnode') <=> HasReadySpotNodes(cnode)
    BY <1>2, <1>3 DEF HasReadySpotNodes
<1>8. ASSUME ~CachedOrphan'
      PROVE  /\ InFallback(cpods', cnode') = InFallback(cpods, cnode)
             /\ EffectiveSpot(cpods', cnode') = EffectiveSpot(cpods, cnode)
  <2>1. \A i \in Pods : Exists(cpods[i]) => cpods[i].node # n
    BY <1>2, <1>3, <1>4, <1>5, <1>8 DEF CachedOrphan
  <2>2. \A i \in Active(cpods) : IsSpotNode(cnode', cpods[i].node) <=> IsSpotNode(cnode, cpods[i].node)
    BY <1>3, <2>1 DEF IsSpotNode, Active
  <2>3. InFallback(cpods', cnode') = InFallback(cpods, cnode)
    BY <1>2, <2>2 DEF InFallback
  <2>4. {i \in Active(cpods) : IF cpods[i].node = None THEN Targeted(cpods[i]) ELSE IsSpotNode(cnode', cpods[i].node)}
      = {i \in Active(cpods) : IF cpods[i].node = None THEN Targeted(cpods[i]) ELSE IsSpotNode(cnode, cpods[i].node)}
    BY <2>2
  <2> QED
    BY <1>2, <2>3, <2>4 DEF EffectiveSpot
<1> QED
    BY <1>6, <1>7, <1>8

\* So the condition still fits, or there is such a Pod.
LEMMA DeliverNodeCond ==
    ASSUME CacheInv, CondInv, NEW n \in SpotNodes, DeliverNode(n)
    PROVE  CondInv'
<1>1. UNCHANGED <<fb, cfb, cplan, worker, cpods>> /\ (queued => queued')
    BY DEF DeliverNode, cluster
<1>2. ASSUME TracksFallback(cplan), ~queued', ~CachedOrphan'
      PROVE  InFallback(cpods', cnode') = InFallback(cpods, cnode) /\ Active(cpods') = Active(cpods)
    BY <1>1, <1>2, SilentNode
<1>3. \/ queued'
      \/ \A cond : Fits(cplan, cpods, cnode, cond) => Fits(cplan, cpods', cnode', cond)
      \/ TracksFallback(cplan) /\ CachedOrphan'
    BY <1>2, FitsStill
<1>4. ASSUME TracksFallback(cplan), CachedOrphan, ~queued'
      PROVE  CachedOrphan'
    BY <1>4, SilentNode
<1> QED
    BY <1>1, <1>3, <1>4, CondStill

\* The other watches.
LEMMA DeliverCond ==
    ASSUME CacheInv, CondInv, Deliver
    PROVE  CondInv'
<1>1. CASE DeliverStatus
    BY <1>1, CondStill DEF DeliverStatus, cluster, CachedOrphan
<1>2. CASE DeliverPlan
  <2>1. UNCHANGED <<fb, cfb, worker, cpods, cnode>> /\ (queued => queued') /\ cplan' = plan
    BY <1>2 DEF DeliverPlan, cluster
  <2>2. CASE queued'
    BY <2>2 DEF CondInv
  <2>3. CASE ~queued'
    <3>1. ~TracksFallback(plan) /\ plan.ratio = cplan.ratio /\ plan.fallback = cplan.fallback
      BY <1>2, <2>3 DEF DeliverPlan
    <3>2. ~TracksFallback(cplan)
      BY <3>1 DEF TracksFallback
    <3>3. \A cond : Fits(cplan, cpods, cnode, cond) => Fits(cplan', cpods', cnode', cond)
      BY <2>1, <3>1, <3>2 DEF Fits
    <3> QED
      BY <2>1, <2>3, <3>2, <3>3 DEF CondInv
  <2> QED
    BY <2>2, <2>3
<1>3. CASE DeliverCondition
    BY <1>3 DEF DeliverCondition, CondInv
<1> QED
    BY <1>1, <1>2, <1>3, DeliverPodCond, DeliverNodeCond DEF Deliver

\* The controller computes a condition that fits and writes it, or is queued again.
LEMMA ControllerCond ==
    ASSUME CacheInv, CondInv, Controller
    PROVE  CondInv'
<1>1. UNCHANGED <<cfb, cplan, cpods, cnode>>
  <2>1. CASE Classify \/ SetCondition \/ EndReversion \/ Requeue
    BY <2>1 DEF Classify, SetCondition, EndReversion, Requeue, caches
  <2>2. ASSUME NEW i \in Pods, Skip(i) \/ Evict(i) \/ EvictNotFound(i) \/ EvictRefused(i) \/ EvictFailed(i)
        PROVE  UNCHANGED <<cfb, cplan, cpods, cnode>>
    BY <2>2 DEF Skip, Evict, EvictNotFound, EvictRefused, EvictFailed, caches
  <2> QED
    BY <2>1, <2>2 DEF Controller
<1>2. CASE Classify
  <2>1. worker'.pc = "set" /\ worker'.desired = DesiredFallbackCondition(cplan, cpods, cnode, cfb)
    BY <1>2 DEF Classify
  <2>2. Fits(cplan, cpods, cnode, worker'.desired)
    BY <2>1, DesiredFits
  <2> QED
    BY <1>1, <2>1, <2>2 DEF CondInv
<1>3. CASE SetCondition
  <2>1. CASE cfb = worker.desired
    <3>1. fb' = fb /\ queued' = queued
      BY <1>3, <2>1 DEF SetCondition
    <3>2. CASE queued \/ cfb # fb
      BY <1>1, <3>1, <3>2 DEF CondInv
    <3>3. CASE Fits(cplan, cpods, cnode, worker.desired) \/ Fits(cplan, cpods, cnode, cfb)
      BY <1>1, <2>1, <3>3 DEF CondInv
    <3>4. CASE TracksFallback(cplan) /\ CachedOrphan
      BY <1>1, <3>4 DEF CondInv, CachedOrphan
    <3> QED
      BY <3>2, <3>3, <3>4 DEF CondInv
  <2>2. CASE cfb # worker.desired /\ cfb = fb
    BY <1>1, <1>3, <2>2 DEF SetCondition, CondInv
  <2>3. CASE cfb # worker.desired /\ cfb # fb
    BY <1>3, <2>3 DEF SetCondition, CondInv
  <2> QED
    BY <2>1, <2>2, <2>3
<1>4. CASE Requeue
    BY <1>4 DEF Requeue, CondInv
<1>5. ASSUME NEW i \in Pods, EvictFailed(i)
      PROVE  CondInv'
    BY <1>5 DEF EvictFailed, CondInv
<1>6. ASSUME worker.pc = "evict", UNCHANGED <<fb, queued>>
      PROVE  CondInv'
  <2>1. CASE TracksFallback(cplan) /\ CachedOrphan
    BY <1>1, <2>1 DEF CondInv, CachedOrphan
  <2>2. CASE ~(TracksFallback(cplan) /\ CachedOrphan)
    BY <1>1, <1>6, <2>2 DEF CondInv
  <2> QED
    BY <2>1, <2>2
<1>7. CASE EndReversion
    BY <1>6, <1>7 DEF EndReversion, cluster
<1>8. ASSUME NEW i \in Pods, Skip(i) \/ Evict(i) \/ EvictNotFound(i) \/ EvictRefused(i)
      PROVE  CondInv'
    BY <1>6, <1>8 DEF Skip, Evict, EvictNotFound, EvictRefused, Evicting, cluster
<1> QED
    BY <1>2, <1>3, <1>4, <1>5, <1>7, <1>8 DEF Controller

\* Nothing else changes what CondInv is about.
LEMMA EnvironmentCond ==
    ASSUME CondInv, Environment
    PROVE  CondInv'
<1>1. UNCHANGED <<fb, cfb, cplan, cpods, cnode, worker, queued>>
    BY DEF Environment, Admit, Bind, End, RemovePod, ChangeNode, ChangeStatus, ChangePlan, Tick, cluster, caches
<1> QED
    BY <1>1 DEF CondInv, CachedOrphan

\* RestInv is inductive.
LEMMA RestStep ==
    ASSUME RestInv, [Next]_vars
    PROVE  RestInv'
<1>1. CASE UNCHANGED vars
    BY <1>1, CacheStep DEF RestInv, CondInv, CachedOrphan, vars, cluster, caches
<1>2. CASE Next
    BY <1>2, CacheStep, ControllerCond, DeliverCond, EnvironmentCond DEF RestInv, Next
<1> QED
    BY <1>1, <1>2

\* At rest InFallback says whether Pods that target Spot run elsewhere, whatever was delivered in which
\* order: no wake-up that the predicates filter out was needed.
THEOREM SpotConditionAtRest == Spec => []ConditionAtRest
<1>1. ASSUME RestInv
      PROVE  ConditionAtRest
  <2> SUFFICES ASSUME Quiet, \A i \in Pods : ~Orphaned(i)
               PROVE  Fits(plan, pods, node, fb)
    BY DEF ConditionAtRest, Fits
  <2>1. worker.pc # "set"
    BY DEF Quiet, Idle
  <2>2. ~CachedOrphan
    BY DEF Quiet, CachedOrphan, Orphaned, IsSpotNode
  <2> QED
    BY <1>1, <2>1, <2>2 DEF RestInv, CondInv, Quiet
<1>2. Init => RestInv
  <2>1. Init => CondInv
    BY DesiredFits DEF Init, CondInv
  <2> QED
    BY <2>1, CacheInit DEF RestInv
<1>3. RestInv /\ [Next]_vars => RestInv'
    BY RestStep
<1> QED
    BY <1>1, <1>2, <1>3, PTL DEF Spec

-----------------------------------------------------------------------------
(* The Spot share *)

\* What the ratio asks for is kept by one more Pod that the webhook's rule places.
LEMMA OneMore ==
    ASSUME NEW spot \in Nat, NEW total \in Nat, NEW ratio \in 1 .. 99,
           total * ratio <= spot * 100, spot > 0 => (spot - 1) * 100 < total * ratio
    PROVE  /\ ShouldUseSpot(spot, total, ratio) =>
                  (total + 1) * ratio <= (spot + 1) * 100 /\ ((spot + 1) - 1) * 100 < (total + 1) * ratio
           /\ ~ShouldUseSpot(spot, total, ratio) =>
                  (total + 1) * ratio <= spot * 100 /\ (spot > 0 => (spot - 1) * 100 < (total + 1) * ratio)
<1>1. PICK x \in Int : x = total * ratio
    OBVIOUS
<1>2. (total + 1) * ratio = x + ratio
    BY <1>1
<1> QED
    BY <1>1, <1>2 DEF ShouldUseSpot

\* With ratio and reversion as in RatioHeld the webhook goes by the ratio alone.
LEMMA PlacementByRatio ==
    ASSUME NEW p, NEW counts, NEW cond, p.ratio \in 1 .. 99, p.action # "None",
           NEW pod, pod.place = Placement(p, counts, cond)
    PROVE  Targeted(pod) <=> ShouldUseSpot(counts.effectiveSpot, counts.total, p.ratio)
<1>1. p.ratio # 0 /\ p.ratio < 100
    OBVIOUS
<1>2. CASE ShouldUseSpot(counts.effectiveSpot, counts.total, p.ratio)
    BY <1>1, <1>2 DEF Placement, Targeted
<1>3. CASE ~ShouldUseSpot(counts.effectiveSpot, counts.total, p.ratio)
    BY <1>1, <1>3 DEF Placement, Targeted
<1> QED
    BY <1>2, <1>3

\* One more member of a set of Pods.
LEMMA CountedMore ==
    ASSUME NEW S \in SUBSET Pods, NEW i \in Pods, i \notin S
    PROVE  Cardinality(S \cup {i}) = Cardinality(S) + 1
<1>1. IsFiniteSet(S)
    BY PodsCounted
<1> QED
    BY <1>1, FS_AddElement

\* A Pod that is admitted with all others in view keeps the share.
LEMMA AdmitShare ==
    ASSUME TypeInv, ShareInv, NEW i \in Pods, Admit(i)
    PROVE  ShareInv'
<1> SUFFICES ASSUME undisturbed'
             PROVE  ShareInv'
    BY DEF ShareInv
<1>1. StateInv
    BY DEF TypeInv
<1>2. undisturbed /\ cpods = pods /\ UNCHANGED <<plan, cplan>>
    BY DEF Admit, caches
<1>3. cplan = plan
    BY <1>2 DEF ShareInv
<1>4. \A j \in Pods : Exists(pods[j]) => pods[j].active /\ (pods[j].node \in SpotNodes => Targeted(pods[j]))
    BY <1>2 DEF ShareInv
<1>5. /\ pods[i] = NoPod /\ Exists(pods'[i]) /\ pods'[i].node = None /\ pods'[i].active
      /\ pods'[i].place = Placement(cplan, CountWorkloadClassPods(cpods, cnode), cfb)
      /\ \A j \in Pods \ {i} : pods'[j] = pods[j]
    BY <1>1, PodChange
<1>6. \A j \in Pods : Exists(pods'[j]) => pods'[j].active /\ (pods'[j].node \in SpotNodes => Targeted(pods'[j]))
    BY <1>4, <1>5, PodsAssumption
<1> DEFINE A == Active(pods)
           S == TargetedPods(pods)
<1>7. i \notin A /\ i \notin S /\ A \in SUBSET Pods /\ S \in SUBSET Pods
    BY <1>5 DEF Active, TargetedPods, Exists
<1>8. Active(pods') = A \cup {i}
    BY <1>5 DEF Active
<1>9. TargetedPods(pods') = IF Targeted(pods'[i]) THEN S \cup {i} ELSE S
  <2>1. ASSUME NEW j \in Pods
        PROVE  j \in TargetedPods(pods') <=> IF j = i THEN Targeted(pods'[i]) ELSE j \in S
    BY <1>5 DEF TargetedPods, Active
  <2>2. TargetedPods(pods') \subseteq Pods
    BY DEF TargetedPods, Active
  <2> HIDE DEF S
  <2> QED
    BY <1>7, <2>1, <2>2
<1>10. ASSUME plan.ratio \in 1 .. 99, plan.action # "None", \A j \in TargetedPods(pods') : pods'[j].node # "ondemand"
       PROVE  /\ Cardinality(Active(pods')) * plan.ratio <= Cardinality(TargetedPods(pods')) * 100
              /\ Cardinality(TargetedPods(pods')) > 0 =>
                     (Cardinality(TargetedPods(pods')) - 1) * 100 < Cardinality(Active(pods')) * plan.ratio
  <2>1. \A j \in S : pods[j].node # "ondemand"
    BY <1>5, <1>7, <1>9, <1>10
  <2>2. /\ Cardinality(A) * plan.ratio <= Cardinality(S) * 100
        /\ Cardinality(S) > 0 => (Cardinality(S) - 1) * 100 < Cardinality(A) * plan.ratio
    BY <1>2, <1>10, <2>1 DEF ShareInv
  <2> DEFINE counts == CountWorkloadClassPods(cpods, cnode)
  <2>3. counts.effectiveSpot = Cardinality(S) /\ counts.total = Cardinality(A)
    <3>1. S = {j \in A : IsSpotNode(cnode, pods[j].node) \/ (pods[j].node # "ondemand" /\ Targeted(pods[j]))}
      <4>1. ASSUME NEW j \in A
            PROVE  j \in S <=> IsSpotNode(cnode, pods[j].node) \/ (pods[j].node # "ondemand" /\ Targeted(pods[j]))
        BY <1>4, <2>1 DEF TargetedPods, Active, IsSpotNode
      <4> QED
        BY <4>1 DEF TargetedPods
    <3> QED
      BY <1>2, <3>1 DEF CountWorkloadClassPods
  <2>4. Targeted(pods'[i]) <=> ShouldUseSpot(Cardinality(S), Cardinality(A), plan.ratio)
    BY <1>3, <1>5, <1>10, <2>3, PlacementByRatio
  <2> PICK spot \in Nat : spot = Cardinality(S)
    BY <1>7, PodsCounted
  <2> PICK total \in Nat : total = Cardinality(A)
    BY <1>7, PodsCounted
  <2> PICK ratio \in 1 .. 99 : ratio = plan.ratio
    BY <1>10
  <2>5. Cardinality(Active(pods')) = total + 1
    BY <1>7, <1>8, CountedMore
  <2>6. Cardinality(TargetedPods(pods')) = IF ShouldUseSpot(spot, total, ratio) THEN spot + 1 ELSE spot
    BY <1>7, <1>9, <2>4, CountedMore
  <2>7. total * ratio <= spot * 100 /\ (spot > 0 => (spot - 1) * 100 < total * ratio)
    BY <2>2
  <2>8. /\ ShouldUseSpot(spot, total, ratio) =>
               (total + 1) * ratio <= (spot + 1) * 100 /\ ((spot + 1) - 1) * 100 < (total + 1) * ratio
        /\ ~ShouldUseSpot(spot, total, ratio) =>
               (total + 1) * ratio <= spot * 100 /\ (spot > 0 => (spot - 1) * 100 < (total + 1) * ratio)
    BY <2>7, OneMore
  <2> HIDE DEF A, S, counts
  <2> QED
    BY <2>5, <2>6, <2>8
<1> HIDE DEF A, S
<1> QED
    BY <1>2, <1>3, <1>6, <1>10 DEF ShareInv

\* Binding a Pod changes no count, and puts only Pods that target Spot on Spot nodes.
LEMMA BindShare ==
    ASSUME TypeInv, ShareInv, NEW i \in Pods, Bind(i)
    PROVE  ShareInv'
<1> SUFFICES ASSUME undisturbed'
             PROVE  ShareInv'
    BY DEF ShareInv
<1>1. StateInv
    BY DEF TypeInv
<1>2. undisturbed /\ UNCHANGED <<plan, cplan>>
    BY DEF Bind, caches
<1>3. \A j \in Pods : Exists(pods[j]) => pods[j].active /\ (pods[j].node \in SpotNodes => Targeted(pods[j]))
    BY <1>2 DEF ShareInv
<1>4. /\ Exists(pods[i]) /\ pods[i].node = None /\ Exists(pods'[i])
      /\ pods'[i].place = pods[i].place /\ pods'[i].active = pods[i].active
      /\ pods'[i].node = "ondemand" \/ (pods'[i].node \in SpotNodes /\ Targeted(pods[i]))
      /\ \A j \in Pods \ {i} : pods'[j] = pods[j]
    BY <1>1, PodChange
<1>5. \A j \in Pods : Exists(pods'[j]) => pods'[j].active /\ (pods'[j].node \in SpotNodes => Targeted(pods'[j]))
    BY <1>3, <1>4, PodsAssumption DEF Targeted
<1>6. Active(pods') = Active(pods)
    BY <1>4 DEF Active
<1>7. TargetedPods(pods') = TargetedPods(pods)
    BY <1>4, <1>6 DEF TargetedPods, Targeted, Active
<1>8. (\A j \in TargetedPods(pods') : pods'[j].node # "ondemand") => \A j \in TargetedPods(pods) : pods[j].node # "ondemand"
  <2>1. TargetedPods(pods) \subseteq Pods
    BY DEF TargetedPods, Active
  <2> QED
    BY <1>4, <1>7, <2>1, PodsAssumption
<1> QED
    BY <1>2, <1>5, <1>6, <1>7, <1>8 DEF ShareInv

\* RatioInv is inductive.
LEMMA RatioStep ==
    ASSUME RatioInv, [Next]_vars
    PROVE  RatioInv'
<1>1. TypeInv'
    BY TypeStep DEF RatioInv
<1> SUFFICES ShareInv'
    BY <1>1 DEF RatioInv
<1>2. ASSUME UNCHANGED <<pods, plan, cplan, undisturbed>>
      PROVE  ShareInv'
    BY <1>2 DEF RatioInv, ShareInv
<1>3. ASSUME NEW i \in Pods, End(i) \/ RemovePod(i) \/ Evict(i)
      PROVE  ShareInv'
    BY <1>3 DEF End, RemovePod, Evict, ShareInv
<1>4. ASSUME NEW p \in Plans, ChangePlan(p)
      PROVE  ShareInv'
    BY <1>4 DEF ChangePlan, ShareInv
<1>5. CASE DeliverPlan
  <2>1. ~undisturbed
    BY <1>5 DEF DeliverPlan, RatioInv, ShareInv
  <2> QED
    BY <1>5, <2>1 DEF DeliverPlan, ShareInv
<1>6. CASE UNCHANGED vars
    BY <1>2, <1>6 DEF vars, cluster, caches
<1>7. CASE Controller
  <2>1. CASE Classify \/ SetCondition \/ EndReversion \/ Requeue
    BY <1>2, <2>1 DEF Classify, SetCondition, EndReversion, Requeue, cluster, caches
  <2>2. ASSUME NEW i \in Pods, Skip(i) \/ EvictNotFound(i) \/ EvictRefused(i) \/ EvictFailed(i)
        PROVE  ShareInv'
    BY <1>2, <2>2 DEF Skip, EvictNotFound, EvictRefused, EvictFailed, cluster, caches
  <2> QED
    BY <1>3, <1>7, <2>1, <2>2 DEF Controller
<1>8. CASE Deliver
    BY <1>2, <1>5, <1>8 DEF Deliver, DeliverPod, DeliverNode, DeliverStatus, DeliverCondition, cluster
<1>9. CASE Environment
  <2>1. ASSUME NEW i \in Pods, Admit(i) \/ Bind(i)
        PROVE  ShareInv'
    BY <2>1, AdmitShare, BindShare DEF RatioInv
  <2>2. ASSUME NEW n \in SpotNodes, NEW s \in NodeStates, ChangeNode(n, s)
        PROVE  ShareInv'
    BY <1>2, <2>2 DEF ChangeNode, caches
  <2>3. ASSUME NEW s \in Statuses, ChangeStatus(s)
        PROVE  ShareInv'
    BY <1>2, <2>3 DEF ChangeStatus, caches
  <2>4. CASE Tick
    BY <1>2, <2>4 DEF Tick, cluster, caches
  <2> QED
    BY <1>3, <1>4, <1>9, <2>1, <2>2, <2>3, <2>4 DEF Environment
<1> QED
    BY <1>6, <1>7, <1>8, <1>9 DEF Next

\* While every Pod is placed with all others in view, the Pods that target Spot are as many as the ratio asks
\* for and not one more, for any number of Pods and whatever happens to nodes, capacity and caches meanwhile.
THEOREM SpotRatioHeld == Spec => []RatioHeld
<1>1. ASSUME RatioInv
      PROVE  RatioHeld
  <2> SUFFICES ASSUME undisturbed, plan.ratio \in 1 .. 99, plan.action # "None", InFallback(pods, node) = {}
               PROVE  LET S == TargetedPods(pods)
                          A == Active(pods)
                      IN  /\ Cardinality(S) * 100 >= Cardinality(A) * plan.ratio
                          /\ Cardinality(S) > 0 => (Cardinality(S) - 1) * 100 < Cardinality(A) * plan.ratio
    BY DEF RatioHeld, TargetedPods
  <2>1. \A i \in TargetedPods(pods) : pods[i].node # "ondemand"
    BY PodsAssumption DEF TargetedPods, InFallback, IsSpotNode
  <2>2. /\ Cardinality(Active(pods)) * plan.ratio <= Cardinality(TargetedPods(pods)) * 100
        /\ Cardinality(TargetedPods(pods)) > 0 =>
               (Cardinality(TargetedPods(pods)) - 1) * 100 < Cardinality(Active(pods)) * plan.ratio
    BY <1>1, <2>1 DEF RatioInv, ShareInv
  <2>3. PICK s \in Nat : s = Cardinality(TargetedPods(pods))
    BY PodsCounted DEF TargetedPods, Active
  <2>4. PICK a \in Nat : a = Cardinality(Active(pods))
    BY PodsCounted DEF Active
  <2>5. PICK r \in 1 .. 99 : r = plan.ratio
    OBVIOUS
  <2> QED
    BY <2>2, <2>3, <2>4, <2>5
<1>2. Init => RatioInv
  <2>1. ASSUME Init
        PROVE  ShareInv
    <3>1. Active(pods) = {} /\ TargetedPods(pods) = {} /\ \A i \in Pods : ~Exists(pods[i])
      BY <2>1 DEF Init, Active, TargetedPods, Exists
    <3>2. Cardinality(Active(pods)) = 0 /\ Cardinality(TargetedPods(pods)) = 0
      BY <3>1, FS_EmptySet
    <3>3. cplan = plan
      BY <2>1 DEF Init
    <3> QED
      BY <3>1, <3>2, <3>3 DEF ShareInv
  <2> QED
    BY <2>1, TypeInit DEF RatioInv
<1>3. RatioInv /\ [Next]_vars => RatioInv'
    BY RatioStep
<1> QED
    BY <1>1, <1>2, <1>3, PTL DEF Spec

-----------------------------------------------------------------------------
(* The fallback budget *)

\* What is within a budget still is with fewer Pods in fallback, and with more Pods in all.
LEMMA FewerWithin ==
    ASSUME NEW n \in Nat, NEW m \in Nat, m <= n, NEW total \in Nat, NEW sum \in Nat,
           NEW b, b.n \in Int, FallbackWithinBudget(n, total, b), b.kind = "Percent" => total <= sum
    PROVE  FallbackWithinBudget(m, sum, b)
<1>1. CASE b.kind = "Percent" /\ b.n \in 0 .. 100
  <2>1. n * 100 <= total * b.n /\ total <= sum
    BY <1>1 DEF FallbackWithinBudget
  <2>2. PICK k \in Nat : k = b.n
    BY <1>1
  <2>3. total * k <= sum * k
    BY <2>1
  <2>4. PICK x \in Nat, y \in Nat : x = total * k /\ y = sum * k
    OBVIOUS
  <2>5. m * 100 <= y
    BY <2>1, <2>2, <2>3, <2>4
  <2> QED
    BY <1>1, <2>2, <2>4, <2>5 DEF FallbackWithinBudget
<1>2. CASE b.kind = "Percent" /\ b.n \notin 0 .. 100
    BY <1>2 DEF FallbackWithinBudget
<1>3. CASE b.kind = "Count"
    BY <1>3 DEF FallbackWithinBudget
<1> QED
    BY <1>1, <1>2, <1>3 DEF FallbackWithinBudget

\* The same of all budgets, and of a state that has seen more Pods end.
LEMMA FewerWithinAll ==
    ASSUME NEW p \in Plans, NEW n \in Nat, NEW m \in Nat, m <= n, NEW total \in Nat, NEW sum \in Nat,
           NEW before \in BOOLEAN, NEW after \in BOOLEAN, before => after, total <= sum,
           WithinBudgets(n, total, p.budgets, before)
    PROVE  WithinBudgets(m, sum, p.budgets, after)
<1>1. CASE n <= 1
    BY <1>1 DEF WithinBudgets
<1>2. CASE ~(n <= 1)
  <2>1. ASSUME NEW b \in p.budgets, ~(b.kind = "Percent" /\ after)
        PROVE  FallbackWithinBudget(m, sum, b)
    <3>1. FallbackWithinBudget(n, total, b)
      BY <1>2, <2>1 DEF WithinBudgets
    <3>2. b.n \in Int /\ (b.kind = "Percent" => total <= sum)
      BY <2>1, InputsAssumption
    <3> QED
      BY <3>1, <3>2, FewerWithin
  <2> QED
    BY <2>1 DEF WithinBudgets
<1> QED
    BY <1>1, <1>2

\* The same of sets of Pods.
LEMMA FewerPods ==
    ASSUME NEW p \in Plans, NEW S \in SUBSET Pods, NEW R \in SUBSET S, NEW A \in SUBSET Pods, NEW B \in SUBSET Pods,
           NEW before \in BOOLEAN, NEW after \in BOOLEAN, before => after, A \subseteq B,
           WithinBudgets(Cardinality(S), Cardinality(A), p.budgets, before)
    PROVE  WithinBudgets(Cardinality(R), Cardinality(B), p.budgets, after)
<1>1. /\ Cardinality(S) \in Nat /\ Cardinality(R) \in Nat /\ Cardinality(A) \in Nat /\ Cardinality(B) \in Nat
      /\ IsFiniteSet(S) /\ IsFiniteSet(B)
    BY PodsCounted
<1>2. Cardinality(R) <= Cardinality(S)
    BY <1>1, FS_Subset
<1>3. Cardinality(A) <= Cardinality(B)
    BY <1>1, FS_Subset
<1> QED
    BY <1>1, <1>2, <1>3, FewerWithinAll

\* A Pod that is bound may be in fallback only if it might before.
LEMMA BindBudget ==
    ASSUME SpentInv, NEW i \in Pods, Bind(i)
    PROVE  BudgetInv'
<1>1. StateInv
    BY DEF SpentInv, TypeInv
<1>2. /\ Exists(pods[i]) /\ pods[i].node = None /\ Exists(pods'[i])
      /\ pods'[i].place = pods[i].place /\ pods'[i].active = pods[i].active
      /\ pods'[i].node = "ondemand" \/ pods'[i].node \in SpotNodes
      /\ \A j \in Pods \ {i} : pods'[j] = pods[j]
    BY <1>1, PodChange
<1>3. pods'[i].node = "ondemand" => pods[i].place # "strict"
  <2>1. PICK n \in {m \in SpotNodes : node[m] = "ready" /\ Targeted(pods[i])}
                   \cup {m \in {"ondemand"} : pods[i].place # "strict"} :
            pods' = [pods EXCEPT ![i].node = n, ![i].since = now]
    BY DEF Bind
  <2>2. pods \in [Pods -> PodStates] /\ pods[i] \in PodType
    BY <1>1, <1>2, PodTyped DEF StateInv
  <2>3. pods'[i] = [pods[i] EXCEPT !.node = n, !.since = now]
    BY <2>1, <2>2
  <2>4. pods'[i].node = n
    BY <2>2, <2>3 DEF PodType
  <2> QED
    BY <2>1, <2>4, PodsAssumption
<1>4. UNCHANGED <<plan, raced>> /\ plan \in Plans
    BY <1>1 DEF Bind, StateInv
<1>5. Active(pods') = Active(pods)
    BY <1>2 DEF Active
<1>6. Ended(pods) => Ended(pods')
    BY <1>2, <1>5 DEF Ended, Exists
<1>7. MayFallBack(pods', raced') \subseteq MayFallBack(pods, raced)
  <2>1. ASSUME NEW j \in MayFallBack(pods', raced')
        PROVE  j \in MayFallBack(pods, raced)
    <3>1. j \in Active(pods) /\ j \notin raced /\ j \in Pods
      BY <1>4, <1>5, <2>1 DEF MayFallBack, Active
    <3>2. CASE j = i
      <4>1. pods'[i].node = "ondemand" /\ Targeted(pods'[i])
        BY <1>2, <2>1, <3>2, PodsAssumption DEF MayFallBack
      <4>2. pods[i].place = "flexible"
        BY <1>2, <1>3, <4>1 DEF Targeted
      <4> QED
        BY <1>2, <3>1, <3>2, <4>2 DEF MayFallBack
    <3>3. CASE j # i
      BY <1>2, <2>1, <3>1, <3>3 DEF MayFallBack
    <3> QED
      BY <3>2, <3>3
  <2> QED
    BY <2>1
<1> QED
  <2>1. Active(pods) \in SUBSET Pods /\ MayFallBack(pods, raced) \in SUBSET Pods
    BY DEF Active, MayFallBack
  <2>2. Ended(pods) \in BOOLEAN /\ Ended(pods') \in BOOLEAN
    BY DEF Ended
  <2>3. WithinBudgets(Cardinality(MayFallBack(pods, raced)), Cardinality(Active(pods)), plan.budgets, Ended(pods))
    BY DEF SpentInv, BudgetInv
  <2>4. WithinBudgets(Cardinality(MayFallBack(pods', raced')), Cardinality(Active(pods')), plan.budgets, Ended(pods'))
    BY <1>4, <1>5, <1>6, <1>7, <2>1, <2>2, <2>3, FewerPods
  <2> QED
    BY <1>4, <2>4 DEF BudgetInv

\* Of a Pod that ends the budgets still have room; percentages no longer count.
LEMMA EndBudget ==
    ASSUME SpentInv, NEW i \in Pods, End(i) \/ RemovePod(i) \/ Evict(i)
    PROVE  BudgetInv'
<1>1. StateInv
    BY DEF SpentInv, TypeInv
<1>2. /\ pods'[i] # NoPod /\ i \notin Active(pods')
      /\ \A j \in Pods \ {i} : pods'[j] = pods[j]
    BY <1>1, PodChange, PodsAssumption DEF Active, Exists
<1>3. UNCHANGED <<plan, raced>> /\ plan \in Plans
    BY <1>1 DEF End, RemovePod, Evict, StateInv
<1>4. Ended(pods') \in BOOLEAN /\ Ended(pods')
    BY <1>2 DEF Ended
<1>5. MayFallBack(pods', raced') \subseteq MayFallBack(pods, raced)
    BY <1>2, <1>3 DEF MayFallBack, Active
<1>6. /\ Active(pods) \in SUBSET Pods /\ Active(pods') \in SUBSET Pods /\ MayFallBack(pods, raced) \in SUBSET Pods
      /\ Ended(pods) \in BOOLEAN
    BY DEF Active, MayFallBack, Ended
<1>7. WithinBudgets(Cardinality(MayFallBack(pods, raced)), Cardinality(Active(pods)), plan.budgets, Ended(pods))
    BY DEF SpentInv, BudgetInv
<1>8. WithinBudgets(Cardinality(MayFallBack(pods', raced')), Cardinality(Active(pods')), plan.budgets, Ended(pods'))
  <2>1. PICK n \in Nat, m \in Nat, total \in Nat, sum \in Nat :
            /\ n = Cardinality(MayFallBack(pods, raced)) /\ m = Cardinality(MayFallBack(pods', raced'))
            /\ total = Cardinality(Active(pods)) /\ sum = Cardinality(Active(pods'))
    BY <1>5, <1>6, PodsCounted
  <2>2. m <= n
    BY <1>5, <1>6, <2>1, PodsCounted, FS_Subset
  <2>3. CASE n <= 1
    BY <2>1, <2>2, <2>3 DEF WithinBudgets
  <2>4. CASE ~(n <= 1)
    <3>1. ASSUME NEW b \in plan.budgets, b.kind # "Percent"
          PROVE  FallbackWithinBudget(m, sum, b)
      <4>1. FallbackWithinBudget(n, total, b) /\ b.n \in Int
        BY <1>3, <1>7, <2>1, <2>4, <3>1, InputsAssumption DEF WithinBudgets
      <4> QED
        BY <2>2, <3>1, <4>1, FewerWithin
    <3> QED
      BY <1>4, <2>1, <3>1 DEF WithinBudgets
  <2> QED
    BY <2>3, <2>4
<1> QED
    BY <1>3, <1>8 DEF BudgetInv

\* A Pod that is admitted with all others in view is flexible only if the budgets have room for it.
LEMMA AdmitBudget ==
    ASSUME SpentInv, NEW i \in Pods, Admit(i)
    PROVE  BudgetInv'
<1>1. StateInv
    BY DEF SpentInv, TypeInv
<1>2. /\ pods[i] = NoPod /\ Exists(pods'[i]) /\ pods'[i].node = None /\ pods'[i].active
      /\ pods'[i].place = Placement(cplan, CountWorkloadClassPods(cpods, cnode), cfb)
      /\ \A j \in Pods \ {i} : pods'[j] = pods[j]
    BY <1>1, PodChange
<1>3. plan' = plan /\ plan \in Plans /\ raced' = raced \cup (IF InView THEN {} ELSE {i})
    BY <1>1 DEF Admit, StateInv
<1> DEFINE A == Active(pods)
           M == MayFallBack(pods, raced)
<1>4. A \in SUBSET Pods /\ M \in SUBSET A /\ i \notin A
    BY <1>2 DEF Active, MayFallBack, Exists
<1>5. Active(pods') = A \cup {i}
    BY <1>2 DEF Active
<1>6. Ended(pods) \in BOOLEAN /\ Ended(pods') \in BOOLEAN /\ (Ended(pods) => Ended(pods'))
    BY <1>2, <1>5 DEF Ended
<1>7. WithinBudgets(Cardinality(M), Cardinality(A), plan.budgets, Ended(pods))
    BY DEF SpentInv, BudgetInv
<1>8. MayFallBack(pods', raced') \subseteq M \cup {j \in {i} : InView /\ pods'[i].place = "flexible"}
  <2>1. ASSUME NEW j \in MayFallBack(pods', raced')
        PROVE  IF j = i THEN InView /\ pods'[i].place = "flexible" ELSE j \in M
    <3>1. j \notin raced' /\ j \in Active(pods')
      BY <2>1 DEF MayFallBack
    <3>2. CASE j = i
      BY <1>2, <1>3, <2>1, <3>1, <3>2, PodsAssumption DEF MayFallBack
    <3>3. CASE j # i
      <4>1. j \in A /\ j \in Pods /\ pods'[j] = pods[j]
        BY <1>2, <1>4, <1>5, <3>1, <3>3
      <4>2. /\ j \notin raced
            /\ \/ Targeted(pods'[j]) /\ pods'[j].node = "ondemand"
               \/ pods'[j].place = "flexible" /\ pods'[j].node = None
        BY <1>3, <2>1, <3>1 DEF MayFallBack
      <4> QED
        BY <3>3, <4>1, <4>2 DEF MayFallBack
    <3> QED
      BY <3>2, <3>3
  <2> HIDE DEF M
  <2> QED
    BY <2>1
<1>9. A \cup {i} \in SUBSET Pods /\ M \in SUBSET Pods
    BY <1>4
<1> SUFFICES WithinBudgets(Cardinality(MayFallBack(pods', raced')), Cardinality(A \cup {i}), plan.budgets, Ended(pods'))
    BY <1>3, <1>5 DEF BudgetInv
<1>10. CASE ~(InView /\ pods'[i].place = "flexible")
  <2>1. MayFallBack(pods', raced') \subseteq M
    BY <1>8, <1>10
  <2> HIDE DEF A, M
  <2>2. MayFallBack(pods', raced') \in SUBSET M /\ A \in SUBSET Pods /\ A \subseteq A \cup {i} /\ plan \in Plans
    BY <1>3, <1>4, <2>1
  <2>3. PICK B \in SUBSET Pods : B = A \cup {i}
    BY <1>9
  <2>4. PICK R \in SUBSET M : R = MayFallBack(pods', raced')
    BY <2>2
  <2>5. WithinBudgets(Cardinality(R), Cardinality(B), plan.budgets, Ended(pods'))
    BY <1>6, <1>7, <1>9, <2>2, <2>3, FewerPods
  <2> QED
    BY <2>3, <2>4, <2>5
<1>11. CASE InView /\ pods'[i].place = "flexible"
  <2> DEFINE counts == CountWorkloadClassPods(cpods, cnode)
             F == {j \in A : pods[j].node = "ondemand" /\ Targeted(pods[j])}
  <2>1. cplan = plan /\ cpods = pods /\ \A j \in A : pods[j].node # None
    BY <1>11 DEF InView
  <2>2. counts.fallback = Cardinality(F) /\ counts.total = Cardinality(A)
    BY <2>1 DEF CountWorkloadClassPods
  <2>3. ~FallbackBudgetExhausted(counts, cfb, plan.budgets)
    BY <1>2, <1>11, <2>1 DEF Placement
  <2>4. M \subseteq F /\ F \in SUBSET Pods
    BY <1>4, <2>1 DEF MayFallBack
  <2>5. MayFallBack(pods', raced') \subseteq F \cup {i}
    BY <1>8, <2>4
  <2>6. F \cup {i} \in SUBSET Pods /\ i \notin F
    BY <1>4, <2>4
  <2> HIDE DEF A, F, M, counts
  <2>7. PICK f \in Nat : f = Cardinality(F)
    BY <2>4, PodsCounted
  <2>8. Cardinality(F \cup {i}) = f + 1 /\ Cardinality(A \cup {i}) = Cardinality(A) + 1
    BY <1>4, <2>4, <2>6, <2>7, CountedMore, <1>9
  <2>9. WithinBudgets(f + 1, Cardinality(A) + 1, plan.budgets, Ended(pods'))
    <3>1. CASE f = 0
      BY <3>1 DEF WithinBudgets
    <3>2. CASE f > 0
      <4>1. \A b \in plan.budgets : FallbackWithinBudget(f + 1, Cardinality(A) + 1, b)
        BY <2>2, <2>3, <2>7, <3>2 DEF FallbackBudgetExhausted
      <4> QED
        BY <4>1 DEF WithinBudgets
    <3> QED
      BY <2>7, <3>1, <3>2
  <2>10. MayFallBack(pods', raced') \in SUBSET (F \cup {i})
    BY <2>5
  <2>11. WithinBudgets(Cardinality(F \cup {i}), Cardinality(A \cup {i}), plan.budgets, Ended(pods'))
    BY <2>8, <2>9
  <2>12. A \cup {i} \subseteq A \cup {i}
    OBVIOUS
  <2>13. (Ended(pods') => Ended(pods')) /\ plan \in Plans
    BY <1>3
  <2> QED
    BY <1>6, <1>9, <2>6, <2>10, <2>11, <2>12, <2>13, FewerPods
<1> QED
    BY <1>10, <1>11

\* SpentInv is inductive.
LEMMA BudgetStep ==
    ASSUME SpentInv, [Next]_vars
    PROVE  SpentInv'
<1>1. TypeInv'
    BY TypeStep DEF SpentInv
<1> SUFFICES BudgetInv'
    BY <1>1 DEF SpentInv
<1>2. ASSUME UNCHANGED <<pods, plan, raced>>
      PROVE  BudgetInv'
    BY <1>2 DEF SpentInv, BudgetInv
<1>3. ASSUME NEW i \in Pods, Evict(i)
      PROVE  BudgetInv'
    BY <1>3, EndBudget
<1>4. ASSUME NEW p \in Plans, ChangePlan(p)
      PROVE  BudgetInv'
  <2>1. pods' = pods /\ raced' = {i \in Pods : pods[i] # NoPod}
    BY <1>4 DEF ChangePlan
  <2>2. MayFallBack(pods', raced') = {}
    BY <2>1 DEF MayFallBack, Active, Exists
  <2>3. Cardinality(MayFallBack(pods', raced')) = 0
    BY <2>2, FS_EmptySet
  <2> QED
    BY <2>3 DEF BudgetInv, WithinBudgets
<1>5. CASE UNCHANGED vars
    BY <1>2, <1>5 DEF vars, cluster
<1>6. CASE Controller
  <2>1. CASE Classify \/ SetCondition \/ EndReversion \/ Requeue
    BY <1>2, <2>1 DEF Classify, SetCondition, EndReversion, Requeue, cluster
  <2>2. ASSUME NEW i \in Pods, Skip(i) \/ EvictNotFound(i) \/ EvictRefused(i) \/ EvictFailed(i)
        PROVE  BudgetInv'
    BY <1>2, <2>2 DEF Skip, EvictNotFound, EvictRefused, EvictFailed, cluster
  <2> QED
    BY <1>3, <1>6, <2>1, <2>2 DEF Controller
<1>7. CASE Deliver
    BY <1>2, <1>7 DEF Deliver, DeliverPod, DeliverNode, DeliverStatus, DeliverPlan, DeliverCondition, cluster
<1>8. CASE Environment
  <2>1. ASSUME NEW i \in Pods, Admit(i) \/ Bind(i) \/ End(i) \/ RemovePod(i)
        PROVE  BudgetInv'
    BY <2>1, AdmitBudget, BindBudget, EndBudget
  <2>2. ASSUME NEW n \in SpotNodes, NEW s \in NodeStates, ChangeNode(n, s)
        PROVE  BudgetInv'
    BY <1>2, <2>2 DEF ChangeNode
  <2>3. ASSUME NEW s \in Statuses, ChangeStatus(s)
        PROVE  BudgetInv'
    BY <1>2, <2>3 DEF ChangeStatus
  <2>4. CASE Tick
    BY <1>2, <2>4 DEF Tick, cluster
  <2> QED
    BY <1>4, <1>8, <2>1, <2>2, <2>3, <2>4 DEF Environment
<1> QED
    BY <1>5, <1>6, <1>7, <1>8 DEF Next

\* Of the Pods in fallback those admitted with all others in view are one at most or within every budget, for any
\* number of Pods, any budgets, and however many other Pods raced past them.
THEOREM SpotBudgetHeld == Spec => []BudgetHeld
<1>1. ASSUME SpentInv
      PROVE  BudgetHeld
  <2> DEFINE A == Active(pods)
             F == {i \in A : Targeted(pods[i]) /\ pods[i].node = "ondemand"} \ raced
             M == MayFallBack(pods, raced)
  <2>1. A \in SUBSET Pods /\ M \in SUBSET Pods /\ F \in SUBSET M
    BY DEF Active, MayFallBack
  <2>2. Ended(pods) \in BOOLEAN /\ plan \in Plans
    BY <1>1 DEF Ended, SpentInv, TypeInv, StateInv
  <2>3. WithinBudgets(Cardinality(M), Cardinality(A), plan.budgets, Ended(pods))
    BY <1>1 DEF SpentInv, BudgetInv
  <2> HIDE DEF A, F, M
  <2>4. WithinBudgets(Cardinality(F), Cardinality(A), plan.budgets, Ended(pods))
    BY <2>1, <2>2, <2>3, FewerPods
  <2> QED
    BY <2>4 DEF BudgetHeld, WithinBudgets, Ended, A, F
<1>2. Init => SpentInv
  <2>1. ASSUME Init
        PROVE  BudgetInv
    <3>1. MayFallBack(pods, raced) = {}
      BY <2>1 DEF Init, MayFallBack, Active, Exists
    <3>2. Cardinality(MayFallBack(pods, raced)) = 0
      BY <3>1, FS_EmptySet
    <3> QED
      BY <3>2 DEF BudgetInv, WithinBudgets
  <2> QED
    BY <2>1, TypeInit DEF SpentInv
<1>3. SpentInv /\ [Next]_vars => SpentInv'
    BY BudgetStep
<1> QED
    BY <1>1, <1>2, <1>3, PTL DEF Spec

-----------------------------------------------------------------------------
(* Every Pod in fallback has its reconcile coming *)

\* Of two times to queue the class, T1 is not the later one.
Sooner(T1, T0) == T0 = None \/ (T1 \in Nat /\ T0 \in Nat /\ T1 <= T0)

\* A share that is not met with one more Pod that targets Spot was not met without it.
LEMMA ShareStill ==
    ASSUME NEW spot \in Nat, NEW total \in Nat, NEW ratio \in 0 .. 100, ~SpotShareMet(spot + 1, total + 1, ratio)
    PROVE  ~SpotShareMet(spot, total, ratio)
<1>1. PICK x \in Nat : x = total * ratio
    OBVIOUS
<1>2. ((total + 1) - 1 + 1) * ratio = x + ratio
    BY <1>1
<1>3. ((total - 1) + 1) * ratio = x
    BY <1>1
<1>4. (spot + 1) * 100 < x + ratio
    BY <1>2 DEF SpotShareMet, ShouldUseSpot
<1>5. spot * 100 < x
    BY <1>4
<1>6. total > 0
    BY <1>1, <1>4
<1> QED
    BY <1>3, <1>5, <1>6 DEF SpotShareMet, ShouldUseSpot

\* The steps of the pure part: a deadline that moves forward, and what it is at most.
LEMMA DeadlineSooner ==
    ASSUME now \in Nat, timer \in Nat \cup {None}, NEW r \in Nat, NEW d \in Nat
    PROVE  /\ Sooner(Deadline(MinPositive(r, d)), Deadline(r))
           /\ d > 0 => Deadline(MinPositive(r, d)) \in Nat /\ Deadline(MinPositive(r, d)) <= now + d
<1>1. CASE r = 0 /\ d = 0
  <2>1. MinPositive(r, d) = 0
    BY <1>1 DEF MinPositive
  <2> QED
    BY <1>1, <2>1, TimesAssumption DEF Deadline, Sooner
<1>2. CASE r = 0 /\ d > 0
  <2>1. MinPositive(r, d) = d
    BY <1>2 DEF MinPositive
  <2> QED
    BY <1>2, <2>1, TimesAssumption DEF Deadline, Sooner
<1>3. CASE r > 0 /\ d = 0
  <2>1. MinPositive(r, d) = r
    BY <1>3 DEF MinPositive
  <2> QED
    BY <1>3, <2>1, TimesAssumption DEF Deadline, Sooner
<1>4. CASE r > 0 /\ d > 0
  <2>1. PICK m \in Nat : m = MinPositive(r, d)
    BY MinPositiveTyped
  <2>2. m > 0 /\ m <= r /\ m <= d
    BY <1>4, <2>1 DEF MinPositive
  <2> QED
    BY <1>4, <2>1, <2>2, TimesAssumption DEF Deadline, Sooner
<1> QED
    BY <1>1, <1>2, <1>3, <1>4

\* A Pod that is covered by a reconcile is covered by a sooner one.
LEMMA CoveredSooner ==
    ASSUME now \in Nat, NEW i, NEW T0, NEW T1, Sooner(T1, T0), Covered(i, T0), Waits \subseteq Nat
    PROVE  Covered(i, T1)
<1> SUFFICES ASSUME NEW t \in CachedDue(i),
                    Unmet(cplan, cpods, cnode) \/ (cplan.max # None /\ t = cpods[i].since + cplan.max)
             PROVE  T1 \in Nat /\ (T1 <= t \/ (Overdue /\ \E d \in Waits : T1 - now <= d))
    BY DEF Covered
<1>1. T0 \in Nat /\ (T0 <= t \/ (Overdue /\ \E d \in Waits : T0 - now <= d))
    BY DEF Covered
<1>2. T1 \in Nat /\ T1 <= T0
    BY <1>1, TimesAssumption DEF Sooner
<1>3. t \in Nat
    BY DEF CachedDue
<1> QED
    BY <1>1, <1>2, <1>3

\* Every wait is a number of time units.
LEMMA WaitsTyped == Waits \subseteq Nat
  BY NextWindowTyped, TimesAssumption DEF Waits

\* A retry covers every Pod.
LEMMA CoveredByRetry ==
    ASSUME now \in Nat, Overdue, NEW i, NEW T \in Nat, NEW d \in Waits, T <= now + d
    PROVE  Covered(i, T)
<1>1. d \in Nat
    BY WaitsTyped
<1>2. T - now <= d
    BY <1>1
<1> QED
    BY <1>2 DEF Covered

\* The cached times of a Pod in fallback.
LEMMA DueTyped ==
    ASSUME CacheInv, NEW i \in InFallback(cpods, cnode)
    PROVE  /\ i \in Pods /\ Exists(cpods[i]) /\ cpods[i].active /\ cpods[i].node # None
           /\ cpods[i].since \in Nat /\ cpods[i].since <= now
           /\ cplan.min \in Nat /\ (cplan.max # None => cplan.max \in Nat)
<1>1. i \in Pods /\ Exists(cpods[i]) /\ cpods[i].active /\ cpods[i].node # None
    BY DEF InFallback, Active
<1>2. cpods[i].since \in Nat /\ cpods[i].since <= now
    BY <1>1, PodTyped DEF CacheInv, TypeInv, StateInv, SinceInv, PodType
<1> QED
    BY <1>1, <1>2, InputsAssumption DEF CacheInv, TypeInv, StateInv

\* A Pod that the loop passes over is covered by the requeue it asks for.
LEMMA SkippedCovered ==
    ASSUME CacheInv, Snapshot, worker \in WorkerType, worker.max = cplan.max,
           NEW i \in worker.fallback, i \in Owned, ~Decision(worker, i, now).evict
    PROVE  Covered(i, Deadline(MinPositive(worker.requeue, Decision(worker, i, now).wait)))
<1> DEFINE s        == cpods[i].since
           elapsed  == now - worker.since[i]
           untilMax == IF worker.max = None THEN 0 ELSE worker.max - elapsed
           wait     == Decision(worker, i, now).wait
           T        == Deadline(MinPositive(worker.requeue, wait))
           met      == SpotShareMet(worker.spot, worker.active, worker.plan.ratio)
<1>1. i \in InFallback(cpods, cnode) /\ worker.since[i] = s /\ worker.plan = cplan /\ (met => ~Unmet(cplan, cpods, cnode))
    BY DEF Snapshot
<1>2. s \in Nat /\ s <= now /\ cplan.min \in Nat /\ (cplan.max # None => cplan.max \in Nat)
    BY <1>1, DueTyped
<1>3. now \in Nat /\ timer \in Nat \cup {None} /\ worker.requeue \in Nat
    BY DEF CacheInv, TypeInv, StateInv, WorkerType
<1>4. elapsed \in Nat /\ now = s + elapsed
    BY <1>1, <1>2, <1>3
<1>5. ~(worker.max # None /\ elapsed >= worker.max)
    BY DEF Decision
<1>6. worker.max # None => untilMax \in Nat /\ untilMax > 0 /\ now + untilMax = s + cplan.max
    BY <1>2, <1>3, <1>4, <1>5
<1>7. ASSUME NEW t \in CachedDue(i), Unmet(cplan, cpods, cnode) \/ (cplan.max # None /\ t = s + cplan.max)
      PROVE  wait \in Nat /\ wait > 0 /\ now + wait <= t
  <2>1. CASE cplan.action # "Active" \/ met
    <3>1. wait = untilMax
      BY <1>1, <1>5, <2>1 DEF Decision
    <3>2. cplan.max # None /\ t = s + cplan.max
      BY <1>1, <1>7, <2>1 DEF CachedDue
    <3> QED
      BY <1>2, <1>6, <3>1, <3>2
  <2>2. CASE cplan.action = "Active" /\ ~met
    <3>1. elapsed < cplan.min
      BY <1>1, <1>5, <2>2 DEF Decision
    <3>2. wait = MinPositive(cplan.min - elapsed, untilMax)
      BY <1>1, <1>5, <2>2, <3>1 DEF Decision
    <3>3. PICK a \in Nat : a = cplan.min - elapsed /\ a > 0
      BY <1>2, <1>4, <3>1
    <3>4. now + a = s + cplan.min
      BY <1>2, <1>3, <1>4, <3>3
    <3>5. \/ cplan.max # None /\ t = s + cplan.max
          \/ t = s + cplan.min
      BY DEF CachedDue
    <3>6. CASE worker.max = None
      <4>1. wait = a
        BY <3>2, <3>3, <3>6 DEF MinPositive
      <4> QED
        BY <1>2, <3>3, <3>4, <3>5, <3>6, <4>1
    <3>7. CASE worker.max # None
      <4>1. PICK b \in Nat : b = untilMax /\ b > 0 /\ now + b = s + cplan.max
        BY <1>6, <3>7
      <4>2. wait = IF a < b THEN a ELSE b
        BY <3>2, <3>3, <4>1 DEF MinPositive
      <4> HIDE DEF wait, untilMax, elapsed, s
      <4> QED
        BY <1>2, <1>3, <3>3, <3>4, <3>5, <4>1, <4>2
    <3> QED
      BY <3>6, <3>7
  <2> QED
    BY <2>1, <2>2
<1>8. ASSUME NEW t \in CachedDue(i), Unmet(cplan, cpods, cnode) \/ (cplan.max # None /\ t = s + cplan.max)
      PROVE  T \in Nat /\ T <= t
  <2>1. PICK w \in Nat : w = wait /\ w > 0 /\ now + w <= t
    BY <1>7, <1>8
  <2>2. PICK r \in Nat : r = worker.requeue
    BY <1>3
  <2>3. Deadline(MinPositive(r, w)) \in Nat /\ Deadline(MinPositive(r, w)) <= now + w
    BY <1>3, <2>1, DeadlineSooner
  <2>4. t \in Nat /\ T = Deadline(MinPositive(r, w))
    BY <2>1, <2>2 DEF CachedDue
  <2> HIDE DEF T, wait
  <2> QED
    BY <1>3, <2>1, <2>3, <2>4
<1> HIDE DEF T
<1>9. Covered(i, T)
    BY <1>8 DEF Covered
<1> QED
    BY <1>9 DEF T

\* A Pod that the loop goes to evict is due.
LEMMA EvictedOverdue ==
    ASSUME CacheInv, Snapshot, worker \in WorkerType, worker.max = cplan.max,
           NEW i \in worker.fallback, Decision(worker, i, now).evict
    PROVE  Overdue
<1> DEFINE s       == cpods[i].since
           elapsed == now - worker.since[i]
<1>1. i \in InFallback(cpods, cnode) /\ worker.since[i] = s /\ worker.plan = cplan
    BY DEF Snapshot
<1>2. s \in Nat /\ s <= now /\ cplan.min \in Nat /\ (cplan.max # None => cplan.max \in Nat)
    BY <1>1, DueTyped
<1>3. now \in Nat
    BY DEF CacheInv, TypeInv, StateInv
<1>4. i \in Owned
    BY DEF Decision
<1>5. CASE worker.max # None /\ elapsed >= worker.max
  <2>1. s + cplan.max \in CachedDue(i) /\ s + cplan.max <= now
    BY <1>1, <1>2, <1>3, <1>5 DEF CachedDue
  <2> QED
    BY <1>1, <1>4, <2>1 DEF Overdue, Candidates
<1>6. CASE ~(worker.max # None /\ elapsed >= worker.max)
  <2>1. cplan.action = "Active" /\ ~(elapsed < cplan.min)
    BY <1>1, <1>6 DEF Decision
  <2>2. s + cplan.min \in CachedDue(i) /\ s + cplan.min <= now
    BY <1>1, <1>2, <1>3, <2>1 DEF CachedDue
  <2> QED
    BY <1>1, <1>4, <2>2 DEF Overdue, Candidates
<1> QED
    BY <1>5, <1>6

\* clusterAutoscalerStatusPredicate lets no change pass unnoticed that changes the answer of checkSpotCapacity.
LEMMA SilentStatus ==
    ASSUME DeliverStatus, TracksFallback(cplan), ~queued'
    PROVE  SpotCapacityAvailable(cstatus', cnode') <=> SpotCapacityAvailable(cstatus, cnode)
<1>1. cnode' = cnode /\ cstatus' = status /\ ~StatusChanged(cstatus, status)
    BY DEF DeliverStatus
<1>2. cstatus # Missing /\ status # Missing /\ Reading(cstatus) = Reading(status)
    BY <1>1 DEF StatusChanged
<1> QED
    BY <1>1, <1>2 DEF SpotCapacityAvailable

\* The end of a Pod is not undone.
LEMMA EndUnseenStill ==
    ASSUME CacheInv, EndUnseen, Next
    PROVE  EndUnseen' \/ (TracksFallback(cplan) => queued')
<1>1. StateInv /\ PodsInv
    BY DEF CacheInv, TypeInv
<1>2. PICK j \in Pods : Exists(cpods[j]) /\ cpods[j].active /\ (Exists(pods[j]) => ~pods[j].active)
    BY DEF EndUnseen
<1>3. Exists(pods[j]) \/ pods[j] = Gone
    BY <1>1, <1>2 DEF PodsInv
<1>4. CASE UNCHANGED <<pods, cpods, now>> \/ Tick
  <2>1. pods' = pods /\ cpods' = cpods
    BY <1>4 DEF Tick, cluster, caches
  <2> QED
    BY <1>2, <2>1 DEF EndUnseen
<1>5. ASSUME NEW i \in Pods, Admit(i) \/ Bind(i) \/ End(i) \/ RemovePod(i) \/ Evict(i)
      PROVE  EndUnseen'
  <2>1. cpods' = cpods
    BY <1>5 DEF Admit, Bind, End, RemovePod, Evict, caches
  <2>2. Exists(pods'[j]) => ~pods'[j].active
    <3>1. CASE i # j
      BY <1>1, <1>2, <1>5, <3>1, PodChange
    <3>2. CASE i = j
      <4>1. ~Admit(i)
        BY <1>1, <1>3, <3>2, PodChange, PodsAssumption DEF Exists
      <4>2. CASE RemovePod(i)
        BY <1>1, <3>2, <4>2, PodChange DEF Exists
      <4>3. CASE Bind(i) \/ End(i) \/ Evict(i)
        BY <1>1, <1>2, <3>2, <4>3, PodChange
      <4> QED
        BY <1>5, <4>1, <4>2, <4>3
    <3> QED
      BY <3>1, <3>2
  <2> QED
    BY <1>2, <2>1, <2>2 DEF EndUnseen
<1>6. ASSUME NEW i \in Pods, DeliverPod(i)
      PROVE  EndUnseen' \/ (TracksFallback(cplan) => queued')
  <2>1. pods' = pods /\ cpods'[i] = pods[i] /\ \A k \in Pods \ {i} : cpods'[k] = cpods[k]
    BY <1>1, <1>6 DEF DeliverPod, cluster, StateInv
  <2>2. CASE i # j
    BY <1>2, <2>1, <2>2 DEF EndUnseen
  <2>3. CASE i = j
    <3>1. PodPlacementChanged(cpods[i], pods[i])
      BY <1>2, <2>3 DEF PodPlacementChanged
    <3> QED
      BY <1>6, <3>1 DEF DeliverPod
  <2> QED
    BY <2>2, <2>3
<1> QED
    BY <1>4, <1>5, <1>6, PodsUntouched

\* Only the controller takes a class off the queue.
LEMMA QueuedStill ==
    ASSUME queued, Next, ~Classify
    PROVE  queued'
<1>1. CASE Controller
  <2>1. CASE SetCondition \/ EndReversion \/ Requeue
    BY <2>1 DEF SetCondition, EndReversion, Requeue
  <2>2. ASSUME NEW i \in Pods, Skip(i) \/ Evict(i) \/ EvictNotFound(i) \/ EvictRefused(i) \/ EvictFailed(i)
        PROVE  queued'
    BY <2>2 DEF Skip, Evict, EvictNotFound, EvictRefused, EvictFailed
  <2> QED
    BY <1>1, <2>1, <2>2 DEF Controller
<1>2. CASE Deliver
    BY <1>2 DEF Deliver, DeliverPod, DeliverNode, DeliverStatus, DeliverPlan, DeliverCondition
<1>3. CASE Environment
    BY <1>3 DEF Environment, Admit, Bind, End, RemovePod, ChangeNode, ChangeStatus, ChangePlan, Tick
<1> QED
    BY <1>1, <1>2, <1>3 DEF Next

\* What a step does to the cached plan, status, nodes and Pods.
LEMMA CachesUntouched ==
    ASSUME Next
    PROVE  \/ UNCHANGED <<cpods, cnode, cstatus, cplan>>
           \/ UNCHANGED <<worker, timer, now>> /\ Deliver
<1>1. CASE Controller
  <2>1. CASE Classify \/ SetCondition \/ EndReversion \/ Requeue
    BY <2>1 DEF Classify, SetCondition, EndReversion, Requeue, caches
  <2>2. ASSUME NEW i \in Pods, Skip(i) \/ Evict(i) \/ EvictNotFound(i) \/ EvictRefused(i) \/ EvictFailed(i)
        PROVE  UNCHANGED <<cpods, cnode, cstatus, cplan>>
    BY <2>2 DEF Skip, Evict, EvictNotFound, EvictRefused, EvictFailed, caches
  <2> QED
    BY <1>1, <2>1, <2>2 DEF Controller
<1>2. CASE Deliver
    BY <1>2 DEF Deliver, DeliverPod, DeliverNode, DeliverStatus, DeliverPlan, DeliverCondition
<1>3. CASE Environment
    BY <1>3 DEF Environment, Admit, Bind, End, RemovePod, ChangeNode, ChangeStatus, ChangePlan, Tick, caches
<1> QED
    BY <1>1, <1>2, <1>3 DEF Next

\* A new plan wakes the class unless it does not track fallback.
LEMMA PlanDelivered ==
    ASSUME DeliverPlan
    PROVE  Excused'
  BY DEF DeliverPlan, Excused

\* An excuse lasts until the class is queued, and then until it is taken off the queue.
LEMMA ExcusedStill ==
    ASSUME CacheInv, Excused, Next, ~Classify
    PROVE  Excused'
<1>1. CASE queued \/ queued'
    BY <1>1, QueuedStill DEF Excused
<1>2. CASE ~queued /\ ~queued' /\ UNCHANGED <<cpods, cnode, cstatus, cplan>>
  <2>1. CASE EndUnseen
    BY <1>2, <2>1, EndUnseenStill DEF Excused
  <2>2. CASE ~EndUnseen
    BY <1>2, <2>2 DEF Excused, CachedOrphan
  <2> QED
    BY <2>1, <2>2
<1>3. CASE ~queued /\ ~queued' /\ Deliver
  <2>1. CASE DeliverPlan
    BY <2>1, PlanDelivered
  <2>2. CASE DeliverCondition
    BY <2>2 DEF DeliverCondition, Excused
  <2>3. ASSUME cplan' = cplan, ~TracksFallback(cplan)
        PROVE  Excused'
    BY <2>3 DEF Excused
  <2>4. ASSUME cplan' = cplan, TracksFallback(cplan), EndUnseen
        PROVE  Excused'
    BY <1>3, <2>4, EndUnseenStill DEF Excused
  <2>5. ASSUME cplan' = cplan, TracksFallback(cplan), ~EndUnseen
        PROVE  CachedOrphan \/ ~SpotCapacityAvailable(cstatus, cnode)
    BY <1>3, <2>5 DEF Excused
  <2>6. CASE DeliverStatus
    <3>1. cplan' = cplan /\ cpods' = cpods /\ cnode' = cnode
      BY <2>6 DEF DeliverStatus
    <3>2. ASSUME TracksFallback(cplan), CachedOrphan \/ ~SpotCapacityAvailable(cstatus, cnode)
          PROVE  Excused'
      BY <1>3, <2>6, <3>1, <3>2, SilentStatus DEF Excused, CachedOrphan
    <3> QED
      BY <2>3, <2>4, <2>5, <3>1, <3>2
  <2>7. ASSUME NEW i \in Pods, DeliverPod(i)
        PROVE  Excused'
    <3>1. cplan' = cplan /\ cstatus' = cstatus /\ cnode' = cnode
      BY <2>7 DEF DeliverPod
    <3>2. ASSUME TracksFallback(cplan), CachedOrphan
          PROVE  CachedOrphan'
      <4>1. PICK j \in Pods : Exists(cpods[j]) /\ cpods[j].node \in SpotNodes /\ cnode[cpods[j].node] = "absent"
        BY <3>2 DEF CachedOrphan
      <4>2. Exists(cpods'[j]) /\ cpods'[j].node = cpods[j].node
        BY <1>3, <2>7, <3>2, <4>1, SilentPod
      <4> QED
        BY <3>1, <4>1, <4>2 DEF CachedOrphan
    <3>3. ASSUME TracksFallback(cplan), CachedOrphan \/ ~SpotCapacityAvailable(cstatus, cnode)
          PROVE  Excused'
      BY <3>1, <3>2, <3>3 DEF Excused
    <3> QED
      BY <2>3, <2>4, <2>5, <3>1, <3>3
  <2>8. ASSUME NEW n \in SpotNodes, DeliverNode(n)
        PROVE  Excused'
    <3>1. cplan' = cplan /\ cstatus' = cstatus
      BY <2>8 DEF DeliverNode
    <3>2. ASSUME TracksFallback(cplan), CachedOrphan \/ ~SpotCapacityAvailable(cstatus, cnode)
          PROVE  Excused'
      <4>1. (CachedOrphan => CachedOrphan') /\ (HasReadySpotNodes(cnode') <=> HasReadySpotNodes(cnode))
        BY <1>3, <2>8, <3>2, SilentNode
      <4>2. SpotCapacityAvailable(cstatus', cnode') <=> SpotCapacityAvailable(cstatus, cnode)
        BY <3>1, <4>1 DEF SpotCapacityAvailable
      <4> QED
        BY <3>2, <4>1, <4>2 DEF Excused
    <3> QED
      BY <2>3, <2>4, <2>5, <3>1, <3>2
  <2> QED
    BY <1>3, <2>1, <2>2, <2>6, <2>7, <2>8 DEF Deliver
<1> QED
    BY <1>1, <1>2, <1>3, CachesUntouched

\* What the cache has may change, and time pass, as long as the Pods in fallback are the same and the share
\* does not get worse.
LEMMA CoveredKept ==
    ASSUME CacheInv, UNCHANGED <<cplan, timer>>, now' \in {now, now + 1}, InFallback(cpods', cnode') = InFallback(cpods, cnode),
           \A i \in InFallback(cpods, cnode) : cpods'[i].since = cpods[i].since,
           Unmet(cplan, cpods', cnode') => Unmet(cplan, cpods, cnode),
           NEW i \in Candidates, NEW T, Covered(i, T)
    PROVE  Covered(i, T)'
<1>1. now \in Nat
    BY DEF CacheInv, TypeInv, StateInv
<1>2. \A j \in Candidates : CachedDue(j)' = CachedDue(j)
    BY DEF CachedDue, Candidates
<1>3. Candidates' = Candidates
    BY DEF Candidates
<1>4. Overdue => Overdue'
  <2>1. \A j \in Candidates : \A t \in CachedDue(j) : t \in Nat /\ (t <= now => t <= now')
    BY <1>1 DEF CachedDue
  <2>2. ASSUME NEW j \in Candidates, NEW t \in CachedDue(j), t <= now
        PROVE  \E k \in Candidates' : \E u \in CachedDue(k)' : u <= now'
    <3>1. j \in Candidates' /\ t \in CachedDue(j)' /\ t <= now'
      BY <1>2, <1>3, <2>1, <2>2
    <3> QED
      BY <3>1
  <2> QED
    BY <2>2 DEF Overdue
<1> SUFFICES ASSUME NEW t \in CachedDue(i)',
                    Unmet(cplan', cpods', cnode') \/ (cplan'.max # None /\ t = cpods'[i].since + cplan'.max)
             PROVE  T \in Nat /\ (T <= t \/ (Overdue' /\ \E d \in Waits : T - now' <= d))
    BY DEF Covered
<1>5. t \in CachedDue(i) /\ (Unmet(cplan, cpods, cnode) \/ (cplan.max # None /\ t = cpods[i].since + cplan.max))
    BY <1>2 DEF Candidates
<1>6. T \in Nat /\ (T <= t \/ (Overdue /\ \E d \in Waits : T - now <= d))
    BY <1>5 DEF Covered
<1>7. ASSUME NEW d \in Waits, T - now <= d
      PROVE  T - now' <= d
  <2>1. d \in Nat /\ T \in Nat
    BY <1>6, WaitsTyped
  <2>2. CASE now' = now
    BY <1>7, <2>2
  <2>3. CASE now' = now + 1
    BY <1>1, <1>7, <2>1, <2>3, SMTT(30)
  <2> QED
    BY <2>2, <2>3
<1> QED
    BY <1>4, <1>6, <1>7

\* So the schedule holds as long as the worker rests or does not notice.
LEMMA ScheduleKept ==
    ASSUME CacheInv, ScheduleInv, UNCHANGED <<worker, cplan, timer>>, now' = now \/ (worker = Idle /\ now' = now + 1),
           InFallback(cpods', cnode') = InFallback(cpods, cnode),
           \A i \in InFallback(cpods, cnode) : cpods'[i].since = cpods[i].since,
           Unmet(cplan, cpods', cnode') => Unmet(cplan, cpods, cnode)
    PROVE  ScheduleInv'
<1>1. Candidates' = Candidates
    BY DEF Candidates
<1>2. ASSUME NEW i \in Candidates, NEW T, Covered(i, T)
      PROVE  Covered(i, T)'
    BY <1>2, CoveredKept
<1>3. worker # Idle => Snapshot'
    BY DEF ScheduleInv, Snapshot
<1>4. ASSUME worker = Idle, NEW i \in Candidates
      PROVE  Covered(i, timer)'
  <2>1. PICK T : T = timer
    OBVIOUS
  <2>2. Covered(i, T)
    BY <1>4, <2>1 DEF ScheduleInv
  <2>3. Covered(i, T)'
    BY <1>2, <2>2
  <2>4. timer' = T
    BY <2>1
  <2> QED
    BY <2>3, <2>4 DEF Covered
<1>5. ASSUME worker.pc = "evict", NEW i \in Candidates \ worker.fallback
      PROVE  Covered(i, Deadline(worker.requeue))'
  <2>1. PICK T : T = Deadline(worker.requeue)
    OBVIOUS
  <2>2. Covered(i, T)
    BY <1>5, <2>1 DEF ScheduleInv
  <2>3. Covered(i, T)'
    BY <1>2, <1>5, <2>2
  <2>4. now' = now
    BY <1>5 DEF Idle
  <2>5. Deadline(worker.requeue)' = T
    BY <2>1, <2>4 DEF Deadline
  <2> QED
    BY <2>3, <2>5 DEF Covered
<1> QED
    BY <1>1, <1>3, <1>4, <1>5 DEF ScheduleInv

\* A new Pod that is not scheduled yet makes the share no worse, or is itself what is still to be scheduled.
LEMMA SilentPodShare ==
    ASSUME CacheInv, NEW i \in Pods, DeliverPod(i), TracksFallback(cplan), ~queued', Unmet(cplan, cpods', cnode')
    PROVE  Unmet(cplan, cpods, cnode)
<1> DEFINE A(ps) == Active(ps)
           E(ps) == {j \in Active(ps) : IF ps[j].node = None THEN Targeted(ps[j]) ELSE IsSpotNode(cnode, ps[j].node)}
<1>1. /\ cnode' = cnode
      /\ \A j \in Pods \ {i} : cpods'[j] = cpods[j]
      /\ Exists(cpods[i]) => /\ Exists(cpods'[i]) /\ cpods'[i].node = cpods[i].node
                             /\ cpods'[i].active = cpods[i].active /\ cpods'[i].place = cpods[i].place
      /\ ~Exists(cpods[i]) /\ Exists(cpods'[i]) => cpods'[i].node = None
      /\ Active(cpods) \subseteq Active(cpods')
    BY SilentPod DEF DeliverPod
<1>2. \A j \in Active(cpods) : cpods[j].place = "ondemand" => cpods[j].node # None
  <2>1. \A j \in Active(cpods') : cpods'[j].place = "ondemand" => cpods'[j].node # None
    BY DEF Unmet
  <2> QED
    BY <1>1, <2>1 DEF Active
<1>3. ~SpotShareMet(Cardinality(E(cpods')), Cardinality(A(cpods')), cplan.ratio)
    BY <1>1 DEF Unmet, EffectiveSpot
<1>4. ~SpotShareMet(Cardinality(E(cpods)), Cardinality(A(cpods)), cplan.ratio)
  <2>1. CASE i \in A(cpods') /\ i \notin A(cpods)
    <3>1. Exists(cpods'[i]) /\ ~Exists(cpods[i]) /\ cpods'[i].node = None
      BY <1>1, <2>1 DEF Active
    <3>2. cpods'[i] \in PodType
      BY <3>1, PodTyped DEF CacheInv, TypeInv, StateInv, DeliverPod
    <3>3. Targeted(cpods'[i])
      <4>1. cpods'[i].place # "ondemand"
        BY <2>1, <3>1 DEF Unmet
      <4> QED
        BY <3>2, <4>1 DEF PodType, Targeted
    <3>4. A(cpods') = A(cpods) \cup {i}
      BY <1>1, <2>1 DEF Active
    <3>5. E(cpods') = E(cpods) \cup {i}
      <4>1. ASSUME NEW j \in Pods
            PROVE  j \in E(cpods') <=> j \in E(cpods) \cup {i}
        BY <1>1, <2>1, <3>1, <3>3, <3>4 DEF Active
      <4>2. E(cpods') \subseteq Pods /\ E(cpods) \cup {i} \subseteq Pods
        BY DEF Active
      <4> QED
        BY <4>1, <4>2
    <3>6. A(cpods) \in SUBSET Pods /\ E(cpods) \in SUBSET Pods /\ i \notin E(cpods)
      BY <2>1 DEF Active
    <3> HIDE DEF A, E
    <3>7. Cardinality(A(cpods')) = Cardinality(A(cpods)) + 1 /\ Cardinality(E(cpods')) = Cardinality(E(cpods)) + 1
      BY <2>1, <3>4, <3>5, <3>6, CountedMore
    <3>8. PICK total \in Nat : total = Cardinality(A(cpods))
      BY <3>6, PodsCounted
    <3>9. PICK spot \in Nat : spot = Cardinality(E(cpods))
      BY <3>6, PodsCounted
    <3>10. PICK ratio \in 0 .. 100 : ratio = cplan.ratio
      BY InputsAssumption DEF CacheInv, TypeInv, StateInv
    <3>11. ~SpotShareMet(spot + 1, total + 1, ratio)
      BY <1>3, <3>7, <3>8, <3>9, <3>10
    <3> QED
      BY <3>8, <3>9, <3>10, <3>11, ShareStill
  <2>2. CASE ~(i \in A(cpods') /\ i \notin A(cpods))
    <3>1. A(cpods') = A(cpods)
      BY <1>1, <2>2 DEF Active
    <3>2. E(cpods') = E(cpods)
      <4>1. ASSUME NEW j \in A(cpods)
            PROVE  j \in E(cpods') <=> j \in E(cpods)
        BY <1>1, <3>1 DEF Active, Targeted
      <4> QED
        BY <3>1, <4>1
    <3> HIDE DEF A, E
    <3> QED
      BY <1>3, <3>1, <3>2
  <2> QED
    BY <2>1, <2>2
<1> QED
    BY <1>2, <1>4 DEF Unmet, EffectiveSpot

\* The watches.
LEMMA DeliverSchedule ==
    ASSUME CacheInv, ScheduleInv, ~Excused, Deliver
    PROVE  Excused' \/ ScheduleInv'
<1> SUFFICES ASSUME ~Excused'
             PROVE  ScheduleInv'
    OBVIOUS
<1>1. ~queued' /\ ~CachedOrphan' /\ TracksFallback(cplan)
    BY DEF Excused
<1>2. CASE DeliverPlan
    BY <1>2, PlanDelivered
<1>3. CASE DeliverCondition
    BY <1>1, <1>3 DEF DeliverCondition
<1>4. CASE DeliverStatus
    BY <1>4, ScheduleKept DEF DeliverStatus
<1>5. ASSUME NEW i \in Pods, DeliverPod(i)
      PROVE  ScheduleInv'
  <2>1. UNCHANGED <<worker, cplan, timer, now>>
    BY <1>5 DEF DeliverPod
  <2>2. InFallback(cpods', cnode') = InFallback(cpods, cnode)
    BY <1>1, <1>5, SilentPod
  <2>3. \A j \in InFallback(cpods, cnode) : cpods'[j].since = cpods[j].since
    BY <1>1, <1>5, SilentPod, DueTyped
  <2>4. Unmet(cplan, cpods', cnode') => Unmet(cplan, cpods, cnode)
    BY <1>1, <1>5, SilentPodShare
  <2> QED
    BY <2>1, <2>2, <2>3, <2>4, ScheduleKept
<1>6. ASSUME NEW n \in SpotNodes, DeliverNode(n)
      PROVE  ScheduleInv'
  <2>1. UNCHANGED <<worker, cplan, timer, now, cpods>>
    BY <1>6 DEF DeliverNode
  <2>2. /\ InFallback(cpods', cnode') = InFallback(cpods, cnode)
        /\ EffectiveSpot(cpods', cnode') = EffectiveSpot(cpods, cnode)
    BY <1>1, <1>6, SilentNode
  <2>3. Unmet(cplan, cpods', cnode') => Unmet(cplan, cpods, cnode)
    BY <2>1, <2>2 DEF Unmet
  <2> QED
    BY <2>1, <2>2, <2>3, ScheduleKept
<1> QED
    BY <1>2, <1>3, <1>4, <1>5, <1>6 DEF Deliver

\* Everything else.
LEMMA EnvironmentSchedule ==
    ASSUME CacheInv, ScheduleInv, Environment
    PROVE  ScheduleInv'
<1>1. UNCHANGED <<worker, cplan, timer, cpods, cnode>>
    BY DEF Environment, Admit, Bind, End, RemovePod, ChangeNode, ChangeStatus, ChangePlan, Tick, cluster, caches
<1>2. now' = now \/ (worker = Idle /\ now' = now + 1)
    BY DEF Environment, Admit, Bind, End, RemovePod, ChangeNode, ChangeStatus, ChangePlan, Tick, Quiet
<1> QED
    BY <1>1, <1>2, ScheduleKept

\* What the worker knows and the cache says is the same after a step that changes neither the cache nor the clock.
LEMMA CacheFacts ==
    ASSUME UNCHANGED <<cpods, cnode, cplan, now>>
    PROVE  /\ Candidates' = Candidates /\ Overdue' = Overdue
           /\ InFallback(cpods, cnode)' = InFallback(cpods, cnode)
           /\ Unmet(cplan, cpods, cnode)' = Unmet(cplan, cpods, cnode)
           /\ \A i, T : Covered(i, T)' = Covered(i, T)
<1>1. Candidates' = Candidates /\ \A i : CachedDue(i)' = CachedDue(i)
    BY DEF Candidates, CachedDue
<1>2. Overdue' = Overdue
    BY <1>1 DEF Overdue
<1>3. ASSUME NEW i, NEW T
      PROVE  Covered(i, T)' = Covered(i, T)
    BY <1>1, <1>2 DEF Covered
<1> QED
    BY <1>1, <1>2, <1>3

\* The worker takes down what the cache has.
LEMMA ClassifySchedule ==
    ASSUME CacheInv, Classify
    PROVE  Excused' \/ ScheduleInv'
<1> SUFFICES ASSUME TracksFallback(cplan)
             PROVE  ScheduleInv'
    BY DEF Classify, caches, Excused
<1> DEFINE F == InFallback(cpods, cnode)
           T == [i \in F |-> PodFallbackStartTime(cpods[i])]
           S == EffectiveSpot(cpods, cnode)
           A == Cardinality(Active(cpods))
<1>1. UNCHANGED <<cpods, cnode, cplan, now, timer>>
    BY DEF Classify, caches
<1>2. /\ worker'.pc = "set" /\ worker'.plan = cplan /\ worker'.fallback = F /\ worker'.since = T
      /\ worker'.spot = S /\ worker'.active = A
    BY DEF Classify
<1>3. \A i \in F : T[i] = cpods[i].since
    BY DEF PodFallbackStartTime
<1>4. SpotShareMet(S, A, cplan.ratio) => ~Unmet(cplan, cpods, cnode)
    BY DEF Unmet
<1> HIDE DEF F, T, S, A
<1>5. InFallback(cpods', cnode') = F
    BY <1>1 DEF F
<1>6. Snapshot'
    BY <1>1, <1>2, <1>3, <1>4, <1>5 DEF Snapshot
<1>7. worker' # Idle /\ worker'.pc # "evict"
    BY <1>2 DEF Idle
<1> QED
    BY <1>2, <1>5, <1>6, <1>7 DEF ScheduleInv

\* reconcileSpotReversion begins its loop, or has nothing to do.
LEMMA BeginSchedule ==
    ASSUME CacheInv, ScheduleInv, ~Excused, worker.pc = "set", BeginReversion, UNCHANGED <<cpods, cnode, cplan, now>>
    PROVE  ScheduleInv'
<1>1. /\ worker \in WorkerType /\ worker # Idle
    BY WorkerAtWork DEF CacheInv, TypeInv
<1>2. Snapshot /\ worker.fallback = InFallback(cpods, cnode) /\ worker.plan = cplan
    BY <1>1 DEF ScheduleInv, Snapshot
<1>3. SpotCapacityAvailable(cstatus, cnode)
    BY DEF Excused
<1>4. /\ Candidates' = Candidates
      /\ InFallback(cpods, cnode)' = InFallback(cpods, cnode)
      /\ Unmet(cplan, cpods, cnode)' = Unmet(cplan, cpods, cnode)
    BY CacheFacts
<1>5. CASE worker.fallback # {} /\ (worker.plan.action = "Active" \/ cplan.max # None)
  <2>1. worker' = [worker EXCEPT !.pc = "evict", !.max = cplan.max]
    BY <1>3, <1>5 DEF BeginReversion
  <2>2. /\ worker'.pc = "evict" /\ worker'.max = cplan.max /\ worker'.plan = worker.plan
        /\ worker'.fallback = worker.fallback /\ worker'.since = worker.since
        /\ worker'.spot = worker.spot /\ worker'.active = worker.active
    BY <1>1, <2>1 DEF WorkerType
  <2>3. Snapshot'
    BY <1>2, <1>4, <2>2 DEF Snapshot
  <2>4. Candidates' \ worker'.fallback = {}
    BY <1>2, <1>4, <2>2 DEF Candidates
  <2>5. worker' # Idle /\ worker'.pc # "set"
    BY <2>2 DEF Idle
  <2> QED
    BY <2>2, <2>3, <2>4, <2>5 DEF ScheduleInv
<1>6. CASE ~(worker.fallback # {} /\ (worker.plan.action = "Active" \/ cplan.max # None))
  <2>1. worker' = Idle
    BY <1>6 DEF BeginReversion, Done
  <2>2. ASSUME NEW i \in Candidates
        PROVE  CachedDue(i)' = {}
    BY <1>2, <1>6, <2>2 DEF CachedDue, Candidates
  <2>3. \A i \in Candidates' : Covered(i, timer)'
    BY <1>4, <2>2 DEF Covered
  <2>4. worker'.pc # "set" /\ worker'.pc # "evict"
    BY <2>1 DEF Idle
  <2> QED
    BY <2>1, <2>3, <2>4 DEF ScheduleInv
<1> QED
    BY <1>5, <1>6

\* Setting the condition.
LEMMA SetSchedule ==
    ASSUME CacheInv, ScheduleInv, ~Excused, SetCondition
    PROVE  Excused' \/ ScheduleInv'
<1>1. worker.pc = "set" /\ UNCHANGED <<cpods, cnode, cplan, now>>
    BY DEF SetCondition, caches
<1>2. CASE BeginReversion
    BY <1>1, <1>2, BeginSchedule
<1>3. CASE queued'
    BY <1>3 DEF Excused
<1> QED
    BY <1>2, <1>3 DEF SetCondition

\* The end of the loop, or its being left: the timer is what Deadline says.
LEMMA DoneSchedule ==
    ASSUME UNCHANGED <<cpods, cnode, cplan, now>>, NEW requeue \in Nat, Done(requeue),
           \A i \in Candidates : Covered(i, Deadline(requeue))
    PROVE  ScheduleInv'
<1>1. worker' = Idle /\ timer' = Deadline(requeue)
    BY DEF Done, Deadline
<1>2. PICK T : T = Deadline(requeue)
    OBVIOUS
<1>3. ASSUME NEW i \in Candidates
      PROVE  Covered(i, timer)'
  <2>1. Covered(i, T)'
    BY <1>2, <1>3, CacheFacts
  <2>2. timer' = T
    BY <1>1, <1>2
  <2> QED
    BY <2>1, <2>2 DEF Covered
<1>4. worker'.pc # "set" /\ worker'.pc # "evict"
    BY <1>1 DEF Idle
<1> QED
    BY <1>1, <1>3, <1>4, CacheFacts DEF ScheduleInv

\* A Pod is visited and stays: it is covered by the requeue it asks for, and the others as before.
LEMMA VisitSchedule ==
    ASSUME CacheInv, ScheduleInv, worker.pc = "evict", UNCHANGED <<cpods, cnode, cplan, now, timer>>,
           NEW i \in worker.fallback, NEW d \in Nat,
           worker' = [worker EXCEPT !.fallback = worker.fallback \ {i}, !.requeue = MinPositive(worker.requeue, d)],
           i \in Owned => Covered(i, Deadline(MinPositive(worker.requeue, d)))
    PROVE  ScheduleInv'
<1>1. worker \in WorkerType /\ worker # Idle
    BY WorkerAtWork DEF CacheInv, TypeInv
<1>2. worker.requeue \in Nat /\ now \in Nat /\ timer \in Nat \cup {None}
    BY <1>1 DEF WorkerType, CacheInv, TypeInv, StateInv
<1>3. /\ worker'.pc = "evict" /\ worker'.max = worker.max /\ worker'.plan = worker.plan
      /\ worker'.fallback = worker.fallback \ {i} /\ worker'.since = worker.since
      /\ worker'.spot = worker.spot /\ worker'.active = worker.active
      /\ worker'.requeue = MinPositive(worker.requeue, d)
    BY <1>1 DEF WorkerType
<1>4. Snapshot /\ worker.max = cplan.max /\ \A j \in Candidates \ worker.fallback : Covered(j, Deadline(worker.requeue))
    BY <1>1 DEF ScheduleInv
<1>5. /\ Candidates' = Candidates
      /\ InFallback(cpods, cnode)' = InFallback(cpods, cnode)
      /\ Unmet(cplan, cpods, cnode)' = Unmet(cplan, cpods, cnode)
    BY CacheFacts
<1>6. Snapshot'
    BY <1>3, <1>4, <1>5 DEF Snapshot
<1>7. PICK T : T = Deadline(MinPositive(worker.requeue, d))
    OBVIOUS
<1>8. ASSUME NEW j \in Candidates \ (worker.fallback \ {i})
      PROVE  Covered(j, T)
  <2>1. CASE j = i
    BY <1>7, <1>8, <2>1 DEF Candidates
  <2>2. CASE j # i
    <3>1. PICK T0 : T0 = Deadline(worker.requeue)
      OBVIOUS
    <3>2. Covered(j, T0)
      BY <1>4, <1>8, <2>2, <3>1
    <3>3. PICK r \in Nat : r = worker.requeue
      BY <1>2
    <3>4. Sooner(T, T0)
      BY <1>2, <1>7, <3>1, <3>3, DeadlineSooner
    <3> QED
      BY <1>2, <3>2, <3>4, CoveredSooner, WaitsTyped
  <2> QED
    BY <2>1, <2>2
<1>9. ASSUME NEW j \in Candidates' \ worker'.fallback
      PROVE  Covered(j, Deadline(worker.requeue))'
  <2>1. Covered(j, T)'
    BY <1>3, <1>5, <1>8, <1>9, CacheFacts
  <2>2. Deadline(worker.requeue)' = T
    BY <1>3, <1>7 DEF Deadline
  <2> QED
    BY <2>1, <2>2 DEF Covered
<1>10. worker' # Idle /\ worker'.pc # "set"
    BY <1>3 DEF Idle
<1> QED
    BY <1>3, <1>4, <1>6, <1>9, <1>10 DEF ScheduleInv

\* The steps of the loop.
LEMMA LoopSchedule ==
    ASSUME CacheInv, ScheduleInv, ~Excused,
           NEW i \in Pods, Skip(i) \/ Evict(i) \/ EvictNotFound(i) \/ EvictRefused(i) \/ EvictFailed(i)
    PROVE  Excused' \/ ScheduleInv'
<1>1. worker.pc = "evict" /\ i \in worker.fallback
    BY DEF Skip, Evict, EvictNotFound, EvictRefused, EvictFailed, Evicting, Oldest
<1>2. /\ worker \in WorkerType /\ worker # Idle /\ i \in DOMAIN worker.since
      /\ worker.since[i] <= now
    BY <1>1, WorkerAtWork DEF CacheInv, TypeInv
<1>3. worker.requeue \in Nat /\ now \in 0 .. MaxTime /\ now \in Nat /\ timer \in Nat \cup {None} /\ StateInv
    BY <1>2 DEF WorkerType, CacheInv, TypeInv, StateInv
<1>4. Snapshot /\ worker.max = cplan.max
    BY <1>1, <1>2 DEF ScheduleInv
<1>5. UNCHANGED <<cpods, cnode, cplan, now>>
    BY DEF Skip, Evict, EvictNotFound, EvictRefused, EvictFailed, caches
<1>6. i \in InFallback(cpods, cnode) /\ Exists(cpods[i]) /\ cpods[i].active
    BY <1>1, <1>4, DueTyped DEF Snapshot
<1>7. CASE Skip(i)
  <2>1. PICK d \in Nat : d = Decision(worker, i, now).wait
    BY <1>2, <1>3, DecisionTyped
  <2>2. worker' = [worker EXCEPT !.fallback = worker.fallback \ {i}, !.requeue = MinPositive(worker.requeue, d)]
    BY <1>7, <2>1 DEF Skip
  <2>3. i \in Owned => Covered(i, Deadline(MinPositive(worker.requeue, d)))
    BY <1>1, <1>2, <1>4, <1>7, <2>1, SkippedCovered DEF Skip
  <2>4. timer' = timer
    BY <1>7 DEF Skip
  <2> QED
    BY <1>1, <1>5, <2>2, <2>3, <2>4, VisitSchedule
<1>8. CASE Evict(i)
  <2>1. Exists(pods'[i]) /\ pods'[i].active = FALSE
    BY <1>3, <1>8, PodChange
  <2>2. EndUnseen'
    BY <1>5, <1>6, <2>1 DEF EndUnseen
  <2> QED
    BY <2>2 DEF Excused
<1>9. CASE EvictNotFound(i)
  <2>1. EndUnseen
    BY <1>6, <1>9 DEF EndUnseen, EvictNotFound
  <2> QED
    BY <2>1 DEF Excused
<1>10. CASE EvictRefused(i)
  <2>1. Overdue
    BY <1>1, <1>2, <1>4, <1>10, EvictedOverdue DEF EvictRefused, Evicting
  <2>2. ASSUME NEW d \in Waits, d > 0, NEW j
        PROVE  Covered(j, Deadline(MinPositive(worker.requeue, d)))
    <3>1. d \in Nat
      BY WaitsTyped
    <3>2. PICK T : T = Deadline(MinPositive(worker.requeue, d))
      OBVIOUS
    <3>3. T \in Nat /\ T <= now + d
      BY <1>3, <2>2, <3>1, <3>2, DeadlineSooner
    <3> QED
      BY <1>3, <2>1, <3>2, <3>3, CoveredByRetry
  <2>3. CASE timer' = timer /\ \E d \in {RetryDelay, TooNewDelay} :
                 worker' = [worker EXCEPT !.fallback = @ \ {i}, !.requeue = MinPositive(@, d)]
    <3>1. PICK d \in {RetryDelay, TooNewDelay} :
              worker' = [worker EXCEPT !.fallback = worker.fallback \ {i}, !.requeue = MinPositive(worker.requeue, d)]
      BY <2>3
    <3>2. d \in Waits /\ d \in Nat /\ d > 0
      BY TimesAssumption DEF Waits
    <3>3. Covered(i, Deadline(MinPositive(worker.requeue, d)))
      BY <2>2, <3>2
    <3> QED
      BY <1>1, <1>5, <2>3, <3>1, <3>2, <3>3, VisitSchedule
  <2>4. CASE Done(MinPositive(worker.requeue, NextWindow(now)))
    <3>1. PICK d \in Waits : d = NextWindow(now) /\ d > 0
      BY <1>3, NextWindowTyped DEF Waits
    <3>2. PICK r \in Nat : r = MinPositive(worker.requeue, d)
      BY <1>3, MinPositiveTyped, WaitsTyped
    <3>3. \A j \in Candidates : Covered(j, Deadline(r))
      BY <2>2, <3>1, <3>2
    <3> QED
      BY <1>5, <2>4, <3>1, <3>2, <3>3, DoneSchedule
  <2> QED
    BY <1>10, <2>3, <2>4 DEF EvictRefused
<1>11. CASE EvictFailed(i)
    BY <1>11 DEF EvictFailed, Excused
<1> QED
    BY <1>7, <1>8, <1>9, <1>10, <1>11

\* ReversionInv is inductive.
LEMMA ReversionStep ==
    ASSUME ReversionInv, [Next]_vars
    PROVE  ReversionInv'
<1>1. CacheInv /\ CacheInv' /\ (Excused \/ ScheduleInv)
    BY CacheStep DEF ReversionInv
<1> SUFFICES Excused' \/ ScheduleInv'
    BY <1>1 DEF ReversionInv
<1>2. CASE UNCHANGED vars
  <2>1. UNCHANGED <<pods, cpods, cnode, cstatus, cplan, worker, queued, timer, now>>
    BY <1>2 DEF vars, cluster, caches
  <2>2. Excused => Excused'
    BY <2>1 DEF Excused, CachedOrphan, EndUnseen
  <2>3. ScheduleInv => ScheduleInv'
    BY <1>1, <2>1, ScheduleKept
  <2> QED
    BY <1>1, <2>2, <2>3
<1>3. CASE Next /\ Classify
    BY <1>1, <1>3, ClassifySchedule
<1>4. CASE Next /\ ~Classify /\ Excused
    BY <1>1, <1>4, ExcusedStill
<1>5. CASE Next /\ ~Classify /\ ~Excused /\ ScheduleInv
  <2>1. CASE Deliver
    BY <1>1, <1>5, <2>1, DeliverSchedule
  <2>2. CASE Environment
    BY <1>1, <1>5, <2>2, EnvironmentSchedule
  <2>3. CASE SetCondition
    BY <1>1, <1>5, <2>3, SetSchedule
  <2>4. CASE EndReversion
    <3>1. worker \in WorkerType /\ worker # Idle
      BY <1>1, <2>4, WorkerAtWork DEF EndReversion, CacheInv, TypeInv
    <3>2. PICK r \in Nat : r = worker.requeue
      BY <3>1 DEF WorkerType
    <3>3. \A i \in Candidates : Covered(i, Deadline(r))
      BY <1>5, <2>4, <3>2 DEF EndReversion, ScheduleInv
    <3>4. Done(r) /\ UNCHANGED <<cpods, cnode, cplan, now>>
      BY <2>4, <3>2 DEF EndReversion, caches
    <3> QED
      BY <3>3, <3>4, DoneSchedule
  <2>5. CASE Requeue
    BY <2>5 DEF Requeue, Excused
  <2>6. ASSUME NEW i \in Pods, Skip(i) \/ Evict(i) \/ EvictNotFound(i) \/ EvictRefused(i) \/ EvictFailed(i)
        PROVE  Excused' \/ ScheduleInv'
    BY <1>1, <1>5, <2>6, LoopSchedule
  <2> QED
    BY <1>5, <2>1, <2>2, <2>3, <2>4, <2>5, <2>6 DEF Next, Controller
<1> QED
    BY <1>1, <1>2, <1>3, <1>4, <1>5

\* At rest, with Spot capacity there, every Pod in fallback has a reconcile coming by the time it may or must
\* be evicted, or a retry when an eviction was refused: whatever ended, changed or was delivered in between.
THEOREM SpotReversionScheduled == Spec => []ReversionScheduled
<1>1. ASSUME ReversionInv
      PROVE  ReversionScheduled
  <2> DEFINE refused == \E i \in InFallback(pods, node) \cap Owned, t \in 0 .. now : t \in Due(i)
  <2> SUFFICES ASSUME Quiet, \A i \in Pods : ~Orphaned(i), TracksFallback(plan), SpotCapacityAvailable(status, node),
                      ShareUnmet \/ plan.max # None, NEW i \in InFallback(pods, node) \cap Owned
               PROVE  /\ Due(i) # {} => timer # None
                      /\ \A t \in Due(i) : (ShareUnmet \/ t = pods[i].since + plan.max) =>
                                               timer <= t \/ (refused /\ \E d \in Waits : timer - now <= d)
    BY DEF ReversionScheduled
  <2>1. cpods = pods /\ cnode = node /\ cstatus = status /\ cplan = plan /\ worker = Idle /\ ~queued
    BY DEF Quiet
  <2>2. ~Excused
    <3>1. ~CachedOrphan
      BY <2>1 DEF CachedOrphan, Orphaned, IsSpotNode
    <3>2. ~EndUnseen
      BY <2>1 DEF EndUnseen
    <3> QED
      BY <2>1, <3>1, <3>2 DEF Excused
  <2>3. CacheInv /\ i \in Candidates /\ Covered(i, timer) /\ now \in Nat
    BY <1>1, <2>1, <2>2 DEF ReversionInv, ScheduleInv, Candidates, CacheInv, TypeInv, StateInv
  <2>4. ASSUME NEW j \in Candidates
        PROVE  Due(j) = CachedDue(j)
    <3>1. cpods[j].since \in Nat /\ cplan.min \in Nat /\ (cplan.max # None => cplan.max \in Nat)
      BY <2>3, <2>4, DueTyped DEF Candidates
    <3>2. \A t : t \in Due(j) <=> \/ plan.max # None /\ t = pods[j].since + plan.max
                                  \/ plan.action = "Active" /\ t = pods[j].since + plan.min
      BY DEF Due
    <3>3. \A t : t \in Due(j) => t \in Nat
      BY <2>1, <3>1, <3>2
    <3> QED
      BY <2>1, <3>2, <3>3 DEF CachedDue
  <2>5. Unmet(cplan, cpods, cnode) <=> ShareUnmet
    BY <2>1 DEF Unmet, ShareUnmet
  <2>6. Overdue => refused
    <3>1. ASSUME NEW j \in Candidates, NEW t \in CachedDue(j), t <= now
          PROVE  refused
      BY <2>1, <2>3, <2>4, <3>1 DEF Candidates, CachedDue
    <3> QED
      BY <3>1 DEF Overdue
  <2>7. ASSUME NEW t \in Due(i), ShareUnmet \/ (plan.max # None /\ t = pods[i].since + plan.max)
        PROVE  timer \in Nat /\ (timer <= t \/ (refused /\ \E d \in Waits : timer - now <= d))
    <3>1. t \in CachedDue(i)
      BY <2>3, <2>4
    <3> HIDE DEF refused
    <3> QED
      BY <2>1, <2>3, <2>5, <2>6, <2>7, <3>1 DEF Covered
  <2>8. ASSUME Due(i) # {}
        PROVE  timer # None
    <3>1. CASE ShareUnmet
      BY <2>7, <2>8, <3>1, TimesAssumption
    <3>2. CASE plan.max # None
      <4>1. pods[i].since + plan.max \in Due(i)
        BY <3>2 DEF Due
      <4> QED
        BY <2>7, <3>2, <4>1, TimesAssumption
    <3> QED
      BY <3>1, <3>2
  <2> HIDE DEF refused
  <2> QED
    BY <2>7, <2>8
<1>2. Init => ReversionInv
  <2>1. ASSUME Init
        PROVE  ScheduleInv
    <3>1. Candidates = {}
      BY <2>1 DEF Init, Candidates, InFallback, Active, Exists
    <3> QED
      BY <2>1, <3>1 DEF Init, ScheduleInv, Idle
  <2> QED
    BY <2>1, CacheInit DEF ReversionInv
<1>3. ReversionInv /\ [Next]_vars => ReversionInv'
    BY ReversionStep
<1> QED
    BY <1>1, <1>2, <1>3, PTL DEF Spec
=============================================================================
