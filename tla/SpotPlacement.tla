--------------------------- MODULE SpotPlacement ---------------------------
(***************************************************************************)
(* The Pods of one WorkloadClass that targets Spot: the Pod placement      *)
(* webhook decides where each new Pod may run, the GKE Spot placement      *)
(* controller records in the InFallback condition whether Pods that target *)
(* Spot run elsewhere, and evicts those Pods when Spot capacity is back.   *)
(*                                                                         *)
(* Both read one cache, and every informer of the cache (Pods, Nodes, the  *)
(* autoscaler's ConfigMap, the class with its policy and guardrails) is    *)
(* behind by itself.  The class is validated and attached throughout:      *)
(* PlacementHandshake is about how it gets there.  Pods are those of a     *)
(* ReplicaSet, so a name is never used twice.                              *)
(***************************************************************************)
EXTENDS Integers, FiniteSetsExt

CONSTANTS
    Pods,         \* 1 .. n, the names of the Pods in the order of their creation
    Owned,        \* the Pods that have a controller
    SpotNodes,    \* names of Spot nodes; every other node is "ondemand"
    None,         \* no node, no time, no limit
    NoPod, Gone,  \* a Pod that is still to be created, one that has been deleted
    Plans,        \* what class, policy and guardrails say: [ratio, fallback, action, min, max, budgets]
    Statuses,     \* cluster-autoscaler-status: Missing, Unparsable or the set of its Spot node groups
    Missing, Unparsable,
    Starts,       \* the nodes and the status to start from: [node, status]
    Windows,      \* the times at which disruptions are allowed
    RetryDelay, TooNewDelay,
    MaxTime,      \* bound on the clock
    MaxEvents     \* bound on changes of nodes, autoscaler status and plan, and on Pods that end by themselves

\* A Pod; since is when it was bound, or created if it is not bound yet.
PodType ==
    [place : {"strict", "flexible", "ondemand"}, node : SpotNodes \cup {"ondemand", None}, since : Nat, active : BOOLEAN]

NodeStates == {"absent", "notReady", "ready"}

ASSUME PodsAssumption ==
    /\ Owned \subseteq Pods /\ IsFiniteSet(Pods) /\ Pods = 1 .. Cardinality(Pods)
    /\ NoPod # Gone /\ NoPod \notin PodType /\ Gone \notin PodType
    /\ {"ondemand", None} \cap SpotNodes = {} /\ None # "ondemand"
ASSUME TimesAssumption ==
    /\ RetryDelay \in Nat \ {0} /\ TooNewDelay \in Nat \ {0} /\ MaxTime \in Nat /\ Windows \subseteq Nat /\ None \notin Nat
    /\ MaxEvents \in Nat
ASSUME InputsAssumption ==
    /\ \A p \in Plans : /\ p.ratio \in 0 .. 100 /\ p.fallback \in BOOLEAN /\ p.action \in {"Active", "Lazy", "None"}
                        /\ p.min \in Nat /\ p.max \in Nat \cup {None} /\ \A b \in p.budgets : b.n \in Int
    /\ \A start \in Starts : start.node \in [SpotNodes -> NodeStates] /\ start.status \in Statuses

VARIABLES
    pods, cpods,       \* the Pods, and the cached ones
    node, cnode,       \* Spot nodes: "absent", "notReady", "ready"
    status, cstatus,   \* the autoscaler's status
    plan, cplan,       \* the plan
    fb, cfb,           \* the InFallback condition: "Absent", "True", "False"
    worker, queued,    \* the controller's worker, and whether the class is queued
    timer,             \* when the class is queued again, None if it is not
    now,               \* the time
    events,            \* changes so far
    undisturbed,       \* history: whether every Pod was placed with all others in view, and none has ended
    raced              \* history: the Pods admitted before all others were in view and bound, or under another plan

cluster == <<pods, node, status, plan, fb>>
caches  == <<cpods, cnode, cstatus, cplan, cfb>>
vars    == <<cluster, caches, worker, queued, timer, now, events, undisturbed, raced>>

-----------------------------------------------------------------------------
(* Spot ratio *)

\* Mutant: the new Pod is not counted in the total.
ShouldUseSpotOfExisting(spot, total, ratio) == spot * 100 < total * ratio

ShouldUseSpot(spot, total, ratio) == spot * 100 < (total + 1) * ratio

SpotShareMet(spot, total, ratio) == total <= 0 \/ ~ShouldUseSpot(spot, total - 1, ratio)

\* fallbackWithinBudget: a budget is a percentage of the Pods or a number of them; one that is not valid is skipped.
FallbackWithinBudget(fallback, total, budget) ==
    \/ budget.kind = "Percent" /\ (budget.n \in 0 .. 100 => fallback * 100 <= total * budget.n)
    \/ budget.kind = "Count"   /\ (budget.n >= 0 => fallback <= budget.n)

-----------------------------------------------------------------------------
(* Pods and nodes *)

Exists(pod)   == pod \notin {NoPod, Gone}
Targeted(pod) == pod.place \in {"strict", "flexible"}   \* IsPodTargetedForSpot

\* IsPodActive, over a set of Pods as the cluster or the cache has them.
Active(ps) == {i \in Pods : Exists(ps[i]) /\ ps[i].active}

IsSpotNode(ns, n) == n \in SpotNodes /\ ns[n] # "absent"

\* countWorkloadClassPods.  A node that is not found says nothing about the Pod, so its targeting decides.
CountWorkloadClassPods(ps, ns) ==
    LET active == Active(ps)
    IN  [total         |-> Cardinality(active),
         effectiveSpot |-> Cardinality({i \in active :
                               \/ IsSpotNode(ns, ps[i].node)
                               \/ ps[i].node # "ondemand" /\ Targeted(ps[i])}),
         fallback      |-> Cardinality({i \in active : ps[i].node = "ondemand" /\ Targeted(ps[i])})]

\* Mutant: one guardrail with room left is enough, as if the most generous of them counted.
BudgetExhaustedEverywhere(counts, cond, budgets) ==
    /\ counts.fallback > 0 \/ cond = "True"
    /\ budgets # {} /\ \A b \in budgets : ~FallbackWithinBudget(counts.fallback + 1, counts.total + 1, b)

\* fallbackBudgetExhausted.
FallbackBudgetExhausted(counts, cond, budgets) ==
    /\ counts.fallback > 0 \/ cond = "True"
    /\ \E b \in budgets : ~FallbackWithinBudget(counts.fallback + 1, counts.total + 1, b)

\* mutatePodPlacement: only On-Demand, only Spot (strict), or Spot preferred (flexible).  (An OnDemand class
\* is one with ratio 0.)
Placement(p, counts, cond) ==
    LET sticky == p.action = "None" /\ p.fallback /\ (cond = "True" \/ counts.fallback > 0)
    IN  IF p.ratio = 0 \/ sticky \/ (p.ratio < 100 /\ ~ShouldUseSpot(counts.effectiveSpot, counts.total, p.ratio))
        THEN "ondemand"
        ELSE IF p.fallback /\ ~FallbackBudgetExhausted(counts, cond, p.budgets) THEN "flexible" ELSE "strict"

TracksFallback(p) == p.ratio > 0 /\ p.fallback

\* classifyWorkloadPods.  Here a Pod on a node that is not listed as a Spot node is in fallback.
InFallback(ps, ns) ==
    {i \in Active(ps) : ps[i].node # None /\ ~IsSpotNode(ns, ps[i].node) /\ Targeted(ps[i])}

\* Mutant: a Pod that targets Spot and runs there is counted twice.
EffectiveSpotTwice(ps, ns) ==
    Cardinality({i \in Active(ps) : Targeted(ps[i])}) + Cardinality({i \in Active(ps) : IsSpotNode(ns, ps[i].node)})

\* effectiveSpot: Pods on Spot nodes, and unscheduled ones that target Spot.
EffectiveSpot(ps, ns) ==
    Cardinality({i \in Active(ps) : IF ps[i].node = None THEN Targeted(ps[i]) ELSE IsSpotNode(ns, ps[i].node)})

\* podFallbackStartTime: the start, else the binding, else the creation of the Pod; here one time, that of its
\* creation until it is bound.
PodFallbackStartTime(pod) == pod.since

\* Mutant: the latch of reversion None is not released when the workload scales to zero.
DesiredNeverReleased(p, ps, ns, cond) ==
    CASE ~TracksFallback(p)       -> "Absent"
      [] TracksFallback(p) /\ InFallback(ps, ns) # {} -> "True"
      [] OTHER -> IF cond = "True" /\ p.action = "None" THEN "True" ELSE "False"

\* desiredFallbackCondition; "leave it" is the condition there is.
DesiredFallbackCondition(p, ps, ns, cond) ==
    CASE ~TracksFallback(p)       -> "Absent"
      [] TracksFallback(p) /\ InFallback(ps, ns) # {} -> "True"
      [] OTHER -> IF cond = "True" /\ p.action = "None" /\ Active(ps) # {} THEN "True" ELSE "False"

-----------------------------------------------------------------------------
(* Spot capacity *)

IsSpotNodeGroupAvailable(g) == g.healthy /\ ~g.backoff /\ ~g.error

\* What spotCapacityFromAutoscalerStatus returns of a status that is there.
Reading(s) ==
    IF s = Unparsable THEN [available |-> FALSE, found |-> FALSE, parsed |-> FALSE]
    ELSE [available |-> \E g \in s : IsSpotNodeGroupAvailable(g), found |-> s # {}, parsed |-> TRUE]

HasReadySpotNodes(ns) == \E n \in SpotNodes : ns[n] = "ready"   \* ready: schedulable, and Ready is True

\* checkSpotCapacity: Ready Spot nodes count when the autoscaler says nothing about Spot.
SpotCapacityAvailable(s, ns) ==
    IF s # Missing /\ Reading(s).found THEN Reading(s).available
    ELSE HasReadySpotNodes(ns)

-----------------------------------------------------------------------------
(* Initial state: an empty workload whose class the controller has reconciled *)

Idle == [pc |-> "idle"]

Init ==
    /\ pods = [i \in Pods |-> NoPod] /\ cpods = pods
    /\ \E start \in Starts : node = start.node /\ status = start.status
    /\ cnode = node /\ cstatus = status
    /\ plan \in Plans /\ cplan = plan
    /\ fb = DesiredFallbackCondition(plan, pods, node, "Absent") /\ cfb = fb
    /\ worker = Idle /\ queued = FALSE /\ timer = None
    /\ now = 0 /\ events = 0 /\ undisturbed = TRUE /\ raced = {}

-----------------------------------------------------------------------------
(* The webhook, the scheduler, the kubelet, node pools and users *)

\* All Pods are in view, also where they run, and so is what is said of them.
InView == cplan = plan /\ cpods = pods /\ \A i \in Active(pods) : pods[i].node # None

\* Admission of a new Pod.  The counts are taken from the cache, which may miss Pods admitted before.
Admit(i) ==
    /\ pods[i] = NoPod /\ \A j \in Pods : j < i => pods[j] # NoPod
    /\ pods' = [pods EXCEPT ![i] =
           [place |-> Placement(cplan, CountWorkloadClassPods(cpods, cnode), cfb), node |-> None, since |-> now,
            active |-> TRUE]]
    /\ undisturbed' = (undisturbed /\ cpods = pods)
    /\ raced' = raced \cup (IF InView THEN {} ELSE {i})
    /\ UNCHANGED <<node, status, plan, fb, caches, worker, queued, timer, now, events>>

\* External: the scheduler binds a Pod to a node that its placement allows.
Bind(i) ==
    /\ Exists(pods[i]) /\ pods[i].active /\ pods[i].node = None
    /\ \E n \in {m \in SpotNodes : node[m] = "ready" /\ Targeted(pods[i])}
                \cup {m \in {"ondemand"} : pods[i].place # "strict"} :
           pods' = [pods EXCEPT ![i].node = n, ![i].since = now]
    /\ UNCHANGED <<node, status, plan, fb, caches, worker, queued, timer, now, events, undisturbed, raced>>

Event == events < MaxEvents /\ events' = events + 1

\* External: a Pod ends by itself or is deleted.
End(i) ==
    /\ Event /\ Exists(pods[i]) /\ pods[i].active
    /\ pods' = [pods EXCEPT ![i].active = FALSE]
    /\ undisturbed' = FALSE
    /\ UNCHANGED <<node, status, plan, fb, caches, worker, queued, timer, now, raced>>

\* External: a Pod that has ended, or whose node is gone, is removed.
RemovePod(i) ==
    /\ Exists(pods[i])
    /\ ~pods[i].active \/ (pods[i].node \in SpotNodes /\ ~IsSpotNode(node, pods[i].node))
    /\ pods' = [pods EXCEPT ![i] = Gone]
    /\ undisturbed' = FALSE
    /\ UNCHANGED <<node, status, plan, fb, caches, worker, queued, timer, now, events, raced>>

\* External: a Spot node comes, goes or changes its readiness.  A watch tells of every change.
ChangeNode(n, s) ==
    /\ Event /\ s # node[n] /\ cnode[n] = node[n]
    /\ node[n] = "absent" => \A i \in Pods : \A pod \in {pods[i], cpods[i]} : Exists(pod) => pod.node # n
    /\ node' = [node EXCEPT ![n] = s]
    /\ UNCHANGED <<pods, status, plan, fb, caches, worker, queued, timer, now, undisturbed, raced>>

\* External: the autoscaler writes its status.
ChangeStatus(s) ==
    /\ Event /\ s # status
    /\ status' = s
    /\ UNCHANGED <<pods, node, plan, fb, caches, worker, queued, timer, now, undisturbed, raced>>

\* The class, its policy or a guardrail is edited.
ChangePlan(p) ==
    /\ Event /\ p # plan
    /\ plan' = p /\ undisturbed' = FALSE /\ raced' = {i \in Pods : pods[i] # NoPod}
    /\ UNCHANGED <<pods, node, status, fb, caches, worker, queued, timer, now>>

-----------------------------------------------------------------------------
(* Watches *)

\* podPlacementChangePredicate.
PodPlacementChanged(old, new) ==
    \/ ~Exists(old) /\ Exists(new) /\ new.node # None
    \/ Exists(old) /\ Exists(new) /\ (old.node # new.node \/ old.active # new.active)
    \/ Exists(old) /\ ~Exists(new)

DeliverPod(i) ==
    /\ cpods[i] # pods[i]
    /\ cpods' = [cpods EXCEPT ![i] = pods[i]]
    /\ queued' = (queued \/ (TracksFallback(cplan) /\ PodPlacementChanged(cpods[i], pods[i])))
    /\ UNCHANGED <<cluster, cnode, cstatus, cplan, cfb, worker, timer, now, events, undisturbed, raced>>

\* spotNodeReadinessPredicate.
DeliverNode(n) ==
    /\ cnode[n] # node[n]
    /\ cnode' = [cnode EXCEPT ![n] = node[n]]
    /\ queued' = (queued \/ (TracksFallback(cplan) /\ "ready" \in {cnode[n], node[n]}))
    /\ UNCHANGED <<cluster, cpods, cstatus, cplan, cfb, worker, timer, now, events, undisturbed, raced>>

\* Mutant: only a change of availability counts, not that the autoscaler no longer speaks of Spot.
StatusChangedInAvailability(old, new) ==
    Missing \in {old, new} \/ Reading(old).available # Reading(new).available

\* clusterAutoscalerStatusPredicate.
StatusChanged(old, new) == Missing \in {old, new} \/ Reading(old) # Reading(new)

DeliverStatus ==
    /\ cstatus # status
    /\ cstatus' = status
    /\ queued' = (queued \/ (TracksFallback(cplan) /\ StatusChanged(cstatus, status)))
    /\ UNCHANGED <<cluster, cpods, cnode, cplan, cfb, worker, timer, now, events, undisturbed, raced>>

\* An edit of the class always wakes its controller, one of the policy or a guardrail if fallback is tracked.
DeliverPlan ==
    /\ cplan # plan
    /\ cplan' = plan
    /\ queued' = (queued \/ TracksFallback(plan) \/ <<plan.ratio, plan.fallback>> # <<cplan.ratio, cplan.fallback>>)
    /\ UNCHANGED <<cluster, cpods, cnode, cstatus, cfb, worker, timer, now, events, undisturbed, raced>>

DeliverCondition ==
    /\ cfb # fb
    /\ cfb' = fb /\ queued' = TRUE
    /\ UNCHANGED <<cluster, cpods, cnode, cstatus, cplan, worker, timer, now, events, undisturbed, raced>>

-----------------------------------------------------------------------------
(* The controller *)

\* The class and its policy are read, Spot nodes are listed and Pods classified.
Classify ==
    /\ worker = Idle /\ queued
    /\ queued' = FALSE
    /\ worker' = [pc       |-> "set",
                  plan     |-> cplan,
                  desired  |-> DesiredFallbackCondition(cplan, cpods, cnode, cfb),
                  fallback |-> IF TracksFallback(cplan) THEN InFallback(cpods, cnode) ELSE {},
                  since    |-> [i \in InFallback(cpods, cnode) |-> PodFallbackStartTime(cpods[i])],
                  spot     |-> EffectiveSpot(cpods, cnode),
                  active   |-> Cardinality(Active(cpods)),
                  max      |-> None,
                  requeue  |-> 0]
    /\ UNCHANGED <<cluster, caches, timer, now, events, undisturbed, raced>>

MinPositive(a, b) ==
    CASE a <= 0 -> b
      [] a > 0 /\ b <= 0 -> a
      [] OTHER -> IF a < b THEN a ELSE b

\* The end of a reconcile; of two times to requeue a class, the queue keeps the sooner one.
Done(requeue) ==
    /\ worker' = Idle
    /\ timer' = IF requeue <= 0 THEN timer
                ELSE IF timer = None \/ now + requeue < timer THEN now + requeue ELSE timer

\* reconcileSpotReversion up to its loop.
BeginReversion ==
    IF /\ worker.fallback # {}
       /\ worker.plan.action = "Active" \/ cplan.max # None
       /\ SpotCapacityAvailable(cstatus, cnode)
    THEN worker' = [worker EXCEPT !.pc = "evict", !.max = cplan.max] /\ UNCHANGED timer
    ELSE Done(0)

\* setFallbackCondition, and on to reversion.  When the class it reads is out of date the update fails, and so
\* does the reconcile.
SetCondition ==
    /\ worker.pc = "set"
    /\ \/ /\ cfb = worker.desired
          /\ BeginReversion /\ UNCHANGED <<fb, queued>>
       \/ /\ cfb # worker.desired /\ cfb = fb
          /\ fb' = worker.desired
          /\ BeginReversion /\ UNCHANGED queued
       \/ /\ cfb # worker.desired /\ cfb # fb
          /\ worker' = Idle /\ queued' = TRUE /\ UNCHANGED <<fb, timer>>
    /\ UNCHANGED <<pods, node, status, plan, caches, now, events, undisturbed, raced>>

\* Mutant: the minimum time on fallback is not waited for.
DecisionWithoutFloor(w, i, t) ==
    LET elapsed  == t - w.since[i]
        untilMax == IF w.max = None THEN 0 ELSE w.max - elapsed
    IN  IF i \notin Owned THEN [evict |-> FALSE, wait |-> 0]
        ELSE IF w.max # None /\ elapsed >= w.max THEN [evict |-> TRUE, wait |-> 0]
        ELSE IF w.plan.action # "Active" \/ SpotShareMet(w.spot, w.active, w.plan.ratio)
        THEN [evict |-> FALSE, wait |-> untilMax]
        ELSE [evict |-> TRUE, wait |-> 0]

\* The switch of the loop at time t: whether Pod i is evicted, and how long to wait for it if not (0: no need to).
Decision(w, i, t) ==
    LET elapsed  == t - w.since[i]
        untilMax == IF w.max = None THEN 0 ELSE w.max - elapsed
    IN  IF i \notin Owned THEN [evict |-> FALSE, wait |-> 0]
        ELSE IF w.max # None /\ elapsed >= w.max THEN [evict |-> TRUE, wait |-> 0]
        ELSE IF w.plan.action # "Active" \/ SpotShareMet(w.spot, w.active, w.plan.ratio)
        THEN [evict |-> FALSE, wait |-> untilMax]
        ELSE IF elapsed < w.plan.min THEN [evict |-> FALSE, wait |-> MinPositive(w.plan.min - elapsed, untilMax)]
        ELSE [evict |-> TRUE, wait |-> 0]

\* The fallback Pods are visited oldest first, those of one age by name.
Oldest(w, i) ==
    /\ i \in w.fallback
    /\ \A j \in w.fallback \ {i} : w.since[i] < w.since[j] \/ (w.since[i] = w.since[j] /\ i < j)

\* The loop is through.
EndReversion ==
    /\ worker.pc = "evict" /\ worker.fallback = {}
    /\ Done(worker.requeue)
    /\ UNCHANGED <<cluster, caches, queued, now, events, undisturbed, raced>>

Skip(i) ==
    /\ worker.pc = "evict" /\ Oldest(worker, i) /\ ~Decision(worker, i, now).evict
    /\ worker' = [worker EXCEPT !.fallback = @ \ {i}, !.requeue = MinPositive(@, Decision(worker, i, now).wait)]
    /\ UNCHANGED <<cluster, caches, queued, timer, now, events, undisturbed, raced>>

\* Where the loop calls the Eviction API.
Evicting(i) ==
    /\ worker.pc = "evict" /\ Oldest(worker, i) /\ Decision(worker, i, now).evict

Evict(i) ==
    /\ Evicting(i) /\ Exists(pods[i])
    /\ pods' = [pods EXCEPT ![i].active = FALSE]
    /\ worker' = [worker EXCEPT !.fallback = @ \ {i}, !.spot = @ + 1]
    /\ undisturbed' = FALSE
    /\ UNCHANGED <<node, status, plan, fb, caches, queued, timer, now, events, raced>>

EvictNotFound(i) ==
    /\ Evicting(i) /\ ~Exists(pods[i])
    /\ worker' = [worker EXCEPT !.fallback = @ \ {i}]
    /\ UNCHANGED <<cluster, caches, queued, timer, now, events, undisturbed, raced>>

NextWindow(t) == LET later == {w \in Windows : w > t} IN IF later = {} THEN MaxTime + 1 - t ELSE Min(later) - t

\* A PodDisruptionBudget or the disruption webhook refuses; outside the windows the loop is left.
EvictRefused(i) ==
    /\ Evicting(i) /\ Exists(pods[i])
    /\ \/ /\ now \in Windows
          /\ \E d \in {RetryDelay, TooNewDelay} :
                 worker' = [worker EXCEPT !.fallback = @ \ {i}, !.requeue = MinPositive(@, d)]
          /\ UNCHANGED timer
       \/ now \notin Windows /\ Done(MinPositive(worker.requeue, NextWindow(now)))
    /\ UNCHANGED <<cluster, caches, queued, now, events, undisturbed, raced>>

\* Any other error ends the reconcile, and the class is queued again.
EvictFailed(i) ==
    /\ Evicting(i) /\ Event
    /\ worker' = Idle /\ queued' = TRUE
    /\ UNCHANGED <<cluster, caches, timer, now, undisturbed, raced>>

Requeue ==
    /\ timer # None /\ timer <= now
    /\ timer' = None /\ queued' = TRUE
    /\ UNCHANGED <<cluster, caches, worker, now, events, undisturbed, raced>>

-----------------------------------------------------------------------------
\* Nothing is queued, running or undelivered.
Quiet ==
    /\ worker = Idle /\ ~queued
    /\ cpods = pods /\ cnode = node /\ cstatus = status /\ cplan = plan /\ cfb = fb

\* Time passes more slowly than watches and reconciles.
Tick ==
    /\ Quiet /\ (timer # None => timer > now)
    /\ now < MaxTime /\ now' = now + 1
    /\ UNCHANGED <<cluster, caches, worker, queued, timer, events, undisturbed, raced>>

Controller ==
    \/ Classify \/ SetCondition \/ EndReversion \/ Requeue
    \/ \E i \in Pods : Skip(i) \/ Evict(i) \/ EvictNotFound(i) \/ EvictRefused(i) \/ EvictFailed(i)

Deliver ==
    \/ \E i \in Pods : DeliverPod(i)
    \/ \E n \in SpotNodes : DeliverNode(n)
    \/ DeliverStatus \/ DeliverPlan \/ DeliverCondition

Environment ==
    \/ \E i \in Pods : Admit(i) \/ Bind(i) \/ End(i) \/ RemovePod(i)
    \/ \E n \in SpotNodes, s \in NodeStates : ChangeNode(n, s)
    \/ \E s \in Statuses : ChangeStatus(s)
    \/ \E p \in Plans : ChangePlan(p)
    \/ Tick

Next == Controller \/ Deliver \/ Environment

Spec == Init /\ [][Next]_vars

-----------------------------------------------------------------------------
(* Properties *)

\* Every piece of state has its type, and a worker has what its next step needs; what it counts stays within
\* the number of Pods, although it counts a Pod as Spot as soon as it is evicted.
TypeOK ==
    /\ \A i \in Pods : \A pod \in {pods[i], cpods[i]} : Exists(pod) => pod \in PodType /\ pod.since <= now
    /\ {node, cnode} \subseteq [SpotNodes -> NodeStates]
    /\ {status, cstatus} \subseteq Statuses /\ {plan, cplan} \subseteq Plans /\ {fb, cfb} \subseteq {"Absent", "True", "False"}
    /\ worker # Idle => /\ worker.pc \in {"set", "evict"} /\ worker.plan \in Plans /\ worker.desired \in {"Absent", "True", "False"}
                        /\ worker.fallback \subseteq Pods /\ worker.fallback \subseteq DOMAIN worker.since
                        /\ worker.active \in 0 .. Cardinality(Pods) /\ worker.spot \in 0 .. worker.active
                        /\ worker.max \in Nat \cup {None} /\ worker.requeue \in Nat
    /\ queued \in BOOLEAN /\ timer \in Nat \cup {None} /\ now \in 0 .. MaxTime /\ events \in 0 .. MaxEvents
    /\ undisturbed \in BOOLEAN /\ raced \subseteq Pods

\* A Pod whose node is gone is about to be removed.
Orphaned(i) == Exists(pods[i]) /\ pods[i].node \in SpotNodes /\ ~IsSpotNode(node, pods[i].node)

\* When everything is at rest, InFallback says whether Pods that target Spot run on On-Demand nodes: no
\* wake-up that its predicates filter out was needed.  Only reversion None keeps it True, and only while
\* there are Pods.
ConditionAtRest ==
    Quiet /\ (\A i \in Pods : ~Orphaned(i)) =>
        IF ~TracksFallback(plan) THEN fb = "Absent"
        ELSE IF InFallback(pods, node) # {} THEN fb = "True"
        ELSE fb = "False" \/ (fb = "True" /\ plan.action = "None" /\ Active(pods) # {})

\* The waits that a refused eviction leads to.
Waits == {RetryDelay, TooNewDelay} \cup {NextWindow(t) : t \in 0 .. MaxTime}

\* The times at which Pod i may be evicted, or must be.
Due(i) ==
    {pods[i].since + plan.max : x \in {plan.max} \ {None}}
    \cup {pods[i].since + plan.min : x \in {plan.action} \cap {"Active"}}

\* The Spot share, once every Pod meant for On-Demand is scheduled: until then its creation goes unnoticed.
ShareUnmet ==
    /\ \A i \in Active(pods) : pods[i].place = "ondemand" => pods[i].node # None
    /\ ~SpotShareMet(EffectiveSpot(pods, node), Cardinality(Active(pods)), plan.ratio)

\* When everything is at rest and Spot capacity is there, every Pod in fallback has a reconcile coming by the
\* time it is to be evicted.  Where the time of a Pod is over, its eviction may have been refused, and all
\* wait for the retry or for the next window.
ReversionScheduled ==
    LET candidates == InFallback(pods, node) \cap Owned
        refused    == \E i \in candidates, t \in 0 .. now : t \in Due(i)
    IN  Quiet /\ (\A i \in Pods : ~Orphaned(i)) /\ (timer # None => timer > now) /\ TracksFallback(plan) /\ SpotCapacityAvailable(status, node)
        /\ (ShareUnmet \/ plan.max # None) =>
            \A i \in candidates :
                /\ Due(i) # {} => timer # None
                /\ \A t \in Due(i) : (ShareUnmet \/ t = pods[i].since + plan.max) =>
                                         timer <= t \/ (refused /\ \E d \in Waits : timer - now <= d)

\* The controller evicts no Pod from a Spot node that is there, although it may have seen the Pod before the node.
EvictsOnlyFallback ==
    [][\A i \in Pods : Evict(i) => ~IsSpotNode(node, pods[i].node) /\ pods[i].node # None]_vars

\* While every Pod is placed with all others in view, none ends and none is in fallback, the Pods that target Spot
\* are as many as the ratio asks for and not one more.  (Under reversion None a Pod that is taken for one in
\* fallback, because its Spot node is not cached yet, may turn later Pods to On-Demand: README.md.)
RatioHeld ==
    LET active == Active(pods)
        spot   == Cardinality({i \in active : Targeted(pods[i])})
        n      == Cardinality(active)
    IN  undisturbed /\ plan.ratio \in 1 .. 99 /\ plan.action # "None" /\ InFallback(pods, node) = {} =>
            /\ spot * 100 >= n * plan.ratio
            /\ spot > 0 => (spot - 1) * 100 < n * plan.ratio

\* Of the Pods that target Spot and run on On-Demand nodes, those admitted with all others in view and bound are
\* never more than one, or than every guardrail's maxFallbackRatio allows, however many others raced past it, and
\* whatever the cache, the condition and the evictions did meanwhile.  (The first Pod is let through; a percentage
\* is of the Pods there were, so it says nothing once one has ended: README.md, Budget and ratio.)
BudgetHeld ==
    LET active   == Active(pods)
        fallback == {i \in active : Targeted(pods[i]) /\ pods[i].node = "ondemand"} \ raced
        ended    == \E i \in Pods : pods[i] # NoPod /\ i \notin active
    IN  \/ Cardinality(fallback) <= 1
        \/ \A b \in plan.budgets : \/ b.kind = "Percent" /\ ended
                                   \/ FallbackWithinBudget(Cardinality(fallback), Cardinality(active), b)
=============================================================================
