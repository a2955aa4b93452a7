# A TLA+ model of the WorkloadClass controller

`WorkloadClass` is a Kubernetes custom resource that says when the Pods it
selects may be disrupted. A controller keeps one PodDisruptionBudget (PDB) per
Pod, an admission webhook decides on evictions and grants short *leases* to
allowed subjects, and further controllers and webhooks place Pods on spot
nodes. This directory holds TLA+ models of that code, the TLC runs that check
them on small instances, and TLAPS proofs that hold for instances of any size.

Source paths are relative to the repository (`internal/...` is
`src/internal/...` in `PROJECT.json`).

## 1. Inventory

| Component | State | Operations | Talks to |
|---|---|---|---|
| WorkloadClass controller (`internal/controller/workloadclass_controller.go`) | none of its own: workqueue, informer caches, RequeueAfter timers; writes WorkloadClass status, the `pod-uid` label of Pods, PDBs | `Reconcile` (validation, readiness, status update, `reconcilePDBs`, `openOwnedPDBs`), watches and map functions of `SetupWithManager` | API server, informers, lease tracker |
| Per-Pod PDB helpers (`internal/utils/pdb.go`) | the PDB's spec, owner, labels, two lease annotations | sync, lease, `AllowLease`, `SubjectAlreadyLeasing`, coverage by user PDBs | controller and webhook |
| Best match (`internal/utils/workloadclass.go`) | - | enforced class of the namespace, specificity, age | everybody |
| Disruption windows (`internal/utils/temporal.go`) | - | `IsTimeInWindows`: in a window? when to look again? | controller, webhook |
| Pending lease tracker (`internal/utils/lease_tracker.go`) | map class -> Pod -> request under a mutex, bounded event channel | `Enqueue`, `Drain`, `signal` | written by webhook goroutines, drained by the controller |
| Disruption webhook (`internal/webhook/disruption_webhook.go`) | - | `Handle`: allow, deny, or ask for a lease | tracker, caches |
| Validation and guardrails (`internal/utils/guardrail.go`, guardrail controller and webhook) | `Validated` condition | folds all guardrails into the strictest, checks a spec against them | controller, policy controller |
| Spot guardrails (`internal/utils/gkespotguardrail*.go`) | - | decode and validate the parameters of the `gke-spot-placement` plugin | guardrail webhook, all placement code |
| Selector overlap (`internal/utils/selector.go`) | - | can two selectors match one label set | validation |
| Placement policy controller (`gkespotplacementpolicy_controller.go`) | `PlacementPluginAttached` condition of the classes that reference a policy, `Validated` of the policy | judges a policy, stamps the classes | WorkloadClass controller (both write the status) |
| Spot placement controller (`internal/controller/gkespotplacement_controller.go`, `spot_*.go`) | `InFallback` condition, timers | classifies Pods, records fallback, evicts Pods when Spot capacity is back | Pods, Nodes, the autoscaler's ConfigMap, Pod webhook |
| Pod webhook, fallback budget (`internal/webhook/v1/`) | - | places new Pods on Spot, On-Demand or either, by ratio, budget and the conditions | reads what the three controllers write |
| Manager (`cmd/main.go`) | - | flags and wiring | all |

**What is hard here.** Every decision is read from an informer cache that lags
behind the API server; a reconcile takes several API calls, between which
users, workload controllers, the garbage collector, the webhook and the *other*
WorkloadClass' reconciles act; watch events are filtered by predicates, so a
missed wake-up leaves a Pod unprotected (or blocked) until the next resync; the
webhook and the controller hand requests over through a mutex-protected map and
a channel that may be full; leases and readiness end by a timer only; three
controllers write conditions of one status, each woken by the others' writes;
Pods are counted from a cache while others are admitted.

**What makes it correct.** Once the controller has nothing left to do, each Pod
that a valid class governs is under exactly one PDB, for this Pod instance,
closed unless a lease runs or the class is Ready. A user's PDB is never touched
and another class' PDB never deleted. A lease goes only to a subject that asked
for it, for the instance it asked for, and no request is forgotten. Ready never
outlives the window, and webhook and controller agree on it. At rest the three
conditions are about the present spec, policy, guardrails and Pods; Pods are
only placed by a strategy that was validated; a set of guardrails asks for what
each of them asks for; a Pod may run where its own affinity and the placement
both allow; Pods in fallback are moved back in time, and no others.
`PROJECT.json` lists the hazards line by line, with the
properties that would catch each.

## 2. Modules

| Module | Models |
|---|---|
| `LeaseRequest` | a lease request, and the rule by which `Enqueue` keeps or replaces one |
| `PerPodPDB` | Pods, PDBs, WorkloadClasses as the code tells them apart, and the pure functions on them: best match, order of the `Validated` reasons, lease predicates, claim/sync/lease of a PDB |
| `WorkloadClassController` | API server, informers, workqueue, one worker running `Reconcile`, timers, disruption webhook, users, kubelet, garbage collector |
| `MCController` | instances of it: ages, specs, namespaces |
| `LeaseHandoff` | abstract: record-and-wake is one step, drain is one step |
| `PendingLeaseTracker` | the tracker with its goroutines, mutex, channel and dispatcher; implements `LeaseHandoff` |
| `DisruptionWindows` | `IsTimeInWindows`, and the windows as the repository's README describes them, stated independently |
| `MaintenanceReadiness`, `MCReadiness` | `calculateReadiness` and its requeue against a clock, Pods and policy changes |
| `Guardrails` | a guardrail, every check of a class, a policy or a guardrail, and what the README promises of several guardrails |
| `SelectorOverlap` | `SelectorsOverlap`, and the meaning of a selector |
| `ValidationRules` | the two above while guardrails and selectors change |
| `PodAffinity` | what the Pod webhook writes into a Pod, and where the scheduler may then run it |
| `MCRules` | instances of `ValidationRules` and `PodAffinity` |
| `PlacementHandshake`, `MCHandshake` | the three controllers that write one class' conditions, the gate of the Pod webhook |
| `SpotPlacement`, `MCSpot` | ratio, budget and placement of new Pods, the `InFallback` condition, capacity, reversion and its timers |
| `WorkloadClassControllerProofs`, `PendingLeaseTrackerProofs`, `MaintenanceReadinessProofs`, `RulesProofs` (lemmas on `Guardrails` and `SelectorOverlap`), `ValidationRulesProofs`, `PodAffinityProofs`, `PlacementHandshakeProofs`, `SpotPlacementProofs` | theorems and proofs |

`WorkloadClassController` EXTENDS `PerPodPDB`, which EXTENDS `LeaseRequest`; the
tracker and its abstraction use the same `LeaseRequest`. The controller model
records a request and queues its class in one step: that this is a sound view
of the tracker is what `ImplementsHandoff` says (the exception, a full channel,
is explicit there). `MaintenanceReadiness` EXTENDS `DisruptionWindows` and
assumes that a Pod change queues its class, which the controller model
establishes through its watches. `PlacementHandshake` EXTENDS `Guardrails` and
`SelectorOverlap` and works out the verdicts that are one flag in the controller
model; `SpotPlacement` follows the Pods of a class that is validated and
attached, which `PlacementHandshake` is about.

### The controller model

*State.* `pod`, `pdb`, `wc`, `ns` are the stored objects of one namespace;
`cpod`, `cpdb`, `cwc`, `cns` the informers' copies. `pdbStale` and `wcStale` say
that the cached resourceVersion is not the stored one, so an update or a
precondition based on it conflicts; the `gen`/`obs`/`reason`/`readiness` fields
of a class are its status. `podEvents` and `pdbEvents` hold what undelivered
watch events will hand to the map functions. `pending` is the tracker's map,
`queue` the workqueue, `timer` the RequeueAfter instants, `wk` the local
variables of the running `Reconcile`.

*Steps.* There is one step per write to the API server, since reads come from
caches and nothing else is visible to others:

| Action | Code |
|---|---|
| `BeginReconcile`, `ReconcileDeleted` | `Reconcile` up to and including the status update; a class that is gone |
| `ListCluster`, `ListFails` | `Drain` and the lists of `reconcilePDBs`, `governedPods`; a list that fails |
| `DecidePod`, `LabelFails` | `reconcilePodPDB` up to its switch, `ensurePodUIDLabel` included |
| `ApplyPod`, `ApplyFails` | `leasePodPDB`, `syncPodPDB`: CreateOrUpdate with `claimPDB`; the put back after an error |
| `BeginOwned`, `VisitOwned`, `OwnedFails` | the loop over owned PDBs: leave for adoption or `deletePDB` with preconditions |
| `OpenOwned` | `openOwnedPDBs` of a class that failed validation |
| `EndReconcile`, `TimerFires` | requeue on error, RequeueAfter |
| `Restart` | the manager starts anew: caches are listed, every class is queued, requests and timers are gone |
| `DeliverPod/PDB/WC/NS`, `RelistPod` | informers, with the predicates and map functions of `SetupWithManager` |
| `Handle`, `Evict` | the webhook's decision for an allowed subject outside windows; the API server's eviction |
| `CreatePod` ... `CollectPDB`, `ChangeNS`, `Tick` | environment |

*Abstractions.* A Pod's labels are one member of `Labels`, so a selector is the
set of labels it matches. A label or annotation that is absent is 0 or `None`.
The guardrail checks are one flag of a spec (`bad`: it breaks the guardrail
whenever one exists; `Guardrails` has them in full); the
`PlacementPluginAttached` condition, which the status update carries along, is
in `PlacementHandshake`. Time is outside every disruption window and before the
overdue deadline, so that only the emergency override makes a class Ready;
windows have their own module. The lists of `reconcilePDBs` are one step, so
deliveries between two of them are left out (the reads of single PDBs after them
are steps of their own, and do see later deliveries). A lagging informer catches up to the latest object in one
step, with the events of the intermediate ones. `ListFails` drains and puts
back in one step; the interleavings in between are those of
`PendingLeaseTracker`. A user's PDB named `workload-<pod>` selects nothing; user
PDBs of other names are `ns.cover`. The periodic resync is left out: the
properties say what holds without it.

### The tracker model

Each webhook goroutine has a program counter: it has read the Pod (`record`),
has recorded its request and released the mutex (`signal`), and then sends
without blocking. `Dispatch` is controller-runtime's channel source. The worker
takes a class, may fail before draining (`Abort`), drains, and for each request
applies it or puts it back, which is again record, then signal. Pods are
replaced under their names (`Replace`).

The refinement mapping maps `queue` of `LeaseHandoff` to `WakeUps`: the classes
that are queued, on the channel, about to be signalled by a goroutine that has
recorded, or requeued when the failing reconcile returns. `forgotten` is
`overflowed`.

### Windows and readiness

An instant is a number of slots, a day has `DayLen` and a week `WeekLen`, a time
zone is a fixed offset. `InWindow` states the documented meaning in terms of
occurrences (day of start, length, the first instant included and the last not),
not of the code's two cases; `InOpenedWindow` is the same without the instants at
which a window opens, where the code differs (*Start instant* below). A queued
reconcile runs before time passes; a timer runs at its instant or one slot
late, and the properties say nothing (`Due`) while it is late. `Admits` is the
webhook's own decision on an eviction by somebody without privileges, from the
clock and the recorded readiness; `WebhookAgrees` relates it to the controller's.

### Guardrails, selectors, affinity

A guardrail is a record of the limits it sets; a percentage or a mode that does
not parse is `Invalid`, a field that is not given `Unset`, and `parses` says
whether the plugin's parameters survive decoding. `DisruptionViolations` and
`CapacityViolations` fold a *list* of guardrails the way the code does, into one
effective guardrail, and `Respects...` say independently that every single
guardrail is respected (Forbidden before Required). `PolicyViolations` judges a
policy by each guardrail on its own, as the code does, so it has no such property;
the hand-shake uses it. A selector is a set of
requirements; its reference meaning ranges over all label sets, with a value
(`Other`) that no requirement names and an absent label.

In `PodAffinity` a node selector requirement is the set of nodes that satisfy
it, a term a set of requirements, and terms are alternatives; the reference is
the scheduler's rule. The preference for Spot nodes does not change where a Pod
may run and is left out.

### The hand-shake

One class is followed. `versions` is the sequence of its versions from the one
in the shared cache to the server's, so that delivery is `Tail` and a write needs
the cache to be current, as optimistic concurrency does; `MaxLag` bounds its
length. Each controller has a worker with a program counter (`central`,
`policy`, `placement`) and a deduplicating queue.

| Action | Code |
|---|---|
| `CentralGet`, `CentralJudge`, `CentralUpdate` | `Reconcile` of the WorkloadClass controller up to its status update: `validatedCondition`, `placementPluginCondition`, `reconcileConditions`; a conflict requeues |
| `PolicyGet`, `PolicyStatus`, `PolicyList`, `PolicyStamp` | the policy controller: verdict, its own status, the list of classes, `updateWorkloadClassStatus` on each |
| `PlacementGet`, `PlacementObserve`, `PlacementSet` | the placement controller: `isReady` and the pending exception, `desiredFallbackCondition`, `setFallbackCondition` |
| `DeliverClass`, `DeliverPolicy`, `DeliverGuardrails`, `DeliverOtherClass`, `DeliverPods` | the watches with their predicates and map functions |
| `EditClass`, `CreatePolicy`, ..., `MovePods` | users, administrators, the cluster |

A condition is its status, reason, the set of violations its message lists, the
policy its message names and the observed generation. Pods are one of "none",
"clean" (active, none in fallback) and "fallback". The retries of
`RetryOnConflict` are the same step taken later, or a requeue.

### Spot placement

Pods are numbered in the order of their creation; a Pod is placed "strict",
"flexible" or "ondemand", bound to a Spot node or to "ondemand", and active or
not. `plan` is what class, policy and guardrails together say. Each informer lags
by itself. On-Demand nodes are not modelled one by one and are always known, while
the code counts a targeted Pod on an On-Demand node that is not cached yet as one
on Spot. A Pod never changes its class: a relabel, which
`podPlacementChangePredicate` drops, is left out. A Pod's name is never used
again (*Replaced under its name* below). `undisturbed` and `raced` are history
variables, read by `RatioHeld` and `BudgetHeld` only. `Admit` is the webhook's `mutatePodPlacement` with the counts of the
cache; `Classify`, `SetCondition`, `Skip`, `Evict...`, `EndReversion` are the
steps of one reconcile, `Requeue` its timer. The wait that
`IsTimeInWindows` returns outside a window is here the time to the next opening
(see `DisruptionWindows` for what it really returns). Time advances only when
nothing is queued, running or undelivered and no timer is due: watches and
reconciles take seconds, the durations of policies minutes and more.

## 3. Runs

Each run is a `.cfg` of the same name. `CHECK_DEADLOCK FALSE` throughout: with
its bounded environment at its end the controller, or the tracker, rightly comes
to rest.

| Run | Question | Bounds |
|---|---|---|
| `Leases` | Do requests and leases survive races, failures and reuse of the Pod's name, and is every lease closed again? `TypeOK`, `NoLostRequest`, `LeaseWasRequested`, `ProtectedWhenQuiescent` | one class, one Pod, two subjects (symmetric), 2 evictions, 1 API failure or restart, 1 Pod change besides evictions, time 0..1 (a lease lasts 1) |
| `UserPDBs` | Does the controller respect users' PDBs and clean up? `ProtectedWhenQuiescent`, `CleanWhenQuiescent`, `UserPDBUntouched` | one class, 3 changes of Pods, PDBs and coverage, 1 failure or restart |
| `Handover` | Do two classes pass a Pod between them without a gap? `ProtectedWhenQuiescent`, `NoForeignDelete` | a second class appears; 3 changes by relabelling (or removal of the `pod-uid` label), enforced class, guardrails |
| `Deletion` | The same when classes are deleted or break a guardrail | two classes, 2 changes, garbage collector |
| `Progress` | Does the controller stop? `Settles`, under fairness | two classes, 2 changes, lost watches |
| `Tracker` | `TypeOK`, `NoLostWakeUp`, `ImplementsHandoff`, and `EventuallyDrained` under fairness | 2 goroutines, 2 classes, 2 subjects, 2 Pod instances, channel of capacity 1, 1 failure, 1 other event |
| `Readiness` | `TypeOK`, `WindowsOnceOpened`, `ReadyOnlyWhenAllowed`, `WebhookAgrees` | day of 4 slots, week of 3 days, 14 slots, 2 Pods, 2 changes, 68 policies: every proper window, pairs, whole days, none |
| `Rules` | Do folded guardrails accept exactly what each of them accepts; is the overlap exact; can each admitted guardrail be satisfied; is a placement binding? `DisruptionRulesRespected`, `CapacityRulesRespected`, `OverlapIsExact`, `AcceptedIsSatisfiable`, `PlacementEnforced` | up to 3 of 68 guardrails in every order, selectors of up to 2 requirements over 2 keys and 2 values, 4 nodes (Spot or not, two families), every Pod with any of 4 terms, with and without selectors and tolerations |
| `Handshake` | Are the conditions right at rest, is nothing placed by an unvalidated strategy, and do the controllers stop? `TypeOK`, `ConditionsAtRest`, `FallbackAtRest`, `MutatesOnlyValidated`, and `Settles` under fairness | one class with 3 specs (two policies, another kind of profile), 2 reversion policies, no or two guardrails, another class; 2 edits from a new class (its creation is one of them) and from one in fallback; the cache up to 2 versions behind |
| `Reversion` | Is `InFallback` right at rest, does every Pod in fallback have its reconcile coming, are ratio and fallback budget held, are only Pods in fallback evicted? `TypeOK`, `ConditionAtRest`, `ReversionScheduled`, `RatioHeld`, `BudgetHeld`, `EvictsOnlyFallback` | 2 Pods, 1 Spot node, 4 plans (Active, Lazy and None; ratio 50 and 100; a maximum time and two budgets, 40 % and a count of 2; without fallback), 3 states of the autoscaler, time 0..3, windows at 0 and 2, 2 changes or failures |

One Pod suffices for most controller runs, because the code treats the Pods of a
class one by one and shares between them only `failed` and `requeue`; the proofs
below hold for any number. Two classes are the least that can pass a Pod to and
fro; a channel of capacity 1 is the least that overflows. Two or three changes
are what each known race needs. `Leases` and `UserPDBs` include one
restart of the manager, in the middle of a lease too. In `Handshake` two edits
are what it takes to have a condition computed for one state written over
another; one version of lag is needed for a stale read, two for a read that is
stale by another controller's write and a user's. In `Reversion` two Pods are
the least with which one eviction changes the share the other is judged by; they
also suffice for the budget, whose first Pod is let through and whose second is not
(the proof is for any number).

The remaining runs are disagreements between the code and its comments; each
expects its property to be **violated**:

| Run | Shows |
|---|---|
| `LeaseOverwritten` | `reconcilePodPDB` decides to sync on one cached read, CreateOrUpdate acts on another; a lease delivered in between is closed although comments say an active lease is left untouched |
| `LatchLost` | a class in fallback with reversion None is edited; the WorkloadClass controller records the pending plugin, the policy controller attaches the new generation, and before the class is validated again it is neither ready nor pending: the placement controller clears the latched `InFallback`, which a comment says is left untouched |

**Other disagreements** met with the same models, by other bounds or
properties, not kept as runs:

- *Adoption lost.* CreateOrUpdate writes nothing because the cached PDB is as
  wanted, while another class has taken it over; that class is deleted, the
  garbage collector removes the PDB, and the governor is not told.
- *Later instance.* The `pod-uid` patch names the Pod only; a Pod that reuses the
  name gets the old instance's label and comes under its PDB.
- *Next change.* After today's window the requeue is a week, although the window
  opens tomorrow (`temporal.go`).
- *Start instant.* At `startTime` itself both `evaluateCrossMidnightWindow` and
  `evaluateSameDayWindow` compare with `now.After(start)` and say no
  (`temporal.go:171`, `:187`), and as it is not before `startTime` either the wait
  is a week. The comment at `temporal.go:169` says that `[start, 24:00)` is active,
  and the repository's README that 22:00-04:00 "covers Monday 22:00 to Tuesday
  04:00". Since the timer of a class outside its windows is set to exactly that
  instant, a reconcile that runs on it opens nothing and asks to look again a
  week later. `WindowsOnceOpened` exempts this instant and no other.
- *Unbounded.* A class without `maxNonDisruptionDurationDays` is Overdue from the
  start, though 0 is documented as no bound.
- *Ownership lags.* Two relabels in a row (`Kinds = {"relabel"}`, two classes):
  a governor that sees its own PDB in a stale cache writes nothing, and
  `GenerationChangedPredicate` drops the owner-only update, so at rest the PDB
  may be owned by a class that does not govern the Pod. The same root as
  lost adoption; it also appears with `spec` and `enforced` changes together,
  which is why `Handover` has no `spec` change and `Deletion` no `enforced` one.
  A PDB that becomes superfluous then may stay, as its owner is not told: the
  reason why `CleanWhenQuiescent` is checked and proved for one class.
- *Hidden lease end.* An update of the lease annotations alone raises no event.
  With the guardrails gone `openOwnedPDBs` drops a running lease and leaves the PDB
  open; a sync decided under the override before the lease was delivered does
  the same. If guardrails come back, or the override goes, before the informer
  has delivered that update, `reconcilePodPDB` still reads the lease, keeps the
  PDB, and it stays open with nobody holding a lease until the old expiry (one
  class, `Kinds = {"guardrails"}` or `{"spec"}`, one eviction).
- *Closed by a user.* A user sets `maxUnavailable` of a leased PDB back to 0; the
  reconcile that this wakes finds the lease running and leaves the PDB closed,
  so the subject's evictions are refused until the lease ends (one class,
  `Kinds = {"pdb"}`, one eviction).
- *Orphan.* `passedValidation` trusts the recorded condition of an older
  generation: a class that widens its selector and breaks a guardrail in one
  update is still counted on to adopt, never does, and the closed PDB stays.
- *Relist.* A Pod replaced during a lost watch is one update event; neither
  activity nor labels differ, `podPredicate` drops it, and the new instance has
  no PDB until something else queues the class. `RelistPod` is therefore in
  `Progress`, and not in the runs that check `ProtectedWhenQuiescent`.
- *Stale put back.* A request for the previous instance that is put back after
  an error replaces one recorded meanwhile for the newer instance
  (`reenqueueLeases`, `Enqueue`).
- *Whole-day windows on given days* (`startTime` = `endTime`): the wait is
  negative after that time of day, no requeue is set, and Ready outlives the
  day. `Readiness` has whole-day windows for every day only.
- *Foreign stamp.* The policy controller lists a class, the class turns to
  another kind of profile, and the stamp is written on the new generation all
  the same; `placementPluginCondition` then keeps it for good. Within the plugin's
  own kind the next reconcile repairs it, so the webhook may in between see a
  class attached through a policy it no longer references.
- *Stamp skipped.* A policy is deleted and created again; the second reconcile
  finds the condition it wants in a cached class and writes nothing, and the
  class keeps the "not found" of the first (`skipped` in `ConditionsAtRest`).
- *Condition out of scope.* A write of `InFallback` that is under way when the
  class leaves the plugin's scope comes after the clearing and stays
  (`FallbackAtRest` is about classes in scope).
- *Two gates.* `isReady` is said to be the gate of the webhook, but it does not
  compare generations.
- *Unknown nodes.* The webhook takes a targeted Pod on an unknown node for one on
  Spot, the controller for one in fallback. The deletion of a Spot node that is
  not ready wakes nobody (`Orphaned`).
- *Budget and ratio.* Admissions that race, and Pods that are still pending, each
  see the same remaining budget and ratio, so both can be exceeded (`undisturbed`
  in `RatioHeld`, `raced` in `BudgetHeld`). The budget is not looked at before the
  class is in fallback, so one Pod always falls back: the repository's README says
  that a `maxFallbackRatio` of `0` or `"0%"` disallows fallback, a comment in
  `fallback_budget.go:35` that the first Pod is meant to pass. A percentage that was
  kept may be exceeded when a Pod on Spot ends. A Pod created but not bound changes
  the share without a wake-up (`ShareUnmet`).
- *Too many evictions.* An evicted Pod stops being counted before its
  replacement is admitted; a second reconcile in between may evict another one.
- *Late by a refusal.* The retry after a refused eviction may come after
  `maxFallbackDuration` (`Waits` in `ReversionScheduled`).
- *Seen before its node.* A Pod that is cached while its Spot node is not is
  taken for one in fallback. Under reversion None, where `InFallback` stays, this
  turns later Pods to On-Demand although Spot has room (`RatioHeld` leaves
  reversion None out). With an explicit `minDurationOnFallback` or
  `maxFallbackDuration` of 0 such a Pod may even be evicted from its Spot node;
  the defaults, and any positive duration, prevent it (`EvictsOnlyFallback` is
  proved under `TimeOnFallback`, which says the durations are positive).
- *Replaced under its name.* `evictForReversion` posts an eviction by name with no
  UID as precondition (`spot_reversion.go:172`), and any controller may own the Pod
  (`:118`). A StatefulSet's Pod that was replaced under its name since the cache saw
  it, and now runs on Spot, can be evicted in place of the one that was in
  fallback. The Pods of the model are a ReplicaSet's, whose names are never used
  again: `EvictsOnlyFallback` and its theorem are about those.
- *Capacity error.* When `checkSpotCapacity` fails, reversion ends with neither an
  error nor a requeue.
- *Empty terms.* An existing node selector term without requirements matches
  nothing; combined with the webhook's terms it matches something, against the
  comment that existing requirements are preserved (`{} \notin asked.terms`).

**Mutants.** Each property of a passing run comes with a small plausible bug,
defined just before the definition it replaces (comments "Mutant"), under which
TLC finds the property violated.

## 4. Fairness

`WorkloadClassController!Fairness`: informers deliver, the worker goroutine
runs, timers fire and the garbage collector collects (weak fairness each). The
workqueue is first in, first out with no duplicates, so a class that is queued
again and again while the worker is free is eventually taken: strong fairness of
`BeginReconcile(w)` and `ReconcileDeleted(w)`. Users, Pods, the webhook's callers
and API failures have no fairness. `BeginReconcile` waits for the cache to catch
up where the code would fail with a conflict and be retried with back-off; the
retry succeeds once the informer has delivered, so no behaviour is lost at rest.

`PendingLeaseTracker!Fairness`: goroutines that entered `Enqueue` leave it, the
dispatcher and the worker run, the queue is first in, first out. New calls and
failures are not fair; a wake-up dropped by a full channel is exempt from
`EventuallyDrained`, because the code counts on "any other reconcile" then.

`PlacementHandshake!Fairness`: the watches deliver, and the three workers
together do not stop while one of them can take a step; no worker is given
priority and no edit is fair. That is less than controller-runtime guarantees,
and enough for `Settles`. `SpotPlacement` has no liveness property: what must
happen in time is the invariant `ReversionScheduled`.

## 5. Proofs

All constants are arbitrary: any sets of Pods, classes, subjects, labels and
goroutines, any bounds. The assumptions are `DistinctNames`, `AgeAssumption`,
`LeaseDurationAssumption` (a lease is longer than nothing), `SpecsAssumption`,
`InitialAssumption`, `BoundsAssumption`, and for the tracker `NoneIsNoName`,
`BufferSizeAssumption`, `TrackerBounds`, for readiness `CalendarAssumption`,
`PoliciesAssumption`, `HorizonAssumption`, for the rules `LabelAssumption`,
`InputsAssumption`, `NodesAssumption`, `AskedAssumption`, for the hand-shake
`BoundsAssumption`, `InputsAssumption`, `ClustersAssumption` (a class that is not
new has the conditions the controllers would write), for Spot placement
`PodsAssumption`, `TimesAssumption`, `InputsAssumption`; they give the types of the
constants, and TLC evaluates them in the runs.

Six theorems have a hypothesis of their own, stated in the theorem:
`ControllerCleanWhenQuiescent` that the namespace has one class (`OneClass`; it
is false with two, see *Ownership lags*), `ControllerProtectedWhenQuiescent` the
same and what `Steady` adds, each time because TLC refutes the property
otherwise: no Pod is replaced during a lost watch (*Relist*), and either nobody
evicts or users leave PDBs, specs and guardrails alone (*Hidden lease end*,
*Closed by a user*),
`ReadinessReadyOnlyWhenAllowed` and `ReadinessWebhookAgrees` that a whole-day
window is for every day (otherwise they are false, see *Whole-day windows*),
`SpotEvictsOnlyFallback` that the durations on fallback are positive (see *Seen
before its node*), `RulesAcceptedIsSatisfiable` that the two strategies and three
policies its proof uses as witnesses are among the inputs. The instances of the
runs satisfy all of them, except that `Handover` and `Deletion` have two
classes: there `ProtectedWhenQuiescent` is checked by TLC alone, for the changes
the runs allow.

| Theorem | Statement | Inductive invariant |
|---|---|---|
| `ControllerTypes` | `Spec => []TypeOK` | `TypeInv` = `TypeOK` and `WorkerOK`: while a reconcile runs its class is a class, while a write is decided its Pod is a Pod; without it the updates of `pending[wk.wc]` and `pdb[wk.cur.name]` have no type |
| `ControllerNoLostRequest` | `Spec => []NoLostRequest` | with `TypeInv`, itself |
| `ControllerUserPDBUntouched`, `ControllerNoForeignDelete` | `Spec => [][...]_vars` | `CacheCoherent`: a cached PDB that is not stale is the stored one. The code checks the *cached* PDB, and the API server the resourceVersion: the two together protect the *stored* one |
| `ControllerLeaseWasRequested` | `Spec => []LeaseWasRequested` | `LeaseInv`: every request in the tracker and every drained request was asked for, and a decided lease is for the instance its request names |
| `ControllerCleanWhenQuiescent` | `OneClass => (Spec => []CleanWhenQuiescent)` | `QuietInv`: what the caches agree on when no event is owed (`PodSync`, `PDBSync`, `WCSync`), the running reconcile works on values that are still cached or its class is queued (`SnapInv`), and a leftover PDB has its deletion coming (`CleanInv`): queued, an event under way, or before the worker |
| `ControllerProtectedWhenQuiescent` | `Steady => (Spec => []ProtectedWhenQuiescent)` | `ProtectInv`: besides `QuietInv` and `LeaseInv`, a Pod that needs a PDB has it `InPlace` or on its way (`SyncInv`); the Pod about to be written is the stored instance, with its label (`TodoInv`); a running lease in the cache is still on the stored PDB (`LeaseFresh`, with `LeaseShape` and `StaticInv`) |
| `TrackerTypes` | `Spec => []TypeOK` | `TypeInv` = `TypeOK` and `WellFormed` (calls in progress have a class, a Pod and a request; only a worker that is applying has failures or requests) |
| `TrackerNoLostWakeUp` | `Spec => []NoLostWakeUp` | with `TypeInv`, itself |
| `TrackerImplementsHandoff` | `Spec => LeaseHandoff!Spec` under the mapping above | each step maps to `Ask`, `Wake`, `Forget`, `Take`, `Abort`, `Drain`, `Apply`, `PutBack`, `Finish` or a stutter |
| `RulesTypes`, `RulesOverlapIsExact` | `ValidationRules!Spec => []...` | a label set that satisfies both selectors is put together key by key from what `Satisfiable` says of each key |
| `RulesDisruptionRulesRespected`, `RulesCapacityRulesRespected` | the same, for guardrail lists of any length | `Folded`: after each element of the list, the constraints are exactly what the elements so far ask for. That the fold has this property at its end is shown by the least index at which it would fail |
| `AffinityPlacementEnforced` | `AffinitySpec => []PlacementEnforced` | an unplaced Pod is as it was asked for; `RequireIsAnd`: the cross product of two sets of alternatives matches exactly the nodes both match |
| `RulesAcceptedIsSatisfiable` | `PlainInputs => (ValidationRules!Spec => []AcceptedIsSatisfiable)` | none (`TypeOK`): from what an accepted guardrail says follows which of two strategies (none; Spot only, at 100 %) and which of three policies it accepts |
| `ReadinessTypes` | `Spec => []TypeOK` | `TypeInv`: no Pod and no policy is from the future |
| `ReadinessWindowsOnceOpened` | `Spec => []WindowsOnceOpened` | none: for each of the code's cases (today, yesterday, crossing midnight, whole day) the window's occurrence that contains the instant, found by integer division of the local time |
| `ReadinessReadyOnlyWhenAllowed`, `ReadinessWebhookAgrees` | `Spec => []...` | `ReadyInv`: a class that is Ready and not queued stays allowed to be until its timer (`StaysReady`). `WindowsStay`: windows that are open stay open for the wait that `IsTimeInWindows` returns |
| `HandshakeTypes`, `HandshakeMutatesOnlyValidated` | `Spec => []...` | `HandshakeInv`: types, and every version of the class, also the copy in the worker, is `Sound`: a `Validated` condition of its own generation was computed from this spec and guardrails that were in force |
| `HandshakeConditionsAtRest`, `HandshakeFallbackAtRest` | `Spec => []...` | `RestInv`: for each condition, either it is the one wanted of the *cached* objects, or something that will repair it is queued, running or undelivered; and how generations order the versions (`GenerationsInv`), so that a stamp or status computed from an old version either conflicts or is of the present generation |
| `SpotTypes` | `Spec => []TypeOK` | `TypeInv`: the worker knows since when each Pod it is to visit is in fallback, and what it counts as Spot leaves room for those Pods |
| `SpotEvictsOnlyFallback` | `TimeOnFallback => (Spec => EvictsOnlyFallback)` | `EvictInv`: a cached Pod keeps placement and node (`PodsInv`), a Pod on a Spot node that is not cached was bound at this instant (`NodesInv`), as was a Pod to be visited that runs on a Spot node (`VisitInv`); so its time on fallback is 0 and it is not evicted |
| `SpotConditionAtRest` | `Spec => []ConditionAtRest` | `RestInv`: the condition fits the caches, or the class is queued, or the worker is about to write one that fits, or a Pod's node was deleted unnoticed |
| `SpotReversionScheduled` | `Spec => []ReversionScheduled` | `ReversionInv`: unless excused (queued, fallback not tracked, no capacity in the caches, an event under way or missed that the property excludes), each Pod in fallback is `Covered` by the timer, or while the loop runs by the requeue collected so far or by a visit still to come |
| `SpotRatioHeld` | `Spec => []RatioHeld` | `RatioInv`: while undisturbed the cached plan is the plan and, as long as no Pod that targets Spot runs on On-Demand, the share is what the ratio asks for; one admission keeps it so, by the arithmetic of `ShouldUseSpot` |
| `SpotBudgetHeld` | `Spec => []BudgetHeld` | `SpentInv`: the budgets also have room for the Pods that may still fall back (`MayFallBack`: placed "flexible", in view, not bound yet). An admission in view has no such Pod beside it, and is "flexible" only if the budgets have room for one more; binding takes a Pod from "may" to "does", and an end takes it out |

The preservation proofs have one lemma or step per action; actions that leave
the relevant variables alone share a "quiet" lemma.

**The argument at rest.** `Quiescent` says nothing about history, so both
properties need to know, at every moment, why the work still to be done will be
done. The reads of the controller are cached, and what the predicates of
`SetupWithManager` drop never comes to its notice; the first part of the
invariant is therefore what a dropped event may hide: of a Pod only a
`pod-uid` label that was added, of a PDB only its lease annotations (this is
where a second class would add the owner). If a step leaves the class
out of the workqueue (`Unwoken`, `NeedsStep`), nothing the class' reconcile
decides on has changed, so what the call in progress has read is still true,
and each of its steps either does the work for a Pod or leaves it ahead. A lease
needs more, since its end is known to the controller only as an annotation and a
timer: an update that ended it also closed the PDB, which raises an event, so a
lease in a cache that owes no event has not been ended; and `Covered` follows the
wake-up from the collected RequeueAfter into the timer. At rest no work is ahead
and no timer is due, and so the PDB is in place and an open one has its lease
running.

**Only model-checked.** The liveness properties (`Settles` twice,
`EventuallyDrained`), which are beyond the prover, and `ProtectedWhenQuiescent`
for two classes. Every invariant and every action property of a passing run is
proved, those two under the hypotheses above.

## 6. Not modelled, and the plan

The core of every component is modelled. What would come next:

1. `ProtectedWhenQuiescent` for several classes. It is false in general, because
   an update of the owner reference alone raises no event (*Adoption lost*,
   *Ownership lags*). What is to be found is a condition on the changes under which
   `PDBSync`, which has the cached owner right whenever no event is owed, survives a
   second class.
2. A best match with ties of age, between the webhook's list and the
   controller's.

Some of what the code exposes is modelled but exempt from a property, because the
code does go wrong there: the dropped event of a full channel (`overflowed` in the
tracker's properties), the skipped stamp (`skipped`), a latch that is lost (only
`LatchLost` is about it; `FallbackAtRest` and `ConditionAtRest` accept either value
of the condition under reversion None when no Pod is in fallback), and admissions
that race.

Left out for good: daylight saving changes and malformed windows (the code skips
a window it cannot parse), identity matching of webhook subjects (string
comparison), names of weekdays and time zones, the guardrail controller's own
`Validated` condition (it repeats the webhook's check), a failing capacity check,
manager start-up, generated code, metrics and logging.
