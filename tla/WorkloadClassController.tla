---------------------- MODULE WorkloadClassController ----------------------
(***************************************************************************)
(* The WorkloadClass controller (internal/controller/                      *)
(* workloadclass_controller.go) at work on the per-Pod PDBs of one         *)
(* namespace, with the disruption webhook (internal/webhook/               *)
(* disruption_webhook.go) handing it lease requests.                       *)
(*                                                                         *)
(* The API server holds pod, pdb, wc and ns.  Every read of the code goes  *)
(* through an informer, so it sees cpod, cpdb, cwc and cns, which catch up *)
(* one Deliver action at a time; the events a delivery raises go through   *)
(* the predicates and map functions of SetupWithManager into queue.  One   *)
(* worker takes requests from queue (MaxConcurrentReconciles is the        *)
(* default, 1) and runs Reconcile as a sequence of steps, one per write to *)
(* the API server, so that deliveries, users and the webhook interleave.   *)
(***************************************************************************)
EXTENDS PerPodPDB

CONSTANTS
    Specs,          \* Specs[w]: the specs WorkloadClass w may be given
    InitialWCs,     \* the WorkloadClasses that exist at the start
    InitialPods,    \* the Pods that exist at the start
    InitialNS,      \* user PDBs' labels, enforced-class label, guardrails
    Kinds,          \* the kinds of environment change that may happen
    MaxChanges,     \* bound on environment changes
    MaxEvictions,   \* bound on eviction requests
    MaxFaults,      \* bound on transient API failures and restarts
    MaxTime         \* bound on the clock

ASSUME SpecsAssumption == Specs \in [WCs -> SUBSET WCSpec] /\ \A w \in WCs : Specs[w] # {}

ASSUME InitialAssumption ==
    /\ InitialWCs \subseteq WCs
    /\ InitialPods \subseteq Pods
    /\ InitialNS \in [cover : SUBSET Labels, enforced : WCs \cup {None}, guardrails : BOOLEAN]

ASSUME BoundsAssumption ==
    /\ MaxChanges \in Nat
    /\ MaxEvictions \in Nat
    /\ MaxFaults \in Nat
    /\ MaxTime \in Nat

VARIABLES
    pod, pdb, wc, ns,         \* the API server's objects
    cpod, cpdb, cwc, cns,     \* the informers' copies of them
    pdbStale, wcStale,        \* the cached resourceVersion is not the stored one
    podEvents,                \* podEvents[n]: labels of Pod n in undelivered events
    pdbEvents,                \* pdbEvents[n]: owners of PDB n in undelivered events
    pending,                  \* LeaseTracker.pending: class -> Pod -> request
    queue,                    \* the controller's workqueue
    timer,                    \* timer[w]: the instant of w's RequeueAfter, 0 if none
    wk,                       \* the worker: the Reconcile call in progress
    eviction,                 \* eviction[s]: Pod whose eviction by s was admitted
    asked,                    \* history: <<subject, Pod uid>> of every lease request
    now, nextUid,
    changes, evictions, faults  \* what the bounds count

store     == <<pod, pdb, wc, ns>>
cache     == <<cpod, cpdb, cwc, cns>>
stale     == <<pdbStale, wcStale, podEvents, pdbEvents>>
pdbVars   == <<pdb, pdbStale, pdbEvents>>
podVars   == <<pod, podEvents>>
wcVars    == <<wc, wcStale>>
webhook   == <<eviction, asked, evictions>>
clock     == <<now, nextUid>>
vars == <<store, cache, stale, pending, queue, timer, wk, webhook, clock, changes, faults>>

NS == [cover : SUBSET Labels, enforced : WCs \cup {None}, guardrails : BOOLEAN]

\* A Reconcile call between two of its steps.  pc names the step to come;
\* leases are the drained requests, owned the listed PDBs w controls, cover,
\* wcs and enforced what the lists returned, gov the governed Pods, todo the
\* Pods still to visit, cur the Pod whose PDB write was decided, failed
\* whether an error was collected, requeue the earliest lease expiry.
Worker == [pc : {"idle", "list", "pods", "apply", "owned", "open"},
           wc : WCs \cup {None}, phase : {"live", "deleting", "gone"},
           valid : BOOLEAN, readiness : {"Ready", "NotReady"}, guardrails : BOOLEAN,
           leases : [Pods -> Request], owned : SUBSET Pods, cover : SUBSET Labels,
           wcs : [WCs -> WCObject], enforced : WCs \cup {None},
           gov : [Pods -> Pod], todo : SUBSET Pods,
           cur : [name : Pods \cup {None}, pod : Pod, op : {"lease", "sync"}],
           failed : BOOLEAN, requeue : Nat]

NoWC == [phase |-> "gone",
         spec |-> [sel |-> {}, specificity |-> 0, override |-> FALSE, bad |-> FALSE],
         gen |-> 0, reason |-> None, obs |-> 0, readiness |-> None]

NoCur == [name |-> None, pod |-> NoPod, op |-> "sync"]

Idle == [pc |-> "idle", wc |-> None, phase |-> "gone", valid |-> FALSE,
         readiness |-> "NotReady", guardrails |-> FALSE,
         leases |-> [n \in Pods |-> NoRequest], owned |-> {}, cover |-> {},
         wcs |-> [w \in WCs |-> NoWC], enforced |-> None,
         gov |-> [n \in Pods |-> NoPod], todo |-> {}, cur |-> NoCur,
         failed |-> FALSE, requeue |-> 0]

-----------------------------------------------------------------------------
\* The controller starts with synced informers and a create event for every
\* object, so every existing WorkloadClass is queued.
Init ==
    /\ pod \in [Pods -> {NoPod} \cup [uid : {1}, active : {TRUE}, lbl : Labels, uidLabel : {0}]]
    /\ \A n \in Pods : pod[n].uid = IF n \in InitialPods THEN 1 ELSE 0
    /\ pdb = [n \in Pods |-> NoPDB]
    /\ wc \in [WCs -> {NoWC} \cup [phase : {"live"}, spec : UNION {Specs[w] : w \in WCs}, gen : {1},
                                    reason : {None}, obs : {0}, readiness : {None}]]
    /\ \A w \in WCs : IF w \in InitialWCs THEN wc[w].phase = "live" /\ wc[w].spec \in Specs[w]
                                          ELSE wc[w] = NoWC
    /\ ns = InitialNS
    /\ cpod = pod /\ cpdb = pdb /\ cwc = wc /\ cns = ns
    /\ pdbStale = [n \in Pods |-> FALSE]
    /\ wcStale = [w \in WCs |-> FALSE]
    /\ podEvents = [n \in Pods |-> {}]
    /\ pdbEvents = [n \in Pods |-> {}]
    /\ pending = [w \in WCs |-> [n \in Pods |-> NoRequest]]
    /\ queue = InitialWCs
    /\ timer = [w \in WCs |-> 0]
    /\ wk = Idle
    /\ eviction = [s \in Subjects |-> None]
    /\ asked = {}
    /\ now = 0 /\ nextUid = 2
    /\ changes = 0 /\ evictions = 0 /\ faults = 0

-----------------------------------------------------------------------------
(* What the caches say. *)

CachedEnforced == NamespaceEnforcedWorkloadClass(cwc, cns.enforced)

CachedBest(lbl) == BestMatchWorkloadClassForPod(cwc, CachedEnforced, lbl)

OwnerOf(p) == IF IsWorkloadClassManagedPDB(p) THEN {p.owner} ELSE {}

\* workloadClassRequestsInNamespace
RequestsInNamespace(wcs) == {w \in WCs : wcs[w].phase # "gone"}

\* Mutant: only the PDB's owner is queued.
FindOwnerOnly(n, lbl) == OwnerOf(cpdb[n])

\* findWorkloadClassesForPod, for the Pod named n with labels lbl.
FindWorkloadClassesForPod(n, lbl) ==
    ({CachedBest(lbl)} \ {None}) \cup OwnerOf(cpdb[n])

\* Mutants: a removed pod-uid label, or a Pod that stops, goes unnoticed.
PodUpdatePassesWithoutUID(old, new) == old.active # new.active \/ old.lbl # new.lbl
PodUpdatePassesOnLabels(old, new) == old.uidLabel # new.uidLabel \/ old.lbl # new.lbl

\* podPredicate on an update event.
PodUpdatePasses(old, new) ==
    \/ old.active # new.active
    \/ new.uidLabel # new.uid /\ old.uidLabel = old.uid
    \/ old.lbl # new.lbl

-----------------------------------------------------------------------------
(* Writes to the API server.  A write raises a watch event; the events of one
   object that pass the watch's predicate wait in podEvents and pdbEvents until
   the informer delivers them, several at a time if it lags. *)

\* The Pod watch: creation, deletion, and the updates podPredicate passes.
PodEvent(old, new) ==
    IF old.uid # 0 /\ new.uid # 0 /\ ~PodUpdatePasses(old, new) THEN {}
    ELSE {old.lbl, new.lbl} \ {None}

SetPod(n, new) ==
    /\ pod' = [pod EXCEPT ![n] = new]
    /\ podEvents' = [podEvents EXCEPT ![n] = @ \cup PodEvent(pod[n], new)]

\* Owns(PDB) with GenerationChangedPredicate passes creation, deletion and a
\* changed PDB spec to the controlling classes of the old and the new object;
\* userPDBPredicate passes every event of a user's PDB.
PDBEvent(old, new) ==
    LET generationChanged == Exists(old) # Exists(new) \/ old.uid # new.uid \/ old.open # new.open
    IN  (IF generationChanged THEN {old.owner, new.owner} \cap WCs ELSE {})
        \cup ({IF Exists(new) THEN new.owner ELSE old.owner} \cap {User})

SetPDB(n, new) ==
    /\ pdb' = [pdb EXCEPT ![n] = new]
    /\ pdbStale' = [pdbStale EXCEPT ![n] = TRUE]
    /\ pdbEvents' = [pdbEvents EXCEPT ![n] = @ \cup PDBEvent(pdb[n], new)]

SetWC(w, new) ==
    /\ wc' = [wc EXCEPT ![w] = new]
    /\ wcStale' = [wcStale EXCEPT ![w] = TRUE]

-----------------------------------------------------------------------------
(* Informer deliveries and the requests they queue. *)

DeliverPod(n) ==
    /\ cpod[n] # pod[n] \/ podEvents[n] # {}
    /\ cpod' = [cpod EXCEPT ![n] = pod[n]]
    /\ podEvents' = [podEvents EXCEPT ![n] = {}]
    /\ queue' = queue \cup UNION {FindWorkloadClassesForPod(n, l) : l \in podEvents[n]}
    /\ UNCHANGED <<store, cpdb, cwc, cns, pdbStale, wcStale, pdbEvents, pending, timer, wk, webhook, clock, changes, faults>>

\* After a lost watch the informer lists again: a Pod deleted and created again
\* in the meantime is one update event whose old and new objects differ in UID.
RelistPod(n) ==
    /\ "relist" \in Kinds
    /\ cpod[n].uid # 0 /\ pod[n].uid # 0 /\ cpod[n].uid # pod[n].uid
    /\ cpod' = [cpod EXCEPT ![n] = pod[n]]
    /\ podEvents' = [podEvents EXCEPT ![n] = {}]
    /\ queue' = queue \cup UNION {FindWorkloadClassesForPod(n, l) : l \in PodEvent(cpod[n], pod[n])}
    /\ UNCHANGED <<store, cpdb, cwc, cns, pdbStale, wcStale, pdbEvents, pending, timer, wk, webhook, clock, changes, faults>>

DeliverPDB(n) ==
    /\ pdbStale[n]
    /\ cpdb' = [cpdb EXCEPT ![n] = pdb[n]]
    /\ pdbStale' = [pdbStale EXCEPT ![n] = FALSE]
    /\ pdbEvents' = [pdbEvents EXCEPT ![n] = {}]
    /\ queue' = queue \cup (pdbEvents[n] \cap WCs)
                      \cup (IF User \in pdbEvents[n] THEN RequestsInNamespace(cwc) ELSE {})
    /\ UNCHANGED <<store, cpod, cwc, cns, wcStale, podEvents, pending, timer, wk, webhook, clock, changes, faults>>

\* Mutant: the other classes of the namespace are not told.
DeliverWCToItself(w) ==
    /\ wcStale[w]
    /\ cwc' = [cwc EXCEPT ![w] = wc[w]]
    /\ wcStale' = [wcStale EXCEPT ![w] = FALSE]
    /\ queue' = queue \cup {w}
    /\ UNCHANGED <<store, cpod, cpdb, cns, pdbStale, podEvents, pdbEvents, pending, timer, wk, webhook, clock, changes, faults>>

\* For(WorkloadClass) queues the class on every event; a creation, deletion or
\* new generation also queues every class of the namespace.
DeliverWC(w) ==
    /\ wcStale[w]
    /\ cwc' = [cwc EXCEPT ![w] = wc[w]]
    /\ wcStale' = [wcStale EXCEPT ![w] = FALSE]
    /\ queue' = queue \cup {w} \cup
          IF cwc[w].gen # wc[w].gen \/ (cwc[w].phase = "gone") # (wc[w].phase = "gone")
          THEN RequestsInNamespace(cwc') ELSE {}
    /\ UNCHANGED <<store, cpod, cpdb, cns, pdbStale, podEvents, pdbEvents, pending, timer, wk, webhook, clock, changes, faults>>

\* Namespace label, guardrails and user-created PDBs: each is watched with a
\* map function that queues every class of the namespace.
DeliverNS(field) ==
    /\ cns[field] # ns[field]
    /\ cns' = [cns EXCEPT ![field] = ns[field]]
    /\ queue' = queue \cup RequestsInNamespace(cwc)
    /\ UNCHANGED <<store, cpod, cpdb, cwc, stale, pending, timer, wk, webhook, clock, changes, faults>>

-----------------------------------------------------------------------------
(* Reconcile. *)

\* Reconcile of a class the informer no longer has: its requests are discarded.
ReconcileDeleted(w) ==
    /\ wk.pc = "idle" /\ w \in queue
    /\ cwc[w].phase = "gone"
    /\ queue' = queue \ {w}
    /\ pending' = [pending EXCEPT ![w] = [n \in Pods |-> NoRequest]]
    /\ UNCHANGED <<store, cache, stale, timer, wk, webhook, clock, changes, faults>>

\* Mutant: the status is written on every reconcile, changed or not.
StatusUpdateAlways(w, new) == ~wcStale[w] /\ SetWC(w, new)

\* Status().Update, only of a changed status, with the cached resourceVersion.
StatusUpdate(w, new) ==
    IF new = cwc[w] THEN UNCHANGED wcVars ELSE ~wcStale[w] /\ SetWC(w, new)

\* Reconcile up to the status update.  If the cached resourceVersion is stale
\* the update fails, Reconcile returns the error before draining any lease, and
\* the request is retried: w stays queued until the update can succeed.
BeginReconcile(w) ==
    /\ wk.pc = "idle" /\ w \in queue
    /\ cwc[w].phase # "gone"
    /\ LET reason    == ValidatedReason(cwc, CachedEnforced, cns.guardrails, w)
           readiness == Readiness(cwc[w].spec)
           updated   == [cwc[w] EXCEPT !.reason = reason, !.obs = cwc[w].gen, !.readiness = readiness]
       IN  /\ StatusUpdate(w, updated)
           /\ wk' = [Idle EXCEPT !.pc = "list", !.wc = w, !.phase = cwc[w].phase,
                                 !.valid = protectsPods(reason, cns.guardrails),
                                 !.readiness = readiness, !.guardrails = cns.guardrails]
    /\ queue' = queue \ {w}
    /\ UNCHANGED <<podVars, pdbVars, ns, cache, pending, timer, webhook, clock, changes, faults>>

\* governedPods: active, not covered by a user PDB, and w is the best match.
GovernedBy(w, wcs, enforcedWC, cover) ==
    {n \in Pods : /\ cpod[n].active
                  /\ ~IsPodCoveredByUserPDB(cpod[n], cover)
                  /\ BestMatchWorkloadClassForPod(wcs, enforcedWC, cpod[n].lbl) = w}

\* Drain, then the lists of reconcilePDBs.  A class being deleted stops here
\* and its drained requests are dropped; an invalid one goes on to
\* openOwnedPDBs, its requests dropped too.
ListCluster ==
    /\ wk.pc = "list"
    /\ pending' = [pending EXCEPT ![wk.wc] = [n \in Pods |-> NoRequest]]
    /\ LET owned == {n \in Pods : cpdb[n].owner = wk.wc}
           gov   == GovernedBy(wk.wc, cwc, CachedEnforced, cns.cover)
       IN  wk' = IF wk.phase = "deleting" THEN Idle
                 ELSE IF ~wk.valid
                 THEN [wk EXCEPT !.pc = "open", !.owned = owned, !.cover = cns.cover, !.todo = owned]
                 ELSE [wk EXCEPT !.pc = "pods", !.leases = pending[wk.wc], !.owned = owned,
                                 !.cover = cns.cover, !.wcs = cwc, !.enforced = CachedEnforced,
                                 !.gov = [n \in Pods |-> IF n \in gov THEN cpod[n] ELSE NoPod],
                                 !.todo = gov]
    /\ UNCHANGED <<store, cache, stale, queue, timer, webhook, clock, changes, faults>>

\* A list of reconcilePDBs fails: every drained request is enqueued again, which
\* also signals the controller, and the error requeues the class.
ListFails ==
    /\ wk.pc = "list" /\ wk.phase # "deleting"
    /\ faults < MaxFaults
    /\ faults' = faults + 1
    /\ wk' = Idle
    /\ queue' = queue \cup {wk.wc}
    /\ UNCHANGED <<store, cache, stale, pending, timer, webhook, clock, changes>>

\* Mutant: the request is put back without a signal.
ReenqueueSilently(n, uid) ==
    /\ UNCHANGED queue
    /\ IF wk.leases[n].subject # None /\ wk.leases[n].uid = uid
       THEN pending' = [pending EXCEPT ![wk.wc][n] = Enqueued(pending[wk.wc][n], wk.leases[n])]
       ELSE UNCHANGED pending

\* reenqueueLeases for Pod n of the reconcile in progress, if its drained
\* request is for the Pod instance uid.
Reenqueue(n, uid) ==
    IF wk.leases[n].subject # None /\ wk.leases[n].uid = uid
    THEN /\ pending' = [pending EXCEPT ![wk.wc][n] = Enqueued(pending[wk.wc][n], wk.leases[n])]
         /\ queue' = queue \cup {wk.wc}
    ELSE UNCHANGED <<pending, queue>>

\* minPositiveDuration of two instants, 0 meaning none.
MinPositive(a, b) == IF a = 0 THEN b ELSE IF b = 0 THEN a ELSE IF a < b THEN a ELSE b

\* ensurePodUIDLabel: a merge patch by name, without a precondition.  The
\* response replaces the Pod the reconcile works on.
LabelledPod(n) ==
    IF wk.gov[n].uidLabel = wk.gov[n].uid THEN wk.gov[n]
    ELSE [pod[n] EXCEPT !.uidLabel = wk.gov[n].uid]

\* Mutant: a request is matched by Pod name, whatever instance it was for.
DecisionByName(n, p) ==
    IF wk.leases[n].subject = None
    THEN IF LeaseActive(cpdb[n], p, now) THEN "kept" ELSE "sync"
    ELSE IF ~Exists(cpdb[n]) \/ AllowLease(cpdb[n], p, now) THEN "lease" ELSE "kept"

\* The switch of reconcilePodPDB over the PDB it read: "kept" leaves the PDB as
\* it is, "lease" and "sync" decide a write.
Decision(n, p) ==
    LET existing == cpdb[n]
        lease    == wk.leases[n]
        mine     == lease.subject # None /\ lease.uid = p.uid
    IN  CASE mine /\ Exists(existing) /\ SubjectAlreadyLeasing(existing, p, lease.subject, now) -> "kept"
          [] mine /\ (~Exists(existing) \/ AllowLease(existing, p, now)) -> "lease"
          [] OTHER -> IF LeaseActive(existing, p, now) THEN "kept" ELSE "sync"

\* reconcilePodPDB up to its decision.
DecidePod(n) ==
    /\ wk.pc = "pods" /\ n \in wk.todo
    /\ \/ wk.gov[n].uidLabel = wk.gov[n].uid
       \/ pod[n].uid # 0
    /\ LET p == LabelledPod(n)
           d == Decision(n, p)
       IN  /\ IF wk.gov[n].uidLabel = wk.gov[n].uid THEN UNCHANGED podVars ELSE SetPod(n, p)
           /\ wk' = IF d = "kept"
                    THEN [wk EXCEPT !.todo = @ \ {n}, !.requeue = MinPositive(@, cpdb[n].expiry)]
                    ELSE [wk EXCEPT !.todo = @ \ {n}, !.pc = "apply",
                                    !.cur = [name |-> n, pod |-> p, op |-> d]]
    /\ UNCHANGED <<pdbVars, wcVars, ns, cache, pending, queue, timer, webhook, clock, changes, faults>>

\* The Pod to label is gone, or the patch fails: the error puts its lease
\* request back.
LabelFails(n) ==
    /\ wk.pc = "pods" /\ n \in wk.todo
    /\ wk.gov[n].uidLabel # wk.gov[n].uid
    /\ \/ pod[n].uid = 0 /\ UNCHANGED faults
       \/ faults < MaxFaults /\ faults' = faults + 1
    /\ wk' = [wk EXCEPT !.todo = @ \ {n}, !.failed = TRUE]
    /\ Reenqueue(n, wk.gov[n].uid)
    /\ UNCHANGED <<store, cache, stale, timer, webhook, clock, changes>>

\* controllerutil.CreateOrUpdate: it reads the cache, creates if there is no
\* PDB, writes nothing if the PDB is as wanted, and otherwise updates with the
\* cached resourceVersion.
WriteAccepted(n, want) ==
    /\ ~ClaimRefused(cpdb[n])
    /\ \/ ~Exists(cpdb[n]) /\ ~Exists(pdb[n])
       \/ Exists(cpdb[n]) /\ cpdb[n] = want
       \/ Exists(cpdb[n]) /\ ~pdbStale[n]

WritePDB(n, want) ==
    IF cpdb[n] = want THEN UNCHANGED pdbVars ELSE SetPDB(n, want)

WantedPDB ==
    IF wk.cur.op = "lease"
    THEN LeasedPDB(wk.wc, wk.cur.pod, wk.leases[wk.cur.name].subject, now)
    ELSE SyncedPDB(wk.wc, wk.cur.pod, wk.readiness, TRUE)

\* leasePodPDB or syncPodPDB succeeds.
ApplyPod ==
    /\ wk.pc = "apply"
    /\ WriteAccepted(wk.cur.name, WantedPDB)
    /\ WritePDB(wk.cur.name, WantedPDB)
    /\ wk' = [wk EXCEPT !.pc = "pods", !.cur = NoCur,
                        !.requeue = IF wk.cur.op = "lease" THEN MinPositive(@, now + LeaseDuration) ELSE @]
    /\ UNCHANGED <<podVars, wcVars, ns, cache, pending, queue, timer, webhook, clock, changes, faults>>

\* leasePodPDB or syncPodPDB fails: refused by claimPDB, a conflict, or an API
\* failure.
ApplyFails ==
    /\ wk.pc = "apply"
    /\ \/ ~WriteAccepted(wk.cur.name, WantedPDB) /\ UNCHANGED faults
       \/ faults < MaxFaults /\ faults' = faults + 1
    /\ wk' = [wk EXCEPT !.pc = "pods", !.cur = NoCur, !.failed = TRUE]
    /\ Reenqueue(wk.cur.name, wk.cur.pod.uid)
    /\ UNCHANGED <<store, cache, stale, timer, webhook, clock, changes>>

\* The governed Pods are done; on to the owned PDBs of other Pods.
BeginOwned ==
    /\ wk.pc = "pods" /\ wk.todo = {}
    /\ wk' = [wk EXCEPT !.pc = "owned", !.todo = {n \in wk.owned : wk.gov[n].uid = 0}]
    /\ UNCHANGED <<store, cache, stale, pending, queue, timer, webhook, clock, changes, faults>>

\* Mutant: the deletion has no preconditions.
DeletePDBUnconditionally(n) ==
    /\ wk' = [wk EXCEPT !.todo = @ \ {n}]
    /\ IF cpdb[n].owner = wk.wc /\ Exists(pdb[n]) THEN SetPDB(n, NoPDB) ELSE UNCHANGED pdbVars

\* deletePDB: the preconditions are the UID and resourceVersion of the cached
\* PDB, read again, and the caller keeps going after a conflict.
DeletePDB(n) ==
    IF cpdb[n].owner = wk.wc /\ ~pdbStale[n]
    THEN /\ SetPDB(n, NoPDB)
         /\ wk' = [wk EXCEPT !.todo = @ \ {n}]
    ELSE /\ wk' = [wk EXCEPT !.todo = @ \ {n},
                             !.failed = @ \/ (cpdb[n].owner = wk.wc /\ Exists(pdb[n]))]
         /\ UNCHANGED pdbVars

\* Another WorkloadClass governs the Pod and will adopt its PDB.
LeftForAdoption(n) ==
    LET best == BestMatchWorkloadClassForPod(wk.wcs, wk.enforced, cpod[n].lbl)
    IN  /\ cpod[n].active /\ ~IsPodCoveredByUserPDB(cpod[n], wk.cover)
        /\ best \notin {None, wk.wc}
        /\ passedValidation(wk.wcs[best], wk.guardrails)

\* One iteration of the last loop of reconcilePDBs.
VisitOwned(n) ==
    /\ wk.pc = "owned" /\ n \in wk.todo
    /\ IF LeftForAdoption(n)
       THEN wk' = [wk EXCEPT !.todo = @ \ {n}] /\ UNCHANGED pdbVars
       ELSE DeletePDB(n)
    /\ UNCHANGED <<podVars, wcVars, ns, cache, pending, queue, timer, webhook, clock, changes, faults>>

\* One iteration of openOwnedPDBs.
OpenOwned(n) ==
    /\ wk.pc = "open" /\ n \in wk.todo
    /\ LET want == SyncedPDB(wk.wc, cpod[n], wk.readiness, FALSE)
       IN  IF ~cpod[n].active \/ IsPodCoveredByUserPDB(cpod[n], wk.cover)
           THEN DeletePDB(n)
           ELSE IF WriteAccepted(n, want)
           THEN WritePDB(n, want) /\ wk' = [wk EXCEPT !.todo = @ \ {n}]
           ELSE /\ wk' = [wk EXCEPT !.todo = @ \ {n}, !.failed = TRUE]
                /\ UNCHANGED pdbVars
    /\ UNCHANGED <<podVars, wcVars, ns, cache, pending, queue, timer, webhook, clock, changes, faults>>

\* An API failure in either loop: the error is collected and the loop goes on.
OwnedFails(n) ==
    /\ wk.pc \in {"owned", "open"} /\ n \in wk.todo
    /\ faults < MaxFaults /\ faults' = faults + 1
    /\ wk' = [wk EXCEPT !.todo = @ \ {n}, !.failed = TRUE]
    /\ UNCHANGED <<store, cache, stale, pending, queue, timer, webhook, clock, changes>>

\* Mutant: the time of the earliest lease expiry is not returned.
EndReconcileWithoutTimer ==
    /\ wk.pc \in {"owned", "open"} /\ wk.todo = {}
    /\ queue' = IF wk.failed THEN queue \cup {wk.wc} ELSE queue
    /\ wk' = Idle
    /\ UNCHANGED <<store, cache, stale, pending, timer, webhook, clock, changes, faults>>

\* Reconcile returns: an error requeues the class, otherwise RequeueAfter arms
\* the class' timer, which keeps the earliest instant.
EndReconcile ==
    /\ wk.pc \in {"owned", "open"} /\ wk.todo = {}
    /\ IF wk.failed
       THEN queue' = queue \cup {wk.wc} /\ UNCHANGED timer
       ELSE /\ timer' = [timer EXCEPT ![wk.wc] = MinPositive(@, wk.requeue)]
            /\ UNCHANGED queue
    /\ wk' = Idle
    /\ UNCHANGED <<store, cache, stale, pending, webhook, clock, changes, faults>>

TimerFires(w) ==
    /\ timer[w] # 0 /\ timer[w] <= now
    /\ timer' = [timer EXCEPT ![w] = 0]
    /\ queue' = queue \cup {w}
    /\ UNCHANGED <<store, cache, stale, pending, wk, webhook, clock, changes, faults>>

\* The manager process ends at any point and starts again: the informers list, a
\* create event queues every WorkloadClass there is, and what the tracker, the
\* workqueue and its timers held in memory is gone.
Restart ==
    /\ "restart" \in Kinds /\ faults < MaxFaults /\ faults' = faults + 1
    /\ cpod' = pod /\ cpdb' = pdb /\ cwc' = wc /\ cns' = ns
    /\ pdbStale' = [n \in Pods |-> FALSE] /\ wcStale' = [w \in WCs |-> FALSE]
    /\ podEvents' = [n \in Pods |-> {}] /\ pdbEvents' = [n \in Pods |-> {}]
    /\ pending' = [w \in WCs |-> [n \in Pods |-> NoRequest]]
    /\ queue' = RequestsInNamespace(wc)
    /\ timer' = [w \in WCs |-> 0]
    /\ wk' = Idle
    /\ UNCHANGED <<store, webhook, clock, changes>>

-----------------------------------------------------------------------------
(* The disruption webhook and the API server's eviction subresource. *)

\* handleAuthorizedSubject asks for a lease: the PDB is managed, not leased to
\* anyone, and does not already let this Pod instance go.
NeedsLease(s, n) ==
    /\ IsWorkloadClassManagedPDB(cpdb[n])
    /\ ~SubjectAlreadyLeasing(cpdb[n], cpod[n], s, now)
    /\ AllowLease(cpdb[n], cpod[n], now)
    /\ ~(cpdb[n].open /\ cpdb[n].uid = cpod[n].uid)

\* Handle lets the eviction through without looking at the PDB: no class, a
\* class that failed validation, or an emergency override.
Unconstrained(best) ==
    best # None => cwc[best].reason = "ValidationFailed" \/ cwc[best].spec.override

\* handleAuthorizedSubject denies only while another subject's lease is active.
LeaseConflict(s, n) ==
    /\ IsWorkloadClassManagedPDB(cpdb[n])
    /\ ~SubjectAlreadyLeasing(cpdb[n], cpod[n], s, now)
    /\ ~AllowLease(cpdb[n], cpod[n], now)

\* DisruptionWebhook.Handle admits subject s' eviction of Pod n, outside every
\* window, s being one of the class' allowed subjects.
Handle(s, n) ==
    /\ evictions < MaxEvictions /\ evictions' = evictions + 1
    /\ eviction[s] = None
    /\ cpod[n].uid # 0
    /\ LET best == CachedBest(cpod[n].lbl)
       IN  /\ Unconstrained(best) \/ ~LeaseConflict(s, n)
           /\ IF ~Unconstrained(best) /\ NeedsLease(s, n)
              THEN /\ pending' = [pending EXCEPT ![best][n] =
                                    Enqueued(@, [uid |-> cpod[n].uid, subject |-> s])]
                   /\ queue' = queue \cup {best}
                   /\ asked' = asked \cup {<<s, cpod[n].uid>>}
              ELSE UNCHANGED <<pending, queue, asked>>
    /\ eviction' = [eviction EXCEPT ![s] = n]
    /\ UNCHANGED <<store, cache, stale, timer, wk, clock, changes, faults>>

\* The PDBs of the API server that select Pod n through its pod-uid label.
Covering(n) ==
    {m \in Pods : /\ IsWorkloadClassManagedPDB(pdb[m])
                  /\ pod[n].uidLabel # 0 /\ pdb[m].uid = pod[n].uidLabel}

\* The API server evaluates an admitted eviction: more than one PDB is an
\* error, a closed one rejects it, a user's PDB may do either.
Evict(s, n) ==
    /\ eviction[s] = n
    /\ eviction' = [eviction EXCEPT ![s] = None]
    /\ \/ UNCHANGED podVars
       \/ /\ pod[n].active
          /\ IF pod[n].lbl \in ns.cover THEN Covering(n) = {}
             ELSE \/ Covering(n) = {}
                  \/ \E m \in Pods : Covering(n) = {m} /\ pdb[m].open
          /\ SetPod(n, [pod[n] EXCEPT !.active = FALSE])
    /\ UNCHANGED <<pdbVars, wcVars, ns, cache, pending, queue, timer, wk, asked, evictions, clock, changes, faults>>

-----------------------------------------------------------------------------
(* Users, workload controllers and the garbage collector. *)

Change(kind) == kind \in Kinds /\ changes < MaxChanges /\ changes' = changes + 1

CreatePod(n, l) ==
    /\ Change("pod") /\ pod[n].uid = 0
    /\ SetPod(n, [uid |-> nextUid, active |-> TRUE, lbl |-> l, uidLabel |-> 0])
    /\ nextUid' = nextUid + 1
    /\ UNCHANGED <<pdbVars, wcVars, ns, cache, pending, queue, timer, wk, webhook, now, faults>>

TerminatePod(n) ==
    /\ Change("pod") /\ pod[n].active
    /\ SetPod(n, [pod[n] EXCEPT !.active = FALSE])
    /\ UNCHANGED <<pdbVars, wcVars, ns, cache, pending, queue, timer, wk, webhook, clock, faults>>

\* The kubelet removes a Pod that has stopped; this is not charged to the bound.
RemovePod(n) ==
    /\ pod[n].uid # 0 /\ ~pod[n].active
    /\ SetPod(n, NoPod)
    /\ UNCHANGED <<pdbVars, wcVars, ns, cache, pending, queue, timer, wk, webhook, clock, changes, faults>>

RelabelPod(n, l) ==
    /\ Change("relabel") /\ pod[n].uid # 0 /\ pod[n].lbl # l
    /\ SetPod(n, [pod[n] EXCEPT !.lbl = l])
    /\ UNCHANGED <<pdbVars, wcVars, ns, cache, pending, queue, timer, wk, webhook, clock, faults>>

RemoveUIDLabel(n) ==
    /\ Change("relabel") /\ pod[n].uidLabel # 0
    /\ SetPod(n, [pod[n] EXCEPT !.uidLabel = 0])
    /\ UNCHANGED <<pdbVars, wcVars, ns, cache, pending, queue, timer, wk, webhook, clock, faults>>

CreateWC(w, spec) ==
    /\ Change("newwc") /\ wc[w].gen = 0 /\ spec \in Specs[w]
    /\ SetWC(w, [NoWC EXCEPT !.phase = "live", !.spec = spec, !.gen = 1])
    /\ UNCHANGED <<podVars, pdbVars, ns, cache, pending, queue, timer, wk, webhook, clock, faults>>

UpdateWC(w, spec) ==
    /\ Change("spec") /\ wc[w].phase = "live" /\ spec \in Specs[w] \ {wc[w].spec}
    /\ SetWC(w, [wc[w] EXCEPT !.spec = spec, !.gen = @ + 1])
    /\ UNCHANGED <<podVars, pdbVars, ns, cache, pending, queue, timer, wk, webhook, clock, faults>>

\* Foreground deletion marks the class (a new generation), background deletion
\* removes it at once.
DeleteWC(w) ==
    /\ Change("delwc") /\ wc[w].phase = "live"
    /\ \/ SetWC(w, [wc[w] EXCEPT !.phase = "deleting", !.gen = @ + 1])
       \/ SetWC(w, [wc[w] EXCEPT !.phase = "gone"])
    /\ UNCHANGED <<podVars, pdbVars, ns, cache, pending, queue, timer, wk, webhook, clock, faults>>

FinishDeleteWC(w) ==
    /\ wc[w].phase = "deleting"
    /\ \A n \in Pods : pdb[n].owner # w
    /\ SetWC(w, [wc[w] EXCEPT !.phase = "gone"])
    /\ UNCHANGED <<podVars, pdbVars, ns, cache, pending, queue, timer, wk, webhook, clock, changes, faults>>

\* The garbage collector deletes the PDBs of a deleted owner.
CollectPDB(n) ==
    /\ pdb[n].owner \in WCs /\ wc[pdb[n].owner].phase # "live"
    /\ SetPDB(n, NoPDB)
    /\ UNCHANGED <<podVars, wcVars, ns, cache, pending, queue, timer, wk, webhook, clock, changes, faults>>

\* Users create a PDB named workload-n of their own, delete PDBs and edit them.
CreateUserPDB(n) ==
    /\ Change("pdb") /\ ~Exists(pdb[n])
    /\ SetPDB(n, [NoPDB EXCEPT !.owner = User])
    /\ UNCHANGED <<podVars, wcVars, ns, cache, pending, queue, timer, wk, webhook, clock, faults>>

DeletePDBByUser(n) ==
    /\ Change("pdb") /\ Exists(pdb[n])
    /\ SetPDB(n, NoPDB)
    /\ UNCHANGED <<podVars, wcVars, ns, cache, pending, queue, timer, wk, webhook, clock, faults>>

EditPDBByUser(n) ==
    /\ Change("pdb") /\ Exists(pdb[n])
    /\ SetPDB(n, [pdb[n] EXCEPT !.open = ~@])
    /\ UNCHANGED <<podVars, wcVars, ns, cache, pending, queue, timer, wk, webhook, clock, faults>>

\* User PDBs of other names start or stop covering labels, the namespace's
\* enforced class changes, guardrails come or go.
ChangeNS(field, v) ==
    /\ Change(field) /\ ns[field] # v
    /\ ns' = [ns EXCEPT ![field] = v]
    /\ UNCHANGED <<pod, pdb, wc, cache, stale, pending, queue, timer, wk, webhook, clock, faults>>

Tick ==
    /\ now < MaxTime
    /\ now' = now + 1
    /\ UNCHANGED <<store, cache, stale, pending, queue, timer, wk, webhook, nextUid, changes, faults>>

-----------------------------------------------------------------------------
Deliver ==
    \/ \E n \in Pods : DeliverPod(n) \/ DeliverPDB(n)
    \/ \E w \in WCs : DeliverWC(w)
    \/ \E f \in {"cover", "enforced", "guardrails"} : DeliverNS(f)

Work ==
    \/ \E w \in WCs : ReconcileDeleted(w) \/ BeginReconcile(w)
    \/ ListCluster \/ ApplyPod \/ BeginOwned \/ EndReconcile
    \/ \E n \in Pods : DecidePod(n) \/ LabelFails(n) \/ VisitOwned(n) \/ OpenOwned(n) \/ OwnedFails(n)
    \/ ListFails \/ ApplyFails

Environment ==
    \/ \E n \in Pods : \/ TerminatePod(n) \/ RemovePod(n) \/ RemoveUIDLabel(n) \/ RelistPod(n)
                       \/ CollectPDB(n) \/ CreateUserPDB(n) \/ DeletePDBByUser(n) \/ EditPDBByUser(n)
                       \/ \E l \in Labels : CreatePod(n, l) \/ RelabelPod(n, l)
    \/ \E w \in WCs : \/ DeleteWC(w) \/ FinishDeleteWC(w)
                      \/ \E spec \in Specs[w] : CreateWC(w, spec) \/ UpdateWC(w, spec)
    \/ \E l \in SUBSET Labels : ChangeNS("cover", l)
    \/ \E w \in WCs \cup {None} : ChangeNS("enforced", w)
    \/ \E g \in BOOLEAN : ChangeNS("guardrails", g)

Next ==
    \/ Deliver
    \/ Work
    \/ \E w \in WCs : TimerFires(w)
    \/ \E s \in Subjects, n \in Pods : Handle(s, n) \/ Evict(s, n)
    \/ Environment
    \/ Restart
    \/ Tick

Spec == Init /\ [][Next]_vars

\* The informers deliver, the worker goroutine runs, timers fire and the garbage
\* collector collects.  The workqueue is first in, first out, so a request that
\* is queued whenever the worker is free is eventually taken: strong fairness.
Fairness ==
    /\ \A n \in Pods : WF_vars(DeliverPod(n)) /\ WF_vars(DeliverPDB(n)) /\ WF_vars(CollectPDB(n))
    /\ \A w \in WCs : /\ WF_vars(DeliverWC(w)) /\ WF_vars(TimerFires(w))
                      /\ SF_vars(BeginReconcile(w)) /\ SF_vars(ReconcileDeleted(w))
    /\ \A f \in {"cover", "enforced", "guardrails"} : WF_vars(DeliverNS(f))
    /\ WF_vars(Work)

FairSpec == Spec /\ Fairness
-----------------------------------------------------------------------------
(* Properties. *)

\* The types of the variables.
TypeOK ==
    /\ pod \in [Pods -> Pod] /\ cpod \in [Pods -> Pod]
    /\ pdb \in [Pods -> PDB] /\ cpdb \in [Pods -> PDB]
    /\ wc \in [WCs -> WCObject] /\ cwc \in [WCs -> WCObject]
    /\ ns \in NS /\ cns \in NS
    /\ pdbStale \in [Pods -> BOOLEAN] /\ wcStale \in [WCs -> BOOLEAN]
    /\ podEvents \in [Pods -> SUBSET Labels] /\ pdbEvents \in [Pods -> SUBSET (WCs \cup {User})]
    /\ pending \in [WCs -> [Pods -> Request]]
    /\ queue \subseteq WCs
    /\ timer \in [WCs -> Nat]
    /\ wk \in Worker
    /\ eviction \in [Subjects -> Pods \cup {None}]
    /\ asked \subseteq Subjects \X Nat
    /\ now \in Nat /\ nextUid \in Nat \ {0}
    /\ changes \in Nat /\ evictions \in Nat /\ faults \in Nat

\* Nothing is left to do but wait for a later instant: the caches are in sync,
\* the worker is idle, nothing is queued or due, and no PDB awaits collection.
Quiescent ==
    /\ wk.pc = "idle" /\ queue = {}
    /\ cpod = pod /\ cns = ns
    /\ \A n \in Pods : ~pdbStale[n] /\ podEvents[n] = {}
    /\ \A w \in WCs : ~wcStale[w] /\ (timer[w] = 0 \/ timer[w] > now)
    /\ \A n \in Pods : pdb[n].owner \in WCs => wc[pdb[n].owner].phase = "live"

\* The class that governs Pod n, by the stored objects.
Governor(n) ==
    BestMatchWorkloadClassForPod(wc, NamespaceEnforcedWorkloadClass(wc, ns.enforced), pod[n].lbl)

\* A class that complies with the guardrails as the stored objects are now.
Protects(w) ==
    protectsPods(ValidatedReason(wc, NamespaceEnforcedWorkloadClass(wc, ns.enforced), ns.guardrails, w),
                 ns.guardrails)

NeedsPDB(n) ==
    /\ pod[n].active /\ ~IsPodCoveredByUserPDB(pod[n], ns.cover)
    /\ Governor(n) # None /\ Protects(Governor(n))

\* Whatever order the events arrived in, once the controller has nothing left
\* to do every Pod that a complying class governs has a managed PDB, for this Pod
\* instance, carries the label the PDB selects, and the PDB is closed unless the
\* class is Ready or a lease is running (reconcilePDBs; README "PDB Spec").
ProtectedWhenQuiescent ==
    Quiescent => \A n \in Pods : NeedsPDB(n) =>
        /\ IsWorkloadClassManagedPDB(pdb[n])
        /\ pdb[n].uid = pod[n].uid /\ pod[n].uidLabel = pod[n].uid
        /\ pdb[n].open <=> (wc[Governor(n)].spec.override \/ LeaseActive(pdb[n], pod[n], now))

\* Once the controller has nothing left to do, no managed PDB remains for a Pod
\* that is gone, stopping, or covered by a user's PDB, so a Pod never ends up
\* under two PDBs, which would make its eviction an error.
CleanWhenQuiescent ==
    Quiescent => \A n \in Pods :
        ~pod[n].active \/ pod[n].lbl \in ns.cover => ~IsWorkloadClassManagedPDB(pdb[n])

\* A lease names a subject that asked for this very Pod instance: the request
\* survives being drained, put back after a failure and applied later, and never
\* ends up on a later Pod of the same name (reconcilePodPDB's UID check).
LeaseWasRequested ==
    \A n \in Pods : IsWorkloadClassManagedPDB(pdb[n]) /\ pdb[n].holder # None =>
        <<pdb[n].holder, pdb[n].uid>> \in asked

\* A recorded lease request always has a reconcile coming that will drain it:
\* its class is queued, or its reconcile has not drained yet.
NoLostRequest ==
    \A w \in WCs : (\E n \in Pods : pending[w][n].subject # None) =>
        w \in queue \/ (wk.pc = "list" /\ wk.wc = w)

\* The controller settles: after the last change it does not reconcile for ever,
\* waking itself with its own writes or handing a PDB to and fro between two
\* classes (SetupWithManager's predicates, CreateOrUpdate's no-op).
Settles == <>[]Quiescent

\* The informer's PDB is the stored one unless it is marked stale.
CacheCoherent == \A n \in Pods : ~pdbStale[n] => cpdb[n] = pdb[n]

\* "The controller never modifies a user-created PDB, even one that happens to
\* be named workload-<pod name>" (README): a user who creates that PDB between
\* the controller's read and its write does not lose it.
UserPDBUntouched ==
    [][\A n \in Pods : pdb[n].owner = User /\ wk' # wk => pdb'[n] = pdb[n]]_vars

\* deletePDB: the reconcile of one class never deletes a PDB that another class
\* adopted after it was read.
NoForeignDelete ==
    [][\A n \in Pods : Exists(pdb[n]) /\ ~Exists(pdb'[n]) /\ wk' # wk => pdb[n].owner = wk.wc]_vars

\* "PDBs with an active lease are left untouched until the lease expires"
\* (reconcilePDBs): the reconcile of the class that governs the Pod does not end
\* the running lease of the Pod instance.
ActiveLeaseUntouched ==
    [][\A n \in Pods : LeaseActive(pdb[n], pod[n], now) /\ wk.pc = "apply" /\ wk' # wk
            => pdb'[n] = pdb[n]]_vars
=============================================================================
