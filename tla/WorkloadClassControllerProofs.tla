-------------------- MODULE WorkloadClassControllerProofs --------------------
(***************************************************************************)
(* Proofs about WorkloadClassController, for any number of Pods, classes,  *)
(* subjects and labels, and any bounds.                                    *)
(***************************************************************************)
EXTENDS WorkloadClassController, TLAPS

\* What the worker's program counter says about its class and its Pod.
WorkerOK ==
    /\ wk.pc # "idle" => wk.wc \in WCs
    /\ wk.pc = "apply" => wk.cur.name \in Pods

TypeInv == TypeOK /\ WorkerOK

-----------------------------------------------------------------------------
(* Types of the values and of the helpers. *)

\* The records that stand for absent objects have the type of present ones.
LEMMA NoneTypes ==
    /\ NoPod \in Pod /\ NoPDB \in PDB /\ NoWC \in WCObject
    /\ NoRequest \in Request /\ Idle \in Worker
<1>1. NoPod \in Pod /\ NoPDB \in PDB /\ NoRequest \in Request
    BY DEF NoPod, Pod, NoPDB, PDB, NoRequest, Request
<1>2. NoWC \in WCObject
    BY DEF NoWC, WCObject, WCSpec, Reasons
<1>3. NoCur \in [name : Pods \cup {None}, pod : Pod, op : {"lease", "sync"}]
    BY <1>1 DEF NoCur
<1>4. Idle \in Worker
    BY <1>1, <1>2, <1>3 DEF Idle, Worker
<1> QED
    BY <1>1, <1>2, <1>4

\* The best match is a class or none.
LEMMA BestType ==
    ASSUME NEW wcs, NEW e \in WCs \cup {None}, NEW l
    PROVE  BestMatchWorkloadClassForPod(wcs, e, l) \in WCs \cup {None}
<1>1. BestMatches(wcs, l) \subseteq WCs
    BY DEF BestMatches
<1> QED
    BY <1>1 DEF BestMatchWorkloadClassForPod

\* So is the class a namespace enforces.
LEMMA EnforcedType == ASSUME NEW wcs, NEW l PROVE NamespaceEnforcedWorkloadClass(wcs, l) \in WCs \cup {None}
BY DEF NamespaceEnforcedWorkloadClass

\* findWorkloadClassesForPod queues only classes.
LEMMA FindType ==
    ASSUME NEW n, NEW l PROVE FindWorkloadClassesForPod(n, l) \subseteq WCs
BY BestType, EnforcedType
   DEF FindWorkloadClassesForPod, CachedBest, CachedEnforced, OwnerOf, IsWorkloadClassManagedPDB

\* validatedCondition has one of its four reasons.
LEMMA ReasonType ==
    ASSUME NEW wcs, NEW e, NEW g, NEW w PROVE ValidatedReason(wcs, e, g, w) \in Reasons
BY DEF ValidatedReason, Reasons

\* A Pod keeps its type when one of its fields is given a new value.
LEMMA PodUpdateType ==
    ASSUME NEW p \in Pod
    PROVE  /\ [p EXCEPT !.active = FALSE] \in Pod
           /\ \A l \in Labels : [p EXCEPT !.lbl = l] \in Pod
           /\ \A u \in Nat : [p EXCEPT !.uidLabel = u] \in Pod
<1>1. \A l \in Labels : [p EXCEPT !.lbl = l] \in Pod
    BY DEF Pod
<1>2. \A u \in Nat : [p EXCEPT !.uidLabel = u] \in Pod
    BY DEF Pod
<1>3. [p EXCEPT !.active = FALSE] \in Pod
    BY DEF Pod
<1> QED
    BY <1>1, <1>2, <1>3

\* So does a WorkloadClass, for the updates that users make.
LEMMA WCUpdateType ==
    ASSUME NEW x \in WCObject
    PROVE  /\ \A spec \in WCSpec : [x EXCEPT !.spec = spec, !.gen = @ + 1] \in WCObject
           /\ [x EXCEPT !.phase = "gone"] \in WCObject
           /\ [x EXCEPT !.phase = "deleting", !.gen = @ + 1] \in WCObject
<1>1. x.gen + 1 \in Nat
    BY DEF WCObject
<1>2. ASSUME NEW g \in Nat
      PROVE  /\ \A spec \in WCSpec : [x EXCEPT !.spec = spec, !.gen = g] \in WCObject
             /\ [x EXCEPT !.phase = "deleting", !.gen = g] \in WCObject
    BY DEF WCObject
<1>3. [x EXCEPT !.phase = "gone"] \in WCObject
    BY DEF WCObject
<1> QED
    BY <1>1, <1>2, <1>3

\* Writing a Pod keeps the types, and its events name label sets of Pods.
LEMMA SetPodType ==
    ASSUME TypeOK, NEW n \in Pods, NEW new \in Pod, SetPod(n, new)
    PROVE  pod' \in [Pods -> Pod] /\ podEvents' \in [Pods -> SUBSET Labels]
<1>1. PodEvent(pod[n], new) \subseteq Labels
    <2>1. pod[n].lbl \in Labels \cup {None} /\ new.lbl \in Labels \cup {None}
        BY DEF TypeOK, Pod
    <2> QED
        BY <2>1 DEF PodEvent
<1> QED
    BY <1>1 DEF SetPod, TypeOK

\* Writing a PDB keeps the types, and its events name owners.
LEMMA SetPDBType ==
    ASSUME TypeOK, NEW n \in Pods, NEW new \in PDB, SetPDB(n, new)
    PROVE  /\ pdb' \in [Pods -> PDB] /\ pdbStale' \in [Pods -> BOOLEAN]
           /\ pdbEvents' \in [Pods -> SUBSET (WCs \cup {User})]
<1>1. PDBEvent(pdb[n], new) \subseteq WCs \cup {User}
    BY DEF PDBEvent
<1> QED
    BY <1>1 DEF SetPDB, TypeOK

\* Writing a WorkloadClass keeps the types.
LEMMA SetWCType ==
    ASSUME TypeOK, NEW w \in WCs, NEW new \in WCObject, SetWC(w, new)
    PROVE  wc' \in [WCs -> WCObject] /\ wcStale' \in [WCs -> BOOLEAN]
BY DEF SetWC, TypeOK

\* Enqueue leaves a request.
LEMMA EnqueuedType ==
    ASSUME NEW old \in Request, NEW new \in Request PROVE Enqueued(old, new) \in Request
BY DEF Enqueued

\* minPositiveDuration returns an instant.
LEMMA MinPositiveType == ASSUME NEW x \in Nat, NEW y \in Nat PROVE MinPositive(x, y) \in Nat
BY DEF MinPositive

\* A synced PDB is well formed.
LEMMA SyncedType ==
    ASSUME NEW w \in WCs, NEW p \in Pod, NEW r, NEW v \in BOOLEAN PROVE SyncedPDB(w, p, r, v) \in PDB
BY DEF SyncedPDB, PDB, Pod

\* A leased PDB is well formed, its expiry an instant.
LEMMA LeasedType ==
    ASSUME NEW w \in WCs, NEW p \in Pod, NEW s \in Subjects \cup {None}, NEW t \in Nat
    PROVE  LeasedPDB(w, p, s, t) \in PDB
BY LeaseDurationAssumption DEF LeasedPDB, PDB, Pod

\* Replacing one request keeps the type of the tracker's map.
LEMMA PendingType ==
    ASSUME NEW f \in [WCs -> [Pods -> Request]], NEW w \in WCs, NEW n \in Pods, NEW r \in Request
    PROVE  [f EXCEPT ![w][n] = r] \in [WCs -> [Pods -> Request]]
OBVIOUS

\* reenqueueLeases keeps the types of the tracker and the queue.
LEMMA ReenqueueType ==
    ASSUME TypeInv, NEW n \in Pods, NEW uid, wk.pc # "idle", Reenqueue(n, uid)
    PROVE  pending' \in [WCs -> [Pods -> Request]] /\ queue' \subseteq WCs
<1>1. wk.leases[n] \in Request /\ pending[wk.wc][n] \in Request /\ wk.wc \in WCs
    BY DEF TypeInv, TypeOK, WorkerOK, Worker
<1>2. Enqueued(pending[wk.wc][n], wk.leases[n]) \in Request
    BY <1>1, EnqueuedType
<1>3. [pending EXCEPT ![wk.wc][n] = Enqueued(pending[wk.wc][n], wk.leases[n])] \in [WCs -> [Pods -> Request]]
    BY <1>1, <1>2, PendingType DEF TypeInv, TypeOK
<1>4. CASE wk.leases[n].subject # None /\ wk.leases[n].uid = uid
    <2>1. /\ pending' = [pending EXCEPT ![wk.wc][n] = Enqueued(pending[wk.wc][n], wk.leases[n])]
          /\ queue' = queue \cup {wk.wc}
        BY <1>4 DEF Reenqueue
    <2> QED
        BY <1>1, <1>3, <2>1 DEF TypeInv, TypeOK
<1>5. CASE ~(wk.leases[n].subject # None /\ wk.leases[n].uid = uid)
    BY <1>5 DEF Reenqueue, TypeInv, TypeOK
<1> QED
    BY <1>4, <1>5

\* The PDB a decided write wants is well formed.
LEMMA WantedType ==
    ASSUME TypeInv, wk.pc = "apply" PROVE WantedPDB \in PDB /\ wk.cur.name \in Pods
<1>1. wk.cur.name \in Pods /\ wk.wc \in WCs /\ wk.cur.pod \in Pod /\ now \in Nat
      /\ wk.leases \in [Pods -> Request]
    BY DEF TypeInv, TypeOK, WorkerOK, Worker
<1>2. wk.leases[wk.cur.name].subject \in Subjects \cup {None}
    BY <1>1 DEF Request
<1> QED
    BY <1>1, <1>2, LeasedType, SyncedType DEF WantedPDB

-----------------------------------------------------------------------------
(* One lemma per group of actions. *)

\* The initial states are well typed.
LEMMA TypeInvInit == Init => TypeInv
<1> SUFFICES ASSUME Init PROVE TypeInv
    OBVIOUS
<1>1. pod \in [Pods -> Pod]
    <2>1. ASSUME NEW x \in [uid : {1}, active : {TRUE}, lbl : Labels, uidLabel : {0}] PROVE x \in Pod
        <3>1. x = [uid |-> x.uid, active |-> x.active, lbl |-> x.lbl, uidLabel |-> x.uidLabel]
            OBVIOUS
        <3>2. x.uid \in Nat /\ x.lbl \in Labels /\ x.uidLabel \in Nat
            OBVIOUS
        <3>3. x.active \in {TRUE}
            OBVIOUS
        <3>4. x.active \in BOOLEAN
            BY <3>3, Zenon
        <3> QED
            BY <3>1, <3>2, <3>4 DEF Pod
    <2> QED
        BY <2>1, NoneTypes DEF Init
<1>2. wc \in [WCs -> WCObject]
    <2>1. \A w \in WCs : wc[w] \in WCObject
        <3> SUFFICES ASSUME NEW w \in WCs PROVE wc[w] \in WCObject
            OBVIOUS
        <3>1. CASE wc[w] = NoWC
            BY <3>1, NoneTypes
        <3>2. CASE wc[w] # NoWC
            <4>1. wc[w] \in [phase : {"live"}, spec : UNION {Specs[v] : v \in WCs}, gen : {1},
                              reason : {None}, obs : {0}, readiness : {None}]
                BY <3>2 DEF Init
            <4>2. UNION {Specs[v] : v \in WCs} \subseteq WCSpec
                BY SpecsAssumption
            <4> QED
                BY <4>1, <4>2 DEF WCObject
        <3> QED
            BY <3>1, <3>2
    <2> QED
        BY <2>1 DEF Init
<1>3. ns \in NS
    BY InitialAssumption DEF Init, NS
<1>4. timer \in [WCs -> Nat] /\ wk \in Worker /\ wk.pc = "idle" /\ queue \subseteq WCs
    BY NoneTypes, InitialAssumption DEF Init, Idle
<1>5. pending \in [WCs -> [Pods -> Request]] /\ pdb \in [Pods -> PDB]
    BY NoneTypes DEF Init
<1> QED
    BY <1>1, <1>2, <1>3, <1>4, <1>5 DEF Init, TypeInv, TypeOK, WorkerOK

\* Informer deliveries keep the types.
LEMMA DeliverTypes ==
    ASSUME TypeInv, Deliver \/ \E n \in Pods : RelistPod(n)
    PROVE  TypeInv'
<1> USE DEF TypeInv, TypeOK, WorkerOK
<1>1. ASSUME NEW n \in Pods, DeliverPod(n) \/ RelistPod(n) PROVE TypeInv'
    <2>1. cpod' \in [Pods -> Pod] /\ podEvents' \in [Pods -> SUBSET Labels]
        <3>1. cpod' = [cpod EXCEPT ![n] = pod[n]] /\ podEvents' = [podEvents EXCEPT ![n] = {}]
            BY <1>1 DEF DeliverPod, RelistPod
        <3> QED
            BY <3>1
    <2>2. queue' \subseteq WCs
        BY <1>1, FindType DEF DeliverPod, RelistPod
    <2> QED
        BY <1>1, <2>1, <2>2 DEF DeliverPod, RelistPod, store, webhook, clock
<1>2. ASSUME NEW n \in Pods, DeliverPDB(n) PROVE TypeInv'
    <2>1. cpdb' \in [Pods -> PDB] /\ pdbStale' \in [Pods -> BOOLEAN] /\ pdbEvents' \in [Pods -> SUBSET (WCs \cup {User})]
        BY <1>2 DEF DeliverPDB
    <2>2. queue' \subseteq WCs
        BY <1>2 DEF DeliverPDB, RequestsInNamespace
    <2> QED
        BY <1>2, <2>1, <2>2 DEF DeliverPDB, store, webhook, clock
<1>3. ASSUME NEW w \in WCs, DeliverWC(w) PROVE TypeInv'
    <2>1. cwc' \in [WCs -> WCObject] /\ wcStale' \in [WCs -> BOOLEAN]
        BY <1>3 DEF DeliverWC
    <2>2. queue' \subseteq WCs
        BY <1>3 DEF DeliverWC, RequestsInNamespace
    <2> QED
        BY <1>3, <2>1, <2>2 DEF DeliverWC, store, webhook, clock
<1>4. ASSUME NEW f \in {"cover", "enforced", "guardrails"}, DeliverNS(f) PROVE TypeInv'
    <2>1. cns' \in NS
        BY <1>4 DEF DeliverNS, NS
    <2>2. queue' \subseteq WCs
        BY <1>4 DEF DeliverNS, RequestsInNamespace
    <2> QED
        BY <1>4, <2>1, <2>2 DEF DeliverNS, store, stale, webhook, clock
<1> QED
    BY <1>1, <1>2, <1>3, <1>4 DEF Deliver

\* The kinds of update the worker's record gets.
LEMMA WorkerVisited ==
    ASSUME wk \in Worker, NEW n, NEW f \in BOOLEAN, NEW m \in Nat
    PROVE  /\ [wk EXCEPT !.todo = @ \ {n}] \in Worker
           /\ [wk EXCEPT !.todo = @ \ {n}, !.failed = f] \in Worker
           /\ [wk EXCEPT !.todo = @ \ {n}, !.failed = TRUE] \in Worker
           /\ [wk EXCEPT !.todo = @ \ {n}, !.requeue = m] \in Worker
BY DEF Worker

\* reconcilePodPDB has decided a write.
LEMMA WorkerDecided ==
    ASSUME wk \in Worker, NEW n \in Pods, NEW p \in Pod, NEW d \in {"lease", "sync"}
    PROVE  [wk EXCEPT !.todo = @ \ {n}, !.pc = "apply", !.cur = [name |-> n, pod |-> p, op |-> d]] \in Worker
BY DEF Worker

\* The decided write was made, or failed.
LEMMA WorkerApplied ==
    ASSUME wk \in Worker, NEW m \in Nat
    PROVE  /\ [wk EXCEPT !.pc = "pods", !.cur = NoCur, !.requeue = m] \in Worker
           /\ [wk EXCEPT !.pc = "pods", !.cur = NoCur, !.failed = TRUE] \in Worker
BY NoneTypes DEF Worker, NoCur

\* The start of a reconcile, up to the status update, keeps the types.
LEMMA BeginTypes ==
    ASSUME TypeInv, NEW w \in WCs, ReconcileDeleted(w) \/ BeginReconcile(w)
    PROVE  TypeInv'
<1>1. CASE ReconcileDeleted(w)
    <2>1. pending' \in [WCs -> [Pods -> Request]]
        BY <1>1, NoneTypes DEF ReconcileDeleted, TypeInv, TypeOK
    <2>2. queue' \subseteq WCs
        BY <1>1 DEF ReconcileDeleted, TypeInv, TypeOK
    <2> QED
        BY <1>1, <2>1, <2>2
           DEF ReconcileDeleted, TypeInv, TypeOK, WorkerOK, store, cache, stale, webhook, clock
<1>2. CASE BeginReconcile(w)
    <2> DEFINE reason    == ValidatedReason(cwc, CachedEnforced, cns.guardrails, w)
               readiness == Readiness(cwc[w].spec)
               updated   == [cwc[w] EXCEPT !.reason = reason, !.obs = cwc[w].gen, !.readiness = readiness]
    <2>1. reason \in Reasons /\ readiness \in {"Ready", "NotReady"} /\ cwc[w] \in WCObject
          /\ cns.guardrails \in BOOLEAN
        BY ReasonType DEF Readiness, TypeInv, TypeOK, NS
    <2>2. updated \in WCObject
        BY <2>1 DEF WCObject
    <2>3. StatusUpdate(w, updated) /\ queue' = queue \ {w}
          /\ wk' = [Idle EXCEPT !.pc = "list", !.wc = w, !.phase = cwc[w].phase,
                                !.valid = protectsPods(reason, cns.guardrails),
                                !.readiness = readiness, !.guardrails = cns.guardrails]
        BY <1>2 DEF BeginReconcile
    <2>4. wc' \in [WCs -> WCObject] /\ wcStale' \in [WCs -> BOOLEAN]
        BY <2>2, <2>3, SetWCType DEF StatusUpdate, wcVars, TypeInv, TypeOK
    <2>5. wk' \in Worker /\ wk'.pc = "list" /\ wk'.wc = w
        <3>1. protectsPods(reason, cns.guardrails) \in BOOLEAN
            BY <2>1 DEF protectsPods
        <3>2. cwc[w].phase \in {"live", "deleting", "gone"}
            BY <2>1 DEF WCObject
        <3> HIDE DEF reason, readiness
        <3> QED
            BY <2>1, <2>3, <3>1, <3>2, NoneTypes DEF Worker
    <2> QED
        BY <1>2, <2>3, <2>4, <2>5
           DEF BeginReconcile, TypeInv, TypeOK, WorkerOK, podVars, pdbVars, cache, webhook, clock
<1> QED
    BY <1>1, <1>2

\* Draining and listing, or failing to, keeps the types.
LEMMA ListTypes ==
    ASSUME TypeInv, ListCluster \/ ListFails
    PROVE  TypeInv'
<1>1. CASE ListCluster
    <2> DEFINE owned == {n \in Pods : cpdb[n].owner = wk.wc}
               gov   == GovernedBy(wk.wc, cwc, CachedEnforced, cns.cover)
               gpods == [n \in Pods |-> IF n \in gov THEN cpod[n] ELSE NoPod]
    <2>1. pending' \in [WCs -> [Pods -> Request]]
        BY <1>1, NoneTypes DEF ListCluster, TypeInv, TypeOK
    <2>2. owned \subseteq Pods /\ gov \subseteq Pods /\ gpods \in [Pods -> Pod]
        BY NoneTypes DEF GovernedBy, TypeInv, TypeOK
    <2>3. cns.cover \subseteq Labels /\ CachedEnforced \in WCs \cup {None} /\ wk.wc \in WCs
          /\ pending[wk.wc] \in [Pods -> Request] /\ wk \in Worker /\ cwc \in [WCs -> WCObject]
        BY <1>1, EnforcedType DEF CachedEnforced, ListCluster, TypeInv, TypeOK, WorkerOK, NS
    <2>4. \/ wk' = Idle
          \/ wk' = [wk EXCEPT !.pc = "open", !.owned = owned, !.cover = cns.cover, !.todo = owned]
          \/ wk' = [wk EXCEPT !.pc = "pods", !.leases = pending[wk.wc], !.owned = owned,
                              !.cover = cns.cover, !.wcs = cwc, !.enforced = CachedEnforced,
                              !.gov = gpods, !.todo = gov]
        BY <1>1 DEF ListCluster
    <2> HIDE DEF owned, gov, gpods
    <2>5. wk' \in Worker /\ (wk'.pc = "idle" \/ wk'.wc \in WCs) /\ wk'.pc # "apply"
        <3>1. CASE wk' = Idle
            BY <3>1, NoneTypes DEF Idle
        <3>2. CASE wk' = [wk EXCEPT !.pc = "open", !.owned = owned, !.cover = cns.cover, !.todo = owned]
            BY <3>2, <2>2, <2>3 DEF Worker
        <3>3. CASE wk' = [wk EXCEPT !.pc = "pods", !.leases = pending[wk.wc], !.owned = owned,
                              !.cover = cns.cover, !.wcs = cwc, !.enforced = CachedEnforced,
                              !.gov = gpods, !.todo = gov]
            BY <3>3, <2>2, <2>3 DEF Worker
        <3> QED
            BY <2>4, <3>1, <3>2, <3>3
    <2> QED
        BY <1>1, <2>1, <2>5
           DEF ListCluster, TypeInv, TypeOK, WorkerOK, store, cache, stale, webhook, clock
<1>2. CASE ListFails
    <2>1. queue' \subseteq WCs /\ wk' = Idle /\ faults' \in Nat
        BY <1>2 DEF ListFails, TypeInv, TypeOK, WorkerOK
    <2> QED
        BY <1>2, <2>1, NoneTypes
           DEF ListFails, TypeInv, TypeOK, WorkerOK, Idle, store, cache, stale, webhook, clock
<1> QED
    BY <1>1, <1>2

\* reconcilePodPDB up to its decision keeps the types.
LEMMA DecideTypes ==
    ASSUME TypeInv, NEW n \in Pods, DecidePod(n)
    PROVE  TypeInv'
<1> DEFINE p == LabelledPod(n)
           d == Decision(n, p)
<1>1. wk.pc = "pods" /\ wk \in Worker /\ wk.gov[n] \in Pod /\ pod[n] \in Pod /\ wk.wc \in WCs
    BY DEF DecidePod, TypeInv, TypeOK, WorkerOK, Worker
<1>2. p \in Pod
    BY <1>1 DEF LabelledPod, Pod
<1>3. d \in {"kept", "lease", "sync"}
    BY DEF Decision
<1>4. /\ IF wk.gov[n].uidLabel = wk.gov[n].uid THEN UNCHANGED podVars ELSE SetPod(n, p)
      /\ wk' = IF d = "kept"
               THEN [wk EXCEPT !.todo = @ \ {n}, !.requeue = MinPositive(@, cpdb[n].expiry)]
               ELSE [wk EXCEPT !.todo = @ \ {n}, !.pc = "apply", !.cur = [name |-> n, pod |-> p, op |-> d]]
    BY DEF DecidePod
<1> HIDE DEF p, d
<1>5. pod' \in [Pods -> Pod] /\ podEvents' \in [Pods -> SUBSET Labels]
    BY <1>2, <1>4, SetPodType DEF podVars, TypeInv, TypeOK
<1>6. wk' \in Worker /\ wk'.wc \in WCs /\ (wk'.pc = "apply" => wk'.cur.name \in Pods)
    <2>1. CASE d = "kept"
        <3>1. MinPositive(wk.requeue, cpdb[n].expiry) \in Nat
            BY <1>1, MinPositiveType DEF Worker, TypeInv, TypeOK, PDB
        <3>2. wk' = [wk EXCEPT !.todo = @ \ {n}, !.requeue = MinPositive(wk.requeue, cpdb[n].expiry)]
            BY <2>1, <1>4
        <3>3. wk' \in Worker
            BY <1>1, <3>1, <3>2, WorkerVisited
        <3> QED
            BY <1>1, <3>2, <3>3 DEF Worker
    <2>2. CASE d # "kept"
        <3>1. wk' = [wk EXCEPT !.todo = @ \ {n}, !.pc = "apply", !.cur = [name |-> n, pod |-> p, op |-> d]]
            BY <2>2, <1>4
        <3>2. wk' \in Worker
            BY <1>1, <1>2, <1>3, <2>2, <3>1, WorkerDecided
        <3> QED
            BY <1>1, <3>1, <3>2 DEF Worker
    <2> QED
        BY <2>1, <2>2
<1> QED
    BY <1>5, <1>6 DEF DecidePod, TypeInv, TypeOK, WorkerOK, pdbVars, wcVars, cache, webhook, clock

\* The error paths keep the types.
LEMMA ErrorTypes ==
    ASSUME TypeInv, ApplyFails \/ \E n \in Pods : LabelFails(n) \/ OwnedFails(n)
    PROVE  TypeInv'
<1>1. ASSUME NEW n \in Pods, LabelFails(n) PROVE TypeInv'
    <2>1. wk.pc = "pods" /\ wk \in Worker /\ wk.wc \in WCs /\ wk' = [wk EXCEPT !.todo = @ \ {n}, !.failed = TRUE]
        BY <1>1 DEF LabelFails, TypeInv, TypeOK, WorkerOK
    <2>2. wk' \in Worker /\ wk'.pc = wk.pc /\ wk'.wc = wk.wc
        <3>1. wk' \in Worker
            BY <2>1, WorkerVisited
        <3> QED
            BY <2>1, <3>1 DEF Worker
    <2>3. pending' \in [WCs -> [Pods -> Request]] /\ queue' \subseteq WCs
        BY <1>1, <2>1, ReenqueueType DEF LabelFails
    <2>4. faults' \in Nat
        <3>1. faults \in Nat
            BY DEF TypeInv, TypeOK
        <3>2. faults' = faults \/ faults' = faults + 1
            BY <1>1, Zenon DEF LabelFails
        <3> QED
            BY <3>1, <3>2
    <2> QED
        BY <1>1, <2>1, <2>2, <2>3, <2>4 DEF LabelFails, TypeInv, TypeOK, WorkerOK, store, cache, stale, webhook, clock
<1>2. ASSUME NEW n \in Pods, OwnedFails(n) PROVE TypeInv'
    <2>1. wk.pc \in {"owned", "open"} /\ wk \in Worker /\ wk.wc \in WCs /\ wk' = [wk EXCEPT !.todo = @ \ {n}, !.failed = TRUE]
        BY <1>2 DEF OwnedFails, TypeInv, TypeOK, WorkerOK
    <2>2. wk' \in Worker /\ wk'.pc = wk.pc /\ wk'.wc = wk.wc
        <3>1. wk' \in Worker
            BY <2>1, WorkerVisited
        <3> QED
            BY <2>1, <3>1 DEF Worker
    <2>3. faults' \in Nat
        <3>1. faults \in Nat
            BY DEF TypeInv, TypeOK
        <3>2. faults' = faults + 1
            BY <1>2, Zenon DEF OwnedFails
        <3> QED
            BY <3>1, <3>2
    <2> QED
        BY <1>2, <2>1, <2>2, <2>3 DEF OwnedFails, TypeInv, TypeOK, WorkerOK, store, cache, stale, webhook, clock
<1>3. CASE ApplyFails
    <2>1. wk.pc = "apply" /\ wk \in Worker /\ wk.wc \in WCs /\ wk.cur.name \in Pods
          /\ wk' = [wk EXCEPT !.pc = "pods", !.cur = NoCur, !.failed = TRUE]
        BY <1>3 DEF ApplyFails, TypeInv, TypeOK, WorkerOK
    <2>2. wk' \in Worker /\ wk'.pc = "pods" /\ wk'.wc = wk.wc
        BY <2>1, WorkerApplied DEF Worker
    <2>3. pending' \in [WCs -> [Pods -> Request]] /\ queue' \subseteq WCs
        BY <1>3, <2>1, ReenqueueType DEF ApplyFails
    <2>4. faults' \in Nat
        BY <1>3 DEF ApplyFails, TypeInv, TypeOK
    <2> QED
        BY <1>3, <2>1, <2>2, <2>3, <2>4 DEF ApplyFails, TypeInv, TypeOK, WorkerOK, store, cache, stale, webhook, clock
<1> QED
    BY <1>1, <1>2, <1>3

\* leasePodPDB and syncPodPDB keep the types.
LEMMA ApplyTypes ==
    ASSUME TypeInv, ApplyPod
    PROVE  TypeInv'
<1>1. wk.pc = "apply" /\ wk \in Worker /\ wk.wc \in WCs /\ now + LeaseDuration \in Nat
    BY LeaseDurationAssumption DEF ApplyPod, TypeInv, TypeOK, WorkerOK
<1>2. WantedPDB \in PDB /\ wk.cur.name \in Pods
    BY <1>1, WantedType
<1>3. pdb' \in [Pods -> PDB] /\ pdbStale' \in [Pods -> BOOLEAN] /\ pdbEvents' \in [Pods -> SUBSET (WCs \cup {User})]
    BY <1>2, SetPDBType DEF ApplyPod, WritePDB, pdbVars, TypeInv, TypeOK
<1>4. wk' \in Worker /\ wk'.pc = "pods" /\ wk'.wc = wk.wc
    <2> DEFINE m == IF wk.cur.op = "lease" THEN MinPositive(wk.requeue, now + LeaseDuration) ELSE wk.requeue
    <2>1. m \in Nat
        BY <1>1, MinPositiveType DEF Worker
    <2>2. wk' = [wk EXCEPT !.pc = "pods", !.cur = NoCur, !.requeue = m]
        BY DEF ApplyPod
    <2> HIDE DEF m
    <2> QED
        BY <1>1, <2>1, <2>2, WorkerApplied DEF Worker
<1> QED
    BY <1>1, <1>3, <1>4 DEF ApplyPod, TypeInv, TypeOK, WorkerOK, podVars, wcVars, cache, webhook, clock

\* deletePDB keeps the types.
LEMMA DeletePDBTypes ==
    ASSUME TypeInv, NEW n \in Pods, DeletePDB(n)
    PROVE  /\ pdb' \in [Pods -> PDB] /\ pdbStale' \in [Pods -> BOOLEAN]
           /\ pdbEvents' \in [Pods -> SUBSET (WCs \cup {User})]
           /\ wk' \in Worker /\ wk'.pc = wk.pc /\ wk'.wc = wk.wc
<1>1. wk \in Worker
    BY DEF TypeInv, TypeOK
<1>2. CASE cpdb[n].owner = wk.wc /\ ~pdbStale[n]
    <2>1. SetPDB(n, NoPDB) /\ wk' = [wk EXCEPT !.todo = @ \ {n}]
        BY <1>2 DEF DeletePDB
    <2>2. wk' \in Worker
        BY <1>1, <2>1, WorkerVisited
    <2> QED
        BY <1>1, <2>1, <2>2, SetPDBType, NoneTypes DEF TypeInv, Worker
<1>3. CASE ~(cpdb[n].owner = wk.wc /\ ~pdbStale[n])
    <2> DEFINE f == wk.failed \/ (cpdb[n].owner = wk.wc /\ Exists(pdb[n]))
    <2>1. f \in BOOLEAN
        OBVIOUS
    <2>2. wk' = [wk EXCEPT !.todo = @ \ {n}, !.failed = f] /\ UNCHANGED pdbVars
        BY <1>3 DEF DeletePDB
    <2> HIDE DEF f
    <2>3. wk' \in Worker
        BY <1>1, <2>1, <2>2, WorkerVisited
    <2> QED
        BY <1>1, <2>2, <2>3 DEF pdbVars, TypeInv, TypeOK, Worker
<1> QED
    BY <1>2, <1>3

\* The loop over owned PDBs, openOwnedPDBs and the return keep the types.
LEMMA OwnedTypes ==
    ASSUME TypeInv, BeginOwned \/ EndReconcile \/ \E n \in Pods : VisitOwned(n) \/ OpenOwned(n)
    PROVE  TypeInv'
<1>1. CASE BeginOwned
    <2>1. wk \in Worker /\ wk.wc \in WCs /\ {n \in wk.owned : wk.gov[n].uid = 0} \subseteq Pods
        BY <1>1 DEF BeginOwned, TypeInv, TypeOK, WorkerOK, Worker
    <2>2. wk' \in Worker /\ wk'.pc = "owned" /\ wk'.wc = wk.wc
        BY <1>1, <2>1 DEF BeginOwned, Worker
    <2> QED
        BY <1>1, <2>1, <2>2 DEF BeginOwned, TypeInv, TypeOK, WorkerOK, store, cache, stale, webhook, clock
<1>2. CASE EndReconcile
    <2>1. wk.wc \in WCs /\ wk.requeue \in Nat
        BY <1>2 DEF EndReconcile, TypeInv, TypeOK, WorkerOK, Worker
    <2>2. queue' \subseteq WCs
        BY <1>2, <2>1 DEF EndReconcile, TypeInv, TypeOK
    <2>3. timer' \in [WCs -> Nat]
        <3>1. MinPositive(timer[wk.wc], wk.requeue) \in Nat
            BY <2>1, MinPositiveType DEF TypeInv, TypeOK
        <3> QED
            BY <1>2, <2>1, <3>1 DEF EndReconcile, TypeInv, TypeOK
    <2>4. wk' \in Worker /\ wk'.pc = "idle"
        BY <1>2, NoneTypes DEF EndReconcile, Idle
    <2> QED
        BY <1>2, <2>2, <2>3, <2>4 DEF EndReconcile, TypeInv, TypeOK, WorkerOK, store, cache, stale, webhook, clock
<1>3. ASSUME NEW n \in Pods, VisitOwned(n) PROVE TypeInv'
    <2>1. wk.pc = "owned" /\ wk \in Worker /\ wk.wc \in WCs
        BY <1>3 DEF VisitOwned, TypeInv, TypeOK, WorkerOK
    <2>2. /\ pdb' \in [Pods -> PDB] /\ pdbStale' \in [Pods -> BOOLEAN]
          /\ pdbEvents' \in [Pods -> SUBSET (WCs \cup {User})]
          /\ wk' \in Worker /\ wk'.pc = wk.pc /\ wk'.wc = wk.wc
        <3>1. CASE LeftForAdoption(n)
            <4>1. wk' = [wk EXCEPT !.todo = @ \ {n}] /\ UNCHANGED pdbVars
                BY <1>3, <3>1 DEF VisitOwned
            <4>2. wk' \in Worker
                BY <2>1, <4>1, WorkerVisited
            <4> QED
                BY <2>1, <4>1, <4>2 DEF pdbVars, TypeInv, TypeOK, Worker
        <3>2. CASE ~LeftForAdoption(n)
            BY <1>3, <3>2, DeletePDBTypes DEF VisitOwned
        <3> QED
            BY <3>1, <3>2
    <2> QED
        BY <1>3, <2>1, <2>2 DEF VisitOwned, TypeInv, TypeOK, WorkerOK, podVars, wcVars, cache, webhook, clock
<1>4. ASSUME NEW n \in Pods, OpenOwned(n) PROVE TypeInv'
    <2> DEFINE want == SyncedPDB(wk.wc, cpod[n], wk.readiness, FALSE)
    <2>1. wk.pc = "open" /\ wk \in Worker /\ wk.wc \in WCs /\ cpod[n] \in Pod
        BY <1>4 DEF OpenOwned, TypeInv, TypeOK, WorkerOK
    <2>2. want \in PDB
        BY <2>1, SyncedType
    <2>3. \/ DeletePDB(n)
          \/ WritePDB(n, want) /\ wk' = [wk EXCEPT !.todo = @ \ {n}]
          \/ wk' = [wk EXCEPT !.todo = @ \ {n}, !.failed = TRUE] /\ UNCHANGED pdbVars
        BY <1>4 DEF OpenOwned
    <2> HIDE DEF want
    <2>4. /\ pdb' \in [Pods -> PDB] /\ pdbStale' \in [Pods -> BOOLEAN]
          /\ pdbEvents' \in [Pods -> SUBSET (WCs \cup {User})]
          /\ wk' \in Worker /\ wk'.pc = wk.pc /\ wk'.wc = wk.wc
        <3>1. CASE DeletePDB(n)
            BY <3>1, DeletePDBTypes
        <3>2. CASE WritePDB(n, want) /\ wk' = [wk EXCEPT !.todo = @ \ {n}]
            <4>1. wk' \in Worker
                BY <2>1, <3>2, WorkerVisited
            <4> QED
                BY <2>1, <2>2, <3>2, <4>1, SetPDBType DEF WritePDB, pdbVars, TypeInv, TypeOK, Worker
        <3>3. CASE wk' = [wk EXCEPT !.todo = @ \ {n}, !.failed = TRUE] /\ UNCHANGED pdbVars
            <4>1. wk' \in Worker
                BY <2>1, <3>3, WorkerVisited
            <4> QED
                BY <2>1, <3>3, <4>1 DEF pdbVars, TypeInv, TypeOK, Worker
        <3> QED
            BY <2>3, <3>1, <3>2, <3>3
    <2> QED
        BY <1>4, <2>1, <2>4 DEF OpenOwned, TypeInv, TypeOK, WorkerOK, podVars, wcVars, cache, webhook, clock
<1> QED
    BY <1>1, <1>2, <1>3, <1>4

\* The webhook and the eviction it admits keep the types.
LEMMA WebhookTypes ==
    ASSUME TypeInv, NEW s \in Subjects, NEW n \in Pods, Handle(s, n) \/ Evict(s, n)
    PROVE  TypeInv'
<1>1. CASE Handle(s, n)
    <2> DEFINE best == CachedBest(cpod[n].lbl)
               r    == [uid |-> cpod[n].uid, subject |-> s]
    <2>1. best \in WCs \cup {None}
        BY BestType, EnforcedType DEF CachedBest, CachedEnforced
    <2>2. cpod[n].uid \in Nat /\ r \in Request
        BY DEF TypeInv, TypeOK, Pod, Request
    <2>3. pending' \in [WCs -> [Pods -> Request]] /\ queue' \subseteq WCs /\ asked' \subseteq Subjects \X Nat
        <3>1. CASE ~Unconstrained(best) /\ NeedsLease(s, n)
            <4>1. best \in WCs
                BY <2>1, <3>1 DEF Unconstrained
            <4>2. /\ pending' = [pending EXCEPT ![best][n] = Enqueued(pending[best][n], r)]
                  /\ queue' = queue \cup {best}
                  /\ asked' = asked \cup {<<s, cpod[n].uid>>}
                BY <1>1, <3>1 DEF Handle
            <4>3. Enqueued(pending[best][n], r) \in Request
                BY <2>2, <4>1, EnqueuedType DEF TypeInv, TypeOK
            <4> HIDE DEF best, r
            <4> QED
                BY <2>2, <4>1, <4>2, <4>3, PendingType DEF TypeInv, TypeOK
        <3>2. CASE ~(~Unconstrained(best) /\ NeedsLease(s, n))
            BY <1>1, <3>2 DEF Handle, TypeInv, TypeOK
        <3> QED
            BY <3>1, <3>2
    <2>4. eviction' \in [Subjects -> Pods \cup {None}] /\ evictions' \in Nat
        BY <1>1 DEF Handle, TypeInv, TypeOK
    <2> QED
        BY <1>1, <2>3, <2>4 DEF Handle, TypeInv, TypeOK, WorkerOK, store, cache, stale, clock
<1>2. CASE Evict(s, n)
    <2>1. [pod[n] EXCEPT !.active = FALSE] \in Pod
        <3>1. pod[n] \in Pod
            BY DEF TypeInv, TypeOK
        <3> QED
            BY <3>1, PodUpdateType
    <2>2. pod' \in [Pods -> Pod] /\ podEvents' \in [Pods -> SUBSET Labels]
        <3>1. CASE UNCHANGED podVars
            BY <3>1 DEF podVars, TypeInv, TypeOK
        <3>2. CASE SetPod(n, [pod[n] EXCEPT !.active = FALSE])
            BY <2>1, <3>2, SetPodType DEF TypeInv
        <3> QED
            BY <1>2, <3>1, <3>2 DEF Evict
    <2>3. eviction' \in [Subjects -> Pods \cup {None}]
        BY <1>2 DEF Evict, TypeInv, TypeOK
    <2> QED
        BY <1>2, <2>2, <2>3 DEF Evict, TypeInv, TypeOK, WorkerOK, pdbVars, wcVars, cache, clock
<1> QED
    BY <1>1, <1>2

\* Workload controllers, the kubelet and users change Pods.
LEMMA PodChangeTypes ==
    ASSUME TypeInv, NEW n \in Pods,
           \/ TerminatePod(n) \/ RemovePod(n) \/ RemoveUIDLabel(n)
           \/ \E l \in Labels : CreatePod(n, l) \/ RelabelPod(n, l)
    PROVE  TypeInv'
<1>1. pod[n] \in Pod /\ nextUid \in Nat /\ changes \in Nat /\ TypeOK
    BY DEF TypeInv, TypeOK
<1>2. PICK new \in Pod : SetPod(n, new)
    <2>1. CASE TerminatePod(n)
        BY <1>1, <2>1, PodUpdateType DEF TerminatePod
    <2>2. CASE RemovePod(n)
        BY <2>2, NoneTypes DEF RemovePod
    <2>3. CASE RemoveUIDLabel(n)
        BY <1>1, <2>3, PodUpdateType DEF RemoveUIDLabel
    <2>4. ASSUME NEW l \in Labels, RelabelPod(n, l) PROVE \E new \in Pod : SetPod(n, new)
        BY <1>1, <2>4, PodUpdateType DEF RelabelPod
    <2>5. ASSUME NEW l \in Labels, CreatePod(n, l) PROVE \E new \in Pod : SetPod(n, new)
        <3>1. [uid |-> nextUid, active |-> TRUE, lbl |-> l, uidLabel |-> 0] \in Pod
            BY <1>1 DEF Pod
        <3> QED
            BY <2>5, <3>1 DEF CreatePod
    <2> QED
        BY <2>1, <2>2, <2>3, <2>4, <2>5
<1>3. pod' \in [Pods -> Pod] /\ podEvents' \in [Pods -> SUBSET Labels]
    BY <1>1, <1>2, SetPodType
<1>4. changes' \in Nat
    <2>1. changes' = changes \/ changes' = changes + 1
        BY DEF TerminatePod, RemovePod, RemoveUIDLabel, CreatePod, RelabelPod, Change
    <2> QED
        BY <1>1, <2>1
<1>5. nextUid' \in Nat \ {0} /\ now' = now
    <2>1. (nextUid' = nextUid \/ nextUid' = nextUid + 1) /\ now' = now
        BY DEF TerminatePod, RemovePod, RemoveUIDLabel, CreatePod, RelabelPod, clock
    <2> QED
        BY <2>1 DEF TypeInv, TypeOK
<1>6. UNCHANGED <<pdbVars, wcVars, ns, cache, pending, queue, timer, wk, webhook, faults>>
    BY DEF TerminatePod, RemovePod, RemoveUIDLabel, CreatePod, RelabelPod
<1> QED
    BY <1>3, <1>4, <1>5, <1>6 DEF TypeInv, TypeOK, WorkerOK, pdbVars, wcVars, cache, webhook

\* Users and the garbage collector change PDBs.
LEMMA PDBChangeTypes ==
    ASSUME TypeInv, NEW n \in Pods,
           CollectPDB(n) \/ CreateUserPDB(n) \/ DeletePDBByUser(n) \/ EditPDBByUser(n)
    PROVE  TypeInv'
<1>1. pdb[n] \in PDB /\ changes \in Nat /\ TypeOK
    BY DEF TypeInv, TypeOK
<1>2. PICK new \in PDB : SetPDB(n, new)
    <2>1. [NoPDB EXCEPT !.owner = User] \in PDB /\ [pdb[n] EXCEPT !.open = ~@] \in PDB
        BY <1>1 DEF PDB, NoPDB
    <2> QED
        BY <2>1, NoneTypes DEF CollectPDB, CreateUserPDB, DeletePDBByUser, EditPDBByUser
<1>3. /\ pdb' \in [Pods -> PDB] /\ pdbStale' \in [Pods -> BOOLEAN]
      /\ pdbEvents' \in [Pods -> SUBSET (WCs \cup {User})]
    BY <1>1, <1>2, SetPDBType
<1>4. changes' \in Nat
    BY <1>1 DEF CollectPDB, CreateUserPDB, DeletePDBByUser, EditPDBByUser, Change
<1>5. UNCHANGED <<podVars, wcVars, ns, cache, pending, queue, timer, wk, webhook, clock, faults>>
    BY DEF CollectPDB, CreateUserPDB, DeletePDBByUser, EditPDBByUser
<1> QED
    BY <1>3, <1>4, <1>5 DEF TypeInv, TypeOK, WorkerOK, podVars, wcVars, cache, webhook, clock

\* Users create, change and delete WorkloadClasses.
LEMMA WCChangeTypes ==
    ASSUME TypeInv, NEW w \in WCs,
           \/ DeleteWC(w) \/ FinishDeleteWC(w)
           \/ \E spec \in Specs[w] : CreateWC(w, spec) \/ UpdateWC(w, spec)
    PROVE  TypeInv'
<1>1. wc[w] \in WCObject /\ changes \in Nat /\ TypeOK /\ Specs[w] \subseteq WCSpec
    BY SpecsAssumption DEF TypeInv, TypeOK
<1>2. PICK new \in WCObject : SetWC(w, new)
    <2>1. CASE DeleteWC(w) \/ FinishDeleteWC(w)
        BY <1>1, <2>1, WCUpdateType DEF DeleteWC, FinishDeleteWC
    <2>2. ASSUME NEW spec \in Specs[w], CreateWC(w, spec) \/ UpdateWC(w, spec)
          PROVE  \E new \in WCObject : SetWC(w, new)
        <3>1. spec \in WCSpec
            BY <1>1
        <3>2. [wc[w] EXCEPT !.spec = spec, !.gen = @ + 1] \in WCObject
            BY <1>1, <3>1, WCUpdateType
        <3>3. [NoWC EXCEPT !.phase = "live", !.spec = spec, !.gen = 1] \in WCObject
            BY <3>1, NoneTypes DEF WCObject
        <3> QED
            BY <2>2, <3>2, <3>3 DEF CreateWC, UpdateWC
    <2> QED
        BY <2>1, <2>2
<1>3. wc' \in [WCs -> WCObject] /\ wcStale' \in [WCs -> BOOLEAN]
    BY <1>1, <1>2, SetWCType
<1>4. changes' \in Nat
    <2>1. changes' = changes \/ changes' = changes + 1
        BY DEF DeleteWC, FinishDeleteWC, CreateWC, UpdateWC, Change
    <2> QED
        BY <1>1, <2>1
<1>5. UNCHANGED <<podVars, pdbVars, ns, cache, pending, queue, timer, wk, webhook, clock, faults>>
    BY DEF DeleteWC, FinishDeleteWC, CreateWC, UpdateWC
<1> QED
    BY <1>3, <1>4, <1>5 DEF TypeInv, TypeOK, WorkerOK, podVars, pdbVars, cache, webhook, clock

\* The namespace's label, its guardrails and its user PDBs change.
LEMMA NSChangeTypes ==
    ASSUME TypeInv,
           \/ \E l \in SUBSET Labels : ChangeNS("cover", l)
           \/ \E w \in WCs \cup {None} : ChangeNS("enforced", w)
           \/ \E g \in BOOLEAN : ChangeNS("guardrails", g)
    PROVE  TypeInv'
<1>1. ns \in NS /\ changes \in Nat
    BY DEF TypeInv, TypeOK
<1>2. ns' \in NS
    BY <1>1 DEF ChangeNS, NS
<1>3. changes' \in Nat
    BY <1>1 DEF ChangeNS, Change
<1>4. UNCHANGED <<pod, pdb, wc, cache, stale, pending, queue, timer, wk, webhook, clock, faults>>
    BY DEF ChangeNS
<1> QED
    BY <1>2, <1>3, <1>4 DEF TypeInv, TypeOK, WorkerOK, cache, stale, webhook, clock

\* Time passes and timers fire.
LEMMA ClockTypes ==
    ASSUME TypeInv, Tick \/ \E w \in WCs : TimerFires(w)
    PROVE  TypeInv'
<1>1. CASE Tick
    <2>1. now' \in Nat
        BY <1>1 DEF Tick, TypeInv, TypeOK
    <2> QED
        BY <1>1, <2>1 DEF Tick, TypeInv, TypeOK, WorkerOK, store, cache, stale, webhook
<1>2. ASSUME NEW w \in WCs, TimerFires(w) PROVE TypeInv'
    <2>1. timer' \in [WCs -> Nat] /\ queue' \subseteq WCs
        BY <1>2 DEF TimerFires, TypeInv, TypeOK
    <2> QED
        BY <1>2, <2>1 DEF TimerFires, TypeInv, TypeOK, WorkerOK, store, cache, stale, webhook, clock
<1> QED
    BY <1>1, <1>2

\* The manager starts again.
LEMMA RestartTypes ==
    ASSUME TypeInv, Restart
    PROVE  TypeInv'
<1>1. queue' \subseteq WCs /\ faults' \in Nat
    BY DEF Restart, RequestsInNamespace, TypeInv, TypeOK
<1>2. wk' \in Worker /\ WorkerOK'
    <2>1. wk' = Idle /\ Idle \in Worker
        BY NoneTypes DEF Restart
    <2> QED
        BY <2>1 DEF WorkerOK, Idle
<1>3. pending' \in [WCs -> [Pods -> Request]]
    BY NoneTypes DEF Restart
<1>4. /\ cpod' \in [Pods -> Pod] /\ cpdb' \in [Pods -> PDB] /\ cwc' \in [WCs -> WCObject] /\ cns' \in NS
      /\ pdbStale' \in [Pods -> BOOLEAN] /\ wcStale' \in [WCs -> BOOLEAN]
      /\ podEvents' \in [Pods -> SUBSET Labels] /\ pdbEvents' \in [Pods -> SUBSET (WCs \cup {User})]
      /\ timer' \in [WCs -> Nat]
    BY DEF Restart, TypeInv, TypeOK
<1> QED
    BY <1>1, <1>2, <1>3, <1>4 DEF Restart, TypeInv, TypeOK, store, webhook, clock

-----------------------------------------------------------------------------
\* Every step keeps the types.
LEMMA TypeInvNext == TypeInv /\ [Next]_vars => TypeInv'
<1> SUFFICES ASSUME TypeInv, [Next]_vars PROVE TypeInv'
    OBVIOUS
<1>1. CASE Deliver
    BY <1>1, DeliverTypes
<1>2. CASE Work
    <2>1. CASE \E w \in WCs : ReconcileDeleted(w) \/ BeginReconcile(w)
        BY <2>1, BeginTypes
    <2>2. CASE ListCluster \/ ListFails
        BY <2>2, ListTypes
    <2> QED
        BY <1>2, <2>1, <2>2, DecideTypes, ErrorTypes, ApplyTypes, OwnedTypes DEF Work
<1>3. CASE Tick \/ \E w \in WCs : TimerFires(w)
    BY <1>3, ClockTypes
<1>4. CASE \E s \in Subjects, n \in Pods : Handle(s, n) \/ Evict(s, n)
    BY <1>4, WebhookTypes
<1>5. CASE Environment
    BY <1>5, DeliverTypes, PodChangeTypes, PDBChangeTypes, WCChangeTypes, NSChangeTypes DEF Environment
<1>6. CASE UNCHANGED vars
    BY <1>6 DEF vars, store, cache, stale, webhook, clock, TypeInv, TypeOK, WorkerOK
<1> QED
    BY <1>1, <1>2, <1>3, <1>4, <1>5, <1>6, RestartTypes DEF Next

\* Type correctness of the controller, for any Pods, classes, subjects, labels and
\* bounds: every write of Reconcile, of the webhook and of the environment is well
\* formed, and no lease expiry or timer falls before time 0.
THEOREM ControllerTypes == Spec => []TypeOK
<1>1. Init => TypeInv
    BY TypeInvInit
<1>2. TypeInv /\ [Next]_vars => TypeInv'
    BY TypeInvNext
<1>3. TypeInv => TypeOK
    BY DEF TypeInv
<1> QED
    BY <1>1, <1>2, <1>3, PTL DEF Spec

-----------------------------------------------------------------------------
(* No lease request is forgotten. *)

\* The steps that leave the requests alone, never shorten the queue and do not
\* move a reconcile that has yet to drain.
LEMMA NoLostQuiet ==
    ASSUME NoLostRequest, pending' = pending, queue \subseteq queue', wk.pc = "list" => wk' = wk
    PROVE  NoLostRequest'
BY DEF NoLostRequest

\* reenqueueLeases puts a request back and queues its class in the same step.
LEMMA NoLostReenqueue ==
    ASSUME TypeInv, NoLostRequest, NEW n \in Pods, NEW uid,
           wk.pc # "idle", wk.pc # "list", Reenqueue(n, uid)
    PROVE  NoLostRequest'
<1>1. CASE pending' = pending /\ queue' = queue
    BY <1>1, NoLostQuiet
<1>2. CASE /\ pending' = [pending EXCEPT ![wk.wc][n] = Enqueued(pending[wk.wc][n], wk.leases[n])]
           /\ queue' = queue \cup {wk.wc}
    <2>1. ASSUME NEW w \in WCs, w # wk.wc PROVE pending'[w] = pending[w]
        BY <1>2, <2>1 DEF TypeInv, TypeOK
    <2> QED
        BY <1>2, <2>1 DEF NoLostRequest
<1> QED
    BY <1>1, <1>2 DEF Reenqueue

\* Every step of the controller, the webhook and the environment keeps it.
LEMMA NoLostNext == TypeInv /\ NoLostRequest /\ [Next]_vars => NoLostRequest'
<1> SUFFICES ASSUME TypeInv, NoLostRequest, [Next]_vars PROVE NoLostRequest'
    OBVIOUS
<1>1. CASE Deliver \/ Environment \/ Tick \/ UNCHANGED vars \/ \E w \in WCs : TimerFires(w)
    <2>1. pending' = pending /\ queue \subseteq queue' /\ wk' = wk
        <3>1. CASE Deliver
            BY <3>1 DEF Deliver, DeliverPod, DeliverPDB, DeliverWC, DeliverNS
        <3>2. CASE Environment
            BY <3>2 DEF Environment, TerminatePod, RemovePod, RemoveUIDLabel, RelistPod, CollectPDB,
                        CreateUserPDB, DeletePDBByUser, EditPDBByUser, CreatePod, RelabelPod,
                        DeleteWC, FinishDeleteWC, CreateWC, UpdateWC, ChangeNS
        <3>3. CASE Tick \/ UNCHANGED vars \/ \E w \in WCs : TimerFires(w)
            BY <3>3 DEF Tick, vars, TimerFires
        <3> QED
            BY <1>1, <3>1, <3>2, <3>3
    <2> QED
        BY <2>1, NoLostQuiet
<1>2. ASSUME NEW w \in WCs, ReconcileDeleted(w) PROVE NoLostRequest'
    <2>1. /\ pending' = [pending EXCEPT ![w] = [n \in Pods |-> NoRequest]]
          /\ queue' = queue \ {w} /\ wk' = wk /\ wk.pc = "idle"
        BY <1>2 DEF ReconcileDeleted
    <2> QED
        BY <2>1 DEF NoLostRequest, TypeInv, TypeOK, NoRequest
<1>3. ASSUME NEW w \in WCs, BeginReconcile(w) PROVE NoLostRequest'
    <2>1. pending' = pending /\ queue' = queue \ {w} /\ wk.pc = "idle" /\ wk'.pc = "list" /\ wk'.wc = w
        BY <1>3 DEF BeginReconcile, Idle
    <2> QED
        BY <2>1 DEF NoLostRequest
<1>4. CASE ListCluster
    <2>1. /\ pending' = [pending EXCEPT ![wk.wc] = [n \in Pods |-> NoRequest]]
          /\ queue' = queue
        BY <1>4 DEF ListCluster
    <2> QED
        BY <2>1 DEF NoLostRequest, TypeInv, TypeOK, NoRequest
<1>5. CASE ListFails
    BY <1>5 DEF ListFails, NoLostRequest
<1>6. CASE ApplyPod \/ BeginOwned \/ EndReconcile
    <2>1. pending' = pending /\ queue \subseteq queue' /\ wk.pc # "list"
        BY <1>6 DEF ApplyPod, BeginOwned, EndReconcile
    <2> QED
        BY <2>1, NoLostQuiet
<1>7. ASSUME NEW n \in Pods, DecidePod(n) \/ VisitOwned(n) \/ OpenOwned(n) \/ OwnedFails(n)
      PROVE  NoLostRequest'
    <2>1. pending' = pending /\ queue \subseteq queue' /\ wk.pc # "list"
        BY <1>7 DEF DecidePod, VisitOwned, OpenOwned, OwnedFails
    <2> QED
        BY <2>1, NoLostQuiet
<1>8. ASSUME NEW n \in Pods, LabelFails(n) PROVE NoLostRequest'
    BY <1>8, NoLostReenqueue DEF LabelFails
<1>9. CASE ApplyFails
    BY <1>9, NoLostReenqueue DEF ApplyFails, TypeInv, WorkerOK
<1>10. ASSUME NEW s \in Subjects, NEW n \in Pods, Handle(s, n) PROVE NoLostRequest'
    <2> DEFINE best == CachedBest(cpod[n].lbl)
    <2>1. CASE pending' = pending /\ queue' = queue
        BY <1>10, <2>1, NoLostQuiet DEF Handle
    <2>2. ASSUME NEW r, pending' = [pending EXCEPT ![best][n] = r], queue' = queue \cup {best}
          PROVE  NoLostRequest'
        <3> HIDE DEF best
        <3>1. wk' = wk
            BY <1>10 DEF Handle
        <3>2. ASSUME NEW w \in WCs, w # best PROVE pending'[w] = pending[w]
            BY <2>2, <3>2 DEF TypeInv, TypeOK
        <3> QED
            BY <2>2, <3>1, <3>2 DEF NoLostRequest
    <2> QED
        BY <1>10, <2>1, <2>2 DEF Handle
<1>11. ASSUME NEW s \in Subjects, NEW n \in Pods, Evict(s, n) PROVE NoLostRequest'
    BY <1>11, NoLostQuiet DEF Evict
<1>12. CASE Restart
    BY <1>12 DEF Restart, NoLostRequest, NoRequest
<1> QED
    BY <1>1, <1>2, <1>3, <1>4, <1>5, <1>6, <1>7, <1>8, <1>9, <1>10, <1>11, <1>12 DEF Next, Work

\* A lease request the webhook recorded always has a reconcile of its class coming
\* that will drain it, whatever fails in between: Reconcile dequeues before it
\* drains, and every path that puts a request back signals or requeues the class.
THEOREM ControllerNoLostRequest == Spec => []NoLostRequest
<1>1. Init => TypeInv /\ NoLostRequest
    <2>1. Init => NoLostRequest
        BY DEF Init, NoLostRequest, NoRequest
    <2> QED
        BY <2>1, TypeInvInit
<1>2. TypeInv /\ NoLostRequest /\ [Next]_vars => TypeInv' /\ NoLostRequest'
    BY TypeInvNext, NoLostNext
<1> QED
    BY <1>1, <1>2, PTL DEF Spec

-----------------------------------------------------------------------------
(* What the controller may do to PDBs that are not its own. *)

\* A PDB that is not marked stale in the informer is the stored one.
LEMMA CacheCoherentNext == TypeInv /\ CacheCoherent /\ [Next]_vars => CacheCoherent'
<1> SUFFICES ASSUME TypeInv, CacheCoherent, [Next]_vars PROVE CacheCoherent'
    OBVIOUS
<1>1. CASE UNCHANGED <<pdb, cpdb, pdbStale>>
    BY <1>1 DEF CacheCoherent
<1>2. ASSUME NEW n \in Pods, NEW new, SetPDB(n, new), cpdb' = cpdb PROVE CacheCoherent'
    BY <1>2 DEF SetPDB, CacheCoherent, TypeInv, TypeOK
<1>3. ASSUME NEW n \in Pods, DeliverPDB(n) PROVE CacheCoherent'
    <2>1. /\ cpdb' = [cpdb EXCEPT ![n] = pdb[n]] /\ pdb' = pdb
          /\ pdbStale' = [pdbStale EXCEPT ![n] = FALSE]
        BY <1>3 DEF DeliverPDB, store
    <2> QED
        BY <2>1 DEF CacheCoherent, TypeInv, TypeOK
<1>4. CASE Deliver
    BY <1>1, <1>3, <1>4 DEF Deliver, DeliverPod, DeliverWC, DeliverNS, store, stale
<1>5. CASE Work
    <2>1. CASE \/ ListCluster \/ BeginOwned \/ EndReconcile \/ ListFails \/ ApplyFails
               \/ \E w \in WCs : ReconcileDeleted(w) \/ BeginReconcile(w)
               \/ \E n \in Pods : DecidePod(n) \/ LabelFails(n) \/ OwnedFails(n)
        BY <1>1, <2>1 DEF ListCluster, BeginOwned, EndReconcile, ListFails, ApplyFails, ReconcileDeleted,
                  BeginReconcile, DecidePod, LabelFails, OwnedFails, store, stale, cache, pdbVars
    <2>2. CASE ApplyPod
        BY <1>1, <1>2, <2>2, WantedType DEF ApplyPod, WritePDB, pdbVars, cache
    <2>3. ASSUME NEW n \in Pods, VisitOwned(n) PROVE CacheCoherent'
        BY <1>1, <1>2, <2>3 DEF VisitOwned, DeletePDB, pdbVars, cache
    <2>4. ASSUME NEW n \in Pods, OpenOwned(n) PROVE CacheCoherent'
        BY <1>1, <1>2, <2>4 DEF OpenOwned, DeletePDB, WritePDB, pdbVars, cache
    <2> QED
        BY <1>5, <2>1, <2>2, <2>3, <2>4 DEF Work
<1>6. CASE Environment
    <2>1. ASSUME NEW n \in Pods,
                 CollectPDB(n) \/ CreateUserPDB(n) \/ DeletePDBByUser(n) \/ EditPDBByUser(n)
          PROVE  CacheCoherent'
        BY <1>2, <2>1 DEF CollectPDB, CreateUserPDB, DeletePDBByUser, EditPDBByUser, cache
    <2> QED
        BY <1>1, <1>6, <2>1 DEF Environment, TerminatePod, RemovePod, RemoveUIDLabel, RelistPod, CreatePod,
                  RelabelPod, DeleteWC, FinishDeleteWC, CreateWC, UpdateWC, ChangeNS, pdbVars, cache, store, stale
<1>7. CASE \/ Tick \/ UNCHANGED vars \/ \E w \in WCs : TimerFires(w)
           \/ \E s \in Subjects, n \in Pods : Handle(s, n) \/ Evict(s, n)
    BY <1>1, <1>7 DEF Tick, TimerFires, Handle, Evict, vars, store, cache, stale, pdbVars
<1>8. CASE Restart
    BY <1>8 DEF Restart, CacheCoherent, store
<1> QED
    BY <1>4, <1>5, <1>6, <1>7, <1>8 DEF Next

\* deletePDB deletes only a PDB the class controls.
LEMMA DeleteWrites ==
    ASSUME TypeInv, CacheCoherent, NEW m \in Pods, NEW n \in Pods, DeletePDB(m), pdb'[n] # pdb[n]
    PROVE  pdb[n].owner = wk.wc
BY DEF DeletePDB, SetPDB, pdbVars, CacheCoherent, TypeInv, TypeOK

\* CreateOrUpdate with claimPDB writes no PDB of a user.
LEMMA ClaimWrites ==
    ASSUME TypeInv, CacheCoherent, NEW m \in Pods, NEW want, NEW n \in Pods,
           WriteAccepted(m, want), WritePDB(m, want), pdb'[n] # pdb[n]
    PROVE  pdb[n].owner # User /\ pdb'[n] = want
<1>1. ~(cpdb[m] = want) /\ SetPDB(m, want)
    BY DEF WritePDB, pdbVars
<1>2. n = m /\ pdb'[n] = want
    BY <1>1 DEF SetPDB, TypeInv, TypeOK
<1>3. ~Exists(pdb[m]) \/ (cpdb[m] = pdb[m] /\ Exists(cpdb[m]) /\ ~ClaimRefused(cpdb[m]))
    BY <1>1 DEF WriteAccepted, CacheCoherent
<1> QED
    BY <1>2, <1>3, DistinctNames DEF ClaimRefused, Exists, IsWorkloadClassManagedPDB

\* A step of the worker that changes a PDB changes none of a user's, and leaves
\* the PDB to its own class or takes it from it.
LEMMA WorkerWrites ==
    ASSUME TypeInv, CacheCoherent, [Next]_vars, wk' # wk, NEW n \in Pods, pdb'[n] # pdb[n]
    PROVE  /\ wk.wc \in WCs
           /\ pdb[n].owner # User
           /\ pdb[n].owner = wk.wc \/ pdb'[n].owner = wk.wc
<1>1. CASE ApplyPod
    <2>1. wk.wc \in WCs /\ WantedPDB.owner = wk.wc
        BY <1>1 DEF ApplyPod, TypeInv, WorkerOK, WantedPDB, LeasedPDB, SyncedPDB
    <2> QED
        BY <1>1, <2>1, ClaimWrites, WantedType DEF ApplyPod
<1>2. ASSUME NEW m \in Pods, VisitOwned(m) \/ OpenOwned(m)
      PROVE  /\ wk.wc \in WCs
             /\ pdb[n].owner # User
             /\ pdb[n].owner = wk.wc \/ pdb'[n].owner = wk.wc
    <2> DEFINE want == SyncedPDB(wk.wc, cpod[m], wk.readiness, FALSE)
    <2>1. wk.wc \in WCs /\ want.owner = wk.wc
        BY <1>2 DEF VisitOwned, OpenOwned, TypeInv, WorkerOK, SyncedPDB
    <2>2. CASE DeletePDB(m)
        BY <2>1, <2>2, DeleteWrites, DistinctNames
    <2>3. CASE WriteAccepted(m, want) /\ WritePDB(m, want)
        BY <2>1, <2>3, ClaimWrites
    <2>4. CASE UNCHANGED pdbVars
        BY <2>4 DEF pdbVars
    <2> QED
        BY <1>2, <2>2, <2>3, <2>4 DEF VisitOwned, OpenOwned
<1>3. CASE \/ ListCluster \/ BeginOwned \/ EndReconcile \/ ListFails \/ ApplyFails
           \/ \E w \in WCs : ReconcileDeleted(w) \/ BeginReconcile(w)
           \/ \E m \in Pods : DecidePod(m) \/ LabelFails(m) \/ OwnedFails(m)
    <2>1. pdb' = pdb
        BY <1>3 DEF ListCluster, BeginOwned, EndReconcile, ListFails, ApplyFails, ReconcileDeleted,
                  BeginReconcile, DecidePod, LabelFails, OwnedFails, store, pdbVars
    <2> QED
        BY <2>1
<1>4. CASE ~Work
    <2>1. CASE Deliver
        BY <2>1 DEF Deliver, DeliverPod, DeliverPDB, DeliverWC, DeliverNS
    <2>2. CASE Environment
        BY <2>2 DEF Environment, TerminatePod, RemovePod, RemoveUIDLabel, RelistPod, CollectPDB,
                    CreateUserPDB, DeletePDBByUser, EditPDBByUser, CreatePod, RelabelPod,
                    DeleteWC, FinishDeleteWC, CreateWC, UpdateWC, ChangeNS
    <2>3. CASE Restart
        BY <2>3 DEF Restart, store
    <2> QED
        BY <1>4, <2>1, <2>2, <2>3 DEF Next, Tick, TimerFires, Handle, Evict, vars
<1> QED
    BY <1>1, <1>2, <1>3, <1>4 DEF Work

\* The controller never changes or deletes a PDB of a user, even one created under
\* the name workload-<pod> between the read of a reconcile and its write: claimPDB
\* refuses what it read, and a stale read fails on the resourceVersion.
THEOREM ControllerUserPDBUntouched == Spec => UserPDBUntouched
<1>1. Init => TypeInv /\ CacheCoherent
    <2>1. Init => CacheCoherent
        BY DEF Init, CacheCoherent
    <2> QED
        BY <2>1, TypeInvInit
<1>2. TypeInv /\ CacheCoherent /\ [Next]_vars => TypeInv' /\ CacheCoherent'
    BY TypeInvNext, CacheCoherentNext
<1>3. TypeInv /\ CacheCoherent /\ [Next]_vars
        => [\A n \in Pods : pdb[n].owner = User /\ wk' # wk => pdb'[n] = pdb[n]]_vars
    BY WorkerWrites
<1> QED
    BY <1>1, <1>2, <1>3, PTL DEF Spec, UserPDBUntouched

\* The reconcile of one class never deletes a PDB that another class controls by
\* then: the deletion's preconditions are those of the PDB it checked.
THEOREM ControllerNoForeignDelete == Spec => NoForeignDelete
<1>1. Init => TypeInv /\ CacheCoherent
    <2>1. Init => CacheCoherent
        BY DEF Init, CacheCoherent
    <2> QED
        BY <2>1, TypeInvInit
<1>2. TypeInv /\ CacheCoherent /\ [Next]_vars => TypeInv' /\ CacheCoherent'
    BY TypeInvNext, CacheCoherentNext
<1>3. TypeInv /\ CacheCoherent /\ [Next]_vars
        => [\A n \in Pods : Exists(pdb[n]) /\ ~Exists(pdb'[n]) /\ wk' # wk => pdb[n].owner = wk.wc]_vars
    <2> SUFFICES ASSUME TypeInv, CacheCoherent, [Next]_vars, NEW n \in Pods,
                        Exists(pdb[n]), ~Exists(pdb'[n]), wk' # wk
                 PROVE  pdb[n].owner = wk.wc
        OBVIOUS
    <2>1. pdb'[n] # pdb[n]
        OBVIOUS
    <2>2. wk.wc \in WCs /\ (pdb[n].owner = wk.wc \/ pdb'[n].owner = wk.wc)
        BY <2>1, WorkerWrites
    <2> QED
        BY <2>2, DistinctNames DEF Exists
<1> QED
    BY <1>1, <1>2, <1>3, PTL DEF Spec, NoForeignDelete

-----------------------------------------------------------------------------
(* Every lease was asked for. *)

\* A request, wherever it is, was made: by whom and for which Pod instance.
WasAsked(r) == r.subject # None => <<r.subject, r.uid>> \in asked

\* Why LeaseWasRequested holds: the requests on their way from the webhook to the
\* PDB are recorded ones, and a lease that has been decided is for the Pod instance
\* the request names.
LeaseInv ==
    /\ \A w \in WCs, n \in Pods : WasAsked(pending[w][n])
    /\ \A n \in Pods : WasAsked(wk.leases[n])
    /\ wk.pc = "apply" /\ wk.cur.op = "lease" =>
          /\ wk.leases[wk.cur.name].subject # None
          /\ wk.leases[wk.cur.name].uid = wk.cur.pod.uid
    /\ LeaseWasRequested

\* The steps that move no request and write no PDB.
LEMMA LeaseQuiet ==
    ASSUME TypeInv, LeaseInv, pending' = pending, pdb' = pdb, wk' = wk, asked \subseteq asked'
    PROVE  LeaseInv'
BY DEF LeaseInv, WasAsked, LeaseWasRequested

\* A PDB written without a lease, or with the one it had, needs no new request.
LEMMA LeasePDBWrite ==
    ASSUME TypeInv, LeaseInv, NEW n \in Pods, NEW new, SetPDB(n, new), asked' = asked,
           new.owner \in WCs /\ new.holder # None => <<new.holder, new.uid>> \in asked
    PROVE  LeaseWasRequested'
BY DEF SetPDB, LeaseInv, LeaseWasRequested, IsWorkloadClassManagedPDB, TypeInv, TypeOK

\* reenqueueLeases puts back a request that was made.
LEMMA LeaseReenqueue ==
    ASSUME TypeInv, LeaseInv, NEW n \in Pods, NEW uid, wk.pc # "idle", Reenqueue(n, uid), asked' = asked
    PROVE  \A w \in WCs, m \in Pods : WasAsked(pending[w][m])'
<1>1. CASE pending' = pending
    BY <1>1 DEF LeaseInv, WasAsked
<1>2. CASE pending' = [pending EXCEPT ![wk.wc][n] = Enqueued(pending[wk.wc][n], wk.leases[n])]
    <2>1. wk.wc \in WCs
        BY DEF TypeInv, WorkerOK
    <2>2. WasAsked(Enqueued(pending[wk.wc][n], wk.leases[n]))
        BY <2>1 DEF LeaseInv, WasAsked, Enqueued
    <2> QED
        BY <1>2, <2>1, <2>2 DEF LeaseInv, WasAsked, TypeInv, TypeOK
<1> QED
    BY <1>1, <1>2 DEF Reenqueue

\* Every step keeps it.
LEMMA LeaseInvNext == TypeInv /\ LeaseInv /\ [Next]_vars => LeaseInv'
<1> SUFFICES ASSUME TypeInv, LeaseInv, [Next]_vars PROVE LeaseInv'
    OBVIOUS
<1>1. CASE Deliver \/ Tick \/ UNCHANGED vars \/ \E w \in WCs : TimerFires(w)
    BY <1>1, LeaseQuiet DEF Deliver, DeliverPod, DeliverPDB, DeliverWC, DeliverNS, Tick, TimerFires, vars, store, webhook
<1>2. CASE Environment
    <2>1. ASSUME NEW n \in Pods,
                 CollectPDB(n) \/ CreateUserPDB(n) \/ DeletePDBByUser(n) \/ EditPDBByUser(n)
          PROVE  LeaseInv'
        <3>1. PICK new : /\ SetPDB(n, new)
                         /\ new.owner \in WCs /\ new.holder # None => <<new.holder, new.uid>> \in asked
            <4>1. CASE EditPDBByUser(n)
                <5> DEFINE e == [pdb[n] EXCEPT !.open = ~@]
                <5>1. e.owner = pdb[n].owner /\ e.holder = pdb[n].holder /\ e.uid = pdb[n].uid
                    BY DEF TypeInv, TypeOK, PDB
                <5> QED
                    BY <4>1, <5>1 DEF EditPDBByUser, LeaseInv, LeaseWasRequested, IsWorkloadClassManagedPDB
            <4> QED
                BY <2>1, <4>1 DEF CollectPDB, CreateUserPDB, DeletePDBByUser, NoPDB
        <3>2. UNCHANGED <<pending, wk, asked>>
            BY <2>1 DEF CollectPDB, CreateUserPDB, DeletePDBByUser, EditPDBByUser, webhook
        <3>3. LeaseWasRequested'
            BY <3>1, <3>2, LeasePDBWrite
        <3> QED
            BY <3>2, <3>3 DEF LeaseInv, WasAsked
    <2>2. CASE UNCHANGED <<pending, pdb, wk, asked>>
        BY <2>2, LeaseQuiet
    <2> QED
        BY <1>2, <2>1, <2>2 DEF Environment, TerminatePod, RemovePod, RemoveUIDLabel, RelistPod, CreatePod,
                  RelabelPod, DeleteWC, FinishDeleteWC, CreateWC, UpdateWC, ChangeNS, pdbVars, store, webhook
<1>3. ASSUME NEW w \in WCs, ReconcileDeleted(w) \/ BeginReconcile(w) PROVE LeaseInv'
    <2>1. CASE ReconcileDeleted(w)
        <3>1. /\ pending' = [pending EXCEPT ![w] = [n \in Pods |-> NoRequest]]
              /\ UNCHANGED <<pdb, wk, asked>>
            BY <2>1 DEF ReconcileDeleted, store, webhook
        <3> QED
            BY <3>1 DEF LeaseInv, WasAsked, LeaseWasRequested, NoRequest, TypeInv, TypeOK
    <2>2. CASE BeginReconcile(w)
        <3>1. /\ UNCHANGED <<pending, pdb, asked>>
              /\ wk'.leases = [n \in Pods |-> NoRequest] /\ wk'.pc = "list"
            BY <2>2 DEF BeginReconcile, Idle, pdbVars, webhook
        <3> QED
            BY <3>1 DEF LeaseInv, WasAsked, LeaseWasRequested, NoRequest
    <2> QED
        BY <1>3, <2>1, <2>2
<1>4. CASE ListCluster
    <2>1. /\ pending' = [pending EXCEPT ![wk.wc] = [n \in Pods |-> NoRequest]]
          /\ UNCHANGED <<pdb, asked>> /\ wk.wc \in WCs /\ wk \in Worker
        BY <1>4 DEF ListCluster, store, webhook, TypeInv, TypeOK, WorkerOK
    <2>2. /\ wk'.pc # "apply"
          /\ wk'.leases \in {[n \in Pods |-> NoRequest], wk.leases, pending[wk.wc]}
        BY <1>4, <2>1 DEF ListCluster, Idle, Worker
    <2> QED
        BY <2>1, <2>2 DEF LeaseInv, WasAsked, LeaseWasRequested, NoRequest, TypeInv, TypeOK
<1>5. CASE ListFails \/ EndReconcile
    <2>1. /\ UNCHANGED <<pending, pdb, asked>>
          /\ wk'.leases = [n \in Pods |-> NoRequest] /\ wk'.pc = "idle"
        BY <1>5 DEF ListFails, EndReconcile, Idle, store, webhook
    <2> QED
        BY <2>1 DEF LeaseInv, WasAsked, LeaseWasRequested, NoRequest
<1>6. ASSUME NEW n \in Pods, DecidePod(n) PROVE LeaseInv'
    <2>1. UNCHANGED <<pending, pdb, asked>> /\ wk \in Worker /\ wk.pc = "pods"
        BY <1>6 DEF DecidePod, pdbVars, webhook, TypeInv, TypeOK
    <2>2. CASE Decision(n, LabelledPod(n)) = "kept"
        <3>1. wk'.leases = wk.leases /\ wk'.pc = "pods"
            BY <1>6, <2>1, <2>2 DEF DecidePod, Worker
        <3> QED
            BY <2>1, <3>1 DEF LeaseInv, WasAsked, LeaseWasRequested
    <2>3. CASE Decision(n, LabelledPod(n)) # "kept"
        <3>1. /\ wk'.leases = wk.leases
              /\ wk'.cur = [name |-> n, pod |-> LabelledPod(n), op |-> Decision(n, LabelledPod(n))]
            BY <1>6, <2>1, <2>3 DEF DecidePod, Worker
        <3>2. Decision(n, LabelledPod(n)) = "lease" =>
                 wk.leases[n].subject # None /\ wk.leases[n].uid = LabelledPod(n).uid
            BY DEF Decision
        <3> QED
            BY <2>1, <3>1, <3>2 DEF LeaseInv, WasAsked, LeaseWasRequested
    <2> QED
        BY <2>2, <2>3
<1>7. CASE ApplyPod
    <2>1. /\ UNCHANGED <<pending, asked>> /\ wk \in Worker /\ wk.pc = "apply"
          /\ wk'.leases = wk.leases /\ wk'.pc = "pods" /\ wk.cur.name \in Pods
        BY <1>7 DEF ApplyPod, webhook, TypeInv, TypeOK, WorkerOK, Worker
    <2>2. WantedPDB.holder # None => <<WantedPDB.holder, WantedPDB.uid>> \in asked
        BY <2>1 DEF WantedPDB, LeasedPDB, SyncedPDB, LeaseInv, WasAsked
    <2>3. LeaseWasRequested'
        <3>1. CASE UNCHANGED pdbVars
            BY <2>1, <3>1 DEF pdbVars, LeaseInv, LeaseWasRequested
        <3>2. CASE SetPDB(wk.cur.name, WantedPDB)
            BY <2>1, <2>2, <3>2, LeasePDBWrite
        <3> QED
            BY <1>7, <3>1, <3>2 DEF ApplyPod, WritePDB
    <2> QED
        BY <2>1, <2>3 DEF LeaseInv, WasAsked
<1>8. ASSUME NEW n \in Pods, VisitOwned(n) \/ OpenOwned(n) PROVE LeaseInv'
    <2>1. UNCHANGED <<pending, asked>> /\ wk \in Worker /\ wk.pc \in {"owned", "open"}
        BY <1>8 DEF VisitOwned, OpenOwned, webhook, TypeInv, TypeOK
    <2>2. wk'.leases = wk.leases /\ wk'.pc = wk.pc
        BY <1>8, <2>1 DEF VisitOwned, OpenOwned, DeletePDB, Worker
    <2>3. UNCHANGED pdbVars \/ SetPDB(n, NoPDB) \/ SetPDB(n, SyncedPDB(wk.wc, cpod[n], wk.readiness, FALSE))
        BY <1>8 DEF VisitOwned, OpenOwned, DeletePDB, WritePDB
    <2>4. LeaseWasRequested'
        <3>1. CASE UNCHANGED pdbVars
            BY <2>1, <3>1 DEF pdbVars, LeaseInv, LeaseWasRequested
        <3>2. CASE SetPDB(n, NoPDB)
            BY <2>1, <3>2, LeasePDBWrite DEF NoPDB
        <3>3. CASE SetPDB(n, SyncedPDB(wk.wc, cpod[n], wk.readiness, FALSE))
            <4>1. SyncedPDB(wk.wc, cpod[n], wk.readiness, FALSE).holder = None
                BY DEF SyncedPDB
            <4> QED
                BY <2>1, <3>3, <4>1, LeasePDBWrite
        <3> QED
            BY <2>3, <3>1, <3>2, <3>3
    <2> QED
        BY <2>1, <2>2, <2>4 DEF LeaseInv, WasAsked
<1>9. ASSUME NEW n \in Pods, LabelFails(n) \/ OwnedFails(n) PROVE LeaseInv'
    <2>1. UNCHANGED <<pdb, asked>> /\ wk \in Worker /\ wk.pc \in {"pods", "owned", "open"}
        BY <1>9 DEF LabelFails, OwnedFails, store, webhook, TypeInv, TypeOK
    <2>2. wk'.leases = wk.leases /\ wk'.pc = wk.pc
        BY <1>9, <2>1 DEF LabelFails, OwnedFails, Worker
    <2>3. \A w \in WCs, m \in Pods : WasAsked(pending[w][m])'
        BY <1>9, <2>1, LeaseReenqueue DEF LabelFails, OwnedFails, LeaseInv, WasAsked
    <2> QED
        BY <2>1, <2>2, <2>3 DEF LeaseInv, WasAsked, LeaseWasRequested
<1>10. CASE ApplyFails
    <2>1. UNCHANGED <<pdb, asked>> /\ wk \in Worker /\ wk.pc = "apply" /\ wk.cur.name \in Pods
        BY <1>10 DEF ApplyFails, store, webhook, TypeInv, TypeOK, WorkerOK
    <2>2. wk'.leases = wk.leases /\ wk'.pc = "pods"
        BY <1>10, <2>1 DEF ApplyFails, Worker
    <2>3. \A w \in WCs, m \in Pods : WasAsked(pending[w][m])'
        BY <1>10, <2>1, LeaseReenqueue DEF ApplyFails
    <2> QED
        BY <2>1, <2>2, <2>3 DEF LeaseInv, WasAsked, LeaseWasRequested
<1>11. CASE BeginOwned
    <2>1. UNCHANGED <<pending, pdb, asked>> /\ wk \in Worker
        BY <1>11 DEF BeginOwned, store, webhook, TypeInv, TypeOK
    <2>2. wk'.leases = wk.leases /\ wk'.pc = "owned"
        BY <1>11, <2>1 DEF BeginOwned, Worker
    <2> QED
        BY <2>1, <2>2 DEF LeaseInv, WasAsked, LeaseWasRequested
<1>12. ASSUME NEW s \in Subjects, NEW n \in Pods, Handle(s, n) PROVE LeaseInv'
    <2> DEFINE best == CachedBest(cpod[n].lbl)
               r    == [uid |-> cpod[n].uid, subject |-> s]
    <2>1. UNCHANGED <<pdb, wk>>
        BY <1>12 DEF Handle, store
    <2>2. CASE UNCHANGED <<pending, asked>>
        BY <2>1, <2>2, LeaseQuiet
    <2>3. CASE /\ pending' = [pending EXCEPT ![best][n] = Enqueued(pending[best][n], r)]
               /\ asked' = asked \cup {<<s, cpod[n].uid>>}
               /\ ~Unconstrained(best)
        <3>1. best \in WCs
            BY <2>3, BestType, EnforcedType DEF CachedBest, CachedEnforced, Unconstrained
        <3> DEFINE q == Enqueued(pending[best][n], r)
        <3>2. <<r.subject, r.uid>> \in asked' /\ asked \subseteq asked'
            BY <2>3
        <3>3. pending' = [pending EXCEPT ![best][n] = q]
            BY <2>3
        <3> HIDE DEF best, r
        <3>4. q.subject # None => <<q.subject, q.uid>> \in asked'
            BY <3>1, <3>2 DEF LeaseInv, WasAsked, Enqueued
        <3> HIDE DEF q
        <3>5. ASSUME NEW w \in WCs, NEW m \in Pods PROVE WasAsked(pending[w][m])'
            BY <3>1, <3>2, <3>3, <3>4 DEF LeaseInv, WasAsked, TypeInv, TypeOK
        <3> QED
            BY <2>1, <3>2, <3>5 DEF LeaseInv, WasAsked, LeaseWasRequested
    <2> QED
        BY <1>12, <2>2, <2>3 DEF Handle
<1>13. ASSUME NEW s \in Subjects, NEW n \in Pods, Evict(s, n) PROVE LeaseInv'
    BY <1>13, LeaseQuiet DEF Evict, pdbVars
<1>14. CASE Restart
    <2>1. pdb' = pdb /\ asked' = asked
        BY <1>14 DEF Restart, store, webhook
    <2>2. wk' = Idle /\ \A w \in WCs, n \in Pods : pending'[w][n] = NoRequest
        BY <1>14 DEF Restart
    <2> QED
        BY <2>1, <2>2 DEF LeaseInv, WasAsked, LeaseWasRequested, Idle, NoRequest
<1> QED
    BY <1>1, <1>2, <1>3, <1>4, <1>5, <1>6, <1>7, <1>8, <1>9, <1>10, <1>11, <1>12, <1>13, <1>14 DEF Next, Work

\* A lease on a managed PDB names a subject that asked the webhook for that very
\* Pod instance, however the request was drained, put back and applied, and however
\* often the Pod's name was reused meanwhile.
THEOREM ControllerLeaseWasRequested == Spec => []LeaseWasRequested
<1>1. Init => TypeInv /\ LeaseInv
    <2>1. Init => LeaseInv
        BY DEF Init, LeaseInv, WasAsked, LeaseWasRequested, NoRequest, Idle, NoPDB
    <2> QED
        BY <2>1, TypeInvInit
<1>2. TypeInv /\ LeaseInv /\ [Next]_vars => TypeInv' /\ LeaseInv'
    BY TypeInvNext, LeaseInvNext
<1>3. LeaseInv => LeaseWasRequested
    BY DEF LeaseInv
<1> QED
    BY <1>1, <1>2, <1>3, PTL DEF Spec

-----------------------------------------------------------------------------
(* The caches: what an informer that owes no event agrees on. *)

\* The namespace has at most one WorkloadClass name. With two, a PDB that changes
\* hands by its owner reference alone raises no event
\* (GenerationChangedPredicate).
OneClass == \A v, w \in WCs : v = w

\* What the predicates of the Pod watch promise of a cached Pod that owes no
\* event: it is the stored instance, as active and with the same labels, and if
\* the cached one carries its pod-uid label so does the stored one.
Same(c, p) ==
    /\ c.uid = p.uid /\ c.active = p.active /\ c.lbl = p.lbl
    /\ c.uidLabel = c.uid => p.uidLabel = p.uid

\* A Pod that owes no event is cached as it is, up to a pod-uid label the
\* controller itself added; a Pod that owes one owes it under its present labels.
PodSync ==
    \A n \in Pods :
        /\ pod[n].uid # 0 => pod[n].lbl \in Labels
        /\ pod[n].uid = 0 => pod[n] = NoPod
        /\ podEvents[n] = {} => Same(cpod[n], pod[n])
        /\ podEvents[n] # {} /\ pod[n].uid # 0 => pod[n].lbl \in podEvents[n]

\* How a write may change a Pod: it keeps its uid, appears or disappears.
LegalPod(old, new) ==
    /\ new.uid # 0 => new.lbl \in Labels
    /\ new.uid = 0 => new = NoPod
    /\ old.uid # 0 \/ new.uid # 0
    /\ old.uid # 0 /\ new.uid # 0 => old.uid = new.uid

\* What a step does to Pod n and its cached copy: nothing, a write, or a
\* delivery.
Kept(n)      == pod'[n] = pod[n] /\ cpod'[n] = cpod[n] /\ podEvents'[n] = podEvents[n]
Rewritten(n) == /\ cpod'[n] = cpod[n] /\ LegalPod(pod[n], pod'[n])
                /\ podEvents'[n] = podEvents[n] \cup PodEvent(pod[n], pod'[n])
Refreshed(n) == pod'[n] = pod[n] /\ cpod'[n] = pod[n] /\ podEvents'[n] = {}

\* Every step leaves, writes or delivers a Pod; only an informer's delivery, a
\* relist or a restart delivers.
LEMMA PodStep ==
    ASSUME TypeInv, PodSync, [Next]_vars, NEW n \in Pods
    PROVE  Kept(n) \/ Rewritten(n) \/ (Refreshed(n) /\ (DeliverPod(n) \/ RelistPod(n) \/ Restart))
<1> DEFINE Goal == Kept(n) \/ Rewritten(n) \/ (Refreshed(n) /\ (DeliverPod(n) \/ RelistPod(n) \/ Restart))
<1> SUFFICES Goal
    OBVIOUS
<1>1. CASE UNCHANGED <<pod, cpod, podEvents>>
    BY <1>1 DEF Kept
<1>2. ASSUME NEW m \in Pods, NEW new, SetPod(m, new), cpod' = cpod, LegalPod(pod[m], new) PROVE Goal
    <2>1. CASE n = m
        <3>1. pod'[n] = new /\ podEvents'[n] = podEvents[n] \cup PodEvent(pod[n], new)
            BY <1>2, <2>1 DEF SetPod, TypeInv, TypeOK
        <3> QED
            BY <1>2, <2>1, <3>1 DEF Rewritten
    <2>2. CASE n # m
        BY <1>2, <2>2 DEF SetPod, TypeInv, TypeOK, Kept
    <2> QED
        BY <2>1, <2>2
<1>3. ASSUME NEW m \in Pods, DeliverPod(m) \/ RelistPod(m) PROVE Goal
    <2>1. cpod' = [cpod EXCEPT ![m] = pod[m]] /\ podEvents' = [podEvents EXCEPT ![m] = {}] /\ pod' = pod
        BY <1>3 DEF DeliverPod, RelistPod, store
    <2>2. CASE n = m
        BY <1>3, <2>1, <2>2 DEF TypeInv, TypeOK, Refreshed
    <2>3. CASE n # m
        BY <2>1, <2>3 DEF TypeInv, TypeOK, Kept
    <2> QED
        BY <2>2, <2>3
<1> HIDE DEF Goal
<1>4. CASE Deliver
    BY <1>1, <1>3, <1>4 DEF Deliver, DeliverPDB, DeliverWC, DeliverNS, store, stale
<1>5. CASE Work
    <2>1. ASSUME NEW m \in Pods, DecidePod(m) PROVE Goal
        <3>1. CASE wk.gov[m].uidLabel = wk.gov[m].uid
            BY <1>1, <2>1, <3>1 DEF DecidePod, podVars, cache
        <3>2. CASE wk.gov[m].uidLabel # wk.gov[m].uid
            <4> DEFINE p == LabelledPod(m)
            <4>1. SetPod(m, p) /\ cpod' = cpod /\ pod[m].uid # 0
                BY <2>1, <3>2 DEF DecidePod, cache
            <4>2. p.uid = pod[m].uid /\ p.lbl = pod[m].lbl
                BY <3>2 DEF LabelledPod, TypeInv, TypeOK, Pod
            <4>3. LegalPod(pod[m], p)
                BY <4>1, <4>2 DEF LegalPod, PodSync
            <4> QED
                BY <1>2, <4>1, <4>3
        <3> QED
            BY <3>1, <3>2
    <2>2. CASE \/ ListCluster \/ ApplyPod \/ BeginOwned \/ EndReconcile \/ ListFails \/ ApplyFails
               \/ \E w \in WCs : ReconcileDeleted(w) \/ BeginReconcile(w)
               \/ \E m \in Pods : LabelFails(m) \/ OwnedFails(m) \/ VisitOwned(m) \/ OpenOwned(m)
        BY <1>1, <2>2 DEF ListCluster, ApplyPod, BeginOwned, EndReconcile, ListFails, ApplyFails, ReconcileDeleted,
                  BeginReconcile, LabelFails, OwnedFails, VisitOwned, OpenOwned, store, stale, cache, podVars
    <2> QED
        BY <1>5, <2>1, <2>2 DEF Work
<1>6. CASE Environment
    <2>1. ASSUME NEW m \in Pods, NEW l \in Labels, CreatePod(m, l) PROVE Goal
        <3>1. /\ SetPod(m, [uid |-> nextUid, active |-> TRUE, lbl |-> l, uidLabel |-> 0])
              /\ cpod' = cpod /\ pod[m].uid = 0 /\ nextUid # 0
            BY <2>1 DEF CreatePod, cache, TypeInv, TypeOK
        <3>2. LegalPod(pod[m], [uid |-> nextUid, active |-> TRUE, lbl |-> l, uidLabel |-> 0])
            BY <3>1 DEF LegalPod
        <3> QED
            BY <1>2, <3>1, <3>2
    <2>2. ASSUME NEW m \in Pods, NEW l \in Labels, RelabelPod(m, l) PROVE Goal
        <3>1. SetPod(m, [pod[m] EXCEPT !.lbl = l]) /\ cpod' = cpod /\ pod[m].uid # 0
            BY <2>2 DEF RelabelPod, cache
        <3>2. LegalPod(pod[m], [pod[m] EXCEPT !.lbl = l])
            BY <3>1 DEF LegalPod, TypeInv, TypeOK, Pod
        <3> QED
            BY <1>2, <3>1, <3>2
    <2>3. ASSUME NEW m \in Pods, TerminatePod(m) \/ RemoveUIDLabel(m) PROVE Goal
        <3>1. PICK new : /\ SetPod(m, new) /\ cpod' = cpod
                         /\ new.uid = pod[m].uid /\ new.lbl = pod[m].lbl
                         /\ pod[m].active \/ pod[m].uidLabel # 0
            <4>1. [pod[m] EXCEPT !.active = FALSE].uid = pod[m].uid /\ [pod[m] EXCEPT !.active = FALSE].lbl = pod[m].lbl
                BY DEF TypeInv, TypeOK, Pod
            <4>2. [pod[m] EXCEPT !.uidLabel = 0].uid = pod[m].uid /\ [pod[m] EXCEPT !.uidLabel = 0].lbl = pod[m].lbl
                BY DEF TypeInv, TypeOK, Pod
            <4> QED
                BY <2>3, <4>1, <4>2 DEF TerminatePod, RemoveUIDLabel, cache
        <3>2. pod[m].uid # 0
            BY <3>1 DEF PodSync, NoPod
        <3>3. LegalPod(pod[m], new)
            BY <3>1, <3>2 DEF LegalPod, PodSync
        <3> QED
            BY <1>2, <3>1, <3>3
    <2>4. ASSUME NEW m \in Pods, RemovePod(m) PROVE Goal
        <3>1. SetPod(m, NoPod) /\ cpod' = cpod /\ pod[m].uid # 0
            BY <2>4 DEF RemovePod, cache
        <3>2. LegalPod(pod[m], NoPod)
            BY <3>1 DEF LegalPod, NoPod
        <3> QED
            BY <1>2, <3>1, <3>2
    <2> QED
        BY <1>1, <1>3, <1>6, <2>1, <2>2, <2>3, <2>4
        DEF Environment, CollectPDB, CreateUserPDB, DeletePDBByUser, EditPDBByUser,
            DeleteWC, FinishDeleteWC, CreateWC, UpdateWC, ChangeNS, cache, podVars, stale
<1>7. ASSUME NEW s \in Subjects, NEW m \in Pods, Evict(s, m) PROVE Goal
    <2>1. CASE UNCHANGED podVars
        BY <1>1, <1>7, <2>1 DEF Evict, podVars, cache
    <2>2. CASE pod[m].active /\ SetPod(m, [pod[m] EXCEPT !.active = FALSE])
        <3> DEFINE new == [pod[m] EXCEPT !.active = FALSE]
        <3>1. new.uid = pod[m].uid /\ new.lbl = pod[m].lbl /\ pod[m].uid # 0
            BY <2>2 DEF TypeInv, TypeOK, Pod, PodSync, NoPod
        <3>2. LegalPod(pod[m], new) /\ cpod' = cpod
            BY <1>7, <3>1 DEF LegalPod, PodSync, Evict, cache
        <3> QED
            BY <1>2, <2>2, <3>2
    <2> QED
        BY <1>7, <2>1, <2>2 DEF Evict
<1>8. CASE \/ Tick \/ UNCHANGED vars \/ \E w \in WCs : TimerFires(w)
           \/ \E s \in Subjects, m \in Pods : Handle(s, m)
    BY <1>1, <1>8 DEF Tick, TimerFires, Handle, vars, store, cache, stale
<1>9. CASE Restart
    <2>1. pod' = pod /\ cpod' = pod /\ podEvents' = [m \in Pods |-> {}]
        BY <1>9 DEF Restart, store
    <2> QED
        BY <1>9, <2>1 DEF Goal, Refreshed
<1> QED
    BY <1>4, <1>5, <1>6, <1>7, <1>8, <1>9 DEF Next

\* A Pod update that podPredicate drops leaves what the controller decides on:
\* instance, activity, labels, and a pod-uid label that is in place.
LEMMA PodEventSame ==
    ASSUME NEW old \in Pod, NEW new \in Pod, LegalPod(old, new), old.uid # 0 => old.lbl \in Labels,
           PodEvent(old, new) = {}
    PROVE  Same(old, new) /\ old.uid # 0
BY DistinctNames DEF PodEvent, PodUpdatePasses, Same, LegalPod, Pod

\* An event of a Pod that exists names its present labels.
LEMMA PodEventLabel ==
    ASSUME NEW old \in Pod, NEW new \in Pod, LegalPod(old, new), PodEvent(old, new) # {}, new.uid # 0
    PROVE  new.lbl \in PodEvent(old, new)
BY DistinctNames DEF PodEvent, LegalPod

\* Every step keeps PodSync.
LEMMA PodSyncNext == TypeInv /\ TypeInv' /\ PodSync /\ [Next]_vars => PodSync'
<1> SUFFICES ASSUME TypeInv, TypeInv', PodSync, [Next]_vars, NEW n \in Pods
             PROVE  /\ pod'[n].uid # 0 => pod'[n].lbl \in Labels
                    /\ pod'[n].uid = 0 => pod'[n] = NoPod
                    /\ podEvents'[n] = {} => Same(cpod'[n], pod'[n])
                    /\ podEvents'[n] # {} /\ pod'[n].uid # 0 => pod'[n].lbl \in podEvents'[n]
    BY DEF PodSync
<1>1. /\ pod[n].uid # 0 => pod[n].lbl \in Labels
      /\ pod[n].uid = 0 => pod[n] = NoPod
      /\ podEvents[n] = {} => Same(cpod[n], pod[n])
      /\ podEvents[n] # {} /\ pod[n].uid # 0 => pod[n].lbl \in podEvents[n]
    BY DEF PodSync
<1>2. pod[n] \in Pod /\ pod'[n] \in Pod
    BY DEF TypeInv, TypeOK
<1>3. CASE Kept(n)
    BY <1>1, <1>3 DEF Kept
<1>4. CASE Refreshed(n)
    BY <1>1, <1>4 DEF Refreshed, Same
<1>5. CASE Rewritten(n)
    <2>1. /\ cpod'[n] = cpod[n] /\ LegalPod(pod[n], pod'[n])
          /\ podEvents'[n] = podEvents[n] \cup PodEvent(pod[n], pod'[n])
        BY <1>5 DEF Rewritten
    <2>2. CASE PodEvent(pod[n], pod'[n]) = {}
        <3>1. Same(pod[n], pod'[n]) /\ pod[n].uid # 0
            BY <1>1, <1>2, <2>1, <2>2, PodEventSame
        <3> QED
            BY <1>1, <2>1, <2>2, <3>1 DEF Same, LegalPod
    <2>3. CASE PodEvent(pod[n], pod'[n]) # {}
        BY <1>2, <2>1, <2>3, PodEventLabel DEF LegalPod
    <2> QED
        BY <2>2, <2>3
<1> QED
    BY <1>3, <1>4, <1>5, PodStep

\* What GenerationChangedPredicate promises of a cached PDB that owes no event.
Alike(p, q) == p.owner = q.owner /\ p.uid = q.uid /\ p.open = q.open

\* A PDB that owes no event is cached with its owner, its selector and its
\* maxUnavailable; the lease annotations may lag, as their update raises none.
PDBSync ==
    \A n \in Pods :
        /\ ~Exists(pdb[n]) => pdb[n] = NoPDB
        /\ pdbEvents[n] # {} => pdbStale[n]
        /\ pdbEvents[n] = {} => Alike(cpdb[n], pdb[n])

\* The writes of a PDB: deleted, created by a user, edited by a user, or written
\* by the reconcile in progress, which claims only a PDB that is missing or that
\* it read as it is.
PDBWrite(n, new) ==
    \/ Exists(pdb[n]) /\ new = NoPDB
    \/ ~Exists(pdb[n]) /\ new = [NoPDB EXCEPT !.owner = User]
    \/ "pdb" \in Kinds /\ Exists(pdb[n]) /\ new = [pdb[n] EXCEPT !.open = ~@]
    \/ /\ ~Exists(pdb[n]) \/ (cpdb[n] = pdb[n] /\ pdb[n].owner \in WCs)
       /\ wk.wc \in WCs
       /\ \/ ApplyPod /\ wk.cur.name = n /\ new = WantedPDB
          \/ OpenOwned(n) /\ new = SyncedPDB(wk.wc, cpod[n], wk.readiness, FALSE)

\* What a step does to PDB n and its cached copy: nothing, a write, or a
\* delivery.
PDBKept(n)      == /\ pdb'[n] = pdb[n] /\ cpdb'[n] = cpdb[n]
                   /\ pdbEvents'[n] = pdbEvents[n] /\ pdbStale'[n] = pdbStale[n]
PDBWritten(n)   == /\ PDBWrite(n, pdb'[n]) /\ cpdb'[n] = cpdb[n] /\ pdbStale'[n] = TRUE
                   /\ pdbEvents'[n] = pdbEvents[n] \cup PDBEvent(pdb[n], pdb'[n])
PDBDelivered(n) == pdb'[n] = pdb[n] /\ cpdb'[n] = pdb[n] /\ pdbEvents'[n] = {} /\ pdbStale'[n] = FALSE

\* An accepted CreateOrUpdate changes nothing, or it replaces a missing PDB, or a
\* managed one by the version it read.
LEMMA ClaimAccepted ==
    ASSUME TypeInv, CacheCoherent, NEW m \in Pods, NEW want, WriteAccepted(m, want), WritePDB(m, want)
    PROVE  \/ UNCHANGED pdbVars
           \/ SetPDB(m, want) /\ (~Exists(pdb[m]) \/ (cpdb[m] = pdb[m] /\ pdb[m].owner \in WCs))
<1>1. CASE cpdb[m] = want
    BY <1>1 DEF WritePDB
<1>2. CASE cpdb[m] # want
    <2>1. SetPDB(m, want)
        BY <1>2 DEF WritePDB
    <2>2. ~Exists(pdb[m]) \/ (cpdb[m] = pdb[m] /\ Exists(cpdb[m]) /\ ~ClaimRefused(cpdb[m]))
        BY <1>2 DEF WriteAccepted, CacheCoherent
    <2> QED
        BY <2>1, <2>2 DEF ClaimRefused, Exists, IsWorkloadClassManagedPDB
<1> QED
    BY <1>1, <1>2

\* Every step leaves, writes or delivers a PDB.
LEMMA PDBStep ==
    ASSUME TypeInv, CacheCoherent, [Next]_vars, NEW n \in Pods
    PROVE  PDBKept(n) \/ PDBWritten(n) \/ PDBDelivered(n)
<1> DEFINE Goal == PDBKept(n) \/ PDBWritten(n) \/ PDBDelivered(n)
<1> SUFFICES Goal
    OBVIOUS
<1>1. CASE UNCHANGED <<pdb, cpdb, pdbEvents, pdbStale>>
    BY <1>1 DEF PDBKept
<1>2. ASSUME NEW m \in Pods, NEW new, SetPDB(m, new), cpdb' = cpdb, PDBWrite(m, new) PROVE Goal
    <2>1. CASE n = m
        <3>1. pdb'[n] = new /\ pdbEvents'[n] = pdbEvents[n] \cup PDBEvent(pdb[n], new) /\ pdbStale'[n] = TRUE
            BY <1>2, <2>1 DEF SetPDB, TypeInv, TypeOK
        <3> QED
            BY <1>2, <2>1, <3>1 DEF PDBWritten
    <2>2. CASE n # m
        BY <1>2, <2>2 DEF SetPDB, TypeInv, TypeOK, PDBKept
    <2> QED
        BY <2>1, <2>2
<1>3. ASSUME NEW m \in Pods, DeliverPDB(m) PROVE Goal
    <2>1. /\ cpdb' = [cpdb EXCEPT ![m] = pdb[m]] /\ pdb' = pdb
          /\ pdbStale' = [pdbStale EXCEPT ![m] = FALSE] /\ pdbEvents' = [pdbEvents EXCEPT ![m] = {}]
        BY <1>3 DEF DeliverPDB, store
    <2> QED
        BY <2>1 DEF TypeInv, TypeOK, PDBKept, PDBDelivered
<1> HIDE DEF Goal
<1>4. CASE Deliver
    BY <1>1, <1>3, <1>4 DEF Deliver, DeliverPod, DeliverWC, DeliverNS, store, stale
<1>5. CASE Work
    <2>1. CASE \/ ListCluster \/ BeginOwned \/ EndReconcile \/ ListFails \/ ApplyFails
               \/ \E w \in WCs : ReconcileDeleted(w) \/ BeginReconcile(w)
               \/ \E m \in Pods : DecidePod(m) \/ LabelFails(m) \/ OwnedFails(m)
        BY <1>1, <2>1 DEF ListCluster, BeginOwned, EndReconcile, ListFails, ApplyFails, ReconcileDeleted,
                  BeginReconcile, DecidePod, LabelFails, OwnedFails, store, stale, cache, pdbVars
    <2>2. CASE ApplyPod
        <3>1. /\ wk.cur.name \in Pods /\ wk.wc \in WCs /\ wk.pc = "apply" /\ cpdb' = cpdb
              /\ WriteAccepted(wk.cur.name, WantedPDB) /\ WritePDB(wk.cur.name, WantedPDB)
            BY <2>2 DEF ApplyPod, cache, TypeInv, WorkerOK
        <3>2. CASE UNCHANGED pdbVars
            BY <1>1, <3>1, <3>2 DEF pdbVars
        <3>3. CASE /\ SetPDB(wk.cur.name, WantedPDB)
                   /\ \/ ~Exists(pdb[wk.cur.name])
                      \/ cpdb[wk.cur.name] = pdb[wk.cur.name] /\ pdb[wk.cur.name].owner \in WCs
            <4>1. PDBWrite(wk.cur.name, WantedPDB)
                BY <2>2, <3>1, <3>3 DEF PDBWrite
            <4> QED
                BY <1>2, <3>1, <3>3, <4>1
        <3> QED
            BY <3>1, <3>2, <3>3, ClaimAccepted
    <2>3. ASSUME NEW m \in Pods, DeletePDB(m), cpdb' = cpdb, wk.wc \in WCs PROVE Goal
        <3>1. CASE UNCHANGED pdbVars
            BY <1>1, <2>3, <3>1 DEF pdbVars
        <3>2. CASE SetPDB(m, NoPDB) /\ cpdb[m].owner = wk.wc /\ ~pdbStale[m]
            <4>1. PDBWrite(m, NoPDB)
                BY <2>3, <3>2, DistinctNames DEF PDBWrite, CacheCoherent, Exists
            <4> QED
                BY <1>2, <2>3, <3>2, <4>1
        <3> QED
            BY <2>3, <3>1, <3>2 DEF DeletePDB
    <2>4. ASSUME NEW m \in Pods, VisitOwned(m) PROVE Goal
        BY <1>1, <2>3, <2>4 DEF VisitOwned, cache, pdbVars, TypeInv, WorkerOK
    <2>5. ASSUME NEW m \in Pods, OpenOwned(m) PROVE Goal
        <3> DEFINE want == SyncedPDB(wk.wc, cpod[m], wk.readiness, FALSE)
        <3>1. cpdb' = cpdb /\ wk.wc \in WCs /\ wk.pc = "open"
            BY <2>5 DEF OpenOwned, cache, TypeInv, WorkerOK
        <3>2. DeletePDB(m) \/ UNCHANGED pdbVars \/ (WriteAccepted(m, want) /\ WritePDB(m, want))
            BY <2>5 DEF OpenOwned
        <3>3. CASE WriteAccepted(m, want) /\ WritePDB(m, want)
            <4>1. PDBWrite(m, want) \/ UNCHANGED pdbVars
                BY <2>5, <3>1, <3>3, ClaimAccepted DEF PDBWrite
            <4>2. SetPDB(m, want) \/ UNCHANGED pdbVars
                BY <3>3 DEF WritePDB
            <4> HIDE DEF want
            <4> QED
                BY <1>1, <1>2, <3>1, <4>1, <4>2 DEF pdbVars
        <3> QED
            BY <1>1, <2>3, <3>1, <3>2, <3>3 DEF pdbVars
    <2> QED
        BY <1>5, <2>1, <2>2, <2>4, <2>5 DEF Work
<1>6. CASE Environment
    <2>1. ASSUME NEW m \in Pods,
                 CollectPDB(m) \/ CreateUserPDB(m) \/ DeletePDBByUser(m) \/ EditPDBByUser(m)
          PROVE  Goal
        <3>1. cpdb' = cpdb
            BY <2>1 DEF CollectPDB, CreateUserPDB, DeletePDBByUser, EditPDBByUser, cache
        <3>2. CASE (CollectPDB(m) \/ DeletePDBByUser(m))
            BY <1>2, <3>1, <3>2, DistinctNames DEF CollectPDB, DeletePDBByUser, PDBWrite, Exists
        <3>3. CASE CreateUserPDB(m)
            BY <1>2, <3>1, <3>3 DEF CreateUserPDB, PDBWrite
        <3>4. CASE EditPDBByUser(m)
            BY <1>2, <3>1, <3>4 DEF EditPDBByUser, PDBWrite, Change
        <3> QED
            BY <2>1, <3>2, <3>3, <3>4
    <2> QED
        BY <1>1, <1>6, <2>1, ZenonT(30) DEF Environment, TerminatePod, RemovePod, RemoveUIDLabel, RelistPod, CreatePod,
                  RelabelPod, DeleteWC, FinishDeleteWC, CreateWC, UpdateWC, ChangeNS, pdbVars, cache, store, stale
<1>7. CASE \/ Tick \/ UNCHANGED vars \/ \E w \in WCs : TimerFires(w)
           \/ \E s \in Subjects, m \in Pods : Handle(s, m) \/ Evict(s, m)
    BY <1>1, <1>7, ZenonT(30) DEF Tick, TimerFires, Handle, Evict, vars, store, cache, stale, pdbVars
<1>8. CASE Restart
    <2>1. /\ pdb' = pdb /\ cpdb' = pdb /\ pdbEvents' = [m \in Pods |-> {}]
          /\ pdbStale' = [m \in Pods |-> FALSE]
        BY <1>8 DEF Restart, store
    <2> QED
        BY <2>1 DEF Goal, PDBDelivered
<1> QED
    BY <1>4, <1>5, <1>6, <1>7, <1>8 DEF Next

\* What a written PDB looks like, whoever wrote it.
LEMMA PDBWriteKinds ==
    ASSUME NEW n, NEW new, PDBWrite(n, new)
    PROVE  \/ Exists(pdb[n]) /\ new = NoPDB
           \/ ~Exists(pdb[n]) /\ new = [NoPDB EXCEPT !.owner = User]
           \/ Exists(pdb[n]) /\ new = [pdb[n] EXCEPT !.open = ~@]
           \/ /\ ~Exists(pdb[n]) \/ (cpdb[n] = pdb[n] /\ pdb[n].owner \in WCs)
              /\ new.owner \in WCs
<1>1. WantedPDB.owner = wk.wc
    BY DEF WantedPDB, LeasedPDB, SyncedPDB
<1>2. SyncedPDB(wk.wc, cpod[n], wk.readiness, FALSE).owner = wk.wc
    BY DEF SyncedPDB
<1> QED
    BY <1>1, <1>2, Zenon DEF PDBWrite

\* With one class, a write that raises no event rewrites only the lease
\* annotations: owner, selector and maxUnavailable stay.
LEMMA PDBEventAlike ==
    ASSUME OneClass, TypeInv, NEW n \in Pods, NEW new, PDBWrite(n, new), PDBEvent(pdb[n], new) = {},
           ~Exists(pdb[n]) => pdb[n] = NoPDB
    PROVE  Alike(pdb[n], new) /\ Exists(new)
<1>1. pdb[n] \in PDB
    BY DEF TypeInv, TypeOK
<1>2. CASE Exists(pdb[n]) /\ new = NoPDB
    BY <1>1, <1>2, DistinctNames DEF PDBEvent, Exists, NoPDB, PDB
<1>3. CASE ~Exists(pdb[n]) /\ new = [NoPDB EXCEPT !.owner = User]
    BY <1>3, DistinctNames DEF PDBEvent, Exists, NoPDB
<1>4. CASE Exists(pdb[n]) /\ new = [pdb[n] EXCEPT !.open = ~@]
    <2>1. new.owner = pdb[n].owner /\ new.open = ~pdb[n].open
        BY <1>1, <1>4 DEF PDB
    <2> QED
        BY <1>1, <1>4, <2>1, DistinctNames DEF PDBEvent, Exists, PDB
<1>5. CASE /\ ~Exists(pdb[n]) \/ (cpdb[n] = pdb[n] /\ pdb[n].owner \in WCs)
           /\ new.owner \in WCs
    BY <1>1, <1>5, DistinctNames DEF PDBEvent, Exists, Alike, OneClass
<1> QED
    BY <1>2, <1>3, <1>4, <1>5, PDBWriteKinds, Zenon

\* Every step keeps PDBSync.
LEMMA PDBSyncNext == OneClass /\ TypeInv /\ CacheCoherent /\ PDBSync /\ [Next]_vars => PDBSync'
<1> SUFFICES ASSUME OneClass, TypeInv, CacheCoherent, PDBSync, [Next]_vars, NEW n \in Pods
             PROVE  /\ ~Exists(pdb'[n]) => pdb'[n] = NoPDB
                    /\ pdbEvents'[n] # {} => pdbStale'[n]
                    /\ pdbEvents'[n] = {} => Alike(cpdb'[n], pdb'[n])
    BY DEF PDBSync
<1>1. /\ ~Exists(pdb[n]) => pdb[n] = NoPDB
      /\ pdbEvents[n] # {} => pdbStale[n]
      /\ pdbEvents[n] = {} => Alike(cpdb[n], pdb[n])
    BY DEF PDBSync
<1>2. CASE PDBKept(n)
    BY <1>1, <1>2 DEF PDBKept
<1>3. CASE PDBDelivered(n)
    BY <1>1, <1>3 DEF PDBDelivered, Alike
<1>4. CASE PDBWritten(n)
    <2>1. /\ PDBWrite(n, pdb'[n]) /\ cpdb'[n] = cpdb[n] /\ pdbStale'[n] = TRUE
          /\ pdbEvents'[n] = pdbEvents[n] \cup PDBEvent(pdb[n], pdb'[n])
        BY <1>4 DEF PDBWritten
    <2>2. PICK new : new = pdb'[n]
        OBVIOUS
    <2>3. PDBEvent(pdb[n], new) = {} => Alike(pdb[n], new)
        BY <1>1, <2>1, <2>2, PDBEventAlike
    <2>4. ~Exists(new) => new = NoPDB
        <3>1. /\ [NoPDB EXCEPT !.owner = User].owner = User
              /\ [pdb[n] EXCEPT !.open = ~@].owner = pdb[n].owner
            BY DEF TypeInv, TypeOK, NoPDB, PDB
        <3>2. new = NoPDB \/ new.owner = User \/ new.owner \in WCs \/ (Exists(pdb[n]) /\ new.owner = pdb[n].owner)
            BY <2>1, <2>2, <3>1, PDBWriteKinds, Zenon
        <3> QED
            BY <3>2, DistinctNames DEF Exists
    <2> QED
        BY <1>1, <2>1, <2>2, <2>3, <2>4 DEF Alike
<1> QED
    BY <1>2, <1>3, <1>4, PDBStep

\* A WorkloadClass whose cached resourceVersion is current is cached as it is,
\* and a class that exists has a generation.
WCSync ==
    \A w \in WCs :
        /\ ~wcStale[w] => cwc[w] = wc[w]
        /\ cwc[w].phase # "gone" => cwc[w].gen # 0
        /\ wc[w].phase # "gone" => wc[w].gen # 0

\* How a write may change a class: its status, its creation, an update of the
\* spec, or a deletion, which keeps the spec.
LegalWC(old, new) ==
    \/ new.phase = old.phase /\ new.spec = old.spec /\ new.gen = old.gen
    \/ old.gen = 0 /\ new.gen = 1
    \/ "spec" \in Kinds /\ new.gen = old.gen + 1
    \/ old.phase # "gone" /\ new.spec = old.spec /\ new.gen \in {old.gen, old.gen + 1}

\* What a step does to class w and its cached copy: nothing, a write, or a
\* delivery.
WCKept(w)      == wc'[w] = wc[w] /\ cwc'[w] = cwc[w] /\ wcStale'[w] = wcStale[w]
WCWritten(w)   == LegalWC(wc[w], wc'[w]) /\ cwc'[w] = cwc[w] /\ wcStale'[w] = TRUE
WCDelivered(w) == wc'[w] = wc[w] /\ cwc'[w] = wc[w] /\ wcStale'[w] = FALSE

\* Every step leaves, writes or delivers a class.
LEMMA WCStep ==
    ASSUME TypeInv, WCSync, [Next]_vars, NEW w \in WCs
    PROVE  WCKept(w) \/ WCWritten(w) \/ WCDelivered(w)
<1> DEFINE Goal == WCKept(w) \/ WCWritten(w) \/ WCDelivered(w)
<1> SUFFICES Goal
    OBVIOUS
<1>1. CASE UNCHANGED <<wc, cwc, wcStale>>
    BY <1>1 DEF WCKept
<1>2. ASSUME NEW v \in WCs, NEW new, SetWC(v, new), cwc' = cwc, LegalWC(wc[v], new) PROVE Goal
    <2>1. CASE w = v
        <3>1. wc'[w] = new /\ wcStale'[w] = TRUE
            BY <1>2, <2>1 DEF SetWC, TypeInv, TypeOK
        <3> QED
            BY <1>2, <2>1, <3>1 DEF WCWritten
    <2>2. CASE w # v
        BY <1>2, <2>2 DEF SetWC, TypeInv, TypeOK, WCKept
    <2> QED
        BY <2>1, <2>2
<1>3. ASSUME NEW v \in WCs, DeliverWC(v) PROVE Goal
    <2>1. cwc' = [cwc EXCEPT ![v] = wc[v]] /\ wc' = wc /\ wcStale' = [wcStale EXCEPT ![v] = FALSE]
        BY <1>3 DEF DeliverWC, store
    <2> QED
        BY <2>1 DEF TypeInv, TypeOK, WCKept, WCDelivered
<1> HIDE DEF Goal
<1>4. CASE Deliver
    BY <1>1, <1>3, <1>4 DEF Deliver, DeliverPod, DeliverPDB, DeliverNS, store, stale
<1>5. CASE Work
    <2>1. ASSUME NEW v \in WCs, BeginReconcile(v) PROVE Goal
        <3>1. PICK reason, readiness :
                  /\ StatusUpdate(v, [cwc[v] EXCEPT !.reason = reason, !.obs = cwc[v].gen, !.readiness = readiness])
                  /\ cwc' = cwc
            BY <2>1 DEF BeginReconcile, cache
        <3> DEFINE new == [cwc[v] EXCEPT !.reason = reason, !.obs = cwc[v].gen, !.readiness = readiness]
        <3>2. new.phase = cwc[v].phase /\ new.spec = cwc[v].spec /\ new.gen = cwc[v].gen
            BY DEF TypeInv, TypeOK, WCObject
        <3> HIDE DEF new
        <3>3. CASE UNCHANGED wcVars
            BY <1>1, <3>1, <3>3 DEF wcVars
        <3>4. CASE ~wcStale[v] /\ SetWC(v, new)
            <4>1. LegalWC(wc[v], new)
                BY <3>2, <3>4 DEF LegalWC, WCSync
            <4> QED
                BY <1>2, <3>1, <3>4, <4>1
        <3> QED
            BY <3>1, <3>3, <3>4 DEF StatusUpdate, new
    <2>2. CASE \/ ListCluster \/ ApplyPod \/ BeginOwned \/ EndReconcile \/ ListFails \/ ApplyFails
               \/ \E v \in WCs : ReconcileDeleted(v)
               \/ \E m \in Pods : \/ DecidePod(m) \/ LabelFails(m) \/ OwnedFails(m)
                                  \/ VisitOwned(m) \/ OpenOwned(m)
        BY <1>1, <2>2 DEF ListCluster, ApplyPod, BeginOwned, EndReconcile, ListFails, ApplyFails, ReconcileDeleted,
                  DecidePod, LabelFails, OwnedFails, VisitOwned, OpenOwned, store, stale, cache, wcVars
    <2> QED
        BY <1>5, <2>1, <2>2 DEF Work
<1>6. CASE Environment
    <2>1. ASSUME NEW v \in WCs, NEW spec, CreateWC(v, spec) \/ UpdateWC(v, spec) PROVE Goal
        <3>1. cwc' = cwc
            BY <2>1 DEF CreateWC, UpdateWC, cache
        <3>2. CASE CreateWC(v, spec)
            <4> DEFINE new == [NoWC EXCEPT !.phase = "live", !.spec = spec, !.gen = 1]
            <4>1. SetWC(v, new) /\ new.gen = 1 /\ wc[v].gen = 0
                BY <3>2 DEF CreateWC, NoWC
            <4> QED
                BY <1>2, <3>1, <4>1 DEF LegalWC
        <3>3. CASE UpdateWC(v, spec)
            <4> DEFINE new == [wc[v] EXCEPT !.spec = spec, !.gen = @ + 1]
            <4>1. SetWC(v, new) /\ new.gen = wc[v].gen + 1 /\ "spec" \in Kinds
                BY <3>3 DEF UpdateWC, Change, TypeInv, TypeOK, WCObject
            <4> QED
                BY <1>2, <3>1, <4>1 DEF LegalWC
        <3> QED
            BY <2>1, <3>2, <3>3
    <2>2. ASSUME NEW v \in WCs, DeleteWC(v) \/ FinishDeleteWC(v) PROVE Goal
        <3>1. cwc' = cwc /\ wc[v].phase # "gone"
            BY <2>2 DEF DeleteWC, FinishDeleteWC, cache
        <3>2. PICK new : SetWC(v, new) /\ new.spec = wc[v].spec /\ new.gen \in {wc[v].gen, wc[v].gen + 1}
            <4>1. /\ [wc[v] EXCEPT !.phase = "gone"].spec = wc[v].spec
                  /\ [wc[v] EXCEPT !.phase = "gone"].gen = wc[v].gen
                BY DEF TypeInv, TypeOK, WCObject
            <4>2. /\ [wc[v] EXCEPT !.phase = "deleting", !.gen = @ + 1].spec = wc[v].spec
                  /\ [wc[v] EXCEPT !.phase = "deleting", !.gen = @ + 1].gen = wc[v].gen + 1
                BY DEF TypeInv, TypeOK, WCObject
            <4> QED
                BY <2>2, <4>1, <4>2 DEF DeleteWC, FinishDeleteWC
        <3> QED
            BY <1>2, <3>1, <3>2 DEF LegalWC
    <2> QED
        BY <1>1, <1>6, <2>1, <2>2 DEF Environment, TerminatePod, RemovePod, RemoveUIDLabel, RelistPod, CreatePod,
                  RelabelPod, CollectPDB, CreateUserPDB, DeletePDBByUser, EditPDBByUser, ChangeNS,
                  wcVars, cache, store, stale
<1>7. CASE \/ Tick \/ UNCHANGED vars \/ \E v \in WCs : TimerFires(v)
           \/ \E s \in Subjects, m \in Pods : Handle(s, m) \/ Evict(s, m)
    BY <1>1, <1>7, ZenonT(30) DEF Tick, TimerFires, Handle, Evict, vars, store, cache, stale, wcVars
<1>8. CASE Restart
    <2>1. wc' = wc /\ cwc' = wc /\ wcStale' = [v \in WCs |-> FALSE]
        BY <1>8 DEF Restart, store
    <2> QED
        BY <2>1 DEF Goal, WCDelivered
<1> QED
    BY <1>4, <1>5, <1>6, <1>7, <1>8 DEF Next

\* Every step keeps WCSync.
LEMMA WCSyncNext == TypeInv /\ TypeInv' /\ WCSync /\ [Next]_vars => WCSync'
<1> SUFFICES ASSUME TypeInv, TypeInv', WCSync, [Next]_vars, NEW w \in WCs
             PROVE  /\ ~wcStale'[w] => cwc'[w] = wc'[w]
                    /\ cwc'[w].phase # "gone" => cwc'[w].gen # 0
                    /\ wc'[w].phase # "gone" => wc'[w].gen # 0
    BY DEF WCSync
<1>1. /\ ~wcStale[w] => cwc[w] = wc[w]
      /\ cwc[w].phase # "gone" => cwc[w].gen # 0
      /\ wc[w].phase # "gone" => wc[w].gen # 0
      /\ wc[w].gen \in Nat
    BY DEF WCSync, TypeInv, TypeOK, WCObject
<1>2. CASE WCKept(w) \/ WCDelivered(w)
    BY <1>1, <1>2 DEF WCKept, WCDelivered
<1>3. CASE WCWritten(w)
    BY <1>1, <1>3 DEF WCWritten, LegalWC
<1> QED
    BY <1>2, <1>3, WCStep

\* A class that a delivery of Pod events leaves out of the workqueue neither
\* governs the Pod under any of the labels in the events nor owns its PDB
\* (findWorkloadClassesForPod).
LEMMA PodDelivery ==
    ASSUME NEW n, NEW w \in WCs, w \notin queue', DeliverPod(n)
    PROVE  \A l \in podEvents[n] : CachedBest(l) # w /\ cpdb[n].owner # w
<1>1. queue' = queue \cup UNION {FindWorkloadClassesForPod(n, l) : l \in podEvents[n]}
    BY DEF DeliverPod
<1>2. \A l \in podEvents[n] : w \notin FindWorkloadClassesForPod(n, l)
    BY <1>1
<1> QED
    BY <1>2, DistinctNames DEF FindWorkloadClassesForPod, OwnerOf, IsWorkloadClassManagedPDB

\* A class that a relist leaves out of the workqueue does not own the Pod's PDB,
\* if the relist raised an event.
LEMMA PodRelist ==
    ASSUME NEW n, NEW w \in WCs, w \notin queue', RelistPod(n)
    PROVE  \A l \in PodEvent(cpod[n], pod[n]) : cpdb[n].owner # w
<1>1. queue' = queue \cup UNION {FindWorkloadClassesForPod(n, l) : l \in PodEvent(cpod[n], pod[n])}
    BY DEF RelistPod
<1>2. \A l \in PodEvent(cpod[n], pod[n]) : w \notin FindWorkloadClassesForPod(n, l)
    BY <1>1
<1> QED
    BY <1>2 DEF FindWorkloadClassesForPod, OwnerOf, IsWorkloadClassManagedPDB

\* A step after which the only class is in the cache and not queued changes no
\* cached class or namespace, consumes no PDB event and fires no timer; if the
\* class was queued, a Reconcile call has just begun.
LEMMA Unwoken ==
    ASSUME OneClass, TypeInv, [Next]_vars, NEW w \in WCs, w \notin queue', cwc'[w].phase # "gone"
    PROVE  /\ cwc' = cwc /\ cns' = cns
           /\ w \in queue => wk'.pc = "list"
           /\ \A n \in Pods : pdbEvents'[n] = {} => pdbEvents[n] = {}
           /\ timer'[w] # timer[w] => EndReconcile
<1> DEFINE Goal ==
           /\ cwc' = cwc /\ cns' = cns
           /\ w \in queue => wk'.pc = "list"
           /\ \A n \in Pods : pdbEvents'[n] = {} => pdbEvents[n] = {}
           /\ timer'[w] # timer[w] => EndReconcile
<1> SUFFICES Goal
    OBVIOUS
<1>1. CASE UNCHANGED <<cwc, cns, pdbEvents, timer>> /\ queue \subseteq queue'
    BY <1>1
<1>2. ASSUME NEW n \in Pods, NEW new, SetPDB(n, new), UNCHANGED <<cwc, cns, timer>>, queue \subseteq queue'
      PROVE  Goal
    <2>1. \A m \in Pods : pdbEvents[m] \subseteq pdbEvents'[m]
        BY <1>2 DEF SetPDB, TypeInv, TypeOK
    <2> QED
        BY <1>2, <2>1
<1>3. ASSUME NEW n \in Pods, DeliverPod(n) \/ RelistPod(n) PROVE Goal
    BY <1>1, <1>3 DEF DeliverPod, RelistPod
<1>5. ASSUME NEW n \in Pods, DeliverPDB(n) PROVE Goal
    <2>1. /\ pdbEvents' = [pdbEvents EXCEPT ![n] = {}] /\ UNCHANGED <<cwc, cns, timer>>
          /\ queue' = queue \cup (pdbEvents[n] \cap WCs)
                            \cup (IF User \in pdbEvents[n] THEN RequestsInNamespace(cwc) ELSE {})
        BY <1>5 DEF DeliverPDB
    <2>2. w \in RequestsInNamespace(cwc)
        BY <2>1 DEF RequestsInNamespace
    <2>3. User \notin pdbEvents[n] /\ w \notin pdbEvents[n]
        BY <2>1, <2>2
    <2>4. pdbEvents[n] = {}
        BY <2>3 DEF TypeInv, TypeOK, OneClass
    <2> QED
        BY <2>1, <2>4 DEF TypeInv, TypeOK
<1>6. ASSUME NEW v \in WCs, DeliverWC(v) PROVE Goal
    BY <1>6 DEF DeliverWC, OneClass
<1>7. ASSUME NEW f, DeliverNS(f) PROVE Goal
    BY <1>7 DEF DeliverNS, RequestsInNamespace
<1>8. CASE Restart
    BY <1>8 DEF Restart, RequestsInNamespace
<1>9. ASSUME NEW v \in WCs, ReconcileDeleted(v) PROVE Goal
    BY <1>9 DEF ReconcileDeleted, cache, stale, OneClass
<1>10. ASSUME NEW v \in WCs, BeginReconcile(v) PROVE Goal
    BY <1>10 DEF BeginReconcile, cache, pdbVars, Idle
<1>11. CASE EndReconcile
    BY <1>11 DEF EndReconcile, cache, stale
<1>12. ASSUME NEW v \in WCs, TimerFires(v) PROVE Goal
    BY <1>12 DEF TimerFires, OneClass
<1>13. CASE ApplyPod \/ (\E n \in Pods : VisitOwned(n) \/ OpenOwned(n))
    <2>1. UNCHANGED <<cwc, cns, timer>> /\ queue \subseteq queue'
        BY <1>13 DEF ApplyPod, VisitOwned, OpenOwned, cache
    <2>2. UNCHANGED pdbVars \/ \E n \in Pods, new \in PDB : SetPDB(n, new)
        <3>1. CASE ApplyPod
            BY <3>1, WantedType DEF ApplyPod, WritePDB
        <3>2. ASSUME NEW n \in Pods, VisitOwned(n) \/ OpenOwned(n)
              PROVE  UNCHANGED pdbVars \/ \E m \in Pods, new \in PDB : SetPDB(m, new)
            <4>1. SyncedPDB(wk.wc, cpod[n], wk.readiness, FALSE) \in PDB
                BY <3>2, SyncedType DEF VisitOwned, OpenOwned, TypeInv, TypeOK, WorkerOK
            <4> QED
                BY <3>2, <4>1, NoneTypes DEF VisitOwned, OpenOwned, DeletePDB, WritePDB
        <3> QED
            BY <1>13, <3>1, <3>2
    <2> QED
        BY <1>1, <1>2, <2>1, <2>2 DEF pdbVars
<1> HIDE DEF Goal
<1>14. CASE Work
    BY <1>1, <1>9, <1>10, <1>11, <1>13, <1>14
    DEF Work, ListCluster, BeginOwned, ListFails, ApplyFails, DecidePod, LabelFails, OwnedFails, Reenqueue,
        cache, stale, pdbVars
<1>15. CASE Environment
    <2>1. ASSUME NEW n \in Pods,
                 CollectPDB(n) \/ CreateUserPDB(n) \/ DeletePDBByUser(n) \/ EditPDBByUser(n)
          PROVE  Goal
        BY <1>2, <2>1 DEF CollectPDB, CreateUserPDB, DeletePDBByUser, EditPDBByUser, cache
    <2> QED
        BY <1>1, <1>3, <1>15, <2>1, ZenonT(30) DEF Environment, TerminatePod, RemovePod, RemoveUIDLabel, CreatePod,
                  RelabelPod, DeleteWC, FinishDeleteWC, CreateWC, UpdateWC, ChangeNS, pdbVars, cache, store, stale
<1>16. CASE \/ Tick \/ UNCHANGED vars
            \/ \E s \in Subjects, m \in Pods : Handle(s, m) \/ Evict(s, m)
    BY <1>1, <1>16, ZenonT(30) DEF Tick, Handle, Evict, vars, store, cache, stale, pdbVars
<1> QED
    BY <1>3, <1>5, <1>6, <1>7, <1>8, <1>12, <1>14, <1>15, <1>16 DEF Next, Deliver

-----------------------------------------------------------------------------
(* The worker: what a Reconcile call in progress may rely on. *)

\* The steps of a Reconcile call from its lists to its end.
Proceeds ==
    \/ ApplyPod \/ ApplyFails \/ BeginOwned
    \/ \E n \in Pods : DecidePod(n) \/ LabelFails(n) \/ VisitOwned(n) \/ OpenOwned(n) \/ OwnedFails(n)

\* Every step leaves the worker alone, advances its call, or begins or ends one.
LEMMA WorkerSteps ==
    ASSUME [Next]_vars
    PROVE  \/ wk' = wk
           \/ Proceeds
           \/ ListCluster
           \/ (ListFails \/ EndReconcile \/ Restart)
           \/ \E w \in WCs : BeginReconcile(w)
<1>1. CASE Work
    BY <1>1 DEF Work, Proceeds, ReconcileDeleted
<1>2. CASE Deliver
    BY <1>2 DEF Deliver, DeliverPod, DeliverPDB, DeliverWC, DeliverNS
<1>3. CASE Environment
    BY <1>3 DEF Environment, TerminatePod, RemovePod, RemoveUIDLabel, RelistPod, CollectPDB,
                CreateUserPDB, DeletePDBByUser, EditPDBByUser, CreatePod, RelabelPod,
                DeleteWC, FinishDeleteWC, CreateWC, UpdateWC, ChangeNS
<1> QED
    BY <1>1, <1>2, <1>3 DEF Next, Tick, TimerFires, Handle, Evict, vars

\* What a Reconcile call has read, it keeps to its end; a collected error is
\* never forgotten; and it visits its loops in their order.
LEMMA WorkerKeeps ==
    ASSUME TypeInv, Proceeds
    PROVE  /\ wk'.wc = wk.wc /\ wk'.phase = wk.phase /\ wk'.valid = wk.valid
           /\ wk'.readiness = wk.readiness /\ wk'.leases = wk.leases
           /\ wk'.owned = wk.owned /\ wk'.cover = wk.cover /\ wk'.gov = wk.gov
           /\ wk'.enforced = wk.enforced
           /\ wk.failed => wk'.failed
           /\ <<wk.pc, wk'.pc>> \in {<<"pods", "pods">>, <<"pods", "apply">>, <<"apply", "pods">>,
                                     <<"pods", "owned">>, <<"owned", "owned">>, <<"open", "open">>}
<1> DEFINE Goal ==
           /\ wk'.wc = wk.wc /\ wk'.phase = wk.phase /\ wk'.valid = wk.valid
           /\ wk'.readiness = wk.readiness /\ wk'.leases = wk.leases
           /\ wk'.owned = wk.owned /\ wk'.cover = wk.cover /\ wk'.gov = wk.gov
           /\ wk'.enforced = wk.enforced
           /\ wk.failed => wk'.failed
           /\ <<wk.pc, wk'.pc>> \in {<<"pods", "pods">>, <<"pods", "apply">>, <<"apply", "pods">>,
                                     <<"pods", "owned">>, <<"owned", "owned">>, <<"open", "open">>}
<1>0. wk \in Worker
    BY DEF TypeInv, TypeOK
<1>1. CASE ApplyPod \/ ApplyFails
    BY <1>0, <1>1, ZenonT(30) DEF ApplyPod, ApplyFails, Worker
<1>2. CASE BeginOwned
    BY <1>0, <1>2 DEF BeginOwned, Worker
<1>3. ASSUME NEW n \in Pods, DecidePod(n) PROVE Goal
    BY <1>0, <1>3 DEF DecidePod, Worker
<1>4. ASSUME NEW n \in Pods, LabelFails(n) \/ OwnedFails(n) PROVE Goal
    BY <1>0, <1>4 DEF LabelFails, OwnedFails, Worker
<1>5. ASSUME NEW n \in Pods, VisitOwned(n) \/ OpenOwned(n) PROVE Goal
    <2> DEFINE lost == wk.failed \/ (cpdb[n].owner = wk.wc /\ Exists(pdb[n]))
    <2>1. /\ wk.pc \in {"owned", "open"}
          /\ \/ wk' = [wk EXCEPT !.todo = @ \ {n}]
             \/ wk' = [wk EXCEPT !.todo = @ \ {n}, !.failed = lost]
             \/ wk' = [wk EXCEPT !.todo = @ \ {n}, !.failed = TRUE]
        BY <1>5 DEF VisitOwned, OpenOwned, DeletePDB
    <2>2. wk.failed => lost
        OBVIOUS
    <2> HIDE DEF lost
    <2> QED
        BY <1>0, <2>1, <2>2, ZenonT(30) DEF Worker
<1> QED
    BY <1>1, <1>2, <1>3, <1>4, <1>5 DEF Proceeds

\* What the lists of reconcilePDBs hand to the loops.
LEMMA ListSteps ==
    ASSUME TypeInv, ListCluster
    PROVE  /\ wk.pc = "list"
           /\ wk.phase = "deleting" => wk' = Idle
           /\ wk.phase # "deleting" =>
                 /\ wk'.wc = wk.wc /\ wk'.phase = wk.phase /\ wk'.valid = wk.valid /\ wk'.readiness = wk.readiness
                 /\ wk'.owned = {n \in Pods : cpdb[n].owner = wk.wc} /\ wk'.cover = cns.cover
                 /\ ~wk.valid => wk'.pc = "open" /\ wk'.todo = wk'.owned
                 /\ wk.valid => LET gov == GovernedBy(wk.wc, cwc, CachedEnforced, cns.cover)
                                IN  /\ wk'.pc = "pods" /\ wk'.todo = gov
                                    /\ wk'.gov = [n \in Pods |-> IF n \in gov THEN cpod[n] ELSE NoPod]
<1> wk \in Worker
    BY DEF TypeInv, TypeOK
<1> QED
    BY DEF ListCluster, Worker

\* A class that is not queued after a step leaves the cached classes as they
\* were, or the worker idle.
LEMMA CachedWCStep ==
    ASSUME OneClass, [Next]_vars, NEW w \in WCs, w \notin queue'
    PROVE  cwc' = cwc \/ wk' = Idle
<1>1. CASE Deliver
    BY <1>1 DEF Deliver, DeliverPod, DeliverPDB, DeliverWC, DeliverNS, OneClass
<1>2. CASE Environment
    BY <1>2 DEF Environment, TerminatePod, RemovePod, RemoveUIDLabel, RelistPod, CollectPDB,
                CreateUserPDB, DeletePDBByUser, EditPDBByUser, CreatePod, RelabelPod,
                DeleteWC, FinishDeleteWC, CreateWC, UpdateWC, ChangeNS, cache
<1>3. CASE Work
    BY <1>3 DEF Work, ListCluster, ApplyPod, BeginOwned, EndReconcile, ListFails, ApplyFails, ReconcileDeleted,
                BeginReconcile, DecidePod, LabelFails, OwnedFails, VisitOwned, OpenOwned, cache
<1> QED
    BY <1>1, <1>2, <1>3 DEF Next, Tick, TimerFires, Handle, Evict, Restart, vars, cache

\* Nothing leaves the workqueue while a call is in progress.
LEMMA QueueSteps ==
    ASSUME [Next]_vars, wk.pc # "idle", wk'.pc # "idle" PROVE queue \subseteq queue'
<1>1. CASE Deliver
    BY <1>1 DEF Deliver, DeliverPod, DeliverPDB, DeliverWC, DeliverNS
<1>2. CASE Environment
    BY <1>2 DEF Environment, TerminatePod, RemovePod, RemoveUIDLabel, RelistPod, CollectPDB,
                CreateUserPDB, DeletePDBByUser, EditPDBByUser, CreatePod, RelabelPod,
                DeleteWC, FinishDeleteWC, CreateWC, UpdateWC, ChangeNS
<1>3. CASE Work
    BY <1>3 DEF Work, ListCluster, ApplyPod, BeginOwned, EndReconcile, ListFails, ApplyFails, ReconcileDeleted,
                BeginReconcile, DecidePod, LabelFails, OwnedFails, VisitOwned, OpenOwned, Reenqueue
<1>4. CASE Restart
    BY <1>4 DEF Restart, Idle
<1>5. ASSUME NEW s \in Subjects, NEW n \in Pods, Handle(s, n) \/ Evict(s, n) PROVE queue \subseteq queue'
    BY <1>5 DEF Handle, Evict
<1>6. CASE Tick \/ UNCHANGED vars \/ \E w \in WCs : TimerFires(w)
    BY <1>6 DEF Tick, TimerFires, vars
<1> QED
    BY <1>1, <1>2, <1>3, <1>4, <1>5, <1>6 DEF Next

\* The class' validated condition, computed from the caches, protects Pods.
CachedProtects(w) ==
    protectsPods(ValidatedReason(cwc, CachedEnforced, cns.guardrails, w), cns.guardrails)

\* The call in progress computed phase, validity, readiness and coverage from
\* what the caches still hold.
Snapshot(w) ==
    /\ wk.phase = cwc[w].phase /\ wk.phase # "gone"
    /\ wk.valid = CachedProtects(w)
    /\ wk.readiness = Readiness(cwc[w].spec)
    /\ wk.pc # "list" => wk.cover = cns.cover
    /\ wk.pc # "list" => wk.phase = "live"
    /\ wk.pc \in {"pods", "apply", "owned"} => wk.valid
    /\ wk.pc = "open" => ~wk.valid

\* Whatever a Reconcile call read of classes, namespace and guardrails is still
\* cached, or its class is queued again and a later call will use the new values.
SnapInv == wk.pc # "idle" => wk.wc \in queue \/ Snapshot(wk.wc)

\* Every step keeps SnapInv.
LEMMA SnapNext == OneClass /\ TypeInv /\ TypeInv' /\ SnapInv /\ [Next]_vars => SnapInv'
<1> SUFFICES ASSUME OneClass, TypeInv, TypeInv', SnapInv, [Next]_vars, wk'.pc # "idle", wk'.wc \notin queue'
             PROVE  Snapshot(wk.wc)'
    BY DEF SnapInv
<1>1. PICK w \in WCs : w = wk'.wc
    BY DEF TypeInv, WorkerOK
<1>2. wk' # Idle /\ ~ListFails /\ ~EndReconcile /\ ~Restart
    BY DEF Idle, ListFails, EndReconcile, Restart
<1>3. cwc' = cwc
    BY <1>1, <1>2, CachedWCStep
<1>4. SUFFICES Snapshot(w)'
    BY <1>1
<1>5. ASSUME NEW v \in WCs, BeginReconcile(v) PROVE Snapshot(w)'
    <2>1. /\ cwc[v].phase # "gone" /\ cns' = cns
          /\ wk'.pc = "list" /\ wk'.wc = v /\ wk'.phase = cwc[v].phase /\ wk'.valid = CachedProtects(v)
          /\ wk'.readiness = Readiness(cwc[v].spec)
        BY <1>5 DEF BeginReconcile, Idle, cache, CachedProtects
    <2>2. CachedProtects(v)' = CachedProtects(v)
        BY <1>3, <2>1 DEF CachedProtects, CachedEnforced
    <2>3. v = w
        BY <1>1, <2>1
    <2> QED
        BY <1>3, <2>1, <2>2, <2>3 DEF Snapshot
<1>6. CASE wk.pc # "idle" /\ wk'.wc = wk.wc
    <2>1. w \notin queue /\ Snapshot(w)
        BY <1>1, <1>6, QueueSteps DEF SnapInv
    <2>2. cns' = cns /\ cwc'[w].phase # "gone"
        <3>1. cwc'[w].phase # "gone"
            BY <1>3, <2>1 DEF Snapshot
        <3> QED
            BY <1>1, <3>1, Unwoken
    <2>3. CachedProtects(w)' = CachedProtects(w)
        BY <1>3, <2>2 DEF CachedProtects, CachedEnforced
    <2>4. CASE wk' = wk
        BY <1>3, <2>1, <2>2, <2>3, <2>4 DEF Snapshot
    <2>5. CASE Proceeds
        BY <1>3, <2>1, <2>2, <2>3, <2>5, WorkerKeeps DEF Snapshot
    <2>6. CASE ListCluster
        <3>1. wk.phase \in {"live", "deleting", "gone"}
            BY DEF TypeInv, TypeOK, Worker
        <3>2. wk.phase = "live" /\ wk.pc = "list"
            BY <1>2, <2>1, <2>6, <3>1, ListSteps DEF Snapshot
        <3>3. /\ wk'.phase = wk.phase /\ wk'.valid = wk.valid /\ wk'.readiness = wk.readiness
              /\ wk'.cover = cns.cover
              /\ ~wk.valid => wk'.pc = "open"
              /\ wk.valid => wk'.pc = "pods"
            BY <2>6, <3>2, ListSteps
        <3>4. wk.valid \in BOOLEAN
            BY DEF TypeInv, TypeOK, Worker
        <3> QED
            BY <1>3, <2>1, <2>2, <2>3, <3>2, <3>3, <3>4 DEF Snapshot
    <2>7. CASE \E v \in WCs : BeginReconcile(v)
        BY <1>6, <2>7 DEF BeginReconcile
    <2> QED
        BY <1>2, <2>4, <2>5, <2>6, <2>7, WorkerSteps
<1>7. (wk.pc # "idle" /\ wk'.wc = wk.wc) \/ \E v \in WCs : BeginReconcile(v)
    <2>1. CASE wk' = wk
        BY <2>1
    <2>2. CASE Proceeds
        <3>1. wk.pc # "idle"
            BY <2>2 DEF Proceeds, ApplyPod, ApplyFails, BeginOwned, DecidePod, LabelFails, VisitOwned, OpenOwned, OwnedFails
        <3> QED
            BY <2>2, <3>1, WorkerKeeps
    <2>3. CASE ListCluster
        BY <1>2, <2>3, ListSteps
    <2> QED
        BY <1>2, <2>1, <2>2, <2>3, WorkerSteps
<1> QED
    BY <1>5, <1>6, <1>7

-----------------------------------------------------------------------------
(* No PDB is left over. *)

\* A PDB of w that reconcilePDBs is due to delete: its Pod is gone, stopping, or
\* covered by a user's PDB.
Leftover(n, w) ==
    /\ cwc[w].phase = "live" /\ pdb[n].owner = w
    /\ ~cpod[n].active \/ cpod[n].lbl \in cns.cover

\* The call in progress will still delete the PDB of Pod n, or has failed and
\* will be repeated.
WillDelete(n) ==
    \/ wk.pc = "list"
    \/ wk.pc \in {"pods", "apply", "owned", "open"} /\ wk.failed
    \/ wk.pc \in {"pods", "apply"} /\ n \in wk.owned /\ wk.gov[n].uid = 0
    \/ wk.pc \in {"owned", "open"} /\ n \in wk.todo

\* A leftover PDB always has its deletion coming: its class is queued, an event
\* that will queue it is under way, or the call in progress has it before it.
CleanInv ==
    \A n \in Pods, w \in WCs :
        Leftover(n, w) => w \in queue \/ pdbEvents[n] # {} \/ WillDelete(n)

\* With one class no PDB is left for another one to adopt.
LEMMA NoAdoption ==
    ASSUME OneClass, TypeInv, wk.wc \in WCs, NEW n PROVE ~LeftForAdoption(n)
<1>1. wk.enforced \in WCs \cup {None}
    BY DEF TypeInv, TypeOK, Worker
<1> QED
    BY <1>1, BestType DEF LeftForAdoption, OneClass

\* A leftover PDB keeps its deletion coming while its class stays out of the
\* workqueue, through every step of the call in progress.
LEMMA CleanKept ==
    ASSUME OneClass, TypeInv, PodSync, PDBSync, SnapInv, CleanInv, [Next]_vars,
           NEW n \in Pods, NEW w \in WCs, Leftover(n, w), w \notin queue, pdbEvents[n] = {},
           Leftover(n, w)', w \notin queue', pdbEvents'[n] = {}
    PROVE  WillDelete(n)'
<1>1. WillDelete(n)
    BY DEF CleanInv
<1>2. wk \in Worker /\ wk.pc # "idle" /\ wk.wc = w
    <2>1. wk \in Worker /\ wk.pc # "idle"
        BY <1>1 DEF WillDelete, TypeInv, TypeOK
    <2> QED
        BY <2>1 DEF TypeInv, WorkerOK, OneClass
<1>3. Snapshot(w)
    BY <1>2 DEF SnapInv
<1>4. cpdb[n].owner = w
    BY DEF PDBSync, Alike, Leftover
<1>5. CASE wk' = wk
    BY <1>1, <1>5 DEF WillDelete
<1>6. CASE ListCluster
    <2>1. wk.phase # "deleting"
        BY <1>3 DEF Snapshot, Leftover
    <2>2. n \notin GovernedBy(wk.wc, cwc, CachedEnforced, cns.cover)
        BY DEF GovernedBy, Leftover, IsPodCoveredByUserPDB
    <2>3. n \in wk'.owned
        BY <1>2, <1>4, <1>6, <2>1, ListSteps
    <2>4. CASE wk.valid
        <3>1. wk'.pc = "pods" /\ wk'.gov[n] = NoPod
            BY <1>6, <2>1, <2>2, <2>4, ListSteps
        <3> QED
            BY <2>3, <3>1 DEF WillDelete, NoPod
    <2>5. CASE ~wk.valid
        BY <1>6, <2>1, <2>3, <2>5, ListSteps DEF WillDelete
    <2> QED
        BY <2>4, <2>5
<1>7. CASE ListFails
    BY <1>2, <1>7 DEF ListFails
<1>8. CASE EndReconcile
    BY <1>1, <1>2, <1>8 DEF EndReconcile, WillDelete
<1>9. CASE Proceeds
    <2>1. /\ wk'.owned = wk.owned /\ wk'.gov = wk.gov
          /\ wk.failed => wk'.failed
          /\ <<wk.pc, wk'.pc>> \in {<<"pods", "pods">>, <<"pods", "apply">>, <<"apply", "pods">>,
                                    <<"pods", "owned">>, <<"owned", "owned">>, <<"open", "open">>}
        BY <1>9, WorkerKeeps
    <2>2. CASE wk.failed
        BY <2>1, <2>2 DEF WillDelete
    <2>3. CASE wk.pc \in {"pods", "apply"} /\ n \in wk.owned /\ wk.gov[n].uid = 0
        <3>1. CASE wk'.pc = "owned"
            <4>1. BeginOwned
                <5>1. ~ApplyPod /\ ~ApplyFails
                    BY <1>2, <3>1 DEF ApplyPod, ApplyFails, Worker
                <5>2. ASSUME NEW m \in Pods PROVE ~DecidePod(m) /\ ~LabelFails(m)
                    BY <1>2, <3>1 DEF DecidePod, LabelFails, Worker
                <5>3. ASSUME NEW m \in Pods PROVE ~VisitOwned(m) /\ ~OpenOwned(m) /\ ~OwnedFails(m)
                    BY <2>3 DEF VisitOwned, OpenOwned, OwnedFails
                <5> QED
                    BY <1>9, <5>1, <5>2, <5>3 DEF Proceeds
            <4>2. n \in wk'.todo
                BY <1>2, <2>3, <4>1 DEF BeginOwned, Worker
            <4> QED
                BY <3>1, <4>2 DEF WillDelete
        <3> QED
            BY <2>1, <2>3, <3>1 DEF WillDelete
    <2>4. CASE wk.pc \in {"owned", "open"} /\ n \in wk.todo
        <3>1. wk'.pc = wk.pc
            BY <2>1, <2>4
        <3>2. ASSUME NEW m \in Pods, OwnedFails(m) PROVE WillDelete(n)'
            BY <1>2, <2>4, <3>1, <3>2 DEF OwnedFails, Worker, WillDelete
        <3>3. ASSUME DeletePDB(n) PROVE WillDelete(n)'
            <4>1. pdb'[n].owner = w /\ w # None
                BY DistinctNames DEF Leftover
            <4>2. ~SetPDB(n, NoPDB)
                BY <4>1 DEF SetPDB, TypeInv, TypeOK, NoPDB
            <4>3. /\ pdb' = pdb
                  /\ wk' = [wk EXCEPT !.todo = @ \ {n}, !.failed = @ \/ (cpdb[n].owner = wk.wc /\ Exists(pdb[n]))]
                BY <3>3, <4>2 DEF DeletePDB, pdbVars
            <4>4. Exists(pdb[n])
                BY <4>1, <4>3 DEF Exists
            <4>5. wk'.failed
                BY <1>2, <1>4, <4>3, <4>4 DEF Worker
            <4> QED
                BY <2>4, <3>1, <4>5 DEF WillDelete
        <3>4. ASSUME NEW m \in Pods, m # n, wk.todo \ {m} \subseteq wk'.todo PROVE WillDelete(n)'
            BY <2>4, <3>1, <3>4 DEF WillDelete
        <3>5. ASSUME NEW m \in Pods, VisitOwned(m) PROVE WillDelete(n)'
            <4>1. DeletePDB(m)
                BY <1>2, <3>5, NoAdoption DEF VisitOwned
            <4>2. wk.todo \ {m} \subseteq wk'.todo
                BY <1>2, <4>1 DEF DeletePDB, Worker
            <4> QED
                BY <3>3, <3>4, <4>1, <4>2
        <3>6. ASSUME NEW m \in Pods, OpenOwned(m) PROVE WillDelete(n)'
            <4>1. wk.todo \ {m} \subseteq wk'.todo
                BY <1>2, <3>6 DEF OpenOwned, DeletePDB, Worker
            <4>2. CASE m = n
                <5>1. wk.cover = cns.cover
                    BY <1>3, <2>4 DEF Snapshot
                <5>2. ~cpod[n].active \/ IsPodCoveredByUserPDB(cpod[n], wk.cover)
                    BY <5>1 DEF Leftover, IsPodCoveredByUserPDB
                <5> QED
                    BY <3>3, <3>6, <4>2, <5>2 DEF OpenOwned
            <4> QED
                BY <3>4, <4>1, <4>2
        <3> QED
            BY <1>9, <2>4, <3>2, <3>5, <3>6
            DEF Proceeds, ApplyPod, ApplyFails, BeginOwned, DecidePod, LabelFails
    <2> QED
        BY <1>1, <2>1, <2>2, <2>3, <2>4 DEF WillDelete
<1>10. CASE \E v \in WCs : BeginReconcile(v)
    BY <1>2, <1>10 DEF BeginReconcile
<1>11. CASE Restart
    BY <1>11 DEF Restart, RequestsInNamespace, Leftover
<1> QED
    BY <1>5, <1>6, <1>7, <1>8, <1>9, <1>10, <1>11, WorkerSteps

\* Every step keeps CleanInv.
LEMMA CleanNext ==
    OneClass /\ TypeInv /\ TypeInv' /\ CacheCoherent /\ PodSync /\ PDBSync /\ SnapInv /\ CleanInv /\ [Next]_vars => CleanInv'
<1> SUFFICES ASSUME OneClass, TypeInv, TypeInv', CacheCoherent, PodSync, PDBSync, SnapInv, CleanInv, [Next]_vars,
                    NEW n \in Pods, NEW w \in WCs, Leftover(n, w)', w \notin queue', pdbEvents'[n] = {}
             PROVE  WillDelete(n)'
    BY DEF CleanInv
<1>1. cwc'[w].phase # "gone" /\ pdb'[n].owner = w
    BY DEF Leftover
<1>2. /\ cwc' = cwc /\ cns' = cns
      /\ w \in queue => wk'.pc = "list"
      /\ pdbEvents[n] = {}
    BY <1>1, Unwoken
<1>3. pdb[n].owner = w
    <2>1. CASE PDBKept(n) \/ PDBDelivered(n)
        BY <1>1, <2>1 DEF PDBKept, PDBDelivered
    <2>2. CASE PDBWritten(n)
        <3>1. PICK new : new = pdb'[n]
            OBVIOUS
        <3>2. PDBWrite(n, new) /\ PDBEvent(pdb[n], new) = {}
            BY <2>2, <3>1 DEF PDBWritten
        <3> QED
            BY <1>1, <3>1, <3>2, PDBEventAlike DEF Alike, PDBSync
    <2> QED
        BY <2>1, <2>2, PDBStep
<1>4. cpdb[n].owner = w
    BY <1>2, <1>3 DEF PDBSync, Alike
<1>5. cpod'[n].active = cpod[n].active /\ cpod'[n].lbl = cpod[n].lbl
    <2>1. CASE cpod'[n] = cpod[n]
        BY <2>1
    <2>2. CASE Refreshed(n) /\ podEvents[n] = {}
        BY <2>2 DEF PodSync, Same, Refreshed
    <2>3. CASE Refreshed(n) /\ RelistPod(n)
        <3>1. cpod[n].uid # 0 /\ pod[n].uid # 0 /\ pod[n].lbl \in Labels
            BY <2>3 DEF RelistPod, PodSync
        <3>2. PodEvent(cpod[n], pod[n]) = {}
            BY <1>4, <2>3, PodRelist
        <3> QED
            BY <2>3, <3>1, <3>2, DistinctNames DEF PodEvent, PodUpdatePasses, Refreshed
    <2>4. CASE Restart
        BY <1>1, <2>4 DEF Restart, RequestsInNamespace
    <2>5. DeliverPod(n) => podEvents[n] = {}
        BY <1>4, PodDelivery
    <2> QED
        BY <2>1, <2>2, <2>3, <2>4, <2>5, PodStep DEF Kept, Rewritten
<1>6. Leftover(n, w)
    BY <1>2, <1>3, <1>5 DEF Leftover
<1>7. CASE w \in queue
    BY <1>2, <1>7 DEF WillDelete
<1>8. CASE w \notin queue
    BY <1>2, <1>6, <1>8, CleanKept
<1> QED
    BY <1>7, <1>8

\* The inductive invariant behind CleanWhenQuiescent.
QuietInv == TypeInv /\ CacheCoherent /\ PodSync /\ PDBSync /\ WCSync /\ SnapInv /\ CleanInv

\* It holds at the start, where every class is queued.
LEMMA QuietInit == Init => QuietInv
<1> SUFFICES ASSUME Init PROVE QuietInv
    OBVIOUS
<1>1. TypeInv
    BY TypeInvInit
<1>2. CacheCoherent /\ SnapInv
    BY DEF Init, CacheCoherent, SnapInv, Idle
<1>3. PodSync
    <2>1. \A n \in Pods : pod[n] \in {NoPod} \cup [uid : {1}, active : {TRUE}, lbl : Labels, uidLabel : {0}]
        BY DEF Init
    <2>2. ASSUME NEW n \in Pods
          PROVE  (pod[n].uid # 0 => pod[n].lbl \in Labels) /\ (pod[n].uid = 0 => pod[n] = NoPod)
        <3>1. CASE pod[n] = NoPod
            BY <3>1 DEF NoPod
        <3>2. CASE pod[n] \in [uid : {1}, active : {TRUE}, lbl : Labels, uidLabel : {0}]
            <4>1. pod[n].uid = 1 /\ pod[n].lbl \in Labels
                BY <3>2
            <4> QED
                BY <4>1
        <3> QED
            BY <2>1, <3>1, <3>2
    <2>3. cpod = pod /\ \A n \in Pods : podEvents[n] = {}
        BY DEF Init
    <2> QED
        BY <2>2, <2>3 DEF PodSync, Same
<1>4. PDBSync /\ CleanInv
    BY DistinctNames DEF Init, PDBSync, Alike, CleanInv, Leftover, NoPDB
<1>5. WCSync
    BY DEF Init, WCSync, NoWC
<1> QED
    BY <1>1, <1>2, <1>3, <1>4, <1>5 DEF QuietInv

\* Every step keeps it.
LEMMA QuietNext == OneClass /\ QuietInv /\ [Next]_vars => QuietInv'
BY TypeInvNext, CacheCoherentNext, PodSyncNext, PDBSyncNext, WCSyncNext, SnapNext, CleanNext DEF QuietInv

\* When the controller has nothing left to do, no deletion can still be coming,
\* so nothing is left over.
LEMMA QuietClean == QuietInv => CleanWhenQuiescent
<1> SUFFICES ASSUME QuietInv, Quiescent, NEW n \in Pods, ~pod[n].active \/ pod[n].lbl \in ns.cover,
                    IsWorkloadClassManagedPDB(pdb[n])
             PROVE  FALSE
    BY DEF CleanWhenQuiescent
<1>1. PICK w \in WCs : w = pdb[n].owner
    BY DEF IsWorkloadClassManagedPDB
<1>2. cwc[w].phase = "live"
    BY <1>1 DEF QuietInv, WCSync, Quiescent
<1>3. Leftover(n, w)
    BY <1>1, <1>2 DEF Leftover, Quiescent
<1>4. w \notin queue /\ pdbEvents[n] = {} /\ ~WillDelete(n)
    BY DEF QuietInv, PDBSync, Quiescent, WillDelete
<1> QED
    BY <1>3, <1>4 DEF QuietInv, CleanInv

\* In a namespace with one WorkloadClass, for any number of Pods, changes,
\* faults, restarts and relists: once the controller has nothing left to do, no
\* managed PDB remains for a Pod that is gone, stopping or covered by a user's
\* PDB (the last loop of reconcilePDBs, openOwnedPDBs, and the watches that must
\* wake them).
THEOREM ControllerCleanWhenQuiescent == OneClass => (Spec => []CleanWhenQuiescent)
<1> SUFFICES ASSUME OneClass PROVE Spec => []CleanWhenQuiescent
    OBVIOUS
<1>1. Init => QuietInv
    BY QuietInit
<1>2. QuietInv /\ [Next]_vars => QuietInv'
    BY QuietNext
<1>3. QuietInv => CleanWhenQuiescent
    BY QuietClean
<1> QED
    BY <1>1, <1>2, <1>3, PTL DEF Spec

-----------------------------------------------------------------------------
(* Every governed Pod is protected. *)

\* Users leave PDBs and the class' spec alone, and guardrails stay as they are.
Static == Kinds \cap {"pdb", "spec", "guardrails"} = {}

\* When the protection promise holds: one class, no Pod replaced during a lost
\* watch, and no lease, or none of the changes that a lease annotation can hide.
\* TLC refutes ProtectedWhenQuiescent without either of the last two.
Steady ==
    /\ OneClass
    /\ "relist" \notin Kinds
    /\ MaxEvictions = 0 \/ Static

\* A Reconcile call never postpones the RequeueAfter it has collected.
LEMMA RequeueSteps ==
    ASSUME TypeInv, Proceeds, NEW e, wk.requeue # 0, wk.requeue <= e, e \in Nat
    PROVE  wk'.requeue # 0 /\ wk'.requeue <= e
<1> DEFINE Goal == wk'.requeue # 0 /\ wk'.requeue <= e
<1>1. wk \in Worker /\ wk.requeue \in Nat
    BY DEF TypeInv, TypeOK, Worker
<1>2. ASSUME NEW x \in Nat PROVE MinPositive(wk.requeue, x) # 0 /\ MinPositive(wk.requeue, x) <= e
    BY <1>1 DEF MinPositive
<1>3. CASE wk'.requeue = wk.requeue
    BY <1>3
<1>4. CASE ApplyPod
    <2>1. now + LeaseDuration \in Nat
        BY LeaseDurationAssumption DEF TypeInv, TypeOK
    <2>2. wk'.requeue = wk.requeue \/ wk'.requeue = MinPositive(wk.requeue, now + LeaseDuration)
        BY <1>1, <1>4 DEF ApplyPod, Worker
    <2> QED
        BY <1>2, <1>3, <2>1, <2>2
<1>5. ASSUME NEW n \in Pods, DecidePod(n) PROVE Goal
    <2>1. cpdb[n].expiry \in Nat
        BY DEF TypeInv, TypeOK, PDB
    <2>2. wk'.requeue = wk.requeue \/ wk'.requeue = MinPositive(wk.requeue, cpdb[n].expiry)
        BY <1>1, <1>5 DEF DecidePod, Worker
    <2> QED
        BY <1>2, <1>3, <2>1, <2>2
<1>6. ASSUME NEW n \in Pods, LabelFails(n) \/ VisitOwned(n) \/ OpenOwned(n) \/ OwnedFails(n) PROVE Goal
    <2>1. wk'.requeue = wk.requeue
        BY <1>1, <1>6 DEF LabelFails, VisitOwned, OpenOwned, OwnedFails, DeletePDB, Worker
    <2> QED
        BY <1>3, <2>1
<1>7. CASE ApplyFails \/ BeginOwned
    <2>1. wk'.requeue = wk.requeue
        BY <1>1, <1>7 DEF ApplyFails, BeginOwned, Worker
    <2> QED
        BY <1>3, <2>1
<1> QED
    BY <1>4, <1>5, <1>6, <1>7 DEF Proceeds

\* The Pod loop of reconcilePDBs visits every governed Pod: one that leaves the
\* list was decided or failed.
LEMMA TodoSteps ==
    ASSUME TypeInv, Proceeds, wk'.pc \in {"pods", "apply"}
    PROVE  /\ wk'.todo \subseteq wk.todo
           /\ wk'.pc = "apply" => \E n \in Pods : DecidePod(n)
           /\ \A n \in wk.todo \ wk'.todo : DecidePod(n) \/ LabelFails(n)
<1> DEFINE Goal == /\ wk'.todo \subseteq wk.todo
                   /\ wk'.pc = "apply" => \E n \in Pods : DecidePod(n)
                   /\ \A n \in wk.todo \ wk'.todo : DecidePod(n) \/ LabelFails(n)
<1>1. wk \in Worker
    BY DEF TypeInv, TypeOK
<1>2. CASE ApplyPod \/ ApplyFails
    BY <1>1, <1>2 DEF ApplyPod, ApplyFails, Worker
<1>3. ASSUME NEW n \in Pods, DecidePod(n) PROVE Goal
    <2>1. wk'.todo = wk.todo \ {n}
        BY <1>1, <1>3 DEF DecidePod, Worker
    <2> QED
        BY <1>3, <2>1
<1>4. ASSUME NEW n \in Pods, LabelFails(n) PROVE Goal
    <2>1. wk'.todo = wk.todo \ {n} /\ wk'.pc = "pods"
        BY <1>1, <1>4 DEF LabelFails, Worker
    <2> QED
        BY <1>4, <2>1
<1>5. CASE BeginOwned \/ \E n \in Pods : VisitOwned(n) \/ OpenOwned(n) \/ OwnedFails(n)
    <2>1. wk'.pc \notin {"pods", "apply"}
        BY <1>1, <1>5, ZenonT(30) DEF BeginOwned, VisitOwned, OpenOwned, OwnedFails, DeletePDB, Worker
    <2> QED
        BY <2>1
<1> QED
    BY <1>2, <1>3, <1>4, <1>5 DEF Proceeds

\* The best match is a class that is neither deleted nor being deleted.
LEMMA BestLive ==
    ASSUME NEW wcs, NEW e, NEW l, NEW w \in WCs,
           BestMatchWorkloadClassForPod(wcs, NamespaceEnforcedWorkloadClass(wcs, e), l) = w
    PROVE  wcs[w].phase = "live"
<1>1. CASE NamespaceEnforcedWorkloadClass(wcs, e) # None
    BY <1>1 DEF BestMatchWorkloadClassForPod, NamespaceEnforcedWorkloadClass
<1>2. CASE NamespaceEnforcedWorkloadClass(wcs, e) = None
    <2>1. BestMatches(wcs, l) # {} /\ w = CHOOSE v \in BestMatches(wcs, l) : TRUE
        BY <1>2, DistinctNames DEF BestMatchWorkloadClassForPod
    <2>2. w \in BestMatches(wcs, l)
        BY <2>1
    <2> QED
        BY <2>2 DEF BestMatches
<1> QED
    BY <1>1, <1>2

\* By the caches, w protects Pods and governs Pod n: its reconcile is due to give
\* n a PDB.
Needs(n, w) == CachedProtects(w) /\ n \in GovernedBy(w, cwc, CachedEnforced, cns.cover)

\* If Pod n needs protection by a class that is not queued after a step, it did
\* before, from the same cached class and namespace, for the same instance; if
\* the class was queued, a Reconcile call has just begun; and no event or timer
\* was consumed.
LEMMA NeedsStep ==
    ASSUME OneClass, "relist" \notin Kinds, TypeInv, TypeInv', PodSync, [Next]_vars,
           NEW n \in Pods, NEW w \in WCs, Needs(n, w)', w \notin queue'
    PROVE  /\ cwc' = cwc /\ cns' = cns /\ cwc[w].phase = "live"
           /\ w \in queue => wk'.pc = "list"
           /\ pdbEvents'[n] = {} => pdbEvents[n] = {}
           /\ timer'[w] # timer[w] => EndReconcile
           /\ Needs(n, w)
           /\ Same(cpod[n], cpod'[n])
           /\ podEvents'[n] = {} => podEvents[n] = {} /\ Same(pod[n], pod'[n])
<1>1. /\ BestMatchWorkloadClassForPod(cwc', CachedEnforced', cpod'[n].lbl) = w
      /\ cpod'[n].active
    BY DEF Needs, GovernedBy
<1>2. cwc'[w].phase = "live"
    BY <1>1, BestLive DEF CachedEnforced
<1>3. /\ cwc' = cwc /\ cns' = cns
      /\ w \in queue => wk'.pc = "list"
      /\ pdbEvents'[n] = {} => pdbEvents[n] = {}
      /\ timer'[w] # timer[w] => EndReconcile
    BY <1>2, Unwoken
<1>4. CachedEnforced' = CachedEnforced
    BY <1>3 DEF CachedEnforced
<1>5. Same(cpod[n], cpod'[n]) /\ (podEvents'[n] = {} => podEvents[n] = {} /\ Same(pod[n], pod'[n]))
    <2>1. CASE Kept(n)
        BY <2>1 DEF Kept, Same
    <2>2. CASE Rewritten(n)
        <3>1. pod[n] \in Pod /\ pod'[n] \in Pod /\ (pod[n].uid # 0 => pod[n].lbl \in Labels)
            BY DEF TypeInv, TypeOK, PodSync
        <3>2. PICK new : new = pod'[n]
            OBVIOUS
        <3>3. PodEvent(pod[n], new) = {} => Same(pod[n], new)
            BY <2>2, <3>1, <3>2, PodEventSame DEF Rewritten
        <3> QED
            BY <2>2, <3>2, <3>3 DEF Rewritten, Same
    <2>3. CASE Restart
        BY <1>2, <2>3 DEF Restart, RequestsInNamespace
    <2>4. CASE Refreshed(n) /\ DeliverPod(n)
        <3>1. cpod'[n] = pod[n] /\ pod'[n] = pod[n]
            BY <2>4 DEF Refreshed
        <3>2. CASE podEvents[n] = {}
            BY <3>1, <3>2 DEF PodSync, Same
        <3>3. CASE podEvents[n] # {}
            <4>1. pod[n].uid # 0
                BY <1>1, <3>1 DEF PodSync, NoPod
            <4>2. pod[n].lbl \in podEvents[n]
                BY <3>3, <4>1 DEF PodSync
            <4>3. CachedBest(pod[n].lbl) = w
                BY <1>1, <1>3, <1>4, <3>1 DEF CachedBest
            <4> QED
                BY <2>4, <4>2, <4>3, PodDelivery
        <3> QED
            BY <3>2, <3>3
    <2>5. ~RelistPod(n)
        BY DEF RelistPod
    <2> QED
        BY <2>1, <2>2, <2>3, <2>4, <2>5, PodStep
<1>6. Needs(n, w)
    <2>1. CachedProtects(w)
        BY <1>3, <1>4 DEF Needs, CachedProtects
    <2>2. n \in GovernedBy(w, cwc, CachedEnforced, cns.cover)
        <3>1. cpod'[n].lbl \notin cns'.cover
            BY DEF Needs, GovernedBy, IsPodCoveredByUserPDB
        <3> QED
            BY <1>1, <1>3, <1>4, <1>5, <3>1 DEF GovernedBy, Same, IsPodCoveredByUserPDB
    <2> QED
        BY <2>1, <2>2 DEF Needs
<1> QED
    BY <1>2, <1>3, <1>5, <1>6

\* The clock stands or advances by one.
LEMMA NowStep == ASSUME [Next]_vars PROVE now' = now \/ now' = now + 1
<1>1. CASE Deliver
    BY <1>1 DEF Deliver, DeliverPod, DeliverPDB, DeliverWC, DeliverNS, clock
<1>2. CASE Environment
    BY <1>2 DEF Environment, TerminatePod, RemovePod, RemoveUIDLabel, RelistPod, CollectPDB,
                CreateUserPDB, DeletePDBByUser, EditPDBByUser, CreatePod, RelabelPod,
                DeleteWC, FinishDeleteWC, CreateWC, UpdateWC, ChangeNS, clock
<1>3. CASE Work
    BY <1>3 DEF Work, ListCluster, ApplyPod, BeginOwned, EndReconcile, ListFails, ApplyFails, ReconcileDeleted,
                BeginReconcile, DecidePod, LabelFails, OwnedFails, VisitOwned, OpenOwned, clock
<1> QED
    BY <1>1, <1>2, <1>3 DEF Next, Tick, TimerFires, Handle, Evict, Restart, vars, clock

\* Without evictions nobody asks for a lease.
LEMMA AskedStep == ASSUME TypeInv, [Next]_vars, MaxEvictions = 0 PROVE asked' = asked
<1>1. CASE Deliver
    BY <1>1 DEF Deliver, DeliverPod, DeliverPDB, DeliverWC, DeliverNS, webhook
<1>2. CASE Environment
    BY <1>2 DEF Environment, TerminatePod, RemovePod, RemoveUIDLabel, RelistPod, CollectPDB,
                CreateUserPDB, DeletePDBByUser, EditPDBByUser, CreatePod, RelabelPod,
                DeleteWC, FinishDeleteWC, CreateWC, UpdateWC, ChangeNS, webhook
<1>3. CASE Work
    BY <1>3 DEF Work, ListCluster, ApplyPod, BeginOwned, EndReconcile, ListFails, ApplyFails, ReconcileDeleted,
                BeginReconcile, DecidePod, LabelFails, OwnedFails, VisitOwned, OpenOwned, webhook
<1>4. ~(evictions < MaxEvictions)
    BY DEF TypeInv, TypeOK
<1> QED
    BY <1>1, <1>2, <1>3, <1>4 DEF Next, Tick, TimerFires, Handle, Evict, Restart, vars, webhook

\* What leasePodPDB and syncPodPDB write.
LEMMA WantedFields ==
    /\ WantedPDB.owner = wk.wc /\ WantedPDB.uid = wk.cur.pod.uid
    /\ wk.cur.op = "lease" => /\ WantedPDB.open = TRUE
                              /\ WantedPDB.holder = wk.leases[wk.cur.name].subject
                              /\ WantedPDB.expiry = now + LeaseDuration
    /\ wk.cur.op # "lease" => /\ WantedPDB.open = (wk.readiness = "Ready")
                              /\ WantedPDB.holder = None /\ WantedPDB.expiry = 0
BY DEF WantedPDB, LeasedPDB, SyncedPDB

\* The shape of a lease record: it stands on an open PDB of a class, ends no
\* later than one lease duration from now, and exists only if somebody may evict.
LeaseRec(p) ==
    /\ p.holder # None => p.open /\ p.owner \in WCs
    /\ p.expiry <= now + LeaseDuration
    /\ MaxEvictions = 0 => p.holder = None

\* Stored and cached lease records have that shape.
LeaseShape ==
    /\ \A n \in Pods : LeaseRec(pdb[n]) /\ LeaseRec(cpdb[n])
    /\ MaxEvictions = 0 => asked = {}

\* Every step keeps LeaseShape.
LEMMA LeaseShapeNext ==
    Steady /\ TypeInv /\ TypeInv' /\ CacheCoherent /\ LeaseInv /\ LeaseShape /\ [Next]_vars => LeaseShape'
<1> SUFFICES ASSUME Steady, TypeInv, TypeInv', CacheCoherent, LeaseInv, LeaseShape, [Next]_vars PROVE LeaseShape'
    OBVIOUS
<1>1. now \in Nat /\ now' \in Nat /\ now <= now' /\ LeaseDuration \in Nat
    <2>1. now \in Nat
        BY DEF TypeInv, TypeOK
    <2> QED
        BY <2>1, NowStep, LeaseDurationAssumption
<1>2. MaxEvictions = 0 => asked = {} /\ asked' = {}
    BY AskedStep DEF LeaseShape
<1>3. ASSUME NEW p \in PDB, LeaseRec(p) PROVE LeaseRec(p)'
    <2>1. PICK e \in Nat : e = p.expiry
        BY DEF PDB
    <2>2. e <= now' + LeaseDuration
        BY <1>1, <1>3, <2>1 DEF LeaseRec
    <2> QED
        BY <1>3, <2>1, <2>2 DEF LeaseRec
<1>4. ASSUME NEW n \in Pods PROVE LeaseRec(pdb[n])' /\ LeaseRec(cpdb[n])'
    <2>1. /\ pdb[n] \in PDB /\ cpdb[n] \in PDB /\ pdb'[n] \in PDB
          /\ LeaseRec(pdb[n]) /\ LeaseRec(cpdb[n])
        BY DEF TypeInv, TypeOK, LeaseShape
    <2>2. PICK p \in PDB, c \in PDB, new \in PDB : p = pdb[n] /\ c = cpdb[n] /\ new = pdb'[n]
        BY <2>1
    <2>3. LeaseRec(p)' /\ LeaseRec(c)'
        BY <1>3, <2>1, <2>2
    <2>4. CASE PDBKept(n) \/ PDBDelivered(n)
        BY <2>2, <2>3, <2>4 DEF PDBKept, PDBDelivered, LeaseRec
    <2>5. CASE PDBWritten(n)
        <3>1. PDBWrite(n, new) /\ cpdb'[n] = c
            BY <2>2, <2>5 DEF PDBWritten
        <3>2. LeaseRec(new)
            <4>1. CASE new = NoPDB \/ new = [NoPDB EXCEPT !.owner = User]
                <5>1. new.holder = None /\ new.expiry = 0
                    BY <4>1 DEF NoPDB
                <5> QED
                    BY <1>1, <5>1 DEF LeaseRec
            <4>2. CASE "pdb" \in Kinds /\ new = [pdb[n] EXCEPT !.open = ~@]
                <5>1. new.holder = p.holder /\ new.expiry = p.expiry
                    BY <2>2, <4>2 DEF PDB
                <5>2. p.holder = None
                    BY <2>1, <2>2, <4>2 DEF Steady, Static, LeaseRec
                <5> QED
                    BY <2>1, <2>2, <5>1, <5>2 DEF LeaseRec
            <4>3. CASE wk.wc \in WCs /\ new = WantedPDB /\ wk.cur.name = n
                <5>1. CASE wk.cur.op = "lease"
                    <6>1. /\ new.open = TRUE /\ new.holder = wk.leases[n].subject
                          /\ new.expiry = now + LeaseDuration /\ new.owner = wk.wc
                        BY <4>3, <5>1, WantedFields
                    <6>2. MaxEvictions = 0 => wk.leases[n].subject = None
                        BY <1>2 DEF LeaseInv, WasAsked
                    <6> QED
                        BY <1>1, <4>3, <6>1, <6>2 DEF LeaseRec
                <5>2. CASE wk.cur.op # "lease"
                    <6>1. new.holder = None /\ new.expiry = 0
                        BY <4>3, <5>2, WantedFields
                    <6> QED
                        BY <1>1, <6>1 DEF LeaseRec
                <5> QED
                    BY <5>1, <5>2
            <4>4. CASE new = SyncedPDB(wk.wc, cpod[n], wk.readiness, FALSE)
                <5>1. new.holder = None /\ new.expiry = 0
                    BY <4>4 DEF SyncedPDB
                <5> QED
                    BY <1>1, <5>1 DEF LeaseRec
            <4> QED
                BY <3>1, <4>1, <4>2, <4>3, <4>4, Zenon DEF PDBWrite
        <3>3. LeaseRec(new)'
            BY <1>3, <3>2
        <3> QED
            BY <2>2, <2>3, <3>1, <3>3 DEF LeaseRec
    <2> QED
        BY <2>4, <2>5, PDBStep
<1> QED
    BY <1>2, <1>4 DEF LeaseShape

\* With one class there is no overlap: the Validated condition protects Pods
\* exactly if guardrails exist and the spec complies.
LEMMA OneClassProtects ==
    ASSUME OneClass, NEW wcs \in [WCs -> WCObject], NEW e, NEW g \in BOOLEAN, NEW w \in WCs
    PROVE  protectsPods(ValidatedReason(wcs, e, g, w), g) = (~wcs[w].spec.bad /\ g)
<1>1. ~Overlaps(wcs, e, w)
    BY DEF Overlaps, OneClass
<1>2. wcs[w].spec.bad \in BOOLEAN
    BY DEF WCObject, WCSpec
<1>3. CASE wcs[w].spec.bad /\ g
    <2>1. ValidatedReason(wcs, e, g, w) = "ValidationFailed"
        BY <1>1, <1>3 DEF ValidatedReason
    <2> QED
        BY <1>3, <2>1 DEF protectsPods
<1>4. CASE ~g
    <2>1. ValidatedReason(wcs, e, g, w) = "NoGuardrails"
        BY <1>1, <1>4 DEF ValidatedReason
    <2> QED
        BY <1>4, <2>1 DEF protectsPods
<1>5. CASE ~wcs[w].spec.bad /\ g
    <2>1. ValidatedReason(wcs, e, g, w) = "ValidationPassed"
        BY <1>1, <1>5 DEF ValidatedReason
    <2> QED
        BY <1>5, <2>1 DEF protectsPods
<1> QED
    BY <1>2, <1>3, <1>4, <1>5

\* If nobody changes the guardrails the namespace's stay, and the cached ones are
\* old or delivered from them.
LEMMA GuardrailsStep ==
    ASSUME TypeInv, "guardrails" \notin Kinds, [Next]_vars
    PROVE  ns'.guardrails = ns.guardrails /\ cns'.guardrails \in {cns.guardrails, ns.guardrails}
<1> DEFINE Goal == ns'.guardrails = ns.guardrails /\ cns'.guardrails \in {cns.guardrails, ns.guardrails}
<1>1. CASE UNCHANGED <<ns, cns>>
    BY <1>1
<1>2. ASSUME NEW f \in {"cover", "enforced", "guardrails"}, DeliverNS(f) PROVE Goal
    <2>1. cns' = [cns EXCEPT ![f] = ns[f]] /\ ns' = ns
        BY <1>2 DEF DeliverNS, store
    <2> QED
        BY <2>1 DEF TypeInv, TypeOK, NS
<1>3. CASE Deliver
    BY <1>1, <1>2, <1>3 DEF Deliver, DeliverPod, DeliverPDB, DeliverWC, store
<1>4. ASSUME NEW f \in {"cover", "enforced"}, NEW v, ChangeNS(f, v) PROVE Goal
    <2>1. ns' = [ns EXCEPT ![f] = v] /\ cns' = cns
        BY <1>4 DEF ChangeNS, cache
    <2> QED
        BY <2>1 DEF TypeInv, TypeOK, NS
<1>5. ASSUME NEW v PROVE ~ChangeNS("guardrails", v)
    BY DEF ChangeNS, Change
<1>6. CASE Environment
    BY <1>1, <1>4, <1>5, <1>6 DEF Environment, TerminatePod, RemovePod, RemoveUIDLabel, RelistPod, CollectPDB,
                CreateUserPDB, DeletePDBByUser, EditPDBByUser, CreatePod, RelabelPod,
                DeleteWC, FinishDeleteWC, CreateWC, UpdateWC, cache, store
<1>7. CASE Work
    BY <1>1, <1>7 DEF Work, ListCluster, ApplyPod, BeginOwned, EndReconcile, ListFails, ApplyFails, ReconcileDeleted,
                BeginReconcile, DecidePod, LabelFails, OwnedFails, VisitOwned, OpenOwned, store, cache
<1>8. CASE Restart
    BY <1>8 DEF Restart, store
<1> HIDE DEF Goal
<1> QED
    BY <1>1, <1>3, <1>6, <1>7, <1>8 DEF Next, Tick, TimerFires, Handle, Evict, vars, store, cache, Goal

\* The class complies with the guardrails there were at the start.
Compliant(w) == ~cwc[w].spec.bad /\ InitialNS.guardrails

\* Where specs and guardrails stay as they are, a cached spec is the stored one,
\* and a Reconcile call, whenever it began, decided on it.
StaticInv ==
    Static =>
        /\ ns.guardrails = InitialNS.guardrails /\ cns.guardrails = InitialNS.guardrails
        /\ \A w \in WCs : cwc[w].gen # 0 => wc[w].gen # 0 /\ wc[w].spec = cwc[w].spec
        /\ wk.pc # "idle" => /\ cwc[wk.wc].gen # 0
                             /\ wk.valid = Compliant(wk.wc)
                             /\ wk.readiness = Readiness(cwc[wk.wc].spec)
                             /\ wk.pc \in {"pods", "apply", "owned"} => wk.valid
                             /\ wk.pc = "open" => ~wk.valid

\* Every step keeps StaticInv.
LEMMA StaticNext ==
    OneClass /\ TypeInv /\ TypeInv' /\ WCSync /\ StaticInv /\ [Next]_vars => StaticInv'
<1> SUFFICES ASSUME OneClass, TypeInv, TypeInv', WCSync, StaticInv, [Next]_vars, Static
             PROVE  /\ ns'.guardrails = InitialNS.guardrails /\ cns'.guardrails = InitialNS.guardrails
                    /\ \A w \in WCs : cwc'[w].gen # 0 => wc'[w].gen # 0 /\ wc'[w].spec = cwc'[w].spec
                    /\ wk'.pc # "idle" => /\ cwc'[wk'.wc].gen # 0
                                          /\ wk'.valid = Compliant(wk.wc)'
                                          /\ wk'.readiness = Readiness(cwc'[wk'.wc].spec)
                                          /\ wk'.pc \in {"pods", "apply", "owned"} => wk'.valid
                                          /\ wk'.pc = "open" => ~wk'.valid
    BY DEF StaticInv, Static
<1>1. /\ ns.guardrails = InitialNS.guardrails /\ cns.guardrails = InitialNS.guardrails
      /\ \A w \in WCs : cwc[w].gen # 0 => wc[w].gen # 0 /\ wc[w].spec = cwc[w].spec
      /\ wk.pc # "idle" => /\ cwc[wk.wc].gen # 0
                           /\ wk.valid = Compliant(wk.wc)
                           /\ wk.readiness = Readiness(cwc[wk.wc].spec)
                           /\ wk.pc \in {"pods", "apply", "owned"} => wk.valid
                           /\ wk.pc = "open" => ~wk.valid
    BY DEF StaticInv, Static
<1>2. ns'.guardrails = InitialNS.guardrails /\ cns'.guardrails = InitialNS.guardrails
    BY <1>1, GuardrailsStep DEF Static
<1>3. ASSUME NEW w \in WCs
      PROVE  /\ cwc'[w].gen # 0 => wc'[w].gen # 0 /\ wc'[w].spec = cwc'[w].spec
             /\ cwc[w].gen # 0 => cwc'[w].gen # 0 /\ cwc'[w].spec = cwc[w].spec
    <2>1. wc[w].gen \in Nat
        BY DEF TypeInv, TypeOK, WCObject
    <2>2. CASE WCKept(w) \/ WCDelivered(w)
        BY <1>1, <2>2 DEF WCKept, WCDelivered
    <2>3. CASE WCWritten(w)
        <3>1. LegalWC(wc[w], wc'[w]) /\ cwc'[w] = cwc[w]
            BY <2>3 DEF WCWritten
        <3> QED
            BY <1>1, <2>1, <3>1 DEF LegalWC, WCSync, Static
    <2> QED
        BY <2>2, <2>3, WCStep
<1>4. ASSUME wk'.pc # "idle"
      PROVE  /\ cwc'[wk'.wc].gen # 0
             /\ wk'.valid = Compliant(wk.wc)'
             /\ wk'.readiness = Readiness(cwc'[wk'.wc].spec)
             /\ wk'.pc \in {"pods", "apply", "owned"} => wk'.valid
             /\ wk'.pc = "open" => ~wk'.valid
    <2>1. PICK w \in WCs : w = wk'.wc
        BY <1>4 DEF TypeInv, WorkerOK
    <2> DEFINE Goal == /\ cwc'[w].gen # 0
                       /\ wk'.valid = (~cwc'[w].spec.bad /\ InitialNS.guardrails)
                       /\ wk'.readiness = Readiness(cwc'[w].spec)
                       /\ wk'.pc \in {"pods", "apply", "owned"} => wk'.valid
                       /\ wk'.pc = "open" => ~wk'.valid
    <2>2. SUFFICES Goal
        BY <2>1 DEF Compliant
    <2>3. wk' # Idle /\ ~ListFails /\ ~EndReconcile /\ ~Restart
        BY <1>4 DEF Idle, ListFails, EndReconcile, Restart
    <2>4. ASSUME wk.pc # "idle", wk.wc = w
          PROVE  /\ cwc'[w].gen # 0 /\ wk.valid = (~cwc'[w].spec.bad /\ InitialNS.guardrails)
                 /\ wk.readiness = Readiness(cwc'[w].spec)
        BY <1>1, <1>3, <2>4 DEF Compliant
    <2>5. CASE wk' = wk
        BY <1>1, <1>4, <2>1, <2>4, <2>5
    <2>6. CASE Proceeds
        <3>1. wk.pc # "idle" /\ wk.wc = w
            BY <2>1, <2>6, WorkerKeeps
        <3> QED
            BY <1>1, <2>4, <2>6, <3>1, WorkerKeeps
    <2>7. CASE ListCluster
        <3>1. /\ wk.pc = "list" /\ wk.wc = w /\ wk'.valid = wk.valid /\ wk'.readiness = wk.readiness
              /\ ~wk.valid => wk'.pc = "open"
              /\ wk.valid => wk'.pc = "pods"
            BY <2>1, <2>3, <2>7, ListSteps
        <3>2. wk.valid \in BOOLEAN
            BY DEF TypeInv, TypeOK, Worker
        <3> QED
            BY <2>4, <3>1, <3>2
    <2>8. ASSUME NEW v \in WCs, BeginReconcile(v) PROVE Goal
        <3>1. /\ cwc[v].phase # "gone" /\ cwc' = cwc
              /\ wk'.pc = "list" /\ wk'.wc = v
              /\ wk'.valid = protectsPods(ValidatedReason(cwc, CachedEnforced, cns.guardrails, v), cns.guardrails)
              /\ wk'.readiness = Readiness(cwc[v].spec)
            BY <2>8 DEF BeginReconcile, Idle, cache
        <3>2. v = w /\ cwc[w].gen # 0
            BY <2>1, <3>1 DEF WCSync
        <3>3. cns.guardrails \in BOOLEAN /\ cwc \in [WCs -> WCObject]
            BY DEF TypeInv, TypeOK, NS
        <3>4. wk'.valid = (~cwc[w].spec.bad /\ cns.guardrails)
            BY <3>1, <3>2, <3>3, OneClassProtects
        <3> QED
            BY <1>1, <3>1, <3>2, <3>4
    <2> HIDE DEF Goal
    <2> QED
        BY <2>3, <2>5, <2>6, <2>7, <2>8, WorkerSteps
<1> QED
    BY <1>2, <1>3, <1>4

\* A running lease that reconcilePodPDB reads from a cache with no event under
\* way is still there, and may only have been prolonged, unless the class is
\* overridden or does not comply: the update that would have ended it changes
\* maxUnavailable, and so raises an event.
LeaseFresh ==
    \A n \in Pods, w \in WCs :
        pdbEvents[n] = {} /\ cpdb[n].holder # None /\ cpdb[n].expiry > now =>
            \/ cwc[w].gen # 0 /\ (cwc[w].spec.override \/ ~Compliant(w))
            \/ pdb[n].holder # None /\ pdb[n].expiry >= cpdb[n].expiry

\* Every step keeps LeaseFresh.
LEMMA LeaseFreshNext ==
    Steady /\ TypeInv /\ TypeInv' /\ CacheCoherent /\ PDBSync /\ WCSync /\ LeaseInv /\ LeaseShape /\ LeaseShape'
      /\ StaticInv /\ LeaseFresh /\ [Next]_vars => LeaseFresh'
<1> SUFFICES ASSUME Steady, TypeInv, TypeInv', CacheCoherent, PDBSync, WCSync, LeaseInv, LeaseShape, LeaseShape',
                    StaticInv, LeaseFresh, [Next]_vars, NEW n \in Pods, NEW w \in WCs,
                    pdbEvents'[n] = {}, cpdb'[n].holder # None, cpdb'[n].expiry > now'
             PROVE  \/ cwc'[w].gen # 0 /\ (cwc'[w].spec.override \/ ~Compliant(w)')
                    \/ pdb'[n].holder # None /\ pdb'[n].expiry >= cpdb'[n].expiry
    BY DEF LeaseFresh
<1>1. Static /\ OneClass
    <2>1. MaxEvictions # 0
        BY DEF LeaseShape, LeaseRec
    <2> QED
        BY <2>1 DEF Steady, Static
<1>2. now \in Nat /\ now <= now'
    <2>1. now \in Nat
        BY DEF TypeInv, TypeOK
    <2> QED
        BY <2>1, NowStep
<1>3. cwc[w].gen # 0 => cwc'[w].gen # 0 /\ cwc'[w].spec = cwc[w].spec
    <2>1. cwc[w].gen # 0 => wc[w].gen # 0 /\ wc[w].spec = cwc[w].spec
        BY <1>1 DEF StaticInv, Static
    <2> QED
        BY <2>1, WCStep DEF WCKept, WCWritten, WCDelivered
<1>4. cpdb'[n].expiry \in Nat /\ pdb[n].expiry \in Nat /\ pdb'[n].expiry \in Nat
    BY DEF TypeInv, TypeOK, PDB
<1>5. CASE PDBKept(n)
    <2>0. pdb'[n] = pdb[n] /\ cpdb'[n] = cpdb[n] /\ pdbEvents'[n] = pdbEvents[n]
        BY <1>5 DEF PDBKept
    <2>1. pdbEvents[n] = {} /\ cpdb[n].holder # None /\ cpdb[n].expiry > now
        <3>1. PICK t \in Nat : t = now'
            BY DEF TypeInv, TypeOK
        <3>2. PICK e \in Nat : e = cpdb'[n].expiry
            BY <1>4
        <3>3. e > t /\ now <= t /\ e = cpdb[n].expiry
            BY <1>2, <2>0, <3>1, <3>2
        <3>4. e > now
            BY <1>2, <3>3
        <3> QED
            BY <2>0, <3>3, <3>4
    <2>2. \/ cwc[w].gen # 0 /\ (cwc[w].spec.override \/ ~Compliant(w))
          \/ pdb[n].holder # None /\ pdb[n].expiry >= cpdb[n].expiry
        BY <2>1 DEF LeaseFresh
    <2> QED
        BY <1>3, <2>0, <2>2 DEF Compliant
<1>6. CASE PDBDelivered(n)
    BY <1>4, <1>6 DEF PDBDelivered
<1>7. CASE PDBWritten(n)
    <2>1. PICK new \in PDB : new = pdb'[n]
        BY DEF TypeInv, TypeOK
    <2>2. PDBWrite(n, new) /\ PDBEvent(pdb[n], new) = {} /\ cpdb'[n] = cpdb[n]
        BY <1>7, <2>1 DEF PDBWritten
    <2>3. Alike(pdb[n], new) /\ Exists(new) /\ Exists(pdb[n])
        BY <1>1, <2>2, PDBEventAlike DEF PDBSync, Alike, Exists
    <2>4. new # NoPDB /\ (Static => "pdb" \notin Kinds)
        BY <2>3 DEF Exists, NoPDB, Static
    <2>5. /\ cpdb[n] = pdb[n] /\ wk.wc \in WCs
          /\ \/ ApplyPod /\ wk.cur.name = n /\ new = WantedPDB
             \/ OpenOwned(n)
        BY <1>1, <2>2, <2>3, <2>4, Zenon DEF PDBWrite
    <2>6. wk.wc = w /\ pdb[n].open /\ pdb[n].expiry <= now + LeaseDuration
        BY <1>1, <2>2, <2>5 DEF OneClass, LeaseShape, LeaseRec
    <2>7. wk.pc # "idle" => /\ cwc[w].gen # 0 /\ wk.valid = Compliant(w)
                            /\ wk.readiness = Readiness(cwc[w].spec)
                            /\ wk.pc = "open" => ~wk.valid
        BY <1>1, <2>6 DEF StaticInv, Static
    <2>8. CASE OpenOwned(n)
        <3>1. wk.pc = "open"
            BY <2>8 DEF OpenOwned
        <3> QED
            BY <1>3, <2>7, <3>1 DEF Compliant
    <2>9. CASE ApplyPod /\ wk.cur.name = n /\ new = WantedPDB
        <3>1. wk.pc = "apply"
            BY <2>9 DEF ApplyPod
        <3>2. CASE wk.cur.op = "lease"
            <4>1. new.holder # None /\ new.expiry = now + LeaseDuration
                BY <2>9, <3>1, <3>2, WantedFields DEF LeaseInv
            <4> QED
                BY <1>4, <2>1, <2>2, <2>5, <2>6, <4>1
        <3>3. CASE wk.cur.op # "lease"
            <4>1. wk.readiness = "Ready"
                BY <2>3, <2>6, <2>9, <3>3, WantedFields DEF Alike
            <4> QED
                BY <1>3, <2>7, <3>1, <4>1 DEF Readiness
        <3> QED
            BY <3>2, <3>3
    <2> QED
        BY <2>5, <2>8, <2>9
<1> QED
    BY <1>5, <1>6, <1>7, PDBStep

\* The Pod a Reconcile call listed is the cached instance, and its pod-uid label
\* is still there.
Agree(g, c) == g.uid = c.uid /\ (g.uidLabel = g.uid => c.uidLabel = c.uid)

\* For a Pod that needs protection, while its class is not queued: the Pods still
\* to visit are as the caches say, and the Pod whose PDB is about to be written
\* is the stored instance and carries the label that the PDB will select.
TodoInv ==
    \A n \in Pods, w \in WCs : Needs(n, w) /\ w \notin queue =>
        /\ wk.pc \in {"pods", "apply"} /\ n \in wk.todo => Agree(wk.gov[n], cpod[n])
        /\ wk.pc = "apply" /\ wk.cur.name = n /\ podEvents[n] = {} =>
              wk.cur.pod.uid = pod[n].uid /\ pod[n].uidLabel = pod[n].uid

\* ensurePodUIDLabel: the Pod that reconcilePodPDB goes on with is the stored
\* instance, and it carries its pod-uid label.
LEMMA DecidedInstance ==
    ASSUME TypeInv, PodSync, NEW n \in Pods, DecidePod(n), Agree(wk.gov[n], cpod[n]),
           podEvents[n] = {}, Same(pod[n], pod'[n])
    PROVE  LabelledPod(n).uid = pod'[n].uid /\ pod'[n].uidLabel = pod'[n].uid
<1> DEFINE p == LabelledPod(n)
<1>1. Same(cpod[n], pod[n])
    BY DEF PodSync
<1>2. CASE wk.gov[n].uidLabel = wk.gov[n].uid
    BY <1>1, <1>2 DEF LabelledPod, Agree, Same
<1>3. CASE wk.gov[n].uidLabel # wk.gov[n].uid
    <2>1. pod'[n] = p
        BY <1>3 DEF DecidePod, SetPod, TypeInv, TypeOK
    <2>2. p.uid = pod[n].uid /\ p.uidLabel = wk.gov[n].uid
        BY <1>3 DEF LabelledPod, TypeInv, TypeOK, Pod
    <2> QED
        BY <1>1, <2>1, <2>2 DEF Agree, Same
<1> QED
    BY <1>2, <1>3

\* Every step keeps TodoInv.
LEMMA TodoNext ==
    OneClass /\ "relist" \notin Kinds /\ TypeInv /\ TypeInv' /\ PodSync /\ TodoInv /\ [Next]_vars => TodoInv'
<1> SUFFICES ASSUME OneClass, "relist" \notin Kinds, TypeInv, TypeInv', PodSync, TodoInv, [Next]_vars,
                    NEW n \in Pods, NEW w \in WCs, Needs(n, w)', w \notin queue'
             PROVE  /\ wk'.pc \in {"pods", "apply"} /\ n \in wk'.todo => Agree(wk'.gov[n], cpod'[n])
                    /\ wk'.pc = "apply" /\ wk'.cur.name = n /\ podEvents'[n] = {} =>
                          wk'.cur.pod.uid = pod'[n].uid /\ pod'[n].uidLabel = pod'[n].uid
    BY DEF TodoInv
<1> DEFINE Goal == /\ wk'.pc \in {"pods", "apply"} /\ n \in wk'.todo => Agree(wk'.gov[n], cpod'[n])
                   /\ wk'.pc = "apply" /\ wk'.cur.name = n /\ podEvents'[n] = {} =>
                         wk'.cur.pod.uid = pod'[n].uid /\ pod'[n].uidLabel = pod'[n].uid
<1> SUFFICES Goal
    OBVIOUS
<1>1. /\ w \in queue => wk'.pc = "list"
      /\ Needs(n, w) /\ Same(cpod[n], cpod'[n])
      /\ podEvents'[n] = {} => podEvents[n] = {} /\ Same(pod[n], pod'[n])
    BY NeedsStep
<1>2. CASE wk'.pc \notin {"pods", "apply"}
    BY <1>2
<1>3. w \notin queue /\ wk'.pc \in {"pods", "apply"} =>
          /\ wk.pc \in {"pods", "apply"} /\ n \in wk.todo => Agree(wk.gov[n], cpod[n])
          /\ wk.pc = "apply" /\ wk.cur.name = n /\ podEvents[n] = {} =>
                wk.cur.pod.uid = pod[n].uid /\ pod[n].uidLabel = pod[n].uid
    BY <1>1 DEF TodoInv
<1>4. ASSUME Agree(wk.gov[n], cpod[n]) PROVE Agree(wk.gov[n], cpod'[n])
    BY <1>1, <1>4 DEF Agree, Same
<1>5. CASE wk'.pc \in {"pods", "apply"} /\ wk' = wk
    BY <1>1, <1>3, <1>4, <1>5 DEF Same
<1>6. CASE wk'.pc \in {"pods", "apply"} /\ ListCluster
    <2>1. wk'.pc = "pods" /\ wk'.todo = GovernedBy(wk.wc, cwc, CachedEnforced, cns.cover)
          /\ wk'.gov = [m \in Pods |-> IF m \in wk'.todo THEN cpod[m] ELSE NoPod]
        BY <1>6, ListSteps DEF Idle
    <2>2. n \in wk'.todo => wk'.gov[n] = cpod[n]
        BY <2>1
    <2> QED
        BY <1>1, <2>1, <2>2 DEF Agree, Same
<1>7. CASE wk'.pc \in {"pods", "apply"} /\ Proceeds
    <2>1. /\ wk'.gov = wk.gov /\ wk.pc \in {"pods", "apply"}
          /\ wk'.todo \subseteq wk.todo
          /\ wk'.pc = "apply" => \E m \in Pods : DecidePod(m)
        BY <1>7, WorkerKeeps, TodoSteps
    <2>2. w \notin queue
        BY <1>1, <1>7
    <2>3. n \in wk'.todo => Agree(wk'.gov[n], cpod'[n])
        BY <1>3, <1>4, <1>7, <2>1, <2>2
    <2>4. ASSUME wk'.pc = "apply", wk'.cur.name = n, podEvents'[n] = {}
          PROVE  wk'.cur.pod.uid = pod'[n].uid /\ pod'[n].uidLabel = pod'[n].uid
        <3>1. PICK m \in Pods : DecidePod(m)
            BY <2>1, <2>4
        <3> DEFINE p == LabelledPod(m)
        <3>2. /\ wk.pc = "pods" /\ m \in wk.todo
              /\ \/ wk' = [wk EXCEPT !.todo = @ \ {m}, !.requeue = MinPositive(@, cpdb[m].expiry)]
                 \/ wk' = [wk EXCEPT !.todo = @ \ {m}, !.pc = "apply",
                                     !.cur = [name |-> m, pod |-> p, op |-> Decision(m, p)]]
            BY <3>1 DEF DecidePod
        <3>3. wk' = [wk EXCEPT !.todo = @ \ {m}, !.pc = "apply",
                               !.cur = [name |-> m, pod |-> p, op |-> Decision(m, p)]]
            BY <2>4, <3>2, ZenonT(30) DEF TypeInv, TypeOK, Worker
        <3>4. m = n /\ wk'.cur.pod = p
            BY <2>4, <3>3 DEF TypeInv, TypeOK, Worker
        <3>5. Agree(wk.gov[n], cpod[n]) /\ podEvents[n] = {} /\ Same(pod[n], pod'[n])
            BY <1>1, <1>3, <1>7, <2>2, <2>4, <3>2, <3>4
        <3> QED
            BY <3>1, <3>4, <3>5, DecidedInstance
    <2> QED
        BY <2>3, <2>4
<1>8. CASE ListFails \/ EndReconcile \/ Restart \/ \E v \in WCs : BeginReconcile(v)
    <2>1. wk'.pc \in {"idle", "list"}
        <3>1. ASSUME NEW v \in WCs, BeginReconcile(v) PROVE wk'.pc = "list"
            BY <3>1 DEF BeginReconcile, Idle
        <3> QED
            BY <1>8, <3>1 DEF ListFails, EndReconcile, Restart, Idle
    <2> QED
        BY <2>1
<1> HIDE DEF Goal
<1> QED
    BY <1>2, <1>5, <1>6, <1>7, <1>8, WorkerSteps

\* The call in progress will still sync the PDB of Pod n, or has failed and will
\* be repeated.
WillSync(n) ==
    \/ wk.pc = "list"
    \/ wk.pc # "idle" /\ wk.failed
    \/ wk.pc \in {"pods", "apply"} /\ n \in wk.todo
    \/ wk.pc = "apply" /\ wk.cur.name = n

\* A wake-up is set no later than e: the class' timer, or the RequeueAfter the
\* call in progress has collected.
Covered(w, e) ==
    \/ timer[w] # 0 /\ timer[w] <= e
    \/ wk.pc # "idle" /\ wk.requeue # 0 /\ wk.requeue <= e

\* The PDB of Pod n is what class w promises: its own, for the stored instance,
\* which carries the label, open exactly under the override or a lease with a
\* wake-up set no later than its end.
InPlace(n, w) ==
    /\ pdb[n].owner = w /\ pdb[n].uid = pod[n].uid
    /\ pod[n].uidLabel = pod[n].uid
    /\ cwc[w].spec.override => pdb[n].open
    /\ pdb[n].open => cwc[w].spec.override \/ (pdb[n].holder # None /\ Covered(w, pdb[n].expiry))

\* A Pod that needs protection, and owes no event, has it or will get it: its
\* class is queued, an event of its PDB is under way, the call in progress has it
\* before it, or its PDB is in place.
SyncInv ==
    \A n \in Pods, w \in WCs : Needs(n, w) /\ podEvents[n] = {} =>
        w \in queue \/ pdbEvents[n] # {} \/ WillSync(n) \/ InPlace(n, w)

\* A running lease read from the cache stands on the PDB of the class, and the
\* PDB is open with a lease that lasts as long, or the class is overridden.
LEMMA CachedLeaseHolds ==
    ASSUME Steady, TypeInv, PDBSync, LeaseShape, StaticInv, LeaseFresh, NEW n \in Pods, NEW w \in WCs,
           Needs(n, w), pdbEvents[n] = {}, cpdb[n].holder # None, cpdb[n].expiry > now
    PROVE  /\ pdb[n].owner = w /\ pdb[n].uid = cpdb[n].uid /\ pdb[n].open
           /\ cwc[w].spec.override \/ (pdb[n].holder # None /\ pdb[n].expiry >= cpdb[n].expiry)
<1>1. MaxEvictions # 0 /\ cpdb[n].open /\ cpdb[n].owner \in WCs
    BY DEF LeaseShape, LeaseRec
<1>2. OneClass /\ Static
    BY <1>1 DEF Steady, Static
<1>3. Alike(cpdb[n], pdb[n]) /\ cpdb[n].owner = w
    BY <1>1, <1>2 DEF PDBSync, OneClass
<1>4. Compliant(w)
    <2>1. cns.guardrails = InitialNS.guardrails
        BY <1>2 DEF StaticInv, Static
    <2>2. CachedProtects(w) /\ cns.guardrails \in BOOLEAN /\ cwc \in [WCs -> WCObject]
        BY DEF Needs, TypeInv, TypeOK, NS
    <2>3. ~cwc[w].spec.bad /\ cns.guardrails
        BY <1>2, <2>2, OneClassProtects DEF CachedProtects
    <2> QED
        BY <2>1, <2>3 DEF Compliant
<1> QED
    BY <1>1, <1>3, <1>4 DEF LeaseFresh, Alike

\* reconcilePodPDB leaves a PDB as it is only on a running lease of the Pod
\* instance.
LEMMA KeptLease ==
    ASSUME TypeInv, NEW n \in Pods, NEW p, Decision(n, p) = "kept"
    PROVE  cpdb[n].uid = p.uid /\ cpdb[n].holder # None /\ cpdb[n].expiry > now
<1>1. cpdb[n].expiry \in Nat /\ now \in Nat
    BY DEF TypeInv, TypeOK, PDB
<1>2. \/ SubjectAlreadyLeasing(cpdb[n], p, wk.leases[n].subject, now)
      \/ LeaseActive(cpdb[n], p, now)
    BY DEF Decision
<1> QED
    BY <1>1, <1>2 DEF SubjectAlreadyLeasing, LeaseActive, LeaseExpired

\* Without an event, only the reconcile of the class writes the PDB of Pod n.
LEMMA ProtectedPDBStep ==
    ASSUME OneClass, TypeInv, TypeInv', CacheCoherent, PDBSync, [Next]_vars, NEW n \in Pods,
           pdbEvents'[n] = {}, wk.pc # "open"
    PROVE  pdb'[n] = pdb[n] \/ (ApplyPod /\ wk.cur.name = n)
<1>1. CASE PDBKept(n) \/ PDBDelivered(n)
    BY <1>1 DEF PDBKept, PDBDelivered
<1>2. CASE PDBWritten(n)
    <2>1. PICK new \in PDB : new = pdb'[n]
        BY DEF TypeInv, TypeOK
    <2>2. PDBWrite(n, new) /\ PDBEvent(pdb[n], new) = {}
        BY <1>2, <2>1 DEF PDBWritten
    <2>3. Alike(pdb[n], new) /\ Exists(new) /\ Exists(pdb[n])
        BY <2>2, PDBEventAlike DEF PDBSync, Alike, Exists
    <2>4. new # NoPDB /\ new # [pdb[n] EXCEPT !.open = ~@]
        BY <2>1, <2>3 DEF Exists, NoPDB, Alike, TypeInv, TypeOK, PDB
    <2>5. ~OpenOwned(n)
        BY DEF OpenOwned
    <2> QED
        BY <2>2, <2>3, <2>4, <2>5, Zenon DEF PDBWrite
<1> QED
    BY <1>1, <1>2, PDBStep

\* minPositiveDuration is no later than either instant that is set.
LEMMA EarliestCovers ==
    ASSUME NEW a \in Nat, NEW b \in Nat \ {0}, NEW e \in Nat, b <= e
    PROVE  MinPositive(a, b) # 0 /\ MinPositive(a, b) <= e /\ MinPositive(b, a) # 0 /\ MinPositive(b, a) <= e
BY DEF MinPositive

\* reconcilePodPDB up to its decision: a write is decided, or the PDB kept is in
\* place and the wake-up is set.
LEMMA DecideKeeps ==
    ASSUME Steady, TypeInv, TypeInv', PodSync, PDBSync, LeaseShape, StaticInv, LeaseFresh,
           NEW n \in Pods, NEW w \in WCs, Needs(n, w), cwc' = cwc, DecidePod(n), Agree(wk.gov[n], cpod[n]),
           podEvents[n] = {}, Same(pod[n], pod'[n]), pdbEvents[n] = {}
    PROVE  WillSync(n)' \/ InPlace(n, w)'
<1> DEFINE p == LabelledPod(n)
<1>1. /\ p.uid = pod'[n].uid /\ pod'[n].uidLabel = pod'[n].uid
      /\ pdb' = pdb /\ wk.pc = "pods"
    BY DecidedInstance DEF DecidePod, pdbVars
<1>2. CASE Decision(n, p) # "kept"
    <2>1. wk' = [wk EXCEPT !.todo = @ \ {n}, !.pc = "apply",
                           !.cur = [name |-> n, pod |-> p, op |-> Decision(n, p)]]
        BY <1>2 DEF DecidePod
    <2>2. wk'.pc = "apply" /\ wk'.cur.name = n
        BY <2>1 DEF TypeInv, TypeOK, Worker
    <2> QED
        BY <2>2 DEF WillSync
<1>3. CASE Decision(n, p) = "kept"
    <2>1. cpdb[n].uid = p.uid /\ cpdb[n].holder # None /\ cpdb[n].expiry > now
        BY <1>3, KeptLease
    <2>2. /\ pdb[n].owner = w /\ pdb[n].uid = cpdb[n].uid /\ pdb[n].open
          /\ cwc[w].spec.override \/ (pdb[n].holder # None /\ pdb[n].expiry >= cpdb[n].expiry)
        BY <2>1, CachedLeaseHolds
    <2>3. wk' = [wk EXCEPT !.todo = @ \ {n}, !.requeue = MinPositive(@, cpdb[n].expiry)]
        BY <1>3 DEF DecidePod
    <2>4. wk'.pc = "pods" /\ wk'.requeue = MinPositive(wk.requeue, cpdb[n].expiry)
        BY <1>1, <2>3 DEF TypeInv, TypeOK, Worker
    <2>5. wk.requeue \in Nat /\ cpdb[n].expiry \in Nat \ {0} /\ pdb[n].expiry \in Nat
        BY <2>1 DEF TypeInv, TypeOK, Worker, PDB
    <2>6. pdb[n].expiry >= cpdb[n].expiry => Covered(w, pdb[n].expiry)'
        <3>1. PICK e \in Nat : e = pdb[n].expiry /\ e = pdb'[n].expiry
            BY <1>1, <2>5
        <3>2. e >= cpdb[n].expiry => wk'.requeue # 0 /\ wk'.requeue <= e
            BY <2>4, <2>5, EarliestCovers
        <3> QED
            BY <2>4, <3>1, <3>2 DEF Covered
    <2> QED
        BY <1>1, <2>1, <2>2, <2>6 DEF InPlace
<1> QED
    BY <1>2, <1>3

\* leasePodPDB and syncPodPDB put the PDB in place, also when CreateOrUpdate
\* finds nothing to write.
LEMMA ApplyKeeps ==
    ASSUME Steady, TypeInv, TypeInv', PDBSync, LeaseInv, LeaseShape, StaticInv, LeaseFresh,
           NEW n \in Pods, NEW w \in WCs, Needs(n, w), cwc' = cwc, ApplyPod, wk.cur.name = n, wk.wc = w,
           wk.readiness = Readiness(cwc[w].spec), pdbEvents[n] = {},
           wk.cur.pod.uid = pod[n].uid, pod[n].uidLabel = pod[n].uid
    PROVE  InPlace(n, w)'
<1>1. /\ wk.pc = "apply" /\ pod' = pod /\ WritePDB(n, WantedPDB)
      /\ wk' = [wk EXCEPT !.pc = "pods", !.cur = NoCur,
                          !.requeue = IF wk.cur.op = "lease" THEN MinPositive(@, now + LeaseDuration) ELSE @]
    BY DEF ApplyPod, podVars
<1>2. /\ wk'.pc = "pods"
      /\ wk.cur.op = "lease" => wk'.requeue = MinPositive(wk.requeue, now + LeaseDuration)
    BY <1>1 DEF TypeInv, TypeOK, Worker
<1>3. \/ cpdb[n] = WantedPDB /\ pdb'[n] = pdb[n]
      \/ pdb'[n] = WantedPDB
    BY <1>1 DEF WritePDB, SetPDB, pdbVars, TypeInv, TypeOK
<1>4. Alike(cpdb[n], pdb[n])
    BY DEF PDBSync
<1>5. pdb'[n].owner = w /\ pdb'[n].uid = pod'[n].uid /\ pdb'[n].open = WantedPDB.open
    BY <1>1, <1>3, <1>4, WantedFields DEF Alike
<1>6. CASE wk.cur.op # "lease"
    <2>1. WantedPDB.open = cwc[w].spec.override
        <3>1. cwc[w].spec.override \in BOOLEAN
            BY DEF TypeInv, TypeOK, WCObject, WCSpec
        <3> QED
            BY <1>6, <3>1, WantedFields DEF Readiness
    <2> QED
        BY <1>1, <1>5, <2>1 DEF InPlace
<1>7. CASE wk.cur.op = "lease"
    <2>1. /\ WantedPDB.open /\ WantedPDB.holder # None /\ WantedPDB.expiry = now + LeaseDuration
        BY <1>1, <1>7, WantedFields DEF LeaseInv
    <2>2. /\ wk.requeue \in Nat /\ now + LeaseDuration \in Nat \ {0} /\ now + LeaseDuration > now
          /\ pdb'[n].expiry \in Nat
        BY LeaseDurationAssumption DEF TypeInv, TypeOK, Worker, PDB
    <2>3. \/ cwc[w].spec.override
          \/ pdb'[n].holder # None /\ pdb'[n].expiry >= now + LeaseDuration
        <3>1. CASE pdb'[n] = WantedPDB
            BY <2>1, <2>2, <3>1
        <3>2. CASE cpdb[n] = WantedPDB /\ pdb'[n] = pdb[n]
            <4>1. cpdb[n].holder # None /\ cpdb[n].expiry > now
                BY <2>1, <2>2, <3>2
            <4> QED
                BY <2>1, <3>2, <4>1, CachedLeaseHolds
        <3> QED
            BY <1>3, <3>1, <3>2
    <2>4. pdb'[n].expiry >= now + LeaseDuration => Covered(w, pdb[n].expiry)'
        <3>1. PICK e \in Nat : e = pdb'[n].expiry
            BY <2>2
        <3>2. e >= now + LeaseDuration => wk'.requeue # 0 /\ wk'.requeue <= e
            BY <1>2, <1>7, <2>2, EarliestCovers
        <3> QED
            BY <1>2, <3>1, <3>2 DEF Covered
    <2> QED
        BY <1>1, <1>5, <2>1, <2>3, <2>4 DEF InPlace
<1> QED
    BY <1>6, <1>7

\* A PDB stays in place while it, its Pod and its class stay and the wake-up is
\* not postponed.
LEMMA InPlaceKept ==
    ASSUME NEW n \in Pods, NEW w \in WCs, InPlace(n, w), cwc' = cwc, pdb'[n] = pdb[n], Same(pod[n], pod'[n]),
           Covered(w, pdb[n].expiry) => Covered(w, pdb[n].expiry)'
    PROVE  InPlace(n, w)'
BY DEF InPlace, Same

\* Where a call can go from its Pod loop, and that a failure there is collected.
LEMMA ProceedSteps ==
    ASSUME TypeInv, Proceeds
    PROVE  /\ wk.pc = "apply" => ApplyPod \/ ApplyFails
           /\ wk.pc = "pods" /\ wk'.pc = "owned" => BeginOwned
           /\ ApplyFails => wk'.failed /\ wk'.pc # "idle"
           /\ \A n \in Pods : LabelFails(n) => wk'.failed /\ wk'.pc # "idle"
<1>1. wk.pc = "apply" => ApplyPod \/ ApplyFails
    BY DEF Proceeds, BeginOwned, DecidePod, LabelFails, VisitOwned, OpenOwned, OwnedFails
<1>2. ASSUME wk.pc = "pods", wk'.pc = "owned" PROVE BeginOwned
    <2>1. ASSUME NEW n \in Pods, DecidePod(n) \/ LabelFails(n) PROVE FALSE
        <3>1. CASE LabelFails(n)
            BY <1>2, <3>1 DEF LabelFails, TypeInv, TypeOK, Worker
        <3>2. CASE DecidePod(n)
            <4>1. \/ wk' = [wk EXCEPT !.todo = @ \ {n}, !.requeue = MinPositive(@, cpdb[n].expiry)]
                  \/ wk' = [wk EXCEPT !.todo = @ \ {n}, !.pc = "apply",
                                      !.cur = [name |-> n, pod |-> LabelledPod(n), op |-> Decision(n, LabelledPod(n))]]
                BY <3>2 DEF DecidePod
            <4> QED
                BY <1>2, <4>1 DEF TypeInv, TypeOK, Worker
        <3> QED
            BY <2>1, <3>1, <3>2
    <2> QED
        BY <1>2, <2>1 DEF Proceeds, ApplyPod, ApplyFails, VisitOwned, OpenOwned, OwnedFails
<1>3. ApplyFails => wk'.failed /\ wk'.pc # "idle"
    BY DEF ApplyFails, TypeInv, TypeOK, Worker
<1>4. ASSUME NEW n \in Pods, LabelFails(n) PROVE wk'.failed /\ wk'.pc # "idle"
    BY <1>4 DEF LabelFails, TypeInv, TypeOK, Worker
<1> QED
    BY <1>1, <1>2, <1>3, <1>4

\* Every step keeps SyncInv: one case for each way the worker moves, with the
\* Pod's PDB as it was or just written.
LEMMA SyncNext ==
    Steady /\ TypeInv /\ TypeInv' /\ CacheCoherent /\ PodSync /\ PDBSync /\ SnapInv /\ LeaseInv /\ LeaseShape
      /\ StaticInv /\ LeaseFresh /\ TodoInv /\ SyncInv /\ [Next]_vars => SyncInv'
<1> SUFFICES ASSUME Steady, TypeInv, TypeInv', CacheCoherent, PodSync, PDBSync, SnapInv, LeaseInv, LeaseShape,
                    StaticInv, LeaseFresh, TodoInv, SyncInv, [Next]_vars,
                    NEW n \in Pods, NEW w \in WCs, Needs(n, w)', podEvents'[n] = {},
                    w \notin queue', pdbEvents'[n] = {}
             PROVE  WillSync(n)' \/ InPlace(n, w)'
    BY DEF SyncInv
<1> DEFINE Goal == WillSync(n)' \/ InPlace(n, w)'
<1> SUFFICES Goal
    OBVIOUS
<1>1. OneClass /\ "relist" \notin Kinds
    BY DEF Steady
<1>2. /\ cwc' = cwc /\ cns' = cns /\ cwc[w].phase = "live"
      /\ w \in queue => wk'.pc = "list"
      /\ pdbEvents[n] = {}
      /\ timer'[w] # timer[w] => EndReconcile
      /\ Needs(n, w) /\ podEvents[n] = {} /\ Same(pod[n], pod'[n])
    BY <1>1, NeedsStep
<1>3. CASE w \in queue
    BY <1>2, <1>3 DEF WillSync
<1>4. ASSUME w \notin queue PROVE Goal
    <2>1. WillSync(n) \/ InPlace(n, w)
        BY <1>2, <1>4 DEF SyncInv
    <2>2. ASSUME wk.pc # "idle"
          PROVE  /\ wk.wc = w /\ wk.valid /\ wk.pc # "open" /\ wk.phase = "live"
                 /\ wk.readiness = Readiness(cwc[w].spec)
        <3>1. wk.wc = w
            BY <1>1, <2>2 DEF OneClass, TypeInv, WorkerOK
        <3>2. Snapshot(w) /\ CachedProtects(w)
            BY <1>2, <1>4, <2>2, <3>1 DEF SnapInv, Needs
        <3> QED
            BY <1>2, <3>1, <3>2 DEF Snapshot
    <2>3. pdb'[n] = pdb[n] \/ (ApplyPod /\ wk.cur.name = n)
        BY <1>1, <2>2, ProtectedPDBStep
    <2>4. /\ wk.pc \in {"pods", "apply"} /\ n \in wk.todo => Agree(wk.gov[n], cpod[n])
          /\ wk.pc = "apply" /\ wk.cur.name = n => wk.cur.pod.uid = pod[n].uid /\ pod[n].uidLabel = pod[n].uid
        BY <1>2, <1>4 DEF TodoInv
    <2>5. CASE wk' = wk
        <3>1. ~ApplyPod
            BY <2>5 DEF ApplyPod, TypeInv, TypeOK, Worker
        <3>2. timer'[w] = timer[w]
            BY <1>2, <2>5 DEF EndReconcile, Idle
        <3>3. WillSync(n) => WillSync(n)'
            BY <2>5 DEF WillSync
        <3>4. Covered(w, pdb[n].expiry) => Covered(w, pdb[n].expiry)'
            BY <2>3, <2>5, <3>1, <3>2 DEF Covered
        <3> QED
            BY <1>2, <2>1, <2>3, <3>1, <3>3, <3>4, InPlaceKept
    <2>6. CASE ListCluster
        <3>1. wk.pc = "list" /\ wk.wc = w /\ wk.valid /\ wk.phase = "live"
            BY <2>2, <2>6 DEF ListCluster
        <3>2. wk'.pc = "pods" /\ wk'.todo = GovernedBy(w, cwc, CachedEnforced, cns.cover)
            BY <2>6, <3>1, ListSteps
        <3> QED
            BY <1>2, <3>2 DEF WillSync, Needs
    <2>7. CASE ListFails
        BY <2>2, <2>7 DEF ListFails
    <2>8. CASE Restart
        BY <1>2, <2>8 DEF Restart, RequestsInNamespace
    <2>9. CASE EndReconcile
        <3>1. wk.wc = w /\ wk.pc = "owned" /\ ~wk.failed /\ timer' = [timer EXCEPT ![w] = MinPositive(@, wk.requeue)]
            BY <2>2, <2>9 DEF EndReconcile
        <3>2. InPlace(n, w) /\ pdb'[n] = pdb[n]
            BY <2>1, <2>3, <3>1 DEF WillSync, ApplyPod
        <3>3. timer[w] \in Nat /\ wk.requeue \in Nat /\ pdb[n].expiry \in Nat
              /\ timer'[w] = MinPositive(timer[w], wk.requeue)
            BY <3>1 DEF TypeInv, TypeOK, Worker, PDB
        <3>4. ASSUME Covered(w, pdb[n].expiry) PROVE Covered(w, pdb[n].expiry)'
            <4>1. timer'[w] # 0 /\ timer'[w] <= pdb[n].expiry
                BY <3>3, <3>4, EarliestCovers DEF Covered
            <4> QED
                BY <3>2, <4>1 DEF Covered
        <3> QED
            BY <1>2, <3>2, <3>4, InPlaceKept
    <2>10. ASSUME NEW v \in WCs, BeginReconcile(v) PROVE Goal
        <3>1. wk'.pc = "list"
            BY <2>10 DEF BeginReconcile, Idle
        <3> QED
            BY <3>1 DEF WillSync
    <2>11. CASE Proceeds
        <3>1. /\ wk.pc \in {"pods", "apply", "owned", "open"} /\ wk'.pc # "idle"
              /\ wk.failed => wk'.failed
              /\ wk.pc \in {"pods", "apply"} => wk'.pc \in {"pods", "apply", "owned"}
              /\ wk.pc = "apply" => wk'.pc = "pods"
            BY <2>11, WorkerKeeps
        <3>2. CASE wk'.failed
            BY <3>1, <3>2 DEF WillSync
        <3>3. CASE wk.pc = "apply" /\ wk.cur.name = n
            <4>1. CASE ApplyPod
                BY <1>2, <2>2, <2>4, <3>1, <3>3, <4>1, ApplyKeeps
            <4> QED
                BY <2>11, <3>2, <3>3, <4>1, ProceedSteps
        <3>4. CASE wk.pc \in {"pods", "apply"} /\ n \in wk.todo
            <4>1. wk'.pc \in {"pods", "apply"}
                <5>1. wk'.pc # "owned"
                    BY <2>11, <3>1, <3>4, ProceedSteps DEF BeginOwned
                <5> QED
                    BY <3>1, <3>4, <5>1
            <4>2. CASE n \in wk'.todo
                BY <4>1, <4>2 DEF WillSync
            <4>3. CASE DecidePod(n)
                BY <1>2, <2>4, <3>4, <4>3, DecideKeeps
            <4>4. CASE LabelFails(n)
                BY <2>11, <3>2, <4>4, ProceedSteps
            <4> HIDE DEF Goal
            <4> QED
                BY <2>11, <3>4, <4>1, <4>2, <4>3, <4>4, TodoSteps
        <3>5. CASE InPlace(n, w) /\ pdb'[n] = pdb[n]
            <4>1. timer'[w] = timer[w] \/ EndReconcile
                BY <1>2
            <4>2. CASE timer'[w] = timer[w]
                <5>1. pdb[n].expiry \in Nat
                    BY DEF TypeInv, TypeOK, PDB
                <5>2. Covered(w, pdb[n].expiry) => Covered(w, pdb[n].expiry)'
                    BY <2>11, <3>1, <3>5, <4>2, <5>1, RequeueSteps DEF Covered
                <5> QED
                    BY <1>2, <3>5, <5>2, InPlaceKept
            <4> HIDE DEF Goal
            <4> QED
                BY <2>9, <4>1, <4>2
        <3>6. WillSync(n) => \/ wk'.failed
                             \/ wk.pc \in {"pods", "apply"} /\ n \in wk.todo
                             \/ wk.pc = "apply" /\ wk.cur.name = n
            BY <3>1 DEF WillSync
        <3>7. ApplyPod => wk.pc = "apply"
            BY DEF ApplyPod
        <3> HIDE DEF Goal
        <3> QED
            BY <2>1, <2>3, <3>2, <3>3, <3>4, <3>5, <3>6, <3>7
    <2> HIDE DEF Goal
    <2> QED
        BY <2>5, <2>6, <2>7, <2>8, <2>9, <2>10, <2>11, WorkerSteps
<1> QED
    BY <1>3, <1>4

\* The inductive invariant behind ProtectedWhenQuiescent.
ProtectInv ==
    QuietInv /\ LeaseInv /\ LeaseShape /\ StaticInv /\ LeaseFresh /\ TodoInv /\ SyncInv

\* It holds at the start, where every class is queued.
LEMMA ProtectInit == Init => ProtectInv
<1> SUFFICES ASSUME Init PROVE ProtectInv
    OBVIOUS
<1>1. QuietInv
    BY QuietInit
<1>2. LeaseInv
    BY DEF Init, LeaseInv, WasAsked, LeaseWasRequested, NoPDB, Idle, NoRequest
<1>3. LeaseShape
    BY LeaseDurationAssumption DEF Init, LeaseShape, LeaseRec, NoPDB
<1>4. StaticInv
    BY DEF Init, StaticInv, Idle
<1>5. LeaseFresh
    BY DEF Init, LeaseFresh, NoPDB
<1>6. TodoInv
    BY DEF Init, TodoInv, Idle
<1>7. SyncInv
    <2>1. ASSUME NEW n \in Pods, NEW w \in WCs, Needs(n, w) PROVE w \in queue
        <3>1. cwc[w].phase = "live"
            BY <2>1, BestLive DEF Needs, GovernedBy, CachedEnforced
        <3> QED
            BY <3>1 DEF Init, NoWC
    <2> QED
        BY <2>1 DEF SyncInv
<1> QED
    BY <1>1, <1>2, <1>3, <1>4, <1>5, <1>6, <1>7 DEF ProtectInv

\* Every step keeps it.
LEMMA ProtectNext == Steady /\ ProtectInv /\ [Next]_vars => ProtectInv'
<1> SUFFICES ASSUME Steady, ProtectInv, [Next]_vars PROVE ProtectInv'
    OBVIOUS
<1>1. OneClass /\ "relist" \notin Kinds
    BY DEF Steady
<1>2. QuietInv /\ QuietInv'
    BY <1>1, QuietNext DEF ProtectInv
<1>3. /\ TypeInv /\ TypeInv' /\ CacheCoherent /\ PodSync /\ PDBSync /\ WCSync /\ SnapInv
      /\ LeaseInv /\ LeaseShape /\ StaticInv /\ LeaseFresh /\ TodoInv /\ SyncInv
    BY <1>2 DEF QuietInv, ProtectInv
<1>4. LeaseInv' /\ LeaseShape' /\ StaticInv'
    BY <1>1, <1>3, LeaseInvNext, LeaseShapeNext, StaticNext
<1>5. LeaseFresh'
    BY <1>3, <1>4, LeaseFreshNext
<1>6. TodoInv' /\ SyncInv'
    BY <1>1, <1>3, TodoNext, SyncNext
<1> QED
    BY <1>2, <1>4, <1>5, <1>6 DEF ProtectInv

\* When the controller has nothing left to do, every Pod that needs a PDB has it
\* in place, and a wake-up still ahead means that the lease is still running.
LEMMA ProtectHolds == OneClass /\ ProtectInv => ProtectedWhenQuiescent
<1> SUFFICES ASSUME OneClass, ProtectInv, Quiescent, NEW n \in Pods, NeedsPDB(n)
             PROVE  /\ IsWorkloadClassManagedPDB(pdb[n])
                    /\ pdb[n].uid = pod[n].uid /\ pod[n].uidLabel = pod[n].uid
                    /\ pdb[n].open <=> (wc[Governor(n)].spec.override \/ LeaseActive(pdb[n], pod[n], now))
    BY DEF ProtectedWhenQuiescent
<1>1. TypeInv /\ PDBSync /\ WCSync /\ LeaseShape /\ SyncInv
    BY DEF ProtectInv, QuietInv
<1>2. /\ wk.pc = "idle" /\ queue = {} /\ cpod = pod /\ cns = ns
      /\ ~pdbStale[n] /\ podEvents[n] = {}
      /\ \A w \in WCs : cwc[w] = wc[w] /\ (timer[w] = 0 \/ timer[w] > now)
    BY <1>1 DEF Quiescent, WCSync
<1>3. cwc = wc /\ pdbEvents[n] = {}
    BY <1>1, <1>2 DEF TypeInv, TypeOK, PDBSync
<1>4. PICK w \in WCs : w = Governor(n)
    <2>1. Governor(n) \in WCs \cup {None}
        BY BestType, EnforcedType DEF Governor
    <2> QED
        BY <2>1 DEF NeedsPDB
<1>5. Needs(n, w)
    <2>1. Protects(w) = CachedProtects(w)
        BY <1>2, <1>3 DEF Protects, CachedProtects, CachedEnforced
    <2>2. n \in GovernedBy(w, cwc, CachedEnforced, cns.cover)
        BY <1>2, <1>3, <1>4 DEF NeedsPDB, GovernedBy, CachedEnforced, Governor
    <2> QED
        BY <1>4, <2>1, <2>2 DEF Needs, NeedsPDB
<1>6. InPlace(n, w)
    BY <1>1, <1>2, <1>3, <1>5 DEF SyncInv, WillSync
<1>7. /\ pdb[n].owner = w /\ pdb[n].uid = pod[n].uid /\ pod[n].uidLabel = pod[n].uid
      /\ wc[w].spec.override => pdb[n].open
      /\ pdb[n].open => \/ wc[w].spec.override
                        \/ pdb[n].holder # None /\ timer[w] # 0 /\ timer[w] <= pdb[n].expiry
    BY <1>2, <1>3, <1>6 DEF InPlace, Covered
<1>8. /\ pdb[n].holder # None => pdb[n].open
      /\ pdb[n].expiry \in Nat /\ timer[w] \in Nat /\ now \in Nat
      /\ timer[w] = 0 \/ timer[w] > now
    BY <1>1, <1>2 DEF LeaseShape, LeaseRec, TypeInv, TypeOK, PDB
<1>9. pdb[n].open => wc[w].spec.override \/ LeaseActive(pdb[n], pod[n], now)
    BY <1>7, <1>8, DistinctNames DEF LeaseActive, LeaseExpired, Exists
<1>10. LeaseActive(pdb[n], pod[n], now) => pdb[n].open
    BY <1>8 DEF LeaseActive
<1> QED
    BY <1>4, <1>7, <1>9, <1>10 DEF IsWorkloadClassManagedPDB

\* In a namespace with one WorkloadClass, for any number of Pods, subjects,
\* faults and restarts, and where no Pod is replaced during a lost watch: once
\* the controller has nothing left to do, every active Pod that the complying
\* class governs has a managed PDB for this very instance, carries the label that
\* the PDB selects, and the PDB is open exactly under the override or while a
\* lease runs. Either nobody evicts, and users may change anything, or evictions
\* and leases come in any number and users leave PDBs, spec and guardrails alone
\* (reconcilePDBs, reconcilePodPDB, RequeueAfter).
THEOREM ControllerProtectedWhenQuiescent == Steady => (Spec => []ProtectedWhenQuiescent)
<1> SUFFICES ASSUME Steady PROVE Spec => []ProtectedWhenQuiescent
    OBVIOUS
<1>1. Init => ProtectInv
    BY ProtectInit
<1>2. ProtectInv /\ [Next]_vars => ProtectInv'
    BY ProtectNext
<1>3. ProtectInv => ProtectedWhenQuiescent
    BY ProtectHolds DEF Steady
<1> QED
    BY <1>1, <1>2, <1>3, PTL DEF Spec
=============================================================================
