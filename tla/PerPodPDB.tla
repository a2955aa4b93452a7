----------------------------- MODULE PerPodPDB -----------------------------
(***************************************************************************)
(* The data of one namespace as the WorkloadClass controller and the       *)
(* disruption webhook see it, and the pure functions they compute on it:   *)
(* which WorkloadClass governs a Pod (internal/utils/workloadclass.go),    *)
(* when its Validated condition protects Pods, and how a per-Pod           *)
(* PodDisruptionBudget is synced and leased (internal/utils/pdb.go).       *)
(*                                                                         *)
(* A Pod's labels (other than pod-uid) are one member of Labels, so a      *)
(* selector is the set of Labels it matches.  Instants are naturals.  An   *)
(* object that does not exist is a record of the same shape (uid 0, owner  *)
(* None, phase "gone").                                                    *)
(***************************************************************************)
EXTENDS Integers, FiniteSets, LeaseRequest

CONSTANTS
    Pods,           \* Pod names; the PDB of Pod n is named workload-n
    WCs,            \* WorkloadClass names of the namespace
    Labels,         \* abstract label sets of a Pod
    User,           \* the owner of a PDB no WorkloadClass manages
    Age,            \* creation order of the WorkloadClasses, oldest first
    LeaseDuration   \* LeaseDurationForPod: the Pod's grace period, or 30s

ASSUME DistinctNames ==
    /\ None \notin WCs \cup Subjects \cup Labels
    /\ User \notin WCs
    /\ User # None

ASSUME AgeAssumption == Age \in [WCs -> Nat]

ASSUME LeaseDurationAssumption == LeaseDuration \in Nat \ {0}

-----------------------------------------------------------------------------
\* uid 0: no such Pod.  uidLabel is the workloads.gke.io/pod-uid label, 0 if
\* absent; active is IsPodActive.
Pod == [uid : Nat, active : BOOLEAN, lbl : Labels \cup {None}, uidLabel : Nat]

NoPod == [uid |-> 0, active |-> FALSE, lbl |-> None, uidLabel |-> 0]

\* uid is both the PDB's pod-uid label and its selector, open is
\* maxUnavailable = 100%, holder and expiry are the two bypass annotations.
PDB == [owner : WCs \cup {User, None}, uid : Nat, open : BOOLEAN,
        holder : Subjects \cup {None}, expiry : Nat]

NoPDB == [owner |-> None, uid |-> 0, open |-> FALSE, holder |-> None, expiry |-> 0]

\* A spec: its selector, the selector's specificity, the emergency override,
\* and whether it breaks the guardrail whenever one exists.
WCSpec == [sel : SUBSET Labels, specificity : Nat, override : BOOLEAN, bad : BOOLEAN]

Reasons == {"ValidationPassed", "ValidationFailed", "SelectorOverlap", "NoGuardrails"}

\* A WorkloadClass: spec and generation, and the status the controller
\* writes (reason and observedGeneration of Validated, maintenanceReadiness).
WCObject == [phase : {"live", "deleting", "gone"}, spec : WCSpec, gen : Nat,
             reason : Reasons \cup {None}, obs : Nat,
             readiness : {"Ready", "NotReady", None}]

-----------------------------------------------------------------------------
\* NamespaceEnforcedWorkloadClass: the class the namespace label names, unless
\* it does not exist or is being deleted.
NamespaceEnforcedWorkloadClass(wcs, label) ==
    IF label \in WCs /\ wcs[label].phase = "live" THEN label ELSE None

\* updateBestMatch: more specific, or equally specific and older.
Better(wcs, v, w) ==
    \/ wcs[v].spec.specificity > wcs[w].spec.specificity
    \/ wcs[v].spec.specificity = wcs[w].spec.specificity /\ Age[v] < Age[w]

\* selectBestMatchFromList: the classes the loop may end with.  Several only
\* if they tie in specificity and in age, and then the list order decides.
BestMatches(wcs, lbl) ==
    LET matching == {w \in WCs : wcs[w].phase = "live" /\ lbl \in wcs[w].spec.sel}
    IN  {w \in matching : \A v \in matching : ~Better(wcs, v, w)}

BestMatchWorkloadClassForPod(wcs, enforcedWC, lbl) ==
    IF enforcedWC # None THEN enforcedWC
    ELSE IF BestMatches(wcs, lbl) = {} THEN None
    ELSE CHOOSE w \in BestMatches(wcs, lbl) : TRUE

-----------------------------------------------------------------------------
\* overlappingWorkloadClasses: nobody overlaps where a class is enforced.
Overlaps(wcs, enforcedWC, w) ==
    /\ enforcedWC = None
    /\ \E v \in WCs \ {w} : /\ wcs[v].phase = "live"
                            /\ wcs[v].spec.sel \cap wcs[w].spec.sel # {}

\* validatedCondition: violations come before an overlap, and an overlap
\* before "no guardrails".
ValidatedReason(wcs, enforcedWC, guardrails, w) ==
    CASE wcs[w].spec.bad /\ guardrails -> "ValidationFailed"
      [] ~(wcs[w].spec.bad /\ guardrails) /\ Overlaps(wcs, enforcedWC, w) -> "SelectorOverlap"
      [] ~Overlaps(wcs, enforcedWC, w) /\ ~guardrails -> "NoGuardrails"
      [] OTHER -> "ValidationPassed"

protectsPods(reason, hasGuardrails) ==
    \/ reason = "ValidationPassed"
    \/ reason = "SelectorOverlap" /\ hasGuardrails

\* passedValidation reads the class' recorded status, of any generation.
passedValidation(wc, hasGuardrails) == protectsPods(wc.reason, hasGuardrails)

\* calculateReadiness outside every disruption window and before the class is
\* overdue: only the emergency override makes it Ready.
Readiness(spec) == IF spec.override THEN "Ready" ELSE "NotReady"

-----------------------------------------------------------------------------
Exists(p) == p.owner # None

IsWorkloadClassManagedPDB(p) == p.owner \in WCs

\* The user-created PDBs of other names are the set of labels they select.
IsPodCoveredByUserPDB(pod, cover) == pod.lbl \in cover

LeaseExpired(p, now) == p.expiry <= now

AllowLease(p, pod, now) ==
    /\ IsWorkloadClassManagedPDB(p)
    /\ \/ p.uid # pod.uid
       \/ p.holder = None
       \/ LeaseExpired(p, now)

SubjectAlreadyLeasing(p, pod, s, now) ==
    /\ IsWorkloadClassManagedPDB(p)
    /\ p.uid = pod.uid
    /\ p.holder # None /\ p.holder = s
    /\ ~LeaseExpired(p, now)

\* activeLeaseRemaining > 0.
LeaseActive(p, pod, now) ==
    Exists(p) /\ p.uid = pod.uid /\ p.holder # None /\ ~LeaseExpired(p, now)

\* Mutant: claimPDB takes over any PDB.
ClaimNeverRefused(p) == FALSE

\* claimPDB refuses a PDB that exists and is not managed, and otherwise takes
\* it over, whichever class controls it.
ClaimRefused(p) == Exists(p) /\ ~IsWorkloadClassManagedPDB(p)

\* claimPDB followed by SyncPDBWithWorkloadClass.
SyncedPDB(w, pod, readiness, isValid) ==
    [owner |-> w, uid |-> pod.uid, open |-> ~isValid \/ readiness = "Ready",
     holder |-> None, expiry |-> 0]

\* Mutant: the lease duration is subtracted.
LeasedPDBInThePast(w, pod, s, now) ==
    [owner |-> w, uid |-> pod.uid, open |-> TRUE, holder |-> s,
     expiry |-> now - LeaseDuration]

\* claimPDB followed by PDBWithLease.
LeasedPDB(w, pod, s, now) ==
    [owner |-> w, uid |-> pod.uid, open |-> TRUE, holder |-> s,
     expiry |-> now + LeaseDuration]

=============================================================================
