------------------------ MODULE MaintenanceReadiness ------------------------
(***************************************************************************)
(* How one WorkloadClass' maintenanceReadiness follows the clock and its   *)
(* Pods: calculateReadiness (internal/controller/                          *)
(* workloadclass_controller.go) runs when the class is queued or its       *)
(* RequeueAfter has passed, and what it returned stands until then.        *)
(***************************************************************************)
EXTENDS DisruptionWindows

CONSTANTS
    Pods,
    Policies,   \* the disruption policies the class may have
    Phases,     \* the instants the class may be created at
    Horizon,    \* bound on the clock, in slots after the creation
    MaxEvents   \* bound on Pod and policy changes

DisruptionPolicy ==
    [windows : SUBSET DisruptionWindow, maxNonDisruption : Nat, minInitialRun : Nat,
     grace : Nat, override : BOOLEAN]

ASSUME PoliciesAssumption == Policies \subseteq DisruptionPolicy

ASSUME HorizonAssumption == Phases \subseteq Nat /\ Horizon \in Nat /\ MaxEvents \in Nat

VARIABLES
    now,
    created,    \* the class' creation; nothing ever sets lastDisruptionTime
    policy,
    pod,        \* the Pods the class governs
    readiness,  \* status.maintenanceReadiness
    wake,       \* the instant of RequeueAfter, 0 if there is none
    queued,
    happened    \* what MaxEvents counts

vars == <<now, created, policy, pod, readiness, wake, queued, happened>>

NoPod == [phase |-> "gone", since |-> 0]

Init ==
    /\ created \in Phases /\ now = created
    /\ policy \in Policies
    /\ pod \in [Pods -> {NoPod, [phase |-> "active", since |-> created]}]
    /\ readiness = "None"
    /\ wake = 0 /\ queued = TRUE /\ happened = 0

-----------------------------------------------------------------------------
\* overdue: the policy's 0 counts as exceeded.
overdue == policy.maxNonDisruption = 0 \/ now - created > policy.maxNonDisruption

\* Pods that have not run for minInitialRun.
Young == {n \in Pods : pod[n].phase = "active" /\ now - pod[n].since < policy.minInitialRun}

\* Pods whose deletion began less than grace ago.
Terminating == {n \in Pods : pod[n].phase = "deleting" /\ now - pod[n].since < policy.grace}

\* What calculateReadiness may return; of several young Pods the first one
\* listed sets the time.
calculateReadiness ==
    LET window == IsTimeInWindows(now, policy.windows)
    IN  IF policy.override THEN {<<"Ready", 0>>}
        ELSE IF overdue THEN {<<"Overdue", 0>>}
        ELSE IF ~window.in THEN {<<"NotReady", window.wait>>}
        ELSE IF Young # {}
        THEN {<<"NotReady", policy.minInitialRun - (now - pod[n].since)>> : n \in Young}
        ELSE IF Terminating # {}
        THEN {<<"NotReady", Max({policy.grace - (now - pod[n].since) : n \in Terminating})>>}
        ELSE {<<"Ready", window.wait>>}

Due == queued \/ (wake # 0 /\ wake <= now)

\* Mutant: a reconcile asks to be called again only while it is not Ready.
ReconcileReadyForever ==
    /\ Due
    /\ \E r \in calculateReadiness :
          /\ readiness' = r[1]
          /\ wake' = IF r[2] > 0 /\ r[1] # "Ready" THEN now + r[2] ELSE 0
    /\ queued' = FALSE
    /\ UNCHANGED <<now, created, policy, pod, happened>>

\* Mutant: RequeueAfter is the wait with the wrong sign.
ReconcileInThePast ==
    /\ Due
    /\ \E r \in calculateReadiness : readiness' = r[1] /\ wake' = now - r[2]
    /\ queued' = FALSE
    /\ UNCHANGED <<now, created, policy, pod, happened>>

\* Reconcile: the status update and the RequeueAfter; a wait of 0 or less asks
\* for no requeue.
Reconcile ==
    /\ Due
    /\ \E r \in calculateReadiness :
          /\ readiness' = r[1]
          /\ wake' = IF r[2] > 0 THEN now + r[2] ELSE 0
    /\ queued' = FALSE
    /\ UNCHANGED <<now, created, policy, pod, happened>>

\* Mutant: a Pod that has run for exactly minInitialRun is still too new.
AdmitsOlder(n) ==
    \/ policy.override \/ readiness = "Overdue"
    \/ /\ IsTimeInWindows(now, policy.windows).in
       /\ policy.minInitialRun > 0 => now - pod[n].since > policy.minInitialRun

\* Handle of the disruption webhook, for an eviction of Pod n by a subject that has no
\* privilege outside the windows, of a class that is valid: the webhook reads the
\* clock and the recorded readiness by itself.
Admits(n) ==
    \/ policy.override \/ readiness = "Overdue"
    \/ /\ IsTimeInWindows(now, policy.windows).in
       /\ policy.minInitialRun > 0 => now - pod[n].since >= policy.minInitialRun

-----------------------------------------------------------------------------
Event ==
    /\ happened < MaxEvents /\ happened' = happened + 1
    /\ queued' = TRUE

\* A Pod appears, begins to terminate, or is removed; the Pod watch queues the
\* class (WorkloadClassController shows that it does).
ChangePod(n) ==
    /\ Event
    /\ pod' = [pod EXCEPT ![n] =
          CASE pod[n].phase = "gone"     -> [phase |-> "active", since |-> now]
            [] pod[n].phase = "active"   -> [phase |-> "deleting", since |-> now]
            [] pod[n].phase = "deleting" -> NoPod]
    /\ UNCHANGED <<now, created, policy, readiness, wake>>

ChangePolicy(p) ==
    /\ Event
    /\ p # policy /\ policy' = p
    /\ UNCHANGED <<now, created, pod, readiness, wake>>

\* A queued reconcile runs at once, a timer at its instant or one slot later.
Tick ==
    /\ now < created + Horizon
    /\ ~queued /\ (wake = 0 \/ now <= wake)
    /\ now' = now + 1
    /\ UNCHANGED <<created, policy, pod, readiness, wake, queued, happened>>

Next ==
    \/ Reconcile
    \/ \E n \in Pods : ChangePod(n)
    \/ \E p \in Policies : ChangePolicy(p)
    \/ Tick

Spec == Init /\ [][Next]_vars

-----------------------------------------------------------------------------
(* Properties. *)

\* The types of the variables.
TypeOK ==
    /\ now \in Nat /\ created \in Nat /\ wake \in Nat /\ happened \in Nat
    /\ policy \in Policies
    /\ pod \in [Pods -> [phase : {"gone", "active", "deleting"}, since : Nat]]
    /\ readiness \in {"None", "Ready", "NotReady", "Overdue"}
    /\ queued \in BOOLEAN

\* Whatever the time zones, days and overlaps, IsTimeInWindows says yes only in a window as
\* the README describes it ("A window that crosses midnight belongs to the day it starts"),
\* and does so at every instant of one but, perhaps, its first: there the code says
\* no, although its comment has [start, 24:00) (README.md, Start instant).
WindowsOnceOpened ==
    /\ IsTimeInWindows(now, policy.windows).in => InWindow(now, policy.windows)
    /\ InOpenedWindow(now, policy.windows) => IsTimeInWindows(now, policy.windows).in

\* The class is Ready, its PDBs open, only in a window, with no Pod younger than
\* minInitialRun and none still terminating, unless overridden: no window closes
\* and no Pod starts without the reconcile that takes Ready back.
ReadyOnlyWhenAllowed ==
    readiness = "Ready" /\ ~Due =>
        policy.override \/ (InWindow(now, policy.windows) /\ Young = {} /\ Terminating = {})

\* The controller, which opens the PDBs, and the disruption webhook, which admits the
\* evictions, decide separately and at different times; still the webhook
\* admits the eviction of every Pod of a Ready class, and outside the windows or before
\* minInitialRun only what the override or the overdue deadline lets through.
WebhookAgrees ==
    ~Due => \A n \in Pods : pod[n].phase = "active" =>
        /\ readiness = "Ready" => Admits(n)
        /\ Admits(n) => policy.override \/ overdue \/ (InWindow(now, policy.windows) /\ n \notin Young)
=============================================================================
