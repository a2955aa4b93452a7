---------------------------- MODULE LeaseHandoff ----------------------------
(***************************************************************************)
(* What PendingLeaseTracker promises the webhook and the controller: to    *)
(* record a request and to wake the controller for its WorkloadClass is    *)
(* one step, and so is draining every request of a class.  This is the     *)
(* hand-over WorkloadClassController builds on.                            *)
(***************************************************************************)
EXTENDS LeaseRequest

CONSTANTS
    Pods, WCs,
    Requests        \* the requests the webhook may make

VARIABLES
    pending,    \* WorkloadClass -> Pod name -> request
    queue,      \* the classes the controller will be woken for
    forgotten,  \* the classes whose wake-up was lost since they were last drained
    worker      \* the reconcile in progress: step, class, drained requests

vars == <<pending, queue, forgotten, worker>>

NoRequests == [n \in Pods |-> NoRequest]

Idle == [pc |-> "idle", wc |-> None, leases |-> NoRequests]

Init ==
    /\ pending = [w \in WCs |-> NoRequests]
    /\ queue = {}
    /\ forgotten = {}
    /\ worker = Idle

\* The webhook's Enqueue.
Ask(w, n, r) ==
    /\ pending' = [pending EXCEPT ![w][n] = Enqueued(@, r)]
    /\ queue' = queue \cup {w}
    /\ UNCHANGED <<forgotten, worker>>

\* Any other reason to reconcile w.
Wake(w) ==
    /\ queue' = queue \cup {w}
    /\ UNCHANGED <<pending, forgotten, worker>>

\* The wake-up for w finds no room.
Forget(w) ==
    /\ queue' \in {queue, queue \ {w}}
    /\ forgotten' = forgotten \cup {w}
    /\ UNCHANGED <<pending, worker>>

\* A reconcile of w begins; a second wake-up for w may still be on its way.
Take(w) ==
    /\ worker.pc = "idle" /\ w \in queue
    /\ queue' \in {queue, queue \ {w}}
    /\ worker' = [pc |-> "drain", wc |-> w, leases |-> NoRequests]
    /\ UNCHANGED <<pending, forgotten>>

\* The reconcile fails before it drains.
Abort ==
    /\ worker.pc = "drain"
    /\ queue' = queue \cup {worker.wc}
    /\ worker' = Idle
    /\ UNCHANGED <<pending, forgotten>>

Drain ==
    /\ worker.pc = "drain"
    /\ worker' = [pc |-> "apply", wc |-> worker.wc, leases |-> pending[worker.wc]]
    /\ pending' = [pending EXCEPT ![worker.wc] = NoRequests]
    /\ forgotten' = forgotten \ {worker.wc}
    /\ UNCHANGED queue

\* The drained request for Pod n is dealt with, or put back after an error.
Apply(n) ==
    /\ worker.pc = "apply" /\ worker.leases[n].subject # None
    /\ worker' = [worker EXCEPT !.leases[n] = NoRequest]
    /\ UNCHANGED <<pending, queue, forgotten>>

PutBack(n) ==
    /\ worker.pc = "apply" /\ worker.leases[n].subject # None
    /\ pending' = [pending EXCEPT ![worker.wc][n] = Enqueued(@, worker.leases[n])]
    /\ queue' = queue \cup {worker.wc}
    /\ worker' = [worker EXCEPT !.leases[n] = NoRequest]
    /\ UNCHANGED forgotten

Finish ==
    /\ worker.pc = "apply" /\ worker.leases = NoRequests
    /\ worker' = Idle
    /\ UNCHANGED <<pending, queue, forgotten>>

Next ==
    \/ \E w \in WCs : Wake(w) \/ Forget(w) \/ Take(w)
    \/ \E w \in WCs, n \in Pods, r \in Requests : Ask(w, n, r)
    \/ Abort \/ Drain \/ Finish
    \/ \E n \in Pods : Apply(n) \/ PutBack(n)

Spec == Init /\ [][Next]_vars
=============================================================================
