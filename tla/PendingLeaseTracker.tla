------------------------- MODULE PendingLeaseTracker -------------------------
(***************************************************************************)
(* utils.PendingLeaseTracker (internal/utils/lease_tracker.go) between the *)
(* webhook's request goroutines and the one worker of the WorkloadClass    *)
(* controller.  Enqueue takes the mutex to record a request and sends its  *)
(* wake-up after it let go, on a bounded channel and without blocking; a   *)
(* goroutine of the manager moves the events to the workqueue.             *)
(***************************************************************************)
EXTENDS LeaseRequest, Sequences

CONSTANTS
    Pods, WCs,
    Callers,        \* the webhook's request goroutines
    BufferSize,     \* DefaultPendingLeaseBufferSize
    MaxCalls,       \* bound on eviction requests
    MaxFailures,    \* bound on reconciles that fail
    MaxInstances,   \* bound on the instances of one Pod name
    MaxEvents       \* bound on the other events that queue a class

ASSUME NoneIsNoName == None \notin Subjects \cup WCs

ASSUME BufferSizeAssumption == BufferSize \in Nat \ {0}

ASSUME TrackerBounds ==
    MaxCalls \in Nat /\ MaxFailures \in Nat /\ MaxInstances \in Nat \ {0} /\ MaxEvents \in Nat

VARIABLES
    pending,    \* WorkloadClass -> Pod name -> request
    events,     \* the event channel
    queue,      \* the controller's workqueue
    caller,     \* caller[c]: the Enqueue call of goroutine c
    worker,     \* the reconcile in progress
    instance,   \* instance[n]: the UID of the Pod named n
    overflowed, \* history: the classes a wake-up was dropped for since their last drain
    calls, failures, others  \* what the bounds count

bounds == <<calls, failures, others>>
vars == <<pending, events, queue, caller, worker, instance, overflowed, bounds>>

NoRequests == [n \in Pods |-> NoRequest]

\* pc "record": the Pod was read, the request is not recorded; "signal": it is
\* recorded and the mutex released, the event is not sent.
EnqueueCall == [pc : {"idle", "record", "signal"}, wc : WCs \cup {None},
                pod : Pods \cup {None}, req : Request]

NoCall == [pc |-> "idle", wc |-> None, pod |-> None, req |-> NoRequest]

\* signal: a request was put back and its event is not sent; failed: an error
\* was collected.
Worker == [pc : {"idle", "drain", "apply"}, wc : WCs \cup {None},
           leases : [Pods -> Request], signal : BOOLEAN, failed : BOOLEAN]

Idle == [pc |-> "idle", wc |-> None, leases |-> NoRequests, signal |-> FALSE, failed |-> FALSE]

Init ==
    /\ pending = [w \in WCs |-> NoRequests]
    /\ events = <<>>
    /\ queue = {}
    /\ caller = [c \in Callers |-> NoCall]
    /\ worker = Idle
    /\ instance = [n \in Pods |-> 1]
    /\ overflowed = {}
    /\ calls = 0 /\ failures = 0 /\ others = 0

-----------------------------------------------------------------------------
\* Handle read Pod n and its class, and calls Enqueue.
Call(c, w, n, s) ==
    /\ caller[c].pc = "idle" /\ calls < MaxCalls
    /\ caller' = [caller EXCEPT ![c] = [pc |-> "record", wc |-> w, pod |-> n,
                                        req |-> [uid |-> instance[n], subject |-> s]]]
    /\ calls' = calls + 1
    /\ UNCHANGED <<pending, events, queue, worker, instance, overflowed, failures, others>>

\* The critical section of Enqueue.
Record(c) ==
    /\ caller[c].pc = "record"
    /\ pending' = [pending EXCEPT ![caller[c].wc][caller[c].pod] = Enqueued(@, caller[c].req)]
    /\ caller' = [caller EXCEPT ![c].pc = "signal"]
    /\ UNCHANGED <<events, queue, worker, instance, overflowed, bounds>>

\* Mutants: the buffer takes one event too many; an event is sent only into an
\* empty channel.
SignalOffByOne(w) ==
    IF Len(events) <= BufferSize
    THEN events' = Append(events, w) /\ UNCHANGED overflowed
    ELSE overflowed' = overflowed \cup {w} /\ UNCHANGED events

SignalIfEmpty(w) ==
    /\ events' = IF events = <<>> THEN <<w>> ELSE events
    /\ UNCHANGED overflowed

\* signal: a send that gives up when the channel is full.
Signal(w) ==
    IF Len(events) < BufferSize
    THEN events' = Append(events, w) /\ UNCHANGED overflowed
    ELSE overflowed' = overflowed \cup {w} /\ UNCHANGED events

EndCall(c) ==
    /\ caller[c].pc = "signal"
    /\ Signal(caller[c].wc)
    /\ caller' = [caller EXCEPT ![c] = NoCall]
    /\ UNCHANGED <<pending, queue, worker, instance, bounds>>

\* source.Channel's goroutine.
Dispatch ==
    /\ events # <<>>
    /\ queue' = queue \cup {Head(events)}
    /\ events' = Tail(events)
    /\ UNCHANGED <<pending, caller, worker, instance, overflowed, bounds>>

\* Another watch queues w.
OtherEvent(w) ==
    /\ others < MaxEvents /\ others' = others + 1
    /\ queue' = queue \cup {w}
    /\ UNCHANGED <<pending, events, caller, worker, instance, overflowed, calls, failures>>

-----------------------------------------------------------------------------
Take(w) ==
    /\ worker.pc = "idle" /\ w \in queue
    /\ queue' = queue \ {w}
    /\ worker' = [Idle EXCEPT !.pc = "drain", !.wc = w]
    /\ UNCHANGED <<pending, events, caller, instance, overflowed, bounds>>

\* Mutant: the error is logged and not returned.
AbortSilently ==
    /\ worker.pc = "drain"
    /\ failures < MaxFailures /\ failures' = failures + 1
    /\ worker' = Idle
    /\ UNCHANGED <<pending, events, queue, caller, instance, overflowed, calls, others>>

\* Reconcile fails before it drains, e.g. in its status update.
Abort ==
    /\ worker.pc = "drain"
    /\ failures < MaxFailures /\ failures' = failures + 1
    /\ queue' = queue \cup {worker.wc}
    /\ worker' = Idle
    /\ UNCHANGED <<pending, events, caller, instance, overflowed, calls, others>>

\* Mutant: the drained requests are not removed.
DrainCopies ==
    /\ worker.pc = "drain"
    /\ worker' = [worker EXCEPT !.pc = "apply", !.leases = pending[worker.wc]]
    /\ overflowed' = overflowed \ {worker.wc}
    /\ UNCHANGED <<pending, events, queue, caller, instance, bounds>>

Drain ==
    /\ worker.pc = "drain"
    /\ worker' = [worker EXCEPT !.pc = "apply", !.leases = pending[worker.wc]]
    /\ pending' = [pending EXCEPT ![worker.wc] = NoRequests]
    /\ overflowed' = overflowed \ {worker.wc}
    /\ UNCHANGED <<events, queue, caller, instance, bounds>>

\* The reconcile deals with the request for Pod n (a lease, or nothing).
Apply(n) ==
    /\ worker.pc = "apply" /\ ~worker.signal /\ worker.leases[n].subject # None
    /\ worker' = [worker EXCEPT !.leases[n] = NoRequest]
    /\ UNCHANGED <<pending, events, queue, caller, instance, overflowed, bounds>>

\* It fails instead, and reenqueueLeases calls Enqueue: first the record, then
\* the event.
PutBack(n) ==
    /\ worker.pc = "apply" /\ ~worker.signal /\ worker.leases[n].subject # None
    /\ failures < MaxFailures /\ failures' = failures + 1
    /\ pending' = [pending EXCEPT ![worker.wc][n] = Enqueued(@, worker.leases[n])]
    /\ worker' = [worker EXCEPT !.leases[n] = NoRequest, !.signal = TRUE, !.failed = TRUE]
    /\ UNCHANGED <<events, queue, caller, instance, overflowed, calls, others>>

SignalPutBack ==
    /\ worker.signal
    /\ Signal(worker.wc)
    /\ worker' = [worker EXCEPT !.signal = FALSE]
    /\ UNCHANGED <<pending, queue, caller, instance, bounds>>

\* Reconcile returns; an error queues the class again.
Finish ==
    /\ worker.pc = "apply" /\ ~worker.signal /\ worker.leases = NoRequests
    /\ queue' = IF worker.failed THEN queue \cup {worker.wc} ELSE queue
    /\ worker' = Idle
    /\ UNCHANGED <<pending, events, caller, instance, overflowed, bounds>>

-----------------------------------------------------------------------------
\* Pod n is deleted and created again under its name.
Replace(n) ==
    /\ instance[n] < MaxInstances
    /\ instance' = [instance EXCEPT ![n] = @ + 1]
    /\ UNCHANGED <<pending, events, queue, caller, worker, overflowed, bounds>>

Reconcile ==
    \/ \E w \in WCs : Take(w)
    \/ Abort \/ Drain \/ SignalPutBack \/ Finish
    \/ \E n \in Pods : Apply(n) \/ PutBack(n)

Next ==
    \/ \E c \in Callers : \/ Record(c) \/ EndCall(c)
                          \/ \E w \in WCs, n \in Pods, s \in Subjects : Call(c, w, n, s)
    \/ Dispatch
    \/ \E w \in WCs : OtherEvent(w)
    \/ Reconcile
    \/ \E n \in Pods : Replace(n)

Spec == Init /\ [][Next]_vars

\* The goroutines run, and the workqueue is first in, first out.
Fairness ==
    /\ \A c \in Callers : WF_vars(Record(c)) /\ WF_vars(EndCall(c))
    /\ WF_vars(Dispatch)
    /\ WF_vars(Reconcile)
    /\ \A w \in WCs : SF_vars(Take(w))

FairSpec == Spec /\ Fairness

-----------------------------------------------------------------------------
(* Properties. *)

\* The types of the variables, and the channel within its capacity.
TypeOK ==
    /\ pending \in [WCs -> [Pods -> Request]]
    /\ events \in Seq(WCs) /\ Len(events) <= BufferSize
    /\ queue \subseteq WCs /\ overflowed \subseteq WCs
    /\ caller \in [Callers -> EnqueueCall]
    /\ worker \in Worker
    /\ instance \in [Pods -> Nat]
    /\ calls \in Nat /\ failures \in Nat /\ others \in Nat

Sent == {events[i] : i \in 1..Len(events)}

\* The classes the controller will be woken for: queued, on the channel, about
\* to be signalled, or requeued when the reconcile in progress returns.
WakeUps ==
    queue \cup Sent
    \cup {caller[c].wc : c \in {d \in Callers : caller[d].pc = "signal"}}
    \cup (IF worker.failed THEN {worker.wc} ELSE {})

\* A recorded request always has a drain coming, whatever the order in which
\* goroutines record, send, dispatch, drain and put back, unless the channel was
\* full when its event was sent ("the pending map is the source of truth; events
\* are only wake-up signals").
NoLostWakeUp ==
    \A w \in WCs : pending[w] # NoRequests =>
        w \in WakeUps \cup overflowed \/ (worker.pc = "drain" /\ worker.wc = w)

\* The tracker does what LeaseHandoff promises, its two-step Enqueue taking
\* effect when the request is recorded.
Handoff == INSTANCE LeaseHandoff WITH
    Requests <- [uid : 1..MaxInstances, subject : Subjects],
    queue <- WakeUps,
    forgotten <- overflowed,
    worker <- [pc |-> worker.pc, wc |-> worker.wc, leases |-> worker.leases]

ImplementsHandoff == Handoff!Spec

\* Every recorded request is drained, unless its wake-up was dropped.
EventuallyDrained ==
    \A w \in WCs : pending[w] # NoRequests ~> (pending[w] = NoRequests \/ w \in overflowed)
=============================================================================
