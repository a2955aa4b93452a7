---------------------- MODULE PendingLeaseTrackerProofs ----------------------
(***************************************************************************)
(* Proofs about PendingLeaseTracker, for any number of goroutines, Pods    *)
(* and classes and any capacity of the channel.                            *)
(***************************************************************************)
EXTENDS PendingLeaseTracker, TLAPS

\* A goroutine inside Enqueue, and a reconcile under way, know their class;
\* only a reconcile that put a request back still has an event to send.
WellFormed ==
    /\ \A c \in Callers : caller[c].pc # "idle" =>
          caller[c].wc \in WCs /\ caller[c].pod \in Pods
          /\ caller[c].req \in [uid : 1..MaxInstances, subject : Subjects]
    /\ worker.pc # "idle" => worker.wc \in WCs
    /\ worker.pc # "apply" => ~worker.signal /\ ~worker.failed /\ worker.leases = NoRequests
    /\ worker.signal => worker.failed
    /\ instance \in [Pods -> 1..MaxInstances]

\* The tracker's state is well typed and well formed, inductively.
TypeInv == TypeOK /\ WellFormed

\* The empty request and the empty map are well typed.
LEMMA NoRequestType == NoRequest \in Request /\ NoRequests \in [Pods -> Request]
BY DEF NoRequest, NoRequests, Request

\* Enqueue leaves a request.
LEMMA EnqueuedType ==
    ASSUME NEW old \in Request, NEW new \in Request PROVE Enqueued(old, new) \in Request
BY DEF Enqueued

\* A call that has recorded its request is still a call.
LEMMA CallStep ==
    ASSUME NEW x \in EnqueueCall PROVE [x EXCEPT !.pc = "signal"] \in EnqueueCall
BY DEF EnqueueCall

\* signal never overfills the channel.
LEMMA SignalType ==
    ASSUME NEW w \in WCs, Signal(w), events \in Seq(WCs), Len(events) <= BufferSize, overflowed \subseteq WCs
    PROVE  events' \in Seq(WCs) /\ Len(events') <= BufferSize /\ overflowed' \subseteq WCs
<1>1. CASE Len(events) < BufferSize
    <2>1. Len(Append(events, w)) = Len(events) + 1 /\ Append(events, w) \in Seq(WCs)
        OBVIOUS
    <2> QED
        BY <1>1, <2>1, BufferSizeAssumption DEF Signal
<1>2. CASE ~(Len(events) < BufferSize)
    BY <1>2 DEF Signal
<1> QED
    BY <1>1, <1>2

\* The initial state is well typed.
LEMMA TypeInvInit == Init => TypeInv
BY NoRequestType, TrackerBounds, BufferSizeAssumption DEF Init, TypeInv, TypeOK, WellFormed, NoCall, Idle,
   EnqueueCall, Worker, NoRequest

\* Every step of the tracker and its users keeps the types.
LEMMA TypeInvNext == TypeInv /\ [Next]_vars => TypeInv'
<1> SUFFICES ASSUME TypeInv, Next \/ UNCHANGED vars PROVE TypeInv'
    OBVIOUS
<1> USE TrackerBounds, BufferSizeAssumption, NoRequestType DEF TypeInv, TypeOK, WellFormed, Worker
<1>1. ASSUME NEW c \in Callers, NEW w \in WCs, NEW n \in Pods, NEW s \in Subjects, Call(c, w, n, s)
      PROVE TypeInv'
    <2>1. [uid |-> instance[n], subject |-> s] \in [uid : 1..MaxInstances, subject : Subjects] \cap Request
        BY DEF Request
    <2>2. caller' = [caller EXCEPT ![c] = [pc |-> "record", wc |-> w, pod |-> n,
                                           req |-> [uid |-> instance[n], subject |-> s]]]
        BY <1>1 DEF Call
    <2>3. caller'[c] = [pc |-> "record", wc |-> w, pod |-> n, req |-> [uid |-> instance[n], subject |-> s]]
          /\ \A d \in Callers \ {c} : caller'[d] = caller[d]
        BY <2>2
    <2>4. TypeOK'
        BY <1>1, <2>1, <2>2 DEF Call, EnqueueCall
    <2>5. WellFormed'
        BY <1>1, <2>1, <2>3 DEF Call
    <2> QED
        BY <2>4, <2>5
<1>2. ASSUME NEW c \in Callers, Record(c) PROVE TypeInv'
    <2>1. caller[c].req \in Request
        BY DEF EnqueueCall
    <2>2. pending' \in [WCs -> [Pods -> Request]]
        BY <1>2, <2>1, EnqueuedType DEF Record
    <2>3. caller'[c] = [caller[c] EXCEPT !.pc = "signal"] /\ \A d \in Callers \ {c} : caller'[d] = caller[d]
        BY <1>2 DEF Record
    <2>4. TypeOK'
        <3>1. caller' = [caller EXCEPT ![c] = [caller[c] EXCEPT !.pc = "signal"]]
            BY <1>2 DEF Record
        <3>2. [caller[c] EXCEPT !.pc = "signal"] \in EnqueueCall
            BY CallStep
        <3>3. caller' \in [Callers -> EnqueueCall]
            BY <3>1, <3>2
        <3> QED
            BY <1>2, <2>2, <3>3 DEF Record, bounds
    <2>5. WellFormed'
        BY <1>2, <2>3 DEF Record
    <2> QED
        BY <2>4, <2>5
<1>3. ASSUME NEW w \in WCs, Signal(w)
      PROVE events' \in Seq(WCs) /\ Len(events') <= BufferSize /\ overflowed' \subseteq WCs
    BY <1>3, SignalType
<1>4. ASSUME NEW c \in Callers, EndCall(c) PROVE TypeInv'
    BY <1>3, <1>4 DEF EndCall, NoCall, EnqueueCall, bounds
<1>5. CASE Dispatch
    BY <1>5 DEF Dispatch, bounds
<1>6. ASSUME NEW w \in WCs, OtherEvent(w) PROVE TypeInv'
    BY <1>6 DEF OtherEvent
<1>7. ASSUME NEW w \in WCs, Take(w) PROVE TypeInv'
    BY <1>7 DEF Take, Idle, bounds
<1>8. CASE Abort
    BY <1>8 DEF Abort, Idle
<1>9. CASE Drain
    BY <1>9 DEF Drain, bounds
<1>10. ASSUME NEW n \in Pods, Apply(n) PROVE TypeInv'
    BY <1>10 DEF Apply, bounds
<1>11. ASSUME NEW n \in Pods, PutBack(n) PROVE TypeInv'
    <2>1. worker.leases[n] \in Request
        OBVIOUS
    <2>2. pending' \in [WCs -> [Pods -> Request]]
        BY <1>11, <2>1, EnqueuedType DEF PutBack
    <2>3. worker' = [worker EXCEPT !.leases[n] = NoRequest, !.signal = TRUE, !.failed = TRUE]
          /\ worker' = [pc |-> worker.pc, wc |-> worker.wc, signal |-> TRUE, failed |-> TRUE,
                         leases |-> [worker.leases EXCEPT ![n] = NoRequest]]
        BY <1>11 DEF PutBack
    <2>4. TypeOK'
        <3>1. [worker.leases EXCEPT ![n] = NoRequest] \in [Pods -> Request]
            OBVIOUS
        <3>2. worker' \in Worker
            BY <2>3, <3>1
        <3>3. failures' \in Nat
            BY <1>11 DEF PutBack
        <3> QED
            BY <1>11, <2>2, <3>2, <3>3 DEF PutBack
    <2>5. WellFormed'
        BY <1>11, <2>3 DEF PutBack
    <2> QED
        BY <2>4, <2>5
<1>12. CASE SignalPutBack
    BY <1>3, <1>12 DEF SignalPutBack, bounds
<1>13. CASE Finish
    BY <1>13 DEF Finish, Idle, bounds
<1>14. ASSUME NEW n \in Pods, Replace(n) PROVE TypeInv'
    BY <1>14 DEF Replace, bounds
<1>15. CASE UNCHANGED vars
    BY <1>15 DEF vars, bounds
<1> QED
    BY <1>1, <1>2, <1>4, <1>5, <1>6, <1>7, <1>8, <1>9, <1>10, <1>11, <1>12, <1>13, <1>14, <1>15
       DEF Next, Reconcile

\* The variables of the tracker keep their types, the channel never holds more
\* than its capacity.
THEOREM TrackerTypes == Spec => []TypeOK
<1>1. TypeInv => TypeOK
    BY DEF TypeInv
<1> QED
    BY <1>1, TypeInvInit, TypeInvNext, PTL DEF Spec

-----------------------------------------------------------------------------
(* The wake-ups, step by step. *)

\* A signal appended to the channel is one more sent wake-up.
LEMMA SentAppend ==
    ASSUME NEW w, events \in Seq(WCs), w \in WCs, events' = Append(events, w)
    PROVE  Sent' = Sent \cup {w}
<1>1. Len(events') = Len(events) + 1 /\ Len(events) \in Nat
    OBVIOUS
<1>2. \A i \in 1..Len(events) : events'[i] = events[i]
    OBVIOUS
<1>3. events'[Len(events) + 1] = w
    OBVIOUS
<1> QED
    BY <1>1, <1>2, <1>3 DEF Sent

\* A signal taken from the channel leaves the others.
LEMMA SentTail ==
    ASSUME events \in Seq(WCs), events # <<>>, events' = Tail(events)
    PROVE  Sent = Sent' \cup {Head(events)}
<1>1. Len(events') = Len(events) - 1 /\ Len(events) \in Nat \ {0}
    OBVIOUS
<1>2. \A i \in 1..Len(events') : events'[i] = events[i + 1]
    OBVIOUS
<1>3. Head(events) = events[1]
    OBVIOUS
<1>4. ASSUME NEW x \in Sent PROVE x \in Sent' \cup {Head(events)}
    <2>1. PICK i \in 1..Len(events) : x = events[i]
        BY DEF Sent
    <2>2. CASE i = 1
        BY <2>1, <2>2, <1>3
    <2>3. CASE i # 1
        <3>1. i - 1 \in 1..Len(events') /\ events'[i - 1] = events[i]
            BY <2>1, <2>3, <1>1, <1>2
        <3> QED
            BY <3>1, <2>1 DEF Sent
    <2> QED
        BY <2>2, <2>3
<1>5. Sent' \subseteq Sent
    BY <1>1, <1>2 DEF Sent
<1>6. Head(events) \in Sent
    BY <1>1, <1>3 DEF Sent
<1> QED
    BY <1>4, <1>5, <1>6

\* Sending an event for w adds w to the channel, or counts it as overflowed.
LEMMA SignalSent ==
    ASSUME NEW w \in WCs, TypeInv, Signal(w)
    PROVE  \/ Sent' = Sent \cup {w} /\ overflowed' = overflowed
           \/ Sent' = Sent /\ overflowed' = overflowed \cup {w}
<1>1. CASE Len(events) < BufferSize
    BY <1>1, SentAppend DEF Signal, TypeInv, TypeOK
<1>2. CASE ~(Len(events) < BufferSize)
    BY <1>2 DEF Signal, Sent
<1> QED
    BY <1>1, <1>2

Signalling == {caller[c].wc : c \in {d \in Callers : caller[d].pc = "signal"}}

\* The wake-ups, before and after a step.
LEMMA WakeUpsDef ==
    /\ WakeUps = queue \cup Sent \cup Signalling \cup (IF worker.failed THEN {worker.wc} ELSE {})
    /\ WakeUps' = queue' \cup Sent' \cup Signalling' \cup (IF worker'.failed THEN {worker'.wc} ELSE {})
BY DEF WakeUps, Signalling

\* A call that has yet to take the mutex changes nothing the hand-over shows.
LEMMA CallHandoff ==
    ASSUME TypeInv, NEW c \in Callers, NEW w \in WCs, NEW n \in Pods, NEW s \in Subjects, Call(c, w, n, s)
    PROVE  UNCHANGED Handoff!vars
<1>1. Signalling' = Signalling
    <2>1. caller'[c].pc = "record" /\ caller[c].pc = "idle" /\ \A d \in Callers \ {c} : caller'[d] = caller[d]
        BY DEF Call, TypeInv, TypeOK
    <2> QED
        BY <2>1 DEF Signalling
<1> QED
    BY <1>1, WakeUpsDef DEF Call, Handoff!vars, Sent

\* Recording the request is the Ask: the goroutine now owes the event.
LEMMA RecordHandoff ==
    ASSUME TypeInv, NEW c \in Callers, Record(c)
    PROVE  Handoff!Ask(caller[c].wc, caller[c].pod, caller[c].req)
<1>1. Signalling' = Signalling \cup {caller[c].wc}
    <2>1. caller'[c].pc = "signal" /\ caller'[c].wc = caller[c].wc /\ caller[c].pc = "record"
          /\ \A d \in Callers \ {c} : caller'[d] = caller[d]
        BY DEF Record, TypeInv, TypeOK, EnqueueCall
    <2> QED
        BY <2>1 DEF Signalling
<1>2. WakeUps' = WakeUps \cup {caller[c].wc}
    BY <1>1, WakeUpsDef DEF Record, Sent
<1> QED
    BY <1>2 DEF Record, Handoff!Ask, Handoff!Enqueued, Enqueued

\* Sending the event moves a wake-up, or forgets it when the channel is full.
LEMMA EndCallHandoff ==
    ASSUME TypeInv, NEW c \in Callers, EndCall(c)
    PROVE  Handoff!Forget(caller[c].wc) \/ UNCHANGED Handoff!vars
<1> DEFINE w == caller[c].wc
<1>1. w \in WCs
    BY DEF EndCall, TypeInv, WellFormed
<1>2. Signalling' \subseteq Signalling /\ Signalling \subseteq Signalling' \cup {w} /\ w \in Signalling
    <2>1. caller'[c].pc = "idle" /\ caller[c].pc = "signal" /\ \A d \in Callers \ {c} : caller'[d] = caller[d]
        BY DEF EndCall, TypeInv, TypeOK, NoCall
    <2> QED
        BY <2>1 DEF Signalling
<1>3. UNCHANGED <<pending, queue, worker>>
    BY DEF EndCall
<1>4. \/ Sent' = Sent \cup {w} /\ overflowed' = overflowed
      \/ Sent' = Sent /\ overflowed' = overflowed \cup {w}
    BY <1>1, SignalSent DEF EndCall
<1>5. CASE Sent' = Sent \cup {w} /\ overflowed' = overflowed
    <2>1. WakeUps' = WakeUps
        BY <1>2, <1>3, <1>5, WakeUpsDef
    <2> QED
        BY <1>3, <1>5, <2>1 DEF Handoff!vars
<1>6. CASE Sent' = Sent /\ overflowed' = overflowed \cup {w}
    <2>1. WakeUps' = WakeUps \/ WakeUps' = WakeUps \ {w}
        BY <1>2, <1>3, <1>6, WakeUpsDef
    <2> QED
        BY <1>3, <1>6, <2>1 DEF Handoff!Forget
<1> QED
    BY <1>4, <1>5, <1>6

\* Moving an event to the workqueue keeps the wake-ups.
LEMMA DispatchHandoff ==
    ASSUME TypeInv, Dispatch
    PROVE  UNCHANGED Handoff!vars
<1>1. Sent = Sent' \cup {Head(events)}
    BY SentTail DEF Dispatch, TypeInv, TypeOK
<1>2. WakeUps' = WakeUps
    BY <1>1, WakeUpsDef DEF Dispatch, Signalling
<1> QED
    BY <1>2 DEF Dispatch, Handoff!vars

\* Another watch wakes the class.
LEMMA OtherEventHandoff ==
    ASSUME TypeInv, NEW w \in WCs, OtherEvent(w)
    PROVE  Handoff!Wake(w)
<1>1. WakeUps' = WakeUps \cup {w}
    BY WakeUpsDef DEF OtherEvent, Signalling, Sent
<1> QED
    BY <1>1 DEF OtherEvent, Handoff!Wake

\* The worker takes a class; other wake-ups for it may remain.
LEMMA TakeHandoff ==
    ASSUME TypeInv, NEW w \in WCs, Take(w)
    PROVE  Handoff!Take(w)
<1>1. ~worker.failed /\ ~worker'.failed
    BY DEF Take, Idle, TypeInv, WellFormed
<1>2. w \in WakeUps /\ (WakeUps' = WakeUps \/ WakeUps' = WakeUps \ {w})
    BY <1>1, WakeUpsDef DEF Take, Signalling, Sent
<1>3. worker'.pc = "drain" /\ worker'.wc = w /\ worker'.leases = NoRequests
    BY DEF Take, Idle
<1>4. Handoff!NoRequests = NoRequests
    BY DEF NoRequests, NoRequest, Handoff!NoRequests, Handoff!NoRequest
<1> QED
    BY <1>2, <1>3, <1>4 DEF Take, Handoff!Take

\* A reconcile that fails before draining is requeued.
LEMMA AbortHandoff ==
    ASSUME TypeInv, Abort
    PROVE  Handoff!Abort
<1>1. ~worker.failed /\ ~worker'.failed
    BY DEF Abort, Idle, TypeInv, WellFormed
<1>2. WakeUps' = WakeUps \cup {worker.wc}
    BY <1>1, WakeUpsDef DEF Abort, Signalling, Sent
<1> QED
    BY <1>2 DEF Abort, Idle, NoRequests, NoRequest, Handoff!Abort, Handoff!Idle, Handoff!NoRequests, Handoff!NoRequest

\* Drain hands every request of the class to the reconcile.
LEMMA DrainHandoff ==
    ASSUME TypeInv, Drain
    PROVE  Handoff!Drain
<1>1. worker' = [worker EXCEPT !.pc = "apply", !.leases = pending[worker.wc]]
      /\ worker'.failed = worker.failed /\ worker'.wc = worker.wc
      /\ worker'.pc = "apply" /\ worker'.leases = pending[worker.wc]
    BY DEF Drain, TypeInv, TypeOK, Worker
<1>2. WakeUps' = WakeUps
    BY <1>1, WakeUpsDef DEF Drain, Signalling, Sent
<1>3. Handoff!NoRequests = NoRequests
    BY DEF NoRequests, NoRequest, Handoff!NoRequests, Handoff!NoRequest
<1> QED
    BY <1>1, <1>2, <1>3 DEF Drain, Handoff!Drain

\* A request that is dealt with is gone.
LEMMA ApplyHandoff ==
    ASSUME TypeInv, NEW n \in Pods, Apply(n)
    PROVE  Handoff!Apply(n)
<1>1. worker'.failed = worker.failed /\ worker'.wc = worker.wc /\ worker'.pc = worker.pc
      /\ worker'.leases = [worker.leases EXCEPT ![n] = NoRequest]
    BY DEF Apply, TypeInv, TypeOK, Worker
<1>2. WakeUps' = WakeUps
    BY <1>1, WakeUpsDef DEF Apply, Signalling, Sent
<1> QED
    BY <1>1, <1>2 DEF Apply, NoRequest, Handoff!Apply, Handoff!NoRequest

\* A request that is put back is pending again, its class to be woken.
LEMMA PutBackHandoff ==
    ASSUME TypeInv, NEW n \in Pods, PutBack(n)
    PROVE  Handoff!PutBack(n)
<1>1. worker'.failed /\ worker'.wc = worker.wc /\ worker'.pc = worker.pc
      /\ worker'.leases = [worker.leases EXCEPT ![n] = NoRequest]
    BY DEF PutBack, TypeInv, TypeOK, Worker
<1>2. WakeUps' = WakeUps \cup {worker.wc}
    BY <1>1, WakeUpsDef DEF PutBack, Signalling, Sent
<1> QED
    BY <1>1, <1>2 DEF PutBack, NoRequest, Enqueued, Handoff!PutBack, Handoff!NoRequest, Handoff!Enqueued

\* The event for it only adds a wake-up that the error brings anyway.
LEMMA SignalPutBackHandoff ==
    ASSUME TypeInv, SignalPutBack
    PROVE  Handoff!Forget(worker.wc) \/ UNCHANGED Handoff!vars
<1>1. worker.failed /\ worker.wc \in WCs
    BY DEF SignalPutBack, TypeInv, TypeOK, WellFormed
<1>2. worker'.failed = worker.failed /\ worker'.wc = worker.wc /\ worker'.pc = worker.pc /\ worker'.leases = worker.leases
    BY DEF SignalPutBack, TypeInv, TypeOK, Worker
<1>3. \/ Sent' = Sent \cup {worker.wc} /\ overflowed' = overflowed
      \/ Sent' = Sent /\ overflowed' = overflowed \cup {worker.wc}
    BY <1>1, SignalSent DEF SignalPutBack
<1>4. WakeUps' = WakeUps
    BY <1>1, <1>2, <1>3, WakeUpsDef DEF SignalPutBack, Signalling
<1> QED
    BY <1>2, <1>3, <1>4 DEF SignalPutBack, Handoff!Forget, Handoff!vars

\* The return of the reconcile requeues a failed class.
LEMMA FinishHandoff ==
    ASSUME TypeInv, Finish
    PROVE  Handoff!Finish
<1>1. WakeUps' = WakeUps
    BY WakeUpsDef DEF Finish, Idle, Signalling, Sent
<1> QED
    BY <1>1 DEF Finish, Idle, NoRequests, NoRequest, Handoff!Finish, Handoff!Idle, Handoff!NoRequests, Handoff!NoRequest

-----------------------------------------------------------------------------
\* Every step of the tracker is a step of LeaseHandoff, or changes nothing there.
LEMMA HandoffNext == TypeInv /\ [Next]_vars => [Handoff!Next]_(Handoff!vars)
<1> SUFFICES ASSUME TypeInv, Next \/ UNCHANGED vars PROVE Handoff!Next \/ UNCHANGED Handoff!vars
    OBVIOUS
<1>1. ASSUME NEW c \in Callers, Record(c) PROVE Handoff!Next
    <2>1. caller[c].wc \in WCs /\ caller[c].pod \in Pods
          /\ caller[c].req \in [uid : 1..MaxInstances, subject : Subjects]
        BY <1>1 DEF Record, TypeInv, WellFormed
    <2> QED
        BY <1>1, <2>1, RecordHandoff DEF Handoff!Next
<1>2. ASSUME NEW c \in Callers, EndCall(c) PROVE Handoff!Next \/ UNCHANGED Handoff!vars
    <2>1. caller[c].wc \in WCs
        BY <1>2 DEF EndCall, TypeInv, WellFormed
    <2> QED
        BY <1>2, <2>1, EndCallHandoff DEF Handoff!Next
<1>3. ASSUME NEW w \in WCs, OtherEvent(w) \/ Take(w) PROVE Handoff!Next
    BY <1>3, OtherEventHandoff, TakeHandoff DEF Handoff!Next
<1>4. ASSUME NEW n \in Pods, Apply(n) \/ PutBack(n) PROVE Handoff!Next
    BY <1>4, ApplyHandoff, PutBackHandoff DEF Handoff!Next
<1>5. CASE Abort \/ Drain \/ Finish
    BY <1>5, AbortHandoff, DrainHandoff, FinishHandoff DEF Handoff!Next
<1>6. CASE SignalPutBack
    <2>1. worker.wc \in WCs
        BY <1>6 DEF SignalPutBack, TypeInv, TypeOK, WellFormed
    <2> QED
        BY <1>6, <2>1, SignalPutBackHandoff DEF Handoff!Next
<1>7. ASSUME NEW n \in Pods, Replace(n) PROVE UNCHANGED Handoff!vars
    BY <1>7 DEF Replace, Handoff!vars, WakeUps, Sent
<1>8. CASE UNCHANGED vars
    BY <1>8 DEF vars, Handoff!vars, WakeUps, Sent
<1> QED
    BY <1>1, <1>2, <1>3, <1>4, <1>5, <1>6, <1>7, <1>8, CallHandoff, DispatchHandoff DEF Next, Reconcile

\* The initial state maps to LeaseHandoff's.
LEMMA HandoffInit == Init => Handoff!Init
BY DEF Init, Idle, NoRequests, NoRequest, NoCall, WakeUps, Sent,
       Handoff!Init, Handoff!Idle, Handoff!NoRequests, Handoff!NoRequest

\* PendingLeaseTracker implements LeaseHandoff: although Enqueue releases the
\* mutex before it signals, and the event passes through a channel and another
\* goroutine, the webhook and the controller see one atomic hand-over per request,
\* except that a full channel may forget a wake-up.
THEOREM TrackerImplementsHandoff == Spec => ImplementsHandoff
BY TypeInvInit, TypeInvNext, HandoffInit, HandoffNext, PTL DEF Spec, ImplementsHandoff, Handoff!Spec

-----------------------------------------------------------------------------
\* At the start nothing is pending.
LEMMA WakeUpInit == Init => NoLostWakeUp
BY DEF Init, NoLostWakeUp

\* Every step keeps a wake-up on its way for whatever is pending.
LEMMA WakeUpNext == TypeInv /\ NoLostWakeUp /\ [Next]_vars => NoLostWakeUp'
<1> SUFFICES ASSUME TypeInv, NoLostWakeUp, Handoff!Next \/ UNCHANGED Handoff!vars, NEW v \in WCs,
                    pending'[v] # NoRequests
             PROVE  v \in WakeUps' \cup overflowed' \/ (worker'.pc = "drain" /\ worker'.wc = v)
    BY HandoffNext DEF NoLostWakeUp, NoRequests
<1> USE DEF NoLostWakeUp, TypeInv, TypeOK
<1>1. ASSUME NEW w \in WCs, NEW n \in Pods, NEW r, Handoff!Ask(w, n, r)
      PROVE v \in WakeUps' \cup overflowed' \/ (worker'.pc = "drain" /\ worker'.wc = v)
    BY <1>1 DEF Handoff!Ask
<1>2. ASSUME NEW w \in WCs, Handoff!Wake(w) \/ Handoff!Forget(w) \/ Handoff!Take(w)
      PROVE v \in WakeUps' \cup overflowed' \/ (worker'.pc = "drain" /\ worker'.wc = v)
    BY <1>2 DEF Handoff!Wake, Handoff!Forget, Handoff!Take, Handoff!Idle
<1>3. CASE Handoff!Abort \/ Handoff!Drain \/ Handoff!Finish
    BY <1>3 DEF Handoff!Abort, Handoff!Drain, Handoff!Finish, Handoff!Idle, Handoff!NoRequests,
                Handoff!NoRequest, NoRequests, NoRequest
<1>4. ASSUME NEW n \in Pods, Handoff!Apply(n) \/ Handoff!PutBack(n)
      PROVE v \in WakeUps' \cup overflowed' \/ (worker'.pc = "drain" /\ worker'.wc = v)
    BY <1>4 DEF Handoff!Apply, Handoff!PutBack
<1>5. CASE UNCHANGED Handoff!vars
    BY <1>5 DEF Handoff!vars
<1> QED
    BY <1>1, <1>2, <1>3, <1>4, <1>5 DEF Handoff!Next

\* No recorded lease request is left without a wake-up, for any number of
\* goroutines and any capacity of the channel, unless the channel was full.
THEOREM TrackerNoLostWakeUp == Spec => []NoLostWakeUp
BY TypeInvInit, TypeInvNext, WakeUpInit, WakeUpNext, PTL DEF Spec
=============================================================================
