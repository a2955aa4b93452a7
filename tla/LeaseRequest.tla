---------------------------- MODULE LeaseRequest ----------------------------
(***************************************************************************)
(* The lease requests the disruption webhook hands to the controller, and  *)
(* the rule by which PendingLeaseTracker.Enqueue records them              *)
(* (internal/utils/lease_tracker.go).                                      *)
(***************************************************************************)
EXTENDS Integers

CONSTANTS
    Subjects,       \* identities that may ask for a lease
    None            \* no owner, no WorkloadClass, no subject

\* A PendingLease: the Pod instance and the subject (the Pod's name and the
\* WorkloadClass are the keys it is stored under).
Request == [uid : Nat, subject : Subjects \cup {None}]

NoRequest == [uid |-> 0, subject |-> None]

\* Enqueue keeps the first request for a Pod instance, and replaces a request
\* for another instance of the same name.
Enqueued(old, new) ==
    IF old.subject = None \/ old.uid # new.uid THEN new ELSE old
=============================================================================
