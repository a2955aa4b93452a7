-------------------------- MODULE SelectorOverlap --------------------------
(***************************************************************************)
(* Whether two label selectors can select one Pod (internal/utils/         *)
(* selector.go), and what it means to be selected.                         *)
(*                                                                         *)
(* A selector is NilSelector or a set of requirements; a matchLabels entry *)
(* k: v is the requirement k In {v}, as LabelSelectorAsSelector reads it.  *)
(***************************************************************************)
CONSTANTS
    Keys,          \* label keys
    Values,        \* label values
    Other,         \* a value that no requirement names: label values are unbounded strings
    Absent,        \* the value of a label that is not set
    NilSelector    \* a selector that is not given

ASSUME LabelAssumption == Other \notin Values /\ Absent \notin Values \cup {Other}

Requirement == [key : Keys, op : {"In", "NotIn", "Exists", "DoesNotExist"}, values : SUBSET Values]

\* The part of metav1.LabelSelectorAsSelector that returns an error.
ValidSelector(sel) ==
    \A r \in sel : r.op \in {"In", "NotIn"} <=> r.values # {}

\* Mutant: NotIn is taken to require the label.
SatisfiableIfPresent(reqs) ==
    LET in     == {r \in reqs : r.op = "In"}
        absent == \E r \in reqs : r.op = "DoesNotExist"
    IN  IF absent THEN \A r \in reqs : r.op = "DoesNotExist"
        ELSE in # {} => \E v \in Values : /\ \A r \in in : v \in r.values
                                          /\ \A r \in reqs : r.op = "NotIn" => v \notin r.values

\* keyConstraint: what add accumulates over the requirements on one key, and satisfiable.
Satisfiable(reqs) ==
    LET in        == {r \in reqs : r.op = "In"}
        notIn     == UNION {r.values : r \in {q \in reqs : q.op = "NotIn"}}
        exists    == \E r \in reqs : r.op \in {"In", "Exists"}
        notExists == \E r \in reqs : r.op = "DoesNotExist"
    IN  IF notExists THEN ~exists
        ELSE in # {} => \E v \in Values \ notIn : \A r \in in : v \in r.values

SelectorsOverlap(a, b) ==
    /\ a # NilSelector /\ b # NilSelector
    /\ ValidSelector(a) /\ ValidSelector(b)   \* the error is "no overlap" to the caller
    /\ \A k \in Keys : Satisfiable({r \in a \cup b : r.key = k})

-----------------------------------------------------------------------------
(* The meaning of a selector, stated for a Pod's labels.  Kubernetes lets NotIn
   hold of a label that is absent; a selector that is not valid selects nothing. *)

LabelSets == [Keys -> Values \cup {Other, Absent}]

RequirementHolds(r, labels) ==
    CASE r.op = "In"           -> labels[r.key] \in r.values
      [] r.op = "NotIn"        -> labels[r.key] \notin r.values
      [] r.op = "Exists"       -> labels[r.key] # Absent
      [] r.op = "DoesNotExist" -> labels[r.key] = Absent

Selects(sel, labels) ==
    sel # NilSelector /\ ValidSelector(sel) /\ \A r \in sel : RequirementHolds(r, labels)

CanSelectOnePod(a, b) == \E labels \in LabelSets : Selects(a, labels) /\ Selects(b, labels)
=============================================================================
