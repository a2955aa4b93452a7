------------------------------- MODULE MCSpot -------------------------------
(***************************************************************************)
(* A small instance of SpotPlacement.                                      *)
(***************************************************************************)
EXTENDS SpotPlacement

Plan(ratio, action, min, max, budgets) ==
    [ratio |-> ratio, fallback |-> TRUE, action |-> action, min |-> min, max |-> max, budgets |-> budgets]

Percent(n) == [kind |-> "Percent", n |-> n]
Count(n)   == [kind |-> "Count", n |-> n]

MCPlans ==
    {Plan(50, "Active", 1, 2, {Percent(40), Count(2)}),
     Plan(100, "None", 1, None, {}),
     Plan(100, "Lazy", 1, 2, {}),
     [Plan(50, "Active", 1, None, {}) EXCEPT !.fallback = FALSE]}

Group(backoff) == [healthy |-> TRUE, backoff |-> backoff, error |-> FALSE]

\* A stockout: there is no Spot node, and the autoscaler cannot get one.
MCStarts == {[node |-> [n \in SpotNodes |-> "absent"], status |-> {Group(TRUE)}]}

MCStatuses == {{}, {Group(TRUE)}, {Group(FALSE)}}
=============================================================================
