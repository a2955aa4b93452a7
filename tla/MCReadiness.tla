---------------------------- MODULE MCReadiness ----------------------------
(***************************************************************************)
(* Small instances of MaintenanceReadiness: days of four slots, weeks of   *)
(* three days, and a little more than a week of time.                      *)
(***************************************************************************)
EXTENDS MaintenanceReadiness, TLC

Symmetry == Permutations(Pods)

W(start, end, days, zone) == [start |-> start, end |-> end, days |-> days, zone |-> zone]

P(windows, max, run, grace) ==
    [windows |-> windows, maxNonDisruption |-> max, minInitialRun |-> run,
     grace |-> grace, override |-> FALSE]

\* Windows that start and end at different times, in UTC or a zone one slot away.
Proper == {w \in [start : {0, 1, 3}, end : {1, 2, 3}, days : {{}, {0}, {0, 2}}, zone : {0, 1}] : w.start # w.end}

\* Every window on its own, with another one, no window and one of whole days; Pod ages and
\* terminations, an early deadline and the override.
AllPolicies ==
    {P({w}, 5 * DayLen, 0, 2) : w \in Proper}
    \cup {P({W(3, 2, {0}, 0), w}, 5 * DayLen, 0, 2) : w \in {v \in Proper : v.zone = 1}}
    \cup {P({}, 5 * DayLen, 2, 0), P({W(2, 2, {}, 0)}, 5 * DayLen, 2, 0),
          P({W(1, 3, {}, 0)}, 5 * DayLen, 3, 2), P({W(3, 2, {0, 1}, 0)}, 2 * DayLen, 2, 2),
          [P({W(0, 1, {0}, 0)}, 5 * DayLen, 0, 2) EXCEPT !.override = TRUE]}
=============================================================================
