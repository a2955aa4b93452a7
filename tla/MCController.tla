---------------------------- MODULE MCController ----------------------------
(***************************************************************************)
(* Small instances of WorkloadClassController.                             *)
(***************************************************************************)
EXTENDS WorkloadClassController, TLC

CONSTANTS w1, w2, p1, a, b

Sp(sel, specificity, override, bad) ==
    [sel |-> sel, specificity |-> specificity, override |-> override, bad |-> bad]

Symmetry == Permutations(Subjects)

MCAge == [w \in WCs |-> IF w = w1 THEN 1 ELSE 2]

Guarded == [cover |-> {}, enforced |-> None, guardrails |-> TRUE]

\* One class that selects every Pod.
OneSpec == [w \in WCs |-> {Sp(Labels, 1, FALSE, FALSE)}]

\* w1 selects every label; the more specific w2 only b, and may break a guardrail.
TwoClasses ==
    [w \in WCs |-> IF w = w1 THEN {Sp(Labels, 1, FALSE, FALSE)}
                   ELSE {Sp(Labels \ {a}, 2, FALSE, FALSE), Sp(Labels \ {a}, 2, FALSE, TRUE)}]
=============================================================================
