----------------------------- MODULE Guardrails -----------------------------
(***************************************************************************)
(* The rules a WorkloadClassGuardrail lays down and how the controllers    *)
(* and webhooks combine those of several guardrails: for the disruption    *)
(* policy of a class, for its capacity strategy, for a                     *)
(* GKESpotPlacementPolicy and for a guardrail itself.                      *)
(*                                                                         *)
(* A violation is named by the field it is about.  Guardrails are listed   *)
(* in a sequence, because the code folds over a list.                      *)
(***************************************************************************)
EXTENDS Integers, Sequences

CONSTANTS
    Days,      \* the days of the week
    Unset,     \* a field that is not given
    Invalid    \* a percentage or a mode that does not parse

Ratio  == 0 .. 100
Action == {"Active", "Lazy", "None"}

\* The spec of a class that guardrails look at: the days of each window, and the capacity strategy with
\* the defaults of the CRD filled in (Unset when the whole strategy is omitted).
DisruptionPolicy == [windows : Seq(SUBSET Days), maxDays : Nat]
CapacityStrategy == [type : {"Spot", "OnDemand"}, ratio : Ratio, fallback : {"Fail", "FallbackToOnDemand"}]

\* A reversion policy, its action defaulted to None.
Reversion == [action : Action, minDuration : Nat \cup {Unset}]

\* One guardrail.  parses is whether the plugin parameters survive strict decoding; the other fields after
\* maxDays mean something only then.
Guardrail ==
    [days : SUBSET Days, maxWindows : Nat, maxDays : Nat,
     parses : BOOLEAN,
     mode : {"Allowed", "Required", "Forbidden", Invalid},
     minSpotRatio : Ratio \cup {Unset, Invalid},
     allowFallback : BOOLEAN,
     maxFallbackRatio : [kind : {"Percent", "Count"}, n : Int] \cup {Unset},
     required : Action \cup {Unset},
     maxFallbackDuration : Int \cup {Unset}]

Elems(gs) == {gs[i] : i \in DOMAIN gs}
Least(S)  == CHOOSE n \in S : \A m \in S : n <= m

-----------------------------------------------------------------------------
(* The disruption policy of a class. *)

\* A window without days is active on every day, and so is a class without windows.
DaysOfWeekViolated(days, windows) ==
    /\ days # {}
    /\ \/ windows = <<>> /\ days # Days
       \/ \E w \in Elems(windows) : ~((IF w = {} THEN Days ELSE w) \subseteq days)

GuardrailViolations(dp, g) ==
    (IF DaysOfWeekViolated(g.days, dp.windows) THEN {"daysOfWeek"} ELSE {})
    \cup (IF g.maxWindows > 0 /\ Len(dp.windows) > g.maxWindows THEN {"maxAllowedWindows"} ELSE {})
    \cup (IF g.maxDays > 0 /\ (dp.maxDays <= 0 \/ dp.maxDays > g.maxDays)
          THEN {"maxNonDisruptionDurationDays"} ELSE {})

\* The smallest of several limits, 0 being no limit.
Strictest(limits) == IF limits \subseteq {0} THEN 0 ELSE Least(limits \ {0})

\* Mutant: the days of the guardrails are merged instead of intersected.
DisruptionViolationsOfUnion(dp, gs) ==
    GuardrailViolations(dp, [days       |-> UNION {g.days : g \in Elems(gs)},
                             maxWindows |-> Strictest({g.maxWindows : g \in Elems(gs)}),
                             maxDays    |-> Strictest({g.maxDays : g \in Elems(gs)})])

\* validateAgainstGuardrails: one effective guardrail, the strictest limit of each field.  An empty
\* intersection of days would read as "no restriction", so it is a violation of its own.
DisruptionViolations(dp, gs) ==
    LET restricting == {g \in Elems(gs) : g.days # {}}
        days        == {d \in Days : \A g \in restricting : d \in g.days}
    IN  (IF restricting # {} /\ days = {} THEN {"disjointDaysOfWeek"} ELSE {})
        \cup GuardrailViolations(dp, [days       |-> IF restricting = {} THEN {} ELSE days,
                                      maxWindows |-> Strictest({g.maxWindows : g \in Elems(gs)}),
                                      maxDays    |-> Strictest({g.maxDays : g \in Elems(gs)})])

-----------------------------------------------------------------------------
(* The capacity strategy of a class. *)

NoCapacityConstraints == [mode |-> "Allowed", minSpotRatio |-> 0, allowFallback |-> TRUE, failed |-> FALSE]

\* Mutant: the last guardrail decides the mode.
TightenedToLast(c, g) ==
    IF ~g.parses \/ g.minSpotRatio = Invalid THEN [c EXCEPT !.failed = TRUE]
    ELSE [mode          |-> IF g.mode \in {"Required", "Forbidden"} THEN g.mode ELSE c.mode,
          minSpotRatio  |-> IF g.minSpotRatio # Unset /\ g.minSpotRatio > c.minSpotRatio THEN g.minSpotRatio
                            ELSE c.minSpotRatio,
          allowFallback |-> c.allowFallback /\ g.allowFallback /\ (g.maxFallbackRatio # Unset => g.maxFallbackRatio.n # 0),
          failed        |-> c.failed \/ g.mode = Invalid]

\* applyPlacementCapacityConstraints: what one guardrail adds to the constraints so far.  A ratio that does
\* not parse ends the guardrail's turn before its fallback rules are read.
Tightened(c, g) ==
    LET mode  == IF g.mode = "Forbidden" \/ (g.mode = "Required" /\ c.mode # "Forbidden") THEN g.mode ELSE c.mode
        floor == IF g.mode = "Forbidden" THEN 0 ELSE c.minSpotRatio
    IN  IF ~g.parses THEN [c EXCEPT !.failed = TRUE]
        ELSE IF g.minSpotRatio = Invalid
        THEN [c EXCEPT !.mode = mode, !.minSpotRatio = floor, !.failed = TRUE]
        ELSE [mode          |-> mode,
              minSpotRatio  |-> IF mode # "Forbidden" /\ g.minSpotRatio # Unset /\ g.minSpotRatio > floor
                                THEN g.minSpotRatio ELSE floor,
              allowFallback |-> /\ c.allowFallback /\ g.allowFallback
                                /\ g.maxFallbackRatio # Unset => g.maxFallbackRatio.n # 0,
              failed        |-> c.failed \/ g.mode = Invalid]

GuardrailCapacityConstraints(gs) ==
    LET upTo[i \in 0 .. Len(gs)] ==
            IF i = 0 THEN NoCapacityConstraints ELSE Tightened(upTo[i - 1], gs[i])
    IN  upTo[Len(gs)]

\* validateCapacityStrategy.
CapacityViolations(cs, gs) ==
    LET c     == GuardrailCapacityConstraints(gs)
        ratio == IF cs.type = "OnDemand" THEN 0 ELSE cs.ratio
    IN  (IF c.failed THEN {"parameters"} ELSE {})
        \cup IF cs = Unset THEN IF c.mode = "Required" THEN {"capacityStrategy"} ELSE {}
             ELSE (IF c.mode = "Required" /\ (cs.type # "Spot" \/ ratio = 0) THEN {"required"} ELSE {})
                  \cup (IF c.mode = "Forbidden" /\ cs.type = "Spot" THEN {"forbidden"} ELSE {})
                  \cup (IF cs.type = "Spot" /\ ratio < c.minSpotRatio THEN {"spotRatio"} ELSE {})
                  \cup (IF ~c.allowFallback /\ cs.fallback = "FallbackToOnDemand" THEN {"fallback"} ELSE {})

-----------------------------------------------------------------------------
(* A GKESpotPlacementPolicy, and what the guardrails ask of Pods in fallback. *)

Parsed(gs) == {g \in Elems(gs) : g.parses}

\* validateSpotPolicyAgainstGuardrails.
PolicyViolations(rev, gs) ==
    (IF \E g \in Elems(gs) : ~g.parses THEN {"parameters"} ELSE {})
    \cup (IF \E g \in Parsed(gs) : g.mode = "Forbidden" THEN {"forbidden"} ELSE {})
    \cup (IF \E g \in Parsed(gs) : g.required \notin {Unset, rev.action} THEN {"requiredReversionAction"} ELSE {})
    \cup (IF rev.action = "None" /\ \E g \in Parsed(gs) : g.maxFallbackDuration # Unset
          THEN {"maxFallbackDuration"} ELSE {})
    \cup (IF rev.minDuration # Unset
             /\ \E g \in Parsed(gs) : g.maxFallbackDuration # Unset /\ rev.minDuration > g.maxFallbackDuration
          THEN {"minDurationOnFallback"} ELSE {})

\* guardrailMaxFallbackDuration: the smallest, or Unset.
GuardrailMaxFallbackDuration(gs) ==
    LET limits == {g.maxFallbackDuration : g \in {h \in Parsed(gs) : h.maxFallbackDuration # Unset}}
        usable == {d \in limits : d >= 0}
    IN  IF usable = {} THEN Unset ELSE Least(usable)

\* fallbackBudgets.
FallbackBudgets(gs) == {g.maxFallbackRatio : g \in Parsed(gs)} \ {Unset}

\* Mutant: required None is accepted together with a maxFallbackDuration.
GuardrailAcceptedFieldByField(g) ==
    /\ g.parses /\ g.mode # Invalid /\ g.minSpotRatio # Invalid
    /\ g.maxFallbackRatio # Unset => g.maxFallbackRatio.n >= 0
    /\ g.maxFallbackDuration # Unset => g.maxFallbackDuration >= 0

\* validateGKESpotGuardrailParameters and its combinations: what the admission webhook lets in.
GuardrailAccepted(g) ==
    /\ g.parses /\ g.mode # Invalid /\ g.minSpotRatio # Invalid
    /\ g.maxFallbackRatio # Unset => /\ g.maxFallbackRatio.n >= 0
                                     /\ g.maxFallbackRatio.kind = "Percent" => g.maxFallbackRatio.n <= 100
                                     /\ ~g.allowFallback => g.maxFallbackRatio.n = 0
    /\ g.maxFallbackDuration # Unset => g.maxFallbackDuration >= 0 /\ g.required # "None"
    /\ g.minSpotRatio # Unset => /\ g.mode = "Required"  => g.minSpotRatio > 0
                                 /\ g.mode = "Forbidden" => g.minSpotRatio = 0

-----------------------------------------------------------------------------
(* What the README promises of several guardrails: each one is respected, and a
   guardrail that forbids Spot takes precedence over one that requires it. *)

RespectsDisruption(dp, gs) == \A g \in Elems(gs) : GuardrailViolations(dp, g) = {}

RespectsCapacity(cs, gs) ==
    LET spot      == cs # Unset /\ cs.type = "Spot"
        forbidden == \E g \in Parsed(gs) : g.mode = "Forbidden"
    IN  /\ \A g \in Elems(gs) : g.parses /\ g.mode # Invalid /\ g.minSpotRatio # Invalid
        /\ forbidden => ~spot
        /\ (~forbidden /\ \E g \in Parsed(gs) : g.mode = "Required") => spot /\ cs.ratio > 0
        /\ spot => \A g \in Parsed(gs) : g.minSpotRatio # Unset => cs.ratio >= g.minSpotRatio
        /\ (cs # Unset /\ cs.fallback = "FallbackToOnDemand") =>
               \A g \in Parsed(gs) : /\ g.allowFallback
                                     /\ g.maxFallbackRatio # Unset => g.maxFallbackRatio.n # 0
=============================================================================
