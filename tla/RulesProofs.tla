---------------------------- MODULE RulesProofs ----------------------------
(***************************************************************************)
(* That the combined checks of Guardrails accept exactly what each         *)
(* guardrail on its own accepts, for any guardrails and any number of      *)
(* them, and that SelectorOverlap finds an overlap exactly if one Pod can  *)
(* be selected by both selectors.                                          *)
(***************************************************************************)
EXTENDS Guardrails, SelectorOverlap, WellFoundedInduction, TLAPS

-----------------------------------------------------------------------------
(* A disruption policy and several guardrails. *)

\* A set of natural numbers that is not empty has a least element.
LEMMA LeastType ==
    ASSUME NEW S \in SUBSET Nat, S # {}
    PROVE  Least(S) \in S /\ \A m \in S : Least(S) <= m
<1>1. PICK x \in S : \A y \in S : ~(<<y, x>> \in OpToRel(<, Nat))
    BY NatLessThanWellFounded, WFMin
<1>2. \A y \in S : x <= y
    <2> SUFFICES ASSUME NEW y \in S, ~(x <= y) PROVE FALSE
        OBVIOUS
    <2>1. y < x /\ <<y, x>> \in Nat \X Nat
        OBVIOUS
    <2> QED
        BY <1>1, <2>1 DEF OpToRel
<1> QED
    BY <1>1, <1>2 DEF Least

\* The strictest limit is exceeded exactly if one of the limits is.
LEMMA StrictestExact ==
    ASSUME NEW limits \in SUBSET Nat, NEW x \in Nat
    PROVE  /\ Strictest(limits) \in Nat
           /\ Strictest(limits) > 0 <=> \E n \in limits : n > 0
           /\ (Strictest(limits) > 0 /\ x > Strictest(limits)) <=> \E n \in limits : n > 0 /\ x > n
<1>1. CASE limits \subseteq {0}
    BY <1>1 DEF Strictest
<1>2. CASE ~(limits \subseteq {0})
    <2> DEFINE S == limits \ {0}
    <2>1. S \in SUBSET Nat /\ S # {}
        BY <1>2
    <2>2. Least(S) \in S /\ \A m \in S : Least(S) <= m
        BY <2>1, LeastType
    <2>3. Strictest(limits) = Least(S)
        BY <1>2 DEF Strictest
    <2>4. \A n \in limits : n > 0 <=> n \in S
        OBVIOUS
    <2>5. PICK least \in Nat : least = Least(S) /\ least \in S /\ least > 0
        BY <2>1, <2>2, <2>4
    <2>6. \A m \in S : m \in Nat /\ least <= m
        BY <2>1, <2>2, <2>5
    <2>7. \A n \in S : n \in limits
        OBVIOUS
    <2> HIDE DEF S
    <2> QED
        BY <2>3, <2>4, <2>5, <2>6, <2>7
<1> QED
    BY <1>1, <1>2

\* The days all restricting guardrails allow are respected exactly if those of each are.
LEMMA DaysExact ==
    ASSUME NEW windows \in Seq(SUBSET Days), NEW all \in SUBSET Guardrail
    PROVE  LET restricting == {g \in all : g.days # {}}
               days        == {d \in Days : \A g \in restricting : d \in g.days}
           IN  ~(restricting # {} /\ days = {}) /\ ~DaysOfWeekViolated(IF restricting = {} THEN {} ELSE days, windows)
               <=> \A g \in all : ~DaysOfWeekViolated(g.days, windows)
<1> DEFINE restricting == {g \in all : g.days # {}}
           days        == {d \in Days : \A g \in restricting : d \in g.days}
           active(w)   == IF w = {} THEN Days ELSE w
<1>1. \A g \in all : g.days \in SUBSET Days
    BY DEF Guardrail
<1>2. \A w \in Elems(windows) : active(w) \in SUBSET Days
    BY DEF Elems
<1>3. windows # <<>> => Elems(windows) # {}
    <2>1. windows # <<>> => 1 \in DOMAIN windows
        OBVIOUS
    <2> QED
        BY <2>1 DEF Elems
<1>4. CASE restricting = {}
    BY <1>4 DEF DaysOfWeekViolated
<1>5. CASE restricting # {}
    <2>1. \A D \in SUBSET Days : D # {} =>
            (~DaysOfWeekViolated(D, windows) <=>
                /\ windows = <<>> => D = Days
                /\ \A w \in Elems(windows) : active(w) \subseteq D)
        BY DEF DaysOfWeekViolated
    <2>2. ASSUME days # {}, ~DaysOfWeekViolated(days, windows), NEW g \in all
          PROVE  ~DaysOfWeekViolated(g.days, windows)
        <3>1. CASE g.days = {}
            BY <3>1 DEF DaysOfWeekViolated
        <3>2. CASE g.days # {}
            <4>1. days \subseteq g.days /\ g.days \in SUBSET Days /\ days \in SUBSET Days
                BY <1>1, <3>2
            <4>2. /\ windows = <<>> => days = Days
                  /\ \A w \in Elems(windows) : active(w) \subseteq days
                BY <2>1, <2>2, <4>1
            <4> HIDE DEF active, days
            <4>3. /\ windows = <<>> => g.days = Days
                  /\ \A w \in Elems(windows) : active(w) \subseteq g.days
                BY <4>1, <4>2
            <4> QED
                BY <2>1, <3>2, <4>1, <4>3
        <3> QED
            BY <3>1, <3>2
    <2>3. ASSUME \A g \in all : ~DaysOfWeekViolated(g.days, windows)
          PROVE  days # {} /\ ~DaysOfWeekViolated(days, windows)
        <3>1. \A g \in restricting : /\ windows = <<>> => g.days = Days
                                     /\ \A w \in Elems(windows) : active(w) \subseteq g.days
            BY <1>1, <2>1, <2>3
        <3>2. /\ windows = <<>> => days = Days
              /\ \A w \in Elems(windows) : active(w) \subseteq days
            BY <1>2, <3>1
        <3>3. Days # {}
            BY <1>1, <1>5
        <3>4. \A w \in Elems(windows) : active(w) # {}
            BY <3>3
        <3>5. days # {}
            <4>1. CASE windows = <<>>
                BY <3>2, <3>3, <4>1
            <4>2. CASE windows # <<>>
                <5>1. PICK w \in Elems(windows) : TRUE
                    BY <1>3, <4>2
                <5>2. active(w) \subseteq days /\ active(w) # {}
                    BY <3>2, <3>4, <5>1
                <5> HIDE DEF active, days
                <5> QED
                    BY <5>2
            <4> QED
                BY <4>1, <4>2
        <3> QED
            BY <2>1, <3>2, <3>5
    <2> QED
        BY <1>5, <2>2, <2>3
<1> QED
    BY <1>4, <1>5

\* One effective guardrail says the same as each guardrail on its own.
LEMMA DisruptionExact ==
    ASSUME NEW dp \in DisruptionPolicy, NEW list, Elems(list) \subseteq Guardrail
    PROVE  DisruptionViolations(dp, list) = {} <=> RespectsDisruption(dp, list)
<1> DEFINE all         == Elems(list)
           restricting == {g \in all : g.days # {}}
           days        == {d \in Days : \A g \in restricting : d \in g.days}
           effDays     == IF restricting = {} THEN {} ELSE days
           windows     == {g.maxWindows : g \in all}
           maxDays     == {g.maxDays : g \in all}
<1>1. dp.windows \in Seq(SUBSET Days) /\ dp.maxDays \in Nat /\ Len(dp.windows) \in Nat
    BY DEF DisruptionPolicy
<1>2. windows \in SUBSET Nat /\ maxDays \in SUBSET Nat
    BY DEF Guardrail
<1>3. \A g : GuardrailViolations(dp, g) = {} <=>
          /\ ~DaysOfWeekViolated(g.days, dp.windows)
          /\ ~(g.maxWindows > 0 /\ Len(dp.windows) > g.maxWindows)
          /\ ~(g.maxDays > 0 /\ (dp.maxDays <= 0 \/ dp.maxDays > g.maxDays))
    BY DEF GuardrailViolations
<1> DEFINE effective == [days |-> effDays, maxWindows |-> Strictest(windows), maxDays |-> Strictest(maxDays)]
<1>4. DisruptionViolations(dp, list) = {} <=>
          /\ ~(restricting # {} /\ days = {})
          /\ ~DaysOfWeekViolated(effDays, dp.windows)
          /\ ~(Strictest(windows) > 0 /\ Len(dp.windows) > Strictest(windows))
          /\ ~(Strictest(maxDays) > 0 /\ (dp.maxDays <= 0 \/ dp.maxDays > Strictest(maxDays)))
    <2>1. DisruptionViolations(dp, list) =
            (IF restricting # {} /\ days = {} THEN {"disjointDaysOfWeek"} ELSE {}) \cup GuardrailViolations(dp, effective)
        BY DEF DisruptionViolations
    <2>2. /\ effective.days = effDays
          /\ effective.maxWindows = Strictest(windows) /\ effective.maxDays = Strictest(maxDays)
        OBVIOUS
    <2> HIDE DEF restricting, days, effDays, windows, maxDays, effective
    <2>3. DisruptionViolations(dp, list) = {} <=>
            ~(restricting # {} /\ days = {}) /\ GuardrailViolations(dp, effective) = {}
        BY <2>1
    <2> QED
        BY <1>3, <2>2, <2>3
<1>5. ~(restricting # {} /\ days = {}) /\ ~DaysOfWeekViolated(effDays, dp.windows)
        <=> \A g \in all : ~DaysOfWeekViolated(g.days, dp.windows)
    BY <1>1, DaysExact
<1>6. (Strictest(windows) > 0 /\ Len(dp.windows) > Strictest(windows))
        <=> \E g \in all : g.maxWindows > 0 /\ Len(dp.windows) > g.maxWindows
    BY <1>1, <1>2, StrictestExact
<1>7. (Strictest(maxDays) > 0 /\ (dp.maxDays <= 0 \/ dp.maxDays > Strictest(maxDays)))
        <=> \E g \in all : g.maxDays > 0 /\ (dp.maxDays <= 0 \/ dp.maxDays > g.maxDays)
    BY <1>1, <1>2, StrictestExact
<1> QED
    BY <1>3, <1>4, <1>5, <1>6, <1>7 DEF RespectsDisruption

-----------------------------------------------------------------------------
(* A capacity strategy and several guardrails.  guardrailCapacityConstraints goes
   through the list once; the proof is by induction on the length of the part it
   has seen, in the form that a least counterexample does not exist. *)

Constraints ==
    [mode : {"Allowed", "Required", "Forbidden"}, minSpotRatio : Ratio, allowFallback : BOOLEAN, failed : BOOLEAN]

\* Ratios are numbers.
LEMMA RatioIsNat == \A x \in Ratio : x \in Int /\ (x > 0 <=> x # 0)
BY DEF Ratio

\* A guardrail that guardrailCapacityConstraints can use.
Usable(g) == g.parses /\ g.mode # Invalid /\ g.minSpotRatio # Invalid

AllowsFallback(g) == g.allowFallback /\ (g.maxFallbackRatio # Unset => g.maxFallbackRatio.n # 0)

\* What the constraints say about the guardrails G they were folded from.
Folded(c, G) ==
    /\ c \in Constraints
    /\ c.failed <=> \E g \in G : ~Usable(g)
    /\ ~c.failed =>
          /\ c.mode = "Forbidden" <=> \E g \in G : g.mode = "Forbidden"
          /\ c.mode = "Required"  <=> (\E g \in G : g.mode = "Required") /\ ~ \E g \in G : g.mode = "Forbidden"
          /\ c.mode # "Forbidden" => \A x \in Ratio :
                x < c.minSpotRatio <=> \E g \in G : g.minSpotRatio # Unset /\ x < g.minSpotRatio
          /\ c.allowFallback <=> \A g \in G : AllowsFallback(g)

\* Before the first guardrail.
LEMMA FoldedEmpty == Folded(NoCapacityConstraints, {})
BY DEF Folded, NoCapacityConstraints, Constraints, Ratio

\* Whatever a guardrail adds, the constraints stay constraints.
LEMMA TightenedType ==
    ASSUME NEW c \in Constraints, NEW g \in Guardrail
    PROVE  Tightened(c, g) \in Constraints
<1> DEFINE mode  == IF g.mode = "Forbidden" \/ (g.mode = "Required" /\ c.mode # "Forbidden") THEN g.mode ELSE c.mode
           floor == IF g.mode = "Forbidden" THEN 0 ELSE c.minSpotRatio
           ratio == IF mode # "Forbidden" /\ g.minSpotRatio # Unset /\ g.minSpotRatio > floor
                    THEN g.minSpotRatio ELSE floor
           allow == c.allowFallback /\ g.allowFallback /\ (g.maxFallbackRatio # Unset => g.maxFallbackRatio.n # 0)
           fail  == c.failed \/ g.mode = Invalid
<1>1. mode \in {"Allowed", "Required", "Forbidden"} /\ floor \in Ratio
    BY DEF Constraints, Ratio
<1>2. allow \in BOOLEAN /\ fail \in BOOLEAN
    BY Zenon
<1>3. CASE ~g.parses
    <2>1. Tightened(c, g) = [c EXCEPT !.failed = TRUE]
        BY <1>3 DEF Tightened
    <2> QED
        BY <2>1 DEF Constraints
<1>4. CASE g.parses /\ g.minSpotRatio = Invalid
    <2>1. Tightened(c, g) = [c EXCEPT !.mode = mode, !.minSpotRatio = floor, !.failed = TRUE]
        BY <1>4 DEF Tightened
    <2> HIDE DEF mode, floor
    <2> QED
        BY <1>1, <2>1 DEF Constraints
<1>5. CASE g.parses /\ g.minSpotRatio # Invalid
    <2>1. Tightened(c, g) = [mode |-> mode, minSpotRatio |-> ratio, allowFallback |-> allow, failed |-> fail]
        BY <1>5 DEF Tightened
    <2>2. ratio \in Ratio
        BY <1>1, <1>5 DEF Guardrail
    <2> HIDE DEF mode, ratio, allow, fail
    <2> QED
        BY <1>1, <1>2, <2>1, <2>2 DEF Constraints
<1> QED
    BY <1>3, <1>4, <1>5

\* One more guardrail.
LEMMA FoldedNext ==
    ASSUME NEW G \in SUBSET Guardrail, NEW c, Folded(c, G), NEW g \in Guardrail
    PROVE  Folded(Tightened(c, g), G \cup {g})
<1> DEFINE t == Tightened(c, g)
<1>1. c \in Constraints /\ t \in Constraints
    BY TightenedType DEF Folded
<1>2. CASE ~g.parses \/ g.minSpotRatio = Invalid
    <2>1. t.failed
        BY <1>1, <1>2 DEF Tightened, Constraints
    <2> QED
        BY <1>1, <1>2, <2>1 DEF Folded, Usable
<1>3. CASE g.parses /\ g.minSpotRatio # Invalid
    <2> DEFINE mode  == IF g.mode = "Forbidden" \/ (g.mode = "Required" /\ c.mode # "Forbidden") THEN g.mode ELSE c.mode
               floor == IF g.mode = "Forbidden" THEN 0 ELSE c.minSpotRatio
    <2>1. /\ t.mode = mode
          /\ t.minSpotRatio = IF mode # "Forbidden" /\ g.minSpotRatio # Unset /\ g.minSpotRatio > floor
                              THEN g.minSpotRatio ELSE floor
          /\ t.allowFallback <=> c.allowFallback /\ AllowsFallback(g)
          /\ t.failed <=> c.failed \/ g.mode = Invalid
        BY <1>3 DEF Tightened, AllowsFallback
    <2> HIDE DEF t
    <2>2. t.failed <=> \E h \in G \cup {g} : ~Usable(h)
        BY <1>3, <2>1 DEF Folded, Usable
    <2>3. ASSUME ~t.failed
          PROVE  /\ t.mode = "Forbidden" <=> \E h \in G \cup {g} : h.mode = "Forbidden"
                 /\ t.mode = "Required" <=> /\ \E h \in G \cup {g} : h.mode = "Required"
                                            /\ ~ \E h \in G \cup {g} : h.mode = "Forbidden"
        BY <2>1, <2>3 DEF Folded
    <2>4. ASSUME ~t.failed PROVE t.allowFallback <=> \A h \in G \cup {g} : AllowsFallback(h)
        BY <2>1, <2>4 DEF Folded
    <2>5. ASSUME ~t.failed, t.mode # "Forbidden", NEW x \in Ratio
          PROVE  x < t.minSpotRatio <=> \E h \in G \cup {g} : h.minSpotRatio # Unset /\ x < h.minSpotRatio
        <3>1. c.mode # "Forbidden" /\ g.mode # "Forbidden" /\ ~c.failed
            BY <2>1, <2>5
        <3>2. x < c.minSpotRatio <=> \E h \in G : h.minSpotRatio # Unset /\ x < h.minSpotRatio
            BY <3>1 DEF Folded
        <3>3. t.minSpotRatio = IF g.minSpotRatio # Unset /\ g.minSpotRatio > c.minSpotRatio
                               THEN g.minSpotRatio ELSE c.minSpotRatio
            BY <2>1, <2>5, <3>1
        <3>4. x \in Int /\ c.minSpotRatio \in Int /\ (g.minSpotRatio # Unset => g.minSpotRatio \in Int)
            BY <1>1, <1>3 DEF Constraints, Ratio, Guardrail
        <3>5. x < t.minSpotRatio <=> x < c.minSpotRatio \/ (g.minSpotRatio # Unset /\ x < g.minSpotRatio)
            BY <3>3, <3>4
        <3> QED
            BY <3>2, <3>5
    <2>6. t \in Constraints
        BY <1>1
    <2>7. Folded(t, G \cup {g})
        BY <2>2, <2>3, <2>4, <2>5, <2>6 DEF Folded
    <2> QED
        BY <2>7 DEF t
<1> QED
    BY <1>2, <1>3

\* The constraints after each guardrail of the list.
Steps(f, list, n) ==
    /\ f \in [0 .. n -> Constraints]
    /\ f[0] = NoCapacityConstraints
    /\ \A i \in 1 .. n : f[i] = Tightened(f[i - 1], list[i])

\* The recursion of GuardrailCapacityConstraints defines something.
LEMMA StepsExist ==
    ASSUME NEW list \in Seq(Guardrail)
    PROVE  \E f : Steps(f, list, Len(list))
<1> DEFINE Bad == {n \in 0 .. Len(list) : ~ \E f : Steps(f, list, n)}
<1>0. Len(list) \in 0 .. Len(list)
    OBVIOUS
<1>1. SUFFICES ASSUME Bad # {} PROVE FALSE
    BY <1>0
<1>2. PICK m \in Bad : \A n \in Bad : m <= n
    <2>1. Bad \in SUBSET Nat
        OBVIOUS
    <2> HIDE DEF Bad
    <2> QED
        BY <1>1, <2>1, LeastType
<1>3. m # 0
    <2> DEFINE f == [i \in 0 .. 0 |-> NoCapacityConstraints]
    <2>1. Steps(f, list, 0)
        BY FoldedEmpty DEF Steps, Folded
    <2> QED
        BY <1>2, <2>1
<1>4. m - 1 \in 0 .. Len(list) /\ m \in 1 .. Len(list) /\ m - 1 \notin Bad
    BY <1>2, <1>3
<1>5. PICK f : Steps(f, list, m - 1)
    BY <1>4
<1> DEFINE h == [i \in 0 .. m |-> IF i < m THEN f[i] ELSE Tightened(f[m - 1], list[m])]
<1>6. Tightened(f[m - 1], list[m]) \in Constraints
    BY <1>4, <1>5, TightenedType DEF Steps
<1>7. h \in [0 .. m -> Constraints]
    BY <1>4, <1>5, <1>6 DEF Steps
<1>8. ASSUME NEW i \in 1 .. m PROVE h[i] = Tightened(h[i - 1], list[i])
    <2>1. CASE i = m
        BY <1>4, <2>1
    <2>2. CASE i < m
        BY <1>4, <1>5, <2>2 DEF Steps
    <2> QED
        BY <1>4, <2>1, <2>2
<1>9. h[0] = NoCapacityConstraints
    BY <1>4, <1>5 DEF Steps
<1>10. Steps(h, list, m)
    BY <1>7, <1>8, <1>9 DEF Steps
<1> QED
    BY <1>2, <1>10

\* It defines the last of these steps.
LEMMA ConstraintsAreLastStep ==
    ASSUME NEW list \in Seq(Guardrail)
    PROVE  \E f : Steps(f, list, Len(list)) /\ GuardrailCapacityConstraints(list) = f[Len(list)]
<1> DEFINE Next1(f) == [i \in 0 .. Len(list) |-> IF i = 0 THEN NoCapacityConstraints ELSE Tightened(f[i - 1], list[i])]
           upTo == CHOOSE f : f = Next1(f)
<1>1. PICK f : Steps(f, list, Len(list))
    BY StepsExist
<1>2. f = Next1(f)
    BY <1>1 DEF Steps
<1>3. upTo = Next1(upTo)
    BY <1>2
<1>4. GuardrailCapacityConstraints(list) = upTo[Len(list)]
    BY DEF GuardrailCapacityConstraints
<1> HIDE DEF upTo
<1>5. ASSUME NEW i \in 0 .. Len(list)
      PROVE  upTo[i] = IF i = 0 THEN NoCapacityConstraints ELSE Tightened(upTo[i - 1], list[i])
    BY <1>3
<1>6. \A i \in 0 .. Len(list) : upTo[i] = f[i]
    <2> DEFINE Bad == {i \in 0 .. Len(list) : upTo[i] # f[i]}
    <2>1. SUFFICES ASSUME Bad # {} PROVE FALSE
        OBVIOUS
    <2>2. PICK m \in Bad : \A n \in Bad : m <= n
        <3>1. Bad \in SUBSET Nat
            OBVIOUS
        <3> HIDE DEF Bad
        <3> QED
            BY <2>1, <3>1, LeastType
    <2>3. m # 0
        BY <1>1, <1>5, <2>2 DEF Steps
    <2>4. m - 1 \in 0 .. Len(list) /\ m \in 1 .. Len(list) /\ m - 1 \notin Bad
        BY <2>2, <2>3
    <2>5. upTo[m] = Tightened(upTo[m - 1], list[m]) /\ f[m] = Tightened(f[m - 1], list[m])
        BY <1>1, <1>5, <2>3, <2>4 DEF Steps
    <2> QED
        BY <2>2, <2>4, <2>5
<1>7. Len(list) \in 0 .. Len(list)
    OBVIOUS
<1> QED
    BY <1>1, <1>4, <1>6, <1>7

\* So the constraints are what Folded says of all guardrails of the list.
LEMMA ConstraintsFolded ==
    ASSUME NEW list \in Seq(Guardrail)
    PROVE  Folded(GuardrailCapacityConstraints(list), Elems(list))
<1>1. PICK f : Steps(f, list, Len(list)) /\ GuardrailCapacityConstraints(list) = f[Len(list)]
    BY ConstraintsAreLastStep
<1> DEFINE Seen(n) == {list[i] : i \in 1 .. n}
           Bad     == {n \in 0 .. Len(list) : ~Folded(f[n], Seen(n))}
<1>2. Bad = {}
    <2>1. SUFFICES ASSUME Bad # {} PROVE FALSE
        OBVIOUS
    <2>2. PICK m \in Bad : \A n \in Bad : m <= n
        <3>1. Bad \in SUBSET Nat
            OBVIOUS
        <3> HIDE DEF Bad
        <3> QED
            BY <2>1, <3>1, LeastType
    <2>3. m # 0
        <3>1. Seen(0) = {}
            OBVIOUS
        <3>2. f[0] = NoCapacityConstraints
            BY <1>1 DEF Steps
        <3> HIDE DEF Seen
        <3> QED
            BY <2>2, <3>1, <3>2, FoldedEmpty
    <2>4. m - 1 \in 0 .. Len(list) /\ m \in 1 .. Len(list) /\ m - 1 \notin Bad
        <3>1. m \in 0 .. Len(list)
            BY <2>2
        <3> HIDE DEF Bad
        <3> QED
            BY <2>2, <2>3, <3>1
    <2>5. Folded(f[m - 1], Seen(m - 1)) /\ f[m] = Tightened(f[m - 1], list[m])
        BY <1>1, <2>4 DEF Steps
    <2>6. Seen(m - 1) \in SUBSET Guardrail /\ list[m] \in Guardrail
        BY <2>4
    <2>7. Seen(m) = Seen(m - 1) \cup {list[m]}
        BY <2>4
    <2> HIDE DEF Seen
    <2>8. Folded(f[m], Seen(m))
        BY <2>5, <2>6, <2>7, FoldedNext
    <2> QED
        BY <2>2, <2>8
<1>3. Elems(list) = Seen(Len(list))
    BY DEF Elems
<1>4. Len(list) \in 0 .. Len(list)
    OBVIOUS
<1> HIDE DEF Seen
<1> QED
    BY <1>1, <1>2, <1>3, <1>4

\* Accepted by the folded constraints is respected by every guardrail.
LEMMA CapacityExact ==
    ASSUME NEW cs \in CapacityStrategy \cup {Unset}, NEW list \in Seq(Guardrail)
    PROVE  CapacityViolations(cs, list) = {} <=> RespectsCapacity(cs, list)
<1> DEFINE c     == GuardrailCapacityConstraints(list)
           all   == Elems(list)
           ratio == IF cs.type = "OnDemand" THEN 0 ELSE cs.ratio
           forbidden == \E g \in all : g.mode = "Forbidden"
           required  == \E g \in all : g.mode = "Required"
<1>1. Folded(c, all) /\ all \subseteq Guardrail
    BY ConstraintsFolded DEF Elems
<1>2. CapacityViolations(cs, list) = {} <=>
        /\ ~c.failed
        /\ cs = Unset => c.mode # "Required"
        /\ cs # Unset => /\ ~(c.mode = "Required" /\ (cs.type # "Spot" \/ ratio = 0))
                         /\ ~(c.mode = "Forbidden" /\ cs.type = "Spot")
                         /\ ~(cs.type = "Spot" /\ ratio < c.minSpotRatio)
                         /\ ~(~c.allowFallback /\ cs.fallback = "FallbackToOnDemand")
    <2> HIDE DEF c, ratio
    <2> QED
        BY DEF CapacityViolations, c, ratio
<1> HIDE DEF c
<1>3. CASE c.failed
    <2>1. ~RespectsCapacity(cs, list)
        BY <1>1, <1>3 DEF Folded, Usable, RespectsCapacity
    <2> QED
        BY <1>2, <1>3, <2>1
<1>4. CASE ~c.failed
    <2>1. \A g \in all : Usable(g)
        BY <1>1, <1>4 DEF Folded
    <2>2. Parsed(list) = all
        BY <2>1 DEF Parsed, Usable
    <2>3. /\ c.mode = "Forbidden" <=> forbidden
          /\ c.mode = "Required" <=> required /\ ~forbidden
          /\ c.allowFallback <=> \A g \in all : AllowsFallback(g)
        BY <1>1, <1>4 DEF Folded
    <2>4. RespectsCapacity(cs, list) <=>
            LET spot == cs # Unset /\ cs.type = "Spot" IN
            /\ forbidden => ~spot
            /\ ~forbidden /\ required => spot /\ cs.ratio > 0
            /\ spot => \A g \in all : g.minSpotRatio # Unset => cs.ratio >= g.minSpotRatio
            /\ (cs # Unset /\ cs.fallback = "FallbackToOnDemand") => \A g \in all : AllowsFallback(g)
        BY <2>1, <2>2 DEF RespectsCapacity, Usable, AllowsFallback
    <2> HIDE DEF all, forbidden, required
    <2>5. CASE cs = Unset
        BY <1>2, <1>4, <2>3, <2>4, <2>5
    <2>6. CASE cs # Unset /\ cs.type # "Spot"
        BY <1>2, <1>4, <2>3, <2>4, <2>6
    <2>7. CASE cs # Unset /\ cs.type = "Spot"
        <3>1. ratio = cs.ratio /\ cs.ratio \in Ratio /\ cs.ratio \in Int /\ (cs.ratio > 0 <=> cs.ratio # 0)
            <4>1. cs \in CapacityStrategy
                BY <2>7
            <4>2. cs.ratio \in Ratio /\ ratio = cs.ratio
                BY <2>7, <4>1 DEF CapacityStrategy
            <4> QED
                BY <4>2, RatioIsNat
        <3>2. \A g \in all : g.minSpotRatio # Unset => g.minSpotRatio \in Int
            <4>1. \A g \in all : g.minSpotRatio \in Ratio \cup {Unset, Invalid} /\ g.minSpotRatio # Invalid
                BY <1>1, <2>1 DEF Guardrail, Usable
            <4> QED
                BY <4>1, RatioIsNat
        <3>3. ASSUME c.mode # "Forbidden"
              PROVE  ~(ratio < c.minSpotRatio) <=> \A g \in all : g.minSpotRatio # Unset => cs.ratio >= g.minSpotRatio
            <4>1. cs.ratio < c.minSpotRatio <=> \E g \in all : g.minSpotRatio # Unset /\ cs.ratio < g.minSpotRatio
                BY <1>1, <1>4, <3>1, <3>3 DEF Folded
            <4> QED
                BY <3>1, <3>2, <4>1
        <3> HIDE DEF ratio
        <3> QED
            BY <1>2, <1>4, <2>3, <2>4, <2>7, <3>1, <3>3
    <2> QED
        BY <2>5, <2>6, <2>7
<1> QED
    BY <1>3, <1>4

-----------------------------------------------------------------------------
(* The overlap of two selectors. *)

\* The requirements a and b put on the label k.
On(a, b, k) == {r \in a \cup b : r.key = k}

\* A label that meets all requirements on its key shows them satisfiable.
LEMMA HoldsSatisfiable ==
    ASSUME NEW reqs \in SUBSET Requirement, NEW k \in Keys, NEW labels \in LabelSets,
           \A r \in reqs : r.key = k /\ RequirementHolds(r, labels)
    PROVE  Satisfiable(reqs)
<1> DEFINE in        == {r \in reqs : r.op = "In"}
           notIn     == UNION {r.values : r \in {q \in reqs : q.op = "NotIn"}}
           exists    == \E r \in reqs : r.op \in {"In", "Exists"}
           notExists == \E r \in reqs : r.op = "DoesNotExist"
<1>1. ASSUME notExists PROVE ~exists
    <2>1. labels[k] = Absent
        BY <1>1 DEF RequirementHolds
    <2>2. ASSUME NEW r \in reqs, r.op = "In" PROVE FALSE
        BY <2>1, <2>2, LabelAssumption DEF RequirementHolds, Requirement
    <2>3. ASSUME NEW r \in reqs, r.op = "Exists" PROVE FALSE
        BY <2>1, <2>3 DEF RequirementHolds
    <2> QED
        BY <2>2, <2>3
<1>2. ASSUME in # {} PROVE \E v \in Values \ notIn : \A r \in in : v \in r.values
    <2>1. \A r \in in : labels[k] \in r.values
        BY DEF RequirementHolds
    <2>2. labels[k] \in Values
        BY <1>2, <2>1 DEF Requirement
    <2>3. labels[k] \notin notIn
        BY DEF RequirementHolds
    <2> QED
        BY <2>1, <2>2, <2>3
<1> QED
    BY <1>1, <1>2 DEF Satisfiable

\* Requirements on one key that are satisfiable are met by some value of that label.
LEMMA SatisfiableValue ==
    ASSUME NEW reqs \in SUBSET Requirement, ValidSelector(reqs), Satisfiable(reqs)
    PROVE  \E v \in Values \cup {Other, Absent} : \A r \in reqs :
              /\ r.op = "In"           => v \in r.values
              /\ r.op = "NotIn"        => v \notin r.values
              /\ r.op = "Exists"       => v # Absent
              /\ r.op = "DoesNotExist" => v = Absent
<1> DEFINE in    == {r \in reqs : r.op = "In"}
           notIn == UNION {r.values : r \in {q \in reqs : q.op = "NotIn"}}
<1>1. CASE \E r \in reqs : r.op = "DoesNotExist"
    <2>1. \A r \in reqs : r.op # "In" /\ r.op # "Exists" /\ Absent \notin r.values
        BY <1>1, LabelAssumption DEF Satisfiable, Requirement
    <2> QED
        BY <2>1
<1>2. CASE in = {} /\ ~ \E r \in reqs : r.op = "DoesNotExist"
    <2>1. \A r \in reqs : r.op # "In" /\ r.op # "DoesNotExist" /\ Other \notin r.values
        BY <1>2, LabelAssumption DEF Requirement
    <2> QED
        BY <2>1, LabelAssumption
<1>3. CASE in # {} /\ ~ \E r \in reqs : r.op = "DoesNotExist"
    <2>1. PICK v \in Values \ notIn : \A r \in in : v \in r.values
        BY <1>3 DEF Satisfiable
    <2> QED
        BY <1>3, <2>1, LabelAssumption
<1> QED
    BY <1>1, <1>2, <1>3

\* Two valid selectors overlap exactly if some label set is selected by both.
LEMMA ValidOverlapExact ==
    ASSUME NEW a \in {x \in SUBSET Requirement : ValidSelector(x)}, a # NilSelector,
           NEW b \in {x \in SUBSET Requirement : ValidSelector(x)}, b # NilSelector
    PROVE  SelectorsOverlap(a, b) <=> CanSelectOnePod(a, b)
<1>1. ASSUME CanSelectOnePod(a, b) PROVE SelectorsOverlap(a, b)
    <2>1. PICK labels \in LabelSets : \A r \in a \cup b : RequirementHolds(r, labels)
        BY <1>1 DEF CanSelectOnePod, Selects
    <2>2. ASSUME NEW k \in Keys PROVE Satisfiable(On(a, b, k))
        BY <2>1, HoldsSatisfiable DEF On
    <2> QED
        BY <2>2 DEF SelectorsOverlap, On
<1>2. ASSUME SelectorsOverlap(a, b) PROVE CanSelectOnePod(a, b)
    <2> DEFINE Fits(k, v) == \A r \in On(a, b, k) :
                                /\ r.op = "In"           => v \in r.values
                                /\ r.op = "NotIn"        => v \notin r.values
                                /\ r.op = "Exists"       => v # Absent
                                /\ r.op = "DoesNotExist" => v = Absent
    <2>1. ASSUME NEW k \in Keys PROVE \E v \in Values \cup {Other, Absent} : Fits(k, v)
        <3>1. On(a, b, k) \in SUBSET Requirement /\ ValidSelector(On(a, b, k))
            BY DEF On, ValidSelector
        <3>2. Satisfiable(On(a, b, k))
            BY <1>2 DEF SelectorsOverlap, On
        <3> QED
            BY <3>1, <3>2, SatisfiableValue
    <2> DEFINE labels == [k \in Keys |-> CHOOSE v \in Values \cup {Other, Absent} : Fits(k, v)]
    <2>2. ASSUME NEW k \in Keys PROVE labels[k] \in Values \cup {Other, Absent} /\ Fits(k, labels[k])
        BY <2>1
    <2>3. labels \in LabelSets
        BY <2>2 DEF LabelSets
    <2> HIDE DEF labels
    <2>4. ASSUME NEW r \in a \cup b PROVE RequirementHolds(r, labels)
        <3>1. r \in Requirement
            OBVIOUS
        <3>2. r.key \in Keys /\ r \in On(a, b, r.key) /\ r.op \in {"In", "NotIn", "Exists", "DoesNotExist"}
            BY <3>1 DEF Requirement, On
        <3> QED
            BY <2>2, <3>2 DEF RequirementHolds
    <2> QED
        BY <2>3, <2>4 DEF CanSelectOnePod, Selects
<1> QED
    BY <1>1, <1>2

\* Of two selectors that may be nil or not valid it is true, too.
LEMMA OverlapExact ==
    ASSUME NEW a \in {NilSelector} \cup SUBSET Requirement, NEW b \in {NilSelector} \cup SUBSET Requirement
    PROVE  SelectorsOverlap(a, b) <=> CanSelectOnePod(a, b)
<1>1. CASE a # NilSelector /\ b # NilSelector /\ ValidSelector(a) /\ ValidSelector(b)
    BY <1>1, ValidOverlapExact
<1>2. CASE ~(a # NilSelector /\ b # NilSelector /\ ValidSelector(a) /\ ValidSelector(b))
    BY <1>2 DEF SelectorsOverlap, CanSelectOnePod, Selects
<1> QED
    BY <1>1, <1>2
=============================================================================
