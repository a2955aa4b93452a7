--------------------- MODULE MaintenanceReadinessProofs ---------------------
(***************************************************************************)
(* Proofs about DisruptionWindows and MaintenanceReadiness for any windows,*)
(* policies and Pods, and for any length of the day and of the week.       *)
(***************************************************************************)
EXTENDS MaintenanceReadiness, WellFoundedInduction, TLAPS

-----------------------------------------------------------------------------
(* Days: the local day and the local time of day of an instant. *)

\* An instant is the beginning of its day and the time of day.
LEMMA DayDivision ==
    ASSUME NEW x \in Int
    PROVE  /\ x \div DayLen \in Int
           /\ x % DayLen \in 0 .. DayLen - 1
           /\ x = (x \div DayLen) * DayLen + (x % DayLen)
  BY CalendarAssumption

\* DayLen earlier is the day before at the same time.
LEMMA DayBefore ==
    ASSUME NEW x \in Int
    PROVE  (x - DayLen) \div DayLen = (x \div DayLen) - 1
  BY CalendarAssumption

\* An instant has one day and one time of day.
LEMMA DayUnique ==
    ASSUME NEW x \in Int, NEW q \in Int, NEW r \in 0 .. DayLen - 1, x = q * DayLen + r
    PROVE  x \div DayLen = q /\ x % DayLen = r
  BY CalendarAssumption

\* Another instant between the same two midnights is on the same day.
LEMMA SameDay ==
    ASSUME NEW x \in Int, NEW k \in Int, (x % DayLen) + k \in 0 .. DayLen - 1
    PROVE  (x + k) \div DayLen = x \div DayLen /\ (x + k) % DayLen = (x % DayLen) + k
<1> DEFINE r == x % DayLen
           q == x \div DayLen
           b == q * DayLen
<1>1. q \in Int /\ r \in Int /\ x = b + r
    BY DayDivision
<1>2. b \in Int
    BY <1>1, CalendarAssumption
<1>3. x + k = b + (r + k)
  <2> HIDE DEF b, r
  <2> QED
    BY <1>1, <1>2
<1> HIDE DEF q, r
<1> QED
    BY <1>1, <1>3, DayUnique DEF q, r

\* Later by more than that, but by less than a day, is the next day.
LEMMA NextDay ==
    ASSUME NEW x \in Int, NEW k \in Nat, DayLen <= (x % DayLen) + k, (x % DayLen) + k < 2 * DayLen
    PROVE  /\ (x + k) \div DayLen = (x \div DayLen) + 1
           /\ (x + k) % DayLen = (x % DayLen) + k - DayLen
<1>1. (x % DayLen) + (k - DayLen) \in 0 .. DayLen - 1 /\ k - DayLen \in Int
    BY DayDivision, CalendarAssumption
<1>2. /\ (x + (k - DayLen)) \div DayLen = x \div DayLen
      /\ (x + (k - DayLen)) % DayLen = (x % DayLen) + (k - DayLen)
    BY <1>1, SameDay
<1>3. ((x + k) - DayLen) \div DayLen = ((x + k) \div DayLen) - 1 /\ ((x + k) - DayLen) % DayLen = (x + k) % DayLen
    BY CalendarAssumption
<1>4. (x + k) - DayLen = x + (k - DayLen)
    BY CalendarAssumption
<1>5. x \div DayLen \in Int /\ (x + k) \div DayLen \in Int /\ x % DayLen \in Int
    BY DayDivision
<1> QED
    BY <1>2, <1>3, <1>4, <1>5, CalendarAssumption

-----------------------------------------------------------------------------
(* One window. *)

\* The local time of day of an instant, and whether the window starts on the
\* instant's local day and on the day before.
TimeOfDay(w, t) == (t + w.zone) % DayLen
Today(w, t)     == StartsOn(w, t + w.zone)
Yesterday(w, t) == StartsOn(w, (t + w.zone) - DayLen)

\* The types of a window's fields and of a time of day.
LEMMA WindowTypes ==
    ASSUME NEW w \in DisruptionWindow, NEW t \in Int
    PROVE  /\ w.zone \in Int /\ w.start \in 0 .. DayLen - 1 /\ w.end \in 0 .. DayLen - 1
           /\ TimeOfDay(w, t) \in 0 .. DayLen - 1
           /\ DayLen \in Nat /\ DayLen > 0
<1>1. w.zone \in Int /\ w.start \in 0 .. DayLen - 1 /\ w.end \in 0 .. DayLen - 1
    BY DEF DisruptionWindow
<1>2. TimeOfDay(w, t) \in 0 .. DayLen - 1
    BY <1>1, DayDivision DEF TimeOfDay
<1> QED
    BY <1>1, <1>2, CalendarAssumption

\* Later on the same day.
LEMMA LaterToday ==
    ASSUME NEW w \in DisruptionWindow, NEW t \in Int, NEW k \in Nat, TimeOfDay(w, t) + k < DayLen
    PROVE  /\ TimeOfDay(w, t + k) = TimeOfDay(w, t) + k
           /\ Today(w, t + k) = Today(w, t) /\ Yesterday(w, t + k) = Yesterday(w, t)
<1> DEFINE x == t + w.zone
<1>1. x \in Int /\ x + k \in Int /\ t + k + w.zone = x + k /\ (t + k + w.zone) - DayLen = (x + k) - DayLen
    BY WindowTypes
<1>2. (x % DayLen) + k \in 0 .. DayLen - 1
    BY WindowTypes DEF TimeOfDay
<1> HIDE DEF x
<1>3. (x + k) \div DayLen = x \div DayLen /\ (x + k) % DayLen = (x % DayLen) + k
    BY <1>1, <1>2, SameDay
<1>4. ((x + k) - DayLen) \div DayLen = (x - DayLen) \div DayLen
    BY <1>1, <1>3, DayBefore
<1>5. StartsOn(w, x + k) = StartsOn(w, x) /\ StartsOn(w, (x + k) - DayLen) = StartsOn(w, x - DayLen)
    BY <1>3, <1>4 DEF StartsOn, Weekday
<1>6. /\ Yesterday(w, t + k) = StartsOn(w, (x + k) - DayLen) /\ Yesterday(w, t) = StartsOn(w, x - DayLen)
      /\ Today(w, t + k) = StartsOn(w, x + k) /\ Today(w, t) = StartsOn(w, x)
    BY <1>1, Zenon DEF Yesterday, Today, x
<1> QED
    BY <1>1, <1>3, <1>5, <1>6 DEF TimeOfDay, x

\* Later, after midnight.
LEMMA LaterTomorrow ==
    ASSUME NEW w \in DisruptionWindow, NEW t \in Int, NEW k \in Nat,
           DayLen <= TimeOfDay(w, t) + k, TimeOfDay(w, t) + k < 2 * DayLen
    PROVE  /\ TimeOfDay(w, t + k) = TimeOfDay(w, t) + k - DayLen
           /\ Yesterday(w, t + k) = Today(w, t)
<1> DEFINE x == t + w.zone
<1>1. x \in Int /\ x + k \in Int /\ t + k + w.zone = x + k /\ (t + k + w.zone) - DayLen = (x + k) - DayLen
    BY WindowTypes
<1>2. DayLen <= (x % DayLen) + k /\ (x % DayLen) + k < 2 * DayLen
    BY DEF TimeOfDay
<1> HIDE DEF x
<1>3. (x + k) \div DayLen = (x \div DayLen) + 1 /\ (x + k) % DayLen = (x % DayLen) + k - DayLen
    BY <1>1, <1>2, NextDay
<1>4. ((x + k) - DayLen) \div DayLen = x \div DayLen
  <2>1. ((x + k) - DayLen) \div DayLen = ((x + k) \div DayLen) - 1
    BY <1>1, DayBefore
  <2>2. x \div DayLen \in Int
    BY <1>1, DayDivision
  <2> QED
    BY <2>1, <2>2, <1>3
<1>5. StartsOn(w, (x + k) - DayLen) = StartsOn(w, x)
    BY <1>4 DEF StartsOn, Weekday
<1>6. Yesterday(w, t + k) = StartsOn(w, (x + k) - DayLen) /\ Today(w, t) = StartsOn(w, x)
    BY <1>1, Zenon DEF Yesterday, Today, x
<1> QED
    BY <1>1, <1>3, <1>5, <1>6 DEF TimeOfDay, x

\* The occurrence that starts today.
LEMMA OccurrenceToday ==
    ASSUME NEW w \in DisruptionWindow, NEW t \in Int
    PROVE  InOccurrence(w, t, t) <=>
             /\ Today(w, t)
             /\ \/ w.start = w.end
                \/ w.start <= TimeOfDay(w, t) /\ (TimeOfDay(w, t) < w.end \/ w.end < w.start)
<1> DEFINE x == t + w.zone
           r == TimeOfDay(w, t)
           day == (x \div DayLen) * DayLen - w.zone
<1>1. PICK b \in Int : day = b - w.zone /\ x = b + r
  <2>1. x \in Int /\ \A q \in Int : q * DayLen \in Int
    BY WindowTypes
  <2>2. x = (x \div DayLen) * DayLen + r /\ x \div DayLen \in Int
    BY <2>1, DayDivision DEF TimeOfDay
  <2> QED
    BY <2>1, <2>2
<1>2. InOccurrence(w, t, t) <=>
        /\ Today(w, t)
        /\ IF w.start = w.end THEN day <= t /\ t < day + DayLen
           ELSE day + w.start <= t /\ t < day + w.end + (IF w.end < w.start THEN DayLen ELSE 0)
    BY DEF InOccurrence, Today
<1> HIDE DEF r, day
<1>3. r \in 0 .. DayLen - 1
    BY WindowTypes DEF r
<1>4. b - w.zone = t - r
    BY <1>1, <1>3, WindowTypes
<1>5. day = t - r
    BY <1>1, <1>4
<1> QED
    BY <1>2, <1>3, <1>5, WindowTypes DEF r

\* The occurrence that started yesterday.
LEMMA OccurrenceYesterday ==
    ASSUME NEW w \in DisruptionWindow, NEW t \in Int
    PROVE  InOccurrence(w, t - DayLen, t) <=>
             Yesterday(w, t) /\ w.end < w.start /\ TimeOfDay(w, t) < w.end
<1> DEFINE x == t + w.zone
           r == TimeOfDay(w, t)
           day == ((x - DayLen) \div DayLen) * DayLen - w.zone
<1>1. PICK b \in Int : day = b - DayLen - w.zone /\ x = b + r
  <2>1. x \in Int /\ \A q \in Int : q * DayLen \in Int /\ (q - 1) * DayLen = q * DayLen - DayLen
    BY WindowTypes
  <2>2. x = (x \div DayLen) * DayLen + r /\ x \div DayLen \in Int
    BY <2>1, DayDivision DEF TimeOfDay
  <2>3. (x - DayLen) \div DayLen = (x \div DayLen) - 1
    BY <2>1, DayBefore
  <2> QED
    BY <2>1, <2>2, <2>3
<1>2. (t - DayLen) + w.zone = x - DayLen
    BY WindowTypes
<1>3. InOccurrence(w, t - DayLen, t) <=>
        /\ Yesterday(w, t)
        /\ IF w.start = w.end THEN day <= t /\ t < day + DayLen
           ELSE day + w.start <= t /\ t < day + w.end + (IF w.end < w.start THEN DayLen ELSE 0)
  <2>1. StartsOn(w, (t - DayLen) + w.zone) = Yesterday(w, t)
    BY <1>2, Zenon DEF Yesterday
  <2>2. day = (((t - DayLen) + w.zone) \div DayLen) * DayLen - w.zone
    BY <1>2
  <2> HIDE DEF day, x
  <2> QED
    BY <2>1, <2>2 DEF InOccurrence
<1> HIDE DEF r, day
<1>4. r \in 0 .. DayLen - 1
    BY WindowTypes DEF r
<1>5. b - DayLen - w.zone = t - r - DayLen
    BY <1>1, <1>4, WindowTypes
<1>6. day = t - r - DayLen
    BY <1>1, <1>5
<1> QED
    BY <1>3, <1>4, <1>6, WindowTypes DEF r

\* What evaluateWindow returns for a window that crosses midnight.
LEMMA CrossMidnight ==
    ASSUME NEW w \in DisruptionWindow, NEW t \in Int, w.end < w.start,
           NEW r, r = TimeOfDay(w, t)
    PROVE  LET open  == Today(w, t) /\ r > w.start
               spill == Yesterday(w, t) /\ r < w.end
               ahead == Today(w, t) /\ r < w.start
           IN  /\ open => evaluateWindow(w, t) = [in |-> TRUE, wait |-> w.end + DayLen - r]
               /\ ~open /\ spill => evaluateWindow(w, t) = [in |-> TRUE, wait |-> w.end - r]
               /\ ~open /\ ~spill /\ ahead => evaluateWindow(w, t) = [in |-> FALSE, wait |-> w.start - r]
               /\ ~open /\ ~spill /\ ~ahead => evaluateWindow(w, t) = [in |-> FALSE, wait |-> MaxWait]
<1> DEFINE today == Today(w, t)
           yesterday == Yesterday(w, t)
<1>1. evaluateWindow(w, t) = IF ~today /\ ~yesterday THEN [in |-> FALSE, wait |-> MaxWait]
                             ELSE evaluateCrossMidnightWindow(w, r, today, yesterday)
    BY DEF evaluateWindow, Today, Yesterday, TimeOfDay
<1>2. evaluateCrossMidnightWindow(w, r, today, yesterday) =
        IF today /\ r > w.start THEN [in |-> TRUE, wait |-> w.end + DayLen - r]
        ELSE IF yesterday /\ r < w.end THEN [in |-> TRUE, wait |-> w.end - r]
        ELSE IF today /\ r < w.start THEN [in |-> FALSE, wait |-> w.start - r]
        ELSE [in |-> FALSE, wait |-> MaxWait]
    BY DEF evaluateCrossMidnightWindow
<1> HIDE DEF today, yesterday
<1> QED
    BY <1>1, <1>2 DEF today, yesterday

\* What it returns for the others.
LEMMA WithinADay ==
    ASSUME NEW w \in DisruptionWindow, NEW t \in Int, ~(w.end < w.start),
           NEW r, r = TimeOfDay(w, t)
    PROVE  LET open == w.start = w.end \/ (w.start < r /\ r < w.end)
           IN  /\ ~Today(w, t) => evaluateWindow(w, t) = [in |-> FALSE, wait |-> MaxWait]
               /\ Today(w, t) /\ open => evaluateWindow(w, t) = [in |-> TRUE, wait |-> w.end - r]
               /\ Today(w, t) /\ ~open /\ r < w.start =>
                     evaluateWindow(w, t) = [in |-> FALSE, wait |-> w.start - r]
               /\ Today(w, t) /\ ~open /\ ~(r < w.start) =>
                     evaluateWindow(w, t) = [in |-> FALSE, wait |-> MaxWait]
<1> DEFINE today == Today(w, t)
<1>1. evaluateWindow(w, t) = IF ~today THEN [in |-> FALSE, wait |-> MaxWait]
                             ELSE evaluateSameDayWindow(w, r)
    BY DEF evaluateWindow, Today, TimeOfDay
<1>2. evaluateSameDayWindow(w, r) =
        IF (w.start < r /\ r < w.end) \/ w.start = w.end THEN [in |-> TRUE, wait |-> w.end - r]
        ELSE [in |-> FALSE, wait |-> IF r < w.start THEN w.start - r ELSE MaxWait]
    BY DEF evaluateSameDayWindow
<1> HIDE DEF today
<1> QED
    BY <1>1, <1>2 DEF today

\* evaluateWindow agrees with the documented occurrences, but for their first instants.
LEMMA WindowExact ==
    ASSUME NEW w \in DisruptionWindow, NEW t \in Int
    PROVE  evaluateWindow(w, t).in <=>
             ~Opens(w, t) /\ (InOccurrence(w, t, t) \/ InOccurrence(w, t - DayLen, t))
<1>1. PICK r : r = TimeOfDay(w, t) /\ r \in 0 .. DayLen - 1
    BY WindowTypes
<1>2. InOccurrence(w, t, t) <=>
        Today(w, t) /\ (w.start = w.end \/ (w.start <= r /\ (r < w.end \/ w.end < w.start)))
    BY <1>1, OccurrenceToday
<1>3. InOccurrence(w, t - DayLen, t) <=> Yesterday(w, t) /\ w.end < w.start /\ r < w.end
    BY <1>1, OccurrenceYesterday
<1>4. Opens(w, t) <=> w.start # w.end /\ Today(w, t) /\ r = w.start
    BY <1>1 DEF Opens, Today, TimeOfDay
<1>5. CASE w.end < w.start
  <2>1. evaluateWindow(w, t).in <=> (Today(w, t) /\ r > w.start) \/ (Yesterday(w, t) /\ r < w.end)
    BY <1>1, <1>5, CrossMidnight
  <2>2. r \in Int /\ w.start \in Int /\ w.end \in Int
    BY <1>1, WindowTypes
  <2> QED
    BY <1>2, <1>3, <1>4, <1>5, <2>1, <2>2
<1>6. CASE ~(w.end < w.start)
    BY <1>1, <1>2, <1>3, <1>4, <1>6, WindowTypes, WithinADay
<1> QED
    BY <1>5, <1>6

\* evaluateWindow asks to look again after a positive time, except for a window of
\* a whole day, and never further back than a day.
LEMMA WaitBounds ==
    ASSUME NEW w \in DisruptionWindow, NEW t \in Int
    PROVE  /\ evaluateWindow(w, t).wait \in Int
           /\ evaluateWindow(w, t).wait >= -DayLen
           /\ w.start # w.end => evaluateWindow(w, t).wait > 0
<1>1. PICK r : r = TimeOfDay(w, t) /\ r \in 0 .. DayLen - 1
    BY WindowTypes
<1>2. MaxWait \in Nat /\ MaxWait > 0
    BY CalendarAssumption DEF MaxWait
<1>3. CASE w.end < w.start
    BY <1>1, <1>2, <1>3, WindowTypes, CrossMidnight
<1>4. CASE ~(w.end < w.start)
    BY <1>1, <1>2, <1>4, WindowTypes, WithinADay
<1> QED
    BY <1>3, <1>4

\* A window that is open stays open for the time evaluateWindow returns.
LEMMA WindowStays ==
    ASSUME NEW w \in DisruptionWindow, NEW t \in Int, NEW k \in Nat,
           evaluateWindow(w, t).in, k < evaluateWindow(w, t).wait
    PROVE  evaluateWindow(w, t + k).in
<1> DEFINE r == TimeOfDay(w, t)
           s == TimeOfDay(w, t + k)
<1>1. r \in 0 .. DayLen - 1 /\ s \in 0 .. DayLen - 1 /\ t + k \in Int
    BY WindowTypes
<1>2. CASE w.end < w.start /\ Today(w, t) /\ r > w.start
  <2>1. k < w.end + DayLen - r
    BY <1>2, CrossMidnight
  <2>2. CASE r + k < DayLen
    <3>1. s = r + k /\ Today(w, t + k)
      BY <1>2, <2>2, LaterToday
    <3>2. s > w.start
      BY <3>1, <1>1, <1>2, WindowTypes
    <3> QED
      BY <1>1, <1>2, <3>1, <3>2, CrossMidnight
  <2>3. CASE ~(r + k < DayLen)
    <3>1. DayLen <= r + k /\ r + k < 2 * DayLen
      BY <1>1, <2>1, <2>3, WindowTypes
    <3>2. s = r + k - DayLen /\ Yesterday(w, t + k)
      BY <1>2, <3>1, LaterTomorrow
    <3>3. s < w.end
      BY <3>2, <1>1, <2>1, WindowTypes
    <3> QED
      BY <1>1, <1>2, <3>2, <3>3, CrossMidnight
  <2> QED
    BY <2>2, <2>3
<1>3. CASE w.end < w.start /\ ~(Today(w, t) /\ r > w.start)
  <2>1. Yesterday(w, t) /\ r < w.end /\ k < w.end - r
    BY <1>3, CrossMidnight
  <2>2. r + k < w.end /\ r + k < DayLen
    BY <2>1, <1>1, WindowTypes
  <2>3. s = r + k /\ Yesterday(w, t + k)
    BY <2>1, <2>2, LaterToday
  <2> QED
    BY <1>1, <1>3, <2>2, <2>3, CrossMidnight
<1>4. CASE ~(w.end < w.start)
  <2>1. Today(w, t) /\ (w.start = w.end \/ w.start < r) /\ k < w.end - r
    BY <1>4, WithinADay
  <2>2. r + k < w.end /\ r + k < DayLen
    BY <2>1, <1>1, WindowTypes
  <2>3. s = r + k /\ Today(w, t + k)
    BY <2>1, <2>2, LaterToday
  <2>4. w.start = w.end \/ (w.start < s /\ s < w.end)
    BY <2>1, <2>2, <2>3, <1>1, WindowTypes
  <2> QED
    BY <1>1, <1>4, <2>3, <2>4, WithinADay
<1> QED
    BY <1>2, <1>3, <1>4

-----------------------------------------------------------------------------
(* All windows of a policy. *)

\* A set of integers with a lower bound has a least element.
LEMMA MinOf ==
    ASSUME NEW S \in SUBSET Int, S # {}, NEW b \in Int, \A x \in S : b <= x
    PROVE  Min(S) \in S /\ \A x \in S : Min(S) <= x
<1> DEFINE T == {x - b : x \in S}
<1>1. T \in SUBSET Nat /\ T # {}
  <2>1. \A x \in S : x \in Int /\ b <= x
    OBVIOUS
  <2>2. \A x \in S : x - b \in Nat
    BY <2>1
  <2> QED
    BY <2>2
<1>2. PICK m \in T : \A y \in T : ~(<<y, m>> \in OpToRel(<, Nat))
    BY <1>1, NatLessThanWellFounded, WFMin
<1>3. \A y \in T : m <= y
  <2> SUFFICES ASSUME NEW y \in T, ~(m <= y) PROVE FALSE
    OBVIOUS
  <2>1. y < m /\ <<y, m>> \in Nat \X Nat
    BY <1>1
  <2> QED
    BY <1>2, <2>1 DEF OpToRel
<1>4. PICK x \in S : m = x - b
    OBVIOUS
<1>5. \A y \in S : x <= y
    BY <1>3, <1>4
<1> QED
    BY <1>5 DEF Min

\* One with an upper bound has a greatest element.
LEMMA MaxOf ==
    ASSUME NEW S \in SUBSET Int, S # {}, NEW b \in Int, \A x \in S : x <= b
    PROVE  Max(S) \in S /\ \A x \in S : x <= Max(S)
<1> DEFINE T == {-x : x \in S}
<1>1. T \in SUBSET Int /\ T # {} /\ -b \in Int /\ \A x \in T : -b <= x
  <2>1. \A x \in S : x \in Int /\ x <= b
    OBVIOUS
  <2>2. -b \in Int /\ \A x \in S : -x \in Int /\ -b <= -x
    BY <2>1
  <2>3. ASSUME NEW y \in T PROVE y \in Int /\ -b <= y
    BY <2>2
  <2>4. T # {}
    BY Zenon
  <2> QED
    BY <2>2, <2>3, <2>4
<1>2. Min(T) \in T /\ \A x \in T : Min(T) <= x
    BY <1>1, MinOf
<1>3. PICK x \in S : Min(T) = -x
    BY <1>2
<1>4. \A y \in S : x >= y
    BY <1>2, <1>3
<1> QED
    BY <1>4 DEF Max

\* IsTimeInWindows agrees with the documented windows, but for their first instants.
LEMMA WindowsExact ==
    ASSUME NEW windows \in SUBSET DisruptionWindow, NEW t \in Int
    PROVE  /\ IsTimeInWindows(t, windows).in \in BOOLEAN
           /\ IsTimeInWindows(t, windows).in <=> InOpenedWindow(t, windows)
           /\ InOpenedWindow(t, windows) => InWindow(t, windows)
<1>1. CASE windows = {}
    BY <1>1 DEF IsTimeInWindows, InWindow, InOpenedWindow
<1>2. CASE windows # {}
  <2>1. /\ IsTimeInWindows(t, windows).in \in BOOLEAN
        /\ IsTimeInWindows(t, windows).in <=> \E w \in windows : evaluateWindow(w, t).in
    BY <1>2 DEF IsTimeInWindows
  <2> QED
    BY <1>2, <2>1, WindowExact DEF InWindow, InOpenedWindow
<1> QED
    BY <1>1, <1>2

\* The wait is the least of the windows' waits.
LEMMA WindowsWait ==
    ASSUME NEW windows \in SUBSET DisruptionWindow, windows # {}, NEW t \in Int
    PROVE  /\ IsTimeInWindows(t, windows).wait \in Int
           /\ \A w \in windows : IsTimeInWindows(t, windows).wait <= evaluateWindow(w, t).wait
           /\ \/ IsTimeInWindows(t, windows).wait > 0
              \/ \E w \in windows : w.start = w.end
<1> DEFINE S == {MaxWait} \cup {evaluateWindow(w, t).wait : w \in windows}
<1>1. MaxWait \in Nat /\ MaxWait > 0 /\ DayLen \in Nat
    BY CalendarAssumption DEF MaxWait
<1>2. S \in SUBSET Int /\ S # {} /\ -DayLen \in Int /\ \A x \in S : -DayLen <= x
    BY <1>1, WaitBounds
<1>3. Min(S) \in S /\ \A x \in S : Min(S) <= x
    BY <1>2, MinOf
<1>4. IsTimeInWindows(t, windows).wait = Min(S)
    BY DEF IsTimeInWindows
<1>5. Min(S) \in Int /\ \A w \in windows : Min(S) <= evaluateWindow(w, t).wait
    BY <1>2, <1>3
<1>6. Min(S) > 0 \/ \E w \in windows : w.start = w.end
    BY <1>1, <1>3, WaitBounds
<1> QED
    BY <1>4, <1>5, <1>6

\* Every whole-day window is open on all days of the week.
DailyWholeDays(windows) == \A w \in windows : w.start = w.end => w.days = {}

\* Windows that are open stay open until IsTimeInWindows asks to look again, and for
\* ever if it does not ask.
LEMMA WindowsStay ==
    ASSUME NEW windows \in SUBSET DisruptionWindow, DailyWholeDays(windows), NEW t \in Int,
           IsTimeInWindows(t, windows).in, NEW k \in Nat,
           IsTimeInWindows(t, windows).wait > 0 => k < IsTimeInWindows(t, windows).wait
    PROVE  InOpenedWindow(t + k, windows)
<1>1. CASE windows = {}
    BY <1>1 DEF InOpenedWindow
<1>2. CASE windows # {} /\ IsTimeInWindows(t, windows).wait > 0
  <2>1. PICK w \in windows : evaluateWindow(w, t).in
    BY <1>2 DEF IsTimeInWindows
  <2>2. IsTimeInWindows(t, windows).wait \in Int /\ evaluateWindow(w, t).wait \in Int
        /\ IsTimeInWindows(t, windows).wait <= evaluateWindow(w, t).wait
    BY <1>2, WindowsWait, WaitBounds
  <2>3. k < evaluateWindow(w, t).wait
    BY <1>2, <2>2
  <2>4. evaluateWindow(w, t + k).in /\ t + k \in Int
    BY <2>1, <2>3, WindowStays
  <2> QED
    BY <2>4, WindowExact DEF InOpenedWindow
<1>3. CASE windows # {} /\ ~(IsTimeInWindows(t, windows).wait > 0)
  <2>1. PICK w \in windows : w.start = w.end
    BY <1>3, WindowsWait
  <2>2. Today(w, t + k) /\ t + k \in Int
    BY <2>1 DEF DailyWholeDays, Today, StartsOn
  <2>3. InOccurrence(w, t + k, t + k)
    BY <2>1, <2>2, OccurrenceToday
  <2> QED
    BY <2>1, <2>3 DEF InOpenedWindow, Opens
<1> QED
    BY <1>1, <1>2, <1>3

-----------------------------------------------------------------------------
(* The reconciler. *)

\* Nothing happened in the future.
TypeInv ==
    /\ TypeOK
    /\ created <= now
    /\ \A n \in Pods : pod[n].since <= now

\* The types of a policy's fields.
LEMMA PolicyTypes ==
    ASSUME NEW p \in Policies
    PROVE  /\ p.windows \in SUBSET DisruptionWindow /\ p.override \in BOOLEAN
           /\ p.maxNonDisruption \in Nat /\ p.minInitialRun \in Nat /\ p.grace \in Nat
  BY PoliciesAssumption DEF DisruptionPolicy

\* What calculateReadiness returns.
LEMMA ReadinessType ==
    ASSUME TypeInv, NEW r \in calculateReadiness
    PROVE  r \in {"Ready", "NotReady", "Overdue"} \X Int
<1>1. /\ policy \in Policies /\ now \in Nat
      /\ \A n \in Pods : pod[n].since \in Nat
    BY DEF TypeInv, TypeOK
<1>2. /\ policy.windows \in SUBSET DisruptionWindow
      /\ policy.minInitialRun \in Nat /\ policy.grace \in Nat
    BY <1>1, PolicyTypes
<1> DEFINE wait == IsTimeInWindows(now, policy.windows).wait
           S == {policy.grace - (now - pod[n].since) : n \in Terminating}
<1>3. wait \in Int
  <2>1. CASE policy.windows = {}
    BY <2>1 DEF IsTimeInWindows
  <2>2. CASE policy.windows # {}
    BY <1>1, <1>2, <2>2, WindowsWait
  <2> QED
    BY <2>1, <2>2
<1>4. Terminating # {} => Max(S) \in Int
  <2> SUFFICES ASSUME Terminating # {} PROVE Max(S) \in Int
    OBVIOUS
  <2>1. \A n \in Pods : now - pod[n].since \in Int /\ now - pod[n].since >= 0
    BY <1>1 DEF TypeInv
  <2>2. \A n \in Terminating : /\ policy.grace - (now - pod[n].since) \in Int
                               /\ policy.grace - (now - pod[n].since) <= policy.grace
    BY <1>2, <2>1 DEF Terminating
  <2>3. \A x \in S : x \in Int /\ x <= policy.grace
    BY <2>2
  <2>4. S # {}
    BY Zenon
  <2> HIDE DEF S
  <2>5. S \in SUBSET Int /\ policy.grace \in Int
    BY <1>2, <2>3
  <2>6. Max(S) \in S
    BY <2>3, <2>4, <2>5, MaxOf
  <2> QED
    BY <2>3, <2>6
<1>5. \A n \in Young : policy.minInitialRun - (now - pod[n].since) \in Int
    BY <1>1, <1>2 DEF Young
<1> HIDE DEF wait, S
<1>6. \/ r = <<"Ready", 0>> \/ r = <<"Overdue", 0>> \/ r = <<"NotReady", wait>> \/ r = <<"Ready", wait>>
      \/ \E n \in Young : r = <<"NotReady", policy.minInitialRun - (now - pod[n].since)>>
      \/ Terminating # {} /\ r = <<"NotReady", Max(S)>>
    BY DEF calculateReadiness, wait, S
<1> QED
    BY <1>3, <1>4, <1>5, <1>6

\* TypeInv holds when the class is created.
LEMMA TypeInit == Init => TypeInv
<1> SUFFICES ASSUME Init PROVE TypeInv
    OBVIOUS
<1>1. created \in Nat /\ now = created
    BY HorizonAssumption DEF Init
<1>2. pod \in [Pods -> {NoPod, [phase |-> "active", since |-> created]}]
    BY DEF Init
<1>3. \A n \in Pods : pod[n] \in {NoPod, [phase |-> "active", since |-> created]}
    BY <1>2
<1>4. \A n \in Pods : pod[n] \in [phase : {"gone", "active", "deleting"}, since : Nat] /\ pod[n].since <= now
    BY <1>1, <1>3 DEF NoPod
<1> QED
    BY <1>1, <1>2, <1>4 DEF Init, TypeInv, TypeOK

\* Every step preserves it.
LEMMA TypeNext == TypeInv /\ [Next]_vars => TypeInv'
<1> SUFFICES ASSUME TypeInv, [Next]_vars PROVE TypeInv'
    OBVIOUS
<1>0. /\ now \in Nat /\ created \in Nat /\ wake \in Nat /\ happened \in Nat /\ created <= now
      /\ policy \in Policies /\ queued \in BOOLEAN
      /\ readiness \in {"None", "Ready", "NotReady", "Overdue"}
      /\ pod \in [Pods -> [phase : {"gone", "active", "deleting"}, since : Nat]]
      /\ \A n \in Pods : pod[n].since <= now
    BY DEF TypeInv, TypeOK
<1>1. CASE Reconcile
  <2>1. PICK r \in calculateReadiness : readiness' = r[1] /\ wake' = IF r[2] > 0 THEN now + r[2] ELSE 0
    BY <1>1 DEF Reconcile
  <2>2. r[1] \in {"Ready", "NotReady", "Overdue"} /\ r[2] \in Int
    BY ReadinessType
  <2>3. wake' \in Nat /\ readiness' \in {"None", "Ready", "NotReady", "Overdue"}
    BY <1>0, <2>1, <2>2
  <2> QED
    BY <1>0, <1>1, <2>3 DEF Reconcile, TypeInv, TypeOK
<1>2. ASSUME NEW n \in Pods, ChangePod(n) PROVE TypeInv'
  <2> DEFINE Record == [phase : {"gone", "active", "deleting"}, since : Nat]
             Started == [phase |-> "active", since |-> now]
             Deleted == [phase |-> "deleting", since |-> now]
  <2>1. PICK q \in Record : pod' = [pod EXCEPT ![n] = q] /\ q.since <= now
    <3>1. pod[n].phase \in {"gone", "active", "deleting"}
      BY <1>0
    <3>2. \/ pod' = [pod EXCEPT ![n] = Started]
          \/ pod' = [pod EXCEPT ![n] = Deleted]
          \/ pod' = [pod EXCEPT ![n] = NoPod]
      BY <1>2, <3>1 DEF ChangePod
    <3>3. /\ Started \in Record /\ Started.since <= now
          /\ Deleted \in Record /\ Deleted.since <= now
          /\ NoPod \in Record /\ NoPod.since <= now
      BY <1>0 DEF NoPod
    <3> HIDE DEF Record, Started, Deleted
    <3> QED
      BY <3>2, <3>3
  <2>2. /\ pod' \in [Pods -> [phase : {"gone", "active", "deleting"}, since : Nat]]
        /\ \A m \in Pods : pod'[m].since <= now
    BY <1>0, <2>1
  <2> QED
    BY <1>0, <1>2, <2>2 DEF ChangePod, Event, TypeInv, TypeOK
<1>3. ASSUME NEW p \in Policies, ChangePolicy(p) PROVE TypeInv'
    BY <1>0, <1>3 DEF ChangePolicy, Event, TypeInv, TypeOK
<1>4. CASE Tick
    BY <1>0, <1>4 DEF Tick, TypeInv, TypeOK
<1>5. CASE UNCHANGED vars
    BY <1>0, <1>5 DEF vars, TypeInv, TypeOK
<1> QED
    BY <1>1, <1>2, <1>3, <1>4, <1>5 DEF Next

\* The variables have their types: every wait calculateReadiness returns is an integer, the
\* least and the greatest ones it takes exist.
THEOREM ReadinessTypes == Spec => []TypeOK
<1>1. TypeInv => TypeOK
    BY DEF TypeInv
<1> QED
    BY <1>1, TypeInit, TypeNext, PTL DEF Spec

\* Whatever the windows, zones, days and the calendar, IsTimeInWindows says what the
\* README says of windows at every instant but the first of one, and never says yes
\* outside.
THEOREM ReadinessWindowsOnceOpened == Spec => []WindowsOnceOpened
<1>1. TypeInv => WindowsOnceOpened
  <2> SUFFICES ASSUME TypeInv PROVE WindowsOnceOpened
    OBVIOUS
  <2>1. now \in Int /\ policy.windows \in SUBSET DisruptionWindow
    BY PolicyTypes DEF TypeInv, TypeOK
  <2>2. /\ IsTimeInWindows(now, policy.windows).in \in BOOLEAN
        /\ IsTimeInWindows(now, policy.windows).in <=> InOpenedWindow(now, policy.windows)
        /\ InOpenedWindow(now, policy.windows) => InWindow(now, policy.windows)
    BY <2>1, WindowsExact
  <2> QED
    BY <2>2 DEF WindowsOnceOpened
<1> QED
    BY <1>1, TypeInit, TypeNext, PTL DEF Spec

-----------------------------------------------------------------------------
(* What was recorded stays true until the next reconcile. *)

\* Until the class is due again its windows stay open, and no Pod is young or
\* terminating.
StaysReady ==
    /\ Young = {} /\ Terminating = {}
    /\ \A t \in Nat : t >= now /\ (wake = 0 \/ t < wake) => InOpenedWindow(t, policy.windows)

ReadyInv ==
    /\ TypeInv
    /\ readiness = "Ready" /\ ~queued => policy.override \/ StaysReady
    /\ readiness = "Overdue" /\ ~queued => overdue

\* As time passes no Pod gets younger, and overdue remains so.
LEMMA TimePasses ==
    ASSUME TypeInv, Tick
    PROVE  Young' \subseteq Young /\ Terminating' \subseteq Terminating /\ (overdue => overdue')
<1>1. /\ now \in Nat /\ created \in Nat /\ now' = now + 1
      /\ pod' = pod /\ policy' = policy /\ created' = created
      /\ policy.minInitialRun \in Nat /\ policy.grace \in Nat /\ policy.maxNonDisruption \in Nat
    BY PolicyTypes DEF TypeInv, TypeOK, Tick
<1>2. \A n \in Pods : pod[n].since \in Nat
    BY DEF TypeInv, TypeOK
<1>3. \A n \in Pods, k \in Nat : now' - pod[n].since < k => now - pod[n].since < k
    BY <1>1, <1>2
<1>4. Young' \subseteq Young
    BY <1>1, <1>3 DEF Young
<1>5. Terminating' \subseteq Terminating
    BY <1>1, <1>3 DEF Terminating
<1>6. overdue => overdue'
    BY <1>1 DEF overdue
<1> QED
    BY <1>4, <1>5, <1>6

\* A reconcile that records Ready has looked at everything StaysReady is about.
LEMMA ReconcileReady ==
    ASSUME TypeInv, DailyWholeDays(policy.windows), Reconcile, readiness' = "Ready"
    PROVE  policy.override \/ StaysReady'
<1> SUFFICES ASSUME ~policy.override PROVE StaysReady'
    OBVIOUS
<1> DEFINE window == IsTimeInWindows(now, policy.windows)
<1>1. PICK r \in calculateReadiness : readiness' = r[1] /\ wake' = IF r[2] > 0 THEN now + r[2] ELSE 0
    BY DEF Reconcile
<1>2. window.in /\ Young = {} /\ Terminating = {} /\ r = <<"Ready", window.wait>>
    BY <1>1 DEF calculateReadiness
<1>3. now \in Nat /\ policy.windows \in SUBSET DisruptionWindow
    BY PolicyTypes DEF TypeInv, TypeOK
<1>4. wake' = IF window.wait > 0 THEN now + window.wait ELSE 0
    BY <1>1, <1>2
<1>5. window.wait \in Int
    BY <1>2, ReadinessType
<1>6. ASSUME NEW t \in Nat, t >= now, wake' = 0 \/ t < wake'
      PROVE  InOpenedWindow(t, policy.windows)
  <2>1. t - now \in Nat /\ now + (t - now) = t
    BY <1>3, <1>6
  <2>2. window.wait > 0 => t - now < window.wait
    BY <1>3, <1>4, <1>5, <1>6
  <2>3. InOpenedWindow(now + (t - now), policy.windows)
    BY <1>2, <1>3, <2>1, <2>2, WindowsStay
  <2> QED
    BY <2>1, <2>3
<1>7. now' = now /\ policy' = policy /\ pod' = pod
    BY DEF Reconcile
<1>8. Young' = Young /\ Terminating' = Terminating
    BY <1>7 DEF Young, Terminating
<1> QED
    BY <1>2, <1>6, <1>7, <1>8 DEF StaysReady

\* ReadyInv holds when the class is created.
LEMMA ReadyInit == Init => ReadyInv
  BY TypeInit DEF Init, ReadyInv

\* Every step preserves it: the events that could end it queue the class.
LEMMA ReadyNext ==
    ASSUME \A p \in Policies : DailyWholeDays(p.windows)
    PROVE  ReadyInv /\ [Next]_vars => ReadyInv'
<1> SUFFICES ASSUME ReadyInv, [Next]_vars PROVE ReadyInv'
    OBVIOUS
<1>0. TypeInv /\ TypeInv' /\ policy \in Policies
    BY TypeNext DEF ReadyInv, TypeInv, TypeOK
<1>1. CASE Reconcile
  <2>1. readiness' = "Ready" => policy'.override \/ StaysReady'
    BY <1>0, <1>1, ReconcileReady DEF Reconcile
  <2>2. readiness' = "Overdue" => overdue'
    <3>1. overdue' = overdue
      BY <1>1 DEF Reconcile, overdue
    <3>2. PICK r \in calculateReadiness : readiness' = r[1]
      BY <1>1 DEF Reconcile
    <3>3. ~overdue => r[1] \in {"Ready", "NotReady"}
      <4>1. ~overdue => \E x : r = <<"Ready", x>> \/ r = <<"NotReady", x>>
        BY DEF calculateReadiness
      <4> QED
        BY <4>1
    <3> QED
      BY <3>1, <3>2, <3>3
  <2> QED
    BY <1>0, <2>1, <2>2 DEF ReadyInv
<1>2. ASSUME NEW n \in Pods, ChangePod(n) PROVE ReadyInv'
    BY <1>0, <1>2 DEF ChangePod, Event, ReadyInv
<1>3. ASSUME NEW p \in Policies, ChangePolicy(p) PROVE ReadyInv'
    BY <1>0, <1>3 DEF ChangePolicy, Event, ReadyInv
<1>4. CASE Tick
  <2>1. now \in Nat /\ now' = now + 1 /\ UNCHANGED <<policy, readiness, wake, queued>>
    BY <1>0, <1>4 DEF Tick, TypeInv, TypeOK
  <2>2. StaysReady => StaysReady'
    <3> SUFFICES ASSUME StaysReady PROVE StaysReady'
      OBVIOUS
    <3>1. Young' = {} /\ Terminating' = {}
      BY <1>0, <1>4, TimePasses DEF StaysReady
    <3>2. \A t \in Nat : t >= now' => t >= now
      BY <2>1
    <3> QED
      BY <2>1, <3>1, <3>2 DEF StaysReady
  <2>3. overdue => overdue'
    BY <1>0, <1>4, TimePasses
  <2> QED
    BY <1>0, <2>1, <2>2, <2>3 DEF ReadyInv
<1>5. CASE UNCHANGED vars
  <2>1. StaysReady' = StaysReady /\ overdue' = overdue
    BY <1>5 DEF vars, StaysReady, Young, Terminating, overdue
  <2> QED
    BY <1>0, <1>5, <2>1 DEF vars, ReadyInv
<1> QED
    BY <1>1, <1>2, <1>3, <1>4, <1>5 DEF Next

\* A class that is not due is Ready only in a window and with its Pods neither
\* young nor terminating, for any policies in which a whole-day window is open on
\* every day.  (One of given days is taken back too late; see README.)
THEOREM ReadinessReadyOnlyWhenAllowed ==
    ASSUME \A p \in Policies : DailyWholeDays(p.windows)
    PROVE  Spec => []ReadyOnlyWhenAllowed
<1>1. ReadyInv => ReadyOnlyWhenAllowed
  <2> SUFFICES ASSUME ReadyInv, readiness = "Ready", ~Due, ~policy.override
               PROVE  InWindow(now, policy.windows) /\ Young = {} /\ Terminating = {}
    BY DEF ReadyOnlyWhenAllowed
  <2>1. now \in Nat /\ wake \in Nat /\ now >= now
    BY DEF ReadyInv, TypeInv, TypeOK
  <2>2. ~queued /\ (wake = 0 \/ now < wake)
    BY <2>1 DEF Due
  <2>3. StaysReady
    BY <2>2 DEF ReadyInv
  <2>4. InOpenedWindow(now, policy.windows) /\ Young = {} /\ Terminating = {}
    BY <2>1, <2>2, <2>3 DEF StaysReady
  <2>5. policy.windows \in SUBSET DisruptionWindow /\ now \in Int
    BY PolicyTypes DEF ReadyInv, TypeInv, TypeOK
  <2> QED
    BY <2>4, <2>5, WindowsExact
<1>2. ReadyInv /\ [Next]_vars => ReadyInv'
    BY ReadyNext
<1> QED
    BY <1>1, <1>2, ReadyInit, PTL DEF Spec

\* Under the same hypothesis the webhook admits the eviction of every Pod of a Ready
\* class, and of others only what the windows, the override or the deadline allow.
THEOREM ReadinessWebhookAgrees ==
    ASSUME \A p \in Policies : DailyWholeDays(p.windows)
    PROVE  Spec => []WebhookAgrees
<1>1. ReadyInv => WebhookAgrees
  <2> SUFFICES ASSUME ReadyInv, ~Due, NEW n \in Pods, pod[n].phase = "active"
               PROVE  /\ readiness = "Ready" => Admits(n)
                      /\ Admits(n) => \/ policy.override \/ overdue
                                      \/ InWindow(now, policy.windows) /\ n \notin Young
    BY DEF WebhookAgrees
  <2>1. /\ now \in Nat /\ wake \in Nat /\ pod[n].since \in Nat /\ pod[n].since <= now
        /\ policy.minInitialRun \in Nat /\ policy.windows \in SUBSET DisruptionWindow
    BY PolicyTypes DEF ReadyInv, TypeInv, TypeOK
  <2>2. ~queued /\ (wake = 0 \/ now < wake)
    BY <2>1 DEF Due
  <2>3. /\ IsTimeInWindows(now, policy.windows).in <=> InOpenedWindow(now, policy.windows)
        /\ InOpenedWindow(now, policy.windows) => InWindow(now, policy.windows)
    BY <2>1, WindowsExact
  <2>4. n \in Young <=> now - pod[n].since < policy.minInitialRun
    BY DEF Young
  <2>5. (policy.minInitialRun > 0 => now - pod[n].since >= policy.minInitialRun) <=> n \notin Young
    BY <2>1, <2>4
  <2>6. readiness = "Ready" => Admits(n)
    <3>1. readiness = "Ready" /\ ~policy.override => InOpenedWindow(now, policy.windows) /\ Young = {}
      BY <2>1, <2>2 DEF ReadyInv, StaysReady
    <3> QED
      BY <3>1, <2>3, <2>5 DEF Admits
  <2>7. readiness = "Overdue" => overdue
    BY <2>2 DEF ReadyInv
  <2>8. Admits(n) => policy.override \/ overdue \/ (InWindow(now, policy.windows) /\ n \notin Young)
    BY <2>3, <2>5, <2>7 DEF Admits
  <2> QED
    BY <2>6, <2>8
<1>2. ReadyInv /\ [Next]_vars => ReadyInv'
    BY ReadyNext
<1> QED
    BY <1>1, <1>2, ReadyInit, PTL DEF Spec
=============================================================================
