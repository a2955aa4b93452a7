-------------------------- MODULE DisruptionWindows --------------------------
(***************************************************************************)
(* IsTimeInWindows (internal/utils/temporal.go): whether an instant lies   *)
(* in one of a policy's disruption windows, and after how long to look     *)
(* again.  An instant is a number of slots, a day has DayLen of them and a *)
(* week WeekLen days.  A window's time zone is a fixed offset; daylight    *)
(* saving changes are left out.                                            *)
(***************************************************************************)
EXTENDS Integers, FiniteSetsExt

CONSTANTS DayLen, WeekLen

ASSUME CalendarAssumption == DayLen \in Nat \ {0} /\ WeekLen \in Nat \ {0}

\* days = {}: every day of the week.
DisruptionWindow ==
    [start : 0..DayLen - 1, end : 0..DayLen - 1, days : SUBSET (0..WeekLen - 1), zone : Int]

MaxWait == WeekLen * DayLen

Weekday(t) == (t \div DayLen) % WeekLen

\* Whether the window starts on the local day of instant t.
StartsOn(w, t) == w.days = {} \/ Weekday(t) \in w.days

\* Mutant: the spillover after midnight is attributed to today.
CrossMidnightByToday(w, tod, todayActive, yesterdayActive) ==
    IF todayActive /\ tod > w.start THEN [in |-> TRUE, wait |-> w.end + DayLen - tod]
    ELSE IF todayActive /\ tod < w.end THEN [in |-> TRUE, wait |-> w.end - tod]
    ELSE IF todayActive /\ tod < w.start THEN [in |-> FALSE, wait |-> w.start - tod]
    ELSE [in |-> FALSE, wait |-> MaxWait]

\* tod is the local time of day.
evaluateCrossMidnightWindow(w, tod, todayActive, yesterdayActive) ==
    IF todayActive /\ tod > w.start THEN [in |-> TRUE, wait |-> w.end + DayLen - tod]
    ELSE IF yesterdayActive /\ tod < w.end THEN [in |-> TRUE, wait |-> w.end - tod]
    ELSE IF todayActive /\ tod < w.start THEN [in |-> FALSE, wait |-> w.start - tod]
    ELSE [in |-> FALSE, wait |-> MaxWait]

evaluateSameDayWindow(w, tod) ==
    IF (w.start < tod /\ tod < w.end) \/ w.start = w.end THEN [in |-> TRUE, wait |-> w.end - tod]
    ELSE [in |-> FALSE, wait |-> IF tod < w.start THEN w.start - tod ELSE MaxWait]

\* windowInfo and evaluateWindow.
evaluateWindow(w, now) ==
    LET local     == now + w.zone
        tod       == local % DayLen
        today     == StartsOn(w, local)
        yesterday == StartsOn(w, local - DayLen)
    IN  IF ~today /\ ~yesterday THEN [in |-> FALSE, wait |-> MaxWait]
        ELSE IF w.end < w.start THEN evaluateCrossMidnightWindow(w, tod, today, yesterday)
        ELSE IF ~today THEN [in |-> FALSE, wait |-> MaxWait]
        ELSE evaluateSameDayWindow(w, tod)

IsTimeInWindows(now, windows) ==
    IF windows = {} THEN [in |-> TRUE, wait |-> 0]
    ELSE [in   |-> \E w \in windows : evaluateWindow(w, now).in,
          wait |-> Min({MaxWait} \cup {evaluateWindow(w, now).wait : w \in windows})]

-----------------------------------------------------------------------------
(* The windows as the README describes them. *)

\* Instant t is in the occurrence of w that starts on the local day of d.  A
\* window that crosses midnight belongs to the day it starts; one that starts
\* and ends at the same time of day lasts the whole day.  The first instant belongs
\* to it, the one at which it ends does not.
InOccurrence(w, d, t) ==
    LET day == ((d + w.zone) \div DayLen) * DayLen - w.zone
    IN  /\ StartsOn(w, d + w.zone)
        /\ IF w.start = w.end THEN day <= t /\ t < day + DayLen
           ELSE /\ day + w.start <= t
                /\ t < day + w.end + (IF w.end < w.start THEN DayLen ELSE 0)

InWindow(t, windows) ==
    windows = {} \/ \E w \in windows : InOccurrence(w, t, t) \/ InOccurrence(w, t - DayLen, t)

\* Instant t is the first one of an occurrence of w that does not last the whole day.
Opens(w, t) ==
    /\ w.start # w.end /\ StartsOn(w, t + w.zone)
    /\ (t + w.zone) % DayLen = w.start

\* Instant t is in a window that was open before.
InOpenedWindow(t, windows) ==
    \/ windows = {}
    \/ \E w \in windows : ~Opens(w, t) /\ (InOccurrence(w, t, t) \/ InOccurrence(w, t - DayLen, t))
=============================================================================
