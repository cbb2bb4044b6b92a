---------------------------- MODULE CalendarCalls ----------------------------
(***************************************************************************)
(* The calendar functions of nvd_catchup.c, called for one day after the   *)
(* other and compared with the calendar itself: a day, the day after it,   *)
(* and so on.                                                              *)
(***************************************************************************)
EXTENDS CivilTime, Calls

CONSTANTS
    FirstDays,       \* years whose days are walked
    WalkDays,        \* days of a walk (bound of the model)
    Moments          \* milliseconds of a day

ASSUME CalendarAssumption ==
    FirstDays \subseteq Int /\ WalkDays \in Nat /\ Moments \subseteq Int

(* The instant of a moment of a day, as it is written and read back. *)
Stamp(date, days, ms) ==
    [date  |-> date, days |-> DaysFromCivil(date.y, date.m, date.d),
     civil |-> CivilFromDays(days), stamp |-> FormatInstant([days |-> days, ms |-> ms])]

(* The days from 1970-01-01 to the first day of a year, counted year by year. *)
DaysBefore(y) ==
    365 * y + (y + 3) \div 4 - (y + 99) \div 100 + (y + 399) \div 400 - 719528

StartWalk ==
    /\ call = Idle
    /\ \E y \in FirstDays, ms \in Moments :
           LET date == [y |-> y, m |-> 1, d |-> 1]
               days == DaysBefore(y)
           IN  Called([op |-> "day", days |-> days, ms |-> ms, left |-> WalkDays],
                      Stamp(date, days, ms))

IsLeap(y) == y % 4 = 0 /\ (y % 100 = 0 => y % 400 = 0)
MonthLength(y, m) == CASE m = 2 -> IF IsLeap(y) THEN 29 ELSE 28
                       [] m \in {4, 6, 9, 11} -> 30
                       [] OTHER -> 31

DayAfter(c) ==
    CASE c.d < MonthLength(c.y, c.m) -> [c EXCEPT !.d = @ + 1]
      [] c.d = MonthLength(c.y, c.m) /\ c.m < 12 -> [y |-> c.y, m |-> c.m + 1, d |-> 1]
      [] OTHER -> [y |-> c.y + 1, m |-> 1, d |-> 1]

WalkDay ==
    /\ call.op = "day" /\ call.left > 0
    /\ call' = [call EXCEPT !.days = AddDays([days |-> @, ms |-> call.ms], 1).days,
                            !.left = @ - 1]
    /\ result' = Stamp(DayAfter(result.date), call'.days, call.ms)

WalkEnds ==
    /\ call.op = "day" /\ call.left = 0
    /\ Called(Idle, <<>>)

CalendarNext == StartWalk \/ WalkDay \/ WalkEnds

(* Whatever else is called, the days are called this way. *)
CalendarSpec == CallInit /\ [][CalendarNext \/ call'.op # "day"]_<<call, result>>

-----------------------------------------------------------------------------
(* The day numbers follow the calendar: the n-th day after a known one has  *)
(* the n-th next number, a number gives back its date, and a date is valid  *)
(* exactly when the calendar has it.                                        *)
CalendarIsExact ==
    call.op = "day" =>
        /\ result.days = call.days
        /\ result.civil = result.date
        /\ \A d \in 1 .. 31 : IsValidYmd(result.date.y, result.date.m, d)
                                <=> d <= MonthLength(result.date.y, result.date.m)

(* A watermark that is written and read back is the same instant, also when *)
(* the zeros that end its fraction are left out or finer digits follow.     *)
TimestampRoundTrips ==
    LET inst == [days |-> call.days, ms |-> call.ms]
        Cut(n) == [result.stamp EXCEPT !.frac = SubSeq(@, 1, n)]
        Finer(digits) == [result.stamp EXCEPT !.frac = @ \o digits]
    IN  call.op = "day" /\ Formats(inst) =>
          /\ \A n \in 1 .. 3 : (\A k \in n + 1 .. 3 : result.stamp.frac[k] = 0)
                                 => ParseInstant(Cut(n)) = inst
          /\ \A digits \in {<<0>>, <<9, 9>>, <<9, 9, 9, 9, 9, 9>>} :
                ParseInstant(Finer(digits)) = inst

(* Instants survive the way through the watermark and keep their distances  *)
(* (the calendar of nvd_catchup.c, which cuts the windows).                 *)
InstantsAreExact == CalendarIsExact /\ TimestampRoundTrips

=============================================================================
