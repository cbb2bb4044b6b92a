------------------------------ MODULE CivilTime ------------------------------
(***************************************************************************)
(* The calendar of src/db/nvd_catchup.c: an instant is a number of days    *)
(* since 1970-01-01 and a millisecond of the day; a timestamp is the       *)
(* record of the fields its text spells.                                   *)
(***************************************************************************)
EXTENDS Integers, Sequences

(* Integer division in C rounds towards zero. *)
CDiv(x, y) == IF x >= 0 THEN x \div y ELSE -((-x) \div y)
(* Mutant: the era of a year before March of year 0 is rounded up. *)
DaysFromCivilTruncated(year, m, d) ==
    LET y   == IF m <= 2 THEN year - 1 ELSE year
        era == CDiv(y, 400)
        yoe == y - era * 400
        doy == CDiv(153 * (m + (IF m > 2 THEN -3 ELSE 9)) + 2, 5) + d - 1
        doe == yoe * 365 + CDiv(yoe, 4) - CDiv(yoe, 100) + doy
    IN  era * 146097 + doe - 719468

DaysFromCivil(year, m, d) ==
    LET y   == IF m <= 2 THEN year - 1 ELSE year
        era == CDiv(IF y >= 0 THEN y ELSE y - 399, 400)
        yoe == y - era * 400
        doy == CDiv(153 * (m + (IF m > 2 THEN -3 ELSE 9)) + 2, 5) + d - 1
        doe == yoe * 365 + CDiv(yoe, 4) - CDiv(yoe, 100) + doy
    IN  era * 146097 + doe - 719468

(* The date of a day of a year that begins in March, and of a day of an era. *)
DateInYear(year, doy) ==
    LET mp == CDiv(5 * doy + 2, 153)
        mm == mp + (IF mp < 10 THEN 3 ELSE -9)
    IN  [y |-> year + (IF mm <= 2 THEN 1 ELSE 0), m |-> mm,
         d |-> doy - CDiv(153 * mp + 2, 5) + 1]
DateInEra(era, doe) ==
    LET yoe == CDiv(doe - CDiv(doe, 1460) + CDiv(doe, 36524) - CDiv(doe, 146096), 365)
    IN  DateInYear(yoe + era * 400, doe - (365 * yoe + CDiv(yoe, 4) - CDiv(yoe, 100)))

CivilFromDays(days) ==
    LET z   == days + 719468
        era == CDiv(IF z >= 0 THEN z ELSE z - 146096, 146097)
    IN  DateInEra(era, z - era * 146097)

IsValidYmd(y, m, d) ==
    /\ m \in 1 .. 12
    /\ d \in 1 .. 31
    /\ CivilFromDays(DaysFromCivil(y, m, d)) = [y |-> y, m |-> m, d |-> d]

AddDays(inst, n) == [inst EXCEPT !.days = @ + n]

Earlier(i, j) == i.days < j.days \/ (i.days = j.days /\ i.ms < j.ms)
(* Up to nine digits of fraction are read as milliseconds: fewer than three *)
(* are scaled up, more are cut.                                             *)
Millis(frac) ==
    LET val[n \in 0 .. Len(frac)] == IF n = 0 THEN 0 ELSE val[n - 1] * 10 + frac[n]
    IN  IF Len(frac) >= 3 THEN val[Len(frac)] \div (10 ^ (Len(frac) - 3))
        ELSE val[Len(frac)] * 10 ^ (3 - Len(frac))

NoInstant == [days |-> 0, ms |-> -1]

(* A timestamp ends after the date, after the seconds or after a fraction. *)
ParseInstant(ts) ==
    CASE ~IsValidYmd(ts.y, ts.m, ts.d)                     -> NoInstant
      [] IsValidYmd(ts.y, ts.m, ts.d) /\ ts.ends = "date"
           -> [days |-> DaysFromCivil(ts.y, ts.m, ts.d), ms |-> 0]
      [] IsValidYmd(ts.y, ts.m, ts.d) /\ ts.ends # "date"
           -> IF \/ ts.hh > 23 \/ ts.mm > 59 \/ ts.ss > 59
                 \/ ts.ends = "fraction" /\ Len(ts.frac) \notin 1 .. 9
                THEN NoInstant
                ELSE [days |-> DaysFromCivil(ts.y, ts.m, ts.d),
                      ms   |-> ((ts.hh * 60 + ts.mm) * 60 + ts.ss) * 1000
                                 + (IF ts.ends = "fraction" THEN Millis(ts.frac) ELSE 0)]

Formats(inst) == CivilFromDays(inst.days).y \in 0 .. 9999 /\ 0 <= inst.ms /\ inst.ms < 86400000

FormatInstant(inst) ==
    LET date == CivilFromDays(inst.days)
        ms   == inst.ms % 1000
    IN  [y |-> date.y, m |-> date.m, d |-> date.d, ends |-> "fraction",
         hh |-> inst.ms \div 3600000, mm |-> (inst.ms \div 60000) % 60,
         ss |-> (inst.ms \div 1000) % 60,
         frac |-> <<ms \div 100, (ms \div 10) % 10, ms % 10>>]

=============================================================================
