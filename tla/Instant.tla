-------------------------------- MODULE Instant --------------------------------
(****************************************************************************)
(* SAML times (saml.rs): the arithmetic between a calendar date and a day   *)
(* number, and what parse_instant accepts, beside a calendar that is turned *)
(* one day at a time by the rules of the Gregorian calendar.                *)
(****************************************************************************)
EXTENDS Integers

CONSTANTS
    FirstYears,  \* the years the calendar may be opened at
    Years        \* how many years it is turned through from there

VARIABLES
    day,         \* the number of a day, 1970-01-01 being 0
    date         \* the calendar's date of that day

vars == <<day, date>>

(* Rust's / rounds towards zero.                                            *)
Quot(a, b) == IF a >= 0 THEN a \div b ELSE -((-a) \div b)

(* The four centuries a year, or a day, is in.                              *)
YearEra(y) == Quot(IF y >= 0 THEN y ELSE y - 399, 400)
DayEra(z) == Quot(IF z >= 0 THEN z ELSE z - 146096, 146097)

DaysFromCivil(year, m, d) ==
    LET y == IF m <= 2 THEN year - 1 ELSE year
        era == YearEra(y)
        yoe == y - era * 400
        mp == (m + 9) % 12
        doy == (153 * mp + 2) \div 5 + d - 1
        doe == yoe * 365 + yoe \div 4 - yoe \div 100 + doy
    IN era * 146097 + doe - 719468

(* Faulty: the last day of four centuries is not its year's.                *)
YearOfEraNoLastDay(doe) == (doe - doe \div 1460 + doe \div 36524) \div 365

(* The year a day of four centuries is in, and the date of a day of a year. *)
YearOfEra(doe) == (doe - doe \div 1460 + doe \div 36524 - doe \div 146096) \div 365

DateInYear(y, doy) ==
    LET mp == (5 * doy + 2) \div 153
        m == IF mp < 10 THEN mp + 3 ELSE mp - 9
    IN [y |-> IF m <= 2 THEN y + 1 ELSE y, m |-> m, d |-> doy - (153 * mp + 2) \div 5 + 1]

CivilFromDays(n) ==
    LET z == n + 719468
        doe == z - DayEra(z) * 146097
        yoe == YearOfEra(doe)
        doy == doe - (365 * yoe + yoe \div 4 - yoe \div 100)
    IN DateInYear(yoe + DayEra(z) * 400, doy)

(* The dates parse_instant accepts: four and two digits each, a month there *)
(* is, and a day that survives the way to a day number and back.            *)
ParsesAsDate(y, m, d) ==
    /\ m \in 1..12
    /\ CivilFromDays(DaysFromCivil(y, m, d)) = [y |-> y, m |-> m, d |-> d]

------------------------------------------------------------------------------
Leap(y) == (y % 4 = 0 /\ y % 100 # 0) \/ y % 400 = 0

DaysIn(y, m) ==
    IF m = 2 THEN (IF Leap(y) THEN 29 ELSE 28) ELSE IF m \in {4, 6, 9, 11} THEN 30 ELSE 31

Init ==
    \E y \in FirstYears : day = DaysFromCivil(y, 1, 1) /\ date = [y |-> y, m |-> 1, d |-> 1]

NextDay ==
    /\ date.d < DaysIn(date.y, date.m)
    /\ date' = [date EXCEPT !.d = @ + 1]
    /\ day' = day + 1

NextMonth ==
    /\ date.d = DaysIn(date.y, date.m) /\ date.m < 12
    /\ date' = [y |-> date.y, m |-> date.m + 1, d |-> 1]
    /\ day' = day + 1

NextYear ==
    /\ date.d = 31 /\ date.m = 12 /\ \E y \in FirstYears : date.y + 1 \in y..(y + Years - 1)
    /\ date' = [y |-> date.y + 1, m |-> 1, d |-> 1]
    /\ day' = day + 1

Next == NextDay \/ NextMonth \/ NextYear

Spec == Init /\ [][Next]_vars

------------------------------------------------------------------------------
(* On every day of the range, across centuries that are leap years and      *)
(* centuries that are not, the two conversions are the calendar's, and of   *)
(* the days that can be written for its month parse_instant takes those it  *)
(* has: a time sent by the identity provider is read as the moment it names *)
(* or refused, never as another day.                                        *)
CalendarAgrees ==
    /\ CivilFromDays(day) = date
    /\ DaysFromCivil(date.y, date.m, date.d) = day
    /\ date.d = 1 =>
          \A d \in 0..32 : ParsesAsDate(date.y, date.m, d) <=> d \in 1..DaysIn(date.y, date.m)
==============================================================================
