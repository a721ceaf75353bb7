------------------------------ MODULE CivilDate ------------------------------
(***************************************************************************)
(* createdAt: chrono_like_now (rust/src/resolver.rs) turns a day count     *)
(* into a calendar date, iso_to_bson_date (rust/src/services.rs) turns it  *)
(* back.  Both work on a year that begins in March and on eras of 400      *)
(* years, in integers.                                                     *)
(*                                                                         *)
(* They are checked against the calendar itself: a walk from day to day    *)
(* through every year, starting each year on the day that the leap years   *)
(* before it determine.                                                    *)
(***************************************************************************)
EXTENDS Integers, Sequences, FiniteSets

CONSTANTS FirstYear, LastYear   \* bound: the years walked, from 1970

NoDate == <<>>

\* Faulty variant of ChronoLikeNow: a February is written under the year before.
ChronoLikeNowYear(days, secs) ==
  LET z   == days + 719468
      era == z \div 146097
      doe == z % 146097
      yoe == (doe - doe \div 1460 + doe \div 36524 - doe \div 146096) \div 365
      doy == doe - (365 * yoe + yoe \div 4 - yoe \div 100)
      mp  == (5 * doy + 2) \div 153
      m   == IF mp < 10 THEN mp + 3 ELSE mp - 9
  IN  <<IF m < 2 THEN yoe + era * 400 + 1 ELSE yoe + era * 400, m,
        doy - (153 * mp + 2) \div 5 + 1,
        (secs \div 3600) % 24, (secs \div 60) % 60, secs % 60, 0>>

\* The numbers of "YYYY-MM-DDTHH:MM:SS.000Z" for second secs of day days since
\* 1970-01-01.
ChronoLikeNow(days, secs) ==
  LET z   == days + 719468
      era == z \div 146097
      doe == z % 146097
      yoe == (doe - doe \div 1460 + doe \div 36524 - doe \div 146096) \div 365
      doy == doe - (365 * yoe + yoe \div 4 - yoe \div 100)
      mp  == (5 * doy + 2) \div 153
      m   == IF mp < 10 THEN mp + 3 ELSE mp - 9
  IN  <<IF m <= 2 THEN yoe + era * 400 + 1 ELSE yoe + era * 400, m,
        doy - (153 * mp + 2) \div 5 + 1,
        (secs \div 3600) % 24, (secs \div 60) % 60, secs % 60, 0>>

\* Faulty variant of IsoToDate: every century year is a leap year.
IsoToDateJulian(n) ==
  IF Len(n) < 6 THEN NoDate
  ELSE LET y2  == IF n[2] <= 2 THEN n[1] - 1 ELSE n[1]
           era == y2 \div 400
           yoe == y2 - era * 400
           doy == (153 * (IF n[2] > 2 THEN n[2] - 3 ELSE n[2] + 9) + 2) \div 5 + n[3] - 1
       IN  <<era * 146097 + yoe * 365 + yoe \div 4 + doy - 719468,
             n[4] * 3600 + n[5] * 60 + n[6],
             IF Len(n) > 6 THEN n[7] ELSE 0>>

\* n: the numbers in the string, in order.  The DateTime is days * 86400000 +
\* secs * 1000 + ms, here <<days, secs, ms>>.
IsoToDate(n) ==
  IF Len(n) < 6 THEN NoDate
  ELSE LET y2  == IF n[2] <= 2 THEN n[1] - 1 ELSE n[1]
           era == y2 \div 400
           yoe == y2 - era * 400
           doy == (153 * (IF n[2] > 2 THEN n[2] - 3 ELSE n[2] + 9) + 2) \div 5 + n[3] - 1
           doe == yoe * 365 + yoe \div 4 - yoe \div 100 + doy
       IN  <<era * 146097 + doe - 719468,
             n[4] * 3600 + n[5] * 60 + n[6],
             IF Len(n) > 6 THEN n[7] ELSE 0>>

-----------------------------------------------------------------------------
(* The calendar *)

IsLeap(y) == y % 4 = 0 /\ (y % 100 = 0 => y % 400 = 0)

DaysIn(y, m) ==
  CASE m = 2             -> IF IsLeap(y) THEN 29 ELSE 28
    [] m \in {4, 6, 9, 11} -> 30
    [] OTHER             -> 31

NewYear(y) == 365 * (y - 1970) + Cardinality({k \in 1970 .. (y - 1) : IsLeap(k)})

VARIABLES year, month, mday, count   \* a date and its number of days since 1970

vars == <<year, month, mday, count>>

Init == /\ year \in FirstYear .. LastYear
        /\ month = 1 /\ mday = 1
        /\ count = NewYear(year)

NextDay ==
  /\ mday < DaysIn(year, month)
  /\ mday' = mday + 1 /\ count' = count + 1
  /\ UNCHANGED <<year, month>>

NextMonth ==
  /\ mday = DaysIn(year, month) /\ month < 12
  /\ month' = month + 1 /\ mday' = 1 /\ count' = count + 1
  /\ UNCHANGED year

Next == NextDay \/ NextMonth

Spec == Init /\ [][Next]_vars

-----------------------------------------------------------------------------
\* Moments of a day at which an hour, a minute or the day turns.
Moments == {0, 59, 60, 3599, 3600, 43199, 43200, 86399}

\* chrono_like_now writes the date of the calendar, in every month of common,
\* leap and century years.
WritesTheDate ==
  \A s \in Moments :
    LET n == ChronoLikeNow(count, s)
    IN  /\ n[1] = year /\ n[2] = month /\ n[3] = mday
        /\ n[4] \in 0 .. 23 /\ n[5] \in 0 .. 59 /\ n[6] \in 0 .. 59

\* iso_to_bson_date reads back the moment that chrono_like_now wrote: the Date in
\* Mongo is the time the song was made.
ReadsItBack ==
  \A s \in Moments : IsoToDate(ChronoLikeNow(count, s)) = <<count, s, 0>>
=============================================================================
