-------------------------- MODULE CivilDateProofs --------------------------
(***************************************************************************)
(* chrono_like_now writes the date of the calendar, and iso_to_bson_date   *)
(* reads it back, for every day and every second of it.                    *)
(***************************************************************************)
EXTENDS CivilDate, FiniteSetTheorems, TLAPS

-----------------------------------------------------------------------------
(* The year of an era: 400 years of 365 days, a leap day every fourth year  *)
(* but in three centuries of four.  The year is guessed from the day with   *)
(* slightly short four-year spans (1460), full centuries (36524) and the    *)
(* last day of the era (146096); the guess is right to the day.             *)

\* A quotient and what is left.
LEMMA Division ==
  ASSUME NEW a \in Int, NEW b \in Nat \ {0}
  PROVE  /\ a \div b \in Int /\ b * (a \div b) <= a /\ a < b * (a \div b) + b
         /\ a % b \in Int /\ a % b = a - b * (a \div b)
OBVIOUS

\* The year is one of the era, and the day is one of that year.
LEMMA YearOfEra ==
  ASSUME NEW doe \in Int, 0 <= doe, doe <= 146096,
         NEW i, NEW j, NEW k, NEW y, NEW q, NEW c,
         i = doe \div 1460, j = doe \div 36524, k = doe \div 146096,
         y = (doe - i + j - k) \div 365, q = y \div 4, c = y \div 100
  PROVE  /\ y \in Int /\ 0 <= y /\ y <= 399
         /\ q \in Int /\ c \in Int
         /\ 0 <= doe - (365 * y + q - c) /\ doe - (365 * y + q - c) <= 366
<1>1. /\ i \in Int /\ 1460 * i <= doe /\ doe < 1460 * i + 1460
      /\ j \in Int /\ 36524 * j <= doe /\ doe < 36524 * j + 36524
      /\ k \in Int /\ 146096 * k <= doe /\ doe < 146096 * k + 146096
  BY Division
<1>2. y \in Int /\ 365 * y <= doe - i + j - k /\ doe - i + j - k < 365 * y + 365
  BY <1>1, Division
<1>3. q \in Int /\ 4 * q <= y /\ y < 4 * q + 4
  BY <1>2, Division
<1>4. c \in Int /\ 100 * c <= y /\ y < 100 * c + 100
  BY <1>2, Division
<1>0. /\ 0 <= i /\ 0 <= j /\ j <= 4
      /\ k = 0 \/ k = 1
      /\ k = 1 => doe = 146096
      /\ k = 0 => doe <= 146095
  BY <1>1
<1>5. CASE k = 1
  <2>1. i = 100 /\ j = 4
    BY <1>0, <1>1, <1>5
  <2>2. y = 399
    BY <1>0, <1>1, <1>2, <1>5, <2>1
  <2>3. q = 99 /\ c = 3
    BY <1>3, <1>4, <2>2
  <2> QED BY <1>0, <1>1, <1>5, <2>2, <2>3
<1>6. CASE k = 0
  <2>1. j <= 3 /\ doe <= 146095
    BY <1>0, <1>1, <1>6
  <2>2. y <= 100 * j + 99
    <3> SUFFICES ASSUME y >= 100 * j + 100 PROVE FALSE
      BY <1>0, <1>1, <1>2
    <3>1. doe >= 36499 * j + 36500 + i
      BY <1>0, <1>1, <1>2, <1>6
    <3>2. 1459 * i >= 36499 * j + 35041
      BY <1>0, <1>1, <3>1
    <3>3. i >= 25 * j + 25
      BY <1>0, <1>1, <3>2
    <3> QED BY <1>0, <1>1, <3>1, <3>3
  <2>3. y >= 100 * j
    <3> SUFFICES ASSUME y <= 100 * j - 1 PROVE FALSE
      BY <1>0, <1>1, <1>2
    <3>1. doe <= 36499 * j - 1 + i
      BY <1>0, <1>1, <1>2, <1>6
    <3>2. 1459 * i <= 36499 * j - 1
      BY <1>0, <1>1, <3>1
    <3>3. i <= 25 * j
      BY <1>0, <1>1, <3>2
    <3> QED BY <1>0, <1>1, <3>1, <3>3
  <2>4. c = j
    BY <1>0, <1>1, <1>2, <1>4, <2>2, <2>3
  <2>5. 0 <= y /\ y <= 399
    BY <1>0, <1>1, <1>2, <2>1, <2>2, <2>3
  <2>6. doe - (365 * y + q - c) >= 0
    <3> SUFFICES ASSUME doe < 365 * y + q - j PROVE FALSE
      BY <1>0, <1>1, <1>2, <1>3, <2>4
    <3>1. i <= q - 1
      BY <1>0, <1>1, <1>2, <1>3, <1>6
    <3>2. doe >= 1460 * q + i - j
      BY <1>0, <1>1, <1>2, <1>3, <1>6
    <3>3. i <= j - 1
      BY <1>0, <1>1, <1>3, <3>1, <3>2
    <3> QED BY <1>0, <1>1, <3>3
  <2>7. doe - (365 * y + q - c) <= 366
    <3>1. i <= 100
      BY <1>0, <1>1
    <3>2. 1460 * q + 1459 >= doe - i + j
      BY <1>0, <1>1, <1>2, <1>3, <1>6
    <3>3. i <= q + 1
      BY <1>0, <1>1, <1>3, <3>1, <3>2
    <3>4. doe <= 365 * y + 364 + i - j
      BY <1>0, <1>1, <1>2, <1>6
    <3> QED BY <1>0, <1>1, <1>2, <1>3, <2>4, <3>3, <3>4
  <2> QED BY <1>0, <1>1, <1>2, <1>3, <1>4, <2>5, <2>6, <2>7
<1> QED BY <1>0, <1>1, <1>5, <1>6

-----------------------------------------------------------------------------
(* Back and forth *)

\* What chrono_like_now computes on its way, by the names it has there.
LEMMA DayOfEra ==
  ASSUME NEW z \in Int
  PROVE  /\ z \div 146097 \in Int /\ z % 146097 \in Int
         /\ z = (z \div 146097) * 146097 + (z % 146097)
         /\ 0 <= z % 146097 /\ z % 146097 <= 146096
<1>1. 146097 \in Nat \ {0}
  OBVIOUS
<1> QED BY <1>1, Division

\* The month of a year that begins in March, from the day and back.
LEMMA MonthOfYear ==
  ASSUME NEW doy \in Int, 0 <= doy, doy <= 366, NEW mp, mp = (5 * doy + 2) \div 153,
         NEW m, m = IF mp < 10 THEN mp + 3 ELSE mp - 9
  PROVE  /\ mp \in Int /\ m \in Int
         /\ mp = IF m > 2 THEN m - 3 ELSE m + 9
         /\ (153 * mp + 2) \div 5 \in Int
<1>1. mp \in Int /\ 153 * mp <= 5 * doy + 2 /\ 5 * doy + 2 < 153 * mp + 153
  BY Division
<1>2. 0 <= mp /\ mp <= 11
  BY <1>1
<1>3. (153 * mp + 2) \div 5 \in Int
  BY <1>1, Division
<1> QED BY <1>1, <1>2, <1>3

\* The year of the count, whether its month is one of the January year or not.
LEMMA YearAgain ==
  ASSUME NEW era \in Int, NEW y \in Int, 0 <= y, y <= 399
  PROVE  (y + era * 400) \div 400 = era
<1> DEFINE w == y + era * 400
           e == w \div 400
<1>1. w \in Int
  OBVIOUS
<1>2. e \in Int /\ 400 * e <= w /\ w < 400 * e + 400
  BY <1>1, Division
<1> QED BY <1>2

\* The seconds of a day, in hours, minutes and seconds and back.
LEMMA TimeOfDay ==
  ASSUME NEW secs \in Int, 0 <= secs, secs <= 86399
  PROVE  ((secs \div 3600) % 24) * 3600 + ((secs \div 60) % 60) * 60 + (secs % 60) = secs
<1> DEFINE h == secs \div 3600
           mi == secs \div 60
<1>1. h \in Int /\ 3600 * h <= secs /\ secs < 3600 * h + 3600
  BY Division
<1>2. mi \in Int /\ 60 * mi <= secs /\ secs < 60 * mi + 60 /\ secs % 60 = secs - 60 * mi
  BY Division
<1> HIDE DEF h, mi
<1>3. h % 24 = h
  <2>1. h \div 24 \in Int /\ 24 * (h \div 24) <= h /\ h < 24 * (h \div 24) + 24
          /\ h % 24 = h - 24 * (h \div 24)
    BY <1>1, Division
  <2> QED BY <1>1, <2>1
<1>4. mi % 60 = mi - 60 * h
  <2>1. mi \div 60 \in Int /\ 60 * (mi \div 60) <= mi /\ mi < 60 * (mi \div 60) + 60
          /\ mi % 60 = mi - 60 * (mi \div 60)
    BY <1>2, Division
  <2>2. mi \div 60 = h
    BY <1>1, <1>2, <2>1
  <2> QED BY <2>1, <2>2
<1> QED BY <1>1, <1>2, <1>3, <1>4 DEF h, mi

\* Every moment of every day, before 1970 and after 2410 too, comes back from
\* the string: the two functions agree on which days there are.
THEOREM DatesRoundTrip ==
  ASSUME NEW days \in Int, NEW secs \in Int, 0 <= secs, secs <= 86399
  PROVE  IsoToDate(ChronoLikeNow(days, secs)) = <<days, secs, 0>>
<1> DEFINE z   == days + 719468
           era == z \div 146097
           doe == z % 146097
           i   == doe \div 1460
           j   == doe \div 36524
           k   == doe \div 146096
           yoe == (doe - i + j - k) \div 365
           q   == yoe \div 4
           c   == yoe \div 100
           doy == doe - (365 * yoe + q - c)
           mp  == (5 * doy + 2) \div 153
           m   == IF mp < 10 THEN mp + 3 ELSE mp - 9
           off == (153 * mp + 2) \div 5
           Y   == IF m <= 2 THEN yoe + era * 400 + 1 ELSE yoe + era * 400
           D   == doy - off + 1
           hh  == (secs \div 3600) % 24
           mm  == (secs \div 60) % 60
           ss  == secs % 60
           n   == <<Y, m, D, hh, mm, ss, 0>>
<1>1. ChronoLikeNow(days, secs) = n
  BY DEF ChronoLikeNow
<1>2. /\ era \in Int /\ doe \in Int /\ z = era * 146097 + doe
      /\ 0 <= doe /\ doe <= 146096
  BY DayOfEra
<1> HIDE DEF era, doe
<1>3. /\ yoe \in Int /\ 0 <= yoe /\ yoe <= 399 /\ q \in Int /\ c \in Int
      /\ 0 <= doe - (365 * yoe + q - c) /\ doe - (365 * yoe + q - c) <= 366
  BY <1>2, YearOfEra
<1> HIDE DEF i, j, k, yoe
<1>4. doy \in Int /\ 0 <= doy /\ doy <= 366
  <2> HIDE DEF q, c
  <2> QED BY <1>2, <1>3
<1> HIDE DEF doy
<1>5. mp \in Int /\ m \in Int /\ mp = (IF m > 2 THEN m - 3 ELSE m + 9) /\ off \in Int
  BY <1>4, MonthOfYear
<1> HIDE DEF mp, m, off
<1>6. hh * 3600 + mm * 60 + ss = secs
  BY TimeOfDay
<1> HIDE DEF hh, mm, ss
<1> DEFINE y2 == IF m <= 2 THEN Y - 1 ELSE Y
<1>7. y2 = yoe + era * 400
  BY <1>2, <1>3, <1>5
<1>8. y2 \div 400 = era
  BY <1>2, <1>3, <1>7, YearAgain
<1>9. y2 - era * 400 = yoe
  BY <1>2, <1>3, <1>7
<1>10. IsoToDate(n) =
         <<(y2 \div 400) * 146097
             + ((y2 - (y2 \div 400) * 400) * 365 + (y2 - (y2 \div 400) * 400) \div 4
                  - (y2 - (y2 \div 400) * 400) \div 100
                  + ((153 * (IF m > 2 THEN m - 3 ELSE m + 9) + 2) \div 5 + D - 1))
             - 719468,
           hh * 3600 + mm * 60 + ss, 0>>
  <2> HIDE DEF Y, D
  <2> QED BY DEF IsoToDate
<1>11. IsoToDate(n) =
         <<era * 146097 + (yoe * 365 + q - c + (off + D - 1)) - 719468, secs, 0>>
  <2> HIDE DEF n, y2, D
  <2> QED BY <1>5, <1>6, <1>8, <1>9, <1>10 DEF off
<1>12. era * 146097 + (yoe * 365 + q - c + (off + D - 1)) - 719468 = days
  <2> HIDE DEF q, c
  <2>1. yoe * 365 + q - c + (off + D - 1) = doe
    BY <1>2, <1>3, <1>4, <1>5 DEF doy
  <2> HIDE DEF D
  <2> QED BY <1>2, <2>1
<1> HIDE DEF n, D, q, c
<1> QED BY <1>1, <1>11, <1>12

CountInv == count \in Int

\* The Date in Mongo is the time the song was made, on every day of the walk,
\* whichever years it covers.
LEMMA WalkIsReadBack ==
  ASSUME FirstYear \in Int, LastYear \in Int
  PROVE  Spec => []ReadsItBack
<1>1. Init => CountInv
  <2> SUFFICES ASSUME Init PROVE CountInv
    OBVIOUS
  <2>1. year \in Int /\ year - 1 \in Int
    BY DEF Init
  <2> DEFINE span  == 1970 .. (year - 1)
             leaps == {k \in span : IsLeap(k)}
  <2>2. IsFiniteSet(span)
    BY <2>1, FS_Interval
  <2>3. count = 365 * (year - 1970) + Cardinality(leaps)
    BY DEF Init, NewYear
  <2> HIDE DEF span
  <2>4. IsFiniteSet(leaps)
    BY <2>2, FS_Subset
  <2> HIDE DEF leaps
  <2>5. Cardinality(leaps) \in Nat
    BY <2>4, FS_CardinalityType
  <2> QED BY <2>1, <2>3, <2>5 DEF CountInv
<1>2. CountInv /\ [Next]_vars => CountInv'
  BY DEF CountInv, Next, NextDay, NextMonth, vars
<1>3. CountInv => ReadsItBack
  <2> SUFFICES ASSUME CountInv, NEW s \in Moments
               PROVE  IsoToDate(ChronoLikeNow(count, s)) = <<count, s, 0>>
    BY DEF ReadsItBack
  <2>1. s \in Int /\ 0 <= s /\ s <= 86399
    BY DEF Moments
  <2> QED BY <2>1, DatesRoundTrip DEF CountInv
<1> QED BY <1>1, <1>2, <1>3, PTL DEF Spec

-----------------------------------------------------------------------------
(* The calendar *)

\* The leap years from year 1 to y, the days before March 1st of year y counted
\* from 1970, and a date by its number of days.
Leaps(y)  == y \div 4 - y \div 100 + y \div 400
March(y)  == 365 * y + Leaps(y) - 719468
Months(m) == IF m > 2 THEN m - 3 ELSE m + 9
Year(y, m)   == IF m <= 2 THEN y - 1 ELSE y
Day(m, d) == (153 * Months(m) + 2) \div 5 + d - 1

\* What is divisible counts once in its quotient.
LEMMA Quotient ==
  ASSUME NEW n \in Int, NEW b \in Nat \ {0}
  PROVE  n \div b = (n - 1) \div b + (IF n % b = 0 THEN 1 ELSE 0)
<1> DEFINE q == n \div b
           p == (n - 1) \div b
<1>1. q \in Int /\ b * q <= n /\ n < b * q + b /\ n % b = n - b * q
  BY Division
<1>2. p \in Int /\ b * p <= n - 1 /\ n - 1 < b * p + b
  BY Division
<1> HIDE DEF q, p
<1>3. CASE n = b * q
  <2>1. b * p < b * q /\ b * q <= b * p + b
    BY <1>1, <1>2, <1>3
  <2>2. p < q /\ q <= p + 1
    BY <1>1, <1>2, <2>1
  <2> QED BY <1>1, <1>2, <1>3, <2>2 DEF q, p
<1>4. CASE n # b * q
  <2>1. b * q < b * p + b /\ b * p < b * q + b
    BY <1>1, <1>2, <1>4
  <2>2. q < p + 1 /\ p < q + 1
    BY <1>1, <1>2, <2>1
  <2> QED BY <1>1, <1>2, <1>4, <2>2 DEF q, p
<1> QED BY <1>3, <1>4

\* A year divisible by 400 is so by 100, and by 100, by 4.
LEMMA LeapRule ==
  ASSUME NEW n \in Int
  PROVE  /\ n % 400 = 0 => n % 100 = 0
         /\ n % 100 = 0 => n % 4 = 0
<1>1. /\ n % 400 = n - 400 * (n \div 400) /\ n \div 400 \in Int
      /\ n % 100 = n - 100 * (n \div 100) /\ n \div 100 \in Int
      /\ n % 4 = n - 4 * (n \div 4) /\ n \div 4 \in Int
      /\ 100 * (n \div 100) <= n /\ n < 100 * (n \div 100) + 100
      /\ 4 * (n \div 4) <= n /\ n < 4 * (n \div 4) + 4
  BY Division
<1> QED BY <1>1

\* Leaps counts a year as the calendar does.
LEMMA LeapsGrow ==
  ASSUME NEW n \in Int
  PROVE  /\ Leaps(n) \in Int
         /\ Leaps(n) = Leaps(n - 1) + (IF IsLeap(n) THEN 1 ELSE 0)
<1>1. /\ n \div 4 \in Int /\ n \div 100 \in Int /\ n \div 400 \in Int
      /\ (n - 1) \div 4 \in Int /\ (n - 1) \div 100 \in Int /\ (n - 1) \div 400 \in Int
  BY Division
<1>2. /\ n \div 4 = (n - 1) \div 4 + (IF n % 4 = 0 THEN 1 ELSE 0)
      /\ n \div 100 = (n - 1) \div 100 + (IF n % 100 = 0 THEN 1 ELSE 0)
      /\ n \div 400 = (n - 1) \div 400 + (IF n % 400 = 0 THEN 1 ELSE 0)
  BY Quotient
<1> DEFINE a == n % 4
           c == n % 100
           e == n % 400
<1>3. (e = 0 => c = 0) /\ (c = 0 => a = 0)
  BY LeapRule
<1>4. IsLeap(n) <=> a = 0 /\ (c = 0 => e = 0)
  BY DEF IsLeap
<1> HIDE DEF a, c, e
<1>5. /\ n \div 4 = (n - 1) \div 4 + (IF a = 0 THEN 1 ELSE 0)
      /\ n \div 100 = (n - 1) \div 100 + (IF c = 0 THEN 1 ELSE 0)
      /\ n \div 400 = (n - 1) \div 400 + (IF e = 0 THEN 1 ELSE 0)
  BY <1>2 DEF a, c, e
<1> QED BY <1>1, <1>3, <1>4, <1>5 DEF Leaps

\* NewYear counts the leap years since 1970 one by one; by the smallest year at
\* which that count and Leaps would part.
LEMMA LeapYears ==
  ASSUME NEW y \in Int, y >= 1970
  PROVE  Cardinality({k \in 1970 .. (y - 1) : IsLeap(k)}) = Leaps(y - 1) - 477
<1> DEFINE before(n) == 1970 .. (n - 1)
           leap(n)   == {k \in before(n) : IsLeap(k)}
           bad == {n \in 1970 .. y : Cardinality(leap(n)) # Leaps(n - 1) - 477}
           T   == {before(n) : n \in bad}
<1> SUFFICES ASSUME y \in bad PROVE FALSE
  OBVIOUS
<1>1. IsWellFoundedOn(StrictSubsetOrdering(before(y + 1)), FiniteSubsetsOf(before(y + 1)))
  BY FS_StrictSubsetOrderingWellFounded
<1>2. \A n \in bad : before(n) \in FiniteSubsetsOf(before(y + 1))
  <2> SUFFICES ASSUME NEW n \in bad PROVE before(n) \in FiniteSubsetsOf(before(y + 1))
    OBVIOUS
  <2>1. n \in Int /\ n <= y
    OBVIOUS
  <2>2. IsFiniteSet(1970 .. (n - 1))
    BY <2>1, FS_Interval
  <2>3. before(n) \subseteq before(y + 1)
    BY <2>1
  <2> QED BY <2>2, <2>3 DEF FiniteSubsetsOf
<1>3. T \subseteq FiniteSubsetsOf(before(y + 1)) /\ T # {}
  <2> HIDE DEF bad, before
  <2> QED BY <1>2
<1>4. PICK A \in T : \A B \in T : ~(<<B, A>> \in StrictSubsetOrdering(before(y + 1)))
  <2> HIDE DEF T
  <2> QED BY <1>1, <1>3, WFMin
<1>5. PICK n \in bad : A = before(n)
  <2> HIDE DEF bad, before
  <2> QED OBVIOUS
<1>6. n \in Int /\ 1970 <= n /\ n <= y /\ Cardinality(leap(n)) # Leaps(n - 1) - 477
  OBVIOUS
<1>7. n # 1970
  <2> SUFFICES ASSUME n = 1970 PROVE FALSE
    OBVIOUS
  <2>1. leap(n) = {}
    OBVIOUS
  <2>2. Leaps(1969) = 477
    BY DEF Leaps
  <2>3. Cardinality(leap(n)) = 0
    BY <2>1, FS_EmptySet
  <2>4. n - 1 = 1969
    OBVIOUS
  <2> QED BY <1>6, <2>2, <2>3, <2>4
<1> DEFINE p == n - 1
<1>8. p \in 1970 .. y /\ before(p) \in SUBSET before(y + 1) /\ A \in SUBSET before(y + 1)
  BY <1>5, <1>6, <1>7
<1>9. before(p) # A /\ before(p) \subseteq A
  <2>1. p \in A /\ p \notin before(p)
    BY <1>5, <1>6, <1>7
  <2> QED BY <1>5, <1>6, <2>1
<1>10. p \notin bad
  <2> SUFFICES ASSUME p \in bad PROVE FALSE
    OBVIOUS
  <2>1. before(p) \in T
    <3> HIDE DEF bad, before, p
    <3> QED OBVIOUS
  <2>2. <<before(p), A>> \in StrictSubsetOrdering(before(y + 1))
    <3> HIDE DEF before, p
    <3> QED BY <1>8, <1>9 DEF StrictSubsetOrdering
  <2> HIDE DEF T, before, p
  <2> QED BY <1>4, <2>1, <2>2
<1>11. Cardinality(leap(p)) = Leaps(p - 1) - 477
  BY <1>8, <1>10
<1>12. before(n) = before(p) \cup {p} /\ p \notin before(p)
  BY <1>6, <1>7
<1>13. IsFiniteSet(leap(p))
  <2>1. IsFiniteSet(1970 .. (p - 1))
    BY <1>8, FS_Interval
  <2>2. leap(p) \subseteq before(p)
    OBVIOUS
  <2> QED BY <2>1, <2>2, FS_Subset
<1>14. Cardinality(leap(n)) = Cardinality(leap(p)) + (IF IsLeap(p) THEN 1 ELSE 0)
  <2> HIDE DEF before, p
  <2>1. p \notin leap(p)
    BY <1>12
  <2>2. CASE IsLeap(p)
    <3>1. leap(n) = leap(p) \cup {p}
      BY <1>12, <2>2
    <3>2. Cardinality(leap(p) \cup {p}) = Cardinality(leap(p)) + 1
      <4> HIDE DEF leap
      <4> QED BY <1>13, <2>1, FS_AddElement
    <3> HIDE DEF leap
    <3> QED BY <2>2, <3>1, <3>2
  <2>3. CASE ~IsLeap(p)
    <3>1. leap(n) = leap(p)
      BY <1>12, <2>3
    <3>2. Cardinality(leap(p)) \in Nat
      BY <1>13, FS_CardinalityType
    <3> HIDE DEF leap
    <3> QED BY <2>3, <3>1, <3>2
  <2> QED BY <2>2, <2>3
<1>15. p \in Int /\ Leaps(p) \in Int /\ Leaps(p - 1) \in Int
         /\ Leaps(p) = Leaps(p - 1) + (IF IsLeap(p) THEN 1 ELSE 0)
  BY <1>6, LeapsGrow
<1>16. Cardinality(leap(n)) = Leaps(p) - 477
  <2> HIDE DEF leap, p, bad
  <2> QED BY <1>11, <1>14, <1>15
<1> QED BY <1>6, <1>16

\* The month of a day of the year, whose remainder is within the formula's 153.
LEMMA MonthGuess ==
  ASSUME NEW doy \in Int, NEW mp, mp = (5 * doy + 2) \div 153
  PROVE  mp \in Int /\ 153 * mp <= 5 * doy + 2 /\ 5 * doy + 2 < 153 * mp + 153
BY Division

\* The months of a year that begins in March have the lengths that the formula
\* (153 * mp + 2) \div 5 gives them; only a leap day is the 366th of its year.
LEMMA MonthWritten ==
  ASSUME NEW y \in Int, NEW m \in 1 .. 12, NEW d \in Int, 1 <= d, d <= DaysIn(y, m),
         NEW mp, mp = (5 * Day(m, d) + 2) \div 153
  PROVE  /\ Day(m, d) \in Int /\ 0 <= Day(m, d) /\ Day(m, d) <= 365
         /\ Day(m, d) = 365 => m = 2 /\ IsLeap(y)
         /\ mp = Months(m)
         /\ (IF mp < 10 THEN mp + 3 ELSE mp - 9) = m
         /\ Day(m, d) - (153 * mp + 2) \div 5 + 1 = d
<1> DEFINE doy == Day(m, d)
<1>1. doy \in Int => mp \in Int /\ 153 * mp <= 5 * doy + 2 /\ 5 * doy + 2 < 153 * mp + 153
  <2> HIDE DEF doy
  <2>1. mp = (5 * doy + 2) \div 153
    BY DEF doy
  <2> QED BY <2>1, MonthGuess
<1> SUFFICES /\ doy \in Int /\ 0 <= doy /\ doy <= 365
             /\ doy = 365 => m = 2 /\ IsLeap(y)
             /\ mp = Months(m)
  BY DEF Day, Months
<1> USE DEF Day, Months, DaysIn
<1>2. CASE m = 1
  BY <1>1, <1>2
<1>3. CASE m = 2
  BY <1>1, <1>3
<1>4. CASE m = 3
  BY <1>1, <1>4
<1>5. CASE m = 4
  BY <1>1, <1>5
<1>6. CASE m = 5
  BY <1>1, <1>6
<1>7. CASE m = 6
  BY <1>1, <1>7
<1>8. CASE m = 7
  BY <1>1, <1>8
<1>9. CASE m = 8
  BY <1>1, <1>9
<1>10. CASE m = 9
  BY <1>1, <1>10
<1>11. CASE m = 10
  BY <1>1, <1>11
<1>12. CASE m = 11
  BY <1>1, <1>12
<1>13. CASE m = 12
  BY <1>1, <1>13
<1> QED
  BY <1>2, <1>3, <1>4, <1>5, <1>6, <1>7, <1>8, <1>9, <1>10, <1>11, <1>12, <1>13

\* The same, for the three spans of the leap years.
LEMMA Divided ==
  ASSUME NEW n \in Int
  PROVE  /\ n \div 4 \in Int /\ n % 4 = n - 4 * (n \div 4)
         /\ 4 * (n \div 4) <= n /\ n < 4 * (n \div 4) + 4
         /\ n \div 100 \in Int /\ n % 100 = n - 100 * (n \div 100)
         /\ 100 * (n \div 100) <= n /\ n < 100 * (n \div 100) + 100
         /\ n \div 400 \in Int /\ n % 400 = n - 400 * (n \div 400)
         /\ 400 * (n \div 400) <= n /\ n < 400 * (n \div 400) + 400
BY Division

\* The year before a leap year ends its span of four, and a century only with its
\* era.
LEMMA BeforeLeap ==
  ASSUME NEW y \in Int, 0 <= y, y <= 399, IsLeap(y + 1)
  PROVE  y = 4 * (y \div 4) + 3 /\ (y = 100 * (y \div 100) + 99 => y = 399)
<1> DEFINE q == y \div 4
           c == y \div 100
           z == y + 1
<1>0. /\ q \in Int /\ 4 * q <= y /\ y < 4 * q + 4
      /\ c \in Int /\ 100 * c <= y /\ y < 100 * c + 100
  BY Divided
<1> HIDE DEF q, c
<1>1. z \in Int
  OBVIOUS
<1>2. z % 4 = 0 /\ (z % 100 = 0 => z % 400 = 0)
  BY DEF IsLeap
<1> HIDE DEF z
<1>3. z \div 4 \in Int /\ z % 4 = z - 4 * (z \div 4)
  BY <1>1, Divided
<1>4. /\ z \div 100 \in Int /\ z % 100 = z - 100 * (z \div 100)
      /\ 100 * (z \div 100) <= z /\ z < 100 * (z \div 100) + 100
  BY <1>1, Divided
<1>5. z \div 400 \in Int /\ z % 400 = z - 400 * (z \div 400)
  BY <1>1, Divided
<1>6. y = 4 * q + 3
  BY <1>0, <1>2, <1>3 DEF z
<1>7. ASSUME y = 100 * c + 99 PROVE y = 399
  <2>1. z = 100 * c + 100
    BY <1>0, <1>7 DEF z
  <2>2. z \div 100 = c + 1
    BY <1>0, <1>4, <2>1
  <2>3. z % 100 = 0
    BY <1>0, <1>4, <2>1, <2>2
  <2>4. z = 400 * (z \div 400)
    BY <1>1, <1>2, <1>5, <2>3
  <2> QED BY <1>5, <2>4 DEF z
<1> QED BY <1>6, <1>7 DEF q, c

\* The day of the era, from the year of the era and the day of that year.
DayIn(y, d) == 365 * y + y \div 4 - y \div 100 + d

\* And for the spans of the guess.
LEMMA Guessed ==
  ASSUME NEW n \in Int
  PROVE  /\ n \div 365 \in Int /\ 365 * (n \div 365) <= n /\ n < 365 * (n \div 365) + 365
         /\ n \div 1460 \in Int /\ 1460 * (n \div 1460) <= n
         /\ n < 1460 * (n \div 1460) + 1460
         /\ n \div 36524 \in Int /\ 36524 * (n \div 36524) <= n
         /\ n < 36524 * (n \div 36524) + 36524
         /\ n \div 146096 \in Int /\ 146096 * (n \div 146096) <= n
         /\ n < 146096 * (n \div 146096) + 146096
BY Division

\* From a year of the era and a day of it, the year that is guessed is that year.
LEMMA YearWritten ==
  ASSUME NEW y \in Int, 0 <= y, y <= 399, NEW d \in Int, 0 <= d, d <= 365,
         d = 365 => IsLeap(y + 1)
  PROVE  /\ DayIn(y, d) \in Int /\ 0 <= DayIn(y, d) /\ DayIn(y, d) <= 146096
         /\ (DayIn(y, d) - DayIn(y, d) \div 1460 + DayIn(y, d) \div 36524
               - DayIn(y, d) \div 146096) \div 365 = y
<1> DEFINE q   == y \div 4
           c   == y \div 100
           doe == DayIn(y, d)
           i   == doe \div 1460
           j   == doe \div 36524
           k   == doe \div 146096
<1>0. doe = 365 * y + q - c + d
  BY DEF DayIn
<1>1. q \in Int /\ 4 * q <= y /\ y < 4 * q + 4
  BY Division
<1>2. c \in Int /\ 100 * c <= y /\ y < 100 * c + 100 /\ 0 <= c /\ c <= 3
  BY Division
<1> HIDE DEF q, c, doe
<1>3. doe \in Int /\ 0 <= doe /\ doe <= 146096
  BY <1>0, <1>1, <1>2
<1>4. /\ i \in Int /\ 1460 * i <= doe /\ doe < 1460 * i + 1460
      /\ j \in Int /\ 36524 * j <= doe /\ doe < 36524 * j + 36524
      /\ k \in Int /\ 146096 * k <= doe /\ doe < 146096 * k + 146096
  BY <1>3, Guessed
<1> HIDE DEF i, j, k
<1>5. d = 365 => y = 4 * q + 3 /\ (y = 100 * c + 99 => y = 399)
  BY BeforeLeap DEF q, c
<1>6. 0 <= q - c + d - i + j - k /\ q - c + d - i + j - k <= 364
  <2>1. CASE doe = 146096
    <3>1. i = 100 /\ j = 4 /\ k = 1
      BY <1>4, <2>1
    <3>2. y = 399
      BY <1>0, <1>1, <1>2, <2>1
    <3>3. q = 99 /\ c = 3
      BY <1>1, <1>2, <3>2
    <3> QED BY <1>0, <2>1, <3>1, <3>2, <3>3
  <2>2. CASE doe <= 146095
    <3>1. k = 0
      BY <1>3, <1>4, <2>2
    <3>2. y = 399 => d <= 364
      BY <1>0, <1>1, <1>2, <2>2
    <3>3. 36524 * c <= doe /\ doe < 36524 * c + 36524
      <4> DEFINE u == y - 100 * c
                 w == q - 25 * c
      <4>1. u \in Int /\ 0 <= u /\ u <= 99 /\ w \in Int /\ 4 * w <= u /\ 0 <= w /\ w <= 24
        BY <1>1, <1>2
      <4>2. doe = 36524 * c + 365 * u + w + d
        BY <1>0, <1>1, <1>2
      <4>3. u = 99 => d <= 364
        BY <1>2, <1>5, <3>2
      <4> HIDE DEF u, w
      <4> QED BY <1>2, <4>1, <4>2, <4>3
    <3>4. j = c
      BY <1>2, <1>3, <1>4, <3>3
    <3> DEFINE w == y - 4 * q
    <3>5. w \in Int /\ 0 <= w /\ w <= 3 /\ doe = 1460 * q + 365 * w + q - c + d
      BY <1>0, <1>1, <1>2
    <3>6. c <= q /\ q <= 99
      BY <1>1, <1>2
    <3>7. i = q \/ i = q + 1
      <4>1. 1460 * q <= doe /\ doe < 1460 * q + 2920
        BY <1>1, <1>2, <3>5, <3>6
      <4> HIDE DEF w
      <4> QED BY <1>1, <1>3, <1>4, <4>1
    <3>8. CASE i = q
      <4>1. d # 365
        BY <1>1, <1>2, <1>3, <1>4, <1>5, <3>5, <3>6, <3>8
      <4> QED BY <1>1, <1>2, <3>1, <3>4, <3>8, <4>1
    <3>9. CASE i = q + 1
      <4>1. d >= 1
        BY <1>1, <1>2, <1>4, <3>5, <3>6, <3>9
      <4> QED BY <1>1, <1>2, <3>1, <3>4, <3>9, <4>1
    <3> QED BY <3>7, <3>8, <3>9
  <2> QED BY <1>3, <2>1, <2>2
<1> DEFINE x == doe - i + j - k
<1>7. x \in Int /\ 365 * y <= x /\ x < 365 * y + 365
  BY <1>0, <1>1, <1>2, <1>3, <1>4, <1>6
<1>8. x \div 365 \in Int /\ 365 * (x \div 365) <= x /\ x < 365 * (x \div 365) + 365
  BY <1>7, Guessed
<1> HIDE DEF x
<1>9. x \div 365 = y
  BY <1>7, <1>8
<1> QED BY <1>3, <1>9 DEF x, i, j, k, doe

\* The values of the local variables of chrono_like_now.
EraLocals(days, era, doe, yoe, doy) ==
  /\ era = (days + 719468) \div 146097 /\ doe = (days + 719468) % 146097
  /\ yoe = (doe - doe \div 1460 + doe \div 36524 - doe \div 146096) \div 365
  /\ doy = doe - (365 * yoe + yoe \div 4 - yoe \div 100)

MonthLocals(doy, mp, m) ==
  mp = (5 * doy + 2) \div 153 /\ m = IF mp < 10 THEN mp + 3 ELSE mp - 9

\* The date by its parts.
Written(secs, era, yoe, doy, mp, m) ==
  <<IF m <= 2 THEN yoe + era * 400 + 1 ELSE yoe + era * 400, m,
    doy - (153 * mp + 2) \div 5 + 1,
    (secs \div 3600) % 24, (secs \div 60) % 60, secs % 60, 0>>

\* chrono_like_now writes its parts.
LEMMA ChronoByParts ==
  ASSUME NEW days \in Int, NEW secs \in Int, NEW era, NEW doe, NEW yoe, NEW doy,
         NEW mp, NEW m, EraLocals(days, era, doe, yoe, doy), MonthLocals(doy, mp, m)
  PROVE  ChronoLikeNow(days, secs) = Written(secs, era, yoe, doy, mp, m)
<1> DEFINE z    == days + 719468
           era1 == z \div 146097
           doe1 == z % 146097
           yoe1 == (doe1 - doe1 \div 1460 + doe1 \div 36524 - doe1 \div 146096) \div 365
           doy1 == doe1 - (365 * yoe1 + yoe1 \div 4 - yoe1 \div 100)
           mp1  == (5 * doy1 + 2) \div 153
           m1   == IF mp1 < 10 THEN mp1 + 3 ELSE mp1 - 9
<1>1. ChronoLikeNow(days, secs) = Written(secs, era1, yoe1, doy1, mp1, m1)
  BY DEF ChronoLikeNow, Written
<1>2. era1 = era /\ doe1 = doe
  BY DEF EraLocals
<1> HIDE DEF z, era1, doe1
<1>3. yoe1 = yoe
  BY <1>2 DEF EraLocals
<1> HIDE DEF yoe1
<1>4. doy1 = doy
  BY <1>2, <1>3 DEF EraLocals
<1> HIDE DEF doy1
<1>5. mp1 = mp
  BY <1>4 DEF MonthLocals
<1> HIDE DEF mp1
<1>6. m1 = m
  BY <1>5 DEF MonthLocals
<1> HIDE DEF m1
<1> QED BY <1>1, <1>2, <1>3, <1>4, <1>5, <1>6

\* The era of a year, its place in the era, and the place of its days there.
EraOf(y) == y \div 400
YearOf(y) == y - 400 * EraOf(y)
DayOf(y, doy) == DayIn(YearOf(y), doy)

\* An era is 400 years: with its quotients and its leap years it repeats.
LEMMA EraRepeats ==
  ASSUME NEW y \in Int
  PROVE  /\ EraOf(y) \in Int /\ YearOf(y) \in Int /\ 0 <= YearOf(y) /\ YearOf(y) <= 399
         /\ YearOf(y) \div 4 \in Int /\ YearOf(y) \div 100 \in Int
         /\ y \div 4 = 100 * EraOf(y) + YearOf(y) \div 4
         /\ y \div 100 = 4 * EraOf(y) + YearOf(y) \div 100
         /\ IsLeap(y + 1) <=> IsLeap(YearOf(y) + 1)
<1> DEFINE era == EraOf(y)
           yoe == YearOf(y)
<1>1. era \in Int /\ 400 * era <= y /\ y < 400 * era + 400
  BY Division DEF EraOf
<1>2. yoe \in Int /\ 0 <= yoe /\ yoe <= 399 /\ y = 400 * era + yoe
  <2> HIDE DEF era
  <2>1. yoe = y - 400 * era
    BY DEF YearOf, era
  <2> QED BY <1>1, <2>1
<1> HIDE DEF era, yoe
<1>3. /\ y \div 4 \in Int /\ 4 * (y \div 4) <= y /\ y < 4 * (y \div 4) + 4
      /\ y \div 100 \in Int /\ 100 * (y \div 100) <= y /\ y < 100 * (y \div 100) + 100
  BY Division
<1>4. /\ yoe \div 4 \in Int /\ 4 * (yoe \div 4) <= yoe /\ yoe < 4 * (yoe \div 4) + 4
      /\ yoe \div 100 \in Int /\ 100 * (yoe \div 100) <= yoe
      /\ yoe < 100 * (yoe \div 100) + 100
  BY <1>2, Division
<1>5. y \div 4 = 100 * era + yoe \div 4 /\ y \div 100 = 4 * era + yoe \div 100
  BY <1>1, <1>2, <1>3, <1>4
<1> DEFINE a == y + 1
           b == yoe + 1
<1>0. a \in Int /\ b \in Int
  BY <1>2
<1>6. a = 400 * era + b
  BY <1>1, <1>2
<1> HIDE DEF a, b
<1>7. a % 4 = b % 4
  <2>1. /\ a \div 4 \in Int /\ a % 4 = a - 4 * (a \div 4)
        /\ 4 * (a \div 4) <= a /\ a < 4 * (a \div 4) + 4
    BY <1>0, Division
  <2>2. /\ b \div 4 \in Int /\ b % 4 = b - 4 * (b \div 4)
        /\ 4 * (b \div 4) <= b /\ b < 4 * (b \div 4) + 4
    BY <1>0, Division
  <2> QED BY <1>0, <1>1, <1>6, <2>1, <2>2
<1>8. a % 100 = b % 100
  <2>1. /\ a \div 100 \in Int /\ a % 100 = a - 100 * (a \div 100)
        /\ 100 * (a \div 100) <= a /\ a < 100 * (a \div 100) + 100
    BY <1>0, Division
  <2>2. /\ b \div 100 \in Int /\ b % 100 = b - 100 * (b \div 100)
        /\ 100 * (b \div 100) <= b /\ b < 100 * (b \div 100) + 100
    BY <1>0, Division
  <2> QED BY <1>0, <1>1, <1>6, <2>1, <2>2
<1>9. a % 400 = b % 400
  <2>1. /\ a \div 400 \in Int /\ a % 400 = a - 400 * (a \div 400)
        /\ 400 * (a \div 400) <= a /\ a < 400 * (a \div 400) + 400
    BY <1>0, Division
  <2>2. /\ b \div 400 \in Int /\ b % 400 = b - 400 * (b \div 400)
        /\ 400 * (b \div 400) <= b /\ b < 400 * (b \div 400) + 400
    BY <1>0, Division
  <2> QED BY <1>0, <1>1, <1>6, <2>1, <2>2
<1>10. IsLeap(a) <=> IsLeap(b)
  BY <1>7, <1>8, <1>9 DEF IsLeap
<1> QED BY <1>1, <1>2, <1>4, <1>5, <1>10 DEF a, b, era, yoe

\* A day belongs to one era.
LEMMA EraFound ==
  ASSUME NEW era \in Int, NEW doe \in Int, 0 <= doe, doe <= 146096,
         NEW z, z = 146097 * era + doe
  PROVE  z \div 146097 = era /\ z % 146097 = doe
<1>1. z \in Int
  OBVIOUS
<1>2. /\ z \div 146097 \in Int
      /\ 146097 * (z \div 146097) <= z /\ z < 146097 * (z \div 146097) + 146097
      /\ z % 146097 = z - 146097 * (z \div 146097)
  BY <1>1, Division
<1>3. z \div 146097 = era
  BY <1>2
<1> QED BY <1>2, <1>3

\* The number of a day, by the era, the year of the era and the day of that year
\* (years that begin in March).
LEMMA DayByEra ==
  ASSUME NEW y \in Int, NEW doy \in Int, 0 <= doy, doy <= 365,
         doy = 365 => IsLeap(y + 1)
  PROVE  /\ March(y) + doy \in Int /\ EraOf(y) \in Int /\ YearOf(y) \in Int
         /\ EraLocals(March(y) + doy, EraOf(y), DayOf(y, doy), YearOf(y), doy)
<1> DEFINE era  == EraOf(y)
           yoe  == YearOf(y)
           q    == yoe \div 4
           c    == yoe \div 100
           doe  == DayOf(y, doy)
           days == March(y) + doy
<1>1. /\ era \in Int /\ yoe \in Int /\ 0 <= yoe /\ yoe <= 399
      /\ q \in Int /\ c \in Int
      /\ y \div 4 = 100 * era + q
      /\ y \div 100 = 4 * era + c
      /\ doy = 365 => IsLeap(yoe + 1)
  BY EraRepeats
<1>2. y \div 400 = era
  BY DEF EraOf
<1>3. yoe = y - 400 * era
  BY DEF YearOf
<1>4. doe = 365 * yoe + q - c + doy
  BY DEF DayOf, DayIn
<1> HIDE DEF era, yoe
<1>5. /\ doe \in Int /\ 0 <= doe /\ doe <= 146096
      /\ (doe - doe \div 1460 + doe \div 36524 - doe \div 146096) \div 365 = yoe
  <2>1. yoe \in Int /\ 0 <= yoe /\ yoe <= 399 /\ (doy = 365 => IsLeap(yoe + 1))
    BY <1>1
  <2>2. doe = DayIn(yoe, doy)
    BY DEF DayOf, era, yoe
  <2> HIDE DEF doe
  <2> QED BY <2>1, <2>2, YearWritten
<1>6. days \in Int /\ days + 719468 = 146097 * era + doe
  <2>1. March(y) = 365 * y + (100 * era + q - (4 * era + c) + era) - 719468
    BY <1>1, <1>2 DEF March, Leaps
  <2> HIDE DEF q, c, doe
  <2> QED BY <1>1, <1>3, <1>4, <2>1
<1> HIDE DEF days, doe
<1>7. (days + 719468) \div 146097 = era /\ (days + 719468) % 146097 = doe
  BY <1>1, <1>5, <1>6, EraFound
<1>8. doy = doe - (365 * yoe + yoe \div 4 - yoe \div 100)
  <2>1. doy = doe - (365 * yoe + q - c)
    <3> HIDE DEF q, c
    <3> QED BY <1>1, <1>4
  <2> QED BY <2>1
<1>9. EraLocals(days, era, doe, yoe, doy)
  BY <1>5, <1>7, <1>8 DEF EraLocals
<1> QED BY <1>1, <1>6, <1>9 DEF days, era, yoe, doe

\* chrono_like_now writes the date of the calendar, in any year.
THEOREM DatesAreWritten ==
  ASSUME NEW y \in Int, NEW m \in 1 .. 12, NEW d \in Int, 1 <= d, d <= DaysIn(y, m),
         NEW secs \in Int
  PROVE  ChronoLikeNow(March(Year(y, m)) + Day(m, d), secs) =
           <<y, m, d, (secs \div 3600) % 24, (secs \div 60) % 60, secs % 60, 0>>
<1> DEFINE Y    == Year(y, m)
           doy  == Day(m, d)
           mp   == (5 * doy + 2) \div 153
           era  == EraOf(Y)
           yoe  == YearOf(Y)
           doe  == DayOf(Y, doy)
           days == March(Y) + doy
<1>1. /\ doy \in Int /\ 0 <= doy /\ doy <= 365
      /\ doy = 365 => m = 2 /\ IsLeap(y)
      /\ mp = Months(m)
      /\ (IF mp < 10 THEN mp + 3 ELSE mp - 9) = m
      /\ doy - (153 * mp + 2) \div 5 + 1 = d
  BY MonthWritten
<1>2. Y \in Int /\ Y = (IF m <= 2 THEN y - 1 ELSE y)
  BY DEF Year
<1>3. MonthLocals(doy, mp, m)
  BY <1>1 DEF MonthLocals
<1> HIDE DEF Y, doy, mp
<1>4. doy = 365 => IsLeap(Y + 1)
  BY <1>1, <1>2
<1>5. days \in Int /\ era \in Int /\ yoe \in Int /\ EraLocals(days, era, doe, yoe, doy)
  <2>1. doy \in Int /\ 0 <= doy /\ doy <= 365 /\ Y \in Int
    BY <1>1, <1>2
  <2> QED BY <1>4, <2>1, DayByEra
<1>6. Y = yoe + era * 400
  <2>1. yoe = Y - 400 * era
    BY DEF YearOf
  <2> HIDE DEF yoe, era
  <2> QED BY <1>2, <1>5, <2>1
<1> HIDE DEF era, yoe, doe, days
<1>7. ChronoLikeNow(days, secs) = Written(secs, era, yoe, doy, mp, m)
  BY <1>3, <1>5, ChronoByParts
<1>8. (IF m <= 2 THEN yoe + era * 400 + 1 ELSE yoe + era * 400) = y
  BY <1>2, <1>5, <1>6
<1>9. ChronoLikeNow(days, secs) =
        <<y, m, d, (secs \div 3600) % 24, (secs \div 60) % 60, secs % 60, 0>>
  BY <1>1, <1>7, <1>8 DEF Written
<1> QED BY <1>9 DEF days, Y, doy

\* The date of the walk is a date of the calendar, and count is its number.
WalkInv ==
  /\ year \in Int /\ year >= 1970
  /\ month \in 1 .. 12
  /\ mday \in Int /\ 1 <= mday /\ mday <= DaysIn(year, month)
  /\ count = March(Year(year, month)) + Day(month, mday)

\* A year of the walk begins on the day that the leap years before it say.
LEMMA WalkNewYear == ASSUME FirstYear \in Int, FirstYear >= 1970, LastYear \in Int, Init
                     PROVE  WalkInv
<1>1. year \in Int /\ year >= 1970 /\ month = 1 /\ mday = 1
  BY DEF Init
<1>2. count = 365 * (year - 1970) + Leaps(year - 1) - 477 /\ Leaps(year - 1) \in Int
  <2>1. Cardinality({k \in 1970 .. (year - 1) : IsLeap(k)}) = Leaps(year - 1) - 477
    BY <1>1, LeapYears
  <2>2. Leaps(year - 1) \in Int
    BY <1>1, LeapsGrow
  <2>3. count = 365 * (year - 1970) + Cardinality({k \in 1970 .. (year - 1) : IsLeap(k)})
    BY DEF Init, NewYear
  <2> DEFINE leaps == Cardinality({k \in 1970 .. (year - 1) : IsLeap(k)})
  <2> HIDE DEF leaps
  <2> QED BY <1>1, <2>1, <2>2, <2>3 DEF leaps
<1>3. Year(year, month) = year - 1 /\ Day(month, mday) = 306
  BY <1>1 DEF Year, Day, Months
<1> QED BY <1>1, <1>2, <1>3 DEF WalkInv, DaysIn, March

\* A new day, and a new month after its last day, add one to the number.
LEMMA WalkGoesOn == WalkInv /\ [Next]_vars => WalkInv'
<1> SUFFICES ASSUME WalkInv, [Next]_vars PROVE WalkInv'
  OBVIOUS
<1>0. Leaps(year) \in Int /\ Leaps(year - 1) \in Int
        /\ Leaps(year) = Leaps(year - 1) + (IF IsLeap(year) THEN 1 ELSE 0)
  BY LeapsGrow DEF WalkInv
<1>1. CASE NextDay
  <2>1. March(Year(year, month)) \in Int /\ (153 * Months(month) + 2) \div 5 \in Int
          /\ DaysIn(year, month) \in Int
    BY <1>0 DEF WalkInv, March, Year, Months, DaysIn
  <2> QED BY <1>1, <2>1 DEF WalkInv, NextDay, Day
<1>2. CASE NextMonth
  <2> USE <1>0, <1>2 DEF WalkInv, NextMonth, Day, Months, DaysIn, Year, March
  <2>1. CASE month = 1
    BY <2>1
  <2>2. CASE month = 2
    BY <2>2
  <2>3. CASE month = 3
    BY <2>3
  <2>4. CASE month = 4
    BY <2>4
  <2>5. CASE month = 5
    BY <2>5
  <2>6. CASE month = 6
    BY <2>6
  <2>7. CASE month = 7
    BY <2>7
  <2>8. CASE month = 8
    BY <2>8
  <2>9. CASE month = 9
    BY <2>9
  <2>10. CASE month = 10
    BY <2>10
  <2>11. CASE month = 11
    BY <2>11
  <2> QED BY <2>1, <2>2, <2>3, <2>4, <2>5, <2>6, <2>7, <2>8, <2>9, <2>10, <2>11
<1>3. CASE UNCHANGED vars
  BY <1>3 DEF WalkInv, vars
<1> QED BY <1>1, <1>2, <1>3 DEF Next

\* On every day from 1970 on, in common, leap and century years of any era, the
\* string that chrono_like_now writes is the date that a calendar shows.
LEMMA WalkIsWritten ==
  ASSUME FirstYear \in Int, FirstYear >= 1970, LastYear \in Int
  PROVE  Spec => []WritesTheDate
<1>1. WalkInv => WritesTheDate
  <2> SUFFICES ASSUME WalkInv, NEW s \in Moments, NEW n, n = ChronoLikeNow(count, s)
               PROVE  /\ n[1] = year /\ n[2] = month /\ n[3] = mday
                      /\ n[4] \in 0 .. 23 /\ n[5] \in 0 .. 59 /\ n[6] \in 0 .. 59
    BY DEF WritesTheDate
  <2>1. s \in Int
    BY DEF Moments
  <2>2. n = <<year, month, mday, (s \div 3600) % 24, (s \div 60) % 60, s % 60, 0>>
    BY <2>1, DatesAreWritten DEF WalkInv
  <2>3. (s \div 3600) % 24 \in 0 .. 23 /\ (s \div 60) % 60 \in 0 .. 59 /\ s % 60 \in 0 .. 59
    BY <2>1
  <2> HIDE DEF Moments
  <2> QED BY <2>2, <2>3
<1>2. Init => WalkInv
  BY WalkNewYear
<1> QED BY <1>1, <1>2, WalkGoesOn, PTL DEF Spec

=============================================================================
