----------------------------- MODULE PartsProofs -----------------------------
(***************************************************************************)
(* Theorems of the parts: the dates (whose arithmetic is in                *)
(* CivilDateProofs), the buckets of a waveform, a request on its way       *)
(* through the front, the video id of an input, the output of ffmpeg       *)
(* (whose loop is in ChildOutputProofs), and the documents of a video for  *)
(* any number of requests that save it.                                    *)
(* Each is proved of the part's own specification and carried over to      *)
(* MCParts, every behaviour of which is one of every part.                 *)
(***************************************************************************)
EXTENDS MCParts, FiniteSetTheorems, SequenceTheorems, TLAPS

D == INSTANCE CivilDateProofs
W == INSTANCE ChildOutputProofs

-----------------------------------------------------------------------------
(* Dates *)

\* The calendar that CivilDateProofs proves about is the one walked here.
LEMMA SameCalendar == \A y, m : C!NewYear(y) = D!NewYear(y) /\ C!DaysIn(y, m) = D!DaysIn(y, m)
<1>1. \A y : C!IsLeap(y) = D!IsLeap(y)
  BY DEF C!IsLeap, D!IsLeap
<1>2. ASSUME NEW T PROVE C!Cardinality(T) = D!Cardinality(T)
  BY DEF C!Cardinality, D!Cardinality
<1> QED BY <1>1, <1>2 DEF C!NewYear, D!NewYear, C!DaysIn, D!DaysIn

\* The date of MCParts walks the calendar, or rests on a first of January.
LEMMA DatesWalk ==
  ASSUME FirstYear \in Int, LastYear \in Int, FirstYear <= LastYear
  PROVE  Spec => D!Spec
<1>1. Init => D!Init
  BY SameCalendar DEF Init, DatesIdle, C!Init, D!Init
<1>2. [Next]_vars => [D!Next]_(D!vars)
  <2>1. C!Next => D!Next
    BY SameCalendar DEF C!Next, D!Next, C!NextDay, D!NextDay, C!NextMonth, D!NextMonth
  <2> QED
    BY <2>1 DEF Next, Dates, Waves, Front, Input, Output, Songs, vars, dateVars, D!vars
<1> QED BY <1>1, <1>2, PTL DEF Spec, D!Spec

\* On every day of a walk through any years from 1970 on, at every moment,
\* chrono_like_now writes the date of the calendar.
THEOREM DateIsTheCalendars ==
  ASSUME FirstYear \in Int, LastYear \in Int, 1970 <= FirstYear, FirstYear <= LastYear
  PROVE  Spec => []WritesTheDate
<1>1. D!Spec => []D!WritesTheDate
  BY D!WalkIsWritten
<1>2. D!WritesTheDate => WritesTheDate
  BY DEF WritesTheDate, C!WritesTheDate, D!WritesTheDate,
         C!ChronoLikeNow, D!ChronoLikeNow, C!Moments, D!Moments
<1> QED BY <1>1, <1>2, DatesWalk, PTL

\* On every day of a walk through any years, iso_to_bson_date reads back the
\* moment that chrono_like_now wrote.
THEOREM DateIsReadBack ==
  ASSUME FirstYear \in Int, LastYear \in Int, FirstYear <= LastYear
  PROVE  Spec => []ReadsItBack
<1>1. D!Spec => []D!ReadsItBack
  BY D!WalkIsReadBack
<1>2. D!ReadsItBack => ReadsItBack
  <2>1. \A n : C!IsoToDate(n) = D!IsoToDate(n)
    BY DEF C!IsoToDate, D!IsoToDate, C!NoDate, D!NoDate
  <2>2. \A days, secs : C!ChronoLikeNow(days, secs) = D!ChronoLikeNow(days, secs)
    BY DEF C!ChronoLikeNow, D!ChronoLikeNow
  <2> QED
    BY <2>1, <2>2 DEF ReadsItBack, C!ReadsItBack, D!ReadsItBack, C!Moments, D!Moments
<1> QED BY <1>1, <1>2, DatesWalk, PTL

-----------------------------------------------------------------------------
(* Waveform peaks *)

\* The prover knows nothing of 2^n, but the library counts subsets with it.
LEMMA PowerSteps ==
  ASSUME NEW n \in Nat
  PROVE  2^n \in Nat /\ 2^(n + 1) = 2 * 2^n
<1> DEFINE Old == SUBSET (1 .. n)
           New == {T \cup {n + 1} : T \in Old}
<1>1. IsFiniteSet(1 .. n) /\ Cardinality(1 .. n) = n
  BY FS_Interval
<1>2. IsFiniteSet(1 .. n + 1) /\ Cardinality(1 .. n + 1) = n + 1
  <2> HIDE DEF Old, New
  <2>1. n + 1 \in Int
    OBVIOUS
  <2> QED BY <2>1, FS_Interval
<1>3. IsFiniteSet(Old) /\ Cardinality(Old) = 2^n
  BY <1>1, FS_SUBSET
<1>4. Cardinality(SUBSET (1 .. n + 1)) = 2^(n + 1)
  BY <1>2, FS_SUBSET
<1>5. IsFiniteSet(New) /\ Cardinality(New) = Cardinality(Old)
  <2> DEFINE f == [T \in Old |-> T \cup {n + 1}]
  <2>1. f \in Bijection(Old, New)
    <3>1. f \in [Old -> New]
      OBVIOUS
    <3>2. \A T, U \in Old : f[T] = f[U] => T = U
      <4> SUFFICES ASSUME NEW T \in Old, NEW U \in Old, f[T] = f[U] PROVE T = U
        OBVIOUS
      <4>1. T \cup {n + 1} = U \cup {n + 1}
        OBVIOUS
      <4>2. n + 1 \notin T /\ n + 1 \notin U
        OBVIOUS
      <4> QED BY <4>1, <4>2
    <3>3. \A V \in New : \E T \in Old : f[T] = V
      OBVIOUS
    <3> QED BY <3>1, <3>2, <3>3 DEF Bijection, Injection, IsInjective, Surjection
  <2>2. ExistsBijection(Old, New)
    BY <2>1 DEF ExistsBijection
  <2> HIDE DEF Old, New
  <2> QED BY <1>3, <2>2, FS_Bijection
<1>6. Old \cap New = {}
  <2>1. ~ \E T \in Old, V \in New : T = V
    <3>1. \A T \in Old : n + 1 \notin T
      OBVIOUS
    <3>2. \A V \in New : n + 1 \in V
      OBVIOUS
    <3> QED BY <3>1, <3>2
  <2> QED BY <2>1
<1>7. SUBSET (1 .. n + 1) = Old \cup New
  <2>1. 1 .. n + 1 = (1 .. n) \cup {n + 1}
    OBVIOUS
  <2>2. ASSUME NEW V \in SUBSET (1 .. n + 1), n + 1 \in V
        PROVE  V \in New
    <3>1. V \ {n + 1} \in Old
      BY <2>1
    <3>2. V = (V \ {n + 1}) \cup {n + 1}
      BY <2>2
    <3> QED BY <3>1, <3>2
  <2>3. ASSUME NEW V \in SUBSET (1 .. n + 1), n + 1 \notin V
        PROVE  V \in Old
    BY <2>1, <2>3
  <2>4. \A V \in New : V \in SUBSET (1 .. n + 1)
    BY <2>1
  <2>5. \A V \in Old : V \in SUBSET (1 .. n + 1)
    BY <2>1
  <2> QED BY <2>2, <2>3, <2>4, <2>5
<1>8. Cardinality(Old) \in Nat
  BY <1>3, FS_CardinalityType
<1>9. Cardinality({}) = 0
  BY FS_EmptySet
<1> HIDE DEF Old, New
<1>10. Cardinality(Old \cup New) = Cardinality(Old) + Cardinality(New) - Cardinality(Old \cap New)
  BY <1>3, <1>5, FS_Union
<1>11. Cardinality(Old \cup New) = 2^n + 2^n
  <2>1. Cardinality(Old \cap New) = 0
    BY <1>6, <1>9
  <2>2. Cardinality(Old) = 2^n /\ Cardinality(New) = 2^n /\ 2^n \in Nat
    BY <1>3, <1>5, <1>8
  <2> QED BY <1>10, <2>1, <2>2
<1>12. 2^(n + 1) = 2^n + 2^n
  BY <1>4, <1>7, <1>11
<1>13. 2^n \in Nat
  BY <1>3, <1>8
<1> QED BY <1>12, <1>13

LEMMA PowersPositive ==
  ASSUME NEW n \in Nat
  PROVE  2^n \in Nat /\ 2^n >= 1
<1> DEFINE bad == {k \in Nat : ~(2^k >= 1)}
<1> SUFFICES bad = {}
  BY PowerSteps
<1> SUFFICES ASSUME bad # {} PROVE FALSE
  OBVIOUS
<1>1. PICK k \in bad : \A j \in bad : k <= j
  BY W!LeastMember
<1>2. k # 0
  <2>1. 2^0 = 1
    OBVIOUS
  <2>2. k = 0 => 2^k = 2^0
    OBVIOUS
  <2>3. ~(2^k >= 1)
    BY <1>1
  <2> QED BY <2>1, <2>2, <2>3
<1>3. k - 1 \in Nat /\ k - 1 \notin bad
  BY <1>1, <1>2
<1>4. 2^(k - 1) \in Nat /\ 2^(k - 1) >= 1
  BY <1>3, PowerSteps
<1>5. 2^((k - 1) + 1) = 2 * 2^(k - 1)
  BY <1>3, PowerSteps
<1>6. (k - 1) + 1 = k
  BY <1>1
<1> QED BY <1>1, <1>4, <1>5, <1>6

LEMMA PowersAdd ==
  ASSUME NEW a \in Nat, NEW b \in Nat
  PROVE  2^(a + b) = 2^a * 2^b
<1> DEFINE bad == {k \in Nat : 2^(a + k) # 2^a * 2^k}
<1> SUFFICES bad = {}
  OBVIOUS
<1> SUFFICES ASSUME bad # {} PROVE FALSE
  OBVIOUS
<1>1. PICK k \in bad : \A j \in bad : k <= j
  BY W!LeastMember
<1>2. k # 0
  <2>1. 2^0 = 1 /\ 2^a \in Nat /\ a + 0 = a
    BY PowerSteps
  <2>2. 2^(a + 0) = 2^a * 2^0
    BY <2>1
  <2> QED BY <1>1, <2>2
<1>3. k - 1 \in Nat /\ 2^(a + (k - 1)) = 2^a * 2^(k - 1)
  BY <1>1, <1>2
<1>4. 2^((k - 1) + 1) = 2 * 2^(k - 1) /\ 2^(k - 1) \in Nat
  BY <1>3, PowerSteps
<1>5. 2^((a + (k - 1)) + 1) = 2 * 2^(a + (k - 1))
  BY <1>3, PowerSteps
<1>6. (k - 1) + 1 = k /\ (a + (k - 1)) + 1 = a + k
  BY <1>1
<1>7. 2^a \in Nat
  BY PowerSteps
<1>8. 2 * (2^a * 2^(k - 1)) = 2^a * (2 * 2^(k - 1))
  BY <1>4, <1>7
<1>9. 2^(a + k) = 2^a * 2^k
  BY <1>3, <1>4, <1>5, <1>6, <1>8
<1> QED BY <1>1, <1>9

\* A power of two that is no larger than another divides it.
LEMMA PowersDivide ==
  ASSUME NEW a \in Nat, NEW b \in Nat, 2^a <= 2^b
  PROVE  a <= b
<1> SUFFICES ASSUME a > b PROVE FALSE
  OBVIOUS
<1>1. a - b - 1 \in Nat
  OBVIOUS
<1>2. 2^(b + 1) = 2 * 2^b /\ 2^b \in Nat /\ 2^b >= 1
  BY PowerSteps, PowersPositive
<1>3. 2^((b + 1) + (a - b - 1)) = 2^(b + 1) * 2^(a - b - 1)
  BY <1>1, PowersAdd
<1>4. (b + 1) + (a - b - 1) = a
  OBVIOUS
<1>5. 2^(a - b - 1) \in Nat /\ 2^(a - b - 1) >= 1
  BY <1>1, PowersPositive
<1>6. 2^a >= 2 * 2^b
  BY <1>2, <1>3, <1>4, <1>5
<1> QED BY <1>2, <1>6

\* Rounding moves a quotient by half at most, and a whole one not at all.
LEMMA NearestIs ==
  ASSUME NEW x \in Nat, NEW y \in Nat, y > 0
  PROVE  /\ P!Nearest(x, y) \in Nat
         /\ 2 * (P!Nearest(x, y) * y) <= 2 * x + y
         /\ 2 * x <= 2 * (P!Nearest(x, y) * y) + y
<1> DEFINE q == x \div y
           e == x % y
<1>1. q \in Nat /\ e \in Nat /\ x = q * y + e /\ e < y
  OBVIOUS
<1>2. P!Nearest(x, y) = IF 2 * e > y \/ (2 * e = y /\ q % 2 = 1) THEN q + 1 ELSE q
  BY DEF P!Nearest
<1> HIDE DEF q, e
<1>3. (q + 1) * y = q * y + y /\ q * y \in Nat
  BY <1>1
<1> QED BY <1>1, <1>2, <1>3

LEMMA NearestWhole ==
  ASSUME NEW q \in Nat, NEW y \in Nat, y > 0
  PROVE  P!Nearest(q * y, y) = q
<1> DEFINE x == q * y
<1>1. x \in Nat
  OBVIOUS
<1>2. (x \div y) \in Nat /\ x % y \in Nat /\ x = (x \div y) * y + (x % y) /\ x % y < y
  BY <1>1
<1>3. x \div y = q /\ x % y = 0
  <2>1. CASE x \div y = q
    BY <1>2, <2>1
  <2>2. CASE x \div y < q
    <3>1. (x \div y + 1) * y <= q * y
      BY <1>2, <2>2
    <3>2. (x \div y + 1) * y = (x \div y) * y + y
      BY <1>2
    <3> HIDE DEF x
    <3> QED BY <1>1, <1>2, <3>1, <3>2 DEF x
  <2>3. CASE x \div y > q
    <3>1. (q + 1) * y <= (x \div y) * y
      BY <1>2, <2>3
    <3>2. (q + 1) * y = q * y + y
      OBVIOUS
    <3> QED BY <1>2, <3>1, <3>2
  <2> QED BY <1>2, <2>1, <2>2, <2>3
<1> QED BY <1>3 DEF P!Nearest

\* Whole multiples below and above place a quotient.
LEMMA QuotientBetween ==
  ASSUME NEW x \in Nat, NEW y \in Nat, y > 0, NEW k \in Nat
  PROVE  /\ k * y <= x => k <= x \div y
         /\ x < k * y => x \div y < k
         /\ x \div y \in Nat
<1>1. (x \div y) \in Nat /\ x % y \in Nat /\ x = (x \div y) * y + (x % y) /\ x % y < y
  OBVIOUS
<1>2. ASSUME k * y <= x, x \div y < k PROVE FALSE
  <2>1. (x \div y + 1) * y <= k * y
    BY <1>1, <1>2
  <2>2. (x \div y + 1) * y = (x \div y) * y + y
    BY <1>1
  <2> QED BY <1>1, <1>2, <2>1, <2>2
<1>3. ASSUME x < k * y, x \div y >= k PROVE FALSE
  <2>1. k * y <= (x \div y) * y
    BY <1>1, <1>3
  <2> QED BY <1>1, <1>3, <2>1
<1> QED BY <1>1, <1>2, <1>3

\* A mantissa holds any product of buckets and samples, with three bits to spare.
\* The program has 200, 53 bits, and 7.2 million samples in the longest video.
Precise ==
  /\ Points \in Nat \ {0} /\ MaxSamples \in Nat /\ Precision \in Nat
  /\ 8 * (Points * MaxSamples) <= 2^Precision

LEMMA SizeIs ==
  ASSUME Precise, samples \in 1 .. MaxSamples
  PROVE  /\ P!Buckets \in 1 .. samples
         /\ P!Shift \in Nat
         /\ P!Mantissa \in Nat
         /\ P!Mantissa <= 2^Precision
         /\ 4 * (P!Buckets * P!Buckets) <= 2^P!Shift
         /\ 2 * (P!Mantissa * P!Buckets) <= 2 * (samples * 2^P!Shift) + P!Buckets
         /\ 2 * (samples * 2^P!Shift) <= 2 * (P!Mantissa * P!Buckets) + P!Buckets
         /\ P!Buckets = samples => P!Mantissa = 2^P!Shift
         /\ 8 * P!Buckets <= 2^Precision
         /\ Precision > 0
<1> DEFINE B == P!Buckets
           Half == 2^(Precision - 1)
           enough(s) == samples * 2^s >= B * Half
<1>1. samples \in Nat /\ samples >= 1 /\ samples <= MaxSamples /\ MaxSamples \in Nat
  BY DEF Precise
<1>2. B \in Nat /\ 1 <= B /\ B <= samples /\ B <= Points
  BY <1>1 DEF P!Buckets, P!Min2, P!Max2, Precise
<1>3. Points \in Nat /\ Precision \in Nat /\ 8 * (Points * MaxSamples) <= 2^Precision
  BY DEF Precise
<1> HIDE DEF B
<1>4. B * samples <= Points * MaxSamples /\ B * samples \in Nat /\ Points * MaxSamples \in Nat
  BY <1>1, <1>2, <1>3
<1>5. B <= B * samples /\ B * B <= B * samples /\ B * B \in Nat
  BY <1>1, <1>2
<1>6. 2^Precision \in Nat
  BY <1>3, PowerSteps
<1>7. Precision > 0
  <2>1. 2^0 = 1
    OBVIOUS
  <2>2. Precision = 0 => 2^Precision = 2^0
    OBVIOUS
  <2>3. 2^Precision >= 8
    BY <1>2, <1>3, <1>4, <1>5, <1>6
  <2> QED BY <1>3, <2>1, <2>2, <2>3
<1>8. Precision - 1 \in Nat /\ (Precision - 1) + 1 = Precision
  BY <1>3, <1>7
<1>9. Half \in Nat /\ 2^Precision = 2 * Half
  BY <1>8, PowerSteps
<1>10. 4 * (B * samples) <= Half
  BY <1>3, <1>4, <1>9
<1>11. enough(Precision - 1)
  BY <1>1, <1>2, <1>9
<1>12. PICK s \in 0 .. Precision : enough(s) /\ \A t \in 0 .. s - 1 : ~enough(t)
  <2> DEFINE K == {t \in Nat : enough(t)}
  <2>1. Precision - 1 \in K
    BY <1>8, <1>11
  <2> HIDE DEF enough
  <2>2. K \in SUBSET Nat /\ K # {}
    BY <2>1
  <2>3. PICK s \in K : \A t \in K : s <= t
    <3> HIDE DEF K
    <3> QED BY <2>2, W!LeastMember
  <2>4. s \in 0 .. Precision
    BY <1>8, <2>1, <2>3
  <2>5. \A t \in 0 .. s - 1 : ~enough(t)
    BY <2>3
  <2> QED BY <2>3, <2>4, <2>5
<1>13. P!Shift \in 0 .. Precision /\ enough(P!Shift) /\ \A t \in 0 .. P!Shift - 1 : ~enough(t)
  BY <1>12 DEF P!Shift, B
<1> DEFINE h == P!Shift
           Unit == 2^h
<1> HIDE DEF h
<1>14. h \in Nat /\ Unit \in Nat /\ Unit >= 1 /\ samples * Unit >= B * Half
  BY <1>3, <1>13, PowersPositive DEF h
<1>15. samples * Unit < 2 * (B * Half)
  <2>1. h # 0
    <3>1. 2^0 = 1
      OBVIOUS
    <3>2. samples <= B * samples
      BY <1>1, <1>2
    <3>3. Half <= B * Half /\ B * Half \in Nat
      BY <1>2, <1>9
    <3>4. samples < B * Half
      BY <1>1, <1>4, <1>9, <1>10, <3>2, <3>3
    <3>5. h = 0 => Unit = 1
      BY <3>1
    <3>6. h = 0 => samples * Unit = samples
      BY <1>1, <3>5
    <3> QED BY <1>14, <3>4, <3>6, <1>1, <3>3
  <2>2. h - 1 \in 0 .. h - 1 /\ h - 1 \in Nat /\ (h - 1) + 1 = h
    BY <1>14, <2>1
  <2>3. 2^(h - 1) \in Nat /\ Unit = 2 * 2^(h - 1)
    BY <2>2, PowerSteps
  <2>4. samples * 2^(h - 1) < B * Half
    <3>1. ~enough(h - 1)
      BY <1>13, <2>2 DEF h
    <3>2. samples * 2^(h - 1) \in Nat /\ B * Half \in Nat
      BY <1>1, <1>2, <1>9, <2>3
    <3> QED BY <3>1, <3>2
  <2>5. samples * Unit = 2 * (samples * 2^(h - 1))
    BY <1>1, <2>3
  <2> QED BY <1>1, <1>2, <1>9, <2>3, <2>4, <2>5
<1> HIDE DEF Unit, Half
<1>16. 4 * (B * B) <= Unit
  <2>1. samples * (4 * (B * B)) = B * (4 * (B * samples))
    BY <1>1, <1>2
  <2>2. B * (4 * (B * samples)) <= B * Half
    BY <1>2, <1>4, <1>9, <1>10
  <2>3. samples * (4 * (B * B)) <= samples * Unit
    BY <1>1, <1>2, <1>5, <1>9, <1>14, <2>1, <2>2
  <2>4. \A a, b \in Nat : samples * a <= samples * b => a <= b
    BY <1>1
  <2>5. 4 * (B * B) \in Nat
    BY <1>5
  <2> QED BY <1>14, <2>3, <2>4, <2>5
<1> DEFINE m == P!Mantissa
<1>17. m = P!Nearest(samples * Unit, B)
  BY DEF P!Mantissa, Unit, B, h
<1> HIDE DEF m
<1>18. samples * Unit \in Nat
  BY <1>1, <1>14
<1>19. m \in Nat /\ 2 * (m * B) <= 2 * (samples * Unit) + B /\ 2 * (samples * Unit) <= 2 * (m * B) + B
  <2> DEFINE x == samples * Unit
  <2> HIDE DEF x
  <2>1. x \in Nat
    BY <1>18 DEF x
  <2>2. B > 0
    BY <1>2
  <2>3. m = P!Nearest(x, B)
    BY <1>17 DEF x
  <2>4. m \in Nat /\ 2 * (m * B) <= 2 * x + B /\ 2 * x <= 2 * (m * B) + B
    BY <1>2, <2>1, <2>2, <2>3, NearestIs
  <2> QED BY <2>4 DEF x
<1>20. m <= 2 * Half
  <2> SUFFICES ASSUME m >= 2 * Half + 1 PROVE FALSE
    BY <1>9, <1>19
  <2>1. (2 * Half + 1) * B <= m * B
    BY <1>2, <1>9, <1>19
  <2>2. (2 * Half + 1) * B = 2 * (B * Half) + B
    BY <1>2, <1>9
  <2>3. B * Half \in Nat /\ m * B \in Nat
    BY <1>2, <1>9, <1>19
  <2> QED BY <1>2, <1>15, <1>18, <1>19, <2>1, <2>2, <2>3
<1>21. B = samples => m = Unit
  <2> SUFFICES ASSUME B = samples PROVE m = Unit
    OBVIOUS
  <2>1. m = P!Nearest(Unit * B, B)
    BY <1>1, <1>14, <1>17
  <2> QED BY <1>2, <1>14, <2>1, NearestWhole
<1>22. 8 * B <= 2^Precision
  BY <1>2, <1>3, <1>4, <1>5, <1>6
<1> QED BY <1>2, <1>7, <1>9, <1>14, <1>16, <1>19, <1>20, <1>21, <1>22 DEF B, Unit, h, m

\* r: a bound before it is truncated, a float.
BoundFloat(b, r) ==
  /\ r \in Nat
  /\ P!Product(b) = r \div 2^P!Shift
  /\ r <= b * P!Mantissa + b
  /\ b * P!Mantissa <= r + b
  /\ P!Buckets = samples => r = b * P!Mantissa

LEMMA ProductIs ==
  ASSUME Precise, samples \in 1 .. MaxSamples, NEW b \in 0 .. P!Buckets
  PROVE  \E r : BoundFloat(b, r)
<1> DEFINE B == P!Buckets
           m == P!Mantissa
           h == P!Shift
           Q == 2^Precision
           e == b * m
<1> HIDE DEF B, m, h, Q, e
<1>1. /\ B \in Nat /\ 1 <= B /\ h \in Nat /\ m \in Nat /\ m <= Q
      /\ 4 * (B * B) <= 2^h /\ 8 * B <= Q /\ b \in Nat /\ b <= B
      /\ B = samples => m = 2^h
  BY SizeIs DEF B, m, h, Q
<1>2. Precision \in Nat /\ Precision > 0 /\ Precision - 1 \in Nat /\ (Precision - 1) + 1 = Precision
  BY SizeIs DEF Precise
<1> DEFINE Half == 2^(Precision - 1)
<1>3. Q = 2 * Half /\ Half \in Nat /\ Half >= 1 /\ Q \in Nat
  BY <1>2, PowerSteps, PowersPositive DEF Q
<1> HIDE DEF Half
<1>4. e \in Nat /\ e <= b * Q /\ b * Q \in Nat
  BY <1>1, <1>3 DEF e
<1>5. e < 2^(2 * Precision)
  <2>1. 2^(Precision + Precision) = Q * Q
    BY <1>2, PowersAdd DEF Q
  <2>2. Precision + Precision = 2 * Precision
    BY <1>2
  <2>3. b * Q < Q * Q
    <3>1. b + 1 <= Q
      BY <1>1, <1>3
    <3>2. (b + 1) * Q <= Q * Q /\ (b + 1) * Q = b * Q + Q
      BY <1>1, <1>3, <3>1
    <3>3. Q >= 1 /\ Q * Q \in Nat
      BY <1>3
    <3> QED BY <1>3, <1>4, <3>2, <3>3
  <2>4. Q * Q \in Nat
    BY <1>3
  <2> QED BY <1>4, <2>1, <2>2, <2>3, <2>4
<1> DEFINE fits(n) == e < 2^n /\ (n = Precision \/ e >= 2^(n - 1))
<1>6. \E n \in Precision .. 2 * Precision : fits(n)
  <2> DEFINE K == {n \in Nat : n >= Precision /\ e < 2^n}
  <2>1. 2 * Precision \in K
    BY <1>2, <1>5
  <2>2. PICK n \in K : \A j \in K : n <= j
    <3>1. K \in SUBSET Nat /\ K # {}
      BY <2>1
    <3> HIDE DEF K
    <3> QED BY <3>1, W!LeastMember
  <2>3. n \in Precision .. 2 * Precision
    BY <1>2, <2>1, <2>2
  <2>4. n = Precision \/ e >= 2^(n - 1)
    <3> SUFFICES ASSUME n # Precision PROVE e >= 2^(n - 1)
      OBVIOUS
    <3>1. n - 1 \in Nat /\ n - 1 >= Precision /\ ~(n <= n - 1)
      BY <1>2, <2>3
    <3>2. ~(e < 2^(n - 1))
      BY <2>2, <3>1
    <3>3. 2^(n - 1) \in Nat
      BY <3>1, PowerSteps
    <3> QED BY <1>4, <3>2, <3>3
  <2> QED BY <2>2, <2>3, <2>4
<1> DEFINE n == CHOOSE k \in Precision .. 2 * Precision : fits(k)
<1>7. n \in Precision .. 2 * Precision /\ fits(n)
  BY <1>6
<1>8. P!Product(b) = (P!Nearest(e, 2^(n - Precision)) * 2^(n - Precision)) \div 2^h
  BY DEF P!Product, e, m, h
<1> HIDE DEF n
<1> DEFINE d == n - Precision
           w == 2^d
           r == P!Nearest(e, w) * w
<1>9. d \in Nat /\ n \in Nat /\ w \in Nat /\ w >= 1
  BY <1>2, <1>7, PowersPositive
<1> HIDE DEF d, w
<1>10. P!Nearest(e, w) \in Nat /\ 2 * r <= 2 * e + w /\ 2 * e <= 2 * r + w
  BY <1>4, <1>9, NearestIs
<1>11. r \in Nat
  BY <1>9, <1>10
<1>12. ASSUME n = Precision PROVE r = e
  <2>1. w = 1
    <3>1. d = 0 /\ 2^0 = 1
      BY <1>2, <1>12 DEF d
    <3> QED BY <3>1 DEF w
  <2>2. P!Nearest(e * 1, 1) = e /\ e * 1 = e
    BY <1>4, NearestWhole
  <2> QED BY <1>4, <2>1, <2>2
<1>13. ASSUME n # Precision PROVE w <= 2 * b
  <2>1. (Precision - 1) + d = n - 1
    BY <1>2, <1>9 DEF d
  <2>2. 2^(n - 1) = Half * w
    BY <1>2, <1>9, <2>1, PowersAdd DEF Half, w
  <2>3. Half * w <= e
    BY <1>7, <1>13, <2>2
  <2>4. b * Q = Half * (2 * b)
    BY <1>1, <1>3
  <2>5. Half * w <= Half * (2 * b)
    BY <1>3, <1>4, <1>9, <2>3, <2>4
  <2>6. \A x, y \in Nat : Half * x <= Half * y => x <= y
    BY <1>3
  <2> QED BY <1>1, <1>9, <2>5, <2>6
<1>14. r <= e + b /\ e <= r + b
  <2>1. CASE n = Precision
    BY <1>1, <1>4, <1>12, <2>1
  <2>2. CASE n # Precision
    <3> HIDE DEF r
    <3> QED BY <1>1, <1>4, <1>9, <1>10, <1>11, <1>13, <2>2
  <2> QED BY <2>1, <2>2
<1>15. ASSUME B = samples PROVE r = e
  <2>1. CASE n = Precision
    BY <1>12, <2>1
  <2>2. CASE n # Precision
    <3>1. w <= 2^h
      <4>1. b <= B * B
        BY <1>1
      <4>2. 2^h \in Nat /\ B * B \in Nat
        BY <1>1
      <4> QED BY <1>1, <1>9, <1>13, <2>2, <4>1, <4>2
    <3>2. d <= h
      BY <1>1, <1>9, <3>1, PowersDivide DEF w
    <3>3. h - d \in Nat /\ (h - d) + d = h
      BY <1>1, <1>9, <3>2
    <3>4. 2^h = 2^(h - d) * w
      BY <1>9, <3>3, PowersAdd DEF w
    <3>5. 2^(h - d) \in Nat
      BY <3>3, PowerSteps
    <3> DEFINE u == 2^(h - d)
    <3> HIDE DEF u
    <3>6. u \in Nat /\ m = u * w
      BY <1>1, <1>15, <3>4, <3>5 DEF u
    <3>7. e = (b * u) * w /\ b * u \in Nat
      BY <1>1, <1>9, <3>6 DEF e
    <3>8. P!Nearest((b * u) * w, w) = b * u
      <4> DEFINE q == b * u
      <4> HIDE DEF q
      <4>1. q \in Nat /\ w > 0
        BY <1>9, <3>7 DEF q
      <4>2. P!Nearest(q * w, w) = q
        BY <1>9, <4>1, NearestWhole
      <4> QED BY <4>2 DEF q
    <3> QED BY <3>7, <3>8
  <2> QED BY <2>1, <2>2
<1>16. P!Product(b) = r \div 2^h
  BY <1>8 DEF d, w
<1> HIDE DEF r
<1> QED BY <1>11, <1>14, <1>15, <1>16 DEF BoundFloat, e, m, h, B

\* With B buckets of N samples, and Unit for one sample, the float r of a bound
\* is b * N / B but for less than half a sample divided by B; it is exact if each
\* bucket is one sample.
BoundNear(b, r, N, B, Unit) ==
  /\ r \in Nat /\ P!Product(b) = r \div Unit
  /\ 2 * (r * B) < 2 * (b * (N * Unit)) + Unit
  /\ 2 * (b * (N * Unit)) < 2 * (r * B) + Unit
  /\ B = N => r = b * Unit
  /\ b = 0 => r = 0

LEMMA BoundIsNear ==
  ASSUME Precise, samples \in 1 .. MaxSamples, NEW b \in 0 .. P!Buckets
  PROVE  \E r : BoundNear(b, r, samples, P!Buckets, 2^P!Shift)
<1> DEFINE B == P!Buckets
           m == P!Mantissa
           Unit == 2^P!Shift
           T == samples * Unit
<1>1. PICK r : BoundFloat(b, r)
  BY ProductIs
<1> HIDE DEF B, m, Unit, T
<1>2. /\ B \in Nat /\ 1 <= B /\ b \in Nat /\ b <= B /\ m \in Nat
      /\ 4 * (B * B) <= Unit
      /\ 2 * (m * B) <= 2 * T + B
      /\ 2 * T <= 2 * (m * B) + B
      /\ B = samples => m = Unit
  BY SizeIs DEF B, m, Unit, T
<1>3. Unit \in Nat /\ samples \in Nat
  BY SizeIs, PowerSteps DEF Unit
<1>4. T \in Nat
  BY <1>3 DEF T
<1>5. /\ r \in Nat /\ P!Product(b) = r \div Unit
      /\ r <= b * m + b /\ b * m <= r + b
      /\ B = samples => r = b * m
  BY <1>1 DEF BoundFloat, B, m, Unit
<1> DEFINE M == b * (m * B)
           U == b * T
           V == b * B
           R == r * B
<1>6. M \in Nat /\ U \in Nat /\ V \in Nat /\ R \in Nat /\ V <= B * B /\ B * B \in Nat /\ B * B >= 1
  BY <1>2, <1>4, <1>5
<1>7. 2 * M <= 2 * U + V
  <2>1. b * (2 * (m * B)) <= b * (2 * T + B)
    <3>1. m * B \in Nat
      BY <1>2
    <3> QED BY <1>2, <1>4, <3>1
  <2>2. b * (2 * T + B) = 2 * U + V
    BY <1>2, <1>4
  <2>3. b * (2 * (m * B)) = 2 * M
    BY <1>2
  <2> QED BY <2>1, <2>2, <2>3
<1>8. 2 * U <= 2 * M + V
  <2>1. b * (2 * T) <= b * (2 * (m * B) + B)
    <3>1. m * B \in Nat
      BY <1>2
    <3> QED BY <1>2, <1>4, <3>1
  <2>2. b * (2 * (m * B) + B) = 2 * M + V
    BY <1>2
  <2>3. b * (2 * T) = 2 * U
    BY <1>2, <1>4
  <2> QED BY <2>1, <2>2, <2>3
<1>9. R <= M + V /\ M <= R + V
  <2>1. r * B <= (b * m + b) * B /\ (b * m) * B <= (r + b) * B
    <3>1. b * m \in Nat
      BY <1>2
    <3> QED BY <1>2, <1>5, <3>1
  <2>2. (b * m + b) * B = M + V /\ (b * m) * B = M /\ (r + b) * B = R + V
    BY <1>2, <1>5
  <2> QED BY <2>1, <2>2
<1>10. B = samples => r = b * Unit
  BY <1>2, <1>5
<1>11. b = 0 => r = 0
  <2>1. b = 0 => b * m = 0
    BY <1>2
  <2> QED BY <1>5, <2>1
<1> HIDE DEF M, U, V, R
<1>12. 2 * R < 2 * U + Unit /\ 2 * U < 2 * R + Unit
  <2> DEFINE Sq == B * B
  <2> HIDE DEF Sq
  <2>1. Sq \in Nat /\ Sq >= 1 /\ V <= Sq /\ 4 * Sq <= Unit
    BY <1>2, <1>6 DEF Sq
  <2> QED BY <1>3, <1>6, <1>7, <1>8, <1>9, <2>1
<1>13. BoundNear(b, r, samples, B, Unit)
  BY <1>5, <1>10, <1>11, <1>12 DEF BoundNear, U, R, T
<1> QED BY <1>13 DEF B, Unit

\* Where a bound lies.
BoundLies(b, k) ==
  /\ k \in Nat
  /\ b < P!Buckets => k < samples
  /\ b = P!Buckets => k >= samples - 1
  /\ b = 0 => k = 0

LEMMA BoundAt ==
  ASSUME Precise, samples \in 1 .. MaxSamples, NEW b \in 0 .. P!Buckets
  PROVE  BoundLies(b, P!Product(b))
<1> DEFINE B == P!Buckets
           Unit == 2^P!Shift
           T == samples * Unit
           k == P!Product(b)
<1>1. PICK r : BoundNear(b, r, samples, B, Unit)
  BY BoundIsNear
<1> HIDE DEF B, Unit, T, k
<1>2. /\ B \in Nat /\ 1 <= B /\ b \in Nat /\ b <= B /\ samples \in Nat /\ samples >= 1
  BY SizeIs DEF B
<1>3. Unit \in Nat /\ Unit >= 1
  BY SizeIs, PowersPositive DEF Unit
<1>4. T \in Nat /\ Unit <= T
  BY <1>2, <1>3 DEF T
<1>5. /\ r \in Nat /\ k = r \div Unit
      /\ 2 * (r * B) < 2 * (b * T) + Unit
      /\ 2 * (b * T) < 2 * (r * B) + Unit
      /\ B = samples => r = b * Unit
      /\ b = 0 => r = 0
  BY <1>1 DEF BoundNear, T, k
<1>6. k \in Nat
  BY <1>3, <1>5, QuotientBetween
<1>7. ASSUME b < B PROVE k < samples
  <2>1. r < T
    <3> SUFFICES ASSUME T <= r PROVE FALSE
      BY <1>4, <1>5
    <3>1. T * B <= r * B
      BY <1>2, <1>4, <1>5
    <3>2. (b + 1) * T <= B * T
      BY <1>2, <1>4, <1>7
    <3>3. (b + 1) * T = b * T + T /\ B * T = T * B
      BY <1>2, <1>4
    <3>4. b * T \in Nat /\ T * B \in Nat /\ r * B \in Nat
      BY <1>2, <1>4, <1>5
    <3> QED BY <1>3, <1>4, <1>5, <3>1, <3>2, <3>3, <3>4
  <2> QED BY <1>2, <1>3, <1>5, <2>1, QuotientBetween DEF T
<1>8. ASSUME b = B PROVE k >= samples - 1
  <2> DEFINE c == samples - 1
  <2>1. c \in Nat
    BY <1>2
  <2>2. c * Unit <= r
    <3> SUFFICES ASSUME r < c * Unit PROVE FALSE
      BY <1>3, <1>5, <2>1
    <3>1. (r + 1) * B <= (c * Unit) * B
      <4>1. c * Unit \in Nat
        BY <1>3, <2>1
      <4> HIDE DEF c
      <4> QED BY <1>2, <1>5, <4>1
    <3>2. c * Unit + Unit = T
      BY <1>2, <1>3 DEF T
    <3>3. (r + 1) * B = r * B + B
      BY <1>2, <1>5
    <3>4. (c * Unit) * B + Unit * B = b * T
      <4>1. (c * Unit + Unit) * B = (c * Unit) * B + Unit * B
        BY <1>2, <1>3, <2>1
      <4> QED BY <1>2, <1>4, <1>8, <3>2, <4>1
    <3>5. (c * Unit) * B \in Int /\ Unit * B \in Nat /\ Unit <= Unit * B /\ r * B \in Nat /\ b * T \in Nat
      BY <1>2, <1>3, <1>4, <1>5, <2>1
    <3> HIDE DEF c
    <3> QED BY <1>2, <1>3, <1>5, <3>1, <3>3, <3>4, <3>5
  <2> HIDE DEF c
  <2>3. c <= k
    BY <1>3, <1>5, <2>1, <2>2, QuotientBetween
  <2> QED BY <2>3 DEF c
<1>9. ASSUME b = 0 PROVE k = 0
  <2>1. r < 1 * Unit
    BY <1>3, <1>5, <1>9
  <2>2. k < 1
    BY <1>3, <1>5, <2>1, QuotientBetween
  <2> QED BY <1>6, <2>2
<1> QED BY <1>6, <1>7, <1>8, <1>9 DEF BoundLies, k, B

\* The bounds rise: no bucket is empty.
LEMMA BoundsRise ==
  ASSUME Precise, samples \in 1 .. MaxSamples, NEW b \in 0 .. P!Buckets - 1
  PROVE  P!Product(b) < P!Product(b + 1)
<1> DEFINE B == P!Buckets
           Unit == 2^P!Shift
           T == samples * Unit
           c == b + 1
           k == P!Product(b)
           l == P!Product(c)
<1>1. B \in Nat /\ 1 <= B /\ b \in Nat /\ c \in Nat /\ b < B /\ samples \in Nat /\ B <= samples
  BY SizeIs
<1>2. b \in 0 .. B /\ c \in 0 .. B
  BY <1>1
<1>3. PICK r : BoundNear(b, r, samples, B, Unit)
  BY <1>2, BoundIsNear
<1>4. PICK s : BoundNear(c, s, samples, B, Unit)
  <2> HIDE DEF c
  <2> QED BY <1>2, BoundIsNear
<1>5. Unit \in Nat /\ Unit >= 1
  <2> HIDE DEF B, T, k, l, c
  <2> QED BY SizeIs, PowersPositive DEF Unit
<1> HIDE DEF B, Unit, T, k, l
<1>6. T \in Nat
  BY <1>1, <1>5 DEF T
<1>7. /\ r \in Nat /\ k = r \div Unit
      /\ 2 * (r * B) < 2 * (b * T) + Unit
      /\ B = samples => r = b * Unit
  BY <1>3 DEF BoundNear, T, k
<1>8. /\ s \in Nat /\ l = s \div Unit
      /\ 2 * (c * T) < 2 * (s * B) + Unit
      /\ B = samples => s = c * Unit
  <2> HIDE DEF c
  <2> QED BY <1>4 DEF BoundNear, T, l
<1>9. r + Unit <= s
  <2>1. CASE B = samples
    <3>1. c * Unit = b * Unit + Unit
      BY <1>1, <1>5
    <3> QED BY <1>7, <1>8, <2>1, <3>1
  <2>2. CASE B # samples
    <3> SUFFICES ASSUME s < r + Unit PROVE FALSE
      BY <1>5, <1>7, <1>8
    <3>1. s * B <= (r + Unit) * B /\ (r + Unit) * B = r * B + Unit * B
      BY <1>1, <1>5, <1>7, <1>8
    <3>2. c * T = b * T + T
      BY <1>1, <1>6
    <3>3. (B + 1) * Unit <= samples * Unit /\ (B + 1) * Unit = Unit * B + Unit
      BY <1>1, <1>5, <2>2
    <3>4. Unit * B + Unit <= T
      BY <3>3 DEF T
    <3>5. b * T \in Nat /\ c * T \in Nat /\ s * B \in Nat /\ r * B \in Nat /\ Unit * B \in Nat
      BY <1>1, <1>5, <1>6, <1>7, <1>8
    <3> HIDE DEF c
    <3> QED BY <1>5, <1>6, <1>7, <1>8, <3>1, <3>2, <3>4, <3>5
  <2> QED BY <2>1, <2>2
<1>10. k \in Nat /\ k * Unit <= r
  <2>1. (r \div Unit) \in Nat /\ (r \div Unit) * Unit <= r
    BY <1>5, <1>7
  <2> QED BY <1>7, <2>1
<1>11. (k + 1) * Unit <= s
  <2>1. (k + 1) * Unit = k * Unit + Unit
    BY <1>5, <1>10
  <2>2. k * Unit \in Nat
    BY <1>5, <1>10
  <2> QED BY <1>5, <1>7, <1>8, <1>9, <1>10, <2>1, <2>2
<1>12. k + 1 <= l
  <2>1. k + 1 \in Nat
    BY <1>10
  <2> QED BY <1>5, <1>8, <1>11, <2>1, QuotientBetween
<1>13. l \in Nat
  BY <1>5, <1>8, QuotientBetween
<1> QED BY <1>10, <1>12, <1>13 DEF k, l

\* The buckets take every sample but the last, each once.
LEMMA Covered ==
  ASSUME Precise, samples \in 0 .. MaxSamples
  PROVE  P!BucketsCover
<1> DEFINE B == P!Buckets
           last == B - 1
<1>1. CASE samples = 0
  <2>1. B = 1
    BY <1>1 DEF P!Buckets, P!Min2, P!Max2, Precise
  <2>2. \A b : P!Bound(b) = 0
    BY <1>1 DEF P!Bound
  <2>3. \A b : P!Start(b) = 0 /\ P!End(b) = 0
    BY <1>1, <2>2 DEF P!Start, P!End, P!Min2
  <2> QED BY <1>1, <2>1, <2>3 DEF P!BucketsCover
<1>2. CASE samples # 0
  <2>1. samples \in 1 .. MaxSamples /\ samples \in Nat
    BY <1>2 DEF Precise
  <2>2. B \in Nat /\ 1 <= B /\ B <= samples
    BY <2>1, SizeIs
  <2>3. \A b : P!Bound(b) = P!Product(b)
    BY <1>2 DEF P!Bound
  <2>4. \A b \in 0 .. B : BoundLies(b, P!Bound(b))
    BY <2>1, <2>3, BoundAt
  <2>5. \A b \in 0 .. last : P!Bound(b) < P!Bound(b + 1)
    BY <2>1, <2>3, BoundsRise
  <2> HIDE DEF B
  <2>6. \A b \in 0 .. last : P!Bound(b) \in Nat /\ P!Bound(b) < samples
    BY <2>2, <2>4 DEF BoundLies, B
  <2>7. P!Start(0) = 0
    <3>1. 0 \in 0 .. B
      BY <2>2
    <3> QED BY <2>4, <3>1 DEF BoundLies, P!Start
  <2>8. \A b \in 0 .. last : P!Start(b) < P!End(b)
    BY <2>5, <2>6 DEF P!Start, P!End, P!Min2
  <2>9. \A b \in 0 .. last - 1 : P!End(b) = P!Start(b + 1)
    <3> SUFFICES ASSUME NEW b \in 0 .. last - 1 PROVE P!End(b) = P!Start(b + 1)
      OBVIOUS
    <3>1. b + 1 \in 0 .. last
      BY <2>2
    <3>2. P!Bound(b + 1) \in Nat /\ P!Bound(b + 1) < samples
      BY <2>6, <3>1
    <3> QED BY <2>1, <3>2 DEF P!Start, P!End, P!Min2
  <2>10. P!End(last) \in {samples, samples - 1} \cap Nat
    <3>1. last + 1 = B /\ B \in 0 .. B
      BY <2>2
    <3>2. P!Bound(B) \in Nat /\ P!Bound(B) >= samples - 1
      BY <2>4, <3>1 DEF BoundLies, B
    <3>3. P!End(last) = IF P!Bound(B) < samples THEN P!Bound(B) ELSE samples
      BY <3>1 DEF P!End, P!Min2
    <3> QED BY <2>1, <3>2, <3>3
  <2> QED BY <2>7, <2>8, <2>9, <2>10 DEF P!BucketsCover, B
<1> QED BY <1>1, <1>2

\* For every number of points and samples that the precision has room for, and
\* so for the 200 points and 53 bits of the program: rounded as they are, the
\* bounds of peaks make no gap, overlap or empty bucket, and lose at most the
\* last sample.
THEOREM EverySampleCounts ==
  ASSUME Precise
  PROVE  Spec => []BucketsCover
<1> DEFINE Counted == samples \in 0 .. MaxSamples
<1>1. Init => Counted
  BY DEF Init, P!Init, PeaksIdle, Counted, Precise
<1>2. Counted /\ [Next]_vars => Counted'
  BY DEF Counted, Next, Dates, Waves, Front, Input, Output, Songs, vars, frontVars, P!Next, Precise
<1>3. Counted => BucketsCover
  BY Covered DEF BucketsCover, Counted
<1> HIDE DEF Counted
<1> QED BY <1>1, <1>2, <1>3, PTL DEF Spec

-----------------------------------------------------------------------------
(* The front *)

\* A layer is reached with what the layers before it have checked, and an answer
\* that was sent was a preflight's or has its header.
FrontInv ==
  /\ req \in H!Request /\ cfg \in H!Config
  /\ at # "cors" /\ req.method = "OPTIONS" => at = "sent" /\ status = 204
  /\ at \in {"route", "audio_url", "resolve"} => (cfg.apiKey => req.key = "right")
  /\ at = "resolve" => req.input = "id" /\ cfg.bucket
  /\ at = "sent" => ("allow-origin" \in cors <=> H!Allowed)

\* MCParts has one request pass the front, or none.
LEMMA FrontSteps ==
  /\ Init => H!Init
  /\ [Next]_vars => [H!Next]_frontVars
<1>1. FrontIdle => H!Init
  <2>1. [method |-> "GET", path |-> "health", origin |-> "none",
         key |-> "none", input |-> "none", sse |-> FALSE] \in H!Request
    BY DEF H!Request
  <2>2. [apiKey |-> FALSE, bucket |-> TRUE, origins |-> {""}] \in H!Config
    BY DEF H!Config
  <2> QED BY <2>1, <2>2 DEF FrontIdle, H!Init
<1>2. [Next]_vars => [H!Next]_frontVars
  BY DEF Next, Dates, Waves, Front, Input, Output, Songs, vars, frontVars
<1> QED BY <1>1, <1>2 DEF Init

\* FrontInv is inductive.
LEMMA FrontInvariant == Spec => []FrontInv
<1>1. H!Init => FrontInv
  BY DEF H!Init, FrontInv
<1>2. FrontInv /\ [H!Next]_frontVars => FrontInv'
  <2> SUFFICES ASSUME FrontInv, [H!Next]_frontVars PROVE FrontInv'
    OBVIOUS
  <2> USE DEF FrontInv, H!Allowed
  <2>1. ASSUME H!CorsIn PROVE FrontInv'
    BY <2>1 DEF H!CorsIn, H!Pass, H!OriginHeader
  <2>2. ASSUME H!Auth PROVE FrontInv'
    BY <2>2 DEF H!Auth, H!Pass, H!Reply
  <2>3. ASSUME H!Route PROVE FrontInv'
    BY <2>3 DEF H!Route, H!Pass, H!Reply
  <2>4. ASSUME H!AudioUrl PROVE FrontInv'
    BY <2>4 DEF H!AudioUrl, H!Pass, H!Reply
  <2>5. ASSUME H!Resolve PROVE FrontInv'
    BY <2>5 DEF H!Resolve, H!Reply
  <2>6. ASSUME H!CorsOut PROVE FrontInv'
    BY <2>6 DEF H!CorsOut, H!OriginHeader
  <2> QED BY <2>1, <2>2, <2>3, <2>4, <2>5, <2>6 DEF H!Next, frontVars
<1> QED BY <1>1, <1>2, FrontSteps, PTL DEF Spec

\* resolve() starts only for a key that is right or not asked for, on an id that
\* was parsed and a bucket that is set.
THEOREM NoWorkIsUnchecked == Spec => []NoWorkUnchecked
<1>1. FrontInv => NoWorkUnchecked
  BY DEF FrontInv, NoWorkUnchecked, H!NoWorkUnchecked
<1> QED BY <1>1, FrontInvariant, PTL

\* Every answer has the CORS header just if its page is of an origin listed, and
\* a preflight is answered with 204 whatever key it lacks.
THEOREM EveryAnswerHasCors == Spec => []CorsOnEveryAnswer
<1>1. FrontInv => CorsOnEveryAnswer
  <2>1. \A e : H!Trim(e) \in {"a.com", "b.com", ""}
    BY DEF H!Trim
  <2>2. H!Allowed <=> req.origin \notin {"none", ""} /\ \E e \in cfg.origins : H!Trim(e) = req.origin
    BY <2>1 DEF H!Allowed, H!CorsOrigins
  <2> QED BY <2>2 DEF FrontInv, CorsOnEveryAnswer, H!CorsOnEveryAnswer
<1> QED BY <1>1, FrontInvariant, PTL

-----------------------------------------------------------------------------
(* Video ids *)

\* What pieces are made of.
Token == {"?", "&", "v", "=", "/", "youtu.be", "embed", "shorts",
          "id5", "id11", "id12", ".", " "}

\* The pieces of an input put together are a sequence of tokens.
LEMMA FlatInput ==
  ASSUME NEW n \in Nat, NEW s \in [1 .. n -> Seq(Token)], n > 0
  PROVE  I!FlattenSeq(s) \in Seq(Token)
<1> DEFINE h == [i \in 1 .. n |-> [t \in Seq(Token) |-> t \o s[i]]]
<1>1. h \in [1 .. n -> [Seq(Token) -> Seq(Token)]]
  BY ConcatProperties
<1>2. PICK f : W!LoopOf(Seq(Token), n, <<>>, h, f)
  <2>1. <<>> \in Seq(Token)
    BY EmptySeq
  <2> HIDE DEF h
  <2> QED BY <1>1, <2>1, W!LoopExists
<1> DEFINE g == [i \in 1 .. n |-> f[i]]
<1>3. g = [i \in 1 .. n |-> IF i = 1 THEN s[i] ELSE g[i - 1] \o s[i]]
  <2> SUFFICES ASSUME NEW i \in 1 .. n
               PROVE  f[i] = IF i = 1 THEN s[i] ELSE f[i - 1] \o s[i]
    OBVIOUS
  <2>1. f[i - 1] \in Seq(Token) /\ s[i] \in Seq(Token)
    BY <1>2 DEF W!LoopOf
  <2>2. h[i][f[i - 1]] = f[i - 1] \o s[i]
    <3>1. h[i] = [t \in Seq(Token) |-> t \o s[i]]
      OBVIOUS
    <3> QED BY <3>1, <2>1, Zenon
  <2>3. f[i] = f[i - 1] \o s[i]
    BY <1>2, <2>2 DEF W!LoopOf
  <2>4. CASE i = 1
    <3>1. f[i - 1] = <<>>
      BY <1>2, <2>4 DEF W!LoopOf
    <3> QED BY <3>1, <2>1, <2>3, <2>4, ConcatEmptySeq
  <2> QED BY <2>3, <2>4
<1>4. I!FlattenSeq(s) = (CHOOSE e : e = [i \in 1 .. n |-> IF i = 1 THEN s[i] ELSE e[i - 1] \o s[i]])[n]
  <2>1. Len(s) = n
    OBVIOUS
  <2> QED BY <2>1 DEF I!FlattenSeq
<1> HIDE DEF g
<1> DEFINE e == CHOOSE e : e = [i \in 1 .. n |-> IF i = 1 THEN s[i] ELSE e[i - 1] \o s[i]]
<1>5. e = [i \in 1 .. n |-> IF i = 1 THEN s[i] ELSE e[i - 1] \o s[i]]
  BY <1>3
<1>6. I!FlattenSeq(s) = e[n]
  BY <1>4
<1> HIDE DEF e
<1>7. \A i \in 1 .. n : e[i] \in Seq(Token)
  <2> DEFINE bad == {i \in 1 .. n : e[i] \notin Seq(Token)}
  <2> SUFFICES ASSUME bad # {} PROVE FALSE
    OBVIOUS
  <2>1. PICK i \in bad : \A j \in bad : i <= j
    <3>1. bad \in SUBSET Nat
      OBVIOUS
    <3> HIDE DEF bad
    <3> QED BY <3>1, W!LeastMember
  <2>2. i \in 1 .. n /\ e[i] \notin Seq(Token) /\ s[i] \in Seq(Token)
    BY <2>1
  <2>3. i = 1
    <3> SUFFICES ASSUME i # 1 PROVE FALSE
      OBVIOUS
    <3>1. e[i - 1] \in Seq(Token)
      BY <2>1, <2>2
    <3>2. e[i] = e[i - 1] \o s[i]
      BY <1>5, <2>2
    <3> QED BY <2>2, <3>1, <3>2, ConcatProperties
  <2> QED BY <1>5, <2>2, <2>3
<1> QED BY <1>6, <1>7

\* The pattern that a marker belongs to.
PatternOf == <<1, 1, 2, 3, 3, 3>>

\* The places of a pattern are those of its markers.
LEMMA PlacesOfMarkers ==
  ASSUME NEW s
  PROVE  /\ \A k \in 1 .. 6 : I!After(s, I!Markers[k]) \subseteq I!Places(s, PatternOf[k])
         /\ \A j \in 1 .. 3 : \A p \in I!Places(s, j) :
              \E k \in 1 .. 6 : PatternOf[k] = j /\ p \in I!After(s, I!Markers[k])
<1> DEFINE A(k) == I!After(s, I!Markers[k])
<1>1. /\ I!Places(s, 1) = A(1) \cup A(2)
      /\ I!Places(s, 2) = A(3)
      /\ I!Places(s, 3) = A(4) \cup A(5) \cup A(6)
  BY DEF I!Places, I!Patterns
<1>2. DOMAIN PatternOf = 1 .. 6 /\ PatternOf[1] = 1 /\ PatternOf[2] = 1 /\ PatternOf[3] = 2
      /\ PatternOf[4] = 3 /\ PatternOf[5] = 3 /\ PatternOf[6] = 3
  BY DEF PatternOf
<1> HIDE DEF A
<1>3. \A k \in 1 .. 6 : A(k) \subseteq I!Places(s, PatternOf[k])
  BY <1>1, <1>2
<1>4. \A j \in 1 .. 3 : \A p \in I!Places(s, j) : \E k \in 1 .. 6 : PatternOf[k] = j /\ p \in A(k)
  BY <1>1, <1>2
<1> QED BY <1>3, <1>4 DEF A

\* PatternOf says which pattern a marker is in; earlier markers are in earlier ones.
LEMMA MarkersInPatterns ==
  /\ \A k \in 1 .. 6 : PatternOf[k] \in 1 .. 3 /\ I!Markers[k] \in I!Patterns[PatternOf[k]]
  /\ \A k, l \in 1 .. 6 : k <= l => PatternOf[k] <= PatternOf[l]
<1>1. /\ I!Patterns[1] = {I!Markers[1], I!Markers[2]}
      /\ I!Patterns[2] = {I!Markers[3]}
      /\ I!Patterns[3] = {I!Markers[4], I!Markers[5], I!Markers[6]}
  BY DEF I!Patterns
<1>2. PatternOf[1] = 1 /\ PatternOf[2] = 1 /\ PatternOf[3] = 2
      /\ PatternOf[4] = 3 /\ PatternOf[5] = 3 /\ PatternOf[6] = 3
  BY DEF PatternOf
<1>3. \A k \in 1 .. 6 : I!Markers[k] \in I!Patterns[PatternOf[k]]
  BY <1>1, <1>2
<1> QED BY <1>2, <1>3

\* VideoId's Min is the least member of a set of numbers.
LEMMA LeastPlace ==
  ASSUME NEW K \in SUBSET Nat, K # {}
  PROVE  I!Min(K) \in K /\ \A x \in K : I!Min(K) <= x
<1>1. \E n \in K : \A m \in K : n <= m
  BY W!LeastMember
<1> QED BY <1>1 DEF I!Min

\* The port and the original in terms of the places A(k) of a marker and B(k), those
\* with an id: how they part, for places of any number.
LEMMA PartingWays ==
  ASSUME NEW s \in Seq(Token)
  PROVE  /\ I!ExtractVideoId(s) # 0 => I!NodeVideoId(s) # 0
         /\ I!ExtractVideoId(s) # I!NodeVideoId(s)
              => I!LaterPlace(s) \/ (I!ExtractVideoId(s) # 0 /\ I!TriedLate(s))
<1> DEFINE A(k) == I!After(s, I!Markers[k])
           B(k) == I!IdsAfter(s, k)
           Q(j) == I!Places(s, j)
           R(p) == I!IdRun(s, p) >= 11
           first(k) == I!Min(A(k))
           match(j) == {p \in Q(j) : R(p)}
           hits == {k \in 1 .. 6 : A(k) # {} /\ R(first(k))}
           hitsN == {j \in 1 .. 3 : match(j) # {}}
           port == I!ExtractVideoId(s)
           node == I!NodeVideoId(s)
<1>1. DOMAIN I!Markers = 1 .. 6 /\ DOMAIN I!Patterns = 1 .. 3
  BY DEF I!Markers, I!Patterns
<1>2. port = IF hits # {} THEN first(I!Min(hits)) ELSE I!BareId(s)
  BY <1>1 DEF I!ExtractVideoId, I!TakeEleven
<1>3. node = IF hitsN # {} THEN I!Min(match(I!Min(hitsN))) ELSE I!BareId(s)
  BY <1>1 DEF I!NodeVideoId
<1>4. /\ \A k \in 1 .. 6 : A(k) \subseteq Q(PatternOf[k])
      /\ \A j \in 1 .. 3 : \A p \in Q(j) : \E k \in 1 .. 6 : PatternOf[k] = j /\ p \in A(k)
  BY PlacesOfMarkers
<1>5. \A k \in 1 .. 6 : A(k) \in SUBSET (Nat \ {0})
  BY DEF I!After, I!Markers
<1>6. \A k \in 1 .. 6 : B(k) = {p \in A(k) : R(p)}
  BY DEF I!IdsAfter
<1>7. ~I!LaterPlace(s) => \A k \in 1 .. 6 : B(k) # {} => first(k) \in B(k)
  BY <1>1 DEF I!LaterPlace
<1>8. ~I!TriedLate(s) =>
        \A k, l \in 1 .. 6 : /\ PatternOf[k] = PatternOf[l] /\ k < l
                             /\ B(k) # {} /\ B(l) # {}
                             => ~(I!Min(B(l)) < I!Min(B(k)))
  <2> SUFFICES ASSUME NEW k \in 1 .. 6, NEW l \in 1 .. 6, PatternOf[k] = PatternOf[l], k < l,
                      B(k) # {}, B(l) # {}, I!Min(B(l)) < I!Min(B(k))
               PROVE  I!TriedLate(s)
    OBVIOUS
  <2>1. PatternOf[k] \in DOMAIN I!Patterns
    BY <1>1, MarkersInPatterns
  <2>2. /\ k \in {m \in DOMAIN I!Markers : I!Markers[m] \in I!Patterns[PatternOf[k]]}
        /\ l \in {m \in DOMAIN I!Markers : I!Markers[m] \in I!Patterns[PatternOf[k]]}
    BY <1>1, MarkersInPatterns
  <2> QED BY <2>1, <2>2 DEF I!TriedLate
<1> HIDE DEF A, B, Q, R, port, node
<1>9. ASSUME NEW k \in 1 .. 6, A(k) # {}
      PROVE  first(k) \in A(k) /\ first(k) \in Nat \ {0} /\ \A x \in A(k) : first(k) <= x
  <2>1. A(k) \in SUBSET Nat
    BY <1>5
  <2>2. I!Min(A(k)) \in A(k) /\ \A x \in A(k) : I!Min(A(k)) <= x
    BY <1>9, <2>1, LeastPlace
  <2>3. I!Min(A(k)) \in Nat \ {0}
    BY <1>5, <2>2
  <2> QED BY <2>2, <2>3
<1> HIDE DEF first
\* What the port hits, the original matches.
<1>10. ASSUME NEW k \in hits
       PROVE  PatternOf[k] \in hitsN /\ first(k) \in match(PatternOf[k])
  <2>1. first(k) \in A(k) /\ R(first(k))
    BY <1>9
  <2>2. first(k) \in match(PatternOf[k])
    BY <1>4, <2>1
  <2> QED BY <2>2, MarkersInPatterns
<1>11. ASSUME NEW j \in 1 .. 3 PROVE match(j) \in SUBSET (Nat \ {0})
  BY <1>4, <1>5
<1>12. /\ hits \in SUBSET (1 .. 6) /\ hitsN \in SUBSET (1 .. 3)
       /\ hits \in SUBSET Nat /\ hitsN \in SUBSET Nat
  OBVIOUS
\* What the original matches at p, the port hits unless a first place has no id.
<1>13. ASSUME ~I!LaterPlace(s), NEW j \in 1 .. 3, NEW p \in match(j)
       PROVE  \E k \in hits : PatternOf[k] = j /\ B(k) # {} /\ first(k) <= p
  <2>1. PICK k \in 1 .. 6 : PatternOf[k] = j /\ p \in A(k)
    BY <1>4
  <2>2. p \in B(k)
    BY <1>6, <2>1
  <2>3. first(k) \in B(k) /\ first(k) <= p
    BY <1>7, <1>9, <1>13, <2>1, <2>2
  <2>4. k \in hits
    BY <1>6, <2>1, <2>3
  <2> QED BY <2>1, <2>2, <2>3, <2>4
<1>14. ASSUME ~I!LaterPlace(s), NEW k \in hits
       PROVE  B(k) # {} /\ first(k) = I!Min(B(k)) /\ first(k) \in Nat
  <2>1. first(k) \in A(k) /\ first(k) \in Nat /\ \A x \in A(k) : first(k) <= x
    BY <1>9
  <2>2. first(k) \in B(k) /\ B(k) \in SUBSET Nat
    BY <1>5, <1>6, <2>1
  <2>3. I!Min(B(k)) \in B(k) /\ \A x \in B(k) : I!Min(B(k)) <= x
    BY <2>2, LeastPlace
  <2> DEFINE b == I!Min(B(k))
  <2>4. b \in Nat /\ b <= first(k) /\ first(k) <= b
    BY <1>6, <2>1, <2>2, <2>3
  <2> HIDE DEF b
  <2>5. first(k) = b
    BY <2>1, <2>4
  <2> QED BY <2>1, <2>2, <2>5 DEF b
<1> HIDE DEF hits, hitsN, match
<1>15. hitsN # {} => node # 0
  <2> SUFFICES ASSUME hitsN # {} PROVE node # 0
    OBVIOUS
  <2> DEFINE j == I!Min(hitsN)
  <2>1. j \in hitsN
    BY <1>12, LeastPlace
  <2> HIDE DEF j
  <2>2. match(j) # {} /\ match(j) \in SUBSET (Nat \ {0})
    BY <1>11, <1>12, <2>1 DEF hitsN
  <2>3. I!Min(match(j)) \in match(j)
    BY <2>2, LeastPlace
  <2>4. node = I!Min(match(j))
    BY <1>3 DEF j
  <2> QED BY <2>2, <2>3, <2>4
<1>16. port # 0 => node # 0
  <2>1. hits # {} => hitsN # {}
    BY <1>10
  <2> QED BY <1>2, <1>3, <1>15, <2>1
<1>17. ASSUME ~I!LaterPlace(s), hits = {} PROVE port = node
  <2>1. hitsN = {}
    BY <1>12, <1>13, <1>17 DEF hitsN
  <2> QED BY <1>2, <1>3, <1>17, <2>1
<1>18. ASSUME ~I!LaterPlace(s), ~I!TriedLate(s), hits # {} PROVE port = node
  <2> DEFINE k == I!Min(hits)
             n == I!Min(hitsN)
  <2>1. k \in hits /\ k \in 1 .. 6 /\ \A l \in hits : k <= l
    <3>1. k \in hits /\ \A l \in hits : k <= l
      BY <1>12, <1>18, LeastPlace
    <3> QED BY <1>12, <3>1
  <2>2. n \in hitsN /\ n \in 1 .. 3 /\ \A j \in hitsN : n <= j
    <3>1. hitsN # {}
      BY <1>10, <1>18
    <3>2. n \in hitsN /\ \A j \in hitsN : n <= j
      BY <1>12, <3>1, LeastPlace
    <3> QED BY <1>12, <3>2
  <2>3. port = first(k) /\ node = I!Min(match(n))
    BY <1>2, <1>3, <1>18, <2>2
  <2> HIDE DEF k, n
  <2>4. ASSUME NEW p \in match(n)
        PROVE  \E l \in hits : PatternOf[l] = n /\ first(l) <= p
    BY <1>13, <1>18, <2>2
  <2>5. PatternOf[k] = n
    <3>1. PICK l \in hits : PatternOf[l] = n
      BY <2>2, <2>4 DEF hitsN
    <3>2. PatternOf[k] <= PatternOf[l] /\ n <= PatternOf[k]
      BY <1>10, <1>12, <2>1, <2>2, MarkersInPatterns
    <3>3. PatternOf[k] \in 1 .. 3
      BY <2>1, MarkersInPatterns
    <3> QED BY <2>2, <3>1, <3>2, <3>3
  <2> DEFINE m == I!Min(match(n))
  <2>6. m \in match(n) /\ m \in Nat /\ \A p \in match(n) : m <= p
    <3>1. match(n) # {} /\ match(n) \in SUBSET Nat
      BY <1>11, <2>2 DEF hitsN
    <3> QED BY <3>1, LeastPlace
  <2> HIDE DEF m
  <2>7. first(k) \in match(n)
    BY <1>10, <2>1, <2>5
  <2>8. PICK l \in hits : PatternOf[l] = n /\ first(l) <= m
    BY <2>4, <2>6
  <2>9. /\ first(k) \in Nat /\ first(l) \in Nat
        /\ first(k) = I!Min(B(k)) /\ first(l) = I!Min(B(l))
        /\ B(k) # {} /\ B(l) # {}
    BY <1>14, <1>18, <2>1
  <2>10. first(k) <= first(l)
    <3>1. l \in 1 .. 6 /\ k <= l
      BY <1>12, <2>1, <2>8
    <3>2. CASE k < l
      <4>1. ~(I!Min(B(l)) < I!Min(B(k)))
        BY <1>8, <1>18, <2>1, <2>5, <2>8, <2>9, <3>1, <3>2
      <4>2. ~(first(l) < first(k))
        BY <2>9, <4>1
      <4> QED BY <2>9, <4>2
    <3>3. CASE k = l
      BY <2>9, <3>3
    <3> QED BY <2>1, <3>1, <3>2, <3>3
  <2>11. first(k) = m
    <3>1. m <= first(k)
      BY <2>6, <2>7
    <3> QED BY <2>6, <2>8, <2>9, <2>10, <3>1
  <2> QED BY <2>3, <2>11 DEF m
<1>19. hits # {} => port # 0
  <2> SUFFICES ASSUME hits # {} PROVE port # 0
    OBVIOUS
  <2>1. I!Min(hits) \in hits
    BY <1>12, LeastPlace
  <2>2. first(I!Min(hits)) # 0
    BY <1>9, <2>1 DEF hits
  <2> QED BY <1>2, <2>2
<1> QED BY <1>16, <1>17, <1>18, <1>19 DEF port, node

\* The pieces put together are tokens.
LEMMA PiecesAreTokens == I!Piece \subseteq Seq(Token)
<1> SUFFICES ASSUME NEW p \in I!Piece PROVE p \in Seq(Token)
  OBVIOUS
<1>1. /\ <<"?", "v", "=">> \in Seq(Token) /\ <<"&", "v", "=">> \in Seq(Token)
      /\ <<"youtu.be", "/">> \in Seq(Token) /\ <<"/", "embed", "/">> \in Seq(Token)
      /\ <<"/", "shorts", "/">> \in Seq(Token) /\ <<"/", "v", "/">> \in Seq(Token)
      /\ <<"v", "/">> \in Seq(Token) /\ <<"id5">> \in Seq(Token)
      /\ <<"id11">> \in Seq(Token) /\ <<"id12">> \in Seq(Token)
      /\ <<".">> \in Seq(Token) /\ <<" ">> \in Seq(Token)
  BY DEF Token
<1> QED BY <1>1 DEF I!Piece

\* For any pieces put together, of any number: extract_video_id accepts nothing
\* that the Node service refuses, and where it refuses more or finds another id,
\* a marker has its id at a later place or is tried before one further left.
THEOREM PortAgrees == Spec => []AgreesWithNode
<1> DEFINE Pieces == input \in Seq(I!Piece)
<1>1. Init => Pieces
  BY EmptySeq DEF Init, I!Init
<1>2. Pieces /\ [Next]_vars => Pieces'
  <2> SUFFICES ASSUME Pieces, [Next]_vars PROVE Pieces'
    OBVIOUS
  <2>1. input' = input \/ \E p \in I!Piece : input' = Append(input, p)
    BY DEF Next, Dates, Waves, Front, Input, Output, Songs, vars, I!AddPiece
  <2> QED BY <2>1
<1>3. Pieces => AgreesWithNode
  <2> SUFFICES ASSUME Pieces PROVE AgreesWithNode
    OBVIOUS
  <2>1. I!FlattenSeq(input) \in Seq(Token)
    <3>1. CASE input = <<>>
      BY <3>1, EmptySeq DEF I!FlattenSeq
    <3>2. CASE input # <<>>
      <4>1. Len(input) \in Nat /\ Len(input) > 0
        BY <3>2, EmptySeq
      <4>2. input \in [1 .. Len(input) -> Seq(Token)]
        BY LenProperties, PiecesAreTokens
      <4> QED BY <4>1, <4>2, FlatInput
    <3> QED BY <3>1, <3>2
  <2> QED BY <2>1, PartingWays DEF AgreesWithNode, I!AgreesWithNode
<1> HIDE DEF Pieces
<1> QED BY <1>1, <1>2, <1>3, PTL DEF Spec

-----------------------------------------------------------------------------
(* The output of ffmpeg *)

\* The folds of the loop here and in ChildOutputProofs are the same.
LEMMA SameFold ==
  /\ \A s : O!Size(s) = W!Size(s)
  /\ \A st, c : O!FoldLeft(O!Take, st, c) = W!FoldLeft(W!Take, st, c)
  /\ \A e : O!TextTo(e) = W!TextTo(e)
<1>1. /\ \A T : O!Max(T) = W!Max(T)
      /\ \A T : O!Min(T) = W!Min(T)
  BY DEF O!Max, W!Max, O!Min, W!Min
<1>2. \A s : O!Size(s) = W!Size(s)
  BY <1>1 DEF O!Size, W!Size, O!FoldLeft, W!FoldLeft, O!MapThenFoldSet, W!MapThenFoldSet, O!Max, W!Max
<1>3. \A e : O!TextTo(e) = W!TextTo(e)
  BY DEF O!TextTo, W!TextTo, O!FoldLeft, W!FoldLeft, O!MapThenFoldSet, W!MapThenFoldSet, O!Max, W!Max
<1>4. \A st, k : O!Take(st, k) = W!Take(st, k)
  <2>1. \A s, m : O!ParseHms(s, m) = W!ParseHms(s, m)
    BY <1>1 DEF O!ParseHms, W!ParseHms, O!None, W!None
  <2>2. \A s, n : O!CutsAt(s, n) = W!CutsAt(s, n) /\ O!Excess(s) = W!Excess(s)
    BY <1>2 DEF O!CutsAt, W!CutsAt, O!Excess, W!Excess
  <2>3. \A t, d : O!Percent(t, d) = W!Percent(t, d)
    BY <1>1 DEF O!Percent, W!Percent
  <2>4. \A st : O!EndLine(st) = W!EndLine(st)
    <3> SUFFICES ASSUME NEW st PROVE O!EndLine(st) = W!EndLine(st)
      OBVIOUS
    <3> DEFINE text == st.tail \o st.line
               cut == O!CutsAt(text, O!Excess(text))
    <3>1. O!Excess(text) = W!Excess(text) /\ cut = W!CutsAt(text, W!Excess(text))
      BY <2>2, Zenon
    <3>2. O!Min(cut) = W!Min(cut)
      BY <1>1, Zenon
    <3> HIDE DEF cut
    <3> QED BY <2>1, <2>3, <3>1, <3>2 DEF O!EndLine, W!EndLine, O!None, W!None, cut
  <2> QED BY <2>4 DEF O!Take, W!Take
<1>5. \A st, c : O!FoldLeft(O!Take, st, c) = W!FoldLeft(W!Take, st, c)
  BY <1>4 DEF O!FoldLeft, W!FoldLeft, O!MapThenFoldSet, W!MapThenFoldSet, O!Max, W!Max
<1> QED BY <1>2, <1>3, <1>5

\* The output of MCParts goes through the loop that ChildOutputProofs is about, or
\* there is none.
LEMMA OutputIsLooped == Spec => W!Spec
<1>1. Init => W!Init
  BY DEF Init, O!Init, W!Init, O!None, W!None
<1>2. [Next]_vars => [W!Next]_(W!vars)
  <2>1. O!Next => W!Next
    <3>1. O!Mark = W!Mark
      BY DEF O!Mark, W!Mark, O!Marks, W!Marks
    <3>2. \A c : O!Chunk(c) => W!Chunk(c)
      BY SameFold, Zenon DEF O!Chunk, W!Chunk, O!Pending, W!Pending
    <3> QED BY <3>1, <3>2 DEF O!Next, W!Next
  <2> QED
    BY <2>1 DEF Next, Dates, Waves, Front, Input, Output, Songs, vars, outputVars, W!vars
<1> QED BY <1>1, <1>2, PTL DEF Spec, W!Spec

\* However ffmpeg's output is cut into chunks, and however long it is: what was
\* announced last is the newest time of a complete line.
THEOREM ProgressKeepsUp ==
  ASSUME TailMax \in Nat
  PROVE  Spec => []ProgressIsCurrent
<1>1. W!ProgressIsCurrent => ProgressIsCurrent
  BY SameFold DEF ProgressIsCurrent, O!ProgressIsCurrent, W!ProgressIsCurrent, O!Leads, W!Leads,
       O!Eols, W!Eols, O!DurationAt, W!DurationAt, O!Percent, W!Percent, O!Min, W!Min,
       O!Max, W!Max, O!None, W!None
<1> QED BY <1>1, OutputIsLooped, W!AnnouncesTheNewest, PTL

\* However ffmpeg's output is cut, and for a tail of any length: the tail is the
\* last bytes of the complete lines, and the cut panics just where they begin
\* inside a character.
THEOREM TailKeepsUp ==
  ASSUME TailMax \in Nat
  PROVE  Spec => []TailIsEnd
<1>1. \A s : O!LastBytes(s) = W!LastBytes(s) /\ (O!Short(s) <=> W!Short(s))
  <2>1. \A s, n : O!CutsAt(s, n) = W!CutsAt(s, n)
    BY SameFold DEF O!CutsAt, W!CutsAt
  <2> QED BY <2>1, SameFold DEF O!LastBytes, W!LastBytes, O!Short, W!Short
<1>2. O!Eols = W!Eols /\ O!Max(O!Eols) = W!Max(W!Eols)
  BY DEF O!Eols, W!Eols, O!Max, W!Max
<1>3. W!TailIsEnd => TailIsEnd
  BY <1>1, <1>2, SameFold DEF TailIsEnd, O!TailIsEnd, W!TailIsEnd
<1> QED BY <1>3, OutputIsLooped, W!KeepsTheEnd, PTL

-----------------------------------------------------------------------------
(* Saving: the update document *)

\* MCParts has the savers at work, or at rest.
LEMMA SongsSteps ==
  /\ Init => S!Init
  /\ [Next]_vars => [S!Next]_songVars
<1>1. SongsIdle => S!Init
  <2>1. [id |-> 1, wave |-> TRUE, createdAt |-> "date"]
          \in [id: {1}, wave: BOOLEAN, createdAt: {"date"}]
    OBVIOUS
  <2> QED BY <2>1 DEF SongsIdle, S!Init
<1>2. [Next]_vars => [S!Next]_songVars
  BY DEF Next, Dates, Waves, Front, Input, Output, Songs, vars, songVars
<1> QED BY <1>1, <1>2 DEF Init

\* Cardinality means in SongsCollection what it means here.
LEMMA SameCardinality ==
  ASSUME NEW T
  PROVE  S!Cardinality(T) = Cardinality(T)
BY DEF S!Cardinality, Cardinality

\* No song is refused by the server, and all but a backfilled one bring a Date.
LEMMA SongShapes ==
  ASSUME NEW s \in S!Song
  PROVE  ~S!Refused(s) /\ (s # S!Backfilled => S!CreatedAt(s) = "date")
BY DEF S!Song, S!Found, S!Fresh, S!Backfilled, S!Key, S!Refused, S!SetKeys, S!OnInsertKeys, S!CreatedAt

SaversOK ==
  /\ song \in [Saver -> S!Song]
  /\ pc \in [Saver -> {"get", "match", "insert"}]

\* A saver has a song and is at one of its three statements.
LEMMA SaversInvariant == Spec => []SaversOK
<1>1. S!Init => SaversOK
  BY DEF S!Init, SaversOK, S!Song
<1>2. SaversOK /\ [S!Next]_songVars => SaversOK'
  <2> SUFFICES ASSUME SaversOK, [S!Next]_songVars PROVE SaversOK'
    OBVIOUS
  <2> USE DEF SaversOK
  <2>1. ASSUME NEW r \in Saver, S!Get(r) \/ S!Refill(r) PROVE SaversOK'
    BY <2>1 DEF S!Get, S!Refill, S!Song
  <2>2. ASSUME NEW r \in Saver, S!Match(r) PROVE SaversOK'
    BY <2>2, SongShapes DEF S!Match
  <2>3. ASSUME NEW r \in Saver, S!Insert(r) PROVE SaversOK'
    BY <2>3 DEF S!Insert
  <2> QED BY <2>1, <2>2, <2>3 DEF S!Next, songVars
<1> QED BY <1>1, <1>2, SongsSteps, PTL DEF Spec

\* With or without the unique index, Mongo accepts the update that mongo_save
\* builds of any song: no path is in two operators, no _id is set.
THEOREM UpdatesAreAccepted == Spec => []NeverRefused
<1>1. SaversOK => NeverRefused
  BY DEF SaversOK, NeverRefused, S!NeverRefused
<1> QED BY <1>1, SaversInvariant, PTL

-----------------------------------------------------------------------------
(* Saving with the unique index *)

Record == [id: {1}, wave: BOOLEAN, createdAt: {"date"}]

\* One record at most; a song read back is saved only where one still is.
OneRecord ==
  /\ docs = {} \/ \E d \in Record : docs = {d}
  /\ \A r \in Saver : song[r] = S!Backfilled /\ pc[r] # "get" => docs # {}

\* What one save does to the record.
Enriches ==
  \/ docs' = docs
  \/ docs = {} /\ \E w \in BOOLEAN : docs' = {[id |-> 1, wave |-> w, createdAt |-> "date"]}
  \/ \E d \in docs, w \in BOOLEAN : docs = {d} /\ docs' = {[d EXCEPT !.wave = @ \/ w]}

\* A saver that finds or inserts does to the one record what Enriches says.
LEMMA SaveIsOneStep ==
  ASSUME UniqueIndex, SaversOK, OneRecord, NEW r \in Saver, S!Match(r) \/ S!Insert(r)
  PROVE  Enriches
<1> DEFINE w == "waveform" \in S!SetKeys(song[r])
<1>1. CASE S!Match(r) /\ docs' # docs
  <2>1. PICK d \in docs : docs' = (docs \ {d}) \cup {S!SetOf(d, song[r])}
    BY <1>1 DEF S!Match
  <2>2. docs = {d}
    BY <2>1 DEF OneRecord
  <2>3. docs' = {[d EXCEPT !.wave = @ \/ w]} /\ w \in BOOLEAN
    BY <2>1, <2>2 DEF S!SetOf
  <2> QED BY <2>2, <2>3 DEF Enriches
<1>2. CASE S!Insert(r) /\ docs' # docs
  <2>1. docs = {} /\ docs' = docs \cup {[id |-> Cardinality(docs) + 1,
                                         wave |-> w,
                                         createdAt |-> S!CreatedAt(song[r])]}
    BY <1>2, SameCardinality DEF S!Insert
  <2>2. S!CreatedAt(song[r]) = "date"
    BY <1>2, <2>1, SongShapes DEF S!Insert, OneRecord, SaversOK
  <2>3. docs' = {[id |-> 1, wave |-> w, createdAt |-> "date"]} /\ w \in BOOLEAN
    BY <2>1, <2>2, FS_EmptySet
  <2> QED BY <2>1, <2>3 DEF Enriches
<1> QED BY <1>1, <1>2 DEF Enriches

\* With the index no step makes a second record.
LEMMA OneRecordStep ==
  ASSUME UniqueIndex, SaversOK, OneRecord, NEW r \in Saver,
         S!Get(r) \/ S!Refill(r) \/ S!Match(r) \/ S!Insert(r)
  PROVE  OneRecord' /\ Enriches
<1>1. CASE S!Get(r)
  BY <1>1 DEF S!Get, SaversOK, OneRecord, Enriches, S!Found, S!Fresh, S!Backfilled
<1>2. CASE S!Refill(r)
  BY <1>2 DEF S!Refill, SaversOK, OneRecord, Enriches, S!Fresh, S!Backfilled
<1>3. CASE S!Match(r) \/ S!Insert(r)
  <2>1. Enriches
    BY <1>3, SaveIsOneStep
  <2>2. (docs' = {} \/ \E d \in Record : docs' = {d}) /\ (docs # {} => docs' # {})
    BY <2>1 DEF Enriches, OneRecord, Record
  <2>3. song' = song /\ \A q \in Saver : q # r => pc'[q] = pc[q]
    BY <1>3 DEF S!Match, S!Insert, SaversOK
  <2>4. pc[r] # "get"
    BY <1>3 DEF S!Match, S!Insert
  <2> QED BY <2>1, <2>2, <2>3, <2>4 DEF OneRecord
<1> QED BY <1>1, <1>2, <1>3

\* With the index there is at most one record, and a backfill has one to enrich.
LEMMA OneRecordInvariant ==
  ASSUME UniqueIndex
  PROVE  Spec => []OneRecord
<1>1. S!Init => OneRecord
  BY DEF S!Init, OneRecord, Record
<1>2. SaversOK /\ OneRecord /\ [S!Next]_songVars => OneRecord'
  BY OneRecordStep DEF S!Next, songVars, OneRecord
<1> QED BY <1>1, <1>2, SaversInvariant, SongsSteps, PTL DEF Spec

\* With the unique index, however many upserts of one video interleave, each is
\* one atomic step on the one record: it creates it, dated, or adds a waveform.
\* This is what Resolver takes a save for.
THEOREM SavesAreAtomic ==
  ASSUME UniqueIndex
  PROVE  Spec => AtomicSave
<1>1. SaversOK /\ OneRecord /\ [S!Next]_songVars => [Enriches]_songVars
  BY OneRecordStep DEF S!Next
<1> QED
  BY <1>1, SongsSteps, SaversInvariant, OneRecordInvariant, PTL
  DEF Spec, AtomicSave, S!AtomicSave, S!vars, songVars, Enriches

\* With the unique index a video has one document, so that find_one and
\* update_one mean the same one.
THEOREM IndexedIsUnique ==
  ASSUME UniqueIndex
  PROVE  Spec => []S!UniqueRecord
<1>1. OneRecord => S!UniqueRecord
  <2>1. Cardinality({}) = 0 /\ \A d : Cardinality({d}) = 1
    BY FS_EmptySet, FS_Singleton
  <2>2. OneRecord => Cardinality(docs) = 0 \/ Cardinality(docs) = 1
    BY <2>1, Zenon DEF OneRecord
  <2> QED BY <2>2, SameCardinality DEF S!UniqueRecord
<1> QED BY <1>1, OneRecordInvariant, PTL

\* With the unique index, the type invariant of the savers.
THEOREM SongsAreTyped ==
  ASSUME UniqueIndex, IsFiniteSet(Saver), Saver # {}
  PROVE  Spec => []SongsTyped
<1>1. S!Cardinality(Saver) \in Nat /\ 1 <= S!Cardinality(Saver)
  BY FS_CardinalityType, FS_EmptySet, SameCardinality
<1>2. SaversOK /\ OneRecord => SongsTyped
  BY <1>1 DEF SaversOK, OneRecord, Record, SongsTyped, S!TypeOK
<1> QED BY <1>2, SaversInvariant, OneRecordInvariant, PTL
=============================================================================
