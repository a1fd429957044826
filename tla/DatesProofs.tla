----------------------------- MODULE DatesProofs -----------------------------
(* civil_from_days is the calendar, for every day from the epoch on; and   *)
(* what follows for the flag of a snapshot.                                *)
EXTENDS Dates, TLAPS

-----------------------------------------------------------------------------
(* Quotients, for a solver of linear arithmetic.                           *)

LEMMA Quotients ==
  ASSUME NEW a \in Int
  PROVE  /\ a \div 4 \in Int /\ 4 * (a \div 4) <= a /\ a < 4 * (a \div 4) + 4
         /\ a \div 5 \in Int /\ 5 * (a \div 5) <= a /\ a < 5 * (a \div 5) + 5
         /\ a \div 100 \in Int /\ 100 * (a \div 100) <= a /\ a < 100 * (a \div 100) + 100
         /\ a \div 153 \in Int /\ 153 * (a \div 153) <= a /\ a < 153 * (a \div 153) + 153
         /\ a \div 365 \in Int /\ 365 * (a \div 365) <= a /\ a < 365 * (a \div 365) + 365
         /\ a \div 400 \in Int /\ 400 * (a \div 400) <= a /\ a < 400 * (a \div 400) + 400
  BY SMT

LEMMA LongQuotients ==
  ASSUME NEW a \in Int
  PROVE  /\ a \div 1460 \in Int /\ 1460 * (a \div 1460) <= a /\ a < 1460 * (a \div 1460) + 1460
         /\ a \div 36524 \in Int /\ 36524 * (a \div 36524) <= a
         /\ a < 36524 * (a \div 36524) + 36524
         /\ a \div 146096 \in Int /\ 146096 * (a \div 146096) <= a
         /\ a < 146096 * (a \div 146096) + 146096
         /\ a \div 146097 \in Int /\ 146097 * (a \div 146097) <= a
         /\ a < 146097 * (a \div 146097) + 146097
  BY SMT

LEMMA Remainders ==
  ASSUME NEW a \in Int
  PROVE  /\ a % 4 = a - 4 * (a \div 4)
         /\ a % 100 = a - 100 * (a \div 100)
         /\ a % 400 = a - 400 * (a \div 400)
  BY SMT

-----------------------------------------------------------------------------
(* Eras.                                                                   *)

LEMMA EraParts ==
  ASSUME NEW n \in Nat
  PROVE  /\ Era(n) \in Nat
         /\ DayOfEra(n) \in Int /\ 0 <= DayOfEra(n) /\ DayOfEra(n) <= 146096
         /\ SinceMarch(n) = 146097 * Era(n) + DayOfEra(n)
<1>1. SinceMarch(n) \in Nat
  BY SMT DEF SinceMarch
<1>2. /\ Era(n) \in Int /\ 146097 * Era(n) <= SinceMarch(n)
      /\ SinceMarch(n) < 146097 * Era(n) + 146097
  BY SMT, <1>1, LongQuotients DEF Era
<1> QED
  BY SMT, <1>1, <1>2 DEF DayOfEra

-----------------------------------------------------------------------------
(* Years of an era, which end with February.                               *)

DaysBefore(y) == 365 * y + y \div 4 - y \div 100
LengthFromMarch(y) == IF IsLeap(y + 1) THEN 366 ELSE 365

\* A year begins where the one before has ended, and the last one ends the era.
LEMMA YearsFollow ==
  ASSUME NEW y \in Int, 0 <= y, y <= 399
  PROVE  /\ DaysBefore(y) \in Int /\ 0 <= DaysBefore(y) /\ DaysBefore(y) <= 146097
         /\ y < 399 => DaysBefore(y + 1) = DaysBefore(y) + LengthFromMarch(y)
         /\ y = 399 => DaysBefore(y) + LengthFromMarch(y) = 146097
<1> DEFINE a == y \div 4
           b == y \div 100
           c == (y + 1) \div 4
           d == (y + 1) \div 100
           e == (y + 1) \div 400
<1>1. /\ a \in Int /\ 4 * a <= y /\ y < 4 * a + 4
      /\ b \in Int /\ 100 * b <= y /\ y < 100 * b + 100
      /\ c \in Int /\ 4 * c <= y + 1 /\ y + 1 < 4 * c + 4
      /\ d \in Int /\ 100 * d <= y + 1 /\ y + 1 < 100 * d + 100
      /\ e \in Int /\ 400 * e <= y + 1 /\ y + 1 < 400 * e + 400
  BY SMT, Quotients, y \in Int, y + 1 \in Int
<1>2. IsLeap(y + 1) <=> y + 1 = 4 * c /\ (y + 1 # 100 * d \/ y + 1 = 400 * e)
  BY SMT, Remainders, y + 1 \in Int, <1>1 DEF IsLeap
<1>3. DaysBefore(y) = 365 * y + a - b /\ DaysBefore(y + 1) = 365 * (y + 1) + c - d
  BY SMT DEF DaysBefore
<1> HIDE DEF a, b, c, d, e
<1>4. CASE IsLeap(y + 1)
  BY SMT, <1>1, <1>2, <1>3, <1>4 DEF LengthFromMarch
<1>5. CASE ~IsLeap(y + 1)
  BY SMT, <1>1, <1>2, <1>3, <1>5 DEF LengthFromMarch
<1> QED
  BY SMT, <1>4, <1>5

LEMMA YearsGrow ==
  ASSUME NEW y \in Int, 0 <= y, y <= 399, NEW z \in Int, 0 <= z, z <= 399, y < z
  PROVE  DaysBefore(y) + LengthFromMarch(y) <= DaysBefore(z)
<1> DEFINE a == (y + 1) \div 4
           b == (y + 1) \div 100
           c == z \div 4
           d == z \div 100
<1>1. /\ a \in Int /\ 4 * a <= y + 1 /\ y + 1 < 4 * a + 4
      /\ b \in Int /\ 100 * b <= y + 1 /\ y + 1 < 100 * b + 100
      /\ c \in Int /\ 4 * c <= z /\ z < 4 * c + 4
      /\ d \in Int /\ 100 * d <= z /\ z < 100 * d + 100
  BY SMT, Quotients, z \in Int, y + 1 \in Int
<1>2. DaysBefore(y) + LengthFromMarch(y) = 365 * (y + 1) + a - b
  BY SMT, YearsFollow DEF DaysBefore
<1>3. DaysBefore(z) = 365 * z + c - d
  BY SMT DEF DaysBefore
<1> HIDE DEF a, b, c, d
<1>4. 365 * (y + 1) + a - b <= 365 * z + c - d
  BY SMT, <1>1
<1> QED
  BY SMT, <1>2, <1>3, <1>4

\* year_of_era finds the year a day is in.
LEMMA YearParts ==
  ASSUME NEW doe \in Int, 0 <= doe, doe <= 146096
  PROVE  /\ YearOfEra(doe) \in Int /\ 0 <= YearOfEra(doe) /\ YearOfEra(doe) <= 399
         /\ DaysBefore(YearOfEra(doe)) <= doe
         /\ doe < DaysBefore(YearOfEra(doe)) + LengthFromMarch(YearOfEra(doe))
<1> DEFINE p == doe \div 1460
           q == doe \div 36524
           r == doe \div 146096
           y == YearOfEra(doe)
           a == y \div 4
           b == y \div 100
<1>1. /\ p \in Int /\ 1460 * p <= doe /\ doe < 1460 * p + 1460
      /\ q \in Int /\ 36524 * q <= doe /\ doe < 36524 * q + 36524
      /\ r \in Int /\ 146096 * r <= doe /\ doe < 146096 * r + 146096
  BY SMT, LongQuotients, doe \in Int
<1>2. /\ y \in Int /\ 365 * y <= doe - p + q - r /\ doe - p + q - r < 365 * y + 365
  BY SMT, <1>1, Quotients, doe - p + q - r \in Int DEF YearOfEra
<1> HIDE DEF p, q, r, y
<1>3. y \in Int /\ 0 <= y /\ y <= 399
  BY SMT, <1>1, <1>2
<1>4. /\ a \in Int /\ 4 * a <= y /\ y < 4 * a + 4
      /\ b \in Int /\ 100 * b <= y /\ y < 100 * b + 100
  BY SMT, <1>3, Quotients
<1>5. DaysBefore(y) = 365 * y + a - b
  BY SMT DEF DaysBefore
<1> HIDE DEF a, b
<1>6. DaysBefore(y) <= doe
  BY SMT, <1>1, <1>2, <1>3, <1>4, <1>5
<1>7. doe < DaysBefore(y) + LengthFromMarch(y)
  <2>1. CASE y = 399
    BY SMT, <2>1, <1>3, YearsFollow
  <2>2. CASE y < 399
    <3> DEFINE c == (y + 1) \div 4
               d == (y + 1) \div 100
    <3>1. /\ c \in Int /\ 4 * c <= y + 1 /\ y + 1 < 4 * c + 4
          /\ d \in Int /\ 100 * d <= y + 1 /\ y + 1 < 100 * d + 100
      BY SMT, <1>3, Quotients, y + 1 \in Int
    <3>2. DaysBefore(y) + LengthFromMarch(y) = 365 * (y + 1) + c - d
      BY SMT, <1>3, <2>2, YearsFollow DEF DaysBefore
    <3> HIDE DEF c, d
    <3>3. doe < 365 * (y + 1) + c - d
      BY SMT, <1>1, <1>2, <1>3, <2>2, <3>1
    <3> QED
      BY SMT, <3>2, <3>3
  <2> QED
    BY SMT, <1>3, <2>1, <2>2
<1> QED
  BY SMT, <1>3, <1>6, <1>7 DEF y

\* There is one year a day is in.
LEMMA YearIs ==
  ASSUME NEW doe \in Int, 0 <= doe, doe <= 146096,
         NEW y \in Int, 0 <= y, y <= 399,
         DaysBefore(y) <= doe, doe < DaysBefore(y) + LengthFromMarch(y)
  PROVE  YearOfEra(doe) = y
<1> DEFINE x == YearOfEra(doe)
<1>1. /\ x \in Int /\ 0 <= x /\ x <= 399
      /\ DaysBefore(x) <= doe /\ doe < DaysBefore(x) + LengthFromMarch(x)
  BY SMT, YearParts
<1> HIDE DEF x
<1>2. /\ DaysBefore(x) \in Int /\ DaysBefore(y) \in Int
      /\ LengthFromMarch(x) \in Int /\ LengthFromMarch(y) \in Int
  BY SMT, <1>1, YearsFollow DEF LengthFromMarch
<1>3. ~(x < y)
  BY SMT, <1>1, <1>2, YearsGrow
<1>4. ~(y < x)
  BY SMT, <1>1, <1>2, YearsGrow
<1>5. x = y
  BY SMT, <1>1, <1>3, <1>4
<1> QED
  BY SMT, <1>5 DEF x

\* The day of its year, of 365 or 366.
LEMMA DayParts ==
  ASSUME NEW doe \in Int, 0 <= doe, doe <= 146096
  PROVE  /\ DayOfYear(doe) = doe - DaysBefore(YearOfEra(doe))
         /\ DayOfYear(doe) \in Int /\ 0 <= DayOfYear(doe)
         /\ DayOfYear(doe) < LengthFromMarch(YearOfEra(doe))
         /\ DayOfYear(doe) <= 365
<1> DEFINE y == YearOfEra(doe)
<1>1. /\ y \in Int /\ 0 <= y /\ y <= 399
      /\ DaysBefore(y) <= doe /\ doe < DaysBefore(y) + LengthFromMarch(y)
  BY SMT, YearParts
<1>2. DayOfYear(doe) = doe - DaysBefore(y)
  BY SMT DEF DayOfYear, DaysBefore
<1> HIDE DEF y
<1>3. DaysBefore(y) \in Int /\ LengthFromMarch(y) \in {365, 366}
  BY SMT, <1>1, YearsFollow DEF LengthFromMarch
<1>4. /\ DayOfYear(doe) \in Int /\ 0 <= DayOfYear(doe)
      /\ DayOfYear(doe) < LengthFromMarch(y) /\ DayOfYear(doe) <= 365
  BY SMT, <1>1, <1>2, <1>3
<1> QED
  BY SMT, <1>2, <1>4 DEF y

\* The next day is the next of its year, or the first of the next year.
LEMMA NextDayOfYear ==
  ASSUME NEW doe \in Int, 0 <= doe, doe < 146096,
         NEW y, y = YearOfEra(doe)
  PROVE  IF DayOfYear(doe) + 1 < LengthFromMarch(y)
           THEN YearOfEra(doe + 1) = y /\ DayOfYear(doe + 1) = DayOfYear(doe) + 1
           ELSE y < 399 /\ YearOfEra(doe + 1) = y + 1 /\ DayOfYear(doe + 1) = 0
<1>1. y \in Int /\ 0 <= y /\ y <= 399
  BY SMT, YearParts
<1>2. /\ DayOfYear(doe) = doe - DaysBefore(y)
      /\ DayOfYear(doe) \in Int /\ 0 <= DayOfYear(doe)
      /\ DayOfYear(doe) < LengthFromMarch(y)
  BY SMT, DayParts
<1>3. /\ DaysBefore(y) \in Int /\ LengthFromMarch(y) \in {365, 366}
      /\ y < 399 => DaysBefore(y + 1) = DaysBefore(y) + LengthFromMarch(y)
      /\ y = 399 => DaysBefore(y) + LengthFromMarch(y) = 146097
  BY SMT, <1>1, YearsFollow DEF LengthFromMarch
<1>4. DayOfYear(doe + 1) = doe + 1 - DaysBefore(YearOfEra(doe + 1))
  <2> DEFINE e == doe + 1
  <2>1. e \in Int /\ 0 <= e /\ e <= 146096
    BY SMT
  <2> HIDE DEF e
  <2>2. DayOfYear(e) = e - DaysBefore(YearOfEra(e))
    BY SMT, <2>1, DayParts
  <2>3. DaysBefore(YearOfEra(e)) \in Int
    BY SMT, <2>1, YearParts, YearsFollow
  <2> QED
    BY SMT, <2>2, <2>3 DEF e
<1>5. CASE DayOfYear(doe) + 1 < LengthFromMarch(y)
  <2>1. DaysBefore(y) <= doe + 1 /\ doe + 1 < DaysBefore(y) + LengthFromMarch(y)
    BY SMT, <1>2, <1>3, <1>5
  <2>2. YearOfEra(doe + 1) = y
    BY SMT, <1>1, <2>1, YearIs
  <2> QED
    BY SMT, <1>2, <1>3, <1>4, <1>5, <2>2
<1>6. CASE ~(DayOfYear(doe) + 1 < LengthFromMarch(y))
  <2>1. doe + 1 = DaysBefore(y) + LengthFromMarch(y)
    BY SMT, <1>2, <1>3, <1>6
  <2>2. y < 399
    BY SMT, <1>1, <1>3, <2>1
  <2>3. LengthFromMarch(y + 1) \in {365, 366} /\ DaysBefore(y + 1) = doe + 1
    BY SMT, <1>3, <2>1, <2>2 DEF LengthFromMarch
  <2>4. YearOfEra(doe + 1) = y + 1
    BY SMT, <1>1, <2>2, <2>3, YearIs
  <2> QED
    BY SMT, <1>4, <1>6, <2>2, <2>3, <2>4
<1> QED
  BY SMT, <1>5, <1>6

\* An era begins with the first day of a year, and ends with a leap day.
LEMMA EraEnds ==
  /\ YearOfEra(0) = 0 /\ DayOfYear(0) = 0
  /\ YearOfEra(146096) = 399 /\ DayOfYear(146096) = 365
<1>1. DaysBefore(0) = 0 /\ DaysBefore(399) = 145731
  BY SMT DEF DaysBefore
<1>2. LengthFromMarch(0) \in {365, 366} /\ DaysBefore(399) + LengthFromMarch(399) = 146097
  BY SMT, YearsFollow DEF LengthFromMarch
<1>3. YearOfEra(0) = 0 /\ YearOfEra(146096) = 399
  BY SMT, <1>1, <1>2, YearIs
<1> QED
  BY SMT, <1>1, <1>3, DayParts

-----------------------------------------------------------------------------
(* Months, from March.                                                     *)

LongMonth(mp) == IF mp \in {1, 3, 6, 8} THEN 30 ELSE IF mp = 11 THEN 29 ELSE 31

LEMMA MonthParts ==
  ASSUME NEW doy \in Int, 0 <= doy, doy <= 365
  PROVE  /\ MarchMonth(doy) \in Int /\ 0 <= MarchMonth(doy) /\ MarchMonth(doy) <= 11
         /\ DayOfMonth(doy) \in Int /\ 1 <= DayOfMonth(doy)
         /\ DayOfMonth(doy) <= LongMonth(MarchMonth(doy))
         /\ MarchMonth(doy) = 11 => DayOfMonth(doy) = doy - 336
         /\ doy < 31 => MarchMonth(doy) = 0 /\ DayOfMonth(doy) = doy + 1
         /\ 337 <= doy => MarchMonth(doy) = 11
         /\ doy = 306 => MarchMonth(doy) = 10 /\ DayOfMonth(doy) = 1
<1> DEFINE m == MarchMonth(doy)
           f == (153 * m + 2) \div 5
<1>1. m \in Int /\ 153 * m <= 5 * doy + 2 /\ 5 * doy + 2 < 153 * m + 153
  BY SMT, Quotients, 5 * doy + 2 \in Int DEF MarchMonth
<1>2. DayOfMonth(doy) = doy - f + 1
  BY SMT DEF DayOfMonth
<1> HIDE DEF m
<1>3. m \in Int /\ 0 <= m /\ m <= 11
  BY SMT, <1>1
<1>4. f \in Int /\ 5 * f <= 153 * m + 2 /\ 153 * m + 2 < 5 * f + 5
  BY SMT, <1>3, Quotients, 153 * m + 2 \in Int
<1> HIDE DEF f
<1>5. /\ DayOfMonth(doy) \in Int /\ 1 <= DayOfMonth(doy)
      /\ DayOfMonth(doy) <= LongMonth(m)
  BY SMT, <1>1, <1>2, <1>3, <1>4 DEF LongMonth
<1>6. /\ m = 11 => DayOfMonth(doy) = doy - 336
      /\ doy < 31 => m = 0 /\ DayOfMonth(doy) = doy + 1
      /\ 337 <= doy => m = 11
      /\ doy = 306 => m = 10 /\ DayOfMonth(doy) = 1
  BY SMT, <1>1, <1>2, <1>3, <1>4
<1> QED
  BY SMT, <1>3, <1>5, <1>6 DEF m

\* The next day is the next of its month, or the first of the next month.
LEMMA NextDayOfMonth ==
  ASSUME NEW doy \in Int, 0 <= doy, doy <= 364
  PROVE  IF DayOfMonth(doy) < LongMonth(MarchMonth(doy))
           THEN /\ MarchMonth(doy + 1) = MarchMonth(doy)
                /\ DayOfMonth(doy + 1) = DayOfMonth(doy) + 1
           ELSE /\ MarchMonth(doy) < 11
                /\ MarchMonth(doy + 1) = MarchMonth(doy) + 1
                /\ DayOfMonth(doy + 1) = 1
<1> DEFINE m == MarchMonth(doy)
           k == MarchMonth(doy + 1)
           f == (153 * m + 2) \div 5
           g == (153 * k + 2) \div 5
<1>1. /\ m \in Int /\ 153 * m <= 5 * doy + 2 /\ 5 * doy + 2 < 153 * m + 153
      /\ k \in Int /\ 153 * k <= 5 * doy + 7 /\ 5 * doy + 7 < 153 * k + 153
  <2>1. 5 * (doy + 1) + 2 = 5 * doy + 7
    BY SMT
  <2> QED
    BY SMT, <2>1, Quotients, 5 * doy + 2 \in Int, 5 * doy + 7 \in Int DEF MarchMonth
<1>2. DayOfMonth(doy) = doy - f + 1 /\ DayOfMonth(doy + 1) = (doy + 1) - g + 1
  BY DEF DayOfMonth
<1> HIDE DEF m, k
<1>3. 0 <= m /\ m <= 11 /\ 0 <= k /\ k <= 11
  BY SMT, <1>1
<1>4. /\ f \in Int /\ 5 * f <= 153 * m + 2 /\ 153 * m + 2 < 5 * f + 5
      /\ g \in Int /\ 5 * g <= 153 * k + 2 /\ 153 * k + 2 < 5 * g + 5
  BY SMT, <1>1, Quotients, 153 * m + 2 \in Int, 153 * k + 2 \in Int
<1> HIDE DEF f, g
<1>5. CASE DayOfMonth(doy) < LongMonth(m)
  <2>1. k = m
    BY SMT, <1>1, <1>2, <1>3, <1>4, <1>5 DEF LongMonth
  <2>2. f = g
    BY SMT, <1>1, <1>4, <2>1
  <2> QED
    BY SMT, <1>1, <1>2, <1>4, <1>5, <2>1, <2>2 DEF m, k
<1>6. CASE ~(DayOfMonth(doy) < LongMonth(m))
  <2>1. m < 11 /\ k = m + 1 /\ g = doy + 1
    BY SMT, <1>1, <1>2, <1>3, <1>4, <1>6 DEF LongMonth
  <2> QED
    BY SMT, <1>2, <1>6, <2>1 DEF m, k
<1> QED
  BY SMT, <1>5, <1>6 DEF m

-----------------------------------------------------------------------------
(* The date, day by day.                                                   *)

LEMMA LeapInEra ==
  ASSUME NEW y \in Int, NEW e \in Int
  PROVE  IsLeap(y + e * 400) <=> IsLeap(y)
<1> DEFINE z == y + e * 400
<1>1. z \in Int
  BY SMT
<1>2. /\ z % 4 = z - 4 * (z \div 4) /\ y % 4 = y - 4 * (y \div 4)
      /\ z % 100 = z - 100 * (z \div 100) /\ y % 100 = y - 100 * (y \div 100)
      /\ z % 400 = z - 400 * (z \div 400) /\ y % 400 = y - 400 * (y \div 400)
  BY SMT, <1>1, Remainders
<1>3. /\ z \div 4 = y \div 4 + 100 * e
      /\ z \div 100 = y \div 100 + 4 * e
      /\ z \div 400 = y \div 400 + e
  <2> DEFINE a == z \div 4
             b == y \div 4
             c == z \div 100
             d == y \div 100
             f == z \div 400
             g == y \div 400
  <2>1. /\ a \in Int /\ 4 * a <= z /\ z < 4 * a + 4
        /\ b \in Int /\ 4 * b <= y /\ y < 4 * b + 4
        /\ c \in Int /\ 100 * c <= z /\ z < 100 * c + 100
        /\ d \in Int /\ 100 * d <= y /\ y < 100 * d + 100
        /\ f \in Int /\ 400 * f <= z /\ z < 400 * f + 400
        /\ g \in Int /\ 400 * g <= y /\ y < 400 * g + 400
    BY SMT, <1>1, Quotients
  <2> HIDE DEF a, b, c, d, f, g
  <2>2. a = b + 100 * e /\ c = d + 4 * e /\ f = g + e
    BY SMT, <2>1
  <2> QED
    BY SMT, <2>2 DEF a, b, c, d, f, g
<1>4. z % 4 = y % 4 /\ z % 100 = y % 100 /\ z % 400 = y % 400
  <2>1. y \div 4 \in Int /\ y \div 100 \in Int /\ y \div 400 \in Int
    BY SMT, Quotients
  <2> QED
    BY SMT, <1>2, <1>3, <2>1
<1> QED
  BY SMT, <1>4 DEF IsLeap

\* What the program makes of a day, in its parts.
CivilOf(e, y, m, d) == <<y + e * 400 + (IF Month(m) <= 2 THEN 1 ELSE 0), Month(m), d>>

LEMMA CivilParts ==
  ASSUME NEW n \in Nat, NEW doy, doy = DayOfYear(DayOfEra(n))
  PROVE  CivilFromDays(n) = CivilOf(Era(n), YearOfEra(DayOfEra(n)), MarchMonth(doy), DayOfMonth(doy))
  BY SMT DEF CivilFromDays, CivilOf

\* A month has the length the calendar gives it.
LEMMA MonthLengths ==
  ASSUME NEW e \in Int, NEW y \in Int, NEW m \in Int, 0 <= m, m <= 11, NEW d
  PROVE  LET date == CivilOf(e, y, m, d)
         IN  MonthLength(date[1], date[2]) =
               IF m = 11 /\ LengthFromMarch(y) = 365 THEN 28 ELSE LongMonth(m)
<1>1. CASE m = 11
  <2>1. CivilOf(e, y, m, d) = <<(y + 1) + e * 400, 2, d>>
    BY SMT, <1>1 DEF CivilOf, Month
  <2>2. IsLeap((y + 1) + e * 400) <=> IsLeap(y + 1)
    <3> DEFINE x == y + 1
    <3>1. x \in Int
      BY SMT
    <3> HIDE DEF x
    <3>2. IsLeap(x + e * 400) <=> IsLeap(x)
      BY SMT, <3>1, LeapInEra
    <3> QED
      BY SMT, <3>2 DEF x
  <2> QED
    BY SMT, <1>1, <2>1, <2>2 DEF MonthLength, LengthFromMarch, LongMonth
<1>2. CASE m # 11
  BY SMT, <1>2 DEF CivilOf, Month, MonthLength, LongMonth
<1> QED
  BY SMT, <1>1, <1>2

\* The first day of a March comes after the last of a February.
LEMMA NextCivil ==
  ASSUME NEW n \in Nat
  PROVE  CivilFromDays(n + 1) = NextDate(CivilFromDays(n)) /\ IsDate(CivilFromDays(n))
<1> DEFINE e   == Era(n)
           doe == DayOfEra(n)
           y   == YearOfEra(doe)
           len == LengthFromMarch(y)
           doy == DayOfYear(doe)
           m   == MarchMonth(doy)
           d   == DayOfMonth(doy)
           day0 == CivilOf(e, y, m, d)
<1>1. /\ e \in Nat /\ doe \in Int /\ 0 <= doe /\ doe <= 146096
      /\ SinceMarch(n) = 146097 * e + doe
  BY SMT, EraParts
<1>2. CivilFromDays(n) = day0
  BY SMT, CivilParts
<1>3. SinceMarch(n) = n + 719468 /\ SinceMarch(n + 1) = n + 1 + 719468
  BY SMT DEF SinceMarch
<1> HIDE DEF e, doe
<1>4. y \in Int /\ 0 <= y /\ y <= 399 /\ len \in {365, 366}
  BY SMT, <1>1, YearParts DEF LengthFromMarch
<1>5. doy \in Int /\ 0 <= doy /\ doy < len /\ doy <= 365
  BY SMT, <1>1, DayParts
<1>6. doe < 146096 => IF doy + 1 < len
                        THEN YearOfEra(doe + 1) = y /\ DayOfYear(doe + 1) = doy + 1
                        ELSE y < 399 /\ YearOfEra(doe + 1) = y + 1 /\ DayOfYear(doe + 1) = 0
  BY SMT, <1>1, NextDayOfYear
<1>7. doe = 146096 => y = 399 /\ doy = 365
  BY SMT, EraEnds
<1> HIDE DEF y, len, doy
<1>8. /\ m \in Int /\ 0 <= m /\ m <= 11 /\ d \in Int /\ 1 <= d /\ d <= LongMonth(m)
      /\ m = 11 => d = doy - 336
      /\ 337 <= doy => m = 11
  BY SMT, <1>5, MonthParts
<1>9. LongMonth(m) \in {29, 30, 31} /\ (m = 11 <=> LongMonth(m) = 29)
  BY SMT, <1>8 DEF LongMonth
<1>10. MonthLength(day0[1], day0[2]) = IF m = 11 /\ len = 365 THEN 28 ELSE LongMonth(m)
  BY SMT, <1>1, <1>4, <1>8, MonthLengths DEF len
<1> HIDE DEF m, d
<1>11. d <= MonthLength(day0[1], day0[2])
  BY SMT, <1>4, <1>5, <1>8, <1>9, <1>10
<1>12. IsDate(day0)
  <2>1. /\ day0 = <<day0[1], day0[2], day0[3]>> /\ day0[1] \in Int
        /\ day0[2] \in 1..12 /\ day0[3] = d /\ d \in 1..31
    BY SMT, <1>1, <1>4, <1>8, <1>9 DEF CivilOf, Month
  <2> QED
    BY SMT, <1>11, <2>1 DEF IsDate, Triples
<1>13. CASE doe < 146096
  <2>1. Era(n + 1) = e /\ DayOfEra(n + 1) = doe + 1
    <3> DEFINE k == n + 1
               x == doe + 1
    <3>1. /\ k \in Nat /\ x \in Int /\ 0 <= x /\ x <= 146096 /\ e \in Int
          /\ SinceMarch(k) = 146097 * e + x
      BY SMT, <1>1, <1>3, <1>13
    <3> HIDE DEF k, x
    <3>2. /\ Era(k) \in Nat /\ DayOfEra(k) \in Int /\ 0 <= DayOfEra(k) /\ DayOfEra(k) <= 146096
          /\ SinceMarch(k) = 146097 * Era(k) + DayOfEra(k)
      BY SMT, <3>1, EraParts
    <3>3. Era(k) = e /\ DayOfEra(k) = x
      BY SMT, <3>1, <3>2
    <3> QED
      BY SMT, <3>3 DEF k, x
  <2>2. CivilFromDays(n + 1) =
          CivilOf(e, YearOfEra(doe + 1), MarchMonth(DayOfYear(doe + 1)), DayOfMonth(DayOfYear(doe + 1)))
    <3> DEFINE k == n + 1
    <3>1. k \in Nat
      BY SMT
    <3>2. Era(k) = e /\ DayOfEra(k) = doe + 1
      BY SMT, <2>1
    <3> HIDE DEF k
    <3>3. CivilFromDays(k) = CivilOf(e, YearOfEra(doe + 1), MarchMonth(DayOfYear(doe + 1)),
                                     DayOfMonth(DayOfYear(doe + 1)))
      BY SMT, <3>1, <3>2, CivilParts
    <3> QED
      BY SMT, <3>3 DEF k
  <2>3. CASE doy + 1 < len
    <3>1. CivilFromDays(n + 1) = CivilOf(e, y, MarchMonth(doy + 1), DayOfMonth(doy + 1))
      BY SMT, <1>6, <1>13, <2>2, <2>3
    <3>2. IF d < LongMonth(m)
            THEN MarchMonth(doy + 1) = m /\ DayOfMonth(doy + 1) = d + 1
            ELSE m < 11 /\ MarchMonth(doy + 1) = m + 1 /\ DayOfMonth(doy + 1) = 1
      BY SMT, <1>4, <1>5, <2>3, NextDayOfMonth DEF m, d
    <3>3. CASE d < LongMonth(m)
      <4>1. d < MonthLength(day0[1], day0[2])
        BY SMT, <1>4, <1>5, <1>8, <1>9, <1>10, <2>3, <3>3
      <4> QED
        BY SMT, <1>2, <1>12, <3>1, <3>2, <3>3, <4>1 DEF NextDate, CivilOf
    <3>4. CASE ~(d < LongMonth(m))
      <4>1. ~(d < MonthLength(day0[1], day0[2])) /\ m < 11
        BY SMT, <1>4, <1>8, <1>9, <1>10, <3>2, <3>4
      <4> QED
        BY SMT, <1>1, <1>2, <1>4, <1>8, <1>12, <3>1, <3>2, <3>4, <4>1 DEF NextDate, CivilOf, Month
    <3> QED
      BY SMT, <1>12, <1>2, <3>3, <3>4
  <2>4. CASE ~(doy + 1 < len)
    <3>1. CivilFromDays(n + 1) = CivilOf(e, y + 1, 0, 1)
      <4>1. MarchMonth(0) = 0 /\ DayOfMonth(0) = 1
        BY SMT, MonthParts
      <4> QED
        BY SMT, <1>6, <1>13, <2>2, <2>4, <4>1
    <3>2. m = 11 /\ ~(d < MonthLength(day0[1], day0[2]))
      BY SMT, <1>4, <1>5, <1>8, <1>9, <1>10, <2>4
    <3> QED
      BY SMT, <1>1, <1>2, <1>4, <1>12, <3>1, <3>2 DEF NextDate, CivilOf, Month
  <2> QED
    BY SMT, <2>3, <2>4
<1>14. CASE ~(doe < 146096)
  <2>1. y = 399 /\ doy = 365 /\ doe = 146096
    BY SMT, <1>1, <1>7, <1>14
  <2>2. Era(n + 1) = e + 1 /\ DayOfEra(n + 1) = 0
    <3> DEFINE k == n + 1
               x == e + 1
    <3>1. k \in Nat /\ x \in Int /\ SinceMarch(k) = 146097 * x + 0
      BY SMT, <1>1, <1>3, <2>1
    <3> HIDE DEF k, x
    <3>2. /\ Era(k) \in Nat /\ DayOfEra(k) \in Int /\ 0 <= DayOfEra(k) /\ DayOfEra(k) <= 146096
          /\ SinceMarch(k) = 146097 * Era(k) + DayOfEra(k)
      BY SMT, <3>1, EraParts
    <3>3. Era(k) = x /\ DayOfEra(k) = 0
      BY SMT, <3>1, <3>2
    <3> QED
      BY SMT, <3>3 DEF k, x
  <2>3. CivilFromDays(n + 1) = CivilOf(e + 1, 0, 0, 1)
    <3> DEFINE k == n + 1
    <3>1. k \in Nat /\ Era(k) = e + 1 /\ DayOfEra(k) = 0
      BY SMT, <2>2
    <3> HIDE DEF k
    <3>2. MarchMonth(0) = 0 /\ DayOfMonth(0) = 1
      BY SMT, MonthParts
    <3>3. CivilFromDays(k) = CivilOf(e + 1, 0, 0, 1)
      BY SMT, <3>1, <3>2, CivilParts, EraEnds
    <3> QED
      BY SMT, <3>3 DEF k
  <2>4. m = 11 /\ ~(d < MonthLength(day0[1], day0[2]))
    BY SMT, <1>4, <1>5, <1>8, <1>9, <1>10, <2>1
  <2> QED
    BY SMT, <1>1, <1>2, <1>12, <2>1, <2>3, <2>4 DEF NextDate, CivilOf, Month
<1> QED
  BY SMT, <1>2, <1>12, <1>13, <1>14

\* On a New Year the days from the epoch make its date.
LEMMA CivilNewYear ==
  ASSUME NEW y \in Int, y >= 1970
  PROVE  NewYear(y) \in Nat /\ CivilFromDays(NewYear(y)) = <<y, 1, 1>>
<1> DEFINE n == NewYear(y)
           x == y - 1
           e == x \div 400
           z == x - e * 400
           p == (y - 1969) \div 4
           q == (y - 1901) \div 100
           r == (y - 1601) \div 400
           a == z \div 4
           b == z \div 100
<1>1. x \in Int
  BY SMT
<1>2. e \in Int /\ 400 * e <= x /\ x < 400 * e + 400
  BY SMT, <1>1, Quotients
<1>3. /\ p \in Int /\ 4 * p <= y - 1969 /\ y - 1969 < 4 * p + 4
      /\ q \in Int /\ 100 * q <= y - 1901 /\ y - 1901 < 100 * q + 100
      /\ r \in Int /\ 400 * r <= y - 1601 /\ y - 1601 < 400 * r + 400
  BY SMT, Quotients, y - 1969 \in Int, y - 1901 \in Int, y - 1601 \in Int
<1>4. n = 365 * (y - 1970) + (p - q + r)
  BY SMT DEF NewYear
<1> HIDE DEF n, e, p, q, r
<1>5. z \in Int /\ 0 <= z /\ z <= 399 /\ y = z + e * 400 + 1
  BY SMT, <1>2
<1> HIDE DEF z
<1>6. /\ a \in Int /\ 4 * a <= z /\ z < 4 * a + 4
      /\ b \in Int /\ 100 * b <= z /\ z < 100 * b + 100
  BY SMT, <1>5, Quotients
<1>7. DaysBefore(z) = 365 * z + a - b
  BY SMT DEF DaysBefore
<1> HIDE DEF a, b
<1>8. p = a + 100 * e - 492 /\ q = b + 4 * e - 19 /\ r = e - 4
  BY SMT, <1>2, <1>3, <1>5, <1>6
<1>9. n \in Nat
  BY SMT, <1>3, <1>4
<1>10. SinceMarch(n) = 146097 * e + (DaysBefore(z) + 306)
  BY SMT, <1>4, <1>5, <1>7, <1>8, <1>2, <1>6, <1>9 DEF SinceMarch
<1>11. /\ DaysBefore(z) \in Int /\ 0 <= DaysBefore(z) /\ LengthFromMarch(z) \in {365, 366}
       /\ DaysBefore(z) + 306 <= 146096
  <2>1. z < 399 => DaysBefore(z + 1) \in Int /\ DaysBefore(z + 1) <= 146097
    <3> DEFINE w == z + 1
    <3>1. z < 399 => w \in Int /\ 0 <= w /\ w <= 399
      BY SMT, <1>5
    <3> HIDE DEF w
    <3>2. z < 399 => DaysBefore(w) \in Int /\ DaysBefore(w) <= 146097
      BY SMT, <3>1, YearsFollow
    <3> QED
      BY SMT, <3>2 DEF w
  <2>2. /\ DaysBefore(z) \in Int /\ 0 <= DaysBefore(z) /\ LengthFromMarch(z) \in {365, 366}
        /\ z < 399 => DaysBefore(z + 1) = DaysBefore(z) + LengthFromMarch(z)
        /\ z = 399 => DaysBefore(z) + LengthFromMarch(z) = 146097
    BY SMT, <1>5, YearsFollow DEF LengthFromMarch
  <2> QED
    BY SMT, <1>5, <2>1, <2>2
<1>12. /\ Era(n) \in Nat /\ DayOfEra(n) \in Int /\ 0 <= DayOfEra(n) /\ DayOfEra(n) <= 146096
       /\ SinceMarch(n) = 146097 * Era(n) + DayOfEra(n)
  BY SMT, <1>9, EraParts
<1>13. Era(n) = e /\ DayOfEra(n) = DaysBefore(z) + 306
  BY SMT, <1>2, <1>10, <1>11, <1>12
<1>14. YearOfEra(DayOfEra(n)) = z
  BY SMT, <1>5, <1>11, <1>12, <1>13, YearIs
<1>15. DayOfYear(DayOfEra(n)) = 306
  BY SMT, <1>11, <1>12, <1>13, <1>14, DayParts
<1>16. MarchMonth(306) = 10 /\ DayOfMonth(306) = 1
  BY SMT, MonthParts
<1>17. CivilFromDays(n) = CivilOf(e, z, 10, 1)
  BY SMT, <1>9, <1>13, <1>14, <1>15, <1>16, CivilParts
<1>18. CivilOf(e, z, 10, 1) = <<y, 1, 1>>
  BY SMT, <1>2, <1>5 DEF CivilOf, Month
<1> QED
  BY SMT, <1>9, <1>17, <1>18 DEF n

-----------------------------------------------------------------------------
(* The order of dates.                                                     *)

LEMMA NextIsDate ==
  ASSUME NEW d, IsDate(d)
  PROVE  IsDate(NextDate(d)) /\ NextDate(d) # d
<1>1. /\ d = <<d[1], d[2], d[3]>> /\ d[1] \in Int /\ d[2] \in Int /\ 1 <= d[2] /\ d[2] <= 12
      /\ d[3] \in Int /\ 1 <= d[3] /\ d[3] <= MonthLength(d[1], d[2])
  BY SMT DEF IsDate, Triples
<1>2. \A y, m : MonthLength(y, m) \in {28, 29, 30, 31}
  BY SMT DEF MonthLength
<1>3. CASE d[3] < MonthLength(d[1], d[2])
  <2>1. NextDate(d) = <<d[1], d[2], d[3] + 1>>
    BY SMT, <1>3 DEF NextDate
  <2> QED
    BY SMT, <1>1, <1>2, <1>3, <2>1 DEF IsDate, Triples
<1>4. CASE ~(d[3] < MonthLength(d[1], d[2])) /\ d[2] < 12
  <2>1. NextDate(d) = <<d[1], d[2] + 1, 1>>
    BY SMT, <1>4 DEF NextDate
  <2> QED
    BY SMT, <1>1, <1>2, <1>4, <2>1 DEF IsDate, Triples
<1>5. CASE ~(d[3] < MonthLength(d[1], d[2])) /\ ~(d[2] < 12)
  <2>1. NextDate(d) = <<d[1] + 1, 1, 1>>
    BY SMT, <1>5 DEF NextDate
  <2> QED
    BY SMT, <1>1, <1>2, <2>1 DEF IsDate, Triples
<1> QED
  BY SMT, <1>3, <1>4, <1>5

\* No date lies between a date and the next.
LEMMA NoneBetween ==
  ASSUME NEW d, NEW e, IsDate(d), IsDate(e)
  PROVE  Before(d, NextDate(e)) <=> Before(d, e) \/ d = e
<1>1. /\ d = <<d[1], d[2], d[3]>> /\ d[1] \in Int /\ d[2] \in Int /\ 1 <= d[2] /\ d[2] <= 12
      /\ d[3] \in Int /\ 1 <= d[3] /\ d[3] <= MonthLength(d[1], d[2])
      /\ e = <<e[1], e[2], e[3]>> /\ e[1] \in Int /\ e[2] \in Int /\ 1 <= e[2] /\ e[2] <= 12
      /\ e[3] \in Int /\ 1 <= e[3] /\ e[3] <= MonthLength(e[1], e[2])
  BY SMT DEF IsDate, Triples
<1>2. \A y, m : MonthLength(y, m) \in {28, 29, 30, 31}
  BY SMT DEF MonthLength
<1>3. d = e <=> d[1] = e[1] /\ d[2] = e[2] /\ d[3] = e[3]
  BY SMT, <1>1
<1>4. CASE e[3] < MonthLength(e[1], e[2])
  <2>1. NextDate(e) = <<e[1], e[2], e[3] + 1>>
    BY SMT, <1>4 DEF NextDate
  <2> QED
    BY SMT, <1>1, <1>2, <1>3, <2>1 DEF Before
<1>5. CASE ~(e[3] < MonthLength(e[1], e[2])) /\ e[2] < 12
  <2>1. NextDate(e) = <<e[1], e[2] + 1, 1>> /\ e[3] = MonthLength(e[1], e[2])
    BY SMT, <1>1, <1>2, <1>5 DEF NextDate
  <2> QED
    BY SMT, <1>1, <1>2, <1>3, <2>1 DEF Before
<1>6. CASE ~(e[3] < MonthLength(e[1], e[2])) /\ ~(e[2] < 12)
  <2>1. NextDate(e) = <<e[1] + 1, 1, 1>> /\ e[3] = MonthLength(e[1], e[2]) /\ e[2] = 12
    BY SMT, <1>1, <1>2, <1>6 DEF NextDate
  <2> QED
    BY SMT, <1>1, <1>2, <1>3, <2>1 DEF Before
<1> QED
  BY SMT, <1>4, <1>5, <1>6

LEMMA NeverBeforeItself ==
  ASSUME NEW d, IsDate(d)
  PROVE  ~Before(d, d) /\ ~Before(NextDate(d), d) /\ ~Before(NextDate(NextDate(d)), d)
<1>1. \A x : IsDate(x) => x[1] \in Int /\ x[2] \in Int /\ x[3] \in Int
  BY SMT DEF IsDate, Triples
<1>2. \A x : IsDate(x) => ~Before(x, x)
  BY SMT, <1>1 DEF Before
<1>3. \A x, y : IsDate(x) /\ IsDate(y) /\ Before(x, y) => ~Before(y, x)
  BY SMT, <1>1 DEF Before
<1>4. \A x, y, z : IsDate(x) /\ IsDate(y) /\ IsDate(z) /\ Before(x, y) /\ Before(y, z) => Before(x, z)
  BY SMT, <1>1 DEF Before
<1> DEFINE e == NextDate(d)
           f == NextDate(e)
<1>5. IsDate(e) /\ IsDate(f)
  BY SMT, NextIsDate
<1>6. Before(d, e) /\ Before(e, f)
  BY SMT, <1>5, NoneBetween
<1> HIDE DEF e, f
<1>7. Before(d, f)
  BY SMT, <1>4, <1>5, <1>6
<1> QED
  BY SMT, <1>2, <1>3, <1>5, <1>6, <1>7 DEF e, f

-----------------------------------------------------------------------------
(* The snapshot.                                                           *)

\* A bill just issued is not late, whichever day it falls due.
LEMMA SoonIsLater ==
  ASSUME NEW d, IsDate(d), NEW e \in Soon(d)
  PROVE  IsDate(e) /\ ~Before(e, d)
<1>1. IsDate(NextDate(d)) /\ IsDate(NextDate(NextDate(d)))
  BY NextIsDate
<1> QED
  BY <1>1, NeverBeforeItself DEF Soon

LEMMA UnreadIsPage == IsDate(Epoch) /\ Unread \in Pages
<1>1. IsDate(Epoch)
  BY DEF Epoch, IsDate, Triples, MonthLength
<1> QED
  BY <1>1 DEF Unread, Pages, Dates, IsDate

LEMMA InitDatesInv == Init => DatesInv
<1> SUFFICES ASSUME Init PROVE DatesInv
  OBVIOUS
<1>1. PICK y \in Years : day = NewYear(y) /\ utc = <<y, 1, 1>>
  BY DEF Init
<1>2. y \in Int /\ y >= 1970
  BY <1>1, DatesAssumption
<1>3. day \in Nat /\ TodayIsCounted
  BY <1>1, <1>2, CivilNewYear DEF TodayIsCounted
<1>4. IsDate(utc)
  BY <1>1, <1>2 DEF IsDate, Triples, MonthLength
<1>5. IsDate(due) /\ ~Before(due, town) /\ IsDate(town)
  BY <1>4, SoonIsLater DEF Init
<1>6. TypeOK
  BY <1>3, <1>4, <1>5, UnreadIsPage DEF Init, TypeOK
<1> QED
  BY <1>3, <1>5, <1>6 DEF Init, DatesInv

\* The clocks keep the invariant.
LEMMA ClocksKeep ==
  ASSUME DatesInv, Midnight \/ TownMidnight
  PROVE  DatesInv'
<1> USE DEF DatesInv
<1>1. CASE Midnight
  <2>1. /\ day' = day + 1 /\ utc' = NextDate(utc) /\ utc = town
        /\ UNCHANGED <<town, start, late, due, owed, stated, pc, page, today, flag, changed>>
    BY <1>1 DEF Midnight, bill
  <2>2. CivilFromDays(day + 1) = NextDate(CivilFromDays(day))
    BY NextCivil DEF TypeOK
  <2>3. TodayIsCounted'
    BY <2>1, <2>2 DEF TodayIsCounted
  <2>4. IsDate(utc')
    BY <2>1, NextIsDate DEF TypeOK
  <2>5. TypeOK'
    BY <2>1, <2>4 DEF TypeOK
  <2> QED
    BY <2>1, <2>3, <2>5
<1>2. CASE TownMidnight
  <2>1. /\ utc # town /\ town' = NextDate(town)
        /\ late' = IF town = due \/ late > 0 THEN late + 1 ELSE 0
        /\ UNCHANGED <<day, utc, start, due, owed, stated, pc, page, today, flag, changed>>
    BY <1>2 DEF TownMidnight, bill
  <2>2. IsDate(town') /\ (Before(due, town') <=> Before(due, town) \/ due = town)
    BY <2>1, NextIsDate, NoneBetween DEF TypeOK
  <2>3. TypeOK'
    BY <2>1, <2>2 DEF TypeOK
  <2>4. late' > 0 <=> Before(due', town')
    BY <2>1, <2>2 DEF TypeOK
  <2>5. TodayIsCounted'
    BY <2>1 DEF TodayIsCounted
  <2> QED
    BY <2>1, <2>3, <2>4, <2>5
<1> QED
  BY <1>1, <1>2

\* So do the Town's bills and the snapshot.
LEMMA BillsKeep ==
  ASSUME DatesInv, Issue \/ Pay
  PROVE  DatesInv'
<1> USE DEF DatesInv, clock
<1>1. CASE Issue
  <2>1. IsDate(due') /\ ~Before(due', town)
    BY <1>1, SoonIsLater DEF Issue, TypeOK
  <2>2. TypeOK'
    BY <1>1, <2>1 DEF Issue, TypeOK
  <2>3. late' > 0 <=> Before(due', town')
    BY <1>1, <2>1 DEF Issue
  <2>4. ~(pc' = "rest" /\ ~changed')
    BY <1>1 DEF Issue
  <2> QED
    BY <1>1, <2>2, <2>3, <2>4 DEF Issue, TodayIsCounted
<1>2. CASE Pay
  <2>1. TypeOK'
    BY <1>2 DEF Pay, TypeOK
  <2> QED
    BY <1>2, <2>1 DEF Pay, TodayIsCounted
<1> QED
  BY <1>1, <1>2

LEMMA SnapshotKeeps ==
  ASSUME DatesInv, ReadHome \/ Report \/ End
  PROVE  DatesInv'
<1> USE DEF DatesInv, clock, bill
<1>1. CASE ReadHome
  <2>1. page' \in Pages
    BY <1>1 DEF ReadHome, TypeOK, Pages, Dates, IsDate
  <2>2. TypeOK'
    BY <1>1, <2>1 DEF ReadHome, TypeOK
  <2> QED
    BY <1>1, <2>2 DEF ReadHome, TodayIsCounted
<1>2. CASE Report
  <2>1. IsDate(today') /\ flag' \in BOOLEAN
    BY <1>2, NextCivil DEF Report, TypeOK, IsPastDue, Pages
  <2>2. TypeOK'
    BY <1>2, <2>1, UnreadIsPage DEF Report, TypeOK
  <2> QED
    BY <1>2, <2>2 DEF Report, TodayIsCounted
<1>3. CASE End
  <2>1. TypeOK'
    BY <1>3, UnreadIsPage DEF End, TypeOK
  <2> QED
    BY <1>3, <2>1 DEF End, TodayIsCounted
<1> QED
  BY <1>1, <1>2, <1>3

LEMMA NextDatesInv == DatesInv /\ [Next]_vars => DatesInv'
<1>1. ASSUME DatesInv, UNCHANGED vars PROVE DatesInv'
  BY <1>1 DEF DatesInv, vars, TypeOK, TodayIsCounted
<1> QED
  BY <1>1, ClocksKeep, BillsKeep, SnapshotKeeps DEF Next

\* Every date the program and the Town hold is one of the calendar (date.rs).
THEOREM Typed == Spec => []TypeOK
<1>1. DatesInv => TypeOK
  BY DEF DatesInv
<1> QED
  BY <1>1, InitDatesInv, NextDatesInv, PTL DEF Spec

\* On every day the clock comes to, from the epoch on and for ever, the program's
\* date is the calendar's.
THEOREM Counted == Spec => []TodayIsCounted
<1>1. DatesInv => TodayIsCounted
  BY DEF DatesInv
<1> QED
  BY <1>1, InitDatesInv, NextDatesInv, PTL DEF Spec

\* A bill is called past due when the Town has counted past its due date, and on
\* that date when UTC is ahead.
THEOREM Late == Spec => PastDueIsLate
<1>1. ASSUME DatesInv, [Next]_vars
      PROVE  [pc = "rest" /\ pc' = "told" /\ ~changed =>
                flag' = (owed /\ stated /\ (late > 0 \/ (town = due /\ utc # town)))]_vars
  <2> SUFFICES ASSUME Next, pc = "rest", pc' = "told", ~changed
               PROVE  flag' = (owed /\ stated /\ (late > 0 \/ (town = due /\ utc # town)))
    BY <1>1
  <2>1. Report
    BY DEF Next, Midnight, TownMidnight, Issue, Pay, ReadHome, End
  <2>2. flag' = (owed /\ stated /\ Before(due, utc))
    BY <1>1, <2>1 DEF Report, IsPastDue, DatesInv, TodayIsCounted
  <2>3. Before(due, utc) <=> late > 0 \/ (town = due /\ utc # town)
    <3>1. CASE utc = town
      BY <1>1, <3>1 DEF DatesInv
    <3>2. CASE utc # town
      <4>1. utc = NextDate(town) /\ IsDate(town) /\ IsDate(due)
        BY <1>1, <3>2 DEF DatesInv, TypeOK
      <4>2. Before(due, utc) <=> Before(due, town) \/ due = town
        BY <4>1, NoneBetween
      <4> QED
        BY <1>1, <3>2, <4>2 DEF DatesInv
    <3> QED
      BY <3>1, <3>2
  <2> QED
    BY <2>2, <2>3
<1> QED
  BY <1>1, InitDatesInv, NextDatesInv, PTL DEF Spec, PastDueIsLate
=============================================================================
