--------------------------- MODULE CalendarProofs ---------------------------
(***************************************************************************)
(* Theorems about Calendar, for every cycle, zone and day length: civilDay *)
(* numbers the dates in turn, NextBoundary passes over no cycle, its       *)
(* boundaries are the anniversaries of the anchor, and those of calendar   *)
(* cycles are firsts.                                                      *)
(*                                                                         *)
(* Months are counted in one sequence, and MonthStart is the first day of  *)
(* each: it climbs by the 28 to 31 days of a month, so that a day is in    *)
(* one month only, and every date follows from the number of its month.    *)
(***************************************************************************)
EXTENDS Calendar, MoneyProofs

-----------------------------------------------------------------------------
(***************************************************************************)
(* Dates.                                                                  *)
(***************************************************************************)
LEMMA YearsFollow ==
    ASSUME NEW y \in Int
    PROVE  /\ YearStart(y) \in Int
           /\ YearStart(y + 1) - YearStart(y) = IF IsLeap(y) THEN 366 ELSE 365
  BY SMT DEF LeapsBefore, YearStart, IsLeap

\* DateOf looks for a day's year next to the one an average year makes of it.
LEMMA YearNear ==
    ASSUME NEW day \in Int, NEW near \in Int, near = 1970 + (day * 400) \div 146097
    PROVE  /\ YearStart(near - 1) <= day
           /\ day < YearStart(near + 2)
  BY SMT DEF LeapsBefore, YearStart

\* The first day of a month.
MonthStart(i) == DayOf(i \div 12, (i % 12) + 1, 1)

LEMMA MonthTable ==
    /\ DaysBeforeMonth[1] = 0 /\ DaysBeforeMonth[2] = 31 /\ DaysBeforeMonth[3] = 59
    /\ DaysBeforeMonth[4] = 90 /\ DaysBeforeMonth[5] = 120 /\ DaysBeforeMonth[6] = 151
    /\ DaysBeforeMonth[7] = 181 /\ DaysBeforeMonth[8] = 212 /\ DaysBeforeMonth[9] = 243
    /\ DaysBeforeMonth[10] = 273 /\ DaysBeforeMonth[11] = 304 /\ DaysBeforeMonth[12] = 334
  BY DEF DaysBeforeMonth

LEMMA TableInt ==
    ASSUME NEW m \in 1 .. 12
    PROVE  DaysBeforeMonth[m] \in Int
  BY MonthTable

LEMMA YearStartInt ==
    ASSUME NEW y \in Int
    PROVE  YearStart(y) \in Int
  BY YearsFollow

\* Of a month that is in range.
LEMMA DayOfInRange ==
    ASSUME NEW year \in Int, NEW m \in 1 .. 12, NEW d \in Int
    PROVE  DayOf(year, m, d) = YearStart(year) + DaysBeforeMonth[m] + d - 1
                                 + (IF m > 2 /\ IsLeap(year) THEN 1 ELSE 0)
<1>1. year + (m - 1) \div 12 = year /\ ((m - 1) % 12) + 1 = m
  BY SMT
<1> QED
  BY <1>1 DEF DayOf

LEMMA MonthOf ==
    ASSUME NEW i \in Int
    PROVE  /\ i \div 12 \in Int /\ (i % 12) + 1 \in 1 .. 12
           /\ i = 12 * (i \div 12) + ((i % 12) + 1) - 1
  BY SMT

LEMMA MonthStartIs ==
    ASSUME NEW year \in Int, NEW m \in 1 .. 12, NEW i \in Int, i = 12 * year + m - 1
    PROVE  MonthStart(i) = YearStart(year) + DaysBeforeMonth[m]
                             + (IF m > 2 /\ IsLeap(year) THEN 1 ELSE 0)
<1>1. i \div 12 = year /\ (i % 12) + 1 = m
  BY SMT
<1>2. MonthStart(i) = DayOf(year, m, 1)
  BY <1>1 DEF MonthStart
<1>3. DayOf(year, m, 1) = YearStart(year) + DaysBeforeMonth[m] + 1 - 1
                            + (IF m > 2 /\ IsLeap(year) THEN 1 ELSE 0)
  BY DayOfInRange
<1>4. YearStart(year) \in Int
  BY YearStartInt
<1>5. DaysBeforeMonth[m] \in Int
  BY TableInt
<1> QED
  BY <1>2, <1>3, <1>4, <1>5

LEMMA MonthStartInt ==
    ASSUME NEW i \in Int
    PROVE  MonthStart(i) \in Int
<1> DEFINE year == i \div 12
           m == (i % 12) + 1
<1>1. year \in Int /\ m \in 1 .. 12 /\ i = 12 * year + m - 1
  BY MonthOf
<1> HIDE DEF year, m
<1>2. MonthStart(i) = YearStart(year) + DaysBeforeMonth[m]
                             + (IF m > 2 /\ IsLeap(year) THEN 1 ELSE 0)
  BY <1>1, MonthStartIs
<1>3. YearStart(year) \in Int
  BY <1>1, YearStartInt
<1>4. DaysBeforeMonth[m] \in Int
  BY <1>1, TableInt
<1> QED
  BY <1>2, <1>3, <1>4

\* Months and days out of range, as time.Date takes them.
LEMMA DayOfIs ==
    ASSUME NEW y \in Int, NEW m \in Int, NEW d \in Int, NEW i \in Int, i = 12 * y + m - 1
    PROVE  DayOf(y, m, d) = MonthStart(i) + d - 1
<1> DEFINE year == y + (m - 1) \div 12
           month == ((m - 1) % 12) + 1
<1>1. /\ year \in Int /\ month \in 1 .. 12
      /\ i = 12 * year + month - 1
  BY SMT
<1>2. DayOf(y, m, d) = YearStart(year) + DaysBeforeMonth[month] + d - 1
                         + (IF month > 2 /\ IsLeap(year) THEN 1 ELSE 0)
  BY DEF DayOf
<1> HIDE DEF year, month
<1>3. YearStart(year) \in Int
  BY <1>1, YearStartInt
<1>4. DaysBeforeMonth[month] \in Int
  BY <1>1, TableInt
<1>5. MonthStart(i) = YearStart(year) + DaysBeforeMonth[month]
                         + (IF month > 2 /\ IsLeap(year) THEN 1 ELSE 0)
  BY <1>1, MonthStartIs
<1> QED
  BY <1>2, <1>3, <1>4, <1>5

\* Months have between 28 and 31 days.
LEMMA MonthsFollow ==
    ASSUME NEW i \in Int
    PROVE  MonthStart(i + 1) - MonthStart(i) \in 28 .. 31
<1> DEFINE year == i \div 12
           month == (i % 12) + 1
           leap == IF IsLeap(year) THEN 1 ELSE 0
<1>1. year \in Int /\ month \in 1 .. 12 /\ i = 12 * year + month - 1 /\ i + 1 \in Int
  BY MonthOf
<1> HIDE DEF year, month
<1>2. YearStart(year) \in Int /\ YearStart(year + 1) = YearStart(year) + 365 + leap
      /\ leap \in {0, 1}
  BY <1>1, YearsFollow
<1>3. MonthStart(i) = YearStart(year) + DaysBeforeMonth[month]
                        + (IF month > 2 /\ IsLeap(year) THEN 1 ELSE 0)
  BY <1>1, MonthStartIs
<1>4. CASE month < 12
  <2>1. month + 1 \in 1 .. 12 /\ i + 1 = 12 * year + (month + 1) - 1
    BY <1>1, <1>4
  <2>2. MonthStart(i + 1) = YearStart(year) + DaysBeforeMonth[month + 1]
                         + (IF month + 1 > 2 /\ IsLeap(year) THEN 1 ELSE 0)
    BY <1>1, <2>1, MonthStartIs
  <2> QED
    BY <1>1, <1>2, <1>3, <1>4, <2>2, MonthTable
<1>5. CASE month = 12
  <2>1. 1 \in 1 .. 12 /\ i + 1 = 12 * (year + 1) + 1 - 1 /\ year + 1 \in Int
    BY <1>1, <1>5
  <2>2. MonthStart(i + 1) = YearStart(year + 1) + DaysBeforeMonth[1]
                         + (IF 1 > 2 /\ IsLeap(year + 1) THEN 1 ELSE 0)
    BY <1>1, <2>1, MonthStartIs
  <2> QED
    BY <1>1, <1>2, <1>3, <1>5, <2>2, MonthTable
<1> QED
  BY <1>1, <1>4, <1>5

\* A month starts at least 28 days after each before it.
LEMMA MonthsApart ==
    ASSUME NEW i \in Int, NEW j \in Int, i <= j
    PROVE  MonthStart(j) >= MonthStart(i) + 28 * (j - i)
<1> DEFINE n == j - i
           X == {k \in 0 .. n : MonthStart(i + k) >= MonthStart(i) + 28 * k}
<1>1. n \in Nat /\ i + n = j
  OBVIOUS
<1>2. 0 \in X
  <2>1. MonthStart(i) \in Int /\ i + 0 = i
    BY MonthStartInt
  <2> QED
    BY <1>1, <2>1
<1>3. ASSUME NEW k \in 0 .. n, k < n, k \in X PROVE k + 1 \in X
  <2>1. i + k \in Int /\ (i + k) + 1 = i + (k + 1) /\ k + 1 \in 0 .. n /\ k \in Int
    BY <1>1, <1>3
  <2>2. MonthStart(i) \in Int
    BY MonthStartInt
  <2>3. MonthStart(i + k) \in Int
    BY <2>1, MonthStartInt
  <2>4. MonthStart((i + k) + 1) \in Int
    BY <2>1, MonthStartInt
  <2>5. MonthStart((i + k) + 1) - MonthStart(i + k) \in 28 .. 31
    BY <2>1, MonthsFollow
  <2>6. MonthStart(i + k) >= MonthStart(i) + 28 * k
    BY <1>3
  <2>7. MonthStart((i + k) + 1) >= MonthStart(i) + 28 * (k + 1)
    BY <2>1, <2>2, <2>3, <2>4, <2>5, <2>6
  <2> QED
    BY <2>1, <2>7
<1> HIDE DEF X, n
<1>4. n \in X
  <2>1. 0 .. n \subseteq X
    BY <1>1, <1>2, <1>3, UpTo
  <2> QED
    BY <1>1, <2>1
<1> QED
  BY <1>1, <1>4 DEF X, n

LEMMA MonthsClimb ==
    ASSUME NEW i \in Int, NEW j \in Int, i < j
    PROVE  MonthStart(i + 1) <= MonthStart(j)
<1>1. i + 1 \in Int /\ i + 1 <= j
  OBVIOUS
<1>2. MonthStart(i + 1) \in Int /\ MonthStart(j) \in Int
  BY <1>1, MonthStartInt
<1>3. MonthStart(j) >= MonthStart(i + 1) + 28 * (j - (i + 1))
  BY <1>1, MonthsApart
<1> QED
  BY <1>1, <1>2, <1>3

\* A year starts with its January.
LEMMA YearIsMonths ==
    ASSUME NEW y \in Int
    PROVE  MonthStart(12 * y) = YearStart(y)
<1>1. 1 \in 1 .. 12 /\ 12 * y \in Int /\ 12 * y = 12 * y + 1 - 1
  OBVIOUS
<1>2. MonthStart(12 * y) = YearStart(y) + DaysBeforeMonth[1]
                             + (IF 1 > 2 /\ IsLeap(y) THEN 1 ELSE 0)
  BY <1>1, MonthStartIs
<1>3. YearStart(y) \in Int
  BY YearStartInt
<1> QED
  BY <1>2, <1>3, MonthTable

\* Months are counted from the January of the year 0.
MonthNo(date) == 12 * date.year + date.month - 1

\* DateOf finds the month a day is in, and the day of that month.
LEMMA DateIs ==
    ASSUME NEW day \in Int
    PROVE  /\ DateOf(day).year \in Int /\ DateOf(day).month \in 1 .. 12
           /\ MonthNo(DateOf(day)) \in Int
           /\ MonthStart(MonthNo(DateOf(day))) <= day
           /\ day < MonthStart(MonthNo(DateOf(day)) + 1)
           /\ DateOf(day).day = day - MonthStart(MonthNo(DateOf(day))) + 1
<1> DEFINE near == 1970 + (day * 400) \div 146097
           year == CHOOSE y \in near - 1 .. near + 1 :
                     YearStart(y) <= day /\ day < YearStart(y + 1)
           month == CHOOSE m \in 1 .. 12 :
                     DayOf(year, m, 1) <= day /\ day < DayOf(year, m + 1, 1)
           i == 12 * year + month - 1
<1>1. near \in Int
  BY SMT
<1>2. YearStart(near - 1) <= day /\ day < YearStart(near + 2)
  BY <1>1, YearNear
<1>3. DateOf(day) = [year |-> year, month |-> month, day |-> day - DayOf(year, month, 1) + 1]
  BY DEF DateOf
<1> HIDE DEF near
<1>4. \E y \in near - 1 .. near + 1 : YearStart(y) <= day /\ day < YearStart(y + 1)
  <2>1. near - 1 \in Int /\ near + 1 \in Int /\ near + 2 \in Int
        /\ (near - 1) + 1 = near /\ (near + 1) + 1 = near + 2
        /\ near \in near - 1 .. near + 1
        /\ near - 1 \in near - 1 .. near + 1 /\ near + 1 \in near - 1 .. near + 1
    BY <1>1
  <2>2. YearStart(near) \in Int
    BY <1>1, YearStartInt
  <2>3. YearStart(near + 1) \in Int
    BY <2>1, YearStartInt
  <2>4. CASE day < YearStart(near)
    BY <1>2, <2>1, <2>4
  <2>5. CASE YearStart(near) <= day /\ day < YearStart(near + 1)
    BY <2>1, <2>5
  <2>6. CASE YearStart(near + 1) <= day
    BY <1>2, <2>1, <2>6
  <2> QED
    BY <2>2, <2>3, <2>4, <2>5, <2>6
<1>5. year \in near - 1 .. near + 1 /\ YearStart(year) <= day /\ day < YearStart(year + 1)
  BY <1>4
<1> HIDE DEF year
<1>6. year \in Int
  BY <1>1, <1>5
<1>7. \A m \in 1 .. 13 : DayOf(year, m, 1) = MonthStart(12 * year + m - 1)
  <2> SUFFICES ASSUME NEW m \in 1 .. 13
               PROVE  DayOf(year, m, 1) = MonthStart(12 * year + m - 1)
    OBVIOUS
  <2> DEFINE k == 12 * year + m - 1
  <2>1. k \in Int /\ k = 12 * year + m - 1 /\ m \in Int
    BY <1>6
  <2> HIDE DEF k
  <2>2. DayOf(year, m, 1) = MonthStart(k) + 1 - 1
    BY <1>6, <2>1, DayOfIs
  <2>3. MonthStart(k) \in Int
    BY <2>1, MonthStartInt
  <2> QED
    BY <2>1, <2>2, <2>3
<1>8. \E m \in 1 .. 12 : DayOf(year, m, 1) <= day /\ day < DayOf(year, m + 1, 1)
  <2> DEFINE S == {m \in 1 .. 12 : day < DayOf(year, m + 1, 1)}
  <2>1. 12 \in S
    <3>1. 13 \in 1 .. 13 /\ 12 * year + 13 - 1 = 12 * (year + 1) /\ year + 1 \in Int
      BY <1>6
    <3>2. DayOf(year, 13, 1) = YearStart(year + 1)
      BY <1>7, <3>1, YearIsMonths
    <3> QED
      BY <1>5, <3>2
  <2>2. S \in SUBSET Nat /\ S # {}
    BY <2>1
  <2> HIDE DEF S
  <2>3. PICK m \in S : \A k \in S : m <= k
    BY <2>2, LeastNatural
  <2>4. m \in 1 .. 12 /\ day < DayOf(year, m + 1, 1)
    BY <2>3 DEF S
  <2>5. CASE m = 1
    <3>1. 12 * year + 1 - 1 = 12 * year /\ 1 \in 1 .. 13
      BY <1>6
    <3>2. DayOf(year, 1, 1) = YearStart(year)
      BY <1>6, <1>7, <3>1, YearIsMonths
    <3> QED
      BY <1>5, <2>4, <2>5, <3>2
  <2>6. CASE m # 1
    <3>1. m - 1 \in 1 .. 12 /\ (m - 1) + 1 = m /\ m - 1 \notin S
      BY <2>3, <2>4, <2>6
    <3>2. ~(day < DayOf(year, m, 1))
      BY <3>1 DEF S
    <3>3. DayOf(year, m, 1) \in Int
      <4>1. 12 * year + m - 1 \in Int /\ m \in 1 .. 13
        BY <1>6, <2>4
      <4> QED
        BY <1>7, <4>1, MonthStartInt
    <3> QED
      BY <2>4, <3>2, <3>3
  <2> QED
    BY <2>5, <2>6
<1>9. month \in 1 .. 12 /\ DayOf(year, month, 1) <= day /\ day < DayOf(year, month + 1, 1)
  BY <1>8
<1> HIDE DEF month
<1>10. DayOf(year, month, 1) = MonthStart(i) /\ DayOf(year, month + 1, 1) = MonthStart(i + 1)
  <2>1. month \in 1 .. 13 /\ month + 1 \in 1 .. 13
        /\ 12 * year + (month + 1) - 1 = i + 1
    BY <1>6, <1>9
  <2> QED
    BY <1>7, <2>1
<1>11. i \in Int /\ MonthNo(DateOf(day)) = i /\ DateOf(day).year = year
       /\ DateOf(day).month = month /\ DateOf(day).day = day - DayOf(year, month, 1) + 1
  BY <1>3, <1>6, <1>9 DEF MonthNo
<1> QED
  BY <1>6, <1>9, <1>10, <1>11

\* The month a day is in is the only one whose days it is among.
LEMMA MonthIs ==
    ASSUME NEW day \in Int, NEW i \in Int, MonthStart(i) <= day, day < MonthStart(i + 1)
    PROVE  MonthNo(DateOf(day)) = i
<1> DEFINE j == MonthNo(DateOf(day))
<1>1. j \in Int /\ MonthStart(j) <= day /\ day < MonthStart(j + 1)
  BY DateIs
<1> HIDE DEF j
<1>2. j + 1 \in Int /\ i + 1 \in Int
  BY <1>1
<1>3. /\ MonthStart(i) \in Int /\ MonthStart(j) \in Int
      /\ MonthStart(i + 1) \in Int /\ MonthStart(j + 1) \in Int
  BY <1>1, <1>2, MonthStartInt
<1>4. ~(i < j)
  <2>1. i < j => MonthStart(i + 1) <= MonthStart(j)
    BY <1>1, MonthsClimb
  <2> QED
    BY <1>1, <1>3, <2>1
<1>5. ~(j < i)
  <2>1. j < i => MonthStart(j + 1) <= MonthStart(i)
    BY <1>1, MonthsClimb
  <2> QED
    BY <1>1, <1>3, <2>1
<1> QED
  BY <1>1, <1>4, <1>5 DEF j

\* Go's truncated division of a number that is not negative is floor division,
\* and Era, which takes 399 from a negative year before it divides, is that of
\* every year.
LEMMA EraIs ==
    ASSUME NEW y \in Int
    PROVE  Era(y) = y \div 400
<1>1. CASE y >= 0
  <2>1. Era(y) = GoDiv(y, 400)
    BY <1>1 DEF Era
  <2>2. GoDiv(y, 400) = y \div 400
    BY <1>1 DEF GoDiv
  <2> QED
    BY <2>1, <2>2
<1>2. CASE y < 0
  <2>1. y - 399 < 0 /\ ~(y >= 0) /\ -(y - 399) = 399 - y
    BY <1>2
  <2>2. Era(y) = GoDiv(y - 399, 400)
    BY <2>1 DEF Era
  <2>3. GoDiv(y - 399, 400) = -((399 - y) \div 400)
    BY <2>1 DEF GoDiv
  <2>4. -((399 - y) \div 400) = y \div 400
    BY SMT
  <2> QED
    BY <2>2, <2>4, <2>3
<1> QED
  BY <1>1, <1>2

\* The years of an era before a year, and the days before the March of it.
LEMMA EraYears ==
    ASSUME NEW y \in Int
    PROVE  LET yoe == y - Era(y) * 400
           IN  /\ yoe \in 0 .. 399
               /\ Era(y) * 146097 + yoe * 365 + yoe \div 4 - yoe \div 100 - 719468
                    = YearStart(y + 1) - 306
<1>1. Era(y) = y \div 400
  BY EraIs
<1> DEFINE e == y \div 400
<1>2. e \in Int /\ y - e * 400 \in 0 .. 399
  BY SMT
<1>3. e * 146097 + (y - e * 400) * 365 + (y - e * 400) \div 4 - (y - e * 400) \div 100 - 719468
        = YearStart(y + 1) - 306
  BY SMT DEF YearStart, LeapsBefore
<1> QED
  BY <1>1, <1>2, <1>3

\* The days of a year before the first of a month are those of the table, and
\* the leap day from March on; from the March before, those of doy.
LEMMA DaysFromMarch ==
    /\ \A m \in 3 .. 12 : GoDiv(153 * (m - 3) + 2, 5) = DaysBeforeMonth[m] - 59
    /\ \A m \in 1 .. 2 : GoDiv(153 * (m + 9) + 2, 5) = DaysBeforeMonth[m] + 306
<1>1. \A n \in Nat : GoDiv(n, 5) = n \div 5
  BY DEF GoDiv
<1>2. ASSUME NEW m \in 3 .. 12 PROVE GoDiv(153 * (m - 3) + 2, 5) = DaysBeforeMonth[m] - 59
  <2>1. 153 * (m - 3) + 2 \in Nat
    OBVIOUS
  <2>2. (153 * (m - 3) + 2) \div 5 = DaysBeforeMonth[m] - 59
    BY MonthTable
  <2> QED
    BY <1>1, <2>1, <2>2
<1>3. ASSUME NEW m \in 1 .. 2 PROVE GoDiv(153 * (m + 9) + 2, 5) = DaysBeforeMonth[m] + 306
  <2>1. 153 * (m + 9) + 2 \in Nat
    OBVIOUS
  <2>2. (153 * (m + 9) + 2) \div 5 = DaysBeforeMonth[m] + 306
    BY MonthTable
  <2> QED
    BY <1>1, <2>1, <2>2
<1> QED
  BY <1>2, <1>3

\* civilDay's number of a date.
Serial(date) ==
    LET y    == IF date.month <= 2 THEN date.year - 1 ELSE date.year
        yoe  == y - Era(y) * 400
        mp   == IF date.month > 2 THEN date.month - 3 ELSE date.month + 9
        doy  == GoDiv(153 * mp + 2, 5) + date.day - 1
        doe  == yoe * 365 + GoDiv(yoe, 4) - GoDiv(yoe, 100) + doy
    IN  Era(y) * 146097 + doe - 719468

\* The number is that of the day.
LEMMA Numbered ==
    ASSUME NEW zone, NEW t, NEW day \in Int, day = Local(zone, t) \div TicksPerDay
    PROVE  CivilDay(zone, t) = day
<1> DEFINE date == DateOf(day)
           y == IF date.month <= 2 THEN date.year - 1 ELSE date.year
           yoe == y - Era(y) * 400
           mp == IF date.month > 2 THEN date.month - 3 ELSE date.month + 9
           doy == GoDiv(153 * mp + 2, 5) + date.day - 1
           doe == yoe * 365 + GoDiv(yoe, 4) - GoDiv(yoe, 100) + doy
<1>1. CivilDay(zone, t) = Serial(date)
  BY DEF CivilDay, Date, Serial
<1> DEFINE i == MonthNo(date)
<1>2. /\ date.year \in Int /\ date.month \in 1 .. 12 /\ i \in Int
      /\ i = 12 * date.year + date.month - 1
      /\ date.day = day - MonthStart(i) + 1
  BY DateIs DEF MonthNo
<1> HIDE DEF date, i
<1>3. CivilDay(zone, t) = Era(y) * 146097 + doe - 719468
  BY <1>1 DEF Serial
<1>4. y \in Int
  BY <1>2
<1>5. MonthStart(i) = YearStart(date.year) + DaysBeforeMonth[date.month]
                        + (IF date.month > 2 /\ IsLeap(date.year) THEN 1 ELSE 0)
  BY <1>2, MonthStartIs
<1>6. MonthStart(i) \in Int
  BY <1>2, MonthStartInt
<1>7. YearStart(date.year) \in Int
  BY <1>2, YearStartInt
<1>8. DaysBeforeMonth[date.month] \in Int
  BY <1>2, TableInt
<1>9. YearStart(date.year + 1) - YearStart(date.year)
        = IF IsLeap(date.year) THEN 366 ELSE 365
  BY <1>2, YearsFollow
<1>10. date.year + 1 \in Int /\ YearStart(date.year + 1) \in Int
  BY <1>2, YearStartInt
<1>11. /\ yoe \in 0 .. 399
       /\ Era(y) * 146097 + yoe * 365 + yoe \div 4 - yoe \div 100 - 719468
            = YearStart(y + 1) - 306
  BY <1>4, EraYears
<1>12. GoDiv(yoe, 4) = yoe \div 4 /\ GoDiv(yoe, 100) = yoe \div 100
  BY <1>11 DEF GoDiv
<1>13. Era(y) \in Int
  BY <1>4, EraIs
<1> HIDE DEF yoe
<1>14. yoe \in Int /\ yoe \div 4 \in Int /\ yoe \div 100 \in Int /\ YearStart(y + 1) \in Int
  <2>1. yoe \in Int /\ yoe \div 4 \in Int /\ yoe \div 100 \in Int
    BY <1>11
  <2>2. y + 1 \in Int
    BY <1>4
  <2>3. YearStart(y + 1) \in Int
    BY <2>2, YearStartInt
  <2> QED
    BY <2>1, <2>3
<1>15. CASE date.month <= 2
  <2>1. y + 1 = date.year /\ mp = date.month + 9
    BY <1>2, <1>15
  <2>2. doy = DaysBeforeMonth[date.month] + 306 + date.day - 1
    BY <1>2, <1>15, <2>1, DaysFromMarch
  <2> HIDE DEF y, doy
  <2>3. CivilDay(zone, t) = YearStart(date.year) - 306 + doy
    BY <1>3, <1>7, <1>8, <1>11, <1>12, <1>13, <1>14, <1>2, <1>6, <2>1, <2>2
  <2> QED
    BY <1>2, <1>5, <1>6, <1>7, <1>8, <1>15, <2>2, <2>3
<1>16. CASE date.month > 2
  <2>1. y = date.year /\ mp = date.month - 3
    BY <1>2, <1>16
  <2>2. doy = DaysBeforeMonth[date.month] - 59 + date.day - 1
    BY <1>2, <1>16, <2>1, DaysFromMarch
  <2> HIDE DEF y, doy
  <2>3. CivilDay(zone, t) = YearStart(date.year + 1) - 306 + doy
    BY <1>3, <1>10, <1>8, <1>11, <1>12, <1>13, <1>14, <1>2, <1>6, <2>1, <2>2
  <2> QED
    BY <1>2, <1>5, <1>6, <1>7, <1>8, <1>9, <1>10, <1>16, <2>2, <2>3
<1> QED
  BY <1>2, <1>15, <1>16

-----------------------------------------------------------------------------
(***************************************************************************)
(* Local times.                                                            *)
(***************************************************************************)
LEMMA LocalDay ==
    ASSUME NEW l \in Int
    PROVE  /\ l \div TicksPerDay \in Int
           /\ l % TicksPerDay \in 0 .. TicksPerDay - 1
           /\ l = TicksPerDay * (l \div TicksPerDay) + (l % TicksPerDay)
  BY TicksPerDayAssumption, FloorDivision

\* A local time is one day and one clock reading.
LEMMA DayAndClock ==
    ASSUME NEW day \in Int, NEW clock \in 0 .. TicksPerDay - 1, NEW l \in Int,
           l = day * TicksPerDay + clock
    PROVE  l \div TicksPerDay = day /\ l % TicksPerDay = clock
<1> DEFINE t == TicksPerDay
           a == l \div t
           c == l % t
<1>1. t \in Nat \ {0} /\ a \in Int /\ c \in 0 .. t - 1 /\ l = t * a + c
  BY TicksPerDayAssumption, LocalDay
<1> HIDE DEF t, a, c
<1>2. ~(a < day)
  <2> SUFFICES ASSUME a < day PROVE FALSE
    OBVIOUS
  <2>1. t * a + t <= t * day
    <3>1. day - a - 1 \in Nat
      BY <1>1
    <3>2. t * (day - a - 1) >= 0
      BY <1>1, <3>1, SMT
    <3> QED
      BY <1>1, <3>2, SMT
  <2>2. l = t * day + clock
    BY <1>1 DEF t
  <2>3. clock >= 0 /\ clock \in Int
    BY <1>1 DEF t
  <2> QED
    BY <1>1, <2>1, <2>2, <2>3, SMT
<1>3. ~(day < a)
  <2> SUFFICES ASSUME day < a PROVE FALSE
    OBVIOUS
  <2>1. t * day + t <= t * a
    <3>1. a - day - 1 \in Nat
      BY <1>1
    <3>2. t * (a - day - 1) >= 0
      BY <1>1, <3>1, SMT
    <3> QED
      BY <1>1, <3>2, SMT
  <2>2. l = t * day + clock
    BY <1>1 DEF t
  <2>3. clock < t /\ clock \in Int
    BY <1>1 DEF t
  <2> QED
    BY <1>1, <2>1, <2>2, <2>3, SMT
<1>4. a = day
  BY <1>1, <1>2, <1>3
<1>5. l = t * day + clock /\ clock \in Int
  BY <1>1 DEF t
<1>6. c = clock
  BY <1>1, <1>4, <1>5, SMT
<1> QED
  BY <1>4, <1>6 DEF a, c, t

LEMMA DaysRise ==
    ASSUME NEW l \in Int, NEW m \in Int, l <= m
    PROVE  l \div TicksPerDay <= m \div TicksPerDay
<1> DEFINE t == TicksPerDay
           a == l \div t
           c == l % t
           b == m \div t
           e == m % t
<1>1. /\ t \in Nat \ {0} /\ a \in Int /\ c \in 0 .. t - 1 /\ l = t * a + c
      /\ b \in Int /\ e \in 0 .. t - 1 /\ m = t * b + e
  BY TicksPerDayAssumption, LocalDay
<1> HIDE DEF t, a, b, c, e
<1> SUFFICES ASSUME b < a PROVE FALSE
  BY <1>1 DEF a, b, t
<1>2. a - b - 1 \in Nat
  BY <1>1
<1>3. t * (a - b - 1) >= 0
  BY <1>1, <1>2, SMT
<1>4. t * b + t <= t * a
  BY <1>1, <1>3, SMT
<1> QED
  BY <1>1, <1>4, SMT

LEMMA MonthAtIs ==
    ASSUME NEW l \in Int, NEW day, day = l \div TicksPerDay
    PROVE  /\ MonthAt(l) = MonthNo(DateOf(day)) + 1
           /\ MonthAt(l) \in Int
<1>1. day \in Int
  BY LocalDay
<1>2. /\ DateOf(day).year \in Int /\ DateOf(day).month \in 1 .. 12
      /\ MonthNo(DateOf(day)) \in Int
  BY <1>1, DateIs
<1> QED
  BY <1>2 DEF MonthAt, MonthIndex, MonthNo

\* Time that passes in a zone passes to a later month, if to another.
LEMMA MonthsRise ==
    ASSUME NEW l \in Int, NEW m \in Int, l <= m
    PROVE  MonthAt(l) <= MonthAt(m)
<1> DEFINE d == l \div TicksPerDay
           e == m \div TicksPerDay
           i == MonthNo(DateOf(d))
           j == MonthNo(DateOf(e))
<1>1. d \in Int /\ e \in Int /\ d <= e
  BY LocalDay, DaysRise
<1>2. MonthAt(l) = i + 1 /\ MonthAt(m) = j + 1
  BY MonthAtIs
<1> HIDE DEF d, e
<1>3. i \in Int /\ MonthStart(i) <= d /\ j \in Int /\ e < MonthStart(j + 1)
  BY <1>1, DateIs
<1> HIDE DEF i, j
<1>4. MonthStart(i) \in Int
  BY <1>3, MonthStartInt
<1>5. j + 1 \in Int /\ MonthStart(j + 1) \in Int
  BY <1>3, MonthStartInt
<1>6. j < i => MonthStart(j + 1) <= MonthStart(i)
  BY <1>3, MonthsClimb
<1> QED
  BY <1>1, <1>2, <1>3, <1>4, <1>5, <1>6

Zoned(zone) ==
    /\ zone.at \in Int /\ zone.before \in Int /\ zone.after \in Int
    /\ zone.reading \in {zone.before, zone.after}

LEMMA LocalIs ==
    ASSUME NEW zone, Zoned(zone), NEW t \in Int
    PROVE  /\ Local(zone, t) \in Int
           /\ t < zone.at => Local(zone, t) = t + zone.before
           /\ t >= zone.at => Local(zone, t) = t + zone.after
  BY DEF Local, Offset, Zoned

\* time.Date answers an instant at which the clocks show the local time, but
\* for one they skip, which is read by one of the two offsets.
LEMMA InstantIs ==
    ASSUME NEW zone, Zoned(zone), NEW day \in Int, NEW clock \in Int, NEW l \in Int,
           l = day * TicksPerDay + clock, NEW t, t = Instant(zone, day, clock)
    PROVE  /\ t \in Int
           /\ \/ Local(zone, t) = l
              \/ /\ l \in Skipped(zone) /\ t = l - zone.reading
                 /\ l - zone.before >= zone.at /\ l - zone.after < zone.at
<1> DEFINE R == {o \in {zone.before, zone.after} : Offset(zone, l - o) = o}
           pick == IF Cardinality(R) = 1 THEN CHOOSE o \in R : TRUE ELSE zone.reading
<1>1. t = l - pick
  BY DEF Instant
<1>2. zone.at \in Int /\ zone.before \in Int /\ zone.after \in Int
      /\ zone.reading \in {zone.before, zone.after}
  BY DEF Zoned
<1>3. CASE R # {}
  <2>1. pick \in R
    <3>1. CASE Cardinality(R) = 1
      BY <1>3, <3>1
    <3>2. CASE Cardinality(R) # 1
      <4>1. \A o : R # {o}
        BY <3>2, FS_Singleton
      <4>2. R = {zone.before, zone.after}
        <5>1. R \subseteq {zone.before, zone.after}
          OBVIOUS
        <5> HIDE DEF R
        <5> QED
          BY <1>3, <4>1, <5>1
      <4> QED
        BY <1>2, <3>2, <4>2
    <3> QED
      BY <3>1, <3>2
  <2> HIDE DEF pick
  <2>2. pick \in Int /\ Offset(zone, l - pick) = pick
    BY <1>2, <2>1
  <2>3. t \in Int /\ Local(zone, t) = l
    BY <1>1, <2>2 DEF Local
  <2> QED
    BY <2>3
<1>4. CASE R = {}
  <2>1. pick = zone.reading
    <3>1. Cardinality(R) = 0
      BY <1>4, FS_EmptySet
    <3> QED
      BY <3>1
  <2>2. Offset(zone, l - zone.before) # zone.before /\ Offset(zone, l - zone.after) # zone.after
    BY <1>4
  <2>3. ~(l - zone.before < zone.at) /\ l - zone.after < zone.at
    BY <2>2 DEF Offset
  <2> HIDE DEF pick
  <2>4. l \in Skipped(zone)
    BY <1>2, <2>3 DEF Skipped
  <2> QED
    BY <1>1, <1>2, <2>1, <2>3, <2>4
<1> QED
  BY <1>3, <1>4

\* The fields of the date an instant falls on.
LEMMA DateParts ==
    ASSUME NEW zone, Zoned(zone), NEW t \in Int, NEW a, a = Date(zone, t)
    PROVE  /\ a.year \in Int /\ a.month \in 1 .. 12 /\ a.day \in Nat \ {0}
           /\ MonthNo(a) \in Int /\ MonthNo(a) = 12 * a.year + a.month - 1
           /\ MonthAt(Local(zone, t)) = MonthNo(a) + 1
<1> DEFINE l == Local(zone, t)
           day == l \div TicksPerDay
<1>1. l \in Int
  BY LocalIs
<1>2. a = DateOf(day)
  BY DEF Date
<1> HIDE DEF l
<1>3. day \in Int
  BY <1>1, LocalDay
<1>4. MonthAt(l) = MonthNo(DateOf(day)) + 1
  BY <1>1, MonthAtIs
<1> HIDE DEF day
<1>5. /\ a.year \in Int /\ a.month \in 1 .. 12 /\ MonthNo(a) \in Int
      /\ MonthStart(MonthNo(a)) <= day
      /\ a.day = day - MonthStart(MonthNo(a)) + 1
  BY <1>2, <1>3, DateIs
<1>6. MonthStart(MonthNo(a)) \in Int
  BY <1>5, MonthStartInt
<1>7. a.day \in Nat \ {0}
  BY <1>3, <1>5, <1>6
<1> QED
  BY <1>2, <1>4, <1>5, <1>7 DEF MonthNo, l

-----------------------------------------------------------------------------
(***************************************************************************)
(* Boundaries.                                                             *)
(***************************************************************************)
\* floorDiv and floorMod, from division that truncates.
LEMMA FloorDivIs ==
    ASSUME NEW n \in Int
    PROVE  FloorDiv(n, 12) = n \div 12 /\ FloorMod(n, 12) = n % 12
<1> DEFINE q == GoDiv(n, 12)
           r == GoRem(n, 12)
<1>1. /\ n \div 12 \in Int /\ n % 12 \in 0 .. 11 /\ n = 12 * (n \div 12) + (n % 12)
      /\ (-n) \div 12 \in Int /\ (-n) % 12 \in 0 .. 11 /\ -n = 12 * ((-n) \div 12) + ((-n) % 12)
  BY SMT
<1>2. q = IF n < 0 THEN -((-n) \div 12) ELSE n \div 12
  BY DEF GoDiv
<1>3. r = n - 12 * q
  BY DEF GoRem
<1>4. /\ FloorDiv(n, 12) = q - (IF r # 0 /\ (n < 0) # (12 < 0) THEN 1 ELSE 0)
      /\ FloorMod(n, 12) = r + (IF r # 0 /\ (r < 0) # (12 < 0) THEN 12 ELSE 0)
  BY DEF FloorDiv, FloorMod
<1> HIDE DEF q, r
<1>5. CASE n < 0
  <2>1. q = -((-n) \div 12) /\ r = -((-n) % 12) /\ q \in Int /\ r \in Int
    BY <1>1, <1>2, <1>3, <1>5
  <2>2. CASE r = 0
    <3>1. FloorDiv(n, 12) = q - 0 /\ FloorMod(n, 12) = r + 0
      BY <1>4, <2>2
    <3> QED
      BY <1>1, <2>1, <2>2, <3>1
  <2>3. CASE r # 0
    <3>1. r < 0 /\ ~(12 < 0)
      BY <1>1, <2>1, <2>3
    <3>2. FloorDiv(n, 12) = q - 1 /\ FloorMod(n, 12) = r + 12
      BY <1>4, <1>5, <2>3, <3>1
    <3> QED
      BY <1>1, <2>1, <2>3, <3>1, <3>2
  <2> QED
    BY <2>2, <2>3
<1>6. CASE ~(n < 0)
  <2>1. q = n \div 12 /\ r = n % 12 /\ q \in Int /\ r \in Int /\ ~(r < 0) /\ ~(12 < 0)
    BY <1>1, <1>2, <1>3, <1>6
  <2>2. FloorDiv(n, 12) = q - 0 /\ FloorMod(n, 12) = r + 0
    BY <1>4, <1>6, <2>1
  <2> QED
    BY <2>1, <2>2
<1> QED
  BY <1>5, <1>6

\* The days of a month.
Length(i) == MonthStart(i + 1) - MonthStart(i)

\* daysInMonth, by the day before the next month's first.
LEMMA DaysInMonthIs ==
    ASSUME NEW y \in Int, NEW m \in 1 .. 12, NEW i \in Int, i = 12 * y + m - 1
    PROVE  DaysInMonth(y, m) = Length(i)
<1> DEFINE day == DayOf(y, m + 1, 0)
<1>1. i + 1 \in Int /\ i + 1 = 12 * y + (m + 1) - 1 /\ m + 1 \in Int /\ 0 \in Int
  OBVIOUS
<1>2. day = MonthStart(i + 1) + 0 - 1
  BY <1>1, DayOfIs
<1>3. MonthStart(i) \in Int
  BY MonthStartInt
<1>4. MonthStart(i + 1) \in Int
  BY <1>1, MonthStartInt
<1>5. MonthStart(i + 1) - MonthStart(i) \in 28 .. 31
  BY MonthsFollow
<1> HIDE DEF day
<1>6. day \in Int /\ MonthStart(i) <= day /\ day < MonthStart(i + 1)
  BY <1>2, <1>3, <1>4, <1>5
<1>7. MonthNo(DateOf(day)) = i
  BY <1>6, MonthIs
<1>8. DateOf(day).day = day - MonthStart(i) + 1
  BY <1>6, <1>7, DateIs
<1>9. DaysInMonth(y, m) = DateOf(day).day
  BY DEF DaysInMonth, day
<1> QED
  BY <1>2, <1>3, <1>4, <1>8, <1>9 DEF Length

\* The day of a month on which a cycle anchored on the d-th is billed.
BillingDay(d, i) == MonthStart(i) + (IF d > Length(i) THEN Length(i) ELSE d) - 1

\* The months from one boundary to the next.
Stride(unit) == IF unit = "yearly" THEN 12 ELSE 1

\* It is in that month.
LEMMA BillingDayIs ==
    ASSUME NEW d \in Nat \ {0}, NEW i \in Int
    PROVE  /\ BillingDay(d, i) \in Int
           /\ MonthStart(i) <= BillingDay(d, i) /\ BillingDay(d, i) < MonthStart(i + 1)
           /\ MonthNo(DateOf(BillingDay(d, i))) = i
<1>1. MonthStart(i) \in Int
  BY MonthStartInt
<1>2. i + 1 \in Int /\ MonthStart(i + 1) \in Int
  BY MonthStartInt
<1>3. MonthStart(i + 1) - MonthStart(i) \in 28 .. 31
  BY MonthsFollow
<1>4. /\ BillingDay(d, i) \in Int
      /\ MonthStart(i) <= BillingDay(d, i) /\ BillingDay(d, i) < MonthStart(i + 1)
  BY <1>1, <1>2, <1>3 DEF BillingDay, Length
<1> QED
  BY <1>4, MonthIs

\* The boundary k units from the anchor is in the month that many units from
\* the anchor's, on the anchor's day or the month's last.
LEMMA AddCyclesIs ==
    ASSUME NEW zone, Zoned(zone), NEW anchor \in Int, NEW k \in Int, NEW unit \in Units,
           NEW a, a = Date(zone, anchor), NEW i, i = MonthNo(a) + Stride(unit) * k
    PROVE  AddCycles(anchor, zone, k, unit)
             = Instant(zone, BillingDay(a.day, i), Clock(zone, anchor))
<1> DEFINE total == a.month - 1 + k
           year == IF unit = "yearly" THEN a.year + k ELSE a.year + FloorDiv(total, 12)
           month == IF unit = "yearly" THEN a.month ELSE FloorMod(total, 12) + 1
           last == DaysInMonth(year, month)
           dd == IF a.day > last THEN last ELSE a.day
<1>1. AddCycles(anchor, zone, k, unit) = Instant(zone, DayOf(year, month, dd), Clock(zone, anchor))
  BY DEF AddCycles
<1>2. a.year \in Int /\ a.month \in 1 .. 12 /\ a.day \in Int
      /\ MonthNo(a) = 12 * a.year + a.month - 1
  <2>1. Local(zone, anchor) \div TicksPerDay \in Int
    BY LocalIs, LocalDay
  <2> DEFINE day == Local(zone, anchor) \div TicksPerDay
  <2>2. a = DateOf(day)
    BY DEF Date
  <2> HIDE DEF day
  <2>3. day \in Int
    BY <2>1 DEF day
  <2>4. /\ a.year \in Int /\ a.month \in 1 .. 12 /\ MonthNo(a) \in Int
        /\ a.day = day - MonthStart(MonthNo(a)) + 1
    BY <2>2, <2>3, DateIs
  <2>5. MonthStart(MonthNo(a)) \in Int
    BY <2>4, MonthStartInt
  <2> QED
    BY <2>3, <2>4, <2>5 DEF MonthNo
<1>3. year \in Int /\ month \in 1 .. 12 /\ i \in Int /\ i = 12 * year + month - 1
  <2>1. CASE unit = "yearly"
    <3>1. year = a.year + k /\ month = a.month
      BY <2>1
    <3>2. i = 12 * a.year + a.month - 1 + 12 * k
      BY <1>2, <2>1 DEF Stride
    <3> HIDE DEF year, month
    <3>3. year \in Int /\ month \in 1 .. 12
      BY <1>2, <3>1
    <3>4. i \in Int /\ i = 12 * year + month - 1
      BY <1>2, <3>1, <3>2
    <3> QED
      BY <3>3, <3>4
  <2>2. CASE unit # "yearly"
    <3>1. total \in Int
      BY <1>2
    <3>2. i = 12 * a.year + total
      <4>1. Stride(unit) * k = k
        BY <2>2 DEF Stride
      <4> QED
        BY <1>2, <4>1
    <3>3. year = a.year + FloorDiv(total, 12) /\ month = FloorMod(total, 12) + 1
      BY <2>2
    <3> HIDE DEF total, year, month
    <3>4. FloorDiv(total, 12) = total \div 12
      BY <3>1, FloorDivIs
    <3>5. FloorMod(total, 12) = total % 12
      BY <3>1, FloorDivIs
    <3>6. /\ total \div 12 \in Int /\ total % 12 \in 0 .. 11
          /\ total = 12 * (total \div 12) + (total % 12)
      BY <3>1, SMT
    <3> DEFINE q == total \div 12
               r == total % 12
    <3>7. q \in Int /\ r \in 0 .. 11 /\ total = 12 * q + r /\ year = a.year + q /\ month = r + 1
      BY <3>3, <3>4, <3>5, <3>6
    <3> HIDE DEF q, r
    <3>8. year \in Int /\ month \in 1 .. 12
      BY <1>2, <3>7
    <3>9. i \in Int /\ i = 12 * year + month - 1
      BY <1>2, <3>2, <3>7
    <3> QED
      BY <3>8, <3>9
  <2> QED
    BY <2>1, <2>2
<1> HIDE DEF total, year, month
<1>4. last = Length(i)
  BY <1>3, DaysInMonthIs
<1>5. Length(i) \in Int
  <2>1. MonthStart(i) \in Int
    BY <1>3, MonthStartInt
  <2>2. i + 1 \in Int /\ MonthStart(i + 1) \in Int
    BY <1>3, MonthStartInt
  <2> QED
    BY <2>1, <2>2 DEF Length
<1> HIDE DEF last
<1>6. dd = IF a.day > Length(i) THEN Length(i) ELSE a.day
  BY <1>4
<1> HIDE DEF dd
<1>7. dd \in Int
  BY <1>2, <1>5, <1>6
<1>8. month \in Int /\ year \in Int /\ i \in Int /\ i = 12 * year + month - 1
  BY <1>3
<1>9. DayOf(year, month, dd) = MonthStart(i) + dd - 1
  <2>1. ASSUME NEW y \in Int, NEW m \in Int, NEW d \in Int, NEW j \in Int,
               j = 12 * y + m - 1
        PROVE  DayOf(y, m, d) = MonthStart(j) + d - 1
    BY <2>1, DayOfIs
  <2>2. \A d, j \in Int : j = 12 * year + month - 1 => DayOf(year, month, d) = MonthStart(j) + d - 1
    BY <1>8, <2>1
  <2>3. i \in Int /\ i = 12 * year + month - 1
    BY <1>8
  <2>4. DayOf(year, month, dd) = MonthStart(i) + dd - 1
    BY <1>7, <2>2, <2>3
  <2> QED
    BY <2>4
<1>10. DayOf(year, month, dd) = BillingDay(a.day, i)
  BY <1>6, <1>9 DEF BillingDay
<1> QED
  BY <1>1, <1>10

\* The estimate counts the units from the anchor's month, or year, to that of
\* from: fewer land in an earlier month.
LEMMA EstimateIs ==
    ASSUME NEW zone, Zoned(zone), NEW anchor \in Int, NEW from \in Int, NEW unit \in Units,
           NEW a, a = Date(zone, anchor), NEW f, f = Date(zone, from)
    PROVE  /\ EstimateSteps(anchor, zone, from, unit) \in Int
           /\ \A k \in Int : k < EstimateSteps(anchor, zone, from, unit)
                => MonthNo(a) + Stride(unit) * k < MonthNo(f)
<1>1. /\ a.year \in Int /\ a.month \in 1 .. 12 /\ MonthNo(a) = 12 * a.year + a.month - 1
      /\ f.year \in Int /\ f.month \in 1 .. 12 /\ MonthNo(f) = 12 * f.year + f.month - 1
  BY DateParts DEF MonthNo
<1>2. CASE unit = "yearly"
  <2>1. EstimateSteps(anchor, zone, from, unit) = f.year - a.year /\ Stride(unit) = 12
    BY <1>2 DEF EstimateSteps, Stride
  <2> QED
    BY <1>1, <2>1
<1>3. CASE unit # "yearly"
  <2>1. EstimateSteps(anchor, zone, from, unit) = (f.year - a.year) * 12 + (f.month - a.month)
        /\ Stride(unit) = 1
    BY <1>3 DEF EstimateSteps, Stride
  <2> QED
    BY <1>1, <2>1
<1> QED
  BY <1>2, <1>3

\* The boundary, by the local time it is meant for.
LEMMA BoundaryIs ==
    ASSUME NEW zone, Zoned(zone), NEW anchor \in Int, NEW k \in Int, NEW unit \in Units,
           NEW a, a = Date(zone, anchor), NEW i, i = MonthNo(a) + Stride(unit) * k,
           NEW l, l = BillingDay(a.day, i) * TicksPerDay + Clock(zone, anchor),
           NEW t, t = AddCycles(anchor, zone, k, unit)
    PROVE  /\ i \in Int /\ l \in Int /\ t \in Int
           /\ l \div TicksPerDay = BillingDay(a.day, i) /\ l % TicksPerDay = Clock(zone, anchor)
           /\ MonthAt(l) = i + 1
           /\ \/ Local(zone, t) = l
              \/ /\ l \in Skipped(zone) /\ t = l - zone.reading
                 /\ l - zone.before >= zone.at /\ l - zone.after < zone.at
<1>1. MonthNo(a) \in Int /\ a.day \in Nat \ {0}
  BY DateParts
<1>2. i \in Int
  <2>1. Stride(unit) \in Int
    BY DEF Stride
  <2>2. Stride(unit) * k \in Int
    BY <2>1
  <2> QED
    BY <1>1, <2>2
<1> DEFINE b == BillingDay(a.day, i)
           c == Clock(zone, anchor)
<1>3. b \in Int /\ MonthNo(DateOf(b)) = i
  BY <1>1, <1>2, BillingDayIs
<1>4. c \in 0 .. TicksPerDay - 1
  <2>1. Local(zone, anchor) \in Int
    BY LocalIs
  <2> QED
    BY <2>1, LocalDay DEF Clock
<1>5. t = Instant(zone, b, c)
  BY AddCyclesIs
<1>6. l = b * TicksPerDay + c
  OBVIOUS
<1> HIDE DEF b, c
<1>7. b * TicksPerDay \in Int /\ c \in Int
  BY <1>3, <1>4, TicksPerDayAssumption
<1>8. l \in Int
  BY <1>6, <1>7
<1>9. l \div TicksPerDay = b /\ l % TicksPerDay = c
  BY <1>3, <1>4, <1>6, <1>8, DayAndClock
<1>10. MonthAt(l) = i + 1
  BY <1>3, <1>8, <1>9, MonthAtIs
<1>11. /\ t \in Int
       /\ \/ Local(zone, t) = l
          \/ /\ l \in Skipped(zone) /\ t = l - zone.reading
             /\ l - zone.before >= zone.at /\ l - zone.after < zone.at
  BY <1>3, <1>5, <1>6, <1>7, <1>8, InstantIs
<1> QED
  BY <1>2, <1>8, <1>9, <1>10, <1>11 DEF b, c

\* In such a zone later instants are in no earlier month.
LEMMA InstantsRise ==
    ASSUME NEW zone, Zoned(zone), KeepsMonths(zone),
           NEW t \in Int, NEW u \in Int, t <= u
    PROVE  MonthAt(Local(zone, t)) <= MonthAt(Local(zone, u))
<1>1. zone.at \in Int /\ zone.before \in Int /\ zone.after \in Int
  BY DEF Zoned
<1>2. /\ Local(zone, t) \in Int
      /\ t < zone.at => Local(zone, t) = t + zone.before
      /\ t >= zone.at => Local(zone, t) = t + zone.after
  BY LocalIs
<1>3. /\ Local(zone, u) \in Int
      /\ u < zone.at => Local(zone, u) = u + zone.before
      /\ u >= zone.at => Local(zone, u) = u + zone.after
  BY LocalIs
<1> DEFINE l == Local(zone, t)
           m == Local(zone, u)
<1>4. CASE l <= m
  BY <1>2, <1>3, <1>4, MonthsRise
<1>5. CASE ~(l <= m)
  <2>1. t < zone.at /\ zone.at <= u /\ l = t + zone.before /\ m = u + zone.after
    BY <1>1, <1>2, <1>3, <1>5
  <2> DEFINE p == zone.at - 1 + zone.before
             q == zone.at + zone.after
  <2>2. p \in Int /\ q \in Int /\ l <= p /\ q <= m /\ l \in Int /\ m \in Int
    BY <1>1, <1>2, <1>3, <2>1
  <2>3. MonthAt(p) <= MonthAt(q)
    BY DEF KeepsMonths
  <2> HIDE DEF l, m, p, q
  <2>4. MonthAt(l) <= MonthAt(p)
    BY <2>2, MonthsRise
  <2>5. MonthAt(q) <= MonthAt(m)
    BY <2>2, MonthsRise
  <2>6. MonthAt(l) \in Int
    BY <2>2, MonthAtIs
  <2>7. MonthAt(m) \in Int
    BY <2>2, MonthAtIs
  <2>8. MonthAt(p) \in Int
    BY <2>2, MonthAtIs
  <2>9. MonthAt(q) \in Int
    BY <2>2, MonthAtIs
  <2> QED
    BY <2>3, <2>4, <2>5, <2>6, <2>7, <2>8, <2>9 DEF l, m
<1> QED
  BY <1>4, <1>5

\* A boundary falls in no later month than the local time it is meant for.
LEMMA BoundaryKeepsMonth ==
    ASSUME NEW zone, Zoned(zone), KeepsMonths(zone), NEW l \in Int, NEW t \in Int,
           \/ Local(zone, t) = l
           \/ /\ l \in Skipped(zone) /\ t = l - zone.reading
              /\ l - zone.before >= zone.at /\ l - zone.after < zone.at
    PROVE  MonthAt(Local(zone, t)) <= MonthAt(l)
<1>1. zone.at \in Int /\ zone.before \in Int /\ zone.after \in Int
      /\ zone.reading \in {zone.before, zone.after}
  BY DEF Zoned
<1>2. /\ Local(zone, t) \in Int
      /\ t < zone.at => Local(zone, t) = t + zone.before
      /\ t >= zone.at => Local(zone, t) = t + zone.after
  BY LocalIs
<1>3. MonthAt(l) \in Int
  BY MonthAtIs
<1>4. CASE Local(zone, t) = l
  BY <1>3, <1>4
<1>5. CASE /\ l \in Skipped(zone) /\ t = l - zone.reading
           /\ l - zone.before >= zone.at /\ l - zone.after < zone.at
  <2>1. CASE zone.reading = zone.before
    <3>1. Local(zone, t) = l - zone.before + zone.after
      BY <1>1, <1>2, <1>5, <2>1
    <3>2. MonthAt(l - zone.before + zone.after) = MonthAt(l)
      BY <1>5 DEF KeepsMonths
    <3> QED
      BY <1>3, <3>1, <3>2
  <2>2. CASE zone.reading = zone.after
    <3>1. Local(zone, t) <= l
      BY <1>1, <1>2, <1>5, <2>2
    <3> QED
      BY <1>2, <3>1, MonthsRise
  <2> QED
    BY <1>1, <2>1, <2>2
<1> QED
  BY <1>4, <1>5

\* The walk passes over no boundary: one before the estimate is not after from.
LEMMA BeforeEstimate ==
    ASSUME NEW zone, Zoned(zone), KeepsMonths(zone),
           NEW anchor \in Int, NEW from \in Int, NEW unit \in Units,
           NEW k \in Int, k < EstimateSteps(anchor, zone, from, unit)
    PROVE  AddCycles(anchor, zone, k, unit) <= from
<1> DEFINE a == Date(zone, anchor)
           f == Date(zone, from)
           i == MonthNo(a) + Stride(unit) * k
           l == BillingDay(a.day, i) * TicksPerDay + Clock(zone, anchor)
           t == AddCycles(anchor, zone, k, unit)
<1>1. MonthAt(Local(zone, from)) = MonthNo(f) + 1
  BY DateParts
<1>2. MonthNo(f) \in Int
  BY DateParts
<1>3. \A n \in Int : n < EstimateSteps(anchor, zone, from, unit)
                => MonthNo(a) + Stride(unit) * n < MonthNo(f)
  BY EstimateIs
<1>4. i < MonthNo(f)
  BY <1>3
<1>5. /\ i \in Int /\ l \in Int /\ t \in Int
      /\ MonthAt(l) = i + 1
      /\ \/ Local(zone, t) = l
         \/ /\ l \in Skipped(zone) /\ t = l - zone.reading
            /\ l - zone.before >= zone.at /\ l - zone.after < zone.at
  BY BoundaryIs
<1> HIDE DEF a, f, i, l, t
<1>6. MonthAt(Local(zone, t)) <= MonthAt(l)
  BY <1>5, BoundaryKeepsMonth
<1>7. from <= t => MonthAt(Local(zone, from)) <= MonthAt(Local(zone, t))
  BY <1>5, InstantsRise
<1>8. Local(zone, t) \in Int
  BY <1>5, LocalIs
<1>9. MonthAt(Local(zone, t)) \in Int
  BY <1>8, MonthAtIs
<1> QED
  BY <1>1, <1>2, <1>4, <1>5, <1>6, <1>7, <1>9 DEF t

LEMMA DaysInOrder ==
    ASSUME NEW l \in Int, l >= 0
    PROVE  l <= l * TicksPerDay
<1>1. l * (TicksPerDay - 1) >= 0
  BY TicksPerDayAssumption, SMT
<1>2. l * TicksPerDay = l * (TicksPerDay - 1) + l
  BY TicksPerDayAssumption, SMT
<1>3. l * (TicksPerDay - 1) \in Int
  BY TicksPerDayAssumption
<1> QED
  BY <1>1, <1>2, <1>3

\* The boundaries run past every instant, so that the walk comes to an end.
LEMMA BoundariesGoOn ==
    ASSUME NEW zone, Zoned(zone), NEW anchor \in Int, NEW from \in Int, NEW unit \in Units,
           NEW e \in Int
    PROVE  \E k \in Int : k >= e /\ AddCycles(anchor, zone, k, unit) > from
<1> DEFINE a == Date(zone, anchor)
           m == MonthNo(a)
           first == MonthStart(m)
           Size(n) == IF n < 0 THEN -n ELSE n
           k == Size(e) + Size(from) + Size(zone.before) + Size(zone.after) + Size(first) + 1
           i == m + Stride(unit) * k
           l == BillingDay(a.day, i) * TicksPerDay + Clock(zone, anchor)
           t == AddCycles(anchor, zone, k, unit)
<1>1. m \in Int /\ a.day \in Nat \ {0}
  BY DateParts
<1>2. first \in Int
  BY <1>1, MonthStartInt
<1>3. zone.at \in Int /\ zone.before \in Int /\ zone.after \in Int
      /\ zone.reading \in {zone.before, zone.after}
  BY DEF Zoned
<1> HIDE DEF first
<1>4. k \in Nat /\ k >= e /\ k > from + Size(zone.before) + Size(zone.after) + Size(first)
  BY <1>2, <1>3
<1> HIDE DEF k
<1>5. Stride(unit) * k >= k /\ Stride(unit) * k \in Int
  BY <1>4 DEF Stride
<1>6. k \in Int
  BY <1>4
<1>7. /\ i \in Int /\ l \in Int /\ t \in Int
      /\ l \div TicksPerDay = BillingDay(a.day, i) /\ l % TicksPerDay = Clock(zone, anchor)
      /\ \/ Local(zone, t) = l
         \/ /\ l \in Skipped(zone) /\ t = l - zone.reading
            /\ l - zone.before >= zone.at /\ l - zone.after < zone.at
  BY <1>6, BoundaryIs
<1>8. i >= m + k
  BY <1>1, <1>4, <1>5
<1> DEFINE b == BillingDay(a.day, i)
           c == Clock(zone, anchor)
<1>9. b \in Int /\ MonthStart(i) <= b
  BY <1>1, <1>7, BillingDayIs
<1>10. c \in Int /\ c >= 0
  <2>1. c \in 0 .. TicksPerDay - 1
    BY <1>7, LocalDay
  <2> QED
    BY <2>1
<1>11. l = b * TicksPerDay + c
  OBVIOUS
<1> HIDE DEF a, m, i, l, t, b, c
<1>12. MonthStart(i) >= first + 28 * (i - m)
  <2>1. m <= i
    BY <1>1, <1>4, <1>7, <1>8
  <2> QED
    BY <1>1, <1>7, <2>1, MonthsApart DEF first
<1>13. MonthStart(i) \in Int
  BY <1>7, MonthStartInt
<1>14. b >= first + k
  BY <1>1, <1>2, <1>4, <1>7, <1>8, <1>9, <1>12, <1>13
<1>15. b >= 0 /\ b > from + Size(zone.before) + Size(zone.after)
  <2>1. first + Size(first) >= 0
    BY <1>2
  <2>2. k >= Size(first)
    BY <1>2, <1>3, <1>4 DEF k
  <2> QED
    BY <1>2, <1>3, <1>4, <1>9, <1>14, <2>1, <2>2
<1>16. b <= b * TicksPerDay
  BY <1>9, <1>15, DaysInOrder
<1>17. b * TicksPerDay \in Int
  BY <1>9, TicksPerDayAssumption
<1>18. l > from + Size(zone.before) + Size(zone.after)
  BY <1>3, <1>9, <1>10, <1>11, <1>15, <1>16, <1>17
<1>19. t >= l - Size(zone.before) - Size(zone.after)
  <2>1. /\ t < zone.at => Local(zone, t) = t + zone.before
        /\ t >= zone.at => Local(zone, t) = t + zone.after
    BY <1>7, LocalIs
  <2> QED
    BY <1>3, <1>7, <2>1
<1>20. t > from
  BY <1>3, <1>7, <1>18, <1>19
<1> QED
  BY <1>4, <1>6, <1>20 DEF t

\* The least of the integers from a start on that are in a set.
LEMMA LeastFrom ==
    ASSUME NEW X \in SUBSET Int, NEW e \in Int, \E k \in X : k >= e
    PROVE  \E k \in X : k >= e /\ \A j \in X : j >= e => k <= j
<1> DEFINE S == {n \in Nat : e + n \in X}
<1>1. S \in SUBSET Nat
  OBVIOUS
<1>2. S # {}
  <2>1. PICK k \in X : k >= e
    OBVIOUS
  <2>2. k - e \in Nat /\ e + (k - e) = k
    BY <2>1
  <2> QED
    BY <2>1, <2>2
<1> HIDE DEF S
<1>3. PICK n \in S : \A k \in S : n <= k
  BY <1>1, <1>2, LeastNatural
<1>4. n \in Nat /\ e + n \in X
  BY <1>3 DEF S
<1>5. ASSUME NEW j \in X, j >= e PROVE e + n <= j
  <2>1. j - e \in Nat /\ e + (j - e) = j
    BY <1>5
  <2>2. j - e \in S
    BY <1>5, <2>1 DEF S
  <2>3. n <= j - e
    BY <1>3, <2>2
  <2> QED
    BY <1>4, <2>1, <2>3
<1>6. e + n \in X /\ e + n >= e
  BY <1>4
<1> QED
  BY <1>5, <1>6

\* StepAfter's walk stops at the first step from where it starts whose boundary
\* is after from: such a function exists, and all of them agree.
LEMMA WalkIs ==
    ASSUME NEW zone, Zoned(zone), NEW anchor \in Int, NEW from \in Int, NEW unit \in Units,
           NEW s, s = StepAfter(anchor, zone, from, unit),
           NEW e \in Int, e = EstimateSteps(anchor, zone, from, unit)
    PROVE  /\ s \in Int /\ s >= e
           /\ AddCycles(anchor, zone, s, unit) > from
           /\ \A k \in Int : k >= e /\ k < s => ~(AddCycles(anchor, zone, k, unit) > from)
<1> DEFINE After == {k \in Int : AddCycles(anchor, zone, k, unit) > from}
           Stop(w) == w = [k \in Int |-> IF AddCycles(anchor, zone, k, unit) > from
                                         THEN k ELSE w[k + 1]]
           walk == CHOOSE w : Stop(w)
           Least(k) == CHOOSE n \in After : n >= k /\ \A j \in After : j >= k => n <= j
           f == [k \in Int |-> Least(k)]
<1>1. s = walk[e]
  BY DEF StepAfter
<1>2. ASSUME NEW k \in Int
      PROVE  Least(k) \in After /\ Least(k) >= k /\ \A j \in After : j >= k => Least(k) <= j
  <2>1. \E n \in After : n >= k
    BY BoundariesGoOn
  <2>2. After \in SUBSET Int
    OBVIOUS
  <2> HIDE DEF After
  <2>3. \E n \in After : n >= k /\ \A j \in After : j >= k => n <= j
    BY <2>1, <2>2, LeastFrom
  <2> QED
    BY <2>3
<1>3. After \subseteq Int
  OBVIOUS
<1>4. \A k \in Int : k \in After <=> AddCycles(anchor, zone, k, unit) > from
  OBVIOUS
<1> HIDE DEF Least
<1>5. ASSUME NEW k \in Int PROVE f[k] = IF k \in After THEN k ELSE f[k + 1]
  <2>1. f[k] = Least(k) /\ f[k + 1] = Least(k + 1) /\ k + 1 \in Int
    OBVIOUS
  <2>2. Least(k) \in After /\ Least(k) >= k /\ \A j \in After : j >= k => Least(k) <= j
    BY <1>2
  <2>3. /\ Least(k + 1) \in After /\ Least(k + 1) >= k + 1
        /\ \A j \in After : j >= k + 1 => Least(k + 1) <= j
    BY <1>2, <2>1
  <2> HIDE DEF After, f
  <2>4. CASE k \in After
    <3>1. Least(k) <= k
      BY <2>2, <2>4
    <3>2. Least(k) \in Int
      BY <1>3, <2>2
    <3>3. Least(k) = k
      BY <2>2, <3>1, <3>2
    <3> QED
      BY <2>1, <2>4, <3>3
  <2>5. CASE k \notin After
    <3>1. Least(k) \in Int /\ Least(k + 1) \in Int
      BY <1>3, <2>2, <2>3
    <3>2. Least(k) # k
      BY <2>2, <2>5
    <3>3. Least(k) >= k + 1 /\ Least(k + 1) >= k
      BY <2>2, <2>3, <3>1, <3>2
    <3>4. Least(k + 1) <= Least(k) /\ Least(k) <= Least(k + 1)
      BY <2>2, <2>3, <3>3
    <3> QED
      BY <2>1, <2>5, <3>1, <3>4
  <2> QED
    BY <2>4, <2>5
<1>6. Stop(f)
  <2>1. \A k \in Int : f[k] = IF AddCycles(anchor, zone, k, unit) > from THEN k ELSE f[k + 1]
    BY <1>4, <1>5
  <2>2. f = [k \in Int |-> f[k]]
    OBVIOUS
  <2> HIDE DEF f, After
  <2> QED
    BY <2>1, <2>2
<1>7. Stop(walk)
  BY <1>6
<1>8. \A k \in Int : walk[k] = IF k \in After THEN k ELSE walk[k + 1]
  <2> HIDE DEF walk
  <2>1. walk = [k \in Int |-> IF AddCycles(anchor, zone, k, unit) > from
                                         THEN k ELSE walk[k + 1]]
    BY <1>7
  <2> QED
    BY <1>4, <2>1
<1>9. Least(e) \in After /\ Least(e) >= e /\ \A j \in After : j >= e => Least(e) <= j
  BY <1>2
<1> HIDE DEF walk, After, Stop, f
<1>10. walk[e] = Least(e)
  <2> DEFINE n == Least(e) - e
             X == {k \in 0 .. n : walk[e] = walk[e + k]}
  <2> DEFINE m == Least(e)
  <2>1. m \in Int /\ m >= e
    BY <1>3, <1>9
  <2>2. n = m - e
    OBVIOUS
  <2> HIDE DEF m, n
  <2>3. n \in Nat /\ e + n = m
    BY <2>1, <2>2
  <2>4. n \in Nat /\ e + n = Least(e) /\ Least(e) \in Int
    BY <2>1, <2>3 DEF m
  <2> HIDE DEF n
  <2>5. 0 \in X
    BY <2>4
  <2>6. ASSUME NEW k \in 0 .. n, k < n, k \in X PROVE k + 1 \in X
    <3>1. k \in Int /\ e + k \in Int /\ (e + k) + 1 = e + (k + 1) /\ k + 1 \in 0 .. n
          /\ e + k >= e /\ e + k < Least(e)
      BY <2>4, <2>6
    <3>2. e + k \notin After
      BY <1>9, <2>4, <3>1
    <3>3. walk[e + k] = walk[(e + k) + 1]
      BY <1>8, <3>1, <3>2
    <3> QED
      BY <2>6, <3>1, <3>3
  <2> HIDE DEF X
  <2>7. 0 .. n \subseteq X
    BY <2>4, <2>5, <2>6, UpTo
  <2>8. n \in X
    BY <2>4, <2>7
  <2>9. walk[e] = walk[Least(e)]
    BY <2>4, <2>8 DEF X
  <2>10. walk[Least(e)] = Least(e)
    BY <1>8, <1>9, <2>4
  <2> QED
    BY <2>9, <2>10
<1>11. s \in After /\ s \in Int /\ s >= e /\ \A j \in After : j >= e => s <= j
  BY <1>1, <1>3, <1>9, <1>10
<1> QED
  BY <1>4, <1>11

\* NextBoundary is the first boundary after from, counted from the anchor, with
\* none before it that is.
LEMMA NextIs ==
    ASSUME NEW zone, Zoned(zone), KeepsMonths(zone),
           NEW anchor \in Int, NEW from \in Int, NEW unit \in Units
    PROVE  \E s \in Int :
              /\ NextBoundary(anchor, zone, from, unit) = AddCycles(anchor, zone, s, unit)
              /\ AddCycles(anchor, zone, s, unit) > from
              /\ \A k \in Int : k < s => AddCycles(anchor, zone, k, unit) <= from
<1> DEFINE e == EstimateSteps(anchor, zone, from, unit)
           s == StepAfter(anchor, zone, from, unit)
<1>1. e \in Int
  BY EstimateIs
<1>2. /\ s \in Int /\ s >= e
      /\ AddCycles(anchor, zone, s, unit) > from
      /\ \A k \in Int : k >= e /\ k < s => ~(AddCycles(anchor, zone, k, unit) > from)
  BY <1>1, WalkIs
<1>3. NextBoundary(anchor, zone, from, unit) = AddCycles(anchor, zone, s, unit)
  BY DEF NextBoundary
<1>4. \A k \in Int : k < e => AddCycles(anchor, zone, k, unit) <= from
  BY BeforeEstimate
<1> HIDE DEF e, s
<1>5. ASSUME NEW k \in Int, k < s PROVE AddCycles(anchor, zone, k, unit) <= from
  <2>1. CASE k < e
    BY <1>4, <2>1
  <2>2. CASE ~(k < e)
    <3>1. ~(AddCycles(anchor, zone, k, unit) > from)
      BY <1>1, <1>2, <1>5, <2>2
    <3>2. AddCycles(anchor, zone, k, unit) \in Int
      BY BoundaryIs
    <3> QED
      BY <3>1, <3>2
  <2> QED
    BY <2>1, <2>2
<1> QED
  BY <1>2, <1>3, <1>5

-----------------------------------------------------------------------------
(***************************************************************************)
(* A cycle over time.                                                      *)
(***************************************************************************)
LEMMA CycleIs ==
    ASSUME NEW c \in Cycles
    PROVE  Zoned(c.zone) /\ c.anchor \in Int /\ c.from \in Int /\ c.unit \in Units
  BY CyclesAssumption DEF Zoned

\* What is shown is what the operators answer at that instant.
Inv == /\ cycle \in Cycles
       /\ now \in Int
       /\ next = NextBoundary(cycle.anchor, cycle.zone, now, cycle.unit)
       /\ aligned = NextCalendarBoundary(cycle.zone, now, cycle.unit)

\* Time passes by whole ticks, and both boundaries are asked for again.
THEOREM Answered == Spec => []Inv
<1>1. Init => Inv
  BY CycleIs DEF Init, Inv
<1>2. Inv /\ [Tick]_vars => Inv'
  BY DEF Inv, Tick, vars
<1> QED
  BY <1>1, <1>2, PTL DEF Spec

\* civilDay gives every date, of every year and era, the number of its day.
THEOREM CivilDaysCount == Spec => []DatesAreNumberedInTurn
<1>1. Inv => DatesAreNumberedInTurn
  <2> SUFFICES ASSUME Inv PROVE DatesAreNumberedInTurn
    OBVIOUS
  <2> DEFINE day == Local(cycle.zone, now) \div TicksPerDay
  <2>1. Zoned(cycle.zone) /\ now \in Int
    BY CycleIs DEF Inv
  <2>2. Local(cycle.zone, now) \in Int
    BY <2>1, LocalIs
  <2>3. day \in Int
    BY <2>2, LocalDay
  <2>4. CivilDay(cycle.zone, now) = day
    BY <2>3, Numbered
  <2> QED
    BY <2>4 DEF DatesAreNumberedInTurn
<1> QED
  BY <1>1, Answered, PTL

\* The next boundary stays the next one until time reaches it: of the steps from
\* the anchor, the first whose boundary is after an instant is the first after
\* the instant that follows too, unless that is the boundary itself.
THEOREM CyclesInTurn == Spec => NoCycleIsPassedOver
<1>1. Inv /\ [Tick]_vars => [KeepsMonths(cycle.zone) => (next' # next <=> now' = next)]_vars
  <2> SUFFICES ASSUME Inv, Tick, KeepsMonths(cycle.zone)
               PROVE  next' # next <=> now' = next
    BY DEF vars
  <2> DEFINE z == cycle.zone
             u == cycle.unit
             B(k) == AddCycles(cycle.anchor, z, k, u)
             n == now'
  <2>1. /\ Zoned(z) /\ cycle.anchor \in Int /\ u \in Units /\ KeepsMonths(z)
        /\ now \in Int /\ n \in Int /\ n = now + 1
        /\ next = NextBoundary(cycle.anchor, z, now, u)
        /\ next' = NextBoundary(cycle.anchor, z, n, u)
    BY CycleIs DEF Inv, Tick
  <2> HIDE DEF z, u, n
  <2>2. PICK s \in Int : /\ next = B(s) /\ B(s) > now
                         /\ \A k \in Int : k < s => B(k) <= now
    BY <2>1, NextIs
  <2>3. PICK r \in Int : /\ next' = B(r) /\ B(r) > n
                         /\ \A k \in Int : k < r => B(k) <= n
    BY <2>1, NextIs
  <2>4. B(s) \in Int /\ B(r) \in Int
    BY <2>1, BoundaryIs
  <2> HIDE DEF B
  <2>5. CASE next = n
    BY <2>1, <2>3, <2>4, <2>5 DEF n
  <2>6. CASE next # n
    <3>1. B(s) > n
      BY <2>1, <2>2, <2>4, <2>6
    <3>2. ~(s < r)
      BY <2>1, <2>3, <2>4, <3>1
    <3>3. ~(r < s)
      BY <2>1, <2>2, <2>3, <2>4
    <3>4. r = s
      BY <3>2, <3>3
    <3> QED
      BY <2>2, <2>3, <2>6, <3>4 DEF n
  <2> QED
    BY <2>5, <2>6
<1> QED
  BY <1>1, Answered, PTL DEF Spec, NoCycleIsPassedOver

-----------------------------------------------------------------------------
(***************************************************************************)
(* Zones of one offset.                                                    *)
(***************************************************************************)
LEMMA PlainLocal ==
    ASSUME NEW zone, Zoned(zone), zone.before = zone.after, NEW t \in Int
    PROVE  Local(zone, t) = t + zone.before /\ zone.before \in Int
  BY DEF Local, Offset, Zoned

LEMMA PlainKeepsMonths ==
    ASSUME NEW zone, Zoned(zone), zone.before = zone.after
    PROVE  KeepsMonths(zone)
<1> DEFINE p == zone.at - 1 + zone.before
           q == zone.at + zone.after
<1>1. /\ Skipped(zone) = {} /\ p \in Int /\ q \in Int /\ p <= q
  BY DEF Zoned, Skipped
<1>2. MonthAt(p) <= MonthAt(q)
  BY <1>1, MonthsRise
<1> QED
  BY <1>1, <1>2 DEF KeepsMonths

\* The boundaries are the anchor's clock on the billing days.
LEMMA PlainBoundary ==
    ASSUME NEW zone, Zoned(zone), zone.before = zone.after,
           NEW anchor \in Int, NEW k \in Int, NEW unit \in Units,
           NEW a, a = Date(zone, anchor), NEW i, i = MonthNo(a) + Stride(unit) * k,
           NEW t, t = AddCycles(anchor, zone, k, unit)
    PROVE  /\ t \in Int /\ i \in Int /\ a.day \in Nat \ {0}
           /\ Local(zone, t) \div TicksPerDay = BillingDay(a.day, i)
           /\ Clock(zone, t) = Clock(zone, anchor)
<1> DEFINE l == BillingDay(a.day, i) * TicksPerDay + Clock(zone, anchor)
<1>1. /\ i \in Int /\ l \in Int /\ t \in Int
      /\ l \div TicksPerDay = BillingDay(a.day, i) /\ l % TicksPerDay = Clock(zone, anchor)
      /\ \/ Local(zone, t) = l
         \/ /\ l \in Skipped(zone) /\ t = l - zone.reading
            /\ l - zone.before >= zone.at /\ l - zone.after < zone.at
  BY BoundaryIs
<1> HIDE DEF l
<1>2. Local(zone, t) = l
  <2>1. ~(l - zone.before >= zone.at /\ l - zone.after < zone.at)
    BY <1>1 DEF Zoned
  <2> QED
    BY <1>1, <2>1
<1>3. a.day \in Nat \ {0}
  BY DateParts
<1> QED
  BY <1>1, <1>2, <1>3 DEF Clock

\* A later billing day is in a later month.
LEMMA BillingDaysClimb ==
    ASSUME NEW d \in Nat \ {0}, NEW i \in Int, NEW j \in Int, i < j
    PROVE  BillingDay(d, i) < BillingDay(d, j)
<1>1. BillingDay(d, i) \in Int /\ BillingDay(d, i) < MonthStart(i + 1)
  BY BillingDayIs
<1>2. BillingDay(d, j) \in Int /\ MonthStart(j) <= BillingDay(d, j)
  BY BillingDayIs
<1>3. MonthStart(i + 1) <= MonthStart(j)
  BY MonthsClimb
<1>4. MonthStart(j) \in Int
  BY MonthStartInt
<1>5. i + 1 \in Int /\ MonthStart(i + 1) \in Int
  BY MonthStartInt
<1> QED
  BY <1>1, <1>2, <1>3, <1>4, <1>5

LEMMA PlainClimbs ==
    ASSUME NEW zone, Zoned(zone), zone.before = zone.after,
           NEW anchor \in Int, NEW unit \in Units, NEW j \in Int, NEW k \in Int, j < k
    PROVE  AddCycles(anchor, zone, j, unit) < AddCycles(anchor, zone, k, unit)
<1> DEFINE a == Date(zone, anchor)
           m == MonthNo(a) + Stride(unit) * j
           n == MonthNo(a) + Stride(unit) * k
           t == AddCycles(anchor, zone, j, unit)
           u == AddCycles(anchor, zone, k, unit)
<1>1. t \in Int /\ m \in Int /\ Local(zone, t) \div TicksPerDay = BillingDay(a.day, m)
  BY PlainBoundary
<1>2. u \in Int /\ n \in Int /\ Local(zone, u) \div TicksPerDay = BillingDay(a.day, n)
  BY PlainBoundary
<1>3. a.day \in Nat \ {0} /\ MonthNo(a) \in Int
  BY DateParts
<1> HIDE DEF a
<1>4. m < n
  BY <1>3 DEF Stride
<1> HIDE DEF m, n, t, u
<1>5. BillingDay(a.day, m) < BillingDay(a.day, n)
  BY <1>1, <1>2, <1>3, <1>4, BillingDaysClimb
<1>6. BillingDay(a.day, m) \in Int /\ BillingDay(a.day, n) \in Int
  BY <1>1, <1>2, <1>3, BillingDayIs
<1>7. ~(u <= t)
  <2> SUFFICES ASSUME u <= t PROVE FALSE
    OBVIOUS
  <2>1. Local(zone, u) = u + zone.before /\ zone.before \in Int
    BY <1>2, PlainLocal
  <2>2. Local(zone, t) = t + zone.before
    BY <1>1, PlainLocal
  <2>3. Local(zone, u) \in Int /\ Local(zone, t) \in Int /\ Local(zone, u) <= Local(zone, t)
    BY <1>1, <1>2, <2>1, <2>2
  <2>4. Local(zone, u) \div TicksPerDay <= Local(zone, t) \div TicksPerDay
    BY <2>3, DaysRise
  <2> QED
    BY <1>1, <1>2, <1>5, <1>6, <2>4
<1> QED
  BY <1>1, <1>2, <1>7 DEF t, u

\* The month-end rule: on the anchor's day, or on the last day of a month that
\* has no such day.
LEMMA OnBillingDay ==
    ASSUME NEW d \in Nat \ {0}, NEW day \in Int, NEW i, i = MonthNo(DateOf(day))
    PROVE  (DateOf(day).day = d \/ (DateOf(day).day < d /\ DateOf(day + 1).day = 1))
             <=> day = BillingDay(d, i)
<1> DEFINE e == day + 1
           j == MonthNo(DateOf(e))
           p == MonthStart(i)
           q == MonthStart(i + 1)
<1>1. i \in Int /\ p <= day /\ day < q /\ DateOf(day).day = day - p + 1
  BY DateIs
<1>2. p \in Int
  BY <1>1, MonthStartInt
<1>3. i + 1 \in Int /\ q \in Int
  BY <1>1, MonthStartInt
<1>4. q - p \in 28 .. 31
  BY <1>1, MonthsFollow
<1>5. BillingDay(d, i) = p + (IF d > q - p THEN q - p ELSE d) - 1
  BY DEF BillingDay, Length
<1>6. e \in Int /\ e = day + 1
  OBVIOUS
<1> HIDE DEF e
<1>7. DateOf(e).day = e - MonthStart(j) + 1
  BY <1>6, DateIs
<1> HIDE DEF p, q
<1>8. CASE e = q
  <2>1. j = i + 1
    <3>1. (i + 1) + 1 \in Int /\ MonthStart((i + 1) + 1) \in Int
      BY <1>3, MonthStartInt
    <3>2. MonthStart((i + 1) + 1) - q \in 28 .. 31
      BY <1>3, MonthsFollow DEF q
    <3>3. MonthStart(i + 1) <= e /\ e < MonthStart((i + 1) + 1)
      BY <1>3, <1>6, <1>8, <3>1, <3>2 DEF q
    <3> QED
      BY <1>3, <1>6, <3>3, MonthIs
  <2>2. MonthStart(j) = q
    BY <2>1 DEF q
  <2> HIDE DEF j
  <2>3. DateOf(e).day = 1
    BY <1>3, <1>6, <1>8, <1>7, <2>2
  <2> QED
    BY <1>1, <1>2, <1>3, <1>4, <1>5, <1>6, <1>8, <2>3
<1>9. CASE e # q
  <2>1. MonthStart(i) <= e /\ e < MonthStart(i + 1)
    BY <1>1, <1>2, <1>3, <1>6, <1>9 DEF p, q
  <2>2. j = i
    BY <1>1, <1>6, <2>1, MonthIs
  <2>3. MonthStart(j) = p
    BY <2>2 DEF p
  <2> HIDE DEF j
  <2>4. DateOf(e).day # 1
    BY <1>1, <1>2, <1>6, <1>7, <2>3
  <2> QED
    BY <1>1, <1>2, <1>3, <1>4, <1>5, <1>6, <1>9, <2>4
<1> QED
  BY <1>6, <1>8, <1>9

LEMMA Tomorrow ==
    ASSUME NEW l \in Int
    PROVE  (l + TicksPerDay) \div TicksPerDay = (l \div TicksPerDay) + 1
<1> DEFINE day == l \div TicksPerDay
           c == l % TicksPerDay
           n == day + 1
           m == l + TicksPerDay
<1>1. day \in Int /\ c \in 0 .. TicksPerDay - 1 /\ l = TicksPerDay * day + c
  BY LocalDay
<1> HIDE DEF day, c
<1>2. n \in Int /\ m \in Int
  BY <1>1, TicksPerDayAssumption
<1>3. m = n * TicksPerDay + c
  <2>1. n * TicksPerDay = TicksPerDay * day + TicksPerDay
    BY <1>1, TicksPerDayAssumption, SMT
  <2>2. TicksPerDay * day \in Int /\ c \in Int /\ TicksPerDay \in Int
    BY <1>1, TicksPerDayAssumption
  <2> HIDE DEF n
  <2> QED
    BY <1>1, <2>1, <2>2
<1> HIDE DEF n, m
<1>4. m \div TicksPerDay = n
  BY <1>1, <1>2, <1>3, DayAndClock
<1> QED
  BY <1>4 DEF m, n, day

\* The steps from the anchor reach every month there is, or every month of the
\* anchor's name.
LEMMA StepsReach ==
    ASSUME NEW a, NEW d, NEW unit \in Units,
           a.year \in Int, a.month \in 1 .. 12, d.year \in Int, d.month \in 1 .. 12
    PROVE  (\E k \in Int : MonthNo(d) = MonthNo(a) + Stride(unit) * k)
             <=> (unit = "yearly" => d.month = a.month)
<1>1. CASE unit = "yearly"
  <2>1. ASSUME d.month = a.month
        PROVE  \E k \in Int : MonthNo(d) = MonthNo(a) + Stride(unit) * k
    <3>1. MonthNo(d) = MonthNo(a) + 12 * (d.year - a.year) /\ d.year - a.year \in Int
      BY <2>1 DEF MonthNo
    <3> QED
      BY <1>1, <3>1 DEF Stride
  <2>2. ASSUME NEW k \in Int, MonthNo(d) = MonthNo(a) + Stride(unit) * k
        PROVE  d.month = a.month
    <3>1. 12 * d.year + d.month - 1 = 12 * a.year + a.month - 1 + 12 * k
      BY <1>1, <2>2 DEF MonthNo, Stride
    <3> QED
      BY <3>1
  <2> QED
    BY <1>1, <2>1, <2>2
<1>2. CASE unit # "yearly"
  <2>1. MonthNo(d) - MonthNo(a) \in Int
        /\ MonthNo(d) = MonthNo(a) + 1 * (MonthNo(d) - MonthNo(a))
    BY DEF MonthNo
  <2>2. Stride(unit) = 1
    BY <1>2 DEF Stride
  <2> QED
    BY <1>2, <2>1, <2>2
<1> QED
  BY <1>1, <1>2

\* In a zone of one offset the anniversaries are the boundaries.
LEMMA AnniversaryIs ==
    ASSUME Inv, cycle.zone.before = cycle.zone.after, NEW t \in Int
    PROVE  IsAnniversary(t)
             <=> \E k \in Int : t = AddCycles(cycle.anchor, cycle.zone, k, cycle.unit)
<1> DEFINE z == cycle.zone
           anchor == cycle.anchor
           unit == cycle.unit
           a == Date(z, anchor)
           d == Date(z, t)
           l == Local(z, t)
           day == l \div TicksPerDay
           tomorrow == Date(z, t + TicksPerDay)
           i == MonthNo(d)
           At(k) == MonthNo(a) + Stride(unit) * k
           B(k) == AddCycles(anchor, z, k, unit)
<1>1. Zoned(z) /\ anchor \in Int /\ unit \in Units /\ z.before = z.after
  BY CycleIs DEF Inv
<1>2. IsAnniversary(t) <=> /\ Clock(z, t) = Clock(z, anchor)
                           /\ d.day = a.day \/ (d.day < a.day /\ tomorrow.day = 1)
                           /\ unit = "yearly" => d.month = a.month
  BY DEF IsAnniversary
<1> HIDE DEF z, anchor, unit
<1>3. l = t + z.before /\ z.before \in Int
  BY <1>1, PlainLocal
<1>4. l \in Int
  BY <1>3
<1>5. d = DateOf(day)
  BY DEF Date
<1>6. tomorrow = DateOf(day + 1)
  <2>1. t + TicksPerDay \in Int
    BY TicksPerDayAssumption
  <2>2. Local(z, t + TicksPerDay) = t + TicksPerDay + z.before
    BY <1>1, <2>1, PlainLocal
  <2>3. Local(z, t + TicksPerDay) = l + TicksPerDay
    BY <1>3, <2>2, TicksPerDayAssumption
  <2>4. (l + TicksPerDay) \div TicksPerDay = day + 1
    BY <1>4, Tomorrow
  <2> QED
    BY <2>3, <2>4 DEF Date
<1>7. /\ a.day \in Nat \ {0} /\ a.year \in Int /\ a.month \in 1 .. 12
      /\ d.year \in Int /\ d.month \in 1 .. 12
  BY <1>1, DateParts
<1>8. day \in Int
  BY <1>4, LocalDay
<1>9. ASSUME NEW k \in Int
      PROVE  /\ B(k) \in Int /\ At(k) \in Int
             /\ Local(z, B(k)) \div TicksPerDay = BillingDay(a.day, At(k))
             /\ Clock(z, B(k)) = Clock(z, anchor)
  BY <1>1, PlainBoundary
<1>10. i \in Int /\ MonthNo(a) \in Int
  BY <1>1, DateParts
<1>11. (\E k \in Int : i = At(k)) <=> (unit = "yearly" => d.month = a.month)
  BY <1>1, <1>7, StepsReach
<1> HIDE DEF a, d, tomorrow, B, At
<1>12. (d.day = a.day \/ (d.day < a.day /\ tomorrow.day = 1)) <=> day = BillingDay(a.day, i)
  BY <1>5, <1>6, <1>7, <1>8, OnBillingDay
<1>13. IsAnniversary(t) <=> /\ Clock(z, t) = Clock(z, anchor)
                            /\ day = BillingDay(a.day, i)
                            /\ \E k \in Int : i = At(k)
  BY <1>2, <1>11, <1>12
<1>14. ASSUME NEW k \in Int, i = At(k), day = BillingDay(a.day, i),
              Clock(z, t) = Clock(z, anchor)
       PROVE  t = B(k)
  <2> DEFINE m == Local(z, B(k))
             c == Clock(z, t)
  <2>1. B(k) \in Int /\ m \div TicksPerDay = day /\ m % TicksPerDay = c
    BY <1>9, <1>14 DEF Clock
  <2>2. m = B(k) + z.before
    BY <1>1, <2>1, PlainLocal
  <2>3. l % TicksPerDay = c
    BY DEF Clock
  <2> HIDE DEF m, c
  <2>4. m \in Int
    BY <1>3, <2>1, <2>2
  <2>5. m = TicksPerDay * day + c
    BY <2>1, <2>4, LocalDay
  <2>6. l = TicksPerDay * day + c
    BY <1>4, <2>3, LocalDay
  <2>7. l = m
    BY <2>5, <2>6
  <2>8. B(k) \in Int
    BY <2>1
  <2>9. t + z.before = B(k) + z.before
    BY <1>3, <2>2, <2>7
  <2> DEFINE u == B(k)
             o == z.before
  <2>10. u \in Int /\ o \in Int /\ t + o = u + o
    BY <1>3, <2>8, <2>9
  <2> HIDE DEF u, o
  <2>11. t = u
    BY <2>10
  <2> QED
    BY <2>11 DEF u
<1>15. ASSUME NEW k \in Int, t = B(k)
       PROVE  /\ i = At(k) /\ day = BillingDay(a.day, i)
              /\ Clock(z, t) = Clock(z, anchor)
  <2>1. day = BillingDay(a.day, At(k)) /\ Clock(z, t) = Clock(z, anchor) /\ At(k) \in Int
    BY <1>9, <1>15
  <2>2. MonthNo(DateOf(BillingDay(a.day, At(k)))) = At(k)
    BY <1>7, <2>1, BillingDayIs
  <2> QED
    BY <1>5, <2>1, <2>2
<1>16. (\E k \in Int : t = B(k))
         <=> /\ Clock(z, t) = Clock(z, anchor)
             /\ day = BillingDay(a.day, i)
             /\ \E k \in Int : i = At(k)
  <2> HIDE DEF l, day, i
  <2> QED
    BY <1>14, <1>15
<1> QED
  BY <1>13, <1>16 DEF B, z, anchor, unit

\* In a zone of one offset the boundaries met as time passes are the
\* anniversaries of the anchor, all of them and nothing else: the steps from
\* the anchor make the billing days in turn, and the walk skips none.
THEOREM AnniversariesOnly == Spec => BoundariesAreAnniversaries
<1>1. Inv /\ [Tick]_vars =>
        [cycle.zone.before = cycle.zone.after => (IsAnniversary(now') <=> now' = next)]_vars
  <2> SUFFICES ASSUME Inv, Tick, cycle.zone.before = cycle.zone.after
               PROVE  IsAnniversary(now') <=> now' = next
    BY DEF vars
  <2> DEFINE B(k) == AddCycles(cycle.anchor, cycle.zone, k, cycle.unit)
             n == now'
  <2>1. /\ Zoned(cycle.zone) /\ cycle.anchor \in Int /\ cycle.unit \in Units
        /\ now \in Int /\ n \in Int /\ n = now + 1
        /\ next = NextBoundary(cycle.anchor, cycle.zone, now, cycle.unit)
    BY CycleIs DEF Inv, Tick
  <2>2. KeepsMonths(cycle.zone)
    BY <2>1, PlainKeepsMonths
  <2>3. PICK s \in Int : /\ next = B(s) /\ B(s) > now
                         /\ \A k \in Int : k < s => B(k) <= now
    BY <2>1, <2>2, NextIs
  <2> HIDE DEF n
  <2>4. IsAnniversary(n) <=> \E k \in Int : n = B(k)
    BY <2>1, AnniversaryIs
  <2>5. ASSUME NEW k \in Int, n = B(k) PROVE n = next
    <3>1. B(k) \in Int /\ B(s) \in Int
      BY <2>1, BoundaryIs
    <3>2. s < k => B(s) < B(k)
      BY <2>1, PlainClimbs
    <3> HIDE DEF B
    <3>3. ~(k < s)
      BY <2>1, <2>3, <2>5
    <3>4. ~(s < k)
      BY <2>1, <2>3, <2>5, <3>1, <3>2
    <3>5. k = s
      BY <3>3, <3>4
    <3> QED
      BY <2>3, <2>5, <3>5
  <2> HIDE DEF B
  <2> QED
    BY <2>3, <2>4, <2>5 DEF n
<1> QED
  BY <1>1, Answered, PTL DEF Spec, BoundariesAreAnniversaries

-----------------------------------------------------------------------------
(***************************************************************************)
(* Boundaries on the first of a month.                                     *)
(***************************************************************************)
\* A local time that comes once divides the instants as it does local times.
LEMMA ComesOnce ==
    ASSUME NEW zone, Zoned(zone), NEW l \in Int,
           l \notin Skipped(zone), l \notin Repeated(zone),
           NEW t \in Int, Local(zone, t) = l, NEW u \in Int
    PROVE  /\ Local(zone, u) >= l => u >= t
           /\ Local(zone, u) < l => u < t
<1>1. zone.at \in Int /\ zone.before \in Int /\ zone.after \in Int
  BY DEF Zoned
<1>2. /\ t < zone.at => Local(zone, t) = t + zone.before
      /\ t >= zone.at => Local(zone, t) = t + zone.after
  BY LocalIs
<1>3. /\ Local(zone, u) \in Int
      /\ u < zone.at => Local(zone, u) = u + zone.before
      /\ u >= zone.at => Local(zone, u) = u + zone.after
  BY LocalIs
<1>4. ~(l >= zone.at + zone.before /\ l <= zone.at + zone.after - 1)
  BY <1>1 DEF Skipped
<1>5. ~(l >= zone.at + zone.after /\ l <= zone.at + zone.before - 1)
  BY <1>1 DEF Repeated
<1> QED
  BY <1>1, <1>2, <1>3, <1>4, <1>5

\* The first of a month at midnight, where no midnight is skipped.
LEMMA FirstIs ==
    ASSUME NEW zone, Zoned(zone), NEW i \in Int, NEW l, l = TicksPerDay * MonthStart(i),
           l \notin Skipped(zone),
           NEW t, t = Instant(zone, MonthStart(i), 0)
    PROVE  /\ t \in Int /\ l \in Int /\ Local(zone, t) = l
           /\ MonthNo(Date(zone, t)) = i /\ Date(zone, t).day = 1 /\ Clock(zone, t) = 0
<1> DEFINE b == MonthStart(i)
<1>1. b \in Int
  BY MonthStartInt
<1>2. i + 1 \in Int /\ MonthStart(i + 1) \in Int /\ MonthStart(i + 1) - b \in 28 .. 31
  BY MonthStartInt, MonthsFollow
<1>3. MonthStart(i) <= b /\ b < MonthStart(i + 1)
  BY <1>1, <1>2
<1>4. MonthNo(DateOf(b)) = i /\ DateOf(b).day = b - MonthStart(MonthNo(DateOf(b))) + 1
  BY <1>1, <1>3, MonthIs, DateIs
<1>5. DateOf(b).day = 1
  BY <1>1, <1>4
<1> HIDE DEF b
<1>6. l \in Int /\ l = b * TicksPerDay + 0 /\ 0 \in 0 .. TicksPerDay - 1 /\ 0 \in Int
  BY <1>1, TicksPerDayAssumption DEF b
<1>7. t = Instant(zone, b, 0)
  BY DEF b
<1>8. t \in Int /\ Local(zone, t) = l
  BY <1>1, <1>6, <1>7, InstantIs
<1>9. l \div TicksPerDay = b /\ l % TicksPerDay = 0
  BY <1>1, <1>6, DayAndClock
<1>10. Date(zone, t) = DateOf(b) /\ Clock(zone, t) = 0
  BY <1>8, <1>9 DEF Date, Clock
<1> QED
  BY <1>4, <1>5, <1>6, <1>8, <1>10

\* The billing day of a cycle anchored on a first is a first.
LEMMA FirstsOnly ==
    ASSUME NEW i \in Int
    PROVE  BillingDay(1, i) = MonthStart(i)
<1>1. MonthStart(i) \in Int
  BY MonthStartInt
<1>2. i + 1 \in Int /\ MonthStart(i + 1) \in Int
  BY MonthStartInt
<1>3. MonthStart(i + 1) - MonthStart(i) \in 28 .. 31
  BY MonthsFollow
<1> QED
  BY <1>1, <1>2, <1>3 DEF BillingDay, Length

\* The estimate is exact when the anchor is in the month, or year, of from.
LEMMA EstimateIsZero ==
    ASSUME NEW zone, NEW anchor, NEW from, NEW unit \in Units,
           NEW a, a = Date(zone, anchor), NEW f, f = Date(zone, from),
           a.year \in Int, a.month \in Int, f.year = a.year,
           unit = "yearly" \/ f.month = a.month
    PROVE  EstimateSteps(anchor, zone, from, unit) = 0
  BY DEF EstimateSteps

LEMMA Midnights ==
    ASSUME NEW x \in Int, NEW m, m = TicksPerDay * x
    PROVE  /\ m \in Int /\ m % TicksPerDay = 0
           /\ \A l \in Int : m <= l <=> x <= l \div TicksPerDay
<1> DEFINE T == TicksPerDay
<1>1. T \in Nat \ {0} /\ m \in Int /\ m = x * T + 0 /\ 0 \in 0 .. T - 1
  BY TicksPerDayAssumption
<1>2. m \div T = x /\ m % T = 0
  BY <1>1, DayAndClock
<1> DEFINE p == x - 1
           n == m - 1
           c == T - 1
<1>3. p \in Int /\ n \in Int /\ c \in 0 .. T - 1 /\ n = p * T + c
  <2>1. p * T = x * T - T
    BY <1>1, SMT
  <2>2. x * T \in Int
    BY <1>1
  <2>3. p \in Int /\ n \in Int /\ c \in 0 .. T - 1
    BY <1>1
  <2> HIDE DEF p
  <2> QED
    BY <1>1, <2>1, <2>2, <2>3
<1> HIDE DEF p, n, c
<1>4. n \div T = p
  BY <1>3, DayAndClock
<1> HIDE DEF T
<1>5. ASSUME NEW l \in Int PROVE m <= l <=> x <= l \div TicksPerDay
  <2> DEFINE d == l \div TicksPerDay
  <2>1. d \in Int
    BY LocalDay
  <2>2. m <= l => x <= d
    BY <1>1, <1>2, DaysRise DEF T
  <2>3. l <= n => d <= p
    BY <1>3, <1>4, DaysRise DEF T
  <2> HIDE DEF d
  <2>4. x <= d => m <= l
    BY <1>1, <2>1, <2>3 DEF n, p
  <2> QED
    BY <2>2, <2>4 DEF d
<1> QED
  BY <1>1, <1>2, <1>5 DEF T

LEMMA FromTheFirst ==
    ASSUME NEW zone, Zoned(zone),
           \A l \in Skipped(zone) \cup Repeated(zone) : l % TicksPerDay # 0,
           NEW from \in Int, NEW unit \in Units,
           NEW f, f = Date(zone, from),
           NEW first \in Int,
           first = 12 * f.year + (IF unit = "yearly" THEN 1 ELSE f.month) - 1
    PROVE  Local(zone, NextCalendarBoundary(zone, from, unit))
             = TicksPerDay * MonthStart(first + Stride(unit))
<1> DEFINE m0 == IF unit = "yearly" THEN 1 ELSE f.month
           A == Instant(zone, MonthStart(first), 0)
           a == Date(zone, A)
           B(k) == AddCycles(A, zone, k, unit)
           second == first + Stride(unit)
           M(j) == TicksPerDay * MonthStart(j)
           s == StepAfter(A, zone, from, unit)
<1>1. /\ f.year \in Int /\ f.month \in 1 .. 12 /\ MonthNo(f) \in Int
      /\ MonthNo(f) = 12 * f.year + f.month - 1
  BY DateParts
<1>2. m0 \in 1 .. 12 /\ first = 12 * f.year + m0 - 1
  BY <1>1
<1>3. second \in Int /\ first <= MonthNo(f) /\ MonthNo(f) + 1 <= second
  BY <1>1 DEF Stride
<1>4. NextCalendarBoundary(zone, from, unit) = B(s)
  <2>1. DayOf(f.year, m0, 1) = MonthStart(first)
    <3> DEFINE y == f.year
    <3>1. m0 \in Int /\ 1 \in Int /\ y \in Int /\ first = 12 * y + m0 - 1
      BY <1>1, <1>2
    <3> HIDE DEF m0, y
    <3>2. DayOf(y, m0, 1) = MonthStart(first) + 1 - 1
      BY <3>1, DayOfIs
    <3>3. MonthStart(first) \in Int
      BY MonthStartInt
    <3> QED
      BY <3>2, <3>3 DEF y
  <2>2. NextCalendarBoundary(zone, from, unit)
          = NextBoundary(Instant(zone, DayOf(f.year, m0, 1), 0), zone, from, unit)
    BY DEF NextCalendarBoundary
  <2> HIDE DEF m0
  <2> QED
    BY <2>1, <2>2 DEF NextBoundary
<1> HIDE DEF m0
<1>5. ASSUME NEW j \in Int
      PROVE  /\ M(j) \in Int /\ M(j) \notin Skipped(zone) /\ M(j) \notin Repeated(zone)
             /\ \A l \in Int : M(j) <= l <=> MonthStart(j) <= l \div TicksPerDay
  <2>1. MonthStart(j) \in Int
    BY MonthStartInt
  <2> DEFINE x == MonthStart(j)
             m == TicksPerDay * x
  <2>2. x \in Int /\ m = TicksPerDay * x
    BY <2>1
  <2> HIDE DEF x, m
  <2>3. m \in Int /\ m % TicksPerDay = 0 /\ \A l \in Int : m <= l <=> x <= l \div TicksPerDay
    BY <2>2, Midnights
  <2> QED
    BY <2>3 DEF m, x
<1>6. /\ A \in Int /\ Local(zone, A) = M(first)
      /\ MonthNo(a) = first /\ a.day = 1 /\ Clock(zone, A) = 0
  BY <1>5, FirstIs
<1> HIDE DEF A, M
<1>7. a.year = f.year /\ a.month = m0 /\ a.year \in Int /\ a.month \in 1 .. 12
  <2>1. a.year \in Int /\ a.month \in 1 .. 12 /\ MonthNo(a) = 12 * a.year + a.month - 1
    BY <1>6, DateParts
  <2> QED
    BY <1>1, <1>2, <1>6, <2>1
<1>8. EstimateSteps(A, zone, from, unit) = 0
  <2>1. a.month \in Int /\ f.year = a.year /\ (unit = "yearly" \/ f.month = a.month)
    BY <1>7 DEF m0
  <2> QED
    BY <1>7, <2>1, EstimateIsZero
<1>9. /\ s \in Int /\ s >= 0 /\ B(s) > from
      /\ \A k \in Int : k >= 0 /\ k < s => ~(B(k) > from)
  <2>1. 0 \in Int /\ 0 = EstimateSteps(A, zone, from, unit)
    BY <1>8
  <2> QED
    BY <1>6, <2>1, WalkIs
<1>10. ASSUME NEW k \in Int, NEW j \in Int, j = first + Stride(unit) * k
       PROVE  B(k) = Instant(zone, MonthStart(j), 0)
  <2>1. B(k) = Instant(zone, BillingDay(a.day, j), Clock(zone, A))
    BY <1>6, <1>10, AddCyclesIs
  <2>2. BillingDay(1, j) = MonthStart(j)
    BY FirstsOnly
  <2> HIDE DEF a, B
  <2> QED
    BY <1>6, <2>1, <2>2
<1>11. B(0) = A
  <2>1. 0 \in Int /\ first = first + Stride(unit) * 0
    BY DEF Stride
  <2>2. B(0) = Instant(zone, MonthStart(first), 0)
    BY <1>10, <2>1
  <2> QED
    BY <2>2 DEF A
<1>12. /\ B(1) \in Int /\ Local(zone, B(1)) = M(second)
  <2>1. 1 \in Int /\ second = first + Stride(unit) * 1
    BY DEF Stride
  <2> DEFINE t == B(1)
  <2>2. t = Instant(zone, MonthStart(second), 0)
    BY <1>3, <1>10, <2>1
  <2> DEFINE l == M(second)
  <2>3. l = TicksPerDay * MonthStart(second) /\ l \notin Skipped(zone)
    BY <1>3, <1>5 DEF M
  <2> HIDE DEF t, l, second
  <2>4. t \in Int /\ Local(zone, t) = l
    BY <1>3, <2>2, <2>3, FirstIs
  <2> QED
    BY <2>4 DEF t, l
<1> HIDE DEF second, a, B, s
<1> DEFINE l == Local(zone, from)
           day == l \div TicksPerDay
<1>13. l \in Int /\ day \in Int /\ MonthStart(MonthNo(f)) <= day /\ day < MonthStart(MonthNo(f) + 1)
  <2>1. l \in Int
    BY LocalIs
  <2>2. day \in Int
    BY <2>1, LocalDay
  <2>3. f = DateOf(day)
    BY DEF Date
  <2> HIDE DEF day
  <2>4. MonthStart(MonthNo(f)) <= day /\ day < MonthStart(MonthNo(f) + 1)
    BY <2>2, <2>3, DateIs
  <2> QED
    BY <2>1, <2>2, <2>4
<1> HIDE DEF l
<1>14. A <= from
  <2>1. MonthStart(MonthNo(f)) >= MonthStart(first) + 28 * (MonthNo(f) - first)
    BY <1>1, <1>3, MonthsApart
  <2>2. MonthStart(first) \in Int
    BY MonthStartInt
  <2>3. MonthStart(MonthNo(f)) \in Int
    BY <1>1, MonthStartInt
  <2>4. MonthStart(first) <= day
    BY <1>1, <1>3, <1>13, <2>1, <2>2, <2>3
  <2>5. M(first) <= l
    BY <1>5, <1>13, <2>4
  <2>6. M(first) \in Int /\ M(first) \notin Skipped(zone) /\ M(first) \notin Repeated(zone)
    BY <1>5
  <2>7. Local(zone, from) >= M(first) => from >= A
    BY <1>6, <2>6, ComesOnce
  <2> QED
    BY <1>6, <1>13, <2>5, <2>6, <2>7 DEF l
<1>15. from < B(1)
  <2>1. MonthNo(f) + 1 \in Int
    BY <1>1
  <2>2. MonthStart(second) >= MonthStart(MonthNo(f) + 1) + 28 * (second - (MonthNo(f) + 1))
    BY <1>3, <2>1, MonthsApart
  <2>3. MonthStart(second) \in Int
    BY <1>3, MonthStartInt
  <2>4. MonthStart(MonthNo(f) + 1) \in Int
    BY <2>1, MonthStartInt
  <2>5. ~(MonthStart(second) <= day)
    BY <1>3, <1>13, <2>1, <2>2, <2>3, <2>4
  <2>6. ~(M(second) <= l)
    BY <1>3, <1>5, <1>13, <2>5
  <2>7. M(second) \in Int /\ M(second) \notin Skipped(zone) /\ M(second) \notin Repeated(zone)
    BY <1>3, <1>5
  <2>8. Local(zone, from) < M(second) => from < B(1)
    BY <1>12, <2>7, ComesOnce
  <2> QED
    BY <1>13, <2>6, <2>7, <2>8 DEF l
<1>16. s = 1
  <2>1. s # 0
    BY <1>6, <1>9, <1>11, <1>14
  <2>2. ~(1 < s)
    BY <1>9, <1>12, <1>15
  <2> QED
    BY <1>9, <2>1, <2>2
<1> QED
  BY <1>4, <1>12, <1>16 DEF M, second

\* The calendar boundary is midnight of the next first, of a month or of a
\* January, in every zone whose clocks never change over a midnight.
THEOREM AlignedOnFirsts == Spec => []AlignedInOrdinaryZones
<1>1. Inv => AlignedInOrdinaryZones
  <2> SUFFICES ASSUME Inv,
                      \A l \in Skipped(cycle.zone) \cup Repeated(cycle.zone) : l % TicksPerDay # 0
               PROVE  Local(cycle.zone, aligned) = NextFirst
    BY DEF AlignedInOrdinaryZones, AlignedOnNextFirst
  <2> DEFINE z == cycle.zone
             u == cycle.unit
             f == Date(z, now)
             first == 12 * f.year + (IF u = "yearly" THEN 1 ELSE f.month) - 1
             second == first + Stride(u)
  <2>1. /\ Zoned(z) /\ u \in Units /\ now \in Int
        /\ aligned = NextCalendarBoundary(z, now, u)
        /\ \A l \in Skipped(z) \cup Repeated(z) : l % TicksPerDay # 0
    BY CycleIs DEF Inv
  <2>2. NextFirst = TicksPerDay * (IF u = "yearly" THEN DayOf(f.year + 1, 1, 1)
                                   ELSE DayOf(f.year, f.month + 1, 1))
    BY DEF NextFirst
  <2> HIDE DEF z, u
  <2>3. f.year \in Int /\ f.month \in 1 .. 12
    BY <2>1, DateParts
  <2>4. first \in Int
    BY <2>3
  <2>5. Local(z, aligned) = TicksPerDay * MonthStart(second)
    BY <2>1, <2>4, FromTheFirst
  <2> HIDE DEF f
  <2>6. CASE u = "yearly"
    <3> DEFINE y == f.year + 1
    <3>1. second = 12 * y + 1 - 1 /\ second \in Int /\ y \in Int /\ 1 \in Int
      BY <2>3, <2>6 DEF Stride
    <3> HIDE DEF second, y
    <3>2. DayOf(y, 1, 1) = MonthStart(second) + 1 - 1
      BY <3>1, DayOfIs
    <3>3. MonthStart(second) \in Int
      BY <3>1, MonthStartInt
    <3>4. DayOf(f.year + 1, 1, 1) = MonthStart(second)
      BY <3>2, <3>3 DEF y
    <3> QED
      BY <2>2, <2>5, <2>6, <3>4 DEF z
  <2>7. CASE u # "yearly"
    <3> DEFINE y == f.year
               m == f.month + 1
    <3>1. second = 12 * y + m - 1 /\ second \in Int /\ y \in Int /\ m \in Int /\ 1 \in Int
      BY <2>3, <2>7 DEF Stride
    <3> HIDE DEF second, y, m
    <3>2. DayOf(y, m, 1) = MonthStart(second) + 1 - 1
      BY <3>1, DayOfIs
    <3>3. MonthStart(second) \in Int
      BY <3>1, MonthStartInt
    <3>4. DayOf(f.year, f.month + 1, 1) = MonthStart(second)
      BY <3>2, <3>3 DEF y, m
    <3> QED
      BY <2>2, <2>5, <2>7, <3>4 DEF z
  <2> QED
    BY <2>6, <2>7
<1> QED
  BY <1>1, Answered, PTL

-----------------------------------------------------------------------------
(***************************************************************************)
(* Who goes on from a boundary, in a zone of one offset.                   *)
(***************************************************************************)
\* In a zone of one offset whoever goes on from a boundary is told that of the
\* next cycle, which is in the month, or the year, that follows.
LEMMA CyclesFollow ==
    ASSUME NEW zone, Zoned(zone), zone.before = zone.after,
           NEW anchor \in Int, NEW from \in Int, NEW unit \in Units,
           NEW t, t = NextBoundary(anchor, zone, from, unit),
           NEW u, u = NextBoundary(anchor, zone, t, unit)
    PROVE  /\ t \in Int /\ u \in Int
           /\ Clock(zone, t) = Clock(zone, anchor)
           /\ MonthAt(Local(zone, u)) = MonthAt(Local(zone, t)) + Stride(unit)
<1> DEFINE B(k) == AddCycles(anchor, zone, k, unit)
           a == Date(zone, anchor)
           At(k) == MonthNo(a) + Stride(unit) * k
<1>1. \A k \in Int : /\ B(k) \in Int /\ At(k) \in Int /\ a.day \in Nat \ {0}
                     /\ Local(zone, B(k)) \div TicksPerDay = BillingDay(a.day, At(k))
                     /\ Clock(zone, B(k)) = Clock(zone, anchor)
  BY PlainBoundary
<1>2. \A j, k \in Int : j < k => B(j) < B(k)
  BY PlainClimbs
<1>3. KeepsMonths(zone)
  BY PlainKeepsMonths
<1>4. PICK s \in Int : t = B(s)
  BY <1>3, NextIs
<1>5. t \in Int
  BY <1>1, <1>4
<1>6. PICK r \in Int : u = B(r) /\ B(r) > t /\ \A k \in Int : k < r => B(k) <= t
  BY <1>3, <1>5, NextIs
<1>7. MonthNo(a) \in Int /\ Stride(unit) \in Int
  BY DateParts DEF Stride
<1> HIDE DEF B
<1>8. r = s + 1
  <2>1. ~(r < s) /\ r # s
    BY <1>1, <1>2, <1>4, <1>6
  <2>2. ~(s + 1 < r)
    <3>1. s + 1 \in Int /\ B(s) < B(s + 1) /\ B(s + 1) \in Int /\ B(s) \in Int
      BY <1>1, <1>2
    <3> QED
      BY <1>4, <1>6, <3>1
  <2> QED
    BY <2>1, <2>2
<1>9. \A k \in Int : MonthAt(Local(zone, B(k))) = At(k) + 1
  <2> SUFFICES ASSUME NEW k \in Int PROVE MonthAt(Local(zone, B(k))) = At(k) + 1
    OBVIOUS
  <2>1. Local(zone, B(k)) \in Int
    BY <1>1, LocalIs
  <2>2. MonthNo(DateOf(BillingDay(a.day, At(k)))) = At(k)
    BY <1>1, BillingDayIs
  <2> HIDE DEF a, At
  <2> QED
    BY <1>1, <2>1, <2>2, MonthAtIs
<1>10. At(s + 1) = At(s) + Stride(unit)
  BY <1>7
<1>11. At(s) \in Int /\ s + 1 \in Int
  BY <1>1
<1> HIDE DEF At
<1> QED
  BY <1>1, <1>4, <1>5, <1>6, <1>7, <1>8, <1>9, <1>10, <1>11

\* And of the calendar's cycles.
LEMMA FirstsFollow ==
    ASSUME NEW zone, Zoned(zone), zone.before = zone.after,
           NEW from \in Int, NEW unit \in Units,
           NEW t, t = NextCalendarBoundary(zone, from, unit),
           NEW u, u = NextCalendarBoundary(zone, t, unit)
    PROVE  /\ t \in Int /\ u \in Int
           /\ Clock(zone, t) = 0
           /\ MonthAt(Local(zone, u)) = MonthAt(Local(zone, t)) + Stride(unit)
<1> DEFINE First(f) == 12 * f.year + (IF unit = "yearly" THEN 1 ELSE f.month) - 1
           Told(x) == NextCalendarBoundary(zone, x, unit)
           Second(x) == First(Date(zone, x)) + Stride(unit)
<1>1. zone.before \in Int /\ \A x \in Int : Local(zone, x) = x + zone.before
  BY PlainLocal
<1>2. Skipped(zone) \cup Repeated(zone) = {}
  <2>1. zone.at \in Int
    BY DEF Zoned
  <2> QED
    BY <1>1, <2>1 DEF Skipped, Repeated
<1>3. Stride(unit) \in Int
  BY DEF Stride
<1>4. ASSUME NEW x \in Int
      PROVE  /\ Second(x) \in Int
             /\ Local(zone, Told(x)) = TicksPerDay * MonthStart(Second(x))
  <2>1. First(Date(zone, x)) \in Int
    BY DateParts
  <2> HIDE DEF First
  <2>2. \A l \in Skipped(zone) \cup Repeated(zone) : l % TicksPerDay # 0
    BY <1>2
  <2>3. Local(zone, Told(x)) = TicksPerDay * MonthStart(First(Date(zone, x)) + Stride(unit))
    BY <2>1, <2>2, FromTheFirst DEF First
  <2> QED
    BY <1>3, <2>1, <2>3
<1>5. ASSUME NEW x \in Int PROVE Told(x) \in Int
  <2> DEFINE f == Date(zone, x)
             m == IF unit = "yearly" THEN 1 ELSE f.month
             first == DayOf(f.year, m, 1)
             A == Instant(zone, first, 0)
  <2>1. Told(x) = NextBoundary(A, zone, x, unit)
    BY DEF NextCalendarBoundary
  <2>2. f.year \in Int /\ m \in Int
    BY DateParts
  <2>3. first \in Int
    <3> DEFINE y == f.year
               i == 12 * y + m - 1
    <3>1. y \in Int /\ m \in Int /\ i \in Int /\ 1 \in Int
      BY <2>2
    <3> HIDE DEF y, m
    <3>2. DayOf(y, m, 1) = MonthStart(i) + 1 - 1
      BY <3>1, DayOfIs
    <3>3. MonthStart(i) \in Int
      BY <3>1, MonthStartInt
    <3> QED
      BY <3>2, <3>3 DEF y
  <2> HIDE DEF first
  <2>4. A \in Int
    <3> DEFINE l == first * TicksPerDay + 0
    <3>1. l \in Int /\ 0 \in Int
      BY <2>3, TicksPerDayAssumption
    <3> HIDE DEF l
    <3>2. l = first * TicksPerDay + 0
      BY DEF l
    <3> QED
      BY <2>3, <3>1, <3>2, InstantIs
  <2> HIDE DEF A
  <2>5. KeepsMonths(zone)
    BY PlainKeepsMonths
  <2>6. PICK s \in Int : Told(x) = AddCycles(A, zone, s, unit)
    BY <2>1, <2>4, <2>5, NextIs
  <2> HIDE DEF Told
  <2> QED
    BY <2>4, <2>6, PlainBoundary
<1>6. t = Told(from) /\ u = Told(t) /\ t \in Int /\ u \in Int
  BY <1>5
<1>7. Second(t) = Second(from) + Stride(unit)
  <2> DEFINE n == Second(from)
             g == Date(zone, t)
  <2>1. n \in Int /\ Local(zone, t) = TicksPerDay * MonthStart(n)
    BY <1>4, <1>6
  <2>2. MonthStart(n) \in Int /\ MonthStart(n + 1) \in Int /\ MonthStart(n) < MonthStart(n + 1)
    <3> HIDE DEF n
    <3>1. MonthStart(n + 1) - MonthStart(n) \in 28 .. 31
      BY <2>1, MonthsFollow
    <3>2. MonthStart(n) \in Int /\ MonthStart(n + 1) \in Int
      BY <2>1, MonthStartInt
    <3> QED
      BY <3>1, <3>2
  <2>3. Local(zone, t) \div TicksPerDay = MonthStart(n)
    <3> HIDE DEF n
    <3> DEFINE day == MonthStart(n)
               l == Local(zone, t)
    <3>1. day \in Int /\ l = day * TicksPerDay + 0 /\ l \in Int /\ 0 \in 0 .. TicksPerDay - 1
      BY <2>1, <2>2, TicksPerDayAssumption
    <3> HIDE DEF day, l
    <3>2. l \div TicksPerDay = day
      BY <3>1, DayAndClock
    <3> QED
      BY <3>2 DEF day, l
  <2>4. MonthNo(g) = n
    <3> HIDE DEF n
    <3>1. MonthNo(DateOf(MonthStart(n))) = n
      BY <2>1, <2>2, MonthIs
    <3> QED
      BY <2>3, <3>1 DEF Date
  <2>5. /\ g.year \in Int /\ g.month \in 1 .. 12
        /\ n = 12 * g.year + g.month - 1
    BY <1>6, <2>4, DateParts
  <2>6. n = 12 * Date(zone, from).year
              + (IF unit = "yearly" THEN 1 ELSE Date(zone, from).month) - 1 + Stride(unit)
        /\ Date(zone, from).year \in Int
    BY DateParts
  <2> HIDE DEF n, g
  <2>7. First(g) = n
    <3>1. CASE unit = "yearly"
      <4>1. n = 12 * (Date(zone, from).year + 1)
        BY <2>6, <3>1 DEF Stride
      <4>2. g.month = 1
        BY <2>5, <2>6, <4>1
      <4> QED
        BY <2>5, <3>1, <4>2
    <3>2. CASE unit # "yearly"
      BY <2>5, <3>2
    <3> QED
      BY <3>1, <3>2
  <2> QED
    BY <2>7 DEF n, g
<1>8. \A x \in Int : MonthAt(Local(zone, Told(x))) = Second(x) + 1
  <2> SUFFICES ASSUME NEW x \in Int PROVE MonthAt(Local(zone, Told(x))) = Second(x) + 1
    OBVIOUS
  <2> DEFINE n == Second(x)
             day == MonthStart(n)
             l == Local(zone, Told(x))
  <2>1. n \in Int /\ l = TicksPerDay * day
    BY <1>4
  <2> HIDE DEF l, n
  <2>2. day \in Int /\ MonthStart(n + 1) \in Int /\ day < MonthStart(n + 1)
    <3>1. MonthStart(n + 1) - MonthStart(n) \in 28 .. 31
      BY <2>1, MonthsFollow
    <3>2. MonthStart(n) \in Int /\ MonthStart(n + 1) \in Int
      BY <2>1, MonthStartInt
    <3> QED
      BY <3>1, <3>2
  <2>3. MonthNo(DateOf(day)) = n
    BY <2>1, <2>2, MonthIs
  <2> HIDE DEF day
  <2>4. l = day * TicksPerDay + 0 /\ l \in Int /\ 0 \in 0 .. TicksPerDay - 1
    BY <2>1, <2>2, TicksPerDayAssumption
  <2>5. day = l \div TicksPerDay
    BY <2>2, <2>4, DayAndClock
  <2>6. MonthAt(l) = n + 1
    BY <2>3, <2>4, <2>5, MonthAtIs
  <2> QED
    BY <2>6 DEF l, n
<1>9. Clock(zone, t) = 0
  <2> DEFINE day == MonthStart(Second(from))
             l == Local(zone, t)
  <2>1. l = TicksPerDay * day
    BY <1>4, <1>6
  <2>2. day \in Int
    BY <1>4, MonthStartInt
  <2> HIDE DEF day, l
  <2>3. l = day * TicksPerDay + 0 /\ l \in Int /\ 0 \in 0 .. TicksPerDay - 1
    BY <2>1, <2>2, TicksPerDayAssumption
  <2>4. l % TicksPerDay = 0
    BY <2>2, <2>3, DayAndClock
  <2> QED
    BY <2>4 DEF Clock, l
<1>10. Second(from) \in Int
  BY <1>4
<1> HIDE DEF Told, Second
<1> QED
  BY <1>3, <1>6, <1>7, <1>8, <1>9, <1>10

=============================================================================
