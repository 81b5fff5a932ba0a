-------------------------- MODULE CompensationProofs --------------------------
(***************************************************************************)
(* Proofs about the arithmetic of the calculation sheet, for every start   *)
(* and end of an employment in the calendar and all wages.                 *)
(***************************************************************************)
EXTENDS Compensation, FiniteSetTheorems, TLAPS

Dates == {d \in Nat \X Nat \X Nat : IsDate(d)}

(* The day of the month that stands for day n in a month of that length.   *)
DayIn(n, length) == IF n <= length THEN n ELSE length

(* Months since the beginning of the calendar.                             *)
MonthOf(d) == 12 * d[1] + d[2]

(* The day of the month of e on which a month of service since s is over.  *)
DueDay(s, e) == DayIn(s[3], MonthLength(e[1], e[2]))

(* Months of service between two dates, in closed form.                    *)
MonthsBetween(s, e) ==
    MonthOf(e) - MonthOf(s) - (IF e[3] < DueDay(s, e) THEN 1 ELSE 0)

-----------------------------------------------------------------------------
(* What the proofs use of the calendar: only February depends on the year. *)
LEMMA MonthLengths ==
    /\ \A y, m \in Nat : MonthLength(y, m) \in 28..31
    /\ \A y, z, m \in Nat : m # 2 => MonthLength(y, m) = MonthLength(z, m)
    /\ \A y \in Nat : MonthLength(y, 2) \in {28, 29} /\ MonthLength(y, 8) = 31
  BY DEF MonthLength

LEMMA DateParts ==
    ASSUME NEW d \in Dates
    PROVE  /\ d = <<d[1], d[2], d[3]>>
           /\ d[1] \in Nat /\ d[2] \in 1..12
           /\ d[3] \in 1..MonthLength(d[1], d[2]) /\ d[3] \in 1..31
<1>1. d \in Nat \X Nat \X Nat /\ IsDate(d)
  BY DEF Dates
<1>2. d = <<d[1], d[2], d[3]>> /\ d[1] \in Nat /\ d[2] \in Nat /\ d[3] \in Nat
  BY <1>1
<1>3. MonthLength(d[1], d[2]) \in 28..31
  BY <1>2, MonthLengths
<1>4. QED
  BY <1>1, <1>2, <1>3 DEF IsDate

(* _add_months goes on by that number of months and keeps the day where    *)
(* the month has it.                                                       *)
LEMMA AddedMonths ==
    ASSUME NEW y \in Nat, NEW m \in 1..12, NEW d \in 1..31, NEW n \in Nat
    PROVE  \E z \in Nat, k \in 1..12 :
               /\ 12 * z + k = 12 * y + m + n
               /\ AddMonths(<<y, m, d>>, n) =
                      <<z, k, DayIn(d, MonthLength(z, k))>>
<1> DEFINE index == m - 1 + n
           z == y + index \div 12
           k == (index % 12) + 1
<1>1. index \in Nat
  OBVIOUS
<1>2. index \div 12 \in Nat /\ index % 12 \in 0..11 /\ index = 12 * (index \div 12) + (index % 12)
  BY <1>1
<1>3. z \in Nat /\ k \in 1..12 /\ 12 * z + k = 12 * y + m + n
  BY <1>2
<1>4. AddMonths(<<y, m, d>>, n) = <<z, k, DayIn(d, MonthLength(z, k))>>
  BY DEF AddMonths, InMonth, DayIn
<1> HIDE DEF z, k
<1>5. QED
  BY <1>3, <1>4

(* Months are ordered by their number.                                     *)
LEMMA MonthOrder ==
    ASSUME NEW y \in Nat, NEW z \in Nat, NEW m \in 1..12, NEW k \in 1..12
    PROVE  /\ (y < z \/ (y = z /\ m < k)) <=> 12 * y + m < 12 * z + k
           /\ (y = z /\ m = k) <=> 12 * y + m = 12 * z + k
  OBVIOUS

(* A month of service is complete when its day is reached: counting months *)
(* from the start and the closed form agree.                               *)
LEMMA MonthIsOver ==
    ASSUME NEW s \in Dates, NEW e \in Dates, NEW n \in Nat
    PROVE  Before(e, AddMonths(s, n)) <=> n > MonthsBetween(s, e)
<1>1. /\ s = <<s[1], s[2], s[3]>> /\ s[1] \in Nat /\ s[2] \in 1..12 /\ s[3] \in 1..31
      /\ e[1] \in Nat /\ e[2] \in 1..12 /\ e[3] \in Nat
  BY DateParts
<1>2. PICK z \in Nat, k \in 1..12 :
          /\ 12 * z + k = 12 * s[1] + s[2] + n
          /\ AddMonths(<<s[1], s[2], s[3]>>, n) =
                 <<z, k, DayIn(s[3], MonthLength(z, k))>>
  BY <1>1, AddedMonths, Zenon
<1> DEFINE day == DayIn(s[3], MonthLength(z, k))
           due == DayIn(s[3], MonthLength(e[1], e[2]))
<1>3. day \in Nat /\ due \in Nat
  BY <1>1, MonthLengths DEF DayIn
<1>4. e[1] = z /\ e[2] = k => day = due
  OBVIOUS
<1>5. AddMonths(s, n) = <<z, k, day>>
  BY <1>1, <1>2
<1>6. MonthsBetween(s, e) =
          (12 * e[1] + e[2]) - (12 * s[1] + s[2]) - (IF e[3] < due THEN 1 ELSE 0)
  BY Zenon DEF MonthsBetween, MonthOf, DueDay
<1> HIDE DEF day, due
<1>7. Before(e, AddMonths(s, n)) <=>
          \/ e[1] < z
          \/ e[1] = z /\ e[2] < k
          \/ e[1] = z /\ e[2] = k /\ e[3] < day
  BY <1>5 DEF Before
<1> DEFINE now == 12 * e[1] + e[2]
           then == 12 * s[1] + s[2]
<1>8. /\ (e[1] < z \/ (e[1] = z /\ e[2] < k)) <=> now < then + n
      /\ (e[1] = z /\ e[2] = k) <=> now = then + n
  <2>1. z \in Nat /\ k \in 1..12 /\ e[1] \in Nat /\ e[2] \in 1..12
    BY <1>1, <1>2
  <2>2. /\ (e[1] < z \/ (e[1] = z /\ e[2] < k)) <=> 12 * e[1] + e[2] < 12 * z + k
        /\ (e[1] = z /\ e[2] = k) <=> 12 * e[1] + e[2] = 12 * z + k
    BY ONLY <2>1, MonthOrder
  <2>3. 12 * z + k = then + n
    BY <1>2
  <2>4. QED
    BY ONLY <2>2, <2>3
<1>9. now \in Nat /\ then \in Nat /\ MonthsBetween(s, e) = now - then - (IF e[3] < due THEN 1 ELSE 0)
  BY <1>1, <1>6
<1> HIDE DEF now, then
<1>10. Before(e, AddMonths(s, n)) <=>
           now < then + n \/ (now = then + n /\ e[3] < due)
  BY <1>4, <1>7, <1>8
<1>11. QED
  BY <1>1, <1>3, <1>9, <1>10

(* The statute's count of months, and its bounds.                          *)
LEMMA CountedMonths ==
    ASSUME NEW s \in Dates, NEW e \in Dates, ~Before(e, s)
    PROVE  /\ MonthsBetween(s, e) \in Nat
           /\ FullMonths(s, e) = MonthsBetween(s, e)
<1> DEFINE K == MonthsBetween(s, e)
           top == 12 * (e[1] - s[1] + 1)
<1>1. /\ s[1] \in Nat /\ s[2] \in 1..12 /\ s[3] \in 1..31
      /\ e[1] \in Nat /\ e[2] \in 1..12 /\ e[3] \in Nat
  BY DateParts
<1>2. DueDay(s, e) \in Nat /\ DueDay(s, e) <= s[3]
  BY <1>1, MonthLengths DEF DueDay, DayIn
<1>3. K = (12 * e[1] + e[2]) - (12 * s[1] + s[2])
              - (IF e[3] < DueDay(s, e) THEN 1 ELSE 0)
  BY Zenon DEF MonthsBetween, MonthOf
<1>4. ~(\/ e[1] < s[1]
        \/ e[1] = s[1] /\ e[2] < s[2]
        \/ e[1] = s[1] /\ e[2] = s[2] /\ e[3] < s[3])
  BY DEF Before
<1> HIDE DEF K
<1>5. K \in Nat /\ K <= top /\ top \in Nat
  <2> DEFINE y == e[1] - s[1]
             m == e[2] - s[2]
             b == IF e[3] < DueDay(s, e) THEN 1 ELSE 0
  <2>1. y \in Int /\ m \in -11..11 /\ b \in {0, 1}
    BY <1>1
  <2>2. K = 12 * y + (m - b) /\ top = 12 * y + 12
    BY <1>1, <1>3
  <2>3. y > 0 \/ (y = 0 /\ (m > 0 \/ (m = 0 /\ b = 0)))
    BY <1>1, <1>2, <1>4
  <2> HIDE DEF y, m, b, top
  <2>4. QED
    BY <2>1, <2>2, <2>3
<1>6. \A n \in 1..top : ~Before(e, AddMonths(s, n)) <=> n <= K
  <2> TAKE n \in 1..top
  <2>1. n \in Nat
    BY <1>5
  <2>2. Before(e, AddMonths(s, n)) <=> n > K
    BY <2>1, MonthIsOver DEF K
  <2>3. QED
    BY <2>1, <2>2, <1>5
<1>7. {n \in 1..top : ~Before(e, AddMonths(s, n))} = 1..K
  <2> HIDE DEF top
  <2>1. QED
    BY <1>5, <1>6
<1>8. Cardinality(1..K) = K
  BY <1>5, FS_Interval
<1>9. FullMonths(s, e) = Cardinality(1..K)
  BY <1>7, Zenon DEF FullMonths
<1>10. QED
  BY <1>5, <1>8, <1>9 DEF K

(* Full years of service end with the last anniversary, which is where the *)
(* statute's count of twelve months each puts them.                        *)
LEMMA CompletedYears ==
    ASSUME NEW s \in Dates, NEW e \in Dates, MonthsBetween(s, e) \in Nat
    PROVE  LET years == MonthsBetween(s, e) \div 12
           IN  /\ years \in Nat
               /\ Years(s, e) = years
               /\ Anniversary(s, e) = InMonth(s[1] + years, s[2], s)
               /\ AddMonths(s, 12 * years) = InMonth(s[1] + years, s[2], s)
<1> DEFINE K == MonthsBetween(s, e)
           day == DayIn(s[3], MonthLength(e[1], s[2]))
           due == DueDay(s, e)
           late == e[2] < s[2] \/ (e[2] = s[2] /\ e[3] < day)
<1>1. /\ s = <<s[1], s[2], s[3]>> /\ s[1] \in Nat /\ s[2] \in 1..12 /\ s[3] \in 1..31
      /\ e[1] \in Nat /\ e[2] \in 1..12 /\ e[3] \in Nat
  BY DateParts
<1>2. day \in Nat /\ due \in Nat /\ (e[2] = s[2] => day = due)
  BY <1>1, MonthLengths DEF DueDay, DayIn
<1>3. K = (12 * e[1] + e[2]) - (12 * s[1] + s[2]) - (IF e[3] < due THEN 1 ELSE 0)
  BY Zenon DEF MonthsBetween, MonthOf
<1>4. InMonth(e[1], s[2], s) = <<e[1], s[2], day>>
  BY DEF InMonth, DayIn
<1> HIDE DEF day, due
<1>5. Before(e, InMonth(e[1], s[2], s)) <=> late
  BY <1>1, <1>4 DEF Before
<1> DEFINE years == e[1] - s[1] - (IF late THEN 1 ELSE 0)
<1>6. years \in Int /\ K - 12 * years \in 0..11
  BY <1>1, <1>2, <1>3
<1> HIDE DEF K, late
<1>7. years \in Nat /\ K \div 12 = years
  <2> HIDE DEF years
  <2>1. K \in Nat
    BY DEF K
  <2>2. QED
    BY <1>6, <2>1
<1>8. Years(s, e) = years
  BY <1>5 DEF Years
<1>9. Anniversary(s, e) = InMonth(s[1] + years, s[2], s)
  <2>1. s[1] + years = IF late THEN e[1] - 1 ELSE e[1]
    BY <1>1
  <2>2. QED
    BY <1>5, <2>1 DEF Anniversary
<1>10. AddMonths(s, 12 * years) = InMonth(s[1] + years, s[2], s)
  <2> HIDE DEF years
  <2>1. (s[2] - 1 + 12 * years) \div 12 = years /\ ((s[2] - 1 + 12 * years) % 12) + 1 = s[2]
    BY <1>1, <1>7
  <2>2. QED
    BY <2>1 DEF AddMonths
<1>11. QED
  BY <1>7, <1>8, <1>9, <1>10 DEF K

(* The half year.  Added to the anniversary it ends where it would when    *)
(* added to the start, except after a leap day, in a common year.          *)
LEMMA HalfYear ==
    ASSUME NEW s \in Dates, NEW years \in Nat
    PROVE  LET anniversary == InMonth(s[1] + years, s[2], s)
           IN  \/ AddMonths(anniversary, 6) = AddMonths(s, 12 * years + 6)
               \/ /\ s[2] = 2 /\ s[3] = 29
                  /\ AddMonths(anniversary, 6) = <<s[1] + years, 8, 28>>
                  /\ AddMonths(s, 12 * years + 6) = <<s[1] + years, 8, 29>>
<1> DEFINE y == s[1] + years
           kept == DayIn(s[3], MonthLength(y, s[2]))
           z == s[1] + (s[2] - 1 + (12 * years + 6)) \div 12
           k == ((s[2] - 1 + (12 * years + 6)) % 12) + 1
           length == MonthLength(z, k)
<1>1. /\ s[1] \in Nat /\ s[2] \in 1..12 /\ s[3] \in 1..31
      /\ s[3] <= MonthLength(s[1], s[2])
  BY DateParts, MonthLengths
<1>2. InMonth(y, s[2], s) = <<y, s[2], kept>>
  BY DEF InMonth, DayIn
<1>3. z \in Nat /\ k \in Nat /\ y + (s[2] - 1 + 6) \div 12 = z /\ ((s[2] - 1 + 6) % 12) + 1 = k
  <2>1. \A a, b \in Nat : /\ (a + 12 * b) \div 12 = (a \div 12) + b
                          /\ (a + 12 * b) % 12 = a % 12
                          /\ a \div 12 \in Nat /\ a % 12 \in Nat
    OBVIOUS
  <2> DEFINE a == s[2] - 1 + 6
  <2>2. a \in Nat /\ s[2] - 1 + (12 * years + 6) = a + 12 * years
    BY <1>1
  <2> HIDE DEF a
  <2>3. z = s[1] + ((a \div 12) + years) /\ k = (a % 12) + 1
        /\ a \div 12 \in Nat /\ a % 12 \in Nat
    BY <2>1, <2>2
  <2>4. QED
    BY <1>1, <2>3 DEF a
<1>4. AddMonths(s, 12 * years + 6) = <<z, k, DayIn(s[3], length)>>
  BY DEF AddMonths, InMonth, DayIn
<1>5. AddMonths(<<y, s[2], kept>>, 6) = <<z, k, DayIn(kept, length)>>
  <2> HIDE DEF y, z, k, kept
  <2>1. QED
    BY <1>3 DEF AddMonths, InMonth, DayIn
<1>6. CASE s[3] <= MonthLength(y, s[2])
  <2>1. kept = s[3]
    BY <1>6 DEF DayIn
  <2>2. QED
    BY <2>1, <1>2, <1>4, <1>5
<1>7. CASE ~(s[3] <= MonthLength(y, s[2]))
  <2>1. y \in Nat
    BY <1>1
  <2>2. s[2] = 2
    BY <1>1, <1>7, <2>1, MonthLengths
  <2>3. s[3] = 29 /\ MonthLength(y, 2) = 28
    BY <1>1, <1>7, <2>1, <2>2, MonthLengths
  <2>4. kept = 28
    BY <2>2, <2>3 DEF DayIn
  <2>5. z = y /\ k = 8
    BY <1>3, <2>1, <2>2
  <2>6. length = 31
    BY <2>1, <2>5, MonthLengths
  <2>7. DayIn(28, 31) = 28 /\ DayIn(29, 31) = 29
    BY DEF DayIn
  <2>8. QED
    BY <1>2, <1>4, <1>5, <2>2, <2>3, <2>4, <2>5, <2>6, <2>7
<1>8. QED
  BY <1>6, <1>7

(* The coefficient is the statute's, or a half more on the last day but    *)
(* one of a half year that began on a leap day: _service_coefficient       *)
(* counts from anniversaries, the statute in months, and for every two     *)
(* days of the calendar they agree.                                        *)
THEOREM CoefficientFollowsStatute ==
    ASSUME NEW s \in Dates, NEW e \in Dates, ~Before(e, s)
    PROVE  /\ ServiceCoefficient(s, e) \in Nat
           /\ CoefficientIsDue(s, e, ServiceCoefficient(s, e))
<1> DEFINE K == MonthsBetween(s, e)
           years == K \div 12
           anniversary == InMonth(s[1] + years, s[2], s)
           half == AddMonths(anniversary, 6)
           whole == AddMonths(s, 12 * years + 6)
<1>1. K \in Nat /\ FullMonths(s, e) = K
  BY CountedMonths
<1>2. /\ years \in Nat
      /\ Years(s, e) = years
      /\ Anniversary(s, e) = anniversary
      /\ AddMonths(s, 12 * years) = anniversary
  BY <1>1, CompletedYears
<1>3. ServiceCoefficient(s, e) =
          2 * years + (IF e = anniversary THEN 0 ELSE IF Before(e, half) THEN 1 ELSE 2)
  BY <1>2, Zenon DEF ServiceCoefficient
<1>4. Statute(s, e) =
          2 * years + (IF e = anniversary THEN 0 ELSE IF K % 12 >= 6 THEN 2 ELSE 1)
  BY <1>1, <1>2, Zenon DEF Statute
<1>5. K % 12 >= 6 <=> ~Before(e, whole)
  <2>1. 12 * years + 6 \in Nat
    BY <1>2
  <2>2. Before(e, whole) <=> 12 * years + 6 > K
    BY <2>1, MonthIsOver
  <2> HIDE DEF whole
  <2>3. K % 12 \in 0..11 /\ K = 12 * years + (K % 12)
    BY <1>1
  <2> HIDE DEF years
  <2>4. QED
    BY <1>1, <1>2, <2>2, <2>3
<1>6. \/ half = whole
      \/ /\ s[2] = 2 /\ s[3] = 29
         /\ half = <<s[1] + years, 8, 28>> /\ whole = <<s[1] + years, 8, 29>>
  BY <1>2, HalfYear
<1> HIDE DEF K, years, anniversary, half, whole
<1>7. CASE half = whole
  BY <1>2, <1>3, <1>4, <1>5, <1>7 DEF CoefficientIsDue
<1>8. CASE /\ s[2] = 2 /\ s[3] = 29
           /\ half = <<s[1] + years, 8, 28>> /\ whole = <<s[1] + years, 8, 29>>
  <2>1. s[1] + years \in Nat /\ e[1] \in Nat /\ e[2] \in Nat /\ e[3] \in Nat
    BY <1>2, DateParts
  <2>2. \/ Before(e, half) <=> Before(e, whole)
        \/ /\ e[2] = 8 /\ e[3] = 28
           /\ ~Before(e, half) /\ Before(e, whole)
    BY <1>8, <2>1 DEF Before
  <2>3. QED
    BY <1>2, <1>3, <1>4, <1>5, <1>8, <2>2 DEF CoefficientIsDue
<1>9. QED
  BY <1>6, <1>7, <1>8

(* The amount is what is due for the coefficient, rounded to hundredths    *)
(* half up, for all wages below and above the cap.                         *)
LEMMA AmountFollowsCoefficient ==
    ASSUME NEW wage \in Nat, NEW average \in Nat, NEW halves \in Nat
    PROVE  AmountIsDue(wage, average, halves, Amount(wage, average, halves))
<1> DEFINE high == wage > 3 * average
           paid == IF high THEN 3 * average ELSE wage
           months == IF high /\ halves > 24 THEN 24 ELSE halves
           due == paid * months
<1>1. paid \in Nat /\ months \in Nat
  OBVIOUS
<1>2. due \in Nat
  <2> HIDE DEF paid, months
  <2>1. QED
    BY <1>1
<1>3. Amount(wage, average, halves) = (due + 10) \div 20
  BY Zenon DEF Amount
<1> HIDE DEF due
<1>4. 20 * ((due + 10) \div 20) - due \in -9..10
  BY <1>2
<1>5. QED
  BY <1>3, <1>4, Zenon DEF due, AmountIsDue
================================================================================
