----------------------------- MODULE Compensation -----------------------------
(***************************************************************************)
(* The arithmetic of deterministic_calculate in                            *)
(* src/proofflow/skills/calculation.py: length of service between two      *)
(* dates, the cap on high wages, and the amount; and the rule of the       *)
(* statute they are held against.  CasePipeline fills its sheet with them. *)
(*                                                                         *)
(* Data.  A date is <<year, month, day>> of the Gregorian calendar.        *)
(* Coefficients are counted in half months of wage, wages in thousandths   *)
(* and amounts in hundredths of the currency unit: with so few digits      *)
(* Decimal is exact.                                                       *)
(***************************************************************************)
EXTENDS Integers, FiniteSets

(* datetime.MAXYEAR.                                                       *)
MaxYear == 9999

(* calendar.monthrange(year, month)[1].                                    *)
MonthLength(year, month) ==
    IF month = 2
    THEN IF year % 4 = 0 /\ (year % 100 # 0 \/ year % 400 = 0) THEN 29 ELSE 28
    ELSE IF month \in {4, 6, 9, 11} THEN 30 ELSE 31

(* What datetime.date accepts; anything else raises.                       *)
IsDate(d) ==
    d[1] \in 1..MaxYear /\ d[2] \in 1..12 /\ d[3] \in 1..MonthLength(d[1], d[2])

Before(a, b) ==
    \/ a[1] < b[1]
    \/ a[1] = b[1] /\ a[2] < b[2]
    \/ a[1] = b[1] /\ a[2] = b[2] /\ a[3] < b[3]

(* The day of d in that month, or the last day of a shorter month.         *)
InMonth(year, month, d) ==
    <<year, month, IF d[3] <= MonthLength(year, month) THEN d[3] ELSE MonthLength(year, month)>>

(* _add_months, but for the check of datetime.date: see ServiceCountable.  *)
AddMonths(d, months) ==
    LET index == d[2] - 1 + months
    IN  InMonth(d[1] + index \div 12, (index % 12) + 1, d)

(* The last anniversary of s up to e, and how many years that makes.       *)
Anniversary(s, e) ==
    IF Before(e, InMonth(e[1], s[2], s))
    THEN InMonth(e[1] - 1, s[2], s)
    ELSE InMonth(e[1], s[2], s)
Years(s, e) ==
    e[1] - s[1] - (IF Before(e, InMonth(e[1], s[2], s)) THEN 1 ELSE 0)

(* _service_coefficient does not raise: the service does not end before it *)
(* begins, and the half year it may have to look for is in the calendar.   *)
ServiceCountable(s, e) ==
    /\ ~Before(e, s)
    /\ e # Anniversary(s, e) => AddMonths(Anniversary(s, e), 6)[1] <= MaxYear

(* A half year counts when it is over, not when it is complete.            *)
BadServiceCoefficient(s, e) ==
    LET anniversary == Anniversary(s, e)
    IN  2 * Years(s, e) +
        (IF e = anniversary THEN 0
         ELSE IF Before(AddMonths(anniversary, 6), e) THEN 2 ELSE 1)

(* _service_coefficient, in halves: full years, and for what follows the   *)
(* last anniversary a half, or a whole one from six months on.             *)
ServiceCoefficient(s, e) ==
    LET anniversary == Anniversary(s, e)
    IN  2 * Years(s, e) +
        (IF e = anniversary THEN 0
         ELSE IF Before(e, AddMonths(anniversary, 6)) THEN 1 ELSE 2)

(* The amount, ROUND_HALF_UP to hundredths: above three local averages     *)
(* the wage is cut to that, and the coefficient to twelve.                 *)
Amount(wage, average, halves) ==
    LET cap == 3 * average
        effective == IF wage > cap THEN cap ELSE wage
        counted == IF wage > cap /\ halves > 24 THEN 24 ELSE halves
    IN  (effective * counted + 10) \div 20

-----------------------------------------------------------------------------
(* Whole months of service, counted from the start without anniversaries.  *)
FullMonths(s, e) ==
    Cardinality({n \in 1..12 * (e[1] - s[1] + 1) : ~Before(e, AddMonths(s, n))})

(* The rule of article 47 as data/rules states it, counted in months: the  *)
(* months of a year that was not completed are a whole one from six on, a  *)
(* half below, and nothing on the anniversary itself.                      *)
Statute(s, e) ==
    LET months == FullMonths(s, e)
        years == months \div 12
    IN  2 * years + (IF e = AddMonths(s, 12 * years) THEN 0
                     ELSE IF months % 12 >= 6 THEN 2 ELSE 1)

(* What a coefficient may be: the statute's.  The one exception is an      *)
(* employment begun on a leap day, which reaches its half year a day early *)
(* in common years, because the six months are added to the anniversary    *)
(* that was moved.                                                         *)
CoefficientIsDue(s, e, coefficient) ==
    \/ coefficient = Statute(s, e)
    \/ /\ <<s[2], s[3], e[2], e[3]>> = <<2, 29, 8, 28>>
       /\ coefficient = Statute(s, e) + 1

(* What an amount may be: to the nearest hundredth the months of wage,     *)
(* both of them cut for a wage above three local averages.                 *)
AmountIsDue(wage, average, coefficient, amount) ==
    LET high == wage > 3 * average
        months == IF high /\ coefficient > 24 THEN 24 ELSE coefficient
        due == (IF high THEN 3 * average ELSE wage) * months
    IN  20 * amount - due \in -9..10
=============================================================================
