---------------------------- MODULE MCCasePipeline ----------------------------
(* Three families of cases.  Up to three documents out of every kind the   *)
(* skills tell apart, under the ordinary rules; whole or nearly whole sets *)
(* of documents under every kind of catalog, list of issues, date and      *)
(* jurisdiction; and the plain documents with every pair of dates around   *)
(* the places where the calendar is uneven.                                *)
EXTENDS CasePipeline

Start == "employment_start_date"
End == "planned_termination_date"
Wage == "monthly_wage_average"
Local == "local_previous_year_monthly_average_wage"
Contract == "contract_type"
OfAmount == "economic_compensation_amount"
OfBasis == "economic_compensation_wage_basis"

MCExtractable == RequiredFields \cup {Contract}

(* Texts that are a date, an amount, or neither.                           *)
Day(date) == [text |-> date, date |-> date, amount |-> 0]
Sum(amount) == [text |-> <<amount>>, date |-> NoDate, amount |-> amount]
Word(n) == [text |-> <<n>>, date |-> NoDate, amount |-> 0]

Json(id, fields) ==
    [id |-> id, media |-> "json", intact |-> TRUE, parses |-> TRUE, fields |-> fields]
Between(s, e) == Json("dates", Start :> Day(s) @@ End :> Day(e))
Paid(wage, average) == Json("wages", Wage :> Sum(wage) @@ Local :> Sum(average))

Dates == Between(<<2015, 3, 1>>, <<2016, 3, 1>>)
WageSlips == Paid(5550, 3000)
Documents ==
    {Dates, WageSlips,
     Json("repeats", Start :> Day(<<2015, 3, 1>>) @@ Contract :> Word(1)),
     Json("contradicts", Start :> Day(<<2015, 4, 1>>)),
     Json("respells", Start :> [Day(<<2015, 3, 1>>) EXCEPT !.text = <<2015>>]),
     Json("repeats", Contract :> Word(2)),
     Between(<<2015, 3, 1>>, <<2015, 2, 28>>),
     Json("nodate", End :> Word(1)),
     Json("nowage", Wage :> Word(1) @@ Local :> Sum(3000)),
     Paid(50000010, 40000000),
     Json("all", Start :> Day(<<2015, 3, 1>>) @@ End :> Day(<<2016, 3, 1>>) @@ Contract :> Word(1)),
     Json("others", "remark" :> Word(1)),
     [Dates EXCEPT !.media = "text"],
     [Dates EXCEPT !.media = "image"],
     [Dates EXCEPT !.parses = FALSE],
     [Dates EXCEPT !.intact = FALSE]}

Rule(key, issue, jurisdiction, from, to) ==
    [key |-> key, issue |-> issue, jurisdiction |-> jurisdiction, from |-> from, to |-> to]
National == Rule("r1", OfAmount, <<"CN">>, 0, 9)
Basis == Rule("r2", OfBasis, <<"CN">>, 0, 2)
Catalogs ==
    {<<National, Basis>>,
     <<National, Basis, Rule("r3", OfAmount, <<"CN", "ZJ">>, 2, 9)>>,
     <<National, Basis, Rule("r3", "notice", <<"CN", "SH">>, 0, 9)>>,
     <<National, Basis, Rule("r3", "notice", <<"CN", "ZJ">>, 0, 9)>>,
     <<National, Rule("r1", OfBasis, <<"CN">>, 0, 9)>>,
     <<National, Basis, Basis>>,
     <<National, Basis, Rule("r3", "", <<"CN">>, 0, 9)>>,
     <<[National EXCEPT !.jurisdiction = <<>>], [Basis EXCEPT !.jurisdiction = <<>>]>>}

(* As many issues as a request may name, and one more.                     *)
ManyIssues(n) == <<OfAmount, OfBasis>> \o [i \in 1..n - 2 |-> ToString(i)]
ManyRules ==
    <<National, Basis>>
    \o [i \in 1..MaxIssueCodes |-> Rule(ToString(i), ToString(i), <<"CN">>, 0, 9)]

CaseIn(jurisdiction, documents, issues, asOf, catalog) ==
    [documents |-> documents, issues |-> issues, jurisdiction |-> jurisdiction,
     asOf |-> asOf, catalog |-> catalog]
Case(documents, issues, asOf, catalog) ==
    CaseIn(<<"CN", "ZJ">>, documents, issues, asOf, catalog)
Plain(documents) == Case(documents, <<OfAmount, OfBasis>>, 2, <<National, Basis>>)

(* Starts around every place where the calendar is uneven: leap days, the  *)
(* ends of February, of months of 30 days and of the year.                 *)
Starts ==
    {<<2015, 2, 27>>, <<2015, 2, 28>>, <<2015, 3, 1>>, <<2016, 2, 28>>, <<2016, 2, 29>>,
     <<2016, 3, 1>>, <<2016, 8, 28>>, <<2016, 8, 29>>, <<2016, 8, 30>>, <<2016, 8, 31>>,
     <<2016, 9, 1>>, <<2016, 10, 31>>, <<2016, 12, 31>>, <<2017, 1, 1>>}

(* The days on which an anniversary or half year of those can fall, the    *)
(* days beside them, and one in the middle of the month.                   *)
EndsUpTo(year) ==
    {<<y, m, d>> \in (2015..year) \X (1..12) \X ({1, 2, 15} \cup 26..31) : IsDate(<<y, m, d>>)}

(* Below, at and above three local averages, and a product that ends in    *)
(* half a hundredth; an employment that passes the cap of twelve years.    *)
Wages == {5550, 9000, 9001, 10010}

DatePairs ==
    {<<s, e>> \in Starts \X EndsUpTo(2020) : ~Before(e, s)}
    \cup {<<<<9990, 6, 30>>, <<9999, 12, 31>>>>, <<<<9990, 7, 1>>, <<9999, 7, 1>>>>,
          <<<<9990, 7, 1>>, <<9999, 7, 2>>>>, <<<<9990, 8, 31>>, <<9999, 8, 1>>>>}

SomeCases ==
    {Plain(documents) : documents \in SeqOf(Documents, 3) \cup {<<Dates, Paid(50000000, 40000000)>>}}
    \cup
    {Case(documents, issues, asOf, catalog) :
        documents \in {<<Dates, WageSlips>>, <<WageSlips>>},
        issues \in {<<>>, <<OfAmount>>, <<OfAmount, OfBasis>>, <<OfBasis, OfAmount, "notice">>,
                    <<OfAmount, OfBasis, OfAmount>>, <<OfAmount, OfBasis, "">>},
        asOf \in 1..3, catalog \in Catalogs}
    \cup
    {CaseIn(<<>>, <<Dates, WageSlips>>, <<OfAmount, OfBasis>>, 2, catalog) : catalog \in Catalogs}
    \cup
    {Case(<<Dates, WageSlips>>, ManyIssues(n), 2, ManyRules) :
        n \in {MaxIssueCodes, MaxIssueCodes + 1}}
    \cup
    {Plain(<<Between(p[1], p[2]), WageSlips>>) : p \in DatePairs}
    \cup
    {Plain(<<Between(<<2007, 5, 31>>, e), Paid(wage, 3000)>>) :
        e \in EndsUpTo(2020), wage \in Wages}

(* TLC evaluates a definition once, but what replaces a constant each time *)
(* it is used: the constants are replaced by names of definitions.         *)
MCCases == SomeCases
=============================================================================
