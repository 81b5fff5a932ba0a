-------------------------- MODULE CasePipelineProofs --------------------------
(***************************************************************************)
(* Proofs about the preparation of a case, for every manifest, catalog and *)
(* set of extractable fields, every capacity of the evidence registry and  *)
(* every bound on amounts.                                                 *)
(***************************************************************************)
EXTENDS CasePipeline, CompensationProofs, FiniteSetTheorems, SequenceTheorems, TLAPS

(* How many of the documents are ingested, and what the first n hold.      *)
Done == Len(case.documents) - Len(todo)
Facts(n) == UNION {Extracted(case.documents[i]) : i \in 1..n}
AllFacts == UNION {Extracted(d) : d \in ToSet(case.documents)}

Ingestion ==
    /\ case \in Cases
    /\ todo \in Seq(ToSet(case.documents)) /\ Len(todo) <= Len(case.documents)
    /\ \A i \in 1..Len(todo) : todo[i] = case.documents[Done + i]
    /\ evidence = Facts(Done) /\ store = evidence
    /\ \A i \in 1..Done : IngestFault(case.documents[i]) = "none"
    /\ Cardinality(store) <= StoreCapacity

-----------------------------------------------------------------------------
(* What a manifest is.                                                     *)
LEMMA CaseTypes ==
    ASSUME case \in Cases
    PROVE  /\ case.documents \in Seq(ToSet(case.documents))
           /\ Len(case.documents) \in Nat /\ DOMAIN case.documents = 1..Len(case.documents)
           /\ ToSet(case.documents) = {case.documents[i] : i \in 1..Len(case.documents)}
           /\ case.issues \in Seq(ToSet(case.issues))
           /\ Len(case.issues) \in Nat /\ DOMAIN case.issues = 1..Len(case.issues)
           /\ ToSet(case.issues) = {case.issues[i] : i \in 1..Len(case.issues)}
           /\ Len(case.catalog) \in Nat /\ DOMAIN case.catalog = 1..Len(case.catalog)
           /\ ToSet(case.catalog) = {case.catalog[i] : i \in 1..Len(case.catalog)}
<1>1. /\ case.documents \in Seq(ToSet(case.documents))
      /\ case.issues \in Seq(ToSet(case.issues))
      /\ case.catalog \in Seq(ToSet(case.catalog))
  BY PipelineAssumption
<1>2. ASSUME NEW s, s \in Seq(ToSet(s))
      PROVE  Len(s) \in Nat /\ DOMAIN s = 1..Len(s) /\ ToSet(s) = {s[i] : i \in 1..Len(s)}
  <2>1. Len(s) \in Nat /\ DOMAIN s = 1..Len(s)
    BY <1>2
  <2>2. QED
    BY <2>1 DEF ToSet
<1>3. QED
  BY <1>1, <1>2

LEMMA FieldsAreFinite == ASSUME NEW d PROVE IsFiniteSet(Extracted(d))
<1>1. CASE d.media = "text"
  BY <1>1, FS_EmptySet DEF Extracted
<1>2. CASE d.media # "text"
  <2> DEFINE S == DOMAIN d.fields \cap Extractable
             f == [x \in S |-> [doc |-> d.id, field |-> x, value |-> d.fields[x]]]
  <2>1. IsFiniteSet(S)
    BY PipelineAssumption, FS_Subset
  <2>2. Extracted(d) = {f[x] : x \in S}
    BY <1>2 DEF Extracted
  <2> HIDE DEF S
  <2>3. f \in Surjection(S, Extracted(d))
    BY <2>2 DEF Surjection
  <2>4. QED
    BY <2>1, <2>3, FS_Surjection
<1>3. QED
  BY <1>1, <1>2

LEMMA ListsAreFinite ==
    ASSUME NEW s, s \in Seq(ToSet(s)) PROVE IsFiniteSet(ToSet(s))
<1>1. Len(s) \in Nat /\ DOMAIN s = 1..Len(s) /\ ToSet(s) = {s[i] : i \in 1..Len(s)}
  <2>1. Len(s) \in Nat /\ DOMAIN s = 1..Len(s)
    OBVIOUS
  <2>2. QED
    BY <2>1 DEF ToSet
<1>2. s \in Surjection(1..Len(s), ToSet(s))
  BY <1>1 DEF Surjection
<1>3. QED
  BY <1>1, <1>2, FS_Interval, FS_Surjection

LEMMA FactsAreFinite == ASSUME case \in Cases PROVE IsFiniteSet(AllFacts)
<1> DEFINE D == ToSet(case.documents)
           f == [d \in D |-> Extracted(d)]
           U == {Extracted(d) : d \in D}
<1>1. IsFiniteSet(D)
  BY CaseTypes, ListsAreFinite
<1> HIDE DEF D
<1>2. f \in Surjection(D, U)
  BY DEF Surjection
<1>3. IsFiniteSet(U)
  BY <1>1, <1>2, FS_Surjection
<1>4. \A T \in U : IsFiniteSet(T)
  BY FieldsAreFinite
<1>5. QED
  BY <1>3, <1>4, FS_UNION DEF AllFacts, D

(* What is ingested is part of all there is, and in the end all of it.     *)
LEMMA IngestedFacts ==
    ASSUME Ingestion
    PROVE  /\ Done \in 0..Len(case.documents) /\ Len(todo) \in Nat
           /\ evidence \subseteq AllFacts
           /\ IsFiniteSet(evidence)
           /\ todo = <<>> => Done = Len(case.documents) /\ evidence = AllFacts
<1>1. Len(case.documents) \in Nat /\ Len(todo) \in Nat /\ Len(todo) <= Len(case.documents)
  BY CaseTypes DEF Ingestion
<1>2. Done \in 0..Len(case.documents)
  BY <1>1 DEF Done
<1> DEFINE D == ToSet(case.documents)
           L == Len(case.documents)
           k == Done
<1>3. D = {case.documents[i] : i \in 1..L}
  BY CaseTypes DEF Ingestion
<1>4. k \in 0..L /\ L \in Nat
  BY <1>1, <1>2
<1>5. evidence = UNION {Extracted(case.documents[i]) : i \in 1..k}
  BY DEF Ingestion, Facts
<1>6. AllFacts = UNION {Extracted(d) : d \in D}
  BY DEF AllFacts
<1> HIDE DEF D, L, k
<1>7. evidence \subseteq AllFacts
  <2>1. SUFFICES ASSUME NEW e \in evidence PROVE e \in AllFacts
    OBVIOUS
  <2>2. PICK i \in 1..k : e \in Extracted(case.documents[i])
    BY <1>5
  <2>3. i \in 1..L
    BY <1>4
  <2>4. QED
    BY <1>6, <1>3, <2>2, <2>3
<1>8. IsFiniteSet(evidence)
  BY <1>7, FactsAreFinite, FS_Subset DEF Ingestion
<1>9. ASSUME todo = <<>> PROVE Done = Len(case.documents) /\ evidence = AllFacts
  <2>1. Done = Len(case.documents)
    BY <1>1, <1>9 DEF Done
  <2>2. k = L
    BY <2>1 DEF k, L
  <2>3. ASSUME NEW e \in AllFacts PROVE e \in evidence
    <3>1. PICK d \in D : e \in Extracted(d)
      BY <1>6
    <3>2. PICK i \in 1..L : d = case.documents[i]
      BY <1>3
    <3>3. QED
      BY <1>5, <2>2, <3>1, <3>2
  <2>4. QED
    BY <1>7, <2>1, <2>3
<1>10. QED
  BY <1>1, <1>2, <1>7, <1>8, <1>9

(* The values the skills see are the values the documents tell.            *)
LEMMA ValuesAreTold ==
    ASSUME Ingestion, todo = <<>>, NEW f \in Extractable
    PROVE  ValuesOf(f) = Told(f)
<1>1. evidence = AllFacts
  BY IngestedFacts
<1>2. ASSUME NEW v \in ValuesOf(f) PROVE v \in Told(f)
  <2>1. PICK e \in evidence : e.field = f /\ v = e.value
    BY <1>2 DEF ValuesOf
  <2>2. PICK d \in ToSet(case.documents) : e \in Extracted(d)
    BY <1>1, <2>1 DEF AllFacts
  <2>3. d.media # "text" /\ e \in {[doc |-> d.id, field |-> g, value |-> d.fields[g]] :
                                        g \in DOMAIN d.fields \cap Extractable}
    BY <2>2 DEF Extracted
  <2>4. f \in FieldsOf(d) /\ v = d.fields[f]
    BY <2>1, <2>3 DEF FieldsOf
  <2>5. QED
    BY <2>4 DEF Told
<1>3. ASSUME NEW v \in Told(f) PROVE v \in ValuesOf(f)
  <2>1. PICK d \in ToSet(case.documents) : f \in FieldsOf(d) /\ v = d.fields[f]
    BY <1>3 DEF Told
  <2> DEFINE e == [doc |-> d.id, field |-> f, value |-> d.fields[f]]
  <2>2. e \in Extracted(d)
    BY <2>1 DEF FieldsOf, Extracted
  <2>3. e \in evidence /\ e.field = f /\ e.value = v
    BY <1>1, <2>1, <2>2 DEF AllFacts
  <2>4. QED
    BY <2>3 DEF ValuesOf
<1>4. QED
  BY <1>2, <1>3

LEMMA FieldsAreExtractable ==
    ASSUME Ingestion, NEW e \in evidence PROVE e.field \in Extractable
<1>1. PICK d : e \in Extracted(d)
  BY DEF Ingestion, Facts
<1>2. QED
  BY <1>1 DEF Extracted

LEMMA ValuesAreFinite == ASSUME Ingestion, NEW f PROVE IsFiniteSet(ValuesOf(f))
<1> DEFINE S == {x \in evidence : x.field = f}
           g == [x \in S |-> x.value]
<1>1. IsFiniteSet(S)
  BY IngestedFacts, FS_Subset
<1>2. ValuesOf(f) = {g[x] : x \in S}
  BY DEF ValuesOf
<1> HIDE DEF S
<1>3. g \in Surjection(S, ValuesOf(f))
  BY <1>2 DEF Surjection
<1>4. QED
  BY <1>1, <1>3, FS_Surjection

LEMMA AtMostOne ==
    ASSUME NEW S, IsFiniteSet(S), Cardinality(S) <= 1, NEW a \in S, NEW b \in S
    PROVE  a = b
<1>1. SUFFICES ASSUME a # b PROVE FALSE
  OBVIOUS
<1> DEFINE pair == {a} \cup {b}
<1>2. IsFiniteSet({a}) /\ Cardinality({a}) = 1
  BY FS_Singleton
<1>3. Cardinality(pair) = 1 + 1
  BY <1>1, <1>2, FS_AddElement
<1>4. pair \subseteq S
  OBVIOUS
<1> HIDE DEF pair
<1>5. Cardinality(pair) <= Cardinality(S) /\ Cardinality(S) \in Nat
  BY <1>4, FS_Subset, FS_CardinalityType
<1>6. QED
  BY <1>3, <1>5

(* The conflicts the skills look for are the contradictions of the input.  *)
LEMMA NoConflictInConsistentFacts ==
    ASSUME Ingestion, todo = <<>>
    PROVE  /\ Conflicting = {} <=> FactsConsistent
           /\ FactsConsistent => BlockerConflicts = {}
<1>1. ASSUME NEW f \in Extractable
      PROVE  /\ ValuesOf(f) = Told(f)
             /\ IsFiniteSet(ValuesOf(f)) /\ Cardinality(ValuesOf(f)) \in Nat
  <2>1. IsFiniteSet(ValuesOf(f))
    BY ValuesAreFinite
  <2>2. QED
    BY <2>1, ValuesAreTold, FS_CardinalityType
<1>2. ASSUME Conflicting = {} PROVE FactsConsistent
  <2>1. SUFFICES ASSUME NEW f \in Extractable PROVE Cardinality(Told(f)) <= 1
    BY DEF FactsConsistent
  <2>2. CASE \E e \in evidence : e.field = f
    <3>1. f \in {e.field : e \in evidence}
      BY <2>2
    <3>2. ~(Cardinality(ValuesOf(f)) > 1)
      BY <1>2, <3>1 DEF Conflicting
    <3>3. QED
      BY <1>1, <3>2
  <2>3. CASE ~(\E e \in evidence : e.field = f)
    <3>1. ValuesOf(f) = {}
      BY <2>3 DEF ValuesOf
    <3>2. Cardinality(Told(f)) = 0
      BY <1>1, <3>1, FS_EmptySet
    <3>3. QED
      BY <3>2
  <2>4. QED
    BY <2>2, <2>3
<1>3. ASSUME FactsConsistent PROVE Conflicting = {}
  <2>1. SUFFICES ASSUME NEW f \in Conflicting PROVE FALSE
    OBVIOUS
  <2>2. f \in {e.field : e \in evidence} /\ Cardinality(ValuesOf(f)) > 1
    BY <2>1 DEF Conflicting
  <2>3. f \in Extractable
    BY <2>2, FieldsAreExtractable
  <2>4. Cardinality(Told(f)) <= 1
    BY <1>3, <2>3 DEF FactsConsistent
  <2>5. QED
    BY <1>1, <2>2, <2>3, <2>4
<1>4. ASSUME FactsConsistent PROVE BlockerConflicts = {}
  <2>1. SUFFICES ASSUME NEW f \in BlockerConflicts PROVE FALSE
    OBVIOUS
  <2>2. f \in Extractable
    BY <2>1 DEF BlockerConflicts
  <2>3. PICK a \in evidence, b \in evidence : a.field = f /\ b.field = f /\ a.value # b.value
    BY <2>1 DEF BlockerConflicts
  <2>4. a.value \in ValuesOf(f) /\ b.value \in ValuesOf(f)
    BY <2>3 DEF ValuesOf
  <2>5. Cardinality(ValuesOf(f)) <= 1
    BY <1>1, <1>4, <2>2 DEF FactsConsistent
  <2>6. QED
    BY <1>1, <2>2, <2>3, <2>4, <2>5, AtMostOne
<1>5. QED
  BY <1>2, <1>3, <1>4

(* Of consistent facts the value that is calculated with is the one told.  *)
LEMMA OneValueTold ==
    ASSUME Ingestion, todo = <<>>, FactsConsistent, NEW f \in Extractable, NEW v \in Told(f)
    PROVE  v = ValueOf(f)
<1>1. ValuesOf(f) = Told(f) /\ IsFiniteSet(ValuesOf(f))
  BY ValuesAreTold, ValuesAreFinite
<1>2. Cardinality(ValuesOf(f)) <= 1
  BY <1>1 DEF FactsConsistent
<1>3. ValueOf(f) \in ValuesOf(f)
  BY <1>1 DEF ValueOf
<1>4. QED
  BY <1>1, <1>2, <1>3, AtMostOne

(* What is cited is what is in force.                                      *)
LEMMA CitationsAreInForce ==
    ASSUME case \in Cases
    PROVE  /\ Citations(case) = {case.catalog[i] : i \in RulesInForce}
           /\ RulesInForce \subseteq 1..Len(case.catalog)
           /\ \A issue \in ToSet(case.issues) :
                 MatchingRuleRecords(case, issue) # {}
                 <=> \E i \in RulesInForce : case.catalog[i].issue = issue
<1>1. /\ DOMAIN case.catalog = 1..Len(case.catalog)
      /\ ToSet(case.catalog) = {case.catalog[i] : i \in 1..Len(case.catalog)}
  BY CaseTypes
<1>2. RulesInForce \subseteq 1..Len(case.catalog)
  BY <1>1 DEF RulesInForce
<1>3. ASSUME NEW issue \in ToSet(case.issues), NEW rule \in MatchingRuleRecords(case, issue)
      PROVE  \E i \in RulesInForce : case.catalog[i] = rule /\ rule.issue = issue
  <2>1. /\ rule \in ToSet(case.catalog) /\ rule.issue = issue
        /\ InForce(rule)
    BY <1>3 DEF MatchingRuleRecords, Applies, InForce
  <2>2. PICK i \in 1..Len(case.catalog) : case.catalog[i] = rule
    BY <1>1, <2>1
  <2>3. i \in RulesInForce
    BY <1>1, <2>1, <2>2 DEF RulesInForce
  <2>4. QED
    BY <2>1, <2>2, <2>3
<1>4. ASSUME NEW i \in RulesInForce
      PROVE  /\ case.catalog[i].issue \in ToSet(case.issues)
             /\ case.catalog[i] \in MatchingRuleRecords(case, case.catalog[i].issue)
  <2>1. i \in 1..Len(case.catalog) /\ InForce(case.catalog[i])
        /\ case.catalog[i].issue \in ToSet(case.issues)
    BY <1>1 DEF RulesInForce
  <2>2. case.catalog[i] \in ToSet(case.catalog)
    BY <1>1, <2>1
  <2>3. QED
    BY <2>1, <2>2 DEF MatchingRuleRecords, Applies, InForce
<1>5. Citations(case) \subseteq {case.catalog[i] : i \in RulesInForce}
  BY <1>3 DEF Citations
<1>6. {case.catalog[i] : i \in RulesInForce} \subseteq Citations(case)
  BY <1>4 DEF Citations
<1>7. QED
  BY <1>2, <1>3, <1>4, <1>5, <1>6

(* Issues are listed once each exactly if they are as many as positions.   *)
LEMMA IssuesListedOnce ==
    ASSUME case \in Cases
    PROVE  Cardinality(ToSet(case.issues)) = Len(case.issues)
           <=> \A m, n \in DOMAIN case.issues : case.issues[m] = case.issues[n] => m = n
<1> DEFINE s == case.issues
           P == 1..Len(s)
           T == ToSet(s)
<1>1. s \in Seq(T) /\ Len(s) \in Nat /\ DOMAIN s = P /\ T = {s[i] : i \in P}
  BY CaseTypes
<1>2. IsFiniteSet(P) /\ Cardinality(P) = Len(s)
  BY <1>1, FS_Interval
<1> HIDE DEF s, P, T
<1>3. s \in [P -> T]
  BY <1>1 DEF P
<1>4. s \in Surjection(P, T)
  BY <1>1, <1>3 DEF Surjection
<1>5. Cardinality(T) = Cardinality(P) <=> s \in Injection(P, T)
  BY <1>2, <1>4, FS_Surjection
<1>6. s \in Injection(P, T) <=> \A m, n \in P : s[m] = s[n] => m = n
  BY <1>3 DEF Injection, IsInjective
<1>7. Cardinality(T) = Len(s) <=> \A m, n \in DOMAIN s : s[m] = s[n] => m = n
  BY <1>1, <1>2, <1>5, <1>6
<1>8. QED
  BY <1>7 DEF s, T

(* A rule in force is the only record with its key exactly if the catalog  *)
(* knows it once.                                                          *)
LEMMA RecordsMatchOnce ==
    ASSUME case \in Cases, NEW i \in RulesInForce
    PROVE  MatchesCatalog(case.catalog[i])
           <=> \A j \in DOMAIN case.catalog : case.catalog[i].key = case.catalog[j].key => i = j
<1> DEFINE K == {j \in DOMAIN case.catalog : case.catalog[j].key = case.catalog[i].key}
<1>1. i \in DOMAIN case.catalog
  BY DEF RulesInForce
<1>2. i \in K /\ K \subseteq 1..Len(case.catalog) /\ Len(case.catalog) \in Nat
  BY <1>1, CaseTypes
<1>3. IsFiniteSet(K)
  <2>1. IsFiniteSet(1..Len(case.catalog))
    BY <1>2, FS_Interval
  <2>2. QED
    BY <1>2, <2>1, FS_Subset
<1>4. MatchesCatalog(case.catalog[i]) <=> Cardinality(K) = 1
  BY DEF MatchesCatalog
<1>5. K = {i} <=> \A j \in DOMAIN case.catalog : case.catalog[i].key = case.catalog[j].key => i = j
  BY <1>1
<1> HIDE DEF K
<1>6. Cardinality(K) = 1 <=> \E x : K = {x}
  BY <1>3, FS_Singleton
<1>7. (\E x : K = {x}) <=> K = {i}
  BY <1>2
<1>8. QED
  BY <1>4, <1>5, <1>6, <1>7

(* What retrieval and calculation ask of the rules is what the operator    *)
(* would ask of the catalog.                                               *)
LEMMA RulesAreJudgedFromTheInput ==
    ASSUME case \in Cases
    PROVE  RulesComplete <=>
              /\ RetrieveFault(case) = "none"
              /\ \A rule \in Citations(case) : MatchesCatalog(rule)
              /\ RequiredRuleIssues \subseteq {rule.issue : rule \in Citations(case)}
<1> DEFINE I == ToSet(case.issues)
           Once == \A m, n \in DOMAIN case.issues : case.issues[m] = case.issues[n] => m = n
           Covered == \A issue \in I : \E i \in RulesInForce : case.catalog[i].issue = issue
           Small == /\ Len(case.issues) <= MaxIssueCodes
                    /\ case.jurisdiction # <<>> /\ "" \notin I
           Known == \A i \in RulesInForce, j \in DOMAIN case.catalog :
                        case.catalog[i].key = case.catalog[j].key => i = j
           C == Citations(case)
<1>1. RulesComplete <=> Small /\ RequiredRuleIssues \subseteq I /\ Once /\ Covered /\ Known
  BY DEF RulesComplete
<1>2. C = {case.catalog[i] : i \in RulesInForce}
  BY CitationsAreInForce
<1>3. RetrieveFault(case) = "none" <=> Small /\ Len(case.issues) >= 1 /\ Once /\ Covered
  <2>1. Covered <=> \A issue \in I : MatchingRuleRecords(case, issue) # {}
    BY CitationsAreInForce
  <2>2. Once <=> Cardinality(I) = Len(case.issues)
    BY IssuesListedOnce
  <2>3. RetrieveFault(case) = "none" <=>
          /\ RequestValid(case)
          /\ \A issue \in I : MatchingRuleRecords(case, issue) # {}
    BY DEF RetrieveFault
  <2>4. RequestValid(case) <=>
          Small /\ Len(case.issues) >= 1 /\ Cardinality(I) = Len(case.issues)
    <3>1. Len(case.issues) \in 1..MaxIssueCodes
          <=> Len(case.issues) >= 1 /\ Len(case.issues) <= MaxIssueCodes
      <4> DEFINE n == Len(case.issues)
      <4>1. n \in Nat
        BY CaseTypes
      <4> HIDE DEF n
      <4>2. n \in 1..32 <=> n >= 1 /\ n <= 32
        BY <4>1
      <4>3. QED
        BY <4>2 DEF n, MaxIssueCodes
    <3>2. QED
      BY <3>1 DEF RequestValid
  <2>5. QED
    BY <2>1, <2>2, <2>3, <2>4
<1>4. Known <=> \A rule \in C : MatchesCatalog(rule)
  BY <1>2, RecordsMatchOnce
<1>5. \A issue \in I : (\E i \in RulesInForce : case.catalog[i].issue = issue)
                       <=> issue \in {rule.issue : rule \in C}
  BY <1>2
<1>6. {rule.issue : rule \in C} \subseteq I
  BY <1>2 DEF RulesInForce
<1>7. I # {} => Len(case.issues) >= 1
  BY CaseTypes
<1>8. RequiredRuleIssues # {}
  BY DEF RequiredRuleIssues
<1> HIDE DEF I, Once, Covered, Known, Small, C
<1>9. Covered <=> \A issue \in I : issue \in {rule.issue : rule \in C}
  BY <1>5 DEF Covered
<1>10. QED
  BY <1>1, <1>3, <1>4, <1>6, <1>7, <1>8, <1>9 DEF C

(* What the calculation finds wrong is wrong with the input.               *)
LEMMA CalculationJudgesTheInput ==
    ASSUME Ingestion, todo = <<>>, RetrieveFault(case) = "none", rules = Citations(case)
    PROVE  CalculateFault = "none" <=>
              FactsConsistent /\ FactsComplete /\ ServiceInRange /\ RulesComplete
<1>1. case \in Cases /\ evidence \subseteq store
  BY DEF Ingestion
<1>2. \A f \in RequiredFields : ValuesOf(f) = Told(f)
  BY ValuesAreTold, PipelineAssumption
<1>3. DateFields \subseteq RequiredFields /\ AmountFields \subseteq RequiredFields
  BY DEF RequiredFields
<1>4. ASSUME FactsConsistent, \A f \in RequiredFields : ValuesOf(f) # {}
      PROVE  ParametersValid /\ Calculated.amount <= MaxAmount
             <=> FactsComplete /\ ServiceInRange
  <2> DEFINE s == ValueOf("employment_start_date")
             e == ValueOf("planned_termination_date")
             wage == ValueOf("monthly_wage_average")
             average == ValueOf("local_previous_year_monthly_average_wage")
  <2>1. ASSUME NEW f \in RequiredFields PROVE Told(f) = {ValueOf(f)}
    <3>1. \A v \in Told(f) : v = ValueOf(f)
      BY <1>4, OneValueTold, PipelineAssumption
    <3>2. Told(f) # {}
      BY <1>2, <1>4
    <3>3. QED
      BY <3>1, <3>2
  <2>2. /\ Told("employment_start_date") = {s} /\ Told("planned_termination_date") = {e}
        /\ Told("monthly_wage_average") = {wage}
        /\ Told("local_previous_year_monthly_average_wage") = {average}
    BY <2>1 DEF RequiredFields, DateFields, AmountFields
  <2>3. Calculated = SheetOf(s, e, wage, average)
    BY DEF Calculated
  <2>4. /\ ValuesOf("employment_start_date") = {s}
        /\ ValuesOf("planned_termination_date") = {e}
    BY <1>2, <2>2 DEF RequiredFields, DateFields
  <2> HIDE DEF s, e, wage, average
  <2>5. ServiceInRange <=>
          ServiceCountable(s.date, e.date) /\ SheetOf(s, e, wage, average).amount <= MaxAmount
    BY <2>2 DEF ServiceInRange
  <2>6. ParametersValid <=> FactsComplete /\ ServiceCountable(s.date, e.date)
    <3>1. FactsComplete <=> /\ \A f \in DateFields : \A v \in ValuesOf(f) : v.date # NoDate
                            /\ \A f \in AmountFields : \A v \in ValuesOf(f) : v.amount # 0
      BY <1>2, <1>3, <1>4 DEF FactsComplete
    <3>2. QED
      BY <2>4, <3>1 DEF ParametersValid
  <2>7. QED
    BY <2>3, <2>5, <2>6
<1>5. Conflicting = {} <=> FactsConsistent
  BY NoConflictInConsistentFacts
<1>6. RulesComplete <=> /\ \A rule \in rules : MatchesCatalog(rule)
                        /\ RequiredRuleIssues \subseteq {rule.issue : rule \in rules}
  BY <1>1, RulesAreJudgedFromTheInput
<1>7. CalculateFault = "none" <=>
        /\ \A rule \in rules : MatchesCatalog(rule)
        /\ evidence \subseteq store
        /\ rules = Citations(case)
        /\ Conflicting = {}
        /\ \A f \in RequiredFields : ValuesOf(f) # {}
        /\ RequiredRuleIssues \subseteq {rule.issue : rule \in rules}
        /\ ParametersValid
        /\ Calculated.amount <= MaxAmount
  BY DEF CalculateFault
<1>8. FactsComplete => \A f \in RequiredFields : ValuesOf(f) # {}
  BY <1>2 DEF FactsComplete
<1>9. QED
  BY <1>1, <1>4, <1>5, <1>6, <1>7, <1>8

(* A case without evidence, or with an illegible date, is not whole.       *)
LEMMA WholeCasesTellFacts ==
    ASSUME Ingestion, todo = <<>>, FactsComplete
    PROVE  /\ evidence # {}
           /\ \A f \in DateFields : \A v \in ValuesOf(f) : v.date # NoDate
<1>1. DateFields \subseteq RequiredFields /\ RequiredFields \subseteq Extractable
      /\ "employment_start_date" \in DateFields
  BY PipelineAssumption DEF RequiredFields, DateFields
<1>2. \A f \in DateFields : ValuesOf(f) = Told(f) /\ Told(f) # {}
  BY <1>1, ValuesAreTold DEF FactsComplete
<1>3. ValuesOf("employment_start_date") # {}
  BY <1>1, <1>2
<1>4. evidence # {}
  BY <1>3 DEF ValuesOf
<1>5. QED
  BY <1>2, <1>4 DEF FactsComplete

-----------------------------------------------------------------------------
(* The trace of a case that has come so far: n documents ingested, and the *)
(* stages after them.                                                      *)
IngestEvent == <<"skill.evidence_ingest", "PF-A2">>
Ingested(n) == <<TransitionEvent>> \o [i \in 1..n |-> IngestEvent]
ToFacts == <<<<"skill.timeline_build", "PF-A2">>, TransitionEvent>>
ToRules == ToFacts \o <<<<"skill.rule_retrieve", "PF-A3">>, TransitionEvent>>
ToSheet == ToRules \o <<<<"skill.deterministic_calculate", "PF-A4">>, TransitionEvent>>
ToProposal == ToSheet \o <<<<"strategy.proposal_generate", "PF-A5">>, TransitionEvent>>

EventSet ==
    {TransitionEvent, IngestEvent,
     <<"skill.timeline_build", "PF-A2">>, <<"skill.rule_retrieve", "PF-A3">>,
     <<"skill.deterministic_calculate", "PF-A4">>, <<"strategy.proposal_generate", "PF-A5">>,
     <<"skill.conflict_detect", "PF-A6">>, <<"skill.decision_audit", "PF-A6">>}

LEMMA IngestedTrace ==
    ASSUME NEW n \in Nat
    PROVE  /\ Ingested(n) \in Seq(EventSet) /\ Len(Ingested(n)) = n + 1
           /\ \A i \in 1..n : Ingested(n)[i + 1] = IngestEvent
           /\ Append(Ingested(n), IngestEvent) = Ingested(n + 1)
<1> DEFINE first == <<TransitionEvent>>
           many(k) == [i \in 1..k |-> IngestEvent]
<1>1. TransitionEvent \in EventSet /\ IngestEvent \in EventSet
  BY DEF EventSet
<1>2. \A k \in Nat : many(k) \in Seq(EventSet) /\ Len(many(k)) = k
  BY <1>1
<1>3. first \in Seq(EventSet) /\ Len(first) = 1
  BY <1>1
<1>4. \A k \in Nat : Ingested(k) = first \o many(k)
  BY DEF Ingested
<1> HIDE DEF first
<1>5. ASSUME NEW k \in Nat
      PROVE  /\ Ingested(k) \in Seq(EventSet) /\ Len(Ingested(k)) = k + 1
             /\ Ingested(k)[1] = first[1]
             /\ \A i \in 1..k : Ingested(k)[i + 1] = IngestEvent
  <2> DEFINE m == many(k)
  <2>1. m \in Seq(EventSet) /\ Len(m) = k /\ Ingested(k) = first \o m
        /\ \A i \in 1..k : m[i] = IngestEvent
    BY <1>2, <1>4
  <2> HIDE DEF m
  <2>2. /\ first \o m \in Seq(EventSet) /\ Len(first \o m) = 1 + k
        /\ \A i \in 1..(1 + k) : (first \o m)[i] = IF i <= 1 THEN first[i] ELSE m[i - 1]
    <3>1. /\ first \o m \in Seq(EventSet) /\ Len(first \o m) = Len(first) + Len(m)
          /\ \A i \in 1..(Len(first) + Len(m)) :
                 (first \o m)[i] = IF i <= Len(first) THEN first[i] ELSE m[i - Len(first)]
      BY <1>3, <2>1, ConcatProperties
    <3>2. QED
      BY <1>3, <2>1, <3>1
  <2>3. QED
    BY <2>1, <2>2
<1> DEFINE s == Ingested(n)
           t == Ingested(n + 1)
<1>6. /\ s \in Seq(EventSet) /\ Len(s) = n + 1 /\ s[1] = first[1]
      /\ \A i \in 1..n : s[i + 1] = IngestEvent
  BY <1>5
<1>7. /\ t \in Seq(EventSet) /\ Len(t) = n + 2 /\ t[1] = first[1]
      /\ \A i \in 1..(n + 1) : t[i + 1] = IngestEvent
  BY <1>5
<1> HIDE DEF s, t
<1>8. Append(s, IngestEvent) = t
  <2> DEFINE u == Append(s, IngestEvent)
  <2>1. u \in Seq(EventSet) /\ Len(u) = n + 2 /\ u[n + 2] = IngestEvent
        /\ \A i \in 1..(n + 1) : u[i] = s[i]
    BY <1>1, <1>6
  <2> HIDE DEF u
  <2>2. ASSUME NEW i \in 1..(n + 2) PROVE u[i] = t[i]
    <3>1. CASE i = 1
      BY <1>6, <1>7, <2>1, <3>1
    <3>2. CASE i \in 2..(n + 1)
      <4>1. i - 1 \in 1..n /\ i - 1 \in 1..(n + 1) /\ (i - 1) + 1 = i
        BY <3>2
      <4>2. s[i] = IngestEvent /\ t[i] = IngestEvent
        BY <1>6, <1>7, <4>1
      <4>3. QED
        BY <2>1, <3>2, <4>2
    <3>3. CASE i = n + 2
      <4>1. n + 1 \in 1..(n + 1) /\ (n + 1) + 1 = n + 2
        OBVIOUS
      <4>2. t[n + 2] = IngestEvent
        BY <1>7, <4>1
      <4>3. QED
        BY <2>1, <3>3, <4>2
    <3>4. QED
      BY <3>1, <3>2, <3>3
  <2>3. QED
    BY <1>7, <2>1, <2>2, SeqEqual DEF u
<1>9. QED
  BY <1>6, <1>8 DEF s, t

(* Two elements more, and a sequence as the tuple of its elements.         *)
LEMMA PairAdded ==
    ASSUME NEW S, NEW s \in Seq(S), NEW a \in S, NEW b \in S
    PROVE  /\ s \o <<a, b>> \in Seq(S) /\ Len(s \o <<a, b>>) = Len(s) + 2
           /\ \A i \in 1..Len(s) : (s \o <<a, b>>)[i] = s[i]
           /\ (s \o <<a, b>>)[Len(s) + 1] = a /\ (s \o <<a, b>>)[Len(s) + 2] = b
           /\ s \o <<a, b>> = s \o <<a>> \o <<b>>
<1>1. s \o <<a>> = Append(s, a) /\ Append(s, a) \in Seq(S)
  OBVIOUS
<1>2. Append(s, a) \o <<b>> = Append(Append(s, a), b)
  BY <1>1
<1>3. s \o <<a, b>> = Append(Append(s, a), b)
  OBVIOUS
<1>4. s \o <<a, b>> = s \o <<a>> \o <<b>>
  BY <1>1, <1>2, <1>3
<1>5. s \o <<a, b>> \in Seq(S) /\ Len(s \o <<a, b>>) = Len(s) + 2
  OBVIOUS
<1>6. /\ \A i \in 1..Len(s) : (s \o <<a, b>>)[i] = s[i]
      /\ (s \o <<a, b>>)[Len(s) + 1] = a /\ (s \o <<a, b>>)[Len(s) + 2] = b
  OBVIOUS
<1>7. QED
  BY <1>4, <1>5, <1>6

LEMMA ElevenElements ==
    ASSUME NEW t, NEW a, NEW b, NEW c, NEW d, NEW e, NEW f
    PROVE  <<a, t>> \o <<b, t>> \o <<c, t>> \o <<d, t>> \o <<e, f>> \o <<t>>
             = <<a, t, b, t, c, t, d, t, e, f, t>>
<1> DEFINE S == {t, a, b, c, d, e, f}
<1>1. t \in S /\ a \in S /\ b \in S /\ c \in S /\ d \in S /\ e \in S /\ f \in S
  OBVIOUS
<1> HIDE DEF S
<1> DEFINE s1 == <<a, t>>
           s2 == s1 \o <<b, t>>
           s3 == s2 \o <<c, t>>
           s4 == s3 \o <<d, t>>
           s5 == s4 \o <<e, f>>
           s6 == s5 \o <<t>>
           u == <<a, t, b, t, c, t, d, t, e, f, t>>
<1>2. s1 \in Seq(S) /\ Len(s1) = 2 /\ s1[1] = a /\ s1[2] = t
  BY <1>1
<1> HIDE DEF s1
<1>3. /\ s2 \in Seq(S) /\ Len(s2) = 4
      /\ s2[1] = a /\ s2[2] = t /\ s2[3] = b /\ s2[4] = t
  <2>1. s1 \in Seq(S)
    BY <1>2
  <2>2. /\ s2 \in Seq(S) /\ Len(s2) = Len(s1) + 2
        /\ \A i \in 1..Len(s1) : s2[i] = s1[i]
        /\ s2[Len(s1) + 1] = b /\ s2[Len(s1) + 2] = t
    BY <1>1, <2>1, PairAdded
  <2> HIDE DEF s2
  <2>3. QED
    BY <1>2, <2>2
<1> HIDE DEF s2
<1>4. /\ s3 \in Seq(S) /\ Len(s3) = 6
      /\ s3[1] = a /\ s3[2] = t /\ s3[3] = b /\ s3[4] = t /\ s3[5] = c /\ s3[6] = t
  <2>1. s2 \in Seq(S)
    BY <1>3
  <2>2. /\ s3 \in Seq(S) /\ Len(s3) = Len(s2) + 2
        /\ \A i \in 1..Len(s2) : s3[i] = s2[i]
        /\ s3[Len(s2) + 1] = c /\ s3[Len(s2) + 2] = t
    BY <1>1, <2>1, PairAdded
  <2> HIDE DEF s3
  <2>3. QED
    BY <1>3, <2>2
<1> HIDE DEF s3
<1>5. /\ s4 \in Seq(S) /\ Len(s4) = 8
      /\ s4[1] = a /\ s4[2] = t /\ s4[3] = b /\ s4[4] = t /\ s4[5] = c /\ s4[6] = t
      /\ s4[7] = d /\ s4[8] = t
  <2>1. s3 \in Seq(S)
    BY <1>4
  <2>2. /\ s4 \in Seq(S) /\ Len(s4) = Len(s3) + 2
        /\ \A i \in 1..Len(s3) : s4[i] = s3[i]
        /\ s4[Len(s3) + 1] = d /\ s4[Len(s3) + 2] = t
    BY <1>1, <2>1, PairAdded
  <2> HIDE DEF s4
  <2>3. QED
    BY <1>4, <2>2
<1> HIDE DEF s4
<1>6. /\ s5 \in Seq(S) /\ Len(s5) = 10
      /\ s5[1] = a /\ s5[2] = t /\ s5[3] = b /\ s5[4] = t /\ s5[5] = c /\ s5[6] = t
      /\ s5[7] = d /\ s5[8] = t /\ s5[9] = e /\ s5[10] = f
  <2>1. s4 \in Seq(S)
    BY <1>5
  <2>2. /\ s5 \in Seq(S) /\ Len(s5) = Len(s4) + 2
        /\ \A i \in 1..Len(s4) : s5[i] = s4[i]
        /\ s5[Len(s4) + 1] = e /\ s5[Len(s4) + 2] = f
    BY <1>1, <2>1, PairAdded
  <2> HIDE DEF s5
  <2>3. QED
    BY <1>5, <2>2
<1> HIDE DEF s5
<1>7. s6 = Append(s5, t)
  BY <1>1, <1>6
<1>8. /\ s6 \in Seq(S) /\ Len(s6) = 11
      /\ s6[1] = a /\ s6[2] = t /\ s6[3] = b /\ s6[4] = t /\ s6[5] = c /\ s6[6] = t
      /\ s6[7] = d /\ s6[8] = t /\ s6[9] = e /\ s6[10] = f /\ s6[11] = t
  <2>1. s5 \in Seq(S)
    BY <1>6
  <2>2. /\ s6 \in Seq(S) /\ Len(s6) = Len(s5) + 1 /\ s6[Len(s5) + 1] = t
        /\ \A i \in 1..Len(s5) : s6[i] = s5[i]
    BY <1>1, <1>7, <2>1
  <2> HIDE DEF s6
  <2>3. QED
    BY <1>6, <2>2
<1> HIDE DEF s6
<1>9. /\ u \in Seq(S) /\ Len(u) = 11
      /\ u[1] = a /\ u[2] = t /\ u[3] = b /\ u[4] = t /\ u[5] = c /\ u[6] = t
      /\ u[7] = d /\ u[8] = t /\ u[9] = e /\ u[10] = f /\ u[11] = t
  BY <1>1
<1> HIDE DEF u
<1>10. \A i \in 1..11 : s6[i] = u[i]
  BY <1>8, <1>9
<1>11. s6 = u
  BY <1>8, <1>9, <1>10, SeqEqual
<1>12. QED
  BY <1>11 DEF s1, s2, s3, s4, s5, s6, u

(* The events of the stages are sequences of events, the last of them the  *)
(* ones expected after the documents.                                      *)
LEMMA EventsOfTheStages ==
    /\ TransitionEvent \in EventSet /\ IngestEvent \in EventSet
    /\ <<"skill.timeline_build", "PF-A2">> \in EventSet
    /\ <<"skill.rule_retrieve", "PF-A3">> \in EventSet
    /\ <<"skill.deterministic_calculate", "PF-A4">> \in EventSet
    /\ <<"strategy.proposal_generate", "PF-A5">> \in EventSet
    /\ <<"skill.conflict_detect", "PF-A6">> \in EventSet
    /\ <<"skill.decision_audit", "PF-A6">> \in EventSet
  BY DEF EventSet

LEMMA StageTraces ==
    /\ ToFacts \in Seq(EventSet) /\ Len(ToFacts) = 2
    /\ ToRules \in Seq(EventSet) /\ Len(ToRules) = 4
    /\ ToSheet \in Seq(EventSet) /\ Len(ToSheet) = 6
    /\ ToProposal \in Seq(EventSet) /\ Len(ToProposal) = 8
    /\ ToProposal[1] = <<"skill.timeline_build", "PF-A2">>
    /\ ToProposal[3] = <<"skill.rule_retrieve", "PF-A3">>
    /\ ToProposal[5] = <<"skill.deterministic_calculate", "PF-A4">>
    /\ ToProposal[7] = <<"strategy.proposal_generate", "PF-A5">>
<1> DEFINE t == TransitionEvent
           a == <<"skill.timeline_build", "PF-A2">>
           b == <<"skill.rule_retrieve", "PF-A3">>
           c == <<"skill.deterministic_calculate", "PF-A4">>
           d == <<"strategy.proposal_generate", "PF-A5">>
<1>1. t \in EventSet /\ a \in EventSet /\ b \in EventSet /\ c \in EventSet /\ d \in EventSet
  BY EventsOfTheStages
<1>2. /\ ToFacts = <<a, t>> /\ ToRules = ToFacts \o <<b, t>>
      /\ ToSheet = ToRules \o <<c, t>> /\ ToProposal = ToSheet \o <<d, t>>
  BY DEF ToFacts, ToRules, ToSheet, ToProposal
<1> HIDE DEF t, a, b, c, d
<1>3. ToFacts \in Seq(EventSet) /\ Len(ToFacts) = 2 /\ ToFacts[1] = a
  BY <1>1, <1>2
<1>4. ToRules \in Seq(EventSet) /\ Len(ToRules) = 4 /\ ToRules[1] = a /\ ToRules[3] = b
  BY <1>1, <1>2, <1>3, PairAdded
<1>5. /\ ToSheet \in Seq(EventSet) /\ Len(ToSheet) = 6
      /\ ToSheet[1] = a /\ ToSheet[3] = b /\ ToSheet[5] = c
  BY <1>1, <1>2, <1>4, PairAdded
<1>6. /\ ToProposal \in Seq(EventSet) /\ Len(ToProposal) = 8
      /\ ToProposal[1] = a /\ ToProposal[3] = b /\ ToProposal[5] = c /\ ToProposal[7] = d
  BY <1>1, <1>2, <1>5, PairAdded
<1>7. QED
  BY <1>3, <1>4, <1>5, <1>6 DEF a, b, c, d

(* One stage more on a trace: its event and the transition after it.       *)
LEMMA TraceGrows ==
    ASSUME NEW n \in Nat, NEW s \in Seq(EventSet), NEW event \in EventSet
    PROVE  /\ Ingested(n) \o s \in Seq(EventSet)
           /\ (Ingested(n) \o s) \o <<event>> \o <<TransitionEvent>>
                = Ingested(n) \o (s \o <<event, TransitionEvent>>)
<1>1. Ingested(n) \in Seq(EventSet)
  BY IngestedTrace
<1> DEFINE T == TransitionEvent
           r == Ingested(n)
<1>2. T \in EventSet /\ r \in Seq(EventSet)
  BY <1>1, EventsOfTheStages
<1> HIDE DEF T, r
<1>3. r \o s \in Seq(EventSet) /\ <<event, T>> \in Seq(EventSet)
  BY <1>2, ConcatProperties
<1>4. (r \o s) \o <<event>> \o <<T>> = (r \o s) \o <<event, T>>
  BY <1>2, <1>3, PairAdded
<1>5. (r \o s) \o <<event, T>> = r \o (s \o <<event, T>>)
  BY <1>2, <1>3, ConcatAssociative
<1>6. QED
  BY <1>3, <1>4, <1>5 DEF T, r

-----------------------------------------------------------------------------
(* Which transitions the state machine makes on the way to the gate.       *)
LEMMA TransitionsOfThePipeline ==
    ASSUME NEW value, NEW events, Len(trace \o events) \in Nat
    PROVE  /\ record.state = "RECEIVED" =>
                MayAdvance(events, "INGESTING", "manifest_valid", TRUE)
           /\ record.state = "INGESTING" =>
                (MayAdvance(events, "FACTS_READY", "evidence_complete", value) <=> value)
           /\ record.state = "FACTS_READY" =>
                (MayAdvance(events, "RULES_READY", "rules_valid", value) <=> value)
           /\ record.state = "RULES_READY" =>
                MayAdvance(events, "CALC_READY", "calculation_complete", TRUE)
           /\ record.state = "CALC_READY" =>
                (MayAdvance(events, "PROPOSAL_READY", "proposal_complete", value) <=> value)
           /\ record.state = "PROPOSAL_READY" =>
                MayAdvance(events, "AWAITING_APPROVAL", "audit_verdict", "PASS")
<1>1. Len(trace \o events) + 1 >= 1
  OBVIOUS
<1>2. QED
  BY <1>1 DEF MayAdvance, Machine!TransitionAllowed, Machine!ValidateGuard,
              Machine!ALLOWED_TRANSITIONS, ContextOf

-----------------------------------------------------------------------------
(* Past each stage, what it has settled, said of the input as far as it    *)
(* can be: once the sheet is drawn up the case is whole.                   *)
AfterFacts ==
    {"FACTS_READY", "RULES_READY", "CALC_READY", "PROPOSAL_READY", "AWAITING_APPROVAL"}
AfterRules == {"RULES_READY", "CALC_READY", "PROPOSAL_READY", "AWAITING_APPROVAL"}
AfterSheet == {"CALC_READY", "PROPOSAL_READY", "AWAITING_APPROVAL"}

(* The sheet is the one of the facts told.                                 *)
Drawn ==
    /\ sheet.made = TRUE
    /\ \A s \in Told("employment_start_date"), e \in Told("planned_termination_date"),
          wage \in Told("monthly_wage_average"),
          average \in Told("local_previous_year_monthly_average_wage") :
           sheet = SheetOf(s, e, wage, average)

StageInv ==
    /\ record.state = "RECEIVED" => todo = case.documents
    /\ record.state \in AfterFacts => todo = <<>> /\ evidence # {}
    /\ record.state \in AfterRules => RetrieveFault(case) = "none" /\ rules = Citations(case)
    /\ record.state \in AfterSheet =>
          Drawn /\ FactsConsistent /\ FactsComplete /\ ServiceInRange /\ RulesComplete

VerdictInv ==
    /\ record.state = "AWAITING_APPROVAL" => outcome = "ready"
    /\ outcome \notin {"running", "ready"} => ~Whole
    /\ verdict \in {"NONE", "PASS"}

TraceInv ==
    outcome \in {"running", "ready"} =>
        /\ record.state = "RECEIVED" => trace = <<>>
        /\ record.state = "INGESTING" => trace = Ingested(Done)
        /\ record.state = "FACTS_READY" => trace = Ingested(Done) \o ToFacts
        /\ record.state = "RULES_READY" => trace = Ingested(Done) \o ToRules
        /\ record.state = "CALC_READY" => trace = Ingested(Done) \o ToSheet
        /\ record.state = "PROPOSAL_READY" => trace = Ingested(Done) \o ToProposal
        /\ record.state = "AWAITING_APPROVAL" => trace = ExpectedEvents(Done)

PipelineInv == Ingestion /\ StageInv /\ VerdictInv /\ TraceInv

LEMMA PipelineInit == ASSUME Init PROVE PipelineInv
<1>1. case \in Cases /\ todo = case.documents
  BY DEF Init
<1>2. /\ case.documents \in Seq(ToSet(case.documents)) /\ Len(case.documents) \in Nat
  BY <1>1, CaseTypes
<1>3. Done = 0 /\ Len(todo) = Len(case.documents)
  BY <1>1, <1>2 DEF Done
<1>4. Facts(0) = {}
  BY DEF Facts
<1>5. Cardinality(store) <= StoreCapacity
  BY FS_EmptySet, PipelineAssumption DEF Init
<1>6. Ingestion
  <2>1. \A i \in 1..Len(todo) : todo[i] = case.documents[Done + i]
    BY <1>1, <1>2, <1>3
  <2>2. evidence = Facts(Done) /\ store = evidence
    BY <1>3, <1>4 DEF Init
  <2>3. \A i \in 1..Done : IngestFault(case.documents[i]) = "none"
    BY <1>3
  <2>4. QED
    BY <1>1, <1>2, <1>3, <1>5, <2>1, <2>2, <2>3 DEF Ingestion
<1>7. StageInv /\ VerdictInv /\ TraceInv
  BY DEF Init, StageInv, VerdictInv, TraceInv, AfterFacts, AfterRules, AfterSheet
<1>8. QED
  BY <1>6, <1>7 DEF PipelineInv

(* What is said of the input alone stays as it is: the input does.         *)
LEMMA InputStays ==
    ASSUME case' = case
    PROVE  /\ Whole' <=> Whole
           /\ FactsConsistent' <=> FactsConsistent
           /\ FactsComplete' <=> FactsComplete
           /\ ServiceInRange' <=> ServiceInRange
           /\ RulesComplete' <=> RulesComplete
           /\ sheet' = sheet => (Drawn' <=> Drawn)
           /\ RetrieveFault(case)' = RetrieveFault(case)
           /\ Citations(case)' = Citations(case)
<1>1. (FactsConsistent' <=> FactsConsistent) /\ (FactsComplete' <=> FactsComplete)
  BY DEF FactsConsistent, FactsComplete, Told
<1>2. ASSUME NEW f PROVE Told(f)' = Told(f)
  BY DEF Told
<1>3. (ServiceInRange' <=> ServiceInRange) /\ (sheet' = sheet => (Drawn' <=> Drawn))
  BY <1>2 DEF ServiceInRange, Drawn
<1>4. RulesComplete' <=> RulesComplete
  BY DEF RulesComplete, RulesInForce, InForce
<1>5. (DocumentsReadable' <=> DocumentsReadable) /\ (StoreSuffices' <=> StoreSuffices)
  BY DEF DocumentsReadable, StoreSuffices
<1>6. QED
  BY <1>1, <1>3, <1>4, <1>5 DEF Whole

LEMMA IngestionStays ==
    ASSUME Ingestion, case' = case, todo' = todo, evidence' = evidence, store' = store
    PROVE  Ingestion' /\ Done' = Done
<1>1. Done' = Done
  BY DEF Done
<1>2. Facts(Done)' = Facts(Done)
  BY <1>1 DEF Facts
<1>3. QED
  BY <1>1, <1>2 DEF Ingestion

(* A step that stops the preparation leaves the rest of the invariant be.  *)
LEMMA StopKeeps ==
    ASSUME PipelineInv, outcome = "running", UNCHANGED <<case, record, todo, evidence, store>>,
           ~Whole, outcome' \notin {"running", "ready"}, verdict' = verdict,
           record.state \notin AfterSheet \/ UNCHANGED sheet,
           record.state \notin AfterRules \/ UNCHANGED rules
    PROVE  PipelineInv'
<1>1. Ingestion' /\ Done' = Done
  BY IngestionStays DEF PipelineInv
<1>2. StageInv'
  <2>1. record' = record /\ case' = case /\ todo' = todo /\ evidence' = evidence
    OBVIOUS
  <2>2. AfterSheet \subseteq AfterRules
    BY DEF AfterSheet, AfterRules
  <2>3. QED
    BY <2>1, InputStays DEF PipelineInv, StageInv
<1>3. VerdictInv'
  <2>1. record.state # "AWAITING_APPROVAL"
    BY DEF PipelineInv, VerdictInv
  <2>2. ~Whole'
    BY InputStays
  <2>3. QED
    BY <2>1, <2>2 DEF PipelineInv, VerdictInv
<1>4. TraceInv'
  BY DEF TraceInv
<1>5. QED
  BY <1>1, <1>2, <1>3, <1>4 DEF PipelineInv

(* Every transition is numbered: the trace is a sequence.                  *)
LEMMA NextNumber ==
    ASSUME PipelineInv, outcome = "running", NEW events \in Seq(EventSet),
           record.state \in {"RECEIVED", "INGESTING", "FACTS_READY", "RULES_READY",
                            "CALC_READY", "PROPOSAL_READY"}
    PROVE  Len(trace \o events) \in Nat
<1>1. Done \in Nat
  BY IngestedFacts DEF PipelineInv
<1>2. Ingested(Done) \in Seq(EventSet)
  BY <1>1, IngestedTrace
<1>3. /\ Ingested(Done) \o ToFacts \in Seq(EventSet)
      /\ Ingested(Done) \o ToRules \in Seq(EventSet)
      /\ Ingested(Done) \o ToSheet \in Seq(EventSet)
      /\ Ingested(Done) \o ToProposal \in Seq(EventSet)
  BY <1>2, StageTraces, ConcatProperties
<1>4. <<>> \in Seq(EventSet)
  OBVIOUS
<1>5. \/ trace = <<>> \/ trace = Ingested(Done)
      \/ trace = Ingested(Done) \o ToFacts \/ trace = Ingested(Done) \o ToRules
      \/ trace = Ingested(Done) \o ToSheet \/ trace = Ingested(Done) \o ToProposal
  BY DEF PipelineInv, TraceInv
<1>6. trace \in Seq(EventSet)
  BY <1>2, <1>3, <1>4, <1>5, Zenon
<1>7. trace \o events \in Seq(EventSet)
  BY <1>6, ConcatProperties
<1>8. QED
  BY <1>7

LEMMA EventAlone == ASSUME NEW e \in EventSet PROVE <<e>> \in Seq(EventSet)
  OBVIOUS

LEMMA ReceiveKeeps == ASSUME PipelineInv, Receive PROVE PipelineInv'
<1>1. /\ record.state = "RECEIVED" /\ outcome = "running"
      /\ UNCHANGED <<case, todo, evidence, store, rules, sheet, verdict>>
  BY DEF Receive, At
<1>2. MayAdvance(<<>>, "INGESTING", "manifest_valid", TRUE)
  <2>1. <<>> \in Seq(EventSet)
    OBVIOUS
  <2>2. Len(trace \o <<>>) \in Nat
    BY <1>1, <2>1, NextNumber
  <2>3. QED
    BY <1>1, <2>2, TransitionsOfThePipeline
<1>3. /\ record' = [state |-> "INGESTING", state_version |-> record.state_version + 1]
      /\ trace' = trace \o <<>> \o <<TransitionEvent>> /\ outcome' = outcome
  BY <1>2 DEF Receive, Advance
<1>4. record'.state = "INGESTING"
  BY <1>3
<1>5. Ingestion' /\ Done' = Done
  BY <1>1, IngestionStays DEF PipelineInv
<1>6. StageInv' /\ VerdictInv'
  BY <1>1, <1>3, <1>4, InputStays
     DEF PipelineInv, StageInv, VerdictInv, AfterFacts, AfterRules, AfterSheet
<1>7. TraceInv'
  <2>1. trace = <<>> /\ todo = case.documents
    BY <1>1 DEF PipelineInv, TraceInv, StageInv
  <2>2. Done = 0
    BY <2>1, CaseTypes DEF Done, PipelineInv, Ingestion
  <2> DEFINE t == TransitionEvent
             r == [i \in 1..0 |-> IngestEvent]
  <2>3. Ingested(0) = <<t>> \o r
    BY DEF Ingested
  <2>4. r = <<>>
    OBVIOUS
  <2> HIDE DEF t, r
  <2>5. <<>> \o <<>> \o <<t>> = <<t>> /\ <<t>> \o <<>> = <<t>>
    <3>1. <<>> \in Seq({t}) /\ <<t>> \in Seq({t})
      OBVIOUS
    <3>2. QED
      BY <3>1, ConcatEmptySeq
  <2>6. trace' = Ingested(0)
    BY <1>3, <2>1, <2>3, <2>4, <2>5 DEF t
  <2>7. QED
    BY <1>4, <1>5, <2>2, <2>6 DEF TraceInv
<1>8. QED
  BY <1>5, <1>6, <1>7 DEF PipelineInv

(* The next document, and what is registered if it is read.                *)
LEMMA NextDocument ==
    ASSUME Ingestion, todo # <<>>
    PROVE  /\ Done + 1 \in 1..Len(case.documents) /\ Done \in Nat
           /\ Head(todo) = case.documents[Done + 1]
           /\ Head(todo) \in ToSet(case.documents)
           /\ store \cup Extracted(Head(todo)) = Facts(Done + 1)
           /\ store \cup Extracted(Head(todo)) \subseteq AllFacts
<1> DEFINE D == ToSet(case.documents)
           L == Len(case.documents)
           m == Len(todo)
<1>1. /\ todo \in Seq(D) /\ m <= L /\ Done = L - m /\ L \in Nat
      /\ \A i \in 1..m : todo[i] = case.documents[Done + i]
      /\ D = {case.documents[i] : i \in 1..L}
  BY CaseTypes DEF Ingestion, Done
<1> HIDE DEF D, L
<1>2. m \in Nat \ {0} /\ Head(todo) = todo[1]
  BY <1>1
<1> HIDE DEF m
<1>3. Done \in Nat /\ Done + 1 \in 1..L
  BY <1>1, <1>2
<1>4. Head(todo) = case.documents[Done + 1]
  BY <1>1, <1>2
<1>5. Head(todo) \in D
  BY <1>1, <1>3, <1>4
<1>6. store \cup Extracted(Head(todo)) = Facts(Done + 1)
  <2>1. 1..(Done + 1) = (1..Done) \cup {Done + 1}
    BY <1>3
  <2>2. store = UNION {Extracted(case.documents[i]) : i \in 1..Done}
    BY DEF Ingestion, Facts
  <2>3. QED
    BY <1>4, <2>1, <2>2 DEF Facts
<1>7. store \subseteq AllFacts
  BY IngestedFacts DEF Ingestion
<1>8. Extracted(Head(todo)) \subseteq AllFacts
  BY <1>5 DEF AllFacts, D
<1>9. QED
  BY <1>3, <1>4, <1>5, <1>6, <1>7, <1>8 DEF D, L

LEMMA IngestDocumentKeeps == ASSUME PipelineInv, IngestDocument PROVE PipelineInv'
<1> DEFINE d == Head(todo)
           registered == store \cup Extracted(d)
<1>1. /\ record.state = "INGESTING" /\ outcome = "running" /\ todo # <<>>
      /\ UNCHANGED <<case, rules, sheet, verdict>>
  BY DEF IngestDocument, At
<1>2. /\ Done + 1 \in 1..Len(case.documents) /\ Done \in Nat
      /\ d = case.documents[Done + 1] /\ d \in ToSet(case.documents)
      /\ registered = Facts(Done + 1) /\ registered \subseteq AllFacts
  BY <1>1, NextDocument DEF PipelineInv
<1>3. CASE /\ IngestFault(d) # "none"
           /\ Stop(IF d.intact THEN <<<<"skill.evidence_ingest", "PF-A2">>>> ELSE <<>>,
                   IngestFault(d))
           /\ UNCHANGED <<evidence, store, todo>>
  <2>1. ~Whole
    BY <1>2, <1>3 DEF Whole, DocumentsReadable
  <2>2. UNCHANGED record /\ outcome' = IngestFault(d)
    BY <1>3 DEF Stop
  <2>3. outcome' \notin {"running", "ready"}
    BY <2>2 DEF IngestFault
  <2>4. QED
    BY <1>1, <1>3, <2>1, <2>2, <2>3, StopKeeps
<1>4. CASE /\ IngestFault(d) = "none"
           /\ Cardinality(registered) > StoreCapacity
           /\ Stop(<<<<"skill.evidence_ingest", "PF-A2">>>>, "REGISTRATION_FAILED")
           /\ UNCHANGED <<evidence, store, todo>>
  <2>1. ~StoreSuffices
    <3>1. IsFiniteSet(AllFacts)
      BY FactsAreFinite DEF PipelineInv, Ingestion
    <3>2. Cardinality(AllFacts) \in Nat
      BY <3>1, FS_CardinalityType
    <3>3. IsFiniteSet(registered) /\ Cardinality(registered) <= Cardinality(AllFacts)
      BY <1>2, <3>1, FS_Subset
    <3>4. Cardinality(registered) \in Nat
      BY <3>3, FS_CardinalityType
    <3>5. StoreSuffices <=> Cardinality(AllFacts) <= StoreCapacity
      BY DEF StoreSuffices, AllFacts
    <3>6. StoreCapacity \in Nat /\ Cardinality(registered) > StoreCapacity
      BY <1>4, PipelineAssumption
    <3> HIDE DEF registered
    <3>7. QED
      BY <3>2, <3>3, <3>4, <3>5, <3>6
  <2>2. UNCHANGED record /\ outcome' = "REGISTRATION_FAILED"
    BY <1>4 DEF Stop
  <2>3. QED
    BY <1>1, <1>4, <2>1, <2>2, StopKeeps DEF Whole
<1>5. CASE /\ IngestFault(d) = "none"
           /\ Cardinality(registered) <= StoreCapacity
           /\ evidence' = evidence \cup Extracted(d)
           /\ store' = registered
           /\ todo' = Tail(todo)
           /\ trace' = Append(trace, <<"skill.evidence_ingest", "PF-A2">>)
           /\ UNCHANGED <<record, outcome>>
  <2> DEFINE D == ToSet(case.documents)
             L == Len(case.documents)
             m == Len(todo)
  <2>1. /\ todo \in Seq(D) /\ m <= L /\ Done = L - m /\ L \in Nat
        /\ \A i \in 1..m : todo[i] = case.documents[Done + i]
    BY CaseTypes DEF PipelineInv, Ingestion, Done
  <2>2. /\ todo' \in Seq(D) /\ Len(todo') = m - 1 /\ m \in Nat \ {0}
        /\ \A i \in 1..(m - 1) : todo'[i] = todo[i + 1]
    BY <1>1, <1>5, <2>1
  <2>3. D' = D /\ L' = L
    BY <1>1
  <2>4. Done' = Done + 1 /\ Len(todo') <= L
    <3>1. Done' = L' - Len(todo')
      BY DEF Done
    <3> HIDE DEF D, L, m
    <3>2. QED
      BY <2>1, <2>2, <2>3, <3>1
  <2>5. \A i \in 1..Len(todo') : todo'[i] = case.documents[Done' + i]
    <3> HIDE DEF D, L, m
    <3>1. SUFFICES ASSUME NEW i \in 1..(m - 1) PROVE todo'[i] = case.documents[Done' + i]
      BY <2>2
    <3>2. i + 1 \in 1..m /\ Done + (i + 1) = (Done + 1) + i
      BY <1>2, <2>2
    <3>3. todo'[i] = case.documents[Done + (i + 1)]
      BY <2>1, <2>2, <3>2
    <3>4. QED
      BY <2>4, <3>2, <3>3
  <2>6. evidence' = Facts(Done)' /\ store' = evidence'
    <3>1. Facts(Done)' = Facts(Done + 1)
      BY <1>1, <2>4 DEF Facts
    <3>2. store = evidence
      BY DEF PipelineInv, Ingestion
    <3>3. QED
      BY <1>2, <1>5, <3>1, <3>2
  <2>7. \A i \in 1..Done' : IngestFault(case.documents[i])' = "none"
    <3>1. \A i \in 1..Done : IngestFault(case.documents[i]) = "none"
      BY DEF PipelineInv, Ingestion
    <3>2. IngestFault(case.documents[Done + 1]) = "none"
      BY <1>2, <1>5
    <3>3. \A i \in 1..Done' : i \in 1..Done \/ i = Done + 1
      BY <1>2, <2>4
    <3>4. \A i \in 1..Done' : IngestFault(case.documents[i]) = "none"
      BY <3>1, <3>2, <3>3
    <3>5. QED
      BY <1>1, <3>4
  <2>8. Ingestion'
    <3>1. case' \in Cases /\ case' = case
      BY <1>1 DEF PipelineInv, Ingestion
    <3>2. (Cardinality(store) <= StoreCapacity)'
      BY <1>5
    <3>3. (todo \in Seq(ToSet(case.documents)))' /\ (Len(todo) <= Len(case.documents))'
      BY <2>2, <2>3, <2>4
    <3>4. (\A i \in 1..Len(todo) : todo[i] = case.documents[Done + i])'
      BY <2>5, <3>1
    <3>5. QED
      BY <2>6, <2>7, <3>1, <3>2, <3>3, <3>4 DEF Ingestion
  <2>9. StageInv' /\ VerdictInv'
    BY <1>1, <1>5, InputStays
       DEF PipelineInv, StageInv, VerdictInv, AfterFacts, AfterRules, AfterSheet
  <2>10. TraceInv'
    <3>1. trace = Ingested(Done)
      BY <1>1 DEF PipelineInv, TraceInv
    <3>2. Append(Ingested(Done), IngestEvent) = Ingested(Done + 1)
      BY <1>2, IngestedTrace
    <3>3. trace' = Ingested(Done')
      BY <1>5, <2>4, <3>1, <3>2 DEF IngestEvent
    <3>4. QED
      BY <1>1, <1>5, <3>3 DEF TraceInv
  <2>11. QED
    BY <2>8, <2>9, <2>10 DEF PipelineInv
<1>6. QED
  BY <1>3, <1>4, <1>5 DEF IngestDocument

LEMMA BuildTimelineKeeps == ASSUME PipelineInv, BuildTimeline PROVE PipelineInv'
<1> DEFINE e == <<"skill.timeline_build", "PF-A2">>
           clear == \A f \in DateFields : \A v \in ValuesOf(f) : v.date # NoDate
           allowed == MayAdvance(<<e>>, "FACTS_READY", "evidence_complete", evidence # {})
<1>1. /\ record.state = "INGESTING" /\ outcome = "running" /\ todo = <<>>
      /\ UNCHANGED <<case, todo, evidence, store, rules, sheet, verdict>>
  BY DEF BuildTimeline, At
<1>2. allowed <=> evidence # {}
  <2>1. <<e>> \in Seq(EventSet)
    BY EventsOfTheStages, EventAlone
  <2> HIDE DEF e
  <2>2. Len(trace \o <<e>>) \in Nat
    BY <1>1, <2>1, NextNumber
  <2>3. QED
    BY <1>1, <2>2, TransitionsOfThePipeline
<1>3. FactsComplete => evidence # {} /\ clear
  BY <1>1, WholeCasesTellFacts DEF PipelineInv
<1>4. CASE ~clear \/ evidence = {}
  <2>1. ~Whole
    BY <1>3, <1>4 DEF Whole
  <2>2. UNCHANGED record /\ outcome' \in {"AMBIGUOUS_DATE", "TRANSITION_REFUSED"}
    <3>1. CASE ~clear
      BY <3>1 DEF BuildTimeline, Stop
    <3>2. CASE clear /\ evidence = {}
      <4>1. ~allowed
        BY <1>2, <3>2
      <4>2. Advance(<<e>>, "FACTS_READY", "evidence_complete", evidence # {})
        BY <3>2 DEF BuildTimeline
      <4> HIDE DEF e
      <4>3. QED
        BY <4>1, <4>2 DEF Advance
    <3>3. QED
      BY <1>4, <3>1, <3>2
  <2>3. QED
    BY <1>1, <2>1, <2>2, StopKeeps
<1>5. CASE clear /\ evidence # {}
  <2>1. allowed /\ Advance(<<e>>, "FACTS_READY", "evidence_complete", evidence # {})
    BY <1>2, <1>5 DEF BuildTimeline
  <2> HIDE DEF e
  <2>2. /\ record' = [state |-> "FACTS_READY", state_version |-> record.state_version + 1]
        /\ trace' = trace \o <<e>> \o <<TransitionEvent>> /\ outcome' = outcome
    BY <2>1 DEF Advance
  <2>3. record'.state = "FACTS_READY"
    BY <2>2
  <2>4. Ingestion' /\ Done' = Done
    BY <1>1, IngestionStays DEF PipelineInv
  <2>5. StageInv' /\ VerdictInv'
    BY <1>1, <1>5, <2>2, <2>3, InputStays
       DEF PipelineInv, StageInv, VerdictInv, AfterFacts, AfterRules, AfterSheet
  <2>6. TraceInv'
    <3>1. trace = Ingested(Done)
      BY <1>1 DEF PipelineInv, TraceInv
    <3>2. Done \in Nat
      BY IngestedFacts DEF PipelineInv
    <3>3. Ingested(Done) \in Seq(EventSet)
      BY <3>2, IngestedTrace
    <3> DEFINE r == Ingested(Done)
               t == TransitionEvent
    <3>4. e \in EventSet /\ t \in EventSet /\ ToFacts = <<e, t>>
      BY EventsOfTheStages DEF e, ToFacts
    <3> HIDE DEF r, t
    <3>5. r \o <<e>> \o <<t>> = r \o <<e, t>>
      BY <3>3, <3>4, PairAdded DEF r
    <3>6. trace' = Ingested(Done) \o ToFacts
      BY <2>2, <3>1, <3>4, <3>5 DEF r, t
    <3>7. QED
      BY <2>3, <2>4, <3>6 DEF TraceInv
  <2>7. QED
    BY <2>4, <2>5, <2>6 DEF PipelineInv
<1>6. QED
  BY <1>4, <1>5

LEMMA RetrieveRulesKeeps == ASSUME PipelineInv, RetrieveRules PROVE PipelineInv'
<1> DEFINE e == <<"skill.rule_retrieve", "PF-A3">>
           cited == Citations(case)
           allowed == MayAdvance(<<e>>, "RULES_READY", "rules_valid", cited # {})
<1>1. /\ record.state = "FACTS_READY" /\ outcome = "running" /\ case \in Cases
      /\ UNCHANGED <<case, todo, evidence, store, sheet, verdict>>
  BY DEF RetrieveRules, At, PipelineInv, Ingestion
<1>2. allowed <=> cited # {}
  <2>1. <<e>> \in Seq(EventSet)
    BY EventsOfTheStages, EventAlone
  <2> HIDE DEF e, cited
  <2>2. Len(trace \o <<e>>) \in Nat
    BY <1>1, <2>1, NextNumber
  <2>3. QED
    BY <1>1, <2>2, TransitionsOfThePipeline
<1>3. RulesComplete => RetrieveFault(case) = "none" /\ cited # {}
  <2>1. RulesComplete => /\ RetrieveFault(case) = "none"
                         /\ RequiredRuleIssues \subseteq {rule.issue : rule \in cited}
    BY <1>1, RulesAreJudgedFromTheInput
  <2>2. "economic_compensation_amount" \in RequiredRuleIssues
    BY DEF RequiredRuleIssues
  <2> HIDE DEF cited
  <2>3. QED
    BY <2>1, <2>2
<1>4. CASE RetrieveFault(case) # "none" \/ cited = {}
  <2>1. ~Whole
    BY <1>3, <1>4 DEF Whole
  <2>2. UNCHANGED record /\ outcome' \notin {"running", "ready"}
    <3>1. CASE RetrieveFault(case) # "none"
      <4>1. UNCHANGED record /\ outcome' = RetrieveFault(case)
        BY <3>1 DEF RetrieveRules, Stop
      <4>2. QED
        BY <4>1 DEF RetrieveFault
    <3>2. CASE RetrieveFault(case) = "none" /\ cited = {}
      <4>1. ~allowed
        BY <1>2, <3>2
      <4>2. Advance(<<e>>, "RULES_READY", "rules_valid", cited # {})
        BY <3>2 DEF RetrieveRules
      <4> HIDE DEF e, cited
      <4>3. QED
        BY <4>1, <4>2 DEF Advance
    <3>3. QED
      BY <1>4, <3>1, <3>2
  <2>3. record.state \notin AfterRules /\ record.state \notin AfterSheet
    BY <1>1 DEF AfterRules, AfterSheet
  <2>4. QED
    BY <1>1, <2>1, <2>2, <2>3, StopKeeps
<1>5. CASE RetrieveFault(case) = "none" /\ cited # {}
  <2>1. allowed /\ Advance(<<e>>, "RULES_READY", "rules_valid", cited # {}) /\ rules' = cited
    BY <1>2, <1>5 DEF RetrieveRules
  <2> HIDE DEF e
  <2>2. /\ record' = [state |-> "RULES_READY", state_version |-> record.state_version + 1]
        /\ trace' = trace \o <<e>> \o <<TransitionEvent>> /\ outcome' = outcome
    BY <2>1 DEF Advance
  <2>3. record'.state = "RULES_READY"
    BY <2>2
  <2>4. Ingestion' /\ Done' = Done
    BY <1>1, IngestionStays DEF PipelineInv
  <2>5. StageInv' /\ VerdictInv'
    BY <1>1, <1>5, <2>1, <2>2, <2>3, InputStays
       DEF PipelineInv, StageInv, VerdictInv, AfterFacts, AfterRules, AfterSheet
  <2>6. TraceInv'
    <3>1. trace = Ingested(Done) \o ToFacts
      BY <1>1 DEF PipelineInv, TraceInv
    <3>2. Done \in Nat /\ e \in EventSet /\ ToFacts \in Seq(EventSet)
      BY IngestedFacts, EventsOfTheStages, StageTraces DEF PipelineInv, e
    <3>3. ToRules = ToFacts \o <<e, TransitionEvent>>
      BY DEF ToRules, e
    <3>4. trace' = Ingested(Done) \o ToRules
      BY <2>2, <3>1, <3>2, <3>3, TraceGrows
    <3>5. QED
      BY <2>3, <2>4, <3>4 DEF TraceInv
  <2>7. QED
    BY <2>4, <2>5, <2>6 DEF PipelineInv
<1>6. QED
  BY <1>4, <1>5

LEMMA CalculateKeeps == ASSUME PipelineInv, Calculate PROVE PipelineInv'
<1> DEFINE e == <<"skill.deterministic_calculate", "PF-A4">>
           allowed == MayAdvance(<<e>>, "CALC_READY", "calculation_complete", TRUE)
<1>1. /\ record.state = "RULES_READY" /\ outcome = "running"
      /\ UNCHANGED <<case, todo, evidence, store, rules, verdict>>
  BY DEF Calculate, At
<1>2. allowed
  <2>1. <<e>> \in Seq(EventSet)
    BY EventsOfTheStages, EventAlone
  <2> HIDE DEF e
  <2>2. Len(trace \o <<e>>) \in Nat
    BY <1>1, <2>1, NextNumber
  <2>3. QED
    BY <1>1, <2>2, TransitionsOfThePipeline
<1>3. CalculateFault = "none" <=>
        FactsConsistent /\ FactsComplete /\ ServiceInRange /\ RulesComplete
  BY <1>1, CalculationJudgesTheInput DEF PipelineInv, StageInv, AfterFacts, AfterRules
<1>4. CASE CalculateFault # "none"
  <2>1. ~Whole
    BY <1>3, <1>4 DEF Whole
  <2>2. UNCHANGED record /\ outcome' = CalculateFault
    BY <1>4 DEF Calculate, Stop
  <2>3. outcome' \notin {"running", "ready"}
    BY <1>4, <2>2 DEF CalculateFault
  <2>4. record.state \notin AfterSheet
    BY <1>1 DEF AfterSheet
  <2>5. QED
    BY <1>1, <2>1, <2>2, <2>3, <2>4, StopKeeps
<1>5. CASE CalculateFault = "none"
  <2>1. Advance(<<e>>, "CALC_READY", "calculation_complete", TRUE) /\ sheet' = Calculated
    BY <1>5 DEF Calculate
  <2> HIDE DEF e
  <2>2. /\ record' = [state |-> "CALC_READY", state_version |-> record.state_version + 1]
        /\ trace' = trace \o <<e>> \o <<TransitionEvent>> /\ outcome' = outcome
    BY <1>2, <2>1 DEF Advance
  <2>3. record'.state = "CALC_READY"
    BY <2>2
  <2>4. Ingestion' /\ Done' = Done
    BY <1>1, IngestionStays DEF PipelineInv
  <2>5. Drawn'
    <3> DEFINE S == Told("employment_start_date")
               E == Told("planned_termination_date")
               W == Told("monthly_wage_average")
               A == Told("local_previous_year_monthly_average_wage")
    <3>1. S' = S /\ E' = E /\ W' = W /\ A' = A
      BY <1>1 DEF Told
    <3>2. ASSUME NEW f \in RequiredFields, NEW v \in Told(f) PROVE v = ValueOf(f)
      BY <1>1, <1>3, <1>5, <3>2, OneValueTold, PipelineAssumption
         DEF PipelineInv, StageInv, AfterFacts
    <3>3. /\ \A v \in S : v = ValueOf("employment_start_date")
          /\ \A v \in E : v = ValueOf("planned_termination_date")
          /\ \A v \in W : v = ValueOf("monthly_wage_average")
          /\ \A v \in A : v = ValueOf("local_previous_year_monthly_average_wage")
      BY <3>2 DEF RequiredFields, DateFields, AmountFields
    <3>4. sheet'.made = TRUE
      BY <2>1 DEF Calculated, SheetOf
    <3>5. \A s \in S, a \in E, wage \in W, average \in A :
             sheet' = SheetOf(s, a, wage, average)
      <4> HIDE DEF S, E, W, A
      <4>1. QED
        BY <2>1, <3>3 DEF Calculated
    <3>6. QED
      BY <3>1, <3>4, <3>5 DEF Drawn
  <2>6. StageInv' /\ VerdictInv'
    BY <1>1, <1>3, <1>5, <2>1, <2>2, <2>3, <2>5, InputStays
       DEF PipelineInv, StageInv, VerdictInv, AfterFacts, AfterRules, AfterSheet
  <2>7. TraceInv'
    <3>1. trace = Ingested(Done) \o ToRules
      BY <1>1 DEF PipelineInv, TraceInv
    <3>2. Done \in Nat /\ e \in EventSet /\ ToRules \in Seq(EventSet)
      BY IngestedFacts, EventsOfTheStages, StageTraces DEF PipelineInv, e
    <3>3. ToSheet = ToRules \o <<e, TransitionEvent>>
      BY DEF ToSheet, e
    <3>4. trace' = Ingested(Done) \o ToSheet
      BY <2>2, <3>1, <3>2, <3>3, TraceGrows
    <3>5. QED
      BY <2>3, <2>4, <3>4 DEF TraceInv
  <2>8. QED
    BY <2>4, <2>6, <2>7 DEF PipelineInv
<1>6. QED
  BY <1>4, <1>5

LEMMA ProposeKeeps == ASSUME PipelineInv, Propose PROVE PipelineInv'
<1> DEFINE e == <<"strategy.proposal_generate", "PF-A5">>
<1>1. /\ record.state = "CALC_READY" /\ outcome = "running"
      /\ UNCHANGED <<case, todo, evidence, store, rules, sheet, verdict>>
      /\ Advance(<<e>>, "PROPOSAL_READY", "proposal_complete", sheet.made)
  BY DEF Propose, At
<1>2. sheet.made = TRUE
  BY <1>1 DEF PipelineInv, StageInv, AfterSheet, Drawn
<1>3. MayAdvance(<<e>>, "PROPOSAL_READY", "proposal_complete", sheet.made)
  <2>1. <<e>> \in Seq(EventSet)
    BY EventsOfTheStages, EventAlone
  <2> HIDE DEF e
  <2>2. Len(trace \o <<e>>) \in Nat
    BY <1>1, <2>1, NextNumber
  <2>3. QED
    BY <1>1, <1>2, <2>2, TransitionsOfThePipeline
<1> HIDE DEF e
<1>4. /\ record' = [state |-> "PROPOSAL_READY", state_version |-> record.state_version + 1]
      /\ trace' = trace \o <<e>> \o <<TransitionEvent>> /\ outcome' = outcome
  BY <1>1, <1>3 DEF Advance
<1>5. record'.state = "PROPOSAL_READY"
  BY <1>4
<1>6. Ingestion' /\ Done' = Done
  BY <1>1, IngestionStays DEF PipelineInv
<1>7. StageInv' /\ VerdictInv'
  BY <1>1, <1>4, <1>5, InputStays
     DEF PipelineInv, StageInv, VerdictInv, AfterFacts, AfterRules, AfterSheet
<1>8. TraceInv'
  <2>1. trace = Ingested(Done) \o ToSheet
    BY <1>1 DEF PipelineInv, TraceInv
  <2>2. Done \in Nat /\ e \in EventSet /\ ToSheet \in Seq(EventSet)
    BY IngestedFacts, EventsOfTheStages, StageTraces DEF PipelineInv, e
  <2>3. ToProposal = ToSheet \o <<e, TransitionEvent>>
    BY DEF ToProposal, e
  <2>4. trace' = Ingested(Done) \o ToProposal
    BY <1>4, <2>1, <2>2, <2>3, TraceGrows
  <2>5. QED
    BY <1>5, <1>6, <2>4 DEF TraceInv
<1>9. QED
  BY <1>6, <1>7, <1>8 DEF PipelineInv

-----------------------------------------------------------------------------
(* The audit finds an event of every skill in the trace before it.         *)
LEMMA AuditSeesEveryEvent ==
    ASSUME NEW n \in Nat \ {0}
    PROVE  LET events == (Ingested(n) \o ToProposal) \o <<<<"skill.conflict_detect", "PF-A6">>>>
           IN  RequiredPreAuditEvents \subseteq {events[i][1] : i \in DOMAIN events}
<1> DEFINE r == Ingested(n)
           x == <<"skill.conflict_detect", "PF-A6">>
           s == r \o ToProposal
           events == s \o <<x>>
<1>1. /\ r \in Seq(EventSet) /\ Len(r) = n + 1 /\ r[2] = IngestEvent
      /\ x \in EventSet
  <2>1. r \in Seq(EventSet) /\ Len(r) = n + 1 /\ \A i \in 1..n : r[i + 1] = IngestEvent
    BY IngestedTrace
  <2>2. 1 \in 1..n /\ 1 + 1 = 2
    OBVIOUS
  <2> HIDE DEF r
  <2>3. r[2] = IngestEvent
    BY <2>1, <2>2
  <2>4. QED
    BY <2>1, <2>3, EventsOfTheStages
<1> HIDE DEF r, x
<1>2. /\ s \in Seq(EventSet) /\ Len(s) = Len(r) + Len(ToProposal)
      /\ \A i \in 1..(Len(r) + Len(ToProposal)) :
             s[i] = IF i <= Len(r) THEN r[i] ELSE ToProposal[i - Len(r)]
  BY <1>1, StageTraces, ConcatProperties
<1> HIDE DEF s
<1>3. Len(s) = n + 9 /\ s[2] = IngestEvent /\ s[n + 2] = ToProposal[1]
      /\ s[n + 4] = ToProposal[3] /\ s[n + 6] = ToProposal[5] /\ s[n + 8] = ToProposal[7]
  <2>1. Len(r) = n + 1 /\ Len(ToProposal) = 8
    BY <1>1, StageTraces
  <2>2. ASSUME NEW k \in 1..8 PROVE s[n + 1 + k] = ToProposal[k]
    <3>1. /\ n + 1 + k \in 1..(Len(r) + Len(ToProposal))
          /\ ~(n + 1 + k <= Len(r)) /\ (n + 1 + k) - Len(r) = k
      BY <2>1
    <3>2. QED
      BY <1>2, <3>1
  <2>3. s[2] = r[2]
    <3>1. 2 \in 1..(Len(r) + Len(ToProposal)) /\ 2 <= Len(r)
      BY <2>1
    <3>2. QED
      BY <1>2, <3>1
  <2>4. n + 1 + 1 = n + 2 /\ n + 1 + 3 = n + 4 /\ n + 1 + 5 = n + 6 /\ n + 1 + 7 = n + 8
    OBVIOUS
  <2>5. /\ s[n + 1 + 1] = ToProposal[1] /\ s[n + 1 + 3] = ToProposal[3]
        /\ s[n + 1 + 5] = ToProposal[5] /\ s[n + 1 + 7] = ToProposal[7]
    BY <2>2
  <2>6. QED
    BY <1>1, <1>2, <2>1, <2>3, <2>4, <2>5
<1>4. s \in Seq(EventSet) /\ x \in EventSet
  BY <1>1, <1>2
<1>5. events = Append(s, x)
  BY <1>4
<1>6. /\ DOMAIN events = 1..(Len(s) + 1) /\ events[Len(s) + 1] = x
      /\ \A i \in 1..Len(s) : events[i] = s[i]
  BY <1>4, <1>5
<1> HIDE DEF events
<1>7. /\ 2 \in DOMAIN events /\ n + 2 \in DOMAIN events /\ n + 4 \in DOMAIN events
      /\ n + 6 \in DOMAIN events /\ n + 8 \in DOMAIN events /\ n + 10 \in DOMAIN events
  BY <1>3, <1>6
<1>8. /\ events[2] = IngestEvent /\ events[n + 2] = ToProposal[1]
      /\ events[n + 4] = ToProposal[3] /\ events[n + 6] = ToProposal[5]
      /\ events[n + 8] = ToProposal[7] /\ events[n + 10] = x
  BY <1>3, <1>6
<1>9. /\ events[2][1] = "skill.evidence_ingest"
      /\ events[n + 2][1] = "skill.timeline_build"
      /\ events[n + 4][1] = "skill.rule_retrieve"
      /\ events[n + 6][1] = "skill.deterministic_calculate"
      /\ events[n + 8][1] = "strategy.proposal_generate"
      /\ events[n + 10][1] = "skill.conflict_detect"
  BY <1>8, StageTraces DEF IngestEvent, x
<1>10. RequiredPreAuditEvents \subseteq {events[i][1] : i \in DOMAIN events}
  <2>1. SUFFICES ASSUME NEW required \in RequiredPreAuditEvents
                 PROVE  \E i \in DOMAIN events : events[i][1] = required
    OBVIOUS
  <2>2. QED
    BY <1>7, <1>9 DEF RequiredPreAuditEvents
<1>11. QED
  BY <1>10 DEF events, s, r, x

(* The last events complete the trace a run at the gate is expected to     *)
(* have.                                                                   *)
LEMMA TraceIsComplete ==
    ASSUME NEW n \in Nat
    PROVE  (Ingested(n) \o ToProposal)
             \o Append(<<<<"skill.conflict_detect", "PF-A6">>>>, <<"skill.decision_audit", "PF-A6">>)
             \o <<TransitionEvent>>
           = ExpectedEvents(n)
<1> DEFINE t == TransitionEvent
           a == <<"skill.timeline_build", "PF-A2">>
           b == <<"skill.rule_retrieve", "PF-A3">>
           c == <<"skill.deterministic_calculate", "PF-A4">>
           d == <<"strategy.proposal_generate", "PF-A5">>
           e == <<"skill.conflict_detect", "PF-A6">>
           f == <<"skill.decision_audit", "PF-A6">>
           r == Ingested(n)
<1>1. /\ t \in EventSet /\ a \in EventSet /\ b \in EventSet /\ c \in EventSet
      /\ d \in EventSet /\ e \in EventSet /\ f \in EventSet /\ r \in Seq(EventSet)
  BY EventsOfTheStages, IngestedTrace
<1>2. ToProposal = <<a, t>> \o <<b, t>> \o <<c, t>> \o <<d, t>>
  BY DEF ToFacts, ToRules, ToSheet, ToProposal
<1>3. ExpectedEvents(n) = r \o <<a, t, b, t, c, t, d, t, e, f, t>>
  BY DEF ExpectedEvents, Ingested, IngestEvent
<1> HIDE DEF t, a, b, c, d, e, f, r
<1>4. ToProposal \o <<e, f>> \o <<t>> = <<a, t, b, t, c, t, d, t, e, f, t>>
  <2>1. <<a, t>> \o <<b, t>> \o <<c, t>> \o <<d, t>> \o <<e, f>> \o <<t>>
          = <<a, t, b, t, c, t, d, t, e, f, t>>
    BY ElevenElements, Zenon
  <2>2. QED
    BY <1>2, <2>1
<1>5. Append(<<e>>, f) = <<e, f>>
  <2> DEFINE s == <<e>>
             u == Append(s, f)
             v == <<e, f>>
  <2>1. s \in Seq(EventSet) /\ Len(s) = 1 /\ s[1] = e
    BY <1>1
  <2>2. v \in Seq(EventSet) /\ Len(v) = 2 /\ v[1] = e /\ v[2] = f
    BY <1>1
  <2> HIDE DEF s, v
  <2>3. u \in Seq(EventSet) /\ Len(u) = Len(s) + 1 /\ u[Len(s) + 1] = f
        /\ \A i \in 1..Len(s) : u[i] = s[i]
    <3>1. s \in Seq(EventSet)
      BY <2>1
    <3>2. QED
      BY <1>1, <3>1
  <2> HIDE DEF u
  <2>4. Len(u) = 2 /\ u[1] = e /\ u[2] = f
    BY <2>1, <2>3
  <2>5. u = v
    BY <2>2, <2>3, <2>4, SeqEqual
  <2>6. QED
    BY <2>5 DEF s, u, v
<1> DEFINE p == ToProposal
           q == <<e, f>>
           w == <<t>>
<1>6. p \in Seq(EventSet) /\ q \in Seq(EventSet) /\ w \in Seq(EventSet)
  BY <1>1, StageTraces
<1> HIDE DEF p, q, w
<1>7. p \o q \in Seq(EventSet)
  BY <1>6, ConcatProperties
<1>8. (r \o p) \o q = r \o (p \o q)
  BY <1>1, <1>6, ConcatAssociative
<1>9. (r \o (p \o q)) \o w = r \o ((p \o q) \o w)
  <2> DEFINE pq == p \o q
  <2>1. pq \in Seq(EventSet) /\ r \in Seq(EventSet) /\ w \in Seq(EventSet)
    BY <1>1, <1>6, <1>7
  <2> HIDE DEF pq
  <2>2. (r \o pq) \o w = r \o (pq \o w)
    BY <2>1, ConcatAssociative
  <2>3. QED
    BY <2>2 DEF pq
<1>10. (r \o p) \o q \o w = ExpectedEvents(n)
  BY <1>3, <1>4, <1>8, <1>9 DEF p, q, w
<1>11. QED
  BY <1>5, <1>10 DEF p, q, w, r, e, f, t

LEMMA DetectAndAuditKeeps == ASSUME PipelineInv, DetectAndAudit PROVE PipelineInv'
<1> DEFINE x == <<"skill.conflict_detect", "PF-A6">>
           y == <<"skill.decision_audit", "PF-A6">>
           events == trace \o <<x>>
<1>1. /\ record.state = "PROPOSAL_READY" /\ outcome = "running"
      /\ UNCHANGED <<case, todo, evidence, store, rules, sheet>>
      /\ verdict' = Audit(events)
  BY DEF DetectAndAudit, At
<1>2. /\ Ingestion /\ todo = <<>> /\ evidence # {} /\ rules = Citations(case) /\ sheet.made = TRUE
      /\ FactsConsistent /\ FactsComplete /\ RulesComplete
      /\ trace = Ingested(Done) \o ToProposal
  BY <1>1 DEF PipelineInv, StageInv, TraceInv, AfterFacts, AfterRules, AfterSheet, Drawn
<1>3. Done \in Nat \ {0}
  <2>1. Done \in Nat /\ evidence = Facts(Done)
    BY <1>2, IngestedFacts DEF Ingestion
  <2>2. Facts(0) = {}
    BY DEF Facts
  <2>3. QED
    BY <1>2, <2>1, <2>2
<1>4. Audit(events) = "PASS"
  <2>1. RequiredPreAuditEvents \subseteq {events[i][1] : i \in DOMAIN events}
    BY <1>2, <1>3, AuditSeesEveryEvent
  <2>2. BlockerConflicts = {}
    BY <1>2, NoConflictInConsistentFacts
  <2>3. rules # {}
    <3>1. RequiredRuleIssues \subseteq {rule.issue : rule \in rules}
      BY <1>2, RulesAreJudgedFromTheInput DEF Ingestion
    <3>2. "economic_compensation_amount" \in RequiredRuleIssues
      BY DEF RequiredRuleIssues
    <3>3. QED
      BY <3>1, <3>2
  <2> HIDE DEF events
  <2>4. QED
    BY <1>2, <2>1, <2>2, <2>3 DEF Audit
<1>5. Advance(Append(<<x>>, y), "AWAITING_APPROVAL", "audit_verdict", "PASS")
  BY <1>1, <1>4 DEF DetectAndAudit
<1> DEFINE audited == Append(<<x>>, y)
<1>6. MayAdvance(audited, "AWAITING_APPROVAL", "audit_verdict", "PASS")
  <2>1. <<x>> \in Seq(EventSet) /\ y \in EventSet
    BY EventsOfTheStages, EventAlone
  <2> HIDE DEF x, y
  <2>2. audited \in Seq(EventSet)
    BY <2>1
  <2> HIDE DEF audited
  <2>3. Len(trace \o audited) \in Nat
    BY <1>1, <2>2, NextNumber
  <2>4. QED
    BY <1>1, <2>3, TransitionsOfThePipeline
<1> HIDE DEF audited
<1>7. /\ record' = [state |-> "AWAITING_APPROVAL", state_version |-> record.state_version + 1]
      /\ trace' = trace \o audited \o <<TransitionEvent>> /\ outcome' = "ready"
  BY <1>5, <1>6 DEF Advance, audited
<1>8. record'.state = "AWAITING_APPROVAL"
  BY <1>7
<1>9. Ingestion' /\ Done' = Done
  BY <1>1, IngestionStays DEF PipelineInv
<1>10. StageInv' /\ VerdictInv'
  BY <1>1, <1>4, <1>7, <1>8, InputStays
     DEF PipelineInv, StageInv, VerdictInv, AfterFacts, AfterRules, AfterSheet
<1>11. TraceInv'
  <2>1. trace' = ExpectedEvents(Done)
    BY <1>2, <1>3, <1>7, TraceIsComplete DEF audited
  <2>2. QED
    BY <1>8, <1>9, <2>1 DEF TraceInv
<1>12. QED
  BY <1>9, <1>10, <1>11 DEF PipelineInv

LEMMA PipelineStep == ASSUME PipelineInv, [Next]_vars PROVE PipelineInv'
<1>1. CASE UNCHANGED vars
  <2>1. Ingestion' /\ Done' = Done
    BY <1>1, IngestionStays DEF PipelineInv, vars
  <2>2. StageInv' /\ VerdictInv'
    BY <1>1, InputStays DEF PipelineInv, StageInv, VerdictInv, vars
  <2>3. TraceInv'
    BY <1>1, <2>1 DEF PipelineInv, TraceInv, vars
  <2>4. QED
    BY <2>1, <2>2, <2>3 DEF PipelineInv
<1>2. QED
  BY <1>1, ReceiveKeeps, IngestDocumentKeeps, BuildTimelineKeeps, RetrieveRulesKeeps,
     CalculateKeeps, ProposeKeeps, DetectAndAuditKeeps DEF Next

LEMMA PipelineAlways == Spec => []PipelineInv
  BY PipelineInit, PipelineStep, PTL DEF Spec

-----------------------------------------------------------------------------
(* Exactly the whole cases reach the gate, for every manifest and catalog: *)
(* no case gets there with a document that cannot be read, a contradiction,*)
(* a gap, a service that cannot be counted, an issue without rule or more  *)
(* issues than a request may name, and prepare_reference_run refuses none  *)
(* that has no such fault.                                                 *)
THEOREM ExactlyWholeCasesPass == Spec => []ExactlyWholeCasesReachTheGate
<1>1. PipelineInv => ExactlyWholeCasesReachTheGate
  <2>1. SUFFICES ASSUME PipelineInv PROVE ExactlyWholeCasesReachTheGate
    OBVIOUS
  <2>2. ASSUME record.state = "AWAITING_APPROVAL" PROVE Whole
    <3>1. /\ Ingestion /\ todo = <<>>
          /\ FactsConsistent /\ FactsComplete /\ ServiceInRange /\ RulesComplete
      BY <2>1, <2>2 DEF PipelineInv, StageInv, AfterFacts, AfterSheet
    <3>2. Done = Len(case.documents) /\ evidence = AllFacts
      BY <3>1, IngestedFacts
    <3>3. DocumentsReadable
      <4>1. \A i \in 1..Len(case.documents) : IngestFault(case.documents[i]) = "none"
        BY <3>1, <3>2 DEF Ingestion
      <4>2. ToSet(case.documents) = {case.documents[i] : i \in 1..Len(case.documents)}
        BY <3>1, CaseTypes DEF Ingestion
      <4>3. QED
        BY <4>1, <4>2 DEF DocumentsReadable
    <3>4. StoreSuffices
      BY <3>1, <3>2 DEF StoreSuffices, AllFacts, Ingestion
    <3>5. QED
      BY <3>1, <3>3, <3>4 DEF Whole
  <2>3. QED
    BY <2>1, <2>2 DEF ExactlyWholeCasesReachTheGate, PipelineInv, VerdictInv
<1>2. QED
  BY <1>1, PipelineAlways, PTL

(* Whatever is before a human is complete: the evidence of every document  *)
(* and every rule in force for the issues.                                 *)
THEOREM GateAlwaysShowsEverything == Spec => []GateShowsEverything
<1>1. PipelineInv => GateShowsEverything
  <2>1. SUFFICES ASSUME PipelineInv, record.state = "AWAITING_APPROVAL"
                 PROVE  /\ evidence = AllFacts
                        /\ rules = {case.catalog[i] : i \in RulesInForce}
    BY DEF GateShowsEverything, AllFacts
  <2>2. Ingestion /\ todo = <<>> /\ rules = Citations(case)
    BY <2>1 DEF PipelineInv, StageInv, AfterFacts, AfterRules
  <2>3. QED
    BY <2>2, IngestedFacts, CitationsAreInForce DEF Ingestion
<1>2. QED
  BY <1>1, PipelineAlways, PTL

(* The trace of a prepared run is the one _trace_integrity_errors insists  *)
(* on, for any number of documents.                                        *)
THEOREM TraceIsAlwaysTheExpectedOne == Spec => []TraceIsTheExpectedOne
<1>1. PipelineInv => TraceIsTheExpectedOne
  <2>1. SUFFICES ASSUME PipelineInv, record.state = "AWAITING_APPROVAL"
                 PROVE  trace = ExpectedEvents(Len(case.documents))
    BY DEF TraceIsTheExpectedOne
  <2>2. Ingestion /\ todo = <<>> /\ trace = ExpectedEvents(Done)
    BY <2>1 DEF PipelineInv, StageInv, VerdictInv, TraceInv, AfterFacts
  <2>3. QED
    BY <2>2, IngestedFacts
<1>2. QED
  BY <1>1, PipelineAlways, PTL

(* No preparation ends at the audit: decision_audit blocks nothing that    *)
(* the stages before it have let through.                                  *)
THEOREM AuditNeverFindsAnythingNew == Spec => []AuditFindsNothingNew
<1>1. PipelineInv => AuditFindsNothingNew
  BY DEF PipelineInv, VerdictInv, AuditFindsNothingNew
<1>2. QED
  BY <1>1, PipelineAlways, PTL

(* The dates and amounts of a value are what date.fromisoformat and Decimal*)
(* can return.                                                             *)
LEMMA ToldValues ==
    ASSUME Ingestion, FactsComplete
    PROVE  /\ \A f \in DateFields : \A v \in Told(f) : v.date \in Dates
           /\ \A f \in AmountFields : \A v \in Told(f) : v.amount \in Nat
<1>1. ASSUME NEW f, NEW v \in Told(f) PROVE IsValue(v)
  <2>1. PICK d \in ToSet(case.documents) : f \in FieldsOf(d) /\ v = d.fields[f]
    BY <1>1 DEF Told
  <2>2. f \in DOMAIN d.fields
    BY <2>1 DEF FieldsOf
  <2>3. QED
    BY <2>1, <2>2, PipelineAssumption DEF Ingestion
<1>2. ASSUME NEW f \in DateFields, NEW v \in Told(f) PROVE v.date \in Dates
  <2>1. v.date # NoDate
    BY DEF FactsComplete
  <2>2. QED
    BY <1>1, <2>1 DEF IsValue, Dates
<1>3. QED
  BY <1>1, <1>2 DEF IsValue

(* The sheet before a human is the statute's, for every pair of dates and  *)
(* every wage: _service_coefficient and the cap of deterministic_calculate *)
(* compute what is due for the facts of the documents, and nothing between *)
(* the calculation and the gate changes it.                                *)
THEOREM SheetsFollowStatute == Spec => []SheetFollowsStatute
<1>1. PipelineInv => SheetFollowsStatute
  <2>1. SUFFICES ASSUME PipelineInv, record.state = "AWAITING_APPROVAL",
                        NEW s \in Told("employment_start_date"),
                        NEW e \in Told("planned_termination_date"),
                        NEW wage \in Told("monthly_wage_average"),
                        NEW average \in Told("local_previous_year_monthly_average_wage")
                 PROVE  /\ CoefficientIsDue(s.date, e.date, sheet.coefficient)
                        /\ AmountIsDue(wage.amount, average.amount, sheet.coefficient,
                                       sheet.amount)
    BY DEF SheetFollowsStatute
  <2>2. Ingestion /\ Drawn /\ FactsComplete /\ ServiceInRange
    BY <2>1 DEF PipelineInv, StageInv, AfterSheet
  <2>3. sheet = SheetOf(s, e, wage, average)
    BY <2>2 DEF Drawn
  <2> DEFINE c == ServiceCoefficient(s.date, e.date)
  <2>4. sheet.coefficient = c /\ sheet.amount = Amount(wage.amount, average.amount, c)
    BY <2>3 DEF SheetOf
  <2>5. s.date \in Dates /\ e.date \in Dates /\ wage.amount \in Nat /\ average.amount \in Nat
    BY <2>2, ToldValues DEF DateFields, AmountFields
  <2>6. ~Before(e.date, s.date)
    BY <2>2 DEF ServiceInRange, ServiceCountable
  <2>7. c \in Nat /\ CoefficientIsDue(s.date, e.date, c)
    BY <2>5, <2>6, CoefficientFollowsStatute, Zenon
  <2> HIDE DEF c
  <2>8. AmountIsDue(wage.amount, average.amount, c, Amount(wage.amount, average.amount, c))
    BY <2>5, <2>7, AmountFollowsCoefficient, Zenon
  <2>9. QED
    BY <2>4, <2>7, <2>8, Zenon
<1>2. QED
  BY <1>1, PipelineAlways, PTL
================================================================================
