----------------------------- MODULE CasePipeline -----------------------------
(***************************************************************************)
(* What prepare_reference_run of src/proofflow/reference_runtime.py does   *)
(* in memory before it writes a run: the chain of skills (src/proofflow/   *)
(* skills and strategy.py) that takes a case from RECEIVED to the gate,    *)
(* one transition of the case state machine after each stage.  A skill     *)
(* that does not succeed, or a refused transition, ends the preparation.   *)
(*                                                                         *)
(* Data.  A document is what evidence_ingest finds in it; it parses if it  *)
(* can be decoded, read and sealed.  A value is its normalised text and    *)
(* what date.fromisoformat and Decimal make of that text: a date or        *)
(* NoDate, a positive amount (in thousandths) or 0.  Values are compared   *)
(* as texts, so two spellings of one date are two values.  An evidence     *)
(* object is named by document, field and value, as its artifact_id is.    *)
(* A jurisdiction is the sequence of its parts.  A citation is the record  *)
(* it cites.  No skill tells the order of evidence or of citations apart   *)
(* (the comparison of scopes sorts them by key): both are sets here.       *)
(***************************************************************************)
EXTENDS Compensation, Naturals, Sequences, SequencesExt, FiniteSets

CONSTANTS
    Cases,          \* the manifests, each with the rule catalog it is run with
    Extractable,    \* EXTRACTABLE_FIELDS
    StoreCapacity,  \* capacity of the registry of trusted evidence
    MaxAmount       \* the largest amount that has no more digits than Decimal keeps

(* REQUIRED_FIELDS: two dates and two amounts.                             *)
DateFields == {"employment_start_date", "planned_termination_date"}
AmountFields == {"monthly_wage_average", "local_previous_year_monthly_average_wage"}
RequiredFields == DateFields \cup AmountFields
RequiredRuleIssues == {"economic_compensation_amount", "economic_compensation_wage_basis"}

(* max_length of the issue codes of a RuleRetrieveRequest.                 *)
MaxIssueCodes == 32

NoDate == <<0, 0, 0>>
IsValue(v) ==
    /\ v.date = NoDate \/ (v.date \in Nat \X Nat \X Nat /\ IsDate(v.date))
    /\ v.amount \in Nat

ASSUME PipelineAssumption ==
    /\ RequiredFields \subseteq Extractable
    /\ IsFiniteSet(Extractable)
    /\ StoreCapacity \in Nat \ {0}
    /\ MaxAmount \in Nat
    /\ \A c \in Cases : /\ c.documents \in Seq(ToSet(c.documents))
                        /\ c.issues \in Seq(ToSet(c.issues))
                        /\ c.catalog \in Seq(ToSet(c.catalog))
                        /\ \A d \in ToSet(c.documents) :
                               \A f \in DOMAIN d.fields : IsValue(d.fields[f])

VARIABLES
    case,       \* the input: documents, issues, jurisdiction, asOf, catalog
    record,     \* the CaseRecord: state and state_version
    todo,       \* documents still to be ingested
    evidence,   \* the evidence objects so far
    store,      \* TrustedArtifactStore: those of them that are registered
    rules,      \* the rule citations
    sheet,      \* the calculation sheet: made, coefficient and amount
    verdict,    \* of the audit report
    trace,      \* the trace: type and actor of each event
    outcome     \* "running", "ready" at the gate, or why the preparation ended

vars == <<case, record, todo, evidence, store, rules, sheet, verdict, trace, outcome>>

-----------------------------------------------------------------------------
(* The transitions are guarded by the case state machine itself, called    *)
(* with the version of the record at hand and the next number of the trace.*)
Machine == INSTANCE CaseStateMachine
    WITH Contexts <- {}, MaxVersion <- 6, case <- record, gate <- "unused"

(* A TransitionContext in which only the given entry is set.               *)
ContextOf(flag, value) ==
    [f \in {"manifest_valid", "input_hashes_match", "evidence_complete", "rules_valid",
            "calculation_complete", "proposal_complete", "audit_verdict",
            "has_blocking_issue"} |->
        IF f = flag THEN value ELSE f \in {"manifest_valid", "input_hashes_match"}]

TransitionEvent == <<"case.state_transition", "PF-A1">>

MayAdvance(events, target, flag, value) ==
    Machine!TransitionAllowed(record.state_version, Len(trace \o events) + 1, target,
                              "AGENT", ContextOf(flag, value))

(* A skill has succeeded and left its event; the transition that follows   *)
(* is made, or raises.                                                     *)
Advance(events, target, flag, value) ==
    \/ /\ MayAdvance(events, target, flag, value)
       /\ record' = [state |-> target, state_version |-> record.state_version + 1]
       /\ trace' = trace \o events \o <<TransitionEvent>>
       /\ outcome' = IF target = "AWAITING_APPROVAL" THEN "ready" ELSE outcome
    \/ /\ ~MayAdvance(events, target, flag, value)
       /\ trace' = trace \o events
       /\ outcome' = "TRANSITION_REFUSED"
       /\ UNCHANGED record

(* _require_success: the preparation ends with the skill's issue.          *)
Stop(events, reason) ==
    /\ trace' = trace \o events
    /\ outcome' = reason
    /\ UNCHANGED record

-----------------------------------------------------------------------------
(* evidence_ingest and the manifest hash check before it.                  *)
IngestFault(d) ==
    IF ~d.intact THEN "MANIFEST_HASH_MISMATCH"
    ELSE IF d.media \notin {"json", "text"} THEN "UNSUPPORTED_FILE"
    ELSE IF ~d.parses THEN "PARSE_FAILED"
    ELSE "none"

(* One object per extractable field; plain text has none.                  *)
Extracted(d) ==
    IF d.media = "text" THEN {}
    ELSE {[doc |-> d.id, field |-> f, value |-> d.fields[f]] :
              f \in DOMAIN d.fields \cap Extractable}

Applies(rule, c) == IsPrefix(rule.jurisdiction, c.jurisdiction)

(* matching_rule_records: of the issue, for the jurisdiction, in force.    *)
MatchingRuleRecords(c, issue) ==
    {rule \in ToSet(c.catalog) :
        /\ rule.issue = issue
        /\ Applies(rule, c)
        /\ rule.from <= c.asOf
        /\ c.asOf <= rule.to}

(* Of several rules for an issue one is cited.                             *)
BadCitations(c) ==
    {CHOOSE rule \in MatchingRuleRecords(c, issue) : TRUE : issue \in ToSet(c.issues)}

Citations(c) == UNION {MatchingRuleRecords(c, issue) : issue \in ToSet(c.issues)}

(* RuleRetrieveRequest: some issue codes but not too many, none empty and  *)
(* none twice, and a jurisdiction.                                         *)
RequestValid(c) ==
    /\ Len(c.issues) \in 1..MaxIssueCodes
    /\ "" \notin ToSet(c.issues)
    /\ Cardinality(ToSet(c.issues)) = Len(c.issues)
    /\ c.jurisdiction # <<>>

(* The construction of the request, then rule_retrieve.                    *)
RetrieveFault(c) ==
    IF ~RequestValid(c) THEN "INVALID_REQUEST"
    ELSE IF \E issue \in ToSet(c.issues) : MatchingRuleRecords(c, issue) = {}
        THEN "INSUFFICIENT_AUTHORITY"
    ELSE "none"

ValuesOf(field) == {e.value : e \in {x \in evidence : x.field = field}}

(* Of several values the first one is taken.                               *)
BadConflicting == {}

(* _field_values: the fields with more than one value.                     *)
Conflicting ==
    {f \in {e.field : e \in evidence} : Cardinality(ValuesOf(f)) > 1}

(* _rule_matches_catalog: one record has the rule's id and version.        *)
MatchesCatalog(rule) ==
    Cardinality({i \in DOMAIN case.catalog : case.catalog[i].key = rule.key}) = 1

(* CompensationParameters and _service_coefficient, on fields that have    *)
(* one value each.                                                         *)
ParametersValid ==
    /\ \A f \in DateFields : \A v \in ValuesOf(f) : v.date # NoDate
    /\ \A f \in AmountFields : \A v \in ValuesOf(f) : v.amount # 0
    /\ \A s \in ValuesOf("employment_start_date"), e \in ValuesOf("planned_termination_date") :
           ServiceCountable(s.date, e.date)

(* The sheet for a start, an end, a wage and a local average.              *)
SheetOf(s, e, wage, average) ==
    LET coefficient == ServiceCoefficient(s.date, e.date)
    IN  [made |-> TRUE, coefficient |-> coefficient,
         amount |-> Amount(wage.amount, average.amount, coefficient)]

ValueOf(field) == CHOOSE v \in ValuesOf(field) : TRUE
Calculated ==
    SheetOf(ValueOf("employment_start_date"), ValueOf("planned_termination_date"),
            ValueOf("monthly_wage_average"),
            ValueOf("local_previous_year_monthly_average_wage"))

(* The rules the formula needs are not looked for.                         *)
BadCalculateFault ==
    IF ~(evidence \subseteq store) THEN "UNTRUSTED_EVIDENCE"
    ELSE IF Conflicting # {} THEN "CONFLICTING_PARAMETER"
    ELSE IF \E f \in RequiredFields : ValuesOf(f) = {} THEN "MISSING_PARAMETER"
    ELSE IF ~ParametersValid THEN "INVALID_PARAMETER"
    ELSE IF ~(Calculated.amount <= MaxAmount) THEN "INVALID_OPERATION"
    ELSE "none"

(* deterministic_calculate: artifacts, scope, conflicts and gaps in what   *)
(* is needed, the parameters, and an amount that quantize cannot round.    *)
CalculateFault ==
    IF \E rule \in rules : ~MatchesCatalog(rule) THEN "UNVERIFIED_ARTIFACT"
    ELSE IF ~(evidence \subseteq store) THEN "UNTRUSTED_EVIDENCE"
    ELSE IF rules # Citations(case) THEN "RULE_SCOPE_MISMATCH"
    ELSE IF Conflicting # {} THEN "CONFLICTING_PARAMETER"
    ELSE IF \E f \in RequiredFields : ValuesOf(f) = {} THEN "MISSING_PARAMETER"
    ELSE IF ~(RequiredRuleIssues \subseteq {rule.issue : rule \in rules})
        THEN "MISSING_RULE"
    ELSE IF ~ParametersValid THEN "INVALID_PARAMETER"
    ELSE IF ~(Calculated.amount <= MaxAmount) THEN "INVALID_OPERATION"
    ELSE "none"

(* conflict_detect: the fields it reports, all of them blockers.           *)
BlockerConflicts ==
    {f \in Extractable : \E a, b \in evidence :
                             a.field = f /\ b.field = f /\ a.value # b.value}

RequiredPreAuditEvents ==
    {"skill.evidence_ingest", "skill.timeline_build", "skill.rule_retrieve",
     "skill.deterministic_calculate", "strategy.proposal_generate", "skill.conflict_detect"}

(* decision_audit, on the events seen so far.  The one proposal refers to  *)
(* all of the evidence and of the rules.                                   *)
Audit(events) ==
    IF /\ RequiredPreAuditEvents \subseteq {events[i][1] : i \in DOMAIN events}
       /\ BlockerConflicts = {}
       /\ sheet.made
       /\ evidence # {} /\ rules # {}
    THEN "PASS" ELSE "BLOCK"

-----------------------------------------------------------------------------
Init ==
    /\ case \in Cases
    /\ record = [state |-> "RECEIVED", state_version |-> 0]
    /\ todo = case.documents
    /\ evidence = {} /\ store = {} /\ rules = {}
    /\ sheet = [made |-> FALSE, coefficient |-> 0, amount |-> 0] /\ verdict = "NONE"
    /\ trace = <<>>
    /\ outcome = "running"

At(state) == outcome = "running" /\ record.state = state

Receive ==
    /\ At("RECEIVED")
    /\ Advance(<<>>, "INGESTING", "manifest_valid", TRUE)
    /\ UNCHANGED <<case, todo, evidence, store, rules, sheet, verdict>>

(* A document without evidence leaves no event, and any number registers.  *)
BadIngestDocument ==
    LET d == Head(todo)
    IN  /\ At("INGESTING") /\ todo # <<>>
        /\ IngestFault(d) = "none"
        /\ evidence' = evidence \cup Extracted(d)
        /\ store' = store \cup Extracted(d)
        /\ todo' = Tail(todo)
        /\ trace' = IF Extracted(d) = {} THEN trace
                    ELSE Append(trace, <<"skill.evidence_ingest", "PF-A2">>)
        /\ UNCHANGED <<case, record, rules, sheet, verdict, outcome>>

(* One round of the loop over the documents.  What cannot be read at all   *)
(* raises before the skill runs and leaves no event.                       *)
IngestDocument ==
    LET d == Head(todo)
        event == <<"skill.evidence_ingest", "PF-A2">>
        registered == store \cup Extracted(d)
    IN  /\ At("INGESTING") /\ todo # <<>>
        /\ \/ /\ IngestFault(d) # "none"
              /\ Stop(IF d.intact THEN <<event>> ELSE <<>>, IngestFault(d))
              /\ UNCHANGED <<evidence, store, todo>>
           \/ /\ IngestFault(d) = "none"
              /\ Cardinality(registered) > StoreCapacity
              /\ Stop(<<event>>, "REGISTRATION_FAILED")
              /\ UNCHANGED <<evidence, store, todo>>
           \/ /\ IngestFault(d) = "none"
              /\ Cardinality(registered) <= StoreCapacity
              /\ evidence' = evidence \cup Extracted(d)
              /\ store' = registered
              /\ todo' = Tail(todo)
              /\ trace' = Append(trace, event)
              /\ UNCHANGED <<record, outcome>>
        /\ UNCHANGED <<case, rules, sheet, verdict>>

(* timeline_build: a date that is none needs a human.  The facts are ready *)
(* if there is any evidence.                                               *)
BuildTimeline ==
    LET event == <<<<"skill.timeline_build", "PF-A2">>>>
    IN  /\ At("INGESTING") /\ todo = <<>>
        /\ \/ /\ \E f \in DateFields : \E v \in ValuesOf(f) : v.date = NoDate
              /\ Stop(event, "AMBIGUOUS_DATE")
           \/ /\ \A f \in DateFields : \A v \in ValuesOf(f) : v.date # NoDate
              /\ Advance(event, "FACTS_READY", "evidence_complete", evidence # {})
        /\ UNCHANGED <<case, todo, evidence, store, rules, sheet, verdict>>

RetrieveRules ==
    LET event == <<<<"skill.rule_retrieve", "PF-A3">>>>
    IN  /\ At("FACTS_READY")
        /\ \/ /\ RetrieveFault(case) # "none"
              /\ Stop(IF RetrieveFault(case) = "INVALID_REQUEST" THEN <<>> ELSE event,
                      RetrieveFault(case))
              /\ UNCHANGED rules
           \/ /\ RetrieveFault(case) = "none"
              /\ rules' = Citations(case)
              /\ Advance(event, "RULES_READY", "rules_valid", Citations(case) # {})
        /\ UNCHANGED <<case, todo, evidence, store, sheet, verdict>>

(* A failed quantize raises out of the skill and leaves no event.          *)
Calculate ==
    LET event == <<<<"skill.deterministic_calculate", "PF-A4">>>>
    IN  /\ At("RULES_READY")
        /\ \/ /\ CalculateFault # "none"
              /\ Stop(IF CalculateFault = "INVALID_OPERATION" THEN <<>> ELSE event,
                      CalculateFault)
              /\ UNCHANGED sheet
           \/ /\ CalculateFault = "none"
              /\ sheet' = Calculated
              /\ Advance(event, "CALC_READY", "calculation_complete", TRUE)
        /\ UNCHANGED <<case, todo, evidence, store, rules, verdict>>

(* create_candidate_proposals: one proposal, from a sealed sheet.          *)
Propose ==
    /\ At("CALC_READY")
    /\ Advance(<<<<"strategy.proposal_generate", "PF-A5">>>>, "PROPOSAL_READY",
               "proposal_complete", sheet.made)
    /\ UNCHANGED <<case, todo, evidence, store, rules, sheet, verdict>>

(* conflict_detect and decision_audit, and the way to the gate.  Conflicts *)
(* do not stop the former; the latter blocks on them.                      *)
DetectAndAudit ==
    LET detected == <<<<"skill.conflict_detect", "PF-A6">>>>
        audited == Append(detected, <<"skill.decision_audit", "PF-A6">>)
    IN  /\ At("PROPOSAL_READY")
        /\ verdict' = Audit(trace \o detected)
        /\ \/ /\ verdict' = "BLOCK"
              /\ Stop(audited, "AUDIT_BLOCKED")
           \/ /\ verdict' = "PASS"
              /\ Advance(audited, "AWAITING_APPROVAL", "audit_verdict", "PASS")
        /\ UNCHANGED <<case, todo, evidence, store, rules, sheet>>

Next ==
    \/ Receive \/ IngestDocument \/ BuildTimeline \/ RetrieveRules
    \/ Calculate \/ Propose \/ DetectAndAudit

Spec == Init /\ [][Next]_vars

-----------------------------------------------------------------------------
(* A case as the operator would judge it, from the input alone.            *)
FieldsOf(d) == IF d.media = "text" THEN {} ELSE DOMAIN d.fields \cap Extractable
Told(field) ==
    {d.fields[field] : d \in {d \in ToSet(case.documents) : field \in FieldsOf(d)}}
InForce(rule) ==
    /\ rule.from <= case.asOf /\ case.asOf <= rule.to
    /\ IsPrefix(rule.jurisdiction, case.jurisdiction)
RulesInForce ==
    {i \in DOMAIN case.catalog : /\ InForce(case.catalog[i])
                                 /\ case.catalog[i].issue \in ToSet(case.issues)}

DocumentsReadable == \A d \in ToSet(case.documents) : IngestFault(d) = "none"
FactsConsistent == \A f \in Extractable : Cardinality(Told(f)) <= 1
FactsComplete ==
    /\ \A f \in RequiredFields : Told(f) # {}
    /\ \A f \in DateFields : \A v \in Told(f) : v.date # NoDate
    /\ \A f \in AmountFields : \A v \in Told(f) : v.amount # 0
ServiceInRange ==
    \A s \in Told("employment_start_date"), e \in Told("planned_termination_date"),
       wage \in Told("monthly_wage_average"),
       average \in Told("local_previous_year_monthly_average_wage") :
        /\ ServiceCountable(s.date, e.date)
        /\ SheetOf(s, e, wage, average).amount <= MaxAmount
RulesComplete ==
    /\ Len(case.issues) <= MaxIssueCodes
    /\ case.jurisdiction # <<>> /\ "" \notin ToSet(case.issues)
    /\ RequiredRuleIssues \subseteq ToSet(case.issues)
    /\ \A m, n \in DOMAIN case.issues : case.issues[m] = case.issues[n] => m = n
    /\ \A issue \in ToSet(case.issues) : \E i \in RulesInForce : case.catalog[i].issue = issue
    /\ \A i \in RulesInForce, j \in DOMAIN case.catalog :
           case.catalog[i].key = case.catalog[j].key => i = j
StoreSuffices ==
    Cardinality(UNION {Extracted(d) : d \in ToSet(case.documents)}) <= StoreCapacity

Whole ==
    /\ DocumentsReadable /\ FactsConsistent /\ FactsComplete /\ ServiceInRange
    /\ RulesComplete /\ StoreSuffices

(* Exactly the whole cases come before a human.  None with an unreadable   *)
(* document, two texts for one field, a required fact missing, a service   *)
(* that cannot be counted, an issue without a rule in force or more issues *)
(* than a request may name; and none is refused without such a fault of    *)
(* its own: repeated facts, plain text, regional rules beside national     *)
(* ones, rules in their first or last day, an employment that ends with    *)
(* the calendar and a request with as many issues as it may have block     *)
(* nothing (prepare_reference_run and the skills it calls).                *)
ExactlyWholeCasesReachTheGate ==
    /\ record.state = "AWAITING_APPROVAL" => Whole
    /\ outcome \notin {"running", "ready"} => ~Whole

(* The human sees everything: what awaits approval holds each fact of each *)
(* document and each rule in force for the issues, none dropped on the way.*)
GateShowsEverything ==
    record.state = "AWAITING_APPROVAL" =>
        /\ evidence = UNION {Extracted(d) : d \in ToSet(case.documents)}
        /\ rules = {case.catalog[i] : i \in RulesInForce}

(* The events _trace_integrity_errors expects of a run at the gate.        *)
ExpectedEvents(documents) ==
    <<TransitionEvent>>
    \o [n \in 1..documents |-> <<"skill.evidence_ingest", "PF-A2">>]
    \o <<<<"skill.timeline_build", "PF-A2">>, TransitionEvent,
         <<"skill.rule_retrieve", "PF-A3">>, TransitionEvent,
         <<"skill.deterministic_calculate", "PF-A4">>, TransitionEvent,
         <<"strategy.proposal_generate", "PF-A5">>, TransitionEvent,
         <<"skill.conflict_detect", "PF-A6">>, <<"skill.decision_audit", "PF-A6">>,
         TransitionEvent>>

(* Whatever the documents, the trace a prepared run is written with is the *)
(* one that packaging and verification will insist on.                     *)
TraceIsTheExpectedOne ==
    record.state = "AWAITING_APPROVAL" => trace = ExpectedEvents(Len(case.documents))

(* The audit is a second line: what it would block, the calculation has    *)
(* already refused, so no preparation ends at the audit.                   *)
AuditFindsNothingNew == verdict # "BLOCK"

(* The sheet a human is shown at the gate holds what article 47 gives for  *)
(* the dates and wages of the documents, whatever day of the calendar the  *)
(* service begins and ends on: the coefficient the statute counts, but for *)
(* the leap-day exception of CoefficientIsDue, and the amount that is due  *)
(* for it, to the nearest hundredth (_service_coefficient, _add_months and *)
(* the cap in deterministic_calculate).                                    *)
SheetFollowsStatute ==
    record.state = "AWAITING_APPROVAL" =>
        \A s \in Told("employment_start_date"), e \in Told("planned_termination_date"),
           wage \in Told("monthly_wage_average"),
           average \in Told("local_previous_year_monthly_average_wage") :
            /\ CoefficientIsDue(s.date, e.date, sheet.coefficient)
            /\ AmountIsDue(wage.amount, average.amount, sheet.coefficient, sheet.amount)
=============================================================================
