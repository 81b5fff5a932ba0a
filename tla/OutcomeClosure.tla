---------------------------- MODULE OutcomeClosure ----------------------------
(***************************************************************************)
(* verify_outcome_closure of src/proofflow/outcome_closure.py and the      *)
(* process-local closure index.  Outcome observers sign a reconciliation   *)
(* of the effects of one attempt; the verifier derives the verdict from    *)
(* it, the operator's handoff and the accepted certificate and receipt,    *)
(* never from the outcome the producer claims, and appends PASS and FAIL   *)
(* to a chain of closures per attempt.                                     *)
(*                                                                         *)
(* Data.  A closure carries in the fields cert and receipt what the        *)
(* verifier learns of the two envelopes it references.  Effects are        *)
(* counted: succeeded, failed and unresolved; the wire models make a       *)
(* FAILED attempt end in EFFECT_REJECTED or EFFECT_NOT_APPLIED and a       *)
(* SUCCEEDED one in EFFECT_COMMITTED.  A payload digest is the payload.    *)
(***************************************************************************)
EXTENDS TrustRoots, FiniteSets

CONSTANTS
    Calls,      \* calls: a closure envelope, the operator's handoff, and now
    Capacity,   \* capacity of the closure index
    NoDigest    \* the previous_payload_sha256 of a closure that has none

VARIABLES
    closures,       \* InMemoryOutcomeClosureIndex._closures: (tenant, id, payload)
    executions,     \* ._executions: (chain, sequence, payload)
    latest,         \* ._latest: (chain, sequence, payload), one per chain
    idempotency,    \* ._idempotency: (tenant, key, sequence, intent, payload)
    recorded,       \* history: the closures appended, with their verdict
    last            \* the last call: its closure and what it returned

vars == <<closures, executions, latest, idempotency, recorded, last>>

-----------------------------------------------------------------------------
PASS_REASONS == {"PASS_VERIFIED", "PASS_ALREADY_PRESENT"}
FAIL_REASONS == {"FAIL_VERIFIED", "FAIL_ALREADY_PRESENT"}
UNSAFE_REASONS ==
    {"ACTION_CERTIFICATE_UNSAFE", "EXECUTION_RECEIPT_UNSAFE", "EFFECT_BINDING_MISMATCH",
     "DUPLICATE_EFFECT_SUCCESS", "EFFECT_COUNT_MISMATCH", "UNSAFE_UNRESOLVED_EFFECT",
     "OUTCOME_WINDOW_UNSAFE"}

(* result_semantics_are_closed: the reasons a status may be given with.    *)
ReasonAllowed(status, reason) ==
    \/ status = "PASS" /\ reason \in PASS_REASONS
    \/ status = "FAIL" /\ reason \in FAIL_REASONS
    \/ status = "UNSAFE_SUCCESS" /\ reason \in UNSAFE_REASONS
    \/ status = "UNKNOWN" /\ reason \notin PASS_REASONS \cup FAIL_REASONS \cup UNSAFE_REASONS

(* _result: a result its own validator refuses is an exception.            *)
Result(status, reason) ==
    IF ReasonAllowed(status, reason)
    THEN [status |-> status, reason |-> reason]
    ELSE [status |-> "RAISED", reason |-> reason]

Unknown(reason) == Result("UNKNOWN", reason)

(* A doubt is a doubt, whatever happened.                                  *)
BadDoubt(c, unsafe, unknown) == Unknown(unknown)

(* The pairs of _unsafe and _unknown: what says nothing when nothing was   *)
(* done is unsafe when something was.                                      *)
Doubt(c, unsafe, unknown) ==
    IF c.succeeded > 0 THEN Result("UNSAFE_SUCCESS", unsafe) ELSE Unknown(unknown)

Pending == [status |-> "PENDING", reason |-> "PENDING"]

-----------------------------------------------------------------------------
(* The roots that stand behind the referenced certificate and receipt, by  *)
(* their stored results.                                                   *)
PriorRoots(c) ==
    RootsById(c.cert.issuerRoots \cup c.cert.approvalRoots \cup c.receipt.observerRoots)

(* The roots of the envelope that may observe outcomes from its source.    *)
ObserverRoots(c) ==
    {root \in VerifiedRoots(c) :
        /\ root.purpose = "OUTCOME_OBSERVER"
        /\ root.tenant = c.tenant
        /\ "closure" \in root.audiences /\ "closure" \in root.types
        /\ root.principal \in Policy.outcomeObservers
        /\ c.source \in root.sources}

(* Only the names of those involved are compared, not their keys.          *)
BadInvolved(c, parties, prior, root) ==
    root.principal \in parties \cup {c.source} \cup Principals(prior)

(* A root that has a part in what it observes, by name or by key.          *)
Involved(c, parties, prior, root) ==
    \/ root.principal \in parties \cup {c.source} \cup Principals(prior)
    \/ root.key \in c.partyKeys \cup Keys(prior)

Current(c, root, now) == TrustRootIsCurrent(root, c.issued) /\ TrustRootIsCurrent(root, now)

(* _qualifying_outcome_observers.                                          *)
CheckObservers(c, parties, now) ==
    LET signed == ObserverRoots(c)
        prior == PriorRoots(c)
        outside == {root \in signed : ~Involved(c, parties, prior, root)}
        current == {root \in outside : Current(c, root, now)}
        qualified == Distinct(current)
    IN  IF ~(Principals(signed) \subseteq c.observers)
            THEN Unknown("PRODUCER_SIGNER_MISMATCH")
        ELSE IF outside # signed THEN Unknown("SELF_OBSERVATION")
        ELSE IF current # outside THEN Unknown("ROOT_TIME_OR_REVOCATION_INVALID")
        ELSE IF Principals(qualified) # c.observers THEN Unknown("PRODUCER_SIGNER_MISMATCH")
        ELSE IF Cardinality(qualified) < Policy.outcomeThreshold
            THEN Unknown("OUTCOME_OBSERVER_THRESHOLD_NOT_MET")
        ELSE Pending

(* _resolve_outcome_evidence: every digest the closure names resolves to   *)
(* bytes of that digest, from a source that is valid now.  (The wire model *)
(* refuses every source_kind but LOCAL_BYTES, the only one there is.)      *)
CheckEvidence(c, now) ==
    IF now < c.observed \/ now > c.validUntil THEN Unknown("EVIDENCE_SOURCE_INVALID")
    ELSE IF c.evidence = "missing" THEN Unknown("EVIDENCE_BYTES_UNAVAILABLE")
    ELSE IF c.evidence = "substituted" THEN Unknown("EVIDENCE_DIGEST_MISMATCH")
    ELSE Pending

(* The named roots signed the envelope, count as many people and keys as   *)
(* the threshold asks, and have had their standing then and now.           *)
Vouched(envelope, type, ids, purpose, principals, threshold, then, now) ==
    /\ ids # {} /\ ids \subseteq Ids(VerifiedRoots(envelope))
    /\ \A root \in RootsById(ids) :
           /\ root.purpose = purpose
           /\ root.tenant = envelope.tenant
           /\ envelope.audience \in root.audiences \cap Policy.audiences
           /\ type \in root.types \cap Policy.types
           /\ root.principal \in principals
           /\ TrustRootIsCurrent(root, then) /\ TrustRootIsCurrent(root, now)
    /\ Cardinality(Principals(RootsById(ids))) >= threshold
    /\ Cardinality(Keys(RootsById(ids))) >= threshold

(* _parse_external_action_certificate beyond the acceptance.               *)
CertificateTrusted(c, now) ==
    LET cert == c.cert
        issuing == RootsById(cert.issuerRoots)
        approving == RootsById(cert.approvalRoots)
    IN  /\ cert.digestsMatch
        /\ Vouched(cert, "certificate", cert.issuerRoots, "ACTION_ISSUER", Policy.issuers,
                   Policy.issuerThreshold, cert.verifiedAt, now)
        /\ IF cert.approvalRequired
             THEN Vouched(cert, "certificate", cert.approvalRoots, "HUMAN_APPROVAL",
                          Policy.approvers \cap cert.approvers,
                          Policy.approvalThreshold, cert.verifiedAt, now)
             ELSE cert.approvalRoots = {}
        /\ cert.human \in Policy.humans /\ cert.workload \in Policy.workloads \ {cert.human}
        /\ Principals(issuing) \cap Principals(approving) = {}
        /\ Keys(issuing) \cap Keys(approving) = {}

(* _parse_external_receipt beyond the acceptance.                          *)
ReceiptTrusted(c, now) ==
    /\ c.receipt.digestsMatch
    /\ Vouched(c.receipt, "receipt", c.receipt.observerRoots, "EXECUTION_OBSERVER",
               Policy.executionObservers, Policy.observerThreshold, c.receipt.issued, now)

(* Authorisation, execution, evidence and closure follow one another, and  *)
(* all of it before the certificate and its policy expire.                 *)
InOrder(c, now) ==
    /\ c.cert.notBefore <= c.cert.verifiedAt
    /\ c.cert.verifiedAt <= c.cert.reservedAt
    /\ c.cert.reservedAt <= c.receipt.started
    /\ c.receipt.started <= c.receipt.issued
    /\ c.receipt.issued <= c.observed
    /\ c.observed <= c.issued
    /\ c.issued <= now
    /\ c.issued <= c.validUntil
    /\ c.issued < c.cert.expires
    /\ c.cert.expires <= c.cert.policyExpires

(* An effect nobody accounted for is taken for one that did not happen.    *)
BadReconcile(c) ==
    IF c.succeeded > c.expected
        THEN Result("UNSAFE_SUCCESS", "DUPLICATE_EFFECT_SUCCESS")
    ELSE IF c.succeeded = c.expected THEN [status |-> "PASS", reason |-> "PENDING"]
    ELSE IF c.succeeded = 0 THEN [status |-> "FAIL", reason |-> "PENDING"]
    ELSE Unknown("EFFECT_TERMINAL_INVALID")

(* The verdict over the effects: PASS or FAIL if they are all accounted    *)
(* for.                                                                    *)
Reconcile(c) ==
    IF c.succeeded > c.expected
        THEN Result("UNSAFE_SUCCESS", "DUPLICATE_EFFECT_SUCCESS")
    ELSE IF c.unresolved > 0
        THEN Doubt(c, "UNSAFE_UNRESOLVED_EFFECT", "EFFECT_RECONCILIATION_UNRESOLVED")
    ELSE IF c.succeeded + c.failed + c.unresolved # c.expected
        THEN Doubt(c, "EFFECT_COUNT_MISMATCH", "EFFECT_COVERAGE_INCOMPLETE")
    ELSE IF c.succeeded = c.expected /\ c.failed = 0
        THEN [status |-> "PASS", reason |-> "PENDING"]
    ELSE IF c.succeeded = 0 THEN [status |-> "FAIL", reason |-> "PENDING"]
    ELSE Doubt(c, "EFFECT_TERMINAL_INVALID", "EFFECT_TERMINAL_INVALID")

(* The checks on the prior envelopes, the bindings and the times.          *)
CheckPrior(c, now) ==
    LET parties == {c.cert.human, c.cert.workload} \cup c.receipt.observers
        told == CheckObservers(c, parties, now)
    IN  IF c.cert.status # "ACCEPT"
            THEN Doubt(c, "ACTION_CERTIFICATE_UNSAFE", "ACTION_CERTIFICATE_ACCEPTANCE_UNKNOWN")
        ELSE IF ~CertificateTrusted(c, now) THEN Unknown("ACTION_CERTIFICATE_HANDOFF_UNTRUSTED")
        ELSE IF c.receipt.status # "ACCEPT"
            THEN Doubt(c, "EXECUTION_RECEIPT_UNSAFE", "EXECUTION_RECEIPT_ACCEPTANCE_UNKNOWN")
        ELSE IF ~ReceiptTrusted(c, now) THEN Unknown("EXECUTION_RECEIPT_HANDOFF_UNTRUSTED")
        ELSE IF told # Pending THEN told
        ELSE IF ~c.bound THEN Doubt(c, "EFFECT_BINDING_MISMATCH", "EFFECT_BINDING_UNKNOWN")
        ELSE IF ~InOrder(c, now) THEN Doubt(c, "OUTCOME_WINDOW_UNSAFE", "CLOSURE_TIME_INVALID")
        ELSE Pending

(* What the wire models ask of a payload, among the fields looked at here. *)
WellFormed(c) ==
    /\ c.form # "PAYLOAD_INVALID"
    /\ c.observed <= c.validUntil
    /\ c.expected > 0 /\ c.unresolved <= c.expected
    /\ c.sequence > 0
    /\ c.observers # {}

(* Everything verify_outcome_closure derives before it appends, in the     *)
(* order of its early returns.                                             *)
Derive(c, handoff, now) ==
    LET told == CheckObservers(c, {}, now)
        shown == CheckEvidence(c, now)
        prior == CheckPrior(c, now)
    IN  IF handoff.contradicts # "nothing" THEN Unknown(handoff.contradicts)
        ELSE IF ~handoff.complete THEN Unknown("ACTION_CERTIFICATE_HANDOFF_UNTRUSTED")
        ELSE IF c.form \in {"ENVELOPE_TOO_LARGE", "ENVELOPE_INVALID", "PAYLOAD_TOO_LARGE"}
            THEN Unknown(c.form)
        ELSE IF VerifiedRoots(c) = {} THEN Unknown("SIGNATURE_INVALID")
        ELSE IF ~WellFormed(c) THEN Unknown("PAYLOAD_INVALID")
        ELSE IF told # Pending THEN told
        ELSE IF shown # Pending THEN shown
        ELSE IF c.binding # handoff.binding
            THEN Doubt(c, "EFFECT_BINDING_MISMATCH", "EXPECTED_BINDING_MISMATCH")
        ELSE IF prior # Pending THEN prior
        ELSE Reconcile(c)

-----------------------------------------------------------------------------
ClosureKey(c) == <<c.tenant, c.id, c.payload>>
ChainOf(c) == <<c.tenant, c.execution, c.attempt>>
ExecutionKey(c) == <<ChainOf(c), c.sequence, c.payload>>
IdempotencyKey(c) == <<c.tenant, c.key, c.sequence, c.intent, c.payload>>

(* The predecessor is not compared with what the closure says it was.      *)
BadFollows(c) ==
    IF c.sequence = 1 \/ \E l \in latest : l[1] = ChainOf(c) /\ l[2] = c.sequence - 1
    THEN "FOLLOWS" ELSE "ATTEMPT_SEQUENCE_CONFLICT"

(* A first closure names no predecessor, any other the latest one.         *)
Follows(c) ==
    IF c.sequence = 1
    THEN IF c.previous = NoDigest THEN "FOLLOWS" ELSE "PREVIOUS_DIGEST_CONFLICT"
    ELSE IF ~\E l \in latest : l[1] = ChainOf(c) /\ l[2] = c.sequence - 1
        THEN "ATTEMPT_SEQUENCE_CONFLICT"
    ELSE IF <<ChainOf(c), c.sequence - 1, c.previous>> \notin latest
        THEN "PREVIOUS_DIGEST_CONFLICT"
    ELSE "FOLLOWS"

(* The idempotency key is looked at together with the intent only.         *)
BadAppendStatus(c) ==
    IF \E x \in closures : x[1] = c.tenant /\ x[2] = c.id
        THEN IF ClosureKey(c) \in closures THEN "ALREADY_PRESENT" ELSE "CLOSURE_ID_CONFLICT"
    ELSE IF \E x \in executions : x[1] = ChainOf(c) /\ x[2] = c.sequence
        THEN "ATTEMPT_SEQUENCE_CONFLICT"
    ELSE IF IdempotencyKey(c) \in idempotency THEN "ALREADY_PRESENT"
    ELSE IF Follows(c) # "FOLLOWS" THEN Follows(c)
    ELSE IF Cardinality(closures) >= Capacity THEN "UNAVAILABLE"
    ELSE "APPENDED"

(* append_once, under the index's lock.                                    *)
AppendStatus(c) ==
    IF \E x \in closures : x[1] = c.tenant /\ x[2] = c.id
        THEN IF ClosureKey(c) \in closures /\ ExecutionKey(c) \in executions
               THEN "ALREADY_PRESENT" ELSE "CLOSURE_ID_CONFLICT"
    ELSE IF \E x \in executions : x[1] = ChainOf(c) /\ x[2] = c.sequence
        THEN "ATTEMPT_SEQUENCE_CONFLICT"
    ELSE IF IdempotencyKey(c) \in idempotency THEN "ALREADY_PRESENT"
    ELSE IF \E x \in idempotency : x[1] = c.tenant /\ x[2] = c.key /\ x[3] = c.sequence
        THEN "IDEMPOTENCY_CONFLICT"
    ELSE IF Follows(c) # "FOLLOWS" THEN Follows(c)
    ELSE IF Cardinality(closures) >= Capacity THEN "UNAVAILABLE"
    ELSE "APPENDED"

-----------------------------------------------------------------------------
NoClosure == [closure |-> "none", status |-> "NONE", reason |-> "NONE"]

Init ==
    /\ closures = {} /\ executions = {} /\ latest = {} /\ idempotency = {}
    /\ recorded = <<>>
    /\ last = NoClosure

(* What the caller gets, by the verdict derived and the index's answer.    *)
Answer(verdict, status) ==
    IF status = "APPENDED"
        THEN Result(verdict, IF verdict = "PASS" THEN "PASS_VERIFIED" ELSE "FAIL_VERIFIED")
    ELSE IF status = "ALREADY_PRESENT"
        THEN Result(verdict, IF verdict = "PASS" THEN "PASS_ALREADY_PRESENT"
                                                 ELSE "FAIL_ALREADY_PRESENT")
    ELSE Unknown(IF status = "UNAVAILABLE" THEN "OUTCOME_INDEX_UNAVAILABLE" ELSE status)

Returns(c, result) ==
    last' = [closure |-> c, status |-> result.status, reason |-> result.reason]

(* append_once takes the closure.                                          *)
AppendOnce(c, verdict) ==
    /\ AppendStatus(c) = "APPENDED"
    /\ closures' = closures \cup {ClosureKey(c)}
    /\ executions' = executions \cup {ExecutionKey(c)}
    /\ latest' = {l \in latest : l[1] # ChainOf(c)} \cup {ExecutionKey(c)}
    /\ idempotency' = idempotency \cup {IdempotencyKey(c)}
    /\ recorded' = Append(recorded, [closure |-> c, verdict |-> verdict])

(* The call is refused, or raises, before it reaches the index.            *)
VerifyUnclosed(c, handoff, now) ==
    LET derived == Derive(c, handoff, now)
    IN  /\ derived.status \notin {"PASS", "FAIL"}
        /\ Returns(c, derived)
        /\ UNCHANGED <<closures, executions, latest, idempotency, recorded>>

(* The call derives PASS or FAIL and the index answers.  Nothing the call  *)
(* depends on moves before append_once, so the call is one step.           *)
VerifyClosed(c, handoff, now) ==
    LET derived == Derive(c, handoff, now)
    IN  /\ derived.status \in {"PASS", "FAIL"}
        /\ Returns(c, Answer(derived.status, AppendStatus(c)))
        /\ \/ AppendOnce(c, derived.status)
           \/ /\ AppendStatus(c) # "APPENDED"
              /\ UNCHANGED <<closures, executions, latest, idempotency, recorded>>

Next ==
    \E x \in Calls :
        \/ VerifyUnclosed(x.closure, x.handoff, x.now)
        \/ VerifyClosed(x.closure, x.handoff, x.now)

Spec == Init /\ [][Next]_vars

-----------------------------------------------------------------------------
(* The closures of an attempt form one chain without gaps or forks: the    *)
(* first has sequence number 1 and names no predecessor, any other was     *)
(* recorded after the one with the number before its own and names its     *)
(* payload, and no number is given twice, so no closure is replaced,       *)
(* inserted or dropped unseen (append_once: _latest and _executions        *)
(* agree).                                                                 *)
ChainIsLinked ==
    \A i \in DOMAIN recorded :
        LET c == recorded[i].closure
        IN  /\ \/ c.sequence = 1 /\ c.previous = NoDigest
               \/ \E j \in 1..i - 1 :
                      /\ ChainOf(recorded[j].closure) = ChainOf(c)
                      /\ recorded[j].closure.sequence + 1 = c.sequence
                      /\ recorded[j].closure.payload = c.previous
            /\ \A j \in DOMAIN recorded : j # i =>
                   <<ChainOf(recorded[j].closure), recorded[j].closure.sequence>>
                       # <<ChainOf(c), c.sequence>>

(* One outcome per idempotency key and round: no second closure, of this   *)
(* or another execution, is recorded for them, nor under the same id.      *)
OneOutcomePerKey ==
    \A i, j \in DOMAIN recorded : i # j =>
        LET c == recorded[i].closure
            d == recorded[j].closure
        IN  c.tenant = d.tenant => /\ c.id # d.id
                                   /\ <<c.key, c.sequence>> # <<d.key, d.sequence>>

(* A verdict says what happened: PASS only when every expected effect, and *)
(* no other, was committed, FAIL only when each one was refused, and both  *)
(* only for an authorised, executed and bound action whose evidence is at  *)
(* hand.  The producer's claim plays no part.                              *)
VerdictSaysWhatHappened ==
    last.status \in {"PASS", "FAIL"} =>
        LET c == last.closure
        IN  /\ <<c.succeeded, c.failed, c.unresolved>> =
                   IF last.status = "PASS" THEN <<c.expected, 0, 0>> ELSE <<0, c.expected, 0>>
            /\ c.cert.status = "ACCEPT" /\ c.receipt.status = "ACCEPT"
            /\ c.bound /\ c.evidence = "complete"
            /\ c.cert.reservedAt <= c.receipt.started
            /\ c.issued < c.cert.expires

(* What tells the operator that nothing can be said of the effects because *)
(* of the effects themselves, their authority, binding or time.            *)
SilentReasons ==
    {"ACTION_CERTIFICATE_ACCEPTANCE_UNKNOWN", "EXECUTION_RECEIPT_ACCEPTANCE_UNKNOWN",
     "EXPECTED_BINDING_MISMATCH", "EFFECT_BINDING_UNKNOWN", "CLOSURE_TIME_INVALID",
     "EFFECT_RECONCILIATION_UNRESOLVED", "EFFECT_COVERAGE_INCOMPLETE",
     "EFFECT_TERMINAL_INVALID"}

(* An effect that happened is never passed over: once the observers, their *)
(* evidence and the handoff are trusted, a closure with a success in it is *)
(* a PASS or an alarm, not a FAIL or an UNKNOWN about the effects.         *)
SuccessNeverPassedOver ==
    last.status \in {"FAIL", "UNKNOWN"} /\ last.reason \in SilentReasons \cup FAIL_REASONS =>
        last.closure.succeeded = 0

(* The outcome is told by outsiders: the observers of a recorded closure   *)
(* are as many people as the policy asks for, nobody it names as an        *)
(* observer asked for, issued, approved, executed or witnessed the action  *)
(* or is the source of the evidence, and no key that counts had a part.    *)
ToldByOutsiders ==
    \A i \in DOMAIN recorded :
        LET c == recorded[i].closure
            told == {r \in ToSet(Roots) : /\ r.key \in c.signers
                                          /\ r.principal \in c.observers \cap Policy.outcomeObservers
                                          /\ r.purpose = "OUTCOME_OBSERVER"
                                          /\ r.tenant = c.tenant
                                          /\ "closure" \in r.audiences /\ "closure" \in r.types
                                          /\ c.source \in r.sources}
        IN  /\ Cardinality(Principals(told)) >= Policy.outcomeThreshold
            /\ c.observers \cap ({c.cert.human, c.cert.workload, c.source}
                                  \cup c.receipt.observers \cup Principals(PriorRoots(c))) = {}
            /\ Keys(told) \cap (c.partyKeys \cup Keys(PriorRoots(c))) = {}

(* docs/15_OUTCOME_CLOSURE_V0P1.md and result_semantics_are_closed: the    *)
(* verifier answers every closure with one of the four verdicts.           *)
AlwaysAVerdict == last.status # "RAISED"
=============================================================================
