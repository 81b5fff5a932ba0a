--------------------------- MODULE ExecutionReceipt ---------------------------
(***************************************************************************)
(* verify_execution_receipt of src/proofflow/execution_receipt.py and the  *)
(* process-local receipt index.  An observer signs what it saw of one      *)
(* attempt to execute a certified action; the verifier ties the receipt to *)
(* the accepted certificate, checks that the observers are independent of  *)
(* everybody who authorised or executed the action, and appends the        *)
(* receipt once.                                                           *)
(*                                                                         *)
(* Data.  A receipt carries, in the field cert, what the verifier learns   *)
(* of the certificate it references: the stored verification result, and   *)
(* whether digests and fields agree.  A payload digest is the payload.     *)
(***************************************************************************)
EXTENDS TrustRoots, FiniteSets

CONSTANTS
    Receipts,   \* the receipt envelopes presented
    Strangers,  \* expected bindings that are not those of the receipt
    Capacity,   \* capacity of the receipt index
    Horizon     \* the times at which receipts are presented are 0..Horizon

VARIABLES
    receipts,   \* InMemoryReceiptIndex._receipts: (tenant, id, payload)
    attempts,   \* ._attempts: (tenant, execution, attempt, payload)
    intents,    \* ._idempotency: (tenant, key, intent)
    recorded    \* history: receipts appended, and the now of the call

vars == <<receipts, attempts, intents, recorded>>

Refused(status, reason) == [status |-> status, reason |-> reason]
Pending == Refused("PENDING", "PENDING")

-----------------------------------------------------------------------------
(* _policy_allows_receipt.                                                 *)
PolicyAllowsReceipt(expected) ==
    /\ expected.tenant \in Policy.tenants
    /\ expected.human \in Policy.humans
    /\ expected.workload \in Policy.workloads
    /\ "receipt" \in Policy.audiences /\ "receipt" \in Policy.types
    /\ Policy.executionObservers # {}

(* _action_certificate_context: the digests of the certificate, then the   *)
(* stored result, which must be an ACCEPT that reserved.                   *)
CertificateContext(r) ==
    IF ~r.cert.digestsMatch THEN Refused("REJECT", "ACTION_CERTIFICATE_REFERENCE_MISMATCH")
    ELSE IF r.cert.status = "UNKNOWN"
        THEN Refused("UNKNOWN", "ACTION_CERTIFICATE_ACCEPTANCE_UNKNOWN")
    ELSE IF r.cert.status # "ACCEPT" THEN Refused("REJECT", "ACTION_CERTIFICATE_NOT_ACCEPTED")
    ELSE Pending

(* Only the start of the attempt is compared with the window.              *)
BadWithinCertificate(r) ==
    /\ r.started + Policy.skew >= r.cert.notBefore
    /\ r.started < r.cert.expires + Policy.skew

(* Verification, reservation and the whole attempt fall in the window of   *)
(* the certificate, give or take the skew.                                 *)
WithinCertificate(r) ==
    /\ \A t \in {r.cert.verifiedAt, r.cert.reservedAt, r.started} :
           t + Policy.skew >= r.cert.notBefore
    /\ \A t \in {r.cert.verifiedAt, r.cert.reservedAt, r.ended} :
           t < r.cert.expires + Policy.skew

(* A root named in the stored result still has the standing it was counted *)
(* with when the certificate was verified.                                 *)
HasStanding(root, purpose, principals, r) ==
    /\ root.purpose = purpose
    /\ root.tenant = r.tenant
    /\ r.cert.audience \in root.audiences /\ "certificate" \in root.types
    /\ root.principal \in principals
    /\ TrustRootIsCurrent(root, r.cert.verifiedAt)

(* _authority_roots succeeds: the roots of the stored result exist, signed *)
(* the certificate, reach the thresholds and keep the separation of duty.  *)
AuthorityKnown(r) ==
    LET issuing == RootsById(r.cert.issuerRoots)
        approving == RootsById(r.cert.approvalRoots)
    IN  /\ r.cert.issuerRoots # {}
        /\ r.cert.issuerRoots \cap r.cert.approvalRoots = {}
        /\ r.cert.issuerRoots \cup r.cert.approvalRoots \subseteq
               Ids(VerifiedRoots(r.cert))
        /\ \A root \in issuing : HasStanding(root, "ACTION_ISSUER", Policy.issuers, r)
        /\ Cardinality(Principals(issuing)) >= Policy.issuerThreshold
        /\ Cardinality(Keys(issuing)) >= Policy.issuerThreshold
        /\ IF r.cert.approvalRequired
             THEN /\ \A root \in approving :
                        HasStanding(root, "HUMAN_APPROVAL",
                                    Policy.approvers \cap r.cert.approvers, r)
                  /\ Cardinality(Principals(approving)) >= Policy.approvalThreshold
                  /\ Cardinality(Keys(approving)) >= Policy.approvalThreshold
             ELSE approving = {}
        /\ {r.human, r.workload} \cap Principals(approving) = {}
        /\ Principals(issuing) \cap Principals(approving) = {}
        /\ Keys(issuing) \cap Keys(approving) = {}

Authority(r) == RootsById(r.cert.issuerRoots \cup r.cert.approvalRoots)

(* The observers that signed: roots of that purpose which the policy knows.*)
ObserverRoots(r) ==
    {root \in VerifiedRoots(r) :
        /\ root.purpose = "EXECUTION_OBSERVER"
        /\ root.tenant = r.tenant
        /\ "receipt" \in root.audiences /\ "receipt" \in root.types
        /\ root.principal \in Policy.executionObservers}

(* Principals are compared, keys are not.                                  *)
BadPartial(r, root) == root.principal \in {r.workload, r.human} \cup Principals(Authority(r))

(* An observer that has a part in what it observes, by name or by key.     *)
Partial(r, root) ==
    \/ root.principal \in {r.workload, r.human} \cup Principals(Authority(r))
    \/ root.key \in r.partyKeys \cup Keys(Authority(r))

(* An observer root that lapsed or was revoked since.                      *)
Stale(r, root, now) ==
    ~TrustRootIsCurrent(root, r.issued) \/ ~TrustRootIsCurrent(root, now)

(* _qualifying_observer_roots and the checks on what it returns.  A signer *)
(* the producer did not declare is set aside before it is looked at.       *)
CheckObservers(r, now) ==
    LET signed == ObserverRoots(r)
        declared == {root \in signed : root.principal \in r.observers}
        current == {root \in declared : ~Stale(r, root, now)}
        qualified == Distinct(current)
    IN  IF signed = {} THEN Refused("REJECT", "TRUST_POLICY_MISMATCH")
        ELSE IF \E root \in declared : Partial(r, root)
            THEN Refused("REJECT", "SELF_OBSERVATION")
        ELSE IF current # declared THEN Refused("REJECT", "ROOT_TIME_OR_REVOCATION_INVALID")
        ELSE IF declared # signed \/ Principals(qualified) # r.observers
            THEN Refused("REJECT", "PRODUCER_SIGNER_MISMATCH")
        ELSE IF Cardinality(qualified) < Policy.observerThreshold
            THEN Refused("UNKNOWN", "EXECUTION_OBSERVER_THRESHOLD_NOT_MET")
        ELSE Pending

(* What the wire models ask of a payload, among the fields looked at here: *)
(* times that follow one another, and declared observers.                  *)
WellFormed(r) ==
    /\ r.form # "PAYLOAD_INVALID"
    /\ r.cert.verifiedAt <= r.cert.reservedAt
    /\ r.started <= r.ended /\ r.ended <= r.issued
    /\ r.observers # {}

(* Everything verify_execution_receipt checks before it appends, in the    *)
(* order of its early returns.                                             *)
Check(r, expected, now) ==
    IF r.form \in {"ENVELOPE_TOO_LARGE", "ENVELOPE_INVALID", "PAYLOAD_TOO_LARGE"}
        THEN Refused("REJECT", r.form)
    ELSE IF VerifiedRoots(r) = {} THEN Refused("REJECT", "SIGNATURE_INVALID")
    ELSE IF ~WellFormed(r) THEN Refused("REJECT", "PAYLOAD_INVALID")
    ELSE IF r.issued > now + Policy.skew THEN Refused("REJECT", "RECEIPT_TIME_INVALID")
    ELSE IF ~PolicyAllowsReceipt(expected) THEN Refused("REJECT", "TRUST_POLICY_MISMATCH")
    ELSE IF r.binding # expected.binding THEN Refused("REJECT", "EXPECTED_BINDING_MISMATCH")
    ELSE IF CertificateContext(r) # Pending THEN CertificateContext(r)
    ELSE IF r.cert.reservedAt > r.started
        THEN Refused("REJECT", "ACTION_CERTIFICATE_RESERVATION_ORDER_INVALID")
    ELSE IF ~WithinCertificate(r)
        THEN Refused("REJECT", "CERTIFICATE_EXECUTION_WINDOW_MISMATCH")
    ELSE IF ~r.cert.sameAction
        THEN Refused("REJECT", "ACTION_CERTIFICATE_REFERENCE_MISMATCH")
    ELSE IF ~AuthorityKnown(r) THEN Refused("UNKNOWN", "ACTION_CERTIFICATE_AUTHORITY_UNKNOWN")
    ELSE CheckObservers(r, now)

-----------------------------------------------------------------------------
ReceiptKey(r) == <<r.tenant, r.id, r.payload>>
AttemptKey(r) == <<r.tenant, r.execution, r.attempt, r.payload>>
IntentKey(r) == <<r.tenant, r.key, r.intent>>

(* The attempt is not looked at: a second receipt for it is taken.         *)
BadAppendStatus(r) ==
    IF \E x \in receipts : x[1] = r.tenant /\ x[2] = r.id
        THEN IF ReceiptKey(r) \in receipts THEN "ALREADY_PRESENT" ELSE "RECEIPT_ID_CONFLICT"
    ELSE IF Cardinality(receipts) >= Capacity THEN "UNAVAILABLE"
    ELSE "APPENDED"

(* append_once, under the index's lock.  An identical receipt is accepted  *)
(* again and changes nothing; another attempt of the same intent may       *)
(* follow under the same idempotency key.                                  *)
AppendStatus(r) ==
    IF \E x \in receipts : x[1] = r.tenant /\ x[2] = r.id
        THEN IF ReceiptKey(r) \in receipts /\ AttemptKey(r) \in attempts
               THEN "ALREADY_PRESENT" ELSE "RECEIPT_ID_CONFLICT"
    ELSE IF \E x \in attempts :
                x[1] = r.tenant /\ x[2] = r.execution /\ x[3] = r.attempt
        THEN "ATTEMPT_CONFLICT"
    ELSE IF \E x \in intents : x[1] = r.tenant /\ x[2] = r.key /\ x[3] # r.intent
        THEN "IDEMPOTENCY_CONFLICT"
    ELSE IF Cardinality(receipts) >= Capacity THEN "UNAVAILABLE"
    ELSE "APPENDED"

Init ==
    /\ receipts = {} /\ attempts = {} /\ intents = {}
    /\ recorded = <<>>

(* verify_execution_receipt.  The call depends on nothing that moves until *)
(* append_once takes the lock, so it is one step; calls that are refused,  *)
(* or find the receipt present, change nothing.                            *)
VerifyExecutionReceipt(r, expected, now) ==
    /\ Check(r, expected, now) = Pending
    /\ AppendStatus(r) = "APPENDED"
    /\ receipts' = receipts \cup {ReceiptKey(r)}
    /\ attempts' = attempts \cup {AttemptKey(r)}
    /\ intents' = intents \cup {IntentKey(r)}
    /\ recorded' = Append(recorded, [receipt |-> r, now |-> now])

Next ==
    \E r \in Receipts, now \in 0..Horizon :
        \E expected \in Strangers \cup {r} : VerifyExecutionReceipt(r, expected, now)

Spec == Init /\ [][Next]_vars

-----------------------------------------------------------------------------
(* One account per attempt: whatever is presented, in whatever order, a    *)
(* receipt id and an attempt each stand for one payload, and an            *)
(* idempotency key for one intent over all its attempts (append_once).     *)
OneAccountPerAttempt ==
    \A i, j \in DOMAIN recorded : i # j =>
        LET r == recorded[i].receipt
            s == recorded[j].receipt
        IN  r.tenant = s.tenant =>
                /\ r.id # s.id
                /\ <<r.execution, r.attempt>> # <<s.execution, s.attempt>>
                /\ r.key = s.key => r.intent = s.intent

(* A recorded execution was authorised before it began and ended before    *)
(* the authority did: its certificate was accepted and reserved, and the   *)
(* whole attempt lies in the certificate's window.                         *)
ExecutedUnderReservation ==
    \A i \in DOMAIN recorded :
        LET r == recorded[i].receipt
        IN  /\ r.cert.status = "ACCEPT"
            /\ r.cert.reservedAt <= r.started
            /\ r.ended < r.cert.expires + Policy.skew

(* The roots that count as observers of a receipt.                         *)
Observers(r) ==
    {root \in ToSet(Roots) : /\ root.key \in r.signers
                             /\ root.principal \in r.observers \cap Policy.executionObservers
                             /\ root.purpose = "EXECUTION_OBSERVER"
                             /\ root.tenant = r.tenant
                             /\ "receipt" \in root.audiences /\ "receipt" \in root.types}

(* Nobody attests to his own work: the observers of a recorded receipt are *)
(* as many people as the policy asks for, nobody it names as an observer   *)
(* asked for, approved, issued or executed the action, and no key that     *)
(* counts towards the threshold had a part in that.                        *)
ObservedIndependently ==
    \A i \in DOMAIN recorded :
        LET r == recorded[i].receipt
            involved == {root \in ToSet(Roots) :
                            root.id \in r.cert.issuerRoots \cup r.cert.approvalRoots}
        IN  /\ Cardinality(Principals(Observers(r))) >= Policy.observerThreshold
            /\ r.observers \cap ({r.human, r.workload} \cup Principals(involved)) = {}
            /\ Keys(Observers(r)) \cap (r.partyKeys \cup Keys(involved)) = {}
=============================================================================
