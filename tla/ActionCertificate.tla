-------------------------- MODULE ActionCertificate --------------------------
(***************************************************************************)
(* verify_action_certificate of src/proofflow/action_certificate.py and    *)
(* the two things it depends on that move: the operator's snapshots of     *)
(* revoked approvals and the process-local replay ledger.  Verifiers run   *)
(* concurrently; a call is given now and a resolver, checks everything     *)
(* against them, and finally reserves the certificate's nonce and          *)
(* idempotency key in one critical section.                                *)
(*                                                                         *)
(* Data.  An envelope is a record of what the verifier finds in it: its    *)
(* form, the keys whose signature over it verifies, and the fields the     *)
(* checks look at.  The approval scope hash is the intent it is taken of.  *)
(***************************************************************************)
EXTENDS TrustRoots, FiniteSets

CONSTANTS
    Verifiers,      \* concurrent calls of verify_action_certificate
    Certificates,   \* the envelopes presented
    Strangers,      \* expectations that are not the presented envelope's
    Approvals,      \* identifiers of approvals that may be revoked
    Capacity,       \* capacity of the replay ledger
    SnapshotLife,   \* how long a revocation snapshot stays valid
    MaxTime         \* bound on the clock

Never == MaxTime + 1
Times == 0..MaxTime
ResolverKinds == {"absent", "failing", "snapshot"}

ASSUME CertificateAssumption ==
    /\ Capacity \in Nat \ {0}
    /\ SnapshotLife \in Nat
    /\ MaxTime \in Nat

VARIABLES
    clock,      \* the time a caller would pass as now
    revokedAt,  \* when the operator revoked each approval, or Never
    snapshot,   \* the latest ApprovalRevocationSnapshot
    nonces,     \* InMemoryReplayLedger._nonces: reserved (tenant, nonce)
    keys,       \* InMemoryReplayLedger._idempotency: (tenant, key, intent)
    call,       \* per verifier: nothing, or a certificate about to be reserved
    accepted    \* history: certificates accepted, and the now of the call

vars == <<clock, revokedAt, snapshot, nonces, keys, call, accepted>>

NoCall == [busy |-> FALSE]
Result(status, reason) == [status |-> status, reason |-> reason]
Pending == Result("PENDING", "PENDING")

-----------------------------------------------------------------------------
(* _qualifying_roots.                                                      *)
QualifyingRoots(c, purpose, principals, now) ==
    Distinct({root \in VerifiedRoots(c) :
        /\ root.purpose = purpose
        /\ root.tenant = c.tenant
        /\ c.audience \in root.audiences /\ "certificate" \in root.types
        /\ root.principal \in principals
        /\ TrustRootIsCurrent(root, now)})

IssuerRoots(c, now) == QualifyingRoots(c, "ACTION_ISSUER", Policy.issuers, now)
ApprovalRoots(c, now) ==
    QualifyingRoots(c, "HUMAN_APPROVAL", Policy.approvers \cap c.approvers, now)

(* _certificate_time_is_valid, with the skew in the certificate's favour.  *)
CertificateTimeIsValid(c, now) ==
    /\ c.expires <= c.issued + Policy.maxLifetime
    /\ now + Policy.skew >= c.notBefore
    /\ now < c.expires + Policy.skew /\ now < c.policyExpires + Policy.skew

(* _policy_allows_expected, on the binding the caller expects.             *)
PolicyAllowsExpected(c) ==
    /\ c.tenant \in Policy.tenants
    /\ c.human \in Policy.humans
    /\ c.workload \in Policy.workloads
    /\ c.audience \in Policy.audiences /\ "certificate" \in Policy.types
    /\ c.approvalRequired = Policy.approvalRequired

(* Somebody who asked for the action, or a key that issued it, approves it.*)
SelfApproval(c, now) ==
    \/ {c.human, c.workload} \cap Principals(ApprovalRoots(c, now)) # {}
    \/ Principals(IssuerRoots(c, now)) \cap Principals(ApprovalRoots(c, now)) # {}
    \/ Keys(IssuerRoots(c, now)) \cap Keys(ApprovalRoots(c, now)) # {}

(* A snapshot never goes stale.                                            *)
BadResolve(approval, now) ==
    IF now < snapshot.asOf THEN "UNKNOWN"
    ELSE IF approval \in snapshot.revoked THEN "REVOKED"
    ELSE "ACTIVE"

(* SnapshotApprovalRevocationResolver.resolve.                             *)
Resolve(approval, now) ==
    IF now < snapshot.asOf \/ now > snapshot.asOf + SnapshotLife THEN "UNKNOWN"
    ELSE IF approval \in snapshot.revoked THEN "REVOKED"
    ELSE IF approval \in snapshot.listed THEN "ACTIVE"
    ELSE "UNKNOWN"

(* The approval part of the verification.                                  *)
CheckApproval(c, now, resolver) ==
    IF ~c.scopeBound THEN Result("REJECT", "APPROVAL_SCOPE_MISMATCH")
    ELSE IF Cardinality(ApprovalRoots(c, now)) < Policy.approvalThreshold
        THEN Result("REJECT", "HUMAN_APPROVAL_THRESHOLD_NOT_MET")
    ELSE IF SelfApproval(c, now) THEN Result("REJECT", "SELF_APPROVAL")
    ELSE IF now >= c.approvalExpires THEN Result("REJECT", "APPROVAL_EXPIRED")
    ELSE IF resolver = "absent" THEN Result("UNKNOWN", "APPROVAL_REVOCATION_UNKNOWN")
    ELSE IF resolver = "failing" THEN Result("UNKNOWN", "APPROVAL_REVOCATION_UNAVAILABLE")
    ELSE IF Resolve(c.approval, now) = "REVOKED" THEN Result("REJECT", "APPROVAL_REVOKED")
    ELSE IF Resolve(c.approval, now) # "ACTIVE"
        THEN Result("UNKNOWN", "APPROVAL_REVOCATION_UNKNOWN")
    ELSE Pending

(* What the wire models ask of a payload, among the fields looked at here: *)
(* an ordered window that the policy and the approval cover, and approval  *)
(* fields exactly when an approval is required.                            *)
WellFormed(c) ==
    /\ c.form # "PAYLOAD_INVALID"
    /\ c.issued <= c.notBefore /\ c.notBefore < c.expires /\ c.expires <= c.policyExpires
    /\ c.approvalRequired <=> c.approvers # {}
    /\ c.approvalRequired => c.expires <= c.approvalExpires

(* Everything verify_action_certificate checks before it reserves, in the  *)
(* order of its early returns.                                             *)
Check(c, expected, now, resolver) ==
    IF c.form \in {"ENVELOPE_TOO_LARGE", "ENVELOPE_INVALID", "PAYLOAD_TOO_LARGE"}
        THEN Result("REJECT", c.form)
    ELSE IF VerifiedRoots(c) = {} THEN Result("REJECT", "SIGNATURE_INVALID")
    ELSE IF ~WellFormed(c) THEN Result("REJECT", "PAYLOAD_INVALID")
    ELSE IF ~PolicyAllowsExpected(expected) THEN Result("REJECT", "TRUST_POLICY_MISMATCH")
    ELSE IF c.binding # expected.binding THEN Result("REJECT", "EXPECTED_BINDING_MISMATCH")
    ELSE IF ~CertificateTimeIsValid(c, now) THEN Result("REJECT", "CERTIFICATE_TIME_INVALID")
    ELSE IF Cardinality(IssuerRoots(c, now)) < Policy.issuerThreshold
        THEN Result("REJECT", "ACTION_ISSUER_THRESHOLD_NOT_MET")
    ELSE IF c.approvalRequired THEN CheckApproval(c, now, resolver)
    ELSE Pending

NonceOf(c) == <<c.tenant, c.nonce>>
KeyOf(c) == <<c.tenant, c.key>>
IntentOf(c) == <<c.tenant, c.key, c.intent>>

(* The nonce alone is checked: a fresh nonce repeats the effect.           *)
BadReserveOnce(c) ==
    IF NonceOf(c) \in nonces THEN "REPLAY"
    ELSE IF Cardinality(nonces) >= Capacity THEN "UNAVAILABLE"
    ELSE "RESERVED"

(* reserve_once, under the ledger's lock.                                  *)
ReserveOnce(c) ==
    IF NonceOf(c) \in nonces THEN "REPLAY"
    ELSE IF IntentOf(c) \in keys THEN "REPLAY"
    ELSE IF \E k \in keys : <<k[1], k[2]>> = KeyOf(c) THEN "IDEMPOTENCY_CONFLICT"
    ELSE IF Cardinality(nonces) >= Capacity THEN "UNAVAILABLE"
    ELSE "RESERVED"

-----------------------------------------------------------------------------
Init ==
    /\ clock = 0
    /\ revokedAt = [p \in Approvals |-> Never]
    /\ snapshot = [asOf |-> 0, revoked |-> {}, listed |-> Approvals]
    /\ nonces = {}
    /\ keys = {}
    /\ call = [v \in Verifiers |-> NoCall]
    /\ accepted = <<>>

Tick ==
    /\ clock < MaxTime
    /\ clock' = clock + 1
    /\ UNCHANGED <<revokedAt, snapshot, nonces, keys, call, accepted>>

(* The operator revokes an approval; snapshots do not know yet.            *)
Revoke(p) ==
    /\ revokedAt[p] = Never
    /\ revokedAt' = [revokedAt EXCEPT ![p] = clock]
    /\ UNCHANGED <<clock, snapshot, nonces, keys, call, accepted>>

(* The operator publishes a snapshot of the approvals it lists.            *)
Publish(listed) ==
    /\ snapshot' = [asOf |-> clock,
                    revoked |-> {p \in listed : revokedAt[p] # Never},
                    listed |-> listed]
    /\ UNCHANGED <<clock, revokedAt, nonces, keys, call, accepted>>

(* The first part of the call: now and the resolver are fixed, everything  *)
(* up to the reservation is decided.  A call that is refused returns its   *)
(* REJECT or UNKNOWN and changes nothing.                                  *)
Begin(v, c, expected, resolver) ==
    /\ ~call[v].busy
    /\ Check(c, expected, clock, resolver) = Pending
    /\ call' = [call EXCEPT ![v] = [busy |-> TRUE, cert |-> c, now |-> clock]]
    /\ UNCHANGED <<clock, revokedAt, snapshot, nonces, keys, accepted>>

(* A full ledger accepts without keeping count.                            *)
BadReserve(v) ==
    /\ call[v].busy
    /\ call' = [call EXCEPT ![v] = NoCall]
    /\ ReserveOnce(call[v].cert) \in {"RESERVED", "UNAVAILABLE"}
    /\ nonces' = nonces \cup {NonceOf(call[v].cert)}
    /\ keys' = keys \cup {IntentOf(call[v].cert)}
    /\ accepted' = Append(accepted, [cert |-> call[v].cert, now |-> call[v].now])
    /\ UNCHANGED <<clock, revokedAt, snapshot>>

(* The call ends in reserve_once: ACCEPT when it reserved, a REJECT or an  *)
(* UNKNOWN that leaves the ledger alone otherwise.                         *)
Reserve(v) ==
    /\ call[v].busy
    /\ call' = [call EXCEPT ![v] = NoCall]
    /\ \/ /\ ReserveOnce(call[v].cert) = "RESERVED"
          /\ nonces' = nonces \cup {NonceOf(call[v].cert)}
          /\ keys' = keys \cup {IntentOf(call[v].cert)}
          /\ accepted' = Append(accepted, [cert |-> call[v].cert, now |-> call[v].now])
       \/ /\ ReserveOnce(call[v].cert) # "RESERVED"
          /\ UNCHANGED <<nonces, keys, accepted>>
    /\ UNCHANGED <<clock, revokedAt, snapshot>>

Next ==
    \/ Tick
    \/ \E p \in Approvals : Revoke(p)
    \/ \E listed \in {{}, Approvals} : Publish(listed)
    \/ \E v \in Verifiers :
           \/ \E c \in Certificates, resolver \in ResolverKinds :
                  \E expected \in Strangers \cup {c} : Begin(v, c, expected, resolver)
           \/ Reserve(v)

Spec == Init /\ [][Next]_vars

-----------------------------------------------------------------------------
(* The ledger, the clock and the calls have their shapes.                  *)
TypeOK ==
    /\ clock \in Times
    /\ revokedAt \in [Approvals -> Times \cup {Never}]
    /\ snapshot \in [asOf : Times, revoked : SUBSET Approvals, listed : SUBSET Approvals]
    /\ nonces \subseteq {NonceOf(c) : c \in Certificates}
    /\ keys \subseteq {IntentOf(c) : c \in Certificates}
    /\ call \in [Verifiers -> {NoCall} \cup
                     [busy : {TRUE}, cert : Certificates, now : Times]]
    /\ accepted \in Seq([cert : Certificates, now : Times])

(* An intended effect is authorised at most once: however many calls race, *)
(* no two accepted certificates of a tenant share a nonce or an            *)
(* idempotency key, be the second a replay, a re-issue under a fresh nonce *)
(* or another intent under the same key (reserve_once checks and takes     *)
(* both keys under one lock).                                              *)
AuthorisedAtMostOnce ==
    \A i, j \in DOMAIN accepted : i # j =>
        /\ NonceOf(accepted[i].cert) # NonceOf(accepted[j].cert)
        /\ KeyOf(accepted[i].cert) # KeyOf(accepted[j].cert)

(* Only an ACCEPT reserves: what REJECT and UNKNOWN leave in the ledger is *)
(* nothing, so a caller may retry them, and a full ledger refuses instead  *)
(* of forgetting.                                                          *)
LedgerHoldsExactlyTheAccepted ==
    /\ nonces = {NonceOf(accepted[i].cert) : i \in DOMAIN accepted}
    /\ {<<k[1], k[2]>> : k \in keys} = {KeyOf(accepted[i].cert) : i \in DOMAIN accepted}
    /\ Len(accepted) <= Capacity

(* A revocation takes effect at the latest when the snapshots that do not  *)
(* know it run out (valid_until in SnapshotApprovalRevocationResolver).    *)
RevocationTakesEffect ==
    \A i \in DOMAIN accepted :
        accepted[i].cert.approvalRequired =>
            accepted[i].now <= revokedAt[accepted[i].cert.approval] + SnapshotLife

(* The approval roots whose key signed a certificate, of people it names   *)
(* as approvers who did not ask for it.                                    *)
OtherApprovals(c) ==
    {r \in ToSet(Roots) : /\ r.key \in c.signers
                          /\ r.purpose = "HUMAN_APPROVAL" /\ r.tenant = c.tenant
                          /\ r.principal \in c.approvers \ {c.human, c.workload}}

(* The approval threshold counts people: an accepted certificate was       *)
(* approved by that many, each with a key of his own and none of them its  *)
(* human or workload principal, however many keys one of them holds and    *)
(* however many names the policy has for one key.                          *)
ApprovedByEnoughOthers ==
    \A i \in DOMAIN accepted :
        accepted[i].cert.approvalRequired =>
            \E roots \in SUBSET OtherApprovals(accepted[i].cert) :
                Separate(roots) /\ Cardinality(roots) >= Policy.approvalThreshold
=============================================================================
