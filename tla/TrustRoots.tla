------------------------------ MODULE TrustRoots ------------------------------
(***************************************************************************)
(* The trust policy that the certificate, receipt and closure verifiers    *)
(* share (TrustPolicy and TrustRoot of src/proofflow/action_certificate.py)*)
(* A root is a named public key of a principal, with a purpose, a life,    *)
(* and the audiences and predicate types it speaks for.  The scopes of an  *)
(* observer root are left out: validate_root_window asks for all of them.  *)
(* A signed envelope is a record with the field signers: the keys whose    *)
(* Ed25519 signature over it verifies, whatever roots they belong to.      *)
(***************************************************************************)
EXTENDS Naturals, Sequences, SequencesExt

CONSTANTS
    Roots,      \* TrustPolicy.roots, ordered by root_id
    Policy      \* the rest of the trust policy

(* validate_root_window: a root lives for a while.                         *)
RootValid(root) == root.notBefore < root.notAfter

(* The bounds of TrustPolicy and validate_policy_sets, of what the checks  *)
(* look at: at least one signer is always asked for, no id is used twice.  *)
PolicyValid ==
    /\ Policy.skew \in Nat
    /\ Policy.issuerThreshold \in 1..16
    /\ Policy.approvalThreshold \in 1..16
    /\ Policy.observerThreshold \in 1..16
    /\ Policy.outcomeThreshold \in 1..16
    /\ Roots \in Seq(ToSet(Roots))
    /\ \A i \in DOMAIN Roots : RootValid(Roots[i])
    /\ \A i, j \in DOMAIN Roots : Roots[i].id = Roots[j].id => i = j

ASSUME PolicyAssumption == PolicyValid

(* trust_root_is_current: the skew extends the window at both ends, and    *)
(* brings a revocation forward.                                            *)
TrustRootIsCurrent(root, now) ==
    /\ now + Policy.skew >= root.notBefore
    /\ now < root.notAfter + Policy.skew
    /\ now + Policy.skew < root.revokedAt

(* cryptographically_verified_roots: the configured roots under whose key  *)
(* some signature of the envelope verifies.                                *)
VerifiedRoots(envelope) == {root \in ToSet(Roots) : root.key \in envelope.signers}

(* Every one of the roots is another person's, and another key.            *)
Separate(roots) ==
    \A r, s \in roots : r # s => r.key # s.key /\ r.principal # s.principal

(* Roots of one principal, or one key under two names, count twice.        *)
BadDistinct(roots) == roots

(* In order of root_id, a root counts unless its key or its principal was  *)
(* counted before: counted[n] are those of the first n roots that count.   *)
Distinct(roots) ==
    LET counted[n \in 0..Len(Roots)] ==
            IF n = 0 THEN {}
            ELSE counted[n - 1] \cup
                 {root \in roots \cap {Roots[n]} :
                     \A r \in counted[n - 1] : r.key # root.key /\ r.principal # root.principal}
    IN  counted[Len(Roots)]

(* The roots of the policy that a stored result names.                     *)
RootsById(ids) == {Roots[i] : i \in {j \in DOMAIN Roots : Roots[j].id \in ids}}

Principals(roots) == {r.principal : r \in roots}
Keys(roots) == {r.key : r \in roots}
Ids(roots) == {r.id : r \in roots}
=============================================================================
