------------------------- MODULE MCActionCertificate -------------------------
(* A policy that wants two approvers, roots where one person holds two     *)
(* keys, one key has two names, one speaks for receipts only, one approves *)
(* what she asked for and one retires early; and the certificates that     *)
(* race for one effect, next to those each check stops.                    *)
EXTENDS ActionCertificate, TLC

Root(id, purpose, principal, key, tenant) ==
    [id |-> id, purpose |-> purpose, principal |-> principal, key |-> key,
     tenant |-> tenant, audiences |-> {"gateway"}, types |-> {"certificate"},
     notBefore |-> 0, notAfter |-> 9, revokedAt |-> 9]

SomeRoots ==
    <<Root("a1", "HUMAN_APPROVAL", "alice", "ka", "t1"),
      Root("a2", "HUMAN_APPROVAL", "alice", "kb", "t1"),
      Root("a3", "HUMAN_APPROVAL", "bob", "kc", "t1"),
      Root("a4", "HUMAN_APPROVAL", "carol", "kd", "t1"),
      Root("a5", "HUMAN_APPROVAL", "alice", "ka", "t2"),
      Root("a6", "HUMAN_APPROVAL", "bob", "kc", "t2"),
      Root("a7", "HUMAN_APPROVAL", "dave", "kc", "t1"),
      [Root("a8", "HUMAN_APPROVAL", "dave", "ke", "t1") EXCEPT !.types = {"receipt"}],
      Root("i1", "ACTION_ISSUER", "issuer", "ki", "t1"),
      Root("i2", "ACTION_ISSUER", "issuer", "ki", "t2"),
      [Root("i3", "ACTION_ISSUER", "retired", "kr", "t1") EXCEPT !.revokedAt = 1]>>

SomePolicy ==
    [tenants |-> {"t1", "t2"}, humans |-> {"carol"}, workloads |-> {"agent"},
     audiences |-> {"gateway"}, types |-> {"certificate"}, issuers |-> {"issuer", "retired"},
     approvers |-> {"alice", "bob", "carol", "dave"}, approvalRequired |-> TRUE,
     issuerThreshold |-> 1, approvalThreshold |-> 2, observerThreshold |-> 1,
     outcomeThreshold |-> 1, maxLifetime |-> 3, skew |-> 0]

Good ==
    [binding |-> "b1", form |-> "OK", signers |-> {"ki", "ka", "kc"},
     tenant |-> "t1", audience |-> "gateway", human |-> "carol", workload |-> "agent",
     nonce |-> "n1", key |-> "k1", intent |-> "x1",
     issued |-> 0, notBefore |-> 0, expires |-> 3, policyExpires |-> 3,
     approvalRequired |-> TRUE, approval |-> "p1", scopeBound |-> TRUE,
     approvers |-> {"alice", "bob", "carol"}, approvalExpires |-> 3]

Racing ==
    {Good,
     [Good EXCEPT !.binding = "b2", !.nonce = "n2", !.expires = 2, !.approvalExpires = 2],
     [Good EXCEPT !.binding = "b3", !.nonce = "n3", !.intent = "x2"],
     [Good EXCEPT !.binding = "b4", !.key = "k2", !.intent = "x3", !.signers = {"kr", "ka", "kc"}],
     [Good EXCEPT !.binding = "b5", !.tenant = "t2", !.signers = {"ki", "ka", "kc"}]}

Stopped ==
    {[Good EXCEPT !.binding = "b6", !.nonce = "n4", !.key = "k3", !.signers = {"ki", "ka", "kb"}],
     [Good EXCEPT !.binding = "b7", !.nonce = "n5", !.key = "k4", !.signers = {"ki", "ka", "kd"}],
     [Good EXCEPT !.binding = "b9", !.nonce = "n6", !.key = "k5", !.signers = {"ki", "kc", "ke"},
                  !.approvers = {"bob", "dave"}],
     [Good EXCEPT !.form = "ENVELOPE_INVALID"],
     [Good EXCEPT !.form = "PAYLOAD_INVALID"],
     [Good EXCEPT !.signers = {}],
     [Good EXCEPT !.scopeBound = FALSE],
     [Good EXCEPT !.approvalExpires = 2],
     [Good EXCEPT !.policyExpires = 2],
     [Good EXCEPT !.approvalRequired = FALSE, !.approvers = {}]}

(* The caller expected another action.                                     *)
MCStrangers == {[Good EXCEPT !.binding = "b8"]}

VerifierSymmetry == Permutations(Verifiers)

SomeCertificates == Racing \cup Stopped

(* TLC evaluates a definition once, but what replaces a constant each time *)
(* it is used: the constants are replaced by names of definitions.         *)
MCRoots == SomeRoots
MCPolicy == SomePolicy
MCCertificates == SomeCertificates
=============================================================================
