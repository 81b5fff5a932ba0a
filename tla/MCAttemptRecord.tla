---------------------------- MODULE MCAttemptRecord ----------------------------
(* One accepted certificate.  Receipts that compete for its attempts, and  *)
(* receipts that each check must stop: late or early attempts, observers   *)
(* that share a key with an approver or the workload, or lapse.  Closures  *)
(* that compete for the places in three chains, one for every count of     *)
(* effects, closures that are not to be trusted, and closures of a success *)
(* and of a failure that leave their binding or time in doubt.             *)
EXTENDS AttemptRecord, TLC

Root(id, purpose, principal, key) ==
    [id |-> id, purpose |-> purpose, principal |-> principal, key |-> key,
     tenant |-> "t1", audiences |-> {"gateway", "receipt", "closure"},
     types |-> {"certificate", "receipt", "closure"}, sources |-> {"bank", "zed"},
     notBefore |-> 0, notAfter |-> 9, revokedAt |-> 9]

SomeRoots ==
    <<Root("a1", "HUMAN_APPROVAL", "alice", "ka"),
      Root("i1", "ACTION_ISSUER", "issuer", "ki"),
      Root("o1", "EXECUTION_OBSERVER", "olga", "ko"),
      Root("o2", "EXECUTION_OBSERVER", "oscar", "kp"),
      Root("o3", "EXECUTION_OBSERVER", "otto", "ka"),
      Root("o4", "EXECUTION_OBSERVER", "olga", "kq"),
      [Root("o5", "EXECUTION_OBSERVER", "omar", "kr") EXCEPT !.revokedAt = 6],
      Root("o6", "EXECUTION_OBSERVER", "agent", "kw"),
      Root("z1", "OUTCOME_OBSERVER", "zoe", "kz"),
      Root("z2", "OUTCOME_OBSERVER", "zed", "ky"),
      Root("z3", "OUTCOME_OBSERVER", "olga", "kx"),
      Root("z4", "OUTCOME_OBSERVER", "zack", "ka"),
      Root("z5", "OUTCOME_OBSERVER", "zoe", "kv"),
      [Root("z6", "OUTCOME_OBSERVER", "zeno", "ku") EXCEPT !.revokedAt = 6],
      Root("z7", "OUTCOME_OBSERVER", "carol", "kt")>>

SomePolicy ==
    [tenants |-> {"t1"}, humans |-> {"carol"}, workloads |-> {"agent"},
     audiences |-> {"gateway", "receipt"}, types |-> {"certificate", "receipt", "closure"}, issuers |-> {"issuer"}, approvers |-> {"alice"},
     executionObservers |-> {"olga", "oscar", "otto", "omar", "agent"},
     outcomeObservers |-> {"zoe", "zed", "olga", "zack", "zeno", "carol"},
     issuerThreshold |-> 1, approvalThreshold |-> 1, observerThreshold |-> 2,
     outcomeThreshold |-> 2, skew |-> 1]

Certificate ==
    [digestsMatch |-> TRUE, status |-> "ACCEPT", sameAction |-> TRUE,
     tenant |-> "t1", audience |-> "gateway", human |-> "carol", workload |-> "agent",
     signers |-> {"ki", "ka"}, issuerRoots |-> {"i1"}, approvalRoots |-> {"a1"},
     approvalRequired |-> TRUE, approvers |-> {"alice"},
     notBefore |-> 1, expires |-> 5, policyExpires |-> 5, verifiedAt |-> 1, reservedAt |-> 1]

-----------------------------------------------------------------------------
Attempt ==
    [payload |-> 1, id |-> "r1", tenant |-> "t1", execution |-> "e1", attempt |-> "n1",
     key |-> "k1", intent |-> "x1", form |-> "OK", binding |-> "b1",
     signers |-> {"ko", "kp"}, observers |-> {"olga", "oscar"},
     started |-> 1, ended |-> 2, issued |-> 3,
     human |-> "carol", workload |-> "agent", partyKeys |-> {"kw", "kc"},
     cert |-> Certificate]

CompetingReceipts ==
    {Attempt,
     [Attempt EXCEPT !.payload = 2, !.attempt = "n2"],
     [Attempt EXCEPT !.payload = 3, !.id = "r2"],
     [Attempt EXCEPT !.payload = 4, !.id = "r3", !.attempt = "n2"],
     [Attempt EXCEPT !.payload = 5, !.id = "r4", !.attempt = "n3", !.intent = "x2"],
     [Attempt EXCEPT !.payload = 6, !.id = "r5", !.attempt = "n4", !.ended = 4, !.issued = 4,
                  !.signers = {"ko", "kp", "kr"}, !.observers = {"olga", "oscar", "omar"}]}

Observed ==
    {[Attempt EXCEPT !.signers = {"ko", "kq"}, !.observers = {"olga"}],
     [Attempt EXCEPT !.signers = {"ko", "ka"}, !.observers = {"olga", "otto"}],
     [Attempt EXCEPT !.signers = {"ko", "kw"}, !.observers = {"olga", "agent"}],
     [Attempt EXCEPT !.observers = {"olga"}],
     [Attempt EXCEPT !.signers = {"ka"}]}

Timed ==
    {[Attempt EXCEPT !.payload = 100 * s + 10 * e + v, !.started = s, !.ended = e, !.issued = e,
                  !.cert = [Certificate EXCEPT !.reservedAt = v]] :
        s \in 0..5, e \in 4..6, v \in {1, 2, 5}}

Referring ==
    {[Attempt EXCEPT !.cert = c] : c \in
        {[Certificate EXCEPT !.digestsMatch = FALSE], [Certificate EXCEPT !.status = "UNKNOWN"],
         [Certificate EXCEPT !.status = "REJECT"], [Certificate EXCEPT !.sameAction = FALSE],
         [Certificate EXCEPT !.issuerRoots = {"o1"}], [Certificate EXCEPT !.approvalRoots = {}]}}

SomeReceipts ==
    CompetingReceipts \cup Observed \cup Timed \cup Referring
    \cup {[Attempt EXCEPT !.form = "ENVELOPE_INVALID"], [Attempt EXCEPT !.form = "PAYLOAD_INVALID"],
          [Attempt EXCEPT !.signers = {}]}

SomeOtherReceipts == {[Attempt EXCEPT !.binding = "b2"], [Attempt EXCEPT !.tenant = "t2"]}

-----------------------------------------------------------------------------
(* What is handed over with a closure of the first attempt.                *)
Received ==
    [status |-> "ACCEPT", digestsMatch |-> TRUE, tenant |-> "t1", audience |-> "receipt",
     signers |-> Attempt.signers, observerRoots |-> {"o1", "o2"}, observers |-> Attempt.observers,
     started |-> Attempt.started, issued |-> Attempt.issued]

Closed ==
    [payload |-> 1, id |-> "c1", tenant |-> "t1", execution |-> "e1", attempt |-> "n1",
     sequence |-> 1, previous |-> NoDigest, key |-> "k1", intent |-> "x1",
     form |-> "OK", binding |-> "b1", bound |-> TRUE, evidence |-> "complete", source |-> "bank",
     signers |-> {"kz", "ky"}, observers |-> {"zoe", "zed"}, partyKeys |-> {"kw", "kc"},
     observed |-> 3, validUntil |-> 5, issued |-> 4,
     expected |-> 1, succeeded |-> 1, failed |-> 0, unresolved |-> 0,
     cert |-> Certificate, receipt |-> Received]

Second == [Closed EXCEPT !.payload = 2, !.id = "c2", !.sequence = 2, !.previous = 1]
Failed == [Closed EXCEPT !.payload = 12, !.succeeded = 0, !.failed = 1]

CompetingClosures ==
    {Closed, Second,
     [Failed EXCEPT !.payload = 3, !.id = "c3"],
     [Failed EXCEPT !.payload = 4, !.id = "c4", !.attempt = "n2"],
     [Second EXCEPT !.payload = 5, !.id = "c5", !.previous = 3],
     [Second EXCEPT !.payload = 6, !.id = "c6", !.sequence = 3, !.previous = 2],
     [Second EXCEPT !.payload = 7, !.id = "c1"],
     [Closed EXCEPT !.payload = 8, !.id = "c8", !.attempt = "n2", !.key = "k2", !.intent = "x2"],
     [Second EXCEPT !.payload = 9, !.id = "c9", !.attempt = "n2", !.key = "k2",
                    !.intent = "x2", !.previous = 8],
     [Closed EXCEPT !.payload = 10, !.id = "c10", !.attempt = "n3", !.key = "k3",
                  !.previous = 1]}

Counts == {n \in [expected : 1..2, succeeded : 0..3, failed : 0..2, unresolved : 0..1] :
               n.succeeded + n.failed + n.unresolved <= 3}

Counted ==
    {[Closed EXCEPT !.payload = 1000 * n.expected + 100 * n.succeeded + 10 * n.failed + n.unresolved,
                  !.expected = n.expected, !.succeeded = n.succeeded,
                  !.failed = n.failed, !.unresolved = n.unresolved] : n \in Counts}

Distrusted ==
    {[Closed EXCEPT !.form = "ENVELOPE_INVALID"], [Closed EXCEPT !.form = "PAYLOAD_INVALID"],
     [Closed EXCEPT !.signers = {}], [Closed EXCEPT !.signers = {"kz"}],
     [Closed EXCEPT !.signers = {"kz", "kv"}, !.observers = {"zoe"}],
     [Closed EXCEPT !.signers = {"kz", "kx"}, !.observers = {"zoe", "olga"}],
     [Closed EXCEPT !.signers = {"kz", "ka"}, !.observers = {"zoe", "zack"}],
     [Closed EXCEPT !.payload = 21, !.signers = {"kz", "ku"}, !.observers = {"zoe", "zeno"}],
     [Closed EXCEPT !.signers = {"kz", "kt"}, !.observers = {"zoe", "carol"}],
     [Closed EXCEPT !.source = "zed"], [Closed EXCEPT !.observers = {"zoe"}],
     [Closed EXCEPT !.evidence = "missing"], [Closed EXCEPT !.evidence = "substituted"],
     [Closed EXCEPT !.cert.digestsMatch = FALSE], [Closed EXCEPT !.cert.approvalRoots = {}],
     [Closed EXCEPT !.receipt.observerRoots = {"a1"}]}

Doubtful ==
    UNION {{[g EXCEPT !.binding = "b2"], [g EXCEPT !.bound = FALSE],
            [g EXCEPT !.issued = 5],
            [g EXCEPT !.cert.reservedAt = 2], [g EXCEPT !.receipt.issued = 4],
            [g EXCEPT !.cert.status = "REJECT"],
            [g EXCEPT !.receipt.status = "UNKNOWN"]} : g \in {Closed, Failed}}

Handoff == [complete |-> TRUE, contradicts |-> "nothing", binding |-> "b1"]

Call(cs, handoffs, times) == [closure : cs, handoff : handoffs, now : times]

(* Every closure in time, the doubtful ones and one of a retiring observer *)
(* late too, and a good one at any time with any handoff.                  *)
SomeCalls ==
    UNION {Call(CompetingClosures \cup Counted \cup Distrusted \cup Doubtful, {Handoff}, {4}),
           Call(Doubtful \cup {c \in Distrusted : c.payload = 21}, {Handoff}, {5}),
           Call({Closed}, {Handoff, [Handoff EXCEPT !.complete = FALSE],
                         [Handoff EXCEPT !.contradicts = "EXECUTION_RECEIPT_HANDOFF_UNTRUSTED"]},
                3..5)}

(* TLC evaluates a definition once, but what replaces a constant each time *)
(* it is used: the constants are replaced by names of definitions.         *)
MCRoots == SomeRoots
MCPolicy == SomePolicy
MCReceipts == SomeReceipts
MCOtherReceipts == SomeOtherReceipts
MCCalls == SomeCalls
MCHandover == <<<<1, 3>>>>
=============================================================================
