---------------------------- MODULE VerifierProofs ----------------------------
(***************************************************************************)
(* Proofs about the three verifiers of signed envelopes, which share one   *)
(* trust policy: for every policy, every set of verifiers, certificates,   *)
(* approvals, receipts and closures, and all capacities.                   *)
(*                                                                         *)
(* First what the policy's counting of roots guarantees.  Distinct is a    *)
(* recursive function over the positions of the roots; what it computes is *)
(* shown with the least number principle, in the form that speaks of a set *)
(* of numbers.  Then the certificate verifier with its replay ledger, and  *)
(* last the receipt and the closure verifier with their indexes.           *)
(***************************************************************************)
EXTENDS ActionCertificate, AttemptRecord, WellFoundedInduction, FiniteSetTheorems, TLAPS

(* A set of natural numbers has a least one.                               *)
LEMMA LeastNumber ==
    ASSUME NEW T \in SUBSET Nat, T # {}
    PROVE  \E n \in T : \A m \in T : n <= m
<1> DEFINE Less == {ss \in Nat \X Nat : ss[1] < ss[2]}
<1>1. IsWellFoundedOn(Less, Nat)
  BY NatLessThanWellFounded, Zenon DEF OpToRel
<1>2. PICK n \in T : \A m \in T : <<m, n>> \notin Less
  BY <1>1, WFMin
<1>3. \A m \in T : m \in Nat /\ n \in Nat /\ ~(m < n)
  BY <1>2
<1>4. QED
  BY <1>3

(* The roots are the values of a function on an initial segment.           *)
LEMMA RootsAreListed ==
    /\ Len(Roots) \in Nat
    /\ ToSet(Roots) = {Roots[n] : n \in 1..Len(Roots)}
    /\ IsFiniteSet(ToSet(Roots))
<1>1. Roots \in Seq(ToSet(Roots))
  BY PolicyAssumption DEF PolicyValid
<1>2. Len(Roots) \in Nat /\ DOMAIN Roots = 1..Len(Roots)
  BY <1>1
<1>3. ToSet(Roots) = {Roots[n] : n \in 1..Len(Roots)}
  BY <1>2 DEF ToSet
<1>4. IsFiniteSet(1..Len(Roots))
  BY <1>2, FS_Interval
<1>5. Roots \in Surjection(1..Len(Roots), ToSet(Roots))
  BY <1>1, <1>2, <1>3 DEF Surjection
<1>6. IsFiniteSet(ToSet(Roots))
  BY <1>4, <1>5, FS_Surjection
<1>7. QED
  BY <1>2, <1>3, <1>6

-----------------------------------------------------------------------------
(* The roots counted among the first n, by those counted before.           *)
CountNext(roots, n, before) ==
    before \cup {root \in roots \cap {Roots[n]} :
                    \A r \in before : r.key # root.key /\ r.principal # root.principal}

Counts(roots, counted, N) ==
    counted = [n \in 0..N |-> IF n = 0 THEN {} ELSE CountNext(roots, n, counted[n - 1])]

(* There is a function that counts as Distinct says.                       *)
LEMMA CountingExists ==
    ASSUME NEW roots, NEW N \in Nat
    PROVE  \E counted : Counts(roots, counted, N)
<1> DEFINE T == {n \in Nat : ~\E g : Counts(roots, g, n)}
<1>1. SUFFICES ASSUME T # {} PROVE FALSE
  OBVIOUS
<1>2. PICK n \in T : \A m \in T : n <= m
  BY <1>1, LeastNumber
<1>3. n \in Nat /\ ~\E g : Counts(roots, g, n)
  OBVIOUS
<1>4. CASE n = 0
  <2> DEFINE g == [i \in 0..0 |-> {}]
  <2>1. g = [i \in 0..0 |-> IF i = 0 THEN {} ELSE CountNext(roots, i, g[i - 1])]
    OBVIOUS
  <2>2. Counts(roots, g, 0)
    BY <2>1 DEF Counts
  <2>3. QED
    BY <1>3, <1>4, <2>2
<1>5. CASE n # 0
  <2>1. n - 1 \in Nat /\ n - 1 \notin T
    BY <1>2, <1>3, <1>5
  <2>2. PICK h : Counts(roots, h, n - 1)
    BY <2>1
  <2> DEFINE g == [i \in 0..n |-> IF i < n THEN h[i] ELSE CountNext(roots, n, h[n - 1])]
  <2>3. ASSUME NEW i \in 0..n
        PROVE  g[i] = IF i = 0 THEN {} ELSE CountNext(roots, i, g[i - 1])
    <3>1. CASE i = n
      <4>1. g[i] = CountNext(roots, n, h[n - 1]) /\ g[n - 1] = h[n - 1]
        BY <1>3, <1>5, <3>1
      <4>2. QED
        BY <1>5, <3>1, <4>1
    <3>2. CASE i # n
      <4>1. i \in 0..n - 1 /\ g[i] = h[i]
        BY <1>3, <3>2
      <4>2. h[i] = IF i = 0 THEN {} ELSE CountNext(roots, i, h[i - 1])
        BY <2>2, <4>1 DEF Counts
      <4>3. i # 0 => i - 1 \in 0..n /\ i - 1 < n /\ g[i - 1] = h[i - 1]
        BY <1>3, <4>1
      <4>4. QED
        BY <4>1, <4>2, <4>3
    <3>3. QED
      BY <3>1, <3>2
  <2>4. g = [i \in 0..n |-> g[i]]
    OBVIOUS
  <2> HIDE DEF g
  <2>5. g = [i \in 0..n |-> IF i = 0 THEN {} ELSE CountNext(roots, i, g[i - 1])]
    BY <2>3, <2>4
  <2>6. QED
    BY <1>3, <2>5 DEF Counts
<1>6. QED
  BY <1>4, <1>5

(* Distinct takes the value of such a function at the last root.           *)
LEMMA DistinctCounts ==
    ASSUME NEW roots
    PROVE  \E counted : Counts(roots, counted, Len(Roots)) /\ Distinct(roots) = counted[Len(Roots)]
<1> DEFINE G(g) == [n \in 0..Len(Roots) |->
                       IF n = 0 THEN {}
                       ELSE g[n - 1] \cup
                            {root \in roots \cap {Roots[n]} :
                                \A r \in g[n - 1] : r.key # root.key /\ r.principal # root.principal}]
           c == CHOOSE g : g = G(g)
<1>1. Distinct(roots) = c[Len(Roots)]
  BY DEF Distinct
<1>2. \E g : g = G(g)
  <2>1. PICK g : Counts(roots, g, Len(Roots))
    BY CountingExists, RootsAreListed
  <2>2. g = G(g)
    BY <2>1 DEF Counts, CountNext
  <2>3. QED
    BY <2>2
<1>3. c = G(c)
  BY <1>2, Zenon
<1>4. Counts(roots, c, Len(Roots))
  BY <1>3 DEF Counts, CountNext
<1>5. QED
  BY <1>1, <1>4

(* What is counted was presented, and no key or principal counts twice.    *)
LEMMA DistinctIsSeparate ==
    ASSUME NEW roots
    PROVE  Distinct(roots) \subseteq roots /\ Separate(Distinct(roots))
<1> DEFINE N == Len(Roots)
<1>1. PICK counted : Counts(roots, counted, N) /\ Distinct(roots) = counted[N]
  BY DistinctCounts
<1>2. N \in Nat
  BY RootsAreListed
<1> HIDE DEF N
<1>3. \A n \in 0..N : counted[n] = IF n = 0 THEN {} ELSE CountNext(roots, n, counted[n - 1])
  BY <1>1 DEF Counts
<1> DEFINE Good(n) == counted[n] \subseteq roots /\ Separate(counted[n])
           T == {n \in 0..N : ~Good(n)}
<1>4. T = {}
  <2> SUFFICES ASSUME T # {} PROVE FALSE
    OBVIOUS
  <2>1. T \in SUBSET Nat
    BY <1>2
  <2>2. PICK n \in T : \A m \in T : n <= m
    BY <2>1, LeastNumber
  <2>3. n \in 0..N /\ ~Good(n)
    OBVIOUS
  <2>4. CASE n = 0
    BY <1>3, <2>3, <2>4 DEF Separate
  <2>5. CASE n # 0
    <3>1. n - 1 \in 0..N /\ n - 1 \notin T
      BY <1>2, <2>2, <2>3, <2>5
    <3>2. Good(n - 1)
      BY <3>1
    <3>3. counted[n] = CountNext(roots, n, counted[n - 1])
      BY <1>3, <2>3, <2>5
    <3>4. Good(n)
      BY <3>2, <3>3 DEF CountNext, Separate
    <3>5. QED
      BY <2>3, <3>4
  <2>6. QED
    BY <2>4, <2>5
<1>5. Good(N)
  BY <1>2, <1>4
<1>6. QED
  BY <1>1, <1>5

(* The threshold counts people: a set of principals that has all those of  *)
(* the roots counted has at least as many.                                 *)
LEMMA CountedArePeople ==
    ASSUME NEW roots, roots \subseteq ToSet(Roots),
           NEW people, people \subseteq Principals(ToSet(Roots)),
           Principals(Distinct(roots)) \subseteq people
    PROVE  /\ Cardinality(Distinct(roots)) \in Nat
           /\ Cardinality(people) \in Nat
           /\ Cardinality(Distinct(roots)) <= Cardinality(people)
<1> DEFINE D == Distinct(roots)
           f == [r \in D |-> r.principal]
<1>1. D \subseteq ToSet(Roots) /\ Separate(D)
  BY DistinctIsSeparate
<1>2. IsFiniteSet(D) /\ IsFiniteSet(ToSet(Roots))
  BY <1>1, RootsAreListed, FS_Subset
<1>3. IsFiniteSet(people)
  <2> DEFINE g == [r \in ToSet(Roots) |-> r.principal]
  <2>1. g \in Surjection(ToSet(Roots), Principals(ToSet(Roots)))
    BY DEF Surjection, Principals
  <2>2. IsFiniteSet(Principals(ToSet(Roots)))
    BY <1>2, <2>1, FS_Surjection
  <2>3. QED
    BY <2>2, FS_Subset
<1>4. f \in Injection(D, people)
  BY <1>1 DEF Injection, IsInjective, Separate, Principals
<1>5. Cardinality(D) <= Cardinality(people)
  BY <1>3, <1>4, FS_Injection
<1>6. QED
  BY <1>2, <1>3, <1>5, FS_CardinalityType

-----------------------------------------------------------------------------
(* The ledger is the image of the certificates accepted, and has one nonce *)
(* for each of them.                                                       *)
LedgerInv ==
    /\ nonces = {NonceOf(accepted[i].cert) : i \in DOMAIN accepted}
    /\ keys = {IntentOf(accepted[i].cert) : i \in DOMAIN accepted}
    /\ IsFiniteSet(nonces)
    /\ Cardinality(nonces) = Len(accepted)
    /\ Len(accepted) <= Capacity

(* A snapshot is no newer than the clock, and an approval it lists as not  *)
(* revoked was not revoked before it was taken.                            *)
SnapshotInv ==
    /\ snapshot.asOf <= clock
    /\ \A p \in snapshot.listed \ snapshot.revoked : snapshot.asOf <= revokedAt[p]

(* The approval of a certificate was good at that time, or had been at     *)
(* most SnapshotLife before; and the time is not ahead of the clock.       *)
StillGood(c, now) ==
    /\ now <= clock
    /\ c.approvalRequired => /\ c.approval \in Approvals
                             /\ now <= revokedAt[c.approval] + SnapshotLife

(* What is accepted, or about to be, was still good.                       *)
RevocationInv ==
    /\ \A v \in Verifiers : call[v].busy => StillGood(call[v].cert, call[v].now)
    /\ \A i \in DOMAIN accepted : StillGood(accepted[i].cert, accepted[i].now)

(* The verifier and its ledger never leave their types.                    *)
THEOREM TypeCorrect == Spec => []TypeOK
<1> USE CertificateAssumption
<1>1. Init => TypeOK
  BY DEF Init, TypeOK, Times, Never, NoCall
<1>2. TypeOK /\ [Next]_vars => TypeOK'
  <2> SUFFICES ASSUME TypeOK, [Next]_vars PROVE TypeOK'
    OBVIOUS
  <2> USE DEF TypeOK
  <2>1. CASE Tick
    <3>1. clock' \in Times
      BY <2>1 DEF Tick, Times
    <3>2. QED
      BY <2>1, <3>1 DEF Tick
  <2>2. ASSUME NEW p \in Approvals, Revoke(p) PROVE TypeOK'
    BY <2>2 DEF Revoke, Times, Never
  <2>3. ASSUME NEW listed \in {{}, Approvals}, Publish(listed) PROVE TypeOK'
    BY <2>3 DEF Publish
  <2>4. ASSUME NEW v \in Verifiers, NEW c \in Certificates, NEW resolver \in ResolverKinds,
               NEW expected \in Strangers \cup {c}, Begin(v, c, expected, resolver)
        PROVE  TypeOK'
    BY <2>4 DEF Begin
  <2>5. ASSUME NEW v \in Verifiers, Reserve(v) PROVE TypeOK'
    <3>1. call[v].cert \in Certificates /\ call[v].now \in Times
      <4>1. call[v] # NoCall
        BY <2>5 DEF Reserve, NoCall
      <4>2. QED
        BY <4>1
    <3>2. call' \in [Verifiers -> {NoCall} \cup [busy : {TRUE}, cert : Certificates, now : Times]]
      BY <2>5 DEF Reserve
    <3>3. accepted' \in Seq([cert : Certificates, now : Times])
      <4> DEFINE S == [cert : Certificates, now : Times]
                 r == [cert |-> call[v].cert, now |-> call[v].now]
      <4>1. r \in S /\ accepted \in Seq(S)
        BY <3>1
      <4>2. accepted' \in {accepted, Append(accepted, r)}
        BY <2>5 DEF Reserve
      <4> HIDE DEF S, r
      <4>3. Append(accepted, r) \in Seq(S)
        BY <4>1
      <4>4. accepted' \in Seq(S)
        BY <4>1, <4>2, <4>3
      <4>5. QED
        BY <4>4 DEF S
    <3>4. nonces' \subseteq {NonceOf(c) : c \in Certificates}
      BY <2>5, <3>1 DEF Reserve
    <3>5. keys' \subseteq {IntentOf(c) : c \in Certificates}
      BY <2>5, <3>1 DEF Reserve
    <3>6. QED
      BY <2>5, <3>2, <3>3, <3>4, <3>5 DEF Reserve
  <2>6. CASE UNCHANGED vars
    BY <2>6 DEF vars
  <2>7. QED
    BY <2>1, <2>2, <2>3, <2>4, <2>5, <2>6 DEF Next
<1>3. QED
  BY <1>1, <1>2, PTL DEF Spec

(* Everything the ledger theorems need is kept by every step.  Only        *)
(* reserve_once touches the ledger, and only for a nonce it does not hold. *)
LEMMA LedgerInvariant == Spec => []LedgerInv
<1> USE CertificateAssumption
<1>1. Init => LedgerInv
  <2> SUFFICES ASSUME Init PROVE LedgerInv
    OBVIOUS
  <2>1. nonces = {} /\ keys = {} /\ accepted = <<>>
    BY DEF Init
  <2>2. DOMAIN accepted = {} /\ Len(accepted) = 0
    BY <2>1
  <2>3. IsFiniteSet(nonces) /\ Cardinality(nonces) = 0
    BY <2>1, FS_EmptySet
  <2>4. QED
    BY <2>1, <2>2, <2>3 DEF LedgerInv
<1>2. TypeOK /\ LedgerInv /\ [Next]_vars => LedgerInv'
  <2> SUFFICES ASSUME TypeOK, LedgerInv, [Next]_vars PROVE LedgerInv'
    OBVIOUS
  <2>1. ASSUME NEW v \in Verifiers, Reserve(v), ReserveOnce(call[v].cert) = "RESERVED"
        PROVE  LedgerInv'
    <3> DEFINE c == call[v].cert
               r == [cert |-> call[v].cert, now |-> call[v].now]
    <3>1. /\ nonces' = nonces \cup {NonceOf(c)}
          /\ keys' = keys \cup {IntentOf(c)}
          /\ accepted' = Append(accepted, r)
      BY <2>1 DEF Reserve
    <3>2. NonceOf(c) \notin nonces /\ ~(Cardinality(nonces) >= Capacity)
      BY <2>1 DEF ReserveOnce
    <3>3. IsFiniteSet(nonces') /\ Cardinality(nonces') = Cardinality(nonces) + 1
      BY <3>1, <3>2, FS_AddElement DEF LedgerInv
    <3>4. /\ Len(accepted') = Len(accepted) + 1
          /\ DOMAIN accepted' = DOMAIN accepted \cup {Len(accepted) + 1}
          /\ accepted'[Len(accepted) + 1] = r
          /\ \A i \in DOMAIN accepted : accepted'[i] = accepted[i]
      BY <3>1 DEF TypeOK
    <3>5. nonces' = {NonceOf(accepted'[i].cert) : i \in DOMAIN accepted'}
      BY <3>1, <3>4 DEF LedgerInv
    <3>6. keys' = {IntentOf(accepted'[i].cert) : i \in DOMAIN accepted'}
      BY <3>1, <3>4 DEF LedgerInv
    <3>7. Len(accepted') <= Capacity
      BY <3>2, <3>4 DEF LedgerInv, TypeOK
    <3>8. QED
      BY <3>3, <3>4, <3>5, <3>6, <3>7 DEF LedgerInv
  <2>2. CASE UNCHANGED <<nonces, keys, accepted>>
    BY <2>2 DEF LedgerInv
  <2>3. QED
    BY <2>1, <2>2 DEF Next, vars, Tick, Revoke, Publish, Begin, Reserve
<1>3. QED
  BY <1>1, <1>2, TypeCorrect, PTL DEF Spec

(* Whatever calls race, the ledger holds exactly the accepted certificates *)
(* and never more than its capacity: a REJECT or an UNKNOWN of             *)
(* verify_action_certificate leaves no trace in it.                        *)
THEOREM LedgerIsExact == Spec => []LedgerHoldsExactlyTheAccepted
<1>1. LedgerInv => LedgerHoldsExactlyTheAccepted
  <2> SUFFICES ASSUME LedgerInv PROVE LedgerHoldsExactlyTheAccepted
    OBVIOUS
  <2>1. {<<k[1], k[2]>> : k \in keys} = {KeyOf(accepted[i].cert) : i \in DOMAIN accepted}
    <3>1. \A i \in DOMAIN accepted :
              LET k == IntentOf(accepted[i].cert) IN <<k[1], k[2]>> = KeyOf(accepted[i].cert)
      BY DEF IntentOf, KeyOf
    <3>2. keys = {IntentOf(accepted[i].cert) : i \in DOMAIN accepted}
      BY DEF LedgerInv
    <3>3. QED
      BY <3>1, <3>2
  <2>2. QED
    BY <2>1 DEF LedgerInv, LedgerHoldsExactlyTheAccepted
<1>2. QED
  BY <1>1, LedgerInvariant, PTL

(* No effect is authorised twice, by any number of concurrent calls:       *)
(* accepted certificates of a tenant differ in nonce and in idempotency    *)
(* key, because reserve_once compares both with all the ledger holds.      *)
THEOREM NoEffectTwice == Spec => []AuthorisedAtMostOnce
<1>1. Init => AuthorisedAtMostOnce
  BY DEF Init, AuthorisedAtMostOnce
<1>2. TypeOK /\ LedgerInv /\ AuthorisedAtMostOnce /\ [Next]_vars => AuthorisedAtMostOnce'
  <2> SUFFICES ASSUME TypeOK, LedgerInv, AuthorisedAtMostOnce, [Next]_vars
               PROVE  AuthorisedAtMostOnce'
    OBVIOUS
  <2>1. ASSUME NEW v \in Verifiers, Reserve(v), ReserveOnce(call[v].cert) = "RESERVED"
        PROVE  AuthorisedAtMostOnce'
    <3> DEFINE c == call[v].cert
               r == [cert |-> call[v].cert, now |-> call[v].now]
    <3>1. accepted' = Append(accepted, r)
      BY <2>1 DEF Reserve
    <3>2. /\ DOMAIN accepted' = DOMAIN accepted \cup {Len(accepted) + 1}
          /\ accepted'[Len(accepted) + 1].cert = c
          /\ \A i \in DOMAIN accepted : accepted'[i] = accepted[i]
      BY <3>1 DEF TypeOK
    <3>3. NonceOf(c) \notin nonces /\ ~\E k \in keys : <<k[1], k[2]>> = KeyOf(c)
      BY <2>1 DEF ReserveOnce
    <3>4. ASSUME NEW i \in DOMAIN accepted
          PROVE  NonceOf(accepted[i].cert) # NonceOf(c) /\ KeyOf(accepted[i].cert) # KeyOf(c)
      <4>1. NonceOf(accepted[i].cert) \in nonces /\ IntentOf(accepted[i].cert) \in keys
        BY DEF LedgerInv
      <4>2. QED
        BY <3>3, <4>1 DEF IntentOf, KeyOf
    <3>5. QED
      BY <3>2, <3>4 DEF AuthorisedAtMostOnce
  <2>2. CASE UNCHANGED accepted
    BY <2>2 DEF AuthorisedAtMostOnce
  <2>3. QED
    BY <2>1, <2>2 DEF Next, vars, Tick, Revoke, Publish, Begin, Reserve
<1>3. QED
  BY <1>1, <1>2, TypeCorrect, LedgerInvariant, PTL DEF Spec

(* A certificate that passes the checks and needs an approval has one that *)
(* the snapshot in use lists as not revoked, and the snapshot is alive.    *)
LEMMA PendingIsActive ==
    ASSUME NEW c, NEW expected, NEW now, NEW resolver,
           Check(c, expected, now, resolver) = Pending, c.approvalRequired
    PROVE  Resolve(c.approval, now) = "ACTIVE"
<1>1. \A reason : Result("REJECT", reason) # Pending /\ Result("UNKNOWN", reason) # Pending
  BY DEF Result, Pending
<1>2. CheckApproval(c, now, resolver) = Pending
  BY <1>1 DEF Check
<1>3. QED
  BY <1>1, <1>2 DEF CheckApproval

(* Snapshots know all that was revoked when they were taken.               *)
LEMMA SnapshotInvariant == Spec => []SnapshotInv
<1> USE CertificateAssumption
<1>1. Init => SnapshotInv
  BY DEF Init, SnapshotInv, Never
<1>2. TypeOK /\ SnapshotInv /\ [Next]_vars => SnapshotInv'
  <2> SUFFICES ASSUME TypeOK, SnapshotInv, [Next]_vars PROVE SnapshotInv'
    OBVIOUS
  <2> USE DEF TypeOK, SnapshotInv, Times, Never
  <2>1. CASE Tick
    BY <2>1 DEF Tick
  <2>2. ASSUME NEW p \in Approvals, Revoke(p) PROVE SnapshotInv'
    BY <2>2 DEF Revoke
  <2>3. ASSUME NEW listed \in {{}, Approvals}, Publish(listed) PROVE SnapshotInv'
    BY <2>3 DEF Publish
  <2>4. CASE UNCHANGED <<clock, revokedAt, snapshot>>
    BY <2>4
  <2>5. QED
    BY <2>1, <2>2, <2>3, <2>4 DEF Next, vars, Begin, Reserve
<1>3. QED
  BY <1>1, <1>2, TypeCorrect, PTL DEF Spec

(* What was still good stays so: time only moves on, and an approval that  *)
(* is revoked later is revoked at a time that is not before.               *)
LEMMA StillGoodIsStable ==
    ASSUME TypeOK, NEW c, NEW now \in Times, StillGood(c, now),
           Tick \/ (\E p \in Approvals : Revoke(p)) \/ UNCHANGED <<clock, revokedAt>>
    PROVE  StillGood(c, now)'
<1> USE CertificateAssumption DEF TypeOK, StillGood, Times, Never
<1>1. CASE Tick
  BY <1>1 DEF Tick
<1>2. ASSUME NEW p \in Approvals, Revoke(p) PROVE StillGood(c, now)'
  BY <1>2 DEF Revoke
<1>3. CASE UNCHANGED <<clock, revokedAt>>
  BY <1>3
<1>4. QED
  BY <1>1, <1>2, <1>3

(* No certificate is accepted later than a snapshot can live after its     *)
(* approval was revoked, however long the call takes between its check and *)
(* its reservation and whatever is revoked or published meanwhile.         *)
THEOREM RevocationCounts == Spec => []RevocationTakesEffect
<1> USE CertificateAssumption
<1>1. Init => RevocationInv
  BY DEF Init, RevocationInv, NoCall
<1>2. TypeOK /\ SnapshotInv /\ RevocationInv /\ [Next]_vars => RevocationInv'
  <2> SUFFICES ASSUME TypeOK, SnapshotInv, RevocationInv, [Next]_vars PROVE RevocationInv'
    OBVIOUS
  <2>0. /\ \A v \in Verifiers : call[v].busy => call[v].now \in Times
        /\ \A i \in DOMAIN accepted : accepted[i].now \in Times
    <3>1. ASSUME NEW v \in Verifiers, call[v].busy PROVE call[v].now \in Times
      <4>1. call[v] # NoCall
        BY <3>1 DEF NoCall
      <4>2. QED
        BY <4>1 DEF TypeOK
    <3>2. ASSUME NEW i \in DOMAIN accepted PROVE accepted[i].now \in Times
      <4> DEFINE S == [cert : Certificates, now : Times]
      <4>1. accepted \in Seq(S)
        BY DEF TypeOK
      <4> HIDE DEF S
      <4>2. accepted[i] \in S
        BY <4>1
      <4>3. QED
        BY <4>2 DEF S
    <3>3. QED
      BY <3>1, <3>2
  <2>1. ASSUME NEW v \in Verifiers, NEW c \in Certificates, NEW resolver \in ResolverKinds,
               NEW expected \in Strangers \cup {c}, Begin(v, c, expected, resolver)
        PROVE  RevocationInv'
    <3>1. StillGood(c, clock)
      <4>1. ASSUME c.approvalRequired
            PROVE  /\ c.approval \in snapshot.listed \ snapshot.revoked
                   /\ clock <= snapshot.asOf + SnapshotLife
        <5>1. Resolve(c.approval, clock) = "ACTIVE"
          BY <2>1, <4>1, PendingIsActive DEF Begin
        <5>2. QED
          BY <5>1 DEF Resolve, TypeOK, Times
      <4>2. QED
        BY <4>1 DEF StillGood, SnapshotInv, TypeOK, Times, Never
    <3>2. call' = [call EXCEPT ![v] = [busy |-> TRUE, cert |-> c, now |-> clock]]
      BY <2>1 DEF Begin
    <3>3. UNCHANGED <<clock, revokedAt, accepted>>
      BY <2>1 DEF Begin
    <3>4. QED
      BY <3>1, <3>2, <3>3 DEF RevocationInv, StillGood, TypeOK
  <2>2. ASSUME NEW v \in Verifiers, Reserve(v) PROVE RevocationInv'
    <3> DEFINE r == [cert |-> call[v].cert, now |-> call[v].now]
    <3>1. StillGood(call[v].cert, call[v].now)
      BY <2>2 DEF Reserve, RevocationInv
    <3>2. UNCHANGED <<clock, revokedAt>> /\ call' = [call EXCEPT ![v] = NoCall]
      BY <2>2 DEF Reserve
    <3>3. \A w \in Verifiers : call'[w].busy => call'[w] = call[w] /\ call[w].busy
      BY <3>2 DEF TypeOK, NoCall
    <3>4. accepted' = accepted \/ accepted' = Append(accepted, r)
      BY <2>2 DEF Reserve
    <3>5. \A i \in DOMAIN accepted' :
              \/ i \in DOMAIN accepted /\ accepted'[i] = accepted[i]
              \/ accepted'[i] = r
      BY <3>4 DEF TypeOK
    <3>6. QED
      BY <3>1, <3>2, <3>3, <3>5 DEF RevocationInv, StillGood
  <2>3. CASE /\ Tick \/ (\E p \in Approvals : Revoke(p)) \/ UNCHANGED <<clock, revokedAt>>
             /\ UNCHANGED <<call, accepted>>
    <3>1. \A v \in Verifiers : call[v].busy => StillGood(call[v].cert, call[v].now)'
      BY <2>0, <2>3, StillGoodIsStable DEF RevocationInv, StillGood
    <3>2. \A i \in DOMAIN accepted : StillGood(accepted[i].cert, accepted[i].now)'
      BY <2>0, <2>3, StillGoodIsStable DEF RevocationInv, StillGood
    <3>3. QED
      BY <2>3, <3>1, <3>2 DEF RevocationInv
  <2>4. QED
    BY <2>1, <2>2, <2>3 DEF Next, vars, Tick, Revoke, Publish
<1>3. RevocationInv => RevocationTakesEffect
  BY DEF RevocationInv, RevocationTakesEffect, StillGood
<1>4. QED
  BY <1>1, <1>2, <1>3, TypeCorrect, SnapshotInvariant, PTL DEF Spec

-----------------------------------------------------------------------------
(* Enough people who did not ask for it approved the certificate.          *)
EnoughOthers(c) ==
    c.approvalRequired =>
        \E roots \in SUBSET OtherApprovals(c) :
            Separate(roots) /\ Cardinality(roots) >= Policy.approvalThreshold

(* What is accepted, or about to be, has enough approvers.                 *)
ApprovalInv ==
    /\ \A v \in Verifiers : call[v].busy => EnoughOthers(call[v].cert)
    /\ \A i \in DOMAIN accepted : EnoughOthers(accepted[i].cert)

(* The roots that count towards the approval of a certificate nobody who   *)
(* asked for it approved are such a set of approvals.                      *)
LEMMA ApproversAreOthers ==
    ASSUME NEW c, NEW now, ~SelfApproval(c, now)
    PROVE  ApprovalRoots(c, now) \subseteq OtherApprovals(c) /\ Separate(ApprovalRoots(c, now))
<1> DEFINE roots == {root \in VerifiedRoots(c) :
                        /\ root.purpose = "HUMAN_APPROVAL"
                        /\ root.tenant = c.tenant
                        /\ c.audience \in root.audiences /\ "certificate" \in root.types
                        /\ root.principal \in Policy.approvers \cap c.approvers
                        /\ TrustRootIsCurrent(root, now)}
<1>1. ApprovalRoots(c, now) = Distinct(roots)
  BY DEF ApprovalRoots, QualifyingRoots
<1>2. Distinct(roots) \subseteq roots /\ Separate(Distinct(roots))
  BY DistinctIsSeparate
<1>3. SUFFICES ASSUME NEW r \in Distinct(roots) PROVE r \in OtherApprovals(c)
  BY <1>1, <1>2
<1>4. r \in ToSet(Roots) /\ r.key \in c.signers
  BY <1>2 DEF VerifiedRoots
<1>5. r.purpose = "HUMAN_APPROVAL" /\ r.tenant = c.tenant /\ r.principal \in c.approvers
  BY <1>2
<1>6. r.principal \notin {c.human, c.workload}
  BY <1>1 DEF SelfApproval, Principals
<1>7. QED
  BY <1>4, <1>5, <1>6 DEF OtherApprovals

(* A certificate that passes the checks has enough approvers.              *)
LEMMA PendingIsApproved ==
    ASSUME NEW c, NEW expected, NEW now, NEW resolver,
           Check(c, expected, now, resolver) = Pending
    PROVE  EnoughOthers(c)
<1>1. SUFFICES ASSUME c.approvalRequired
               PROVE  \E roots \in SUBSET OtherApprovals(c) :
                          Separate(roots) /\ Cardinality(roots) >= Policy.approvalThreshold
  BY DEF EnoughOthers
<1>2. \A reason : Result("REJECT", reason) # Pending /\ Result("UNKNOWN", reason) # Pending
  BY DEF Result, Pending
<1>3. CheckApproval(c, now, resolver) = Pending
  BY <1>1, <1>2 DEF Check
<1>4. ~SelfApproval(c, now) /\ ~(Cardinality(ApprovalRoots(c, now)) < Policy.approvalThreshold)
  BY <1>2, <1>3 DEF CheckApproval
<1>5. Policy.approvalThreshold \in Nat
  BY PolicyAssumption DEF PolicyValid
<1>6. ApprovalRoots(c, now) \subseteq OtherApprovals(c) /\ Separate(ApprovalRoots(c, now))
  BY <1>4, ApproversAreOthers
<1>7. Cardinality(ApprovalRoots(c, now)) \in Nat
  <2>1. ApprovalRoots(c, now) \subseteq ToSet(Roots)
    BY <1>6 DEF OtherApprovals
  <2>2. QED
    BY <2>1, RootsAreListed, FS_Subset, FS_CardinalityType
<1>8. Cardinality(ApprovalRoots(c, now)) >= Policy.approvalThreshold
  BY <1>4, <1>5, <1>7
<1>9. QED
  BY <1>6, <1>8

(* The approval threshold counts people, for every policy and however keys *)
(* are shared between roots: a certificate that verify_action_certificate  *)
(* accepted with an approval was signed by that many people, each with a   *)
(* key of his own, none of whom asked for it.                              *)
THEOREM EnoughOthersApproved == Spec => []ApprovedByEnoughOthers
<1>1. Init => ApprovalInv
  BY DEF Init, ApprovalInv, NoCall
<1>2. TypeOK /\ ApprovalInv /\ [Next]_vars => ApprovalInv'
  <2> SUFFICES ASSUME TypeOK, ApprovalInv, [Next]_vars PROVE ApprovalInv'
    OBVIOUS
  <2>1. ASSUME NEW v \in Verifiers, NEW c \in Certificates, NEW resolver \in ResolverKinds,
               NEW expected \in Strangers \cup {c}, Begin(v, c, expected, resolver)
        PROVE  ApprovalInv'
    <3>1. EnoughOthers(c)
      BY <2>1, PendingIsApproved DEF Begin
    <3>2. /\ call' = [call EXCEPT ![v] = [busy |-> TRUE, cert |-> c, now |-> clock]]
          /\ UNCHANGED accepted
      BY <2>1 DEF Begin
    <3>3. QED
      BY <3>1, <3>2 DEF ApprovalInv, TypeOK
  <2>2. ASSUME NEW v \in Verifiers, Reserve(v) PROVE ApprovalInv'
    <3> DEFINE r == [cert |-> call[v].cert, now |-> call[v].now]
    <3>1. EnoughOthers(call[v].cert)
      BY <2>2 DEF Reserve, ApprovalInv
    <3>2. call' = [call EXCEPT ![v] = NoCall]
      BY <2>2 DEF Reserve
    <3>3. \A w \in Verifiers : call'[w].busy => call'[w] = call[w] /\ call[w].busy
      BY <3>2 DEF TypeOK, NoCall
    <3>4. accepted' = accepted \/ accepted' = Append(accepted, r)
      BY <2>2 DEF Reserve
    <3>5. \A i \in DOMAIN accepted' :
              \/ i \in DOMAIN accepted /\ accepted'[i] = accepted[i]
              \/ accepted'[i] = r
      <4> DEFINE S == [cert : Certificates, now : Times]
      <4>1. accepted \in Seq(S)
        BY DEF TypeOK
      <4> HIDE DEF S, r
      <4>2. QED
        BY <3>4, <4>1
    <3>6. QED
      BY <3>1, <3>3, <3>5 DEF ApprovalInv
  <2>3. CASE UNCHANGED <<call, accepted>>
    BY <2>3 DEF ApprovalInv
  <2>4. QED
    BY <2>1, <2>2, <2>3 DEF Next, vars, Tick, Revoke, Publish
<1>3. ApprovalInv => ApprovedByEnoughOthers
  BY DEF ApprovalInv, ApprovedByEnoughOthers, EnoughOthers
<1>4. QED
  BY <1>1, <1>2, <1>3, TypeCorrect, PTL DEF Spec

-----------------------------------------------------------------------------
(* The verifiers count roots as the shared policy does.                    *)
LEMMA SameCounting ==
    ASSUME NEW roots
    PROVE  /\ Receipt!Distinct(roots) = Distinct(roots)
           /\ Closure!Distinct(roots) = Distinct(roots)
<1>1. Receipt!Distinct(roots) = Distinct(roots)
  BY DEF Distinct, Receipt!Distinct
<1>2. Closure!Distinct(roots) = Distinct(roots)
  BY DEF Distinct, Closure!Distinct
<1>3. QED
  BY <1>1, <1>2

(* And they take the size of a set alike.                                   *)
LEMMA SameSize ==
    ASSUME NEW S
    PROVE  /\ Receipt!Cardinality(S) = Cardinality(S)
           /\ Closure!Cardinality(S) = Cardinality(S)
  BY DEF Cardinality, Receipt!Cardinality, Closure!Cardinality

-----------------------------------------------------------------------------
(* What ExecutedUnderReservation and ObservedIndependently say of one      *)
(* receipt.                                                                *)
Executed(r) ==
    /\ r.cert.status = "ACCEPT"
    /\ r.cert.reservedAt <= r.started
    /\ r.ended < r.cert.expires + Policy.skew

Witnessed(r) ==
    LET involved == {root \in ToSet(Roots) :
                        root.id \in r.cert.issuerRoots \cup r.cert.approvalRoots}
    IN  /\ Cardinality(Principals(Receipt!Observers(r))) >= Policy.observerThreshold
        /\ r.observers \cap ({r.human, r.workload} \cup Principals(involved)) = {}
        /\ Keys(Receipt!Observers(r)) \cap (r.partyKeys \cup Keys(involved)) = {}

(* A receipt that passes the checks was executed under a reservation, and  *)
(* its observers passed theirs.                                            *)
LEMMA PassedReceipt ==
    ASSUME NEW r \in Receipts, NEW expected, NEW now,
           Receipt!Check(r, expected, now) = Receipt!Pending
    PROVE  Executed(r) /\ Receipt!CheckObservers(r, now) = Receipt!Pending
<1>1. \A reason : /\ Receipt!Refused("REJECT", reason) # Receipt!Pending
                  /\ Receipt!Refused("UNKNOWN", reason) # Receipt!Pending
  BY DEF Receipt!Refused, Receipt!Pending
<1>2. /\ Receipt!CertificateContext(r) = Receipt!Pending
      /\ ~(r.cert.reservedAt > r.started)
      /\ Receipt!WithinCertificate(r)
      /\ Receipt!CheckObservers(r, now) = Receipt!Pending
  BY <1>1 DEF Receipt!Check
<1>3. r.cert.status = "ACCEPT"
  BY <1>1, <1>2 DEF Receipt!CertificateContext
<1>4. r.cert.reservedAt <= r.started
  BY <1>2, RecordAssumption DEF FieldsTyped
<1>5. r.ended < r.cert.expires + Policy.skew
  BY <1>2 DEF Receipt!WithinCertificate
<1>6. QED
  BY <1>2, <1>3, <1>4, <1>5 DEF Executed

(* The observers that pass the checks are enough and have no part in what  *)
(* they observe: the roots that signed are all declared and current, so    *)
(* those that count are among them and none of them is partial.            *)
LEMMA PassedObservers ==
    ASSUME NEW r, NEW now, Receipt!CheckObservers(r, now) = Receipt!Pending
    PROVE  Witnessed(r)
<1> DEFINE signed == Receipt!ObserverRoots(r)
           declared == {root \in signed : root.principal \in r.observers}
           current == {root \in declared : ~Receipt!Stale(r, root, now)}
           involved == {root \in ToSet(Roots) :
                           root.id \in r.cert.issuerRoots \cup r.cert.approvalRoots}
<1>1. \A reason : /\ Receipt!Refused("REJECT", reason) # Receipt!Pending
                  /\ Receipt!Refused("UNKNOWN", reason) # Receipt!Pending
  BY DEF Receipt!Refused, Receipt!Pending
<1>2. /\ \A root \in declared : ~Receipt!Partial(r, root)
      /\ current = declared /\ declared = signed
      /\ Receipt!Principals(Receipt!Distinct(current)) = r.observers
      /\ ~(Receipt!Cardinality(Receipt!Distinct(current)) < Policy.observerThreshold)
  BY <1>1 DEF Receipt!CheckObservers
<1>3. Receipt!Authority(r) = involved
  BY DEF Receipt!Authority, Receipt!RootsById, Receipt!ToSet, ToSet
<1>4. signed = Receipt!Observers(r)
  BY <1>2 DEF Receipt!ObserverRoots, Receipt!Observers, Receipt!VerifiedRoots
<1>5. \A root \in signed :
          /\ root \in ToSet(Roots)
          /\ root.principal \notin {r.workload, r.human} \cup Principals(involved)
          /\ root.key \notin r.partyKeys \cup Keys(involved)
  BY <1>2, <1>3 DEF Receipt!Partial, Receipt!ObserverRoots, Receipt!VerifiedRoots,
                    Receipt!Principals, Receipt!Keys, Principals, Keys, Receipt!ToSet, ToSet
<1>6. Distinct(signed) \subseteq signed
  BY DistinctIsSeparate
<1> HIDE DEF signed, declared, current, involved
<1>7. Principals(Distinct(signed)) = r.observers
  BY <1>2, SameCounting DEF Principals, Receipt!Principals
<1>8. ~(Cardinality(Distinct(signed)) < Policy.observerThreshold)
  BY <1>2, SameCounting, SameSize
<1>9. /\ Cardinality(Distinct(signed)) \in Nat
      /\ Cardinality(Principals(signed)) \in Nat
      /\ Cardinality(Distinct(signed)) <= Cardinality(Principals(signed))
  <2>1. signed \subseteq ToSet(Roots)
    BY <1>5
  <2>2. Principals(signed) \subseteq Principals(ToSet(Roots))
    BY <2>1 DEF Principals
  <2>3. Principals(Distinct(signed)) \subseteq Principals(signed)
    BY <1>6 DEF Principals
  <2>4. QED
    BY <2>1, <2>2, <2>3, CountedArePeople
<1>10. Policy.observerThreshold \in Nat
  BY PolicyAssumption DEF PolicyValid
<1>11. Cardinality(Principals(signed)) >= Policy.observerThreshold
  BY <1>8, <1>9, <1>10
<1>12. r.observers \cap ({r.human, r.workload} \cup Principals(involved)) = {}
  <2>1. \A p \in r.observers : \E root \in signed : p = root.principal
    BY <1>6, <1>7 DEF Principals
  <2>2. QED
    BY <1>5, <2>1
<1>13. Keys(signed) \cap (r.partyKeys \cup Keys(involved)) = {}
  BY <1>5 DEF Keys
<1>14. QED
  BY <1>4, <1>11, <1>12, <1>13 DEF Witnessed, involved

-----------------------------------------------------------------------------
(* The three tables of the receipt index are what the recorded receipts    *)
(* put there, and each recorded receipt passed the checks.                 *)
ReceiptInv ==
    /\ receiptLog \in Seq([receipt : Receipts, now : 0..Horizon])
    /\ receipts = {Receipt!ReceiptKey(receiptLog[i].receipt) : i \in DOMAIN receiptLog}
    /\ attempts = {Receipt!AttemptKey(receiptLog[i].receipt) : i \in DOMAIN receiptLog}
    /\ intents = {Receipt!IntentKey(receiptLog[i].receipt) : i \in DOMAIN receiptLog}
    /\ \A i \in DOMAIN receiptLog :
           Executed(receiptLog[i].receipt) /\ Witnessed(receiptLog[i].receipt)

(* Two receipts that append_once took for different.                       *)
Apart(r, s) ==
    r.tenant = s.tenant =>
        /\ r.id # s.id
        /\ <<r.execution, r.attempt>> # <<s.execution, s.attempt>>
        /\ r.key = s.key => r.intent = s.intent

(* A receipt that append_once takes is apart from all it has taken.        *)
LEMMA AppendedIsApart ==
    ASSUME ReceiptInv, NEW r, Receipt!AppendStatus(r) = "APPENDED", NEW i \in DOMAIN receiptLog
    PROVE  Apart(r, receiptLog[i].receipt) /\ Apart(receiptLog[i].receipt, r)
<1> DEFINE s == receiptLog[i].receipt
<1>1. /\ ~\E x \in receipts : x[1] = r.tenant /\ x[2] = r.id
      /\ ~\E x \in attempts : x[1] = r.tenant /\ x[2] = r.execution /\ x[3] = r.attempt
      /\ ~\E x \in intents : x[1] = r.tenant /\ x[2] = r.key /\ x[3] # r.intent
  BY DEF Receipt!AppendStatus
<1>2. /\ Receipt!ReceiptKey(s) \in receipts
      /\ Receipt!AttemptKey(s) \in attempts
      /\ Receipt!IntentKey(s) \in intents
  BY DEF ReceiptInv
<1> HIDE DEF s
<1>3. ~(s.tenant = r.tenant /\ s.id = r.id)
  BY <1>1, <1>2 DEF Receipt!ReceiptKey
<1>4. ~(s.tenant = r.tenant /\ s.execution = r.execution /\ s.attempt = r.attempt)
  BY <1>1, <1>2 DEF Receipt!AttemptKey
<1>5. ~(s.tenant = r.tenant /\ s.key = r.key /\ s.intent # r.intent)
  BY <1>1, <1>2 DEF Receipt!IntentKey
<1>6. QED
  BY <1>3, <1>4, <1>5 DEF Apart, s

(* The log grows at its end.                                               *)
LEMMA Grown ==
    ASSUME NEW S, NEW log \in Seq(S), NEW e \in S
    PROVE  /\ Append(log, e) \in Seq(S)
           /\ DOMAIN log = 1..Len(log) /\ Len(log) \in Nat
           /\ DOMAIN Append(log, e) = DOMAIN log \cup {Len(log) + 1}
           /\ Append(log, e)[Len(log) + 1] = e
           /\ \A i \in DOMAIN log : Append(log, e)[i] = log[i]
           /\ Len(log) + 1 \notin DOMAIN log
  OBVIOUS

(* What a recorded receipt adds to the index keeps the index exact and the *)
(* receipts apart.                                                         *)
LEMMA ReceiptStep ==
    ASSUME ReceiptInv, \A i, j \in DOMAIN receiptLog :
                           i # j => Apart(receiptLog[i].receipt, receiptLog[j].receipt),
           Receipt!Next
    PROVE  /\ ReceiptInv'
           /\ \A i, j \in DOMAIN receiptLog' :
                  i # j => Apart(receiptLog'[i].receipt, receiptLog'[j].receipt)
<1>1. PICK r \in Receipts, now \in 0..Horizon :
          \E expected \in OtherReceipts \cup {r} : Receipt!VerifyExecutionReceipt(r, expected, now)
  BY DEF Receipt!Next
<1>2. PICK expected : Receipt!VerifyExecutionReceipt(r, expected, now)
  BY <1>1
<1> DEFINE e == [receipt |-> r, now |-> now]
           S == [receipt : Receipts, now : 0..Horizon]
<1>3. /\ Receipt!Check(r, expected, now) = Receipt!Pending
      /\ Receipt!AppendStatus(r) = "APPENDED"
      /\ receipts' = receipts \cup {Receipt!ReceiptKey(r)}
      /\ attempts' = attempts \cup {Receipt!AttemptKey(r)}
      /\ intents' = intents \cup {Receipt!IntentKey(r)}
      /\ receiptLog' = Append(receiptLog, e)
  BY <1>2 DEF Receipt!VerifyExecutionReceipt
<1>4. e \in S /\ e.receipt = r /\ receiptLog \in Seq(S)
  BY DEF ReceiptInv
<1>5. Executed(r) /\ Witnessed(r)
  BY <1>3, PassedReceipt, PassedObservers
<1> HIDE DEF e, S
<1>6. /\ receiptLog' \in Seq(S)
      /\ DOMAIN receiptLog' = DOMAIN receiptLog \cup {Len(receiptLog) + 1}
      /\ receiptLog'[Len(receiptLog) + 1] = e
      /\ \A i \in DOMAIN receiptLog : receiptLog'[i] = receiptLog[i]
  BY <1>3, <1>4, Grown
<1>7. receipts' = {Receipt!ReceiptKey(receiptLog'[i].receipt) : i \in DOMAIN receiptLog'}
  BY <1>3, <1>4, <1>6 DEF ReceiptInv
<1>8. attempts' = {Receipt!AttemptKey(receiptLog'[i].receipt) : i \in DOMAIN receiptLog'}
  BY <1>3, <1>4, <1>6 DEF ReceiptInv
<1>9. intents' = {Receipt!IntentKey(receiptLog'[i].receipt) : i \in DOMAIN receiptLog'}
  BY <1>3, <1>4, <1>6 DEF ReceiptInv
<1>10. \A i \in DOMAIN receiptLog' :
           Executed(receiptLog'[i].receipt) /\ Witnessed(receiptLog'[i].receipt)
  BY <1>4, <1>5, <1>6 DEF ReceiptInv
<1>11. ReceiptInv'
  BY <1>6, <1>7, <1>8, <1>9, <1>10 DEF ReceiptInv, S
<1>12. \A i \in DOMAIN receiptLog :
           Apart(r, receiptLog[i].receipt) /\ Apart(receiptLog[i].receipt, r)
  BY <1>3, AppendedIsApart
<1>13. QED
  BY <1>4, <1>6, <1>11, <1>12

(* Everything the theorems about receipts need is kept by every step.      *)
LEMMA ReceiptInvariant ==
    RecordSpec => [](ReceiptInv /\ \A i, j \in DOMAIN receiptLog :
                   i # j => Apart(receiptLog[i].receipt, receiptLog[j].receipt))
<1> DEFINE A == \A i, j \in DOMAIN receiptLog :
                   i # j => Apart(receiptLog[i].receipt, receiptLog[j].receipt)
<1>1. RecordInit => ReceiptInv /\ A
  <2> SUFFICES ASSUME RecordInit PROVE ReceiptInv /\ A
    OBVIOUS
  <2>1. receipts = {} /\ attempts = {} /\ intents = {} /\ receiptLog = <<>>
    BY DEF RecordInit, Receipt!Init
  <2>2. DOMAIN receiptLog = {} /\ receiptLog \in Seq([receipt : Receipts, now : 0..Horizon])
    BY <2>1
  <2>3. QED
    BY <2>1, <2>2 DEF ReceiptInv
<1>2. ReceiptInv /\ A /\ [RecordNext]_<<receiptVars, closureVars>> => ReceiptInv' /\ A'
  <2> SUFFICES ASSUME ReceiptInv, A, [RecordNext]_<<receiptVars, closureVars>> PROVE ReceiptInv' /\ A'
    OBVIOUS
  <2>1. CASE RecordReceipt
    BY <2>1, ReceiptStep DEF RecordReceipt
  <2>2. CASE UNCHANGED receiptVars
    BY <2>2 DEF receiptVars, ReceiptInv
  <2>3. QED
    BY <2>1, <2>2 DEF RecordNext, RecordClosure
<1>3. QED
  BY <1>1, <1>2, PTL DEF RecordSpec

(* Whatever receipts are presented, with whatever expectations and in any  *)
(* order, a receipt id, an attempt and an idempotency key each have one    *)
(* account: append_once compares with all three tables, and they hold all  *)
(* that was recorded.                                                      *)
THEOREM AttemptsHaveOneAccount == RecordSpec => []OneAccountPerAttempt
<1>1. (\A i, j \in DOMAIN receiptLog :
           i # j => Apart(receiptLog[i].receipt, receiptLog[j].receipt))
          => OneAccountPerAttempt
  BY DEF OneAccountPerAttempt, Receipt!OneAccountPerAttempt, Apart
<1>2. QED
  BY <1>1, ReceiptInvariant, PTL

(* Every recorded execution was authorised before it began and was over    *)
(* before its certificate expired, for all times a receipt may state.      *)
THEOREM ExecutionsWereReserved == RecordSpec => []ExecutedUnderReservation
<1>1. ReceiptInv => ExecutedUnderReservation
  BY DEF ReceiptInv, ExecutedUnderReservation, Receipt!ExecutedUnderReservation, Executed
<1>2. QED
  BY <1>1, ReceiptInvariant, PTL

(* For every trust policy, whatever keys its roots share: the observers of *)
(* a recorded receipt are as many people as the policy asks for, and none  *)
(* of them, by name or by a key that counts, had a part in the action.     *)
THEOREM ReceiptsAreIndependent == RecordSpec => []ObservedIndependently
<1>1. ReceiptInv => ObservedIndependently
  <2> SUFFICES ASSUME ReceiptInv PROVE ObservedIndependently
    OBVIOUS
  <2>1. \A i \in DOMAIN receiptLog : Witnessed(receiptLog[i].receipt)
    BY DEF ReceiptInv
  <2>2. QED
    BY <2>1, SameSize DEF ObservedIndependently, Receipt!ObservedIndependently, Witnessed,
           Receipt!Principals, Receipt!Keys, Principals, Keys, Receipt!ToSet, ToSet
<1>2. QED
  BY <1>1, ReceiptInvariant, PTL

-----------------------------------------------------------------------------
(* What ToldByOutsiders says of one closure.                               *)
Telling(c) ==
    {r \in ToSet(Roots) : /\ r.key \in c.signers
                          /\ r.principal \in c.observers \cap Policy.outcomeObservers
                          /\ r.purpose = "OUTCOME_OBSERVER"
                          /\ r.tenant = c.tenant
                          /\ "closure" \in r.audiences /\ "closure" \in r.types
                          /\ c.source \in r.sources}

Told(c) ==
    /\ Cardinality(Principals(Telling(c))) >= Policy.outcomeThreshold
    /\ c.observers \cap ({c.cert.human, c.cert.workload, c.source}
                          \cup c.receipt.observers \cup Principals(Closure!PriorRoots(c))) = {}
    /\ Keys(Telling(c)) \cap (c.partyKeys \cup Keys(Closure!PriorRoots(c))) = {}

(* What VerdictSaysWhatHappened says of a verdict on a closure.            *)
Happened(c, verdict) ==
    /\ <<c.succeeded, c.failed, c.unresolved>> =
           IF verdict = "PASS" THEN <<c.expected, 0, 0>> ELSE <<0, c.expected, 0>>
    /\ c.cert.status = "ACCEPT" /\ c.receipt.status = "ACCEPT"
    /\ c.bound /\ c.evidence = "complete"
    /\ c.cert.reservedAt <= c.receipt.started
    /\ c.issued < c.cert.expires

(* What the calls carry.                                                   *)
Closures == {x.closure : x \in Calls}

LEMMA ClosureFields ==
    ASSUME NEW c \in Closures
    PROVE  /\ c.expected \in Nat /\ c.succeeded \in Nat /\ c.failed \in Nat
           /\ c.unresolved \in Nat /\ c.sequence \in Nat
           /\ c.evidence \in {"complete", "missing", "substituted"}
  BY RecordAssumption DEF Closures, FieldsTyped

(* The statuses of the results a check may end with.                       *)
LEMMA Results ==
    ASSUME NEW reason
    PROVE  /\ \A status \in {"PASS", "FAIL", "UNSAFE_SUCCESS", "UNKNOWN"} :
                  /\ Closure!Result(status, reason).reason = reason
                  /\ Closure!Result(status, reason).status \in {status, "RAISED"}
           /\ Closure!Unknown(reason).status \in {"UNKNOWN", "RAISED"}
           /\ Closure!Unknown(reason).reason = reason
           /\ Closure!Unknown(reason) # Closure!Pending
           /\ Closure!Unknown(reason).status = "UNKNOWN" => reason \notin Closure!FAIL_REASONS
  BY DEF Closure!Result, Closure!Unknown, Closure!Pending, Closure!ReasonAllowed

(* A doubt about a closure says nothing of it only if nothing succeeded.   *)
LEMMA Doubts ==
    ASSUME NEW c \in Closures, NEW unsafe, NEW unknown
    PROVE  LET d == Closure!Doubt(c, unsafe, unknown)
           IN  /\ d.status \in {"UNSAFE_SUCCESS", "UNKNOWN", "RAISED"}
               /\ d.status = "UNKNOWN" => c.succeeded = 0
               /\ d # Closure!Pending
<1>1. CASE c.succeeded > 0
  <2>1. Closure!Doubt(c, unsafe, unknown) = Closure!Result("UNSAFE_SUCCESS", unsafe)
    BY <1>1 DEF Closure!Doubt
  <2>2. QED
    BY <2>1, Results DEF Closure!Pending
<1>2. CASE ~(c.succeeded > 0)
  <2>1. Closure!Doubt(c, unsafe, unknown) = Closure!Unknown(unknown)
    BY <1>2 DEF Closure!Doubt
  <2>2. c.succeeded = 0
    BY <1>2, ClosureFields
  <2>3. QED
    BY <2>1, <2>2, Results
<1>3. QED
  BY <1>1, <1>2

(* A check's result that is neither a verdict nor a silence about a success.       *)
Quiet(c, result) ==
    /\ result # Closure!Pending => result.status \in {"UNSAFE_SUCCESS", "UNKNOWN", "RAISED"}
    /\ /\ result.status = "UNKNOWN"
       /\ result.reason \in Closure!SilentReasons \cup Closure!FAIL_REASONS
       => c.succeeded = 0

LEMMA QuietResults ==
    ASSUME NEW c \in Closures
    PROVE  /\ \A unsafe, unknown : Quiet(c, Closure!Doubt(c, unsafe, unknown))
           /\ \A reason : reason \notin Closure!SilentReasons =>
                  Quiet(c, Closure!Unknown(reason))
           /\ Quiet(c, Closure!Pending)
<1>1. \A unsafe, unknown : Quiet(c, Closure!Doubt(c, unsafe, unknown))
  BY Doubts DEF Quiet
<1>2. \A reason : reason \notin Closure!SilentReasons => Quiet(c, Closure!Unknown(reason))
  BY Results DEF Quiet
<1>3. Quiet(c, Closure!Pending)
  BY DEF Quiet, Closure!Pending
<1>4. QED
  BY <1>1, <1>2, <1>3

LEMMA ObserversQuiet ==
    ASSUME NEW c \in Closures, NEW parties, NEW now
    PROVE  Quiet(c, Closure!CheckObservers(c, parties, now))
<1>1. \A reason \in {"PRODUCER_SIGNER_MISMATCH", "SELF_OBSERVATION",
                     "ROOT_TIME_OR_REVOCATION_INVALID", "OUTCOME_OBSERVER_THRESHOLD_NOT_MET"} :
          reason \notin Closure!SilentReasons
  BY DEF Closure!SilentReasons
<1>2. QED
  BY <1>1, QuietResults, Zenon DEF Closure!CheckObservers

LEMMA EvidenceQuiet ==
    ASSUME NEW c \in Closures, NEW now
    PROVE  Quiet(c, Closure!CheckEvidence(c, now))
<1>1. \A reason \in {"EVIDENCE_SOURCE_INVALID", "EVIDENCE_BYTES_UNAVAILABLE",
                     "EVIDENCE_DIGEST_MISMATCH"} :
          reason \notin Closure!SilentReasons
  BY DEF Closure!SilentReasons
<1>2. QED
  BY <1>1, QuietResults, Zenon DEF Closure!CheckEvidence

LEMMA PriorQuiet ==
    ASSUME NEW c \in Closures, NEW now
    PROVE  Quiet(c, Closure!CheckPrior(c, now))
<1>1. \A reason \in {"ACTION_CERTIFICATE_HANDOFF_UNTRUSTED",
                     "EXECUTION_RECEIPT_HANDOFF_UNTRUSTED"} :
          reason \notin Closure!SilentReasons
  BY DEF Closure!SilentReasons
<1>2. QED
  BY <1>1, QuietResults, ObserversQuiet, Zenon DEF Closure!CheckPrior

(* The verdict over the effects follows their counts.                      *)
LEMMA Reconciled ==
    ASSUME NEW c \in Closures
    PROVE  LET v == Closure!Reconcile(c)
           IN  /\ v.status = "PASS" =>
                      c.succeeded = c.expected /\ c.failed = 0 /\ c.unresolved = 0
               /\ v.status = "FAIL" =>
                      c.succeeded = 0 /\ c.failed = c.expected /\ c.unresolved = 0
               /\ v.status = "UNKNOWN" => c.succeeded = 0
<1> DEFINE v == Closure!Reconcile(c)
<1>1. CASE \/ v = Closure!Result("UNSAFE_SUCCESS", "DUPLICATE_EFFECT_SUCCESS")
           \/ \E unsafe, unknown : v = Closure!Doubt(c, unsafe, unknown)
  <2>1. v.status \in {"UNSAFE_SUCCESS", "UNKNOWN", "RAISED"}
    BY <1>1, Results, Doubts
  <2>2. v.status = "UNKNOWN" => c.succeeded = 0
    BY <1>1, Results, Doubts
  <2>3. QED
    BY <2>1, <2>2
<1>2. CASE /\ v = [status |-> "PASS", reason |-> "PENDING"]
           /\ c.succeeded = c.expected /\ c.failed = 0 /\ ~(c.unresolved > 0)
  BY <1>2, ClosureFields
<1>3. CASE /\ v = [status |-> "FAIL", reason |-> "PENDING"]
           /\ c.succeeded = 0 /\ ~(c.unresolved > 0)
           /\ c.succeeded + c.failed + c.unresolved = c.expected
  BY <1>3, ClosureFields
<1>4. QED
  BY <1>1, <1>2, <1>3 DEF Closure!Reconcile

(* A verdict was derived from the counts, after all checks; and what was   *)
(* not derived is quiet about no success.                                  *)
LEMMA Derived ==
    ASSUME NEW x \in Calls
    PROVE  LET c == x.closure
               d == Closure!Derive(c, x.handoff, x.now)
           IN  /\ d.status \in {"PASS", "FAIL"} =>
                      /\ d = Closure!Reconcile(c)
                      /\ Closure!CheckEvidence(c, x.now) = Closure!Pending
                      /\ Closure!CheckPrior(c, x.now) = Closure!Pending
               /\ /\ d.status = "UNKNOWN"
                  /\ d.reason \in Closure!SilentReasons \cup Closure!FAIL_REASONS
                  => c.succeeded = 0
<1> DEFINE c == x.closure
           d == Closure!Derive(c, x.handoff, x.now)
           told == Closure!CheckObservers(c, {}, x.now)
           shown == Closure!CheckEvidence(c, x.now)
           prior == Closure!CheckPrior(c, x.now)
<1>0. c \in Closures
  BY DEF Closures
<1>1. ASSUME Quiet(c, d), d # Closure!Pending
      PROVE  /\ d.status \notin {"PASS", "FAIL"}
             /\ /\ d.status = "UNKNOWN"
                /\ d.reason \in Closure!SilentReasons \cup Closure!FAIL_REASONS
                => c.succeeded = 0
  BY <1>1 DEF Quiet
<1>2. \/ Quiet(c, d) /\ d # Closure!Pending
      \/ d = Closure!Reconcile(c) /\ shown = Closure!Pending /\ prior = Closure!Pending
  <2>1. x.handoff.contradicts # "nothing" => x.handoff.contradicts \notin Closure!SilentReasons
    BY RecordAssumption DEF FieldsTyped, Closure!SilentReasons
  <2>2. \A reason \in {"ACTION_CERTIFICATE_HANDOFF_UNTRUSTED", "ENVELOPE_TOO_LARGE",
                       "ENVELOPE_INVALID", "PAYLOAD_TOO_LARGE", "SIGNATURE_INVALID",
                       "PAYLOAD_INVALID"} :
            reason \notin Closure!SilentReasons
    BY DEF Closure!SilentReasons
  <2>3. ASSUME NEW reason, d = Closure!Unknown(reason), reason \notin Closure!SilentReasons
        PROVE  Quiet(c, d) /\ d # Closure!Pending
    BY <1>0, <2>3, QuietResults, Results
  <2>4. ASSUME NEW unsafe, NEW unknown, d = Closure!Doubt(c, unsafe, unknown)
        PROVE  Quiet(c, d) /\ d # Closure!Pending
    BY <1>0, <2>4, QuietResults, Doubts
  <2>5. Quiet(c, told) /\ Quiet(c, shown) /\ Quiet(c, prior)
    BY <1>0, ObserversQuiet, EvidenceQuiet, PriorQuiet
  <2>6. \/ x.handoff.contradicts # "nothing" /\ d = Closure!Unknown(x.handoff.contradicts)
        \/ \E reason \in {"ACTION_CERTIFICATE_HANDOFF_UNTRUSTED", "ENVELOPE_TOO_LARGE",
                          "ENVELOPE_INVALID", "PAYLOAD_TOO_LARGE", "SIGNATURE_INVALID",
                          "PAYLOAD_INVALID"} : d = Closure!Unknown(reason)
        \/ d = told /\ told # Closure!Pending
        \/ d = shown /\ shown # Closure!Pending
        \/ d = Closure!Doubt(c, "EFFECT_BINDING_MISMATCH", "EXPECTED_BINDING_MISMATCH")
        \/ d = prior /\ prior # Closure!Pending
        \/ d = Closure!Reconcile(c) /\ shown = Closure!Pending /\ prior = Closure!Pending
    BY DEF Closure!Derive
  <2> HIDE DEF told, shown, prior, d, c
  <2>7. QED
    BY <2>1, <2>2, <2>3, <2>4, <2>5, <2>6
<1>3. CASE d = Closure!Reconcile(c) /\ shown = Closure!Pending /\ prior = Closure!Pending
  <2>1. d.status = "UNKNOWN" => c.succeeded = 0
    BY <1>0, <1>3, Reconciled
  <2>2. QED
    BY <1>3, <2>1
<1>4. QED
  BY <1>1, <1>2, <1>3

(* The checks on the prior envelopes, where they end well.                 *)
LEMMA PassedPrior ==
    ASSUME NEW c \in Closures, NEW now, Closure!CheckPrior(c, now) = Closure!Pending
    PROVE  /\ c.cert.status = "ACCEPT" /\ c.receipt.status = "ACCEPT" /\ c.bound
           /\ Closure!InOrder(c, now)
           /\ Closure!CheckObservers(c, {c.cert.human, c.cert.workload} \cup c.receipt.observers,
                                     now) = Closure!Pending
<1>1. \A reason : Closure!Unknown(reason) # Closure!Pending
  BY Results
<1>2. \A unsafe, unknown : Closure!Doubt(c, unsafe, unknown) # Closure!Pending
  BY Doubts
<1>3. QED
  BY <1>1, <1>2, Zenon DEF Closure!CheckPrior

(* A derived verdict says what happened.                                   *)
LEMMA DerivedHappened ==
    ASSUME NEW x \in Calls,
           Closure!Derive(x.closure, x.handoff, x.now).status \in {"PASS", "FAIL"}
    PROVE  Happened(x.closure, Closure!Derive(x.closure, x.handoff, x.now).status)
<1> DEFINE c == x.closure
           d == Closure!Derive(c, x.handoff, x.now)
<1>1. c \in Closures
  BY DEF Closures
<1>2. /\ d = Closure!Reconcile(c) /\ d.status \in {"PASS", "FAIL"}
      /\ Closure!CheckEvidence(c, x.now) = Closure!Pending
      /\ Closure!CheckPrior(c, x.now) = Closure!Pending
  BY Derived
<1> HIDE DEF d, c
<1>3. c.evidence = "complete"
  <2>1. c.evidence \notin {"missing", "substituted"}
    BY <1>2, Results DEF Closure!CheckEvidence
  <2>2. QED
    BY <1>1, <2>1, ClosureFields
<1>4. /\ c.cert.status = "ACCEPT" /\ c.receipt.status = "ACCEPT" /\ c.bound
      /\ Closure!InOrder(c, x.now)
  BY <1>1, <1>2, PassedPrior
<1>5. c.cert.reservedAt <= c.receipt.started /\ c.issued < c.cert.expires
  BY <1>4 DEF Closure!InOrder
<1>6. <<c.succeeded, c.failed, c.unresolved>> =
          IF d.status = "PASS" THEN <<c.expected, 0, 0>> ELSE <<0, c.expected, 0>>
  <2>1. d.status = "PASS" => c.succeeded = c.expected /\ c.failed = 0 /\ c.unresolved = 0
    BY <1>1, <1>2, Reconciled
  <2>2. d.status # "PASS" => c.succeeded = 0 /\ c.failed = c.expected /\ c.unresolved = 0
    BY <1>1, <1>2, Reconciled
  <2>3. QED
    BY <2>1, <2>2
<1>7. QED
  BY <1>3, <1>4, <1>5, <1>6 DEF Happened, d, c

(* Observers that pass the checks with all parties known are outsiders.    *)
LEMMA PassedTellers ==
    ASSUME NEW c, NEW now,
           Closure!CheckObservers(c, {c.cert.human, c.cert.workload} \cup c.receipt.observers,
                                  now) = Closure!Pending
    PROVE  Told(c)
<1> DEFINE parties == {c.cert.human, c.cert.workload} \cup c.receipt.observers
           prior == Closure!PriorRoots(c)
           signed == Closure!ObserverRoots(c)
           outside == {root \in signed : ~Closure!Involved(c, parties, prior, root)}
           current == {root \in outside : Closure!Current(c, root, now)}
<1>1. \A reason : Closure!Unknown(reason) # Closure!Pending
  BY Results
<1>2. /\ Closure!Principals(signed) \subseteq c.observers
      /\ outside = signed /\ current = outside
      /\ Closure!Principals(Closure!Distinct(current)) = c.observers
      /\ ~(Closure!Cardinality(Closure!Distinct(current)) < Policy.outcomeThreshold)
  BY <1>1, Zenon DEF Closure!CheckObservers
<1>3. signed = Telling(c)
  BY <1>2 DEF Closure!ObserverRoots, Telling, Closure!VerifiedRoots, Closure!Principals,
              Closure!ToSet, ToSet
<1>4. \A root \in signed :
          /\ root.principal \notin parties \cup {c.source} \cup Principals(prior)
          /\ root.key \notin c.partyKeys \cup Keys(prior)
  BY <1>2 DEF Closure!Involved, Closure!Principals, Closure!Keys, Principals, Keys
<1>5. signed \subseteq ToSet(Roots)
  BY <1>3 DEF Telling
<1>6. Distinct(signed) \subseteq signed
  BY DistinctIsSeparate
<1> HIDE DEF signed, outside, current, prior
<1>7. Principals(Distinct(signed)) = c.observers
  BY <1>2, SameCounting DEF Principals, Closure!Principals
<1>8. ~(Cardinality(Distinct(signed)) < Policy.outcomeThreshold)
  BY <1>2, SameCounting, SameSize
<1>9. /\ Cardinality(Distinct(signed)) \in Nat
      /\ Cardinality(Principals(signed)) \in Nat
      /\ Cardinality(Distinct(signed)) <= Cardinality(Principals(signed))
  <2>1. Principals(signed) \subseteq Principals(ToSet(Roots))
    BY <1>5 DEF Principals
  <2>2. Principals(Distinct(signed)) \subseteq Principals(signed)
    BY <1>6 DEF Principals
  <2>3. QED
    BY <1>5, <2>1, <2>2, CountedArePeople
<1>10. Policy.outcomeThreshold \in Nat
  BY PolicyAssumption DEF PolicyValid
<1>11. Cardinality(Principals(signed)) >= Policy.outcomeThreshold
  BY <1>8, <1>9, <1>10
<1>12. c.observers \cap (parties \cup {c.source} \cup Principals(prior)) = {}
  <2>1. \A p \in c.observers : \E root \in signed : p = root.principal
    BY <1>6, <1>7 DEF Principals
  <2>2. QED
    BY <1>4, <2>1
<1>13. Keys(signed) \cap (c.partyKeys \cup Keys(prior)) = {}
  BY <1>4 DEF Keys
<1>14. QED
  BY <1>3, <1>11, <1>12, <1>13 DEF Told, prior

-----------------------------------------------------------------------------
(* The tables of the closure index are what the recorded closures put      *)
(* there, the latest of each chain is one of them, and each one was told   *)
(* by outsiders.                                                           *)
ClosureInv ==
    /\ closureLog \in Seq([closure : Closures, verdict : {"PASS", "FAIL"}])
    /\ closures = {Closure!ClosureKey(closureLog[i].closure) : i \in DOMAIN closureLog}
    /\ executions = {Closure!ExecutionKey(closureLog[i].closure) : i \in DOMAIN closureLog}
    /\ idempotency = {Closure!IdempotencyKey(closureLog[i].closure) : i \in DOMAIN closureLog}
    /\ latest \subseteq executions
    /\ \A i \in DOMAIN closureLog : Told(closureLog[i].closure)

(* A closure's place in a log: first of its chain, or after the one before.*)
Linked(log, i) ==
    LET c == log[i].closure
    IN  \/ c.sequence = 1 /\ c.previous = NoDigest
        \/ \E j \in 1..i - 1 :
               /\ Closure!ChainOf(log[j].closure) = Closure!ChainOf(c)
               /\ log[j].closure.sequence + 1 = c.sequence
               /\ log[j].closure.payload = c.previous

(* Two closures that append_once took for different.                       *)
Differ(c, d) ==
    /\ <<Closure!ChainOf(c), c.sequence>> # <<Closure!ChainOf(d), d.sequence>>
    /\ c.tenant = d.tenant => c.id # d.id /\ <<c.key, c.sequence>> # <<d.key, d.sequence>>

ChainsInv ==
    /\ \A i \in DOMAIN closureLog : Linked(closureLog, i)
    /\ \A i, j \in DOMAIN closureLog : i # j => Differ(closureLog[i].closure, closureLog[j].closure)

(* A closure that append_once takes differs from all it has taken, and     *)
(* follows one of them unless it is a first one.                           *)
LEMMA AppendedDiffers ==
    ASSUME ClosureInv, NEW c, Closure!AppendStatus(c) = "APPENDED", NEW i \in DOMAIN closureLog
    PROVE  Differ(c, closureLog[i].closure) /\ Differ(closureLog[i].closure, c)
<1> DEFINE d == closureLog[i].closure
<1>1. /\ ~\E x \in closures : x[1] = c.tenant /\ x[2] = c.id
      /\ ~\E x \in executions : x[1] = Closure!ChainOf(c) /\ x[2] = c.sequence
      /\ ~\E x \in idempotency : x[1] = c.tenant /\ x[2] = c.key /\ x[3] = c.sequence
  BY DEF Closure!AppendStatus
<1>2. /\ Closure!ClosureKey(d) \in closures
      /\ Closure!ExecutionKey(d) \in executions
      /\ Closure!IdempotencyKey(d) \in idempotency
  BY DEF ClosureInv
<1> HIDE DEF d
<1>3. ~(d.tenant = c.tenant /\ d.id = c.id)
  BY <1>1, <1>2 DEF Closure!ClosureKey
<1>4. ~(Closure!ChainOf(d) = Closure!ChainOf(c) /\ d.sequence = c.sequence)
  BY <1>1, <1>2 DEF Closure!ExecutionKey
<1>5. ~(d.tenant = c.tenant /\ d.key = c.key /\ d.sequence = c.sequence)
  BY <1>1, <1>2 DEF Closure!IdempotencyKey
<1>6. QED
  BY <1>3, <1>4, <1>5 DEF Differ, d

LEMMA AppendedFollows ==
    ASSUME ClosureInv, NEW c \in Closures, Closure!AppendStatus(c) = "APPENDED"
    PROVE  \/ c.sequence = 1 /\ c.previous = NoDigest
           \/ \E j \in DOMAIN closureLog :
                  /\ Closure!ChainOf(closureLog[j].closure) = Closure!ChainOf(c)
                  /\ closureLog[j].closure.sequence + 1 = c.sequence
                  /\ closureLog[j].closure.payload = c.previous
<1>1. Closure!Follows(c) = "FOLLOWS"
  <2>1. Closure!Follows(c) # "APPENDED"
    BY DEF Closure!Follows
  <2>2. QED
    BY <2>1 DEF Closure!AppendStatus
<1>2. CASE c.sequence = 1
  BY <1>1, <1>2 DEF Closure!Follows
<1>3. CASE c.sequence # 1
  <2>1. <<Closure!ChainOf(c), c.sequence - 1, c.previous>> \in latest
    BY <1>1, <1>3 DEF Closure!Follows
  <2>2. PICK j \in DOMAIN closureLog :
            <<Closure!ChainOf(c), c.sequence - 1, c.previous>> =
                Closure!ExecutionKey(closureLog[j].closure)
    BY <2>1 DEF ClosureInv
  <2>3. /\ Closure!ChainOf(closureLog[j].closure) = Closure!ChainOf(c)
        /\ closureLog[j].closure.sequence = c.sequence - 1
        /\ closureLog[j].closure.payload = c.previous
    BY <2>2 DEF Closure!ExecutionKey
  <2>4. c.sequence \in Nat
    BY ClosureFields
  <2>5. QED
    BY <2>3, <2>4
<1>4. QED
  BY <1>2, <1>3

(* What a recorded closure adds to the index keeps it exact and the chains *)
(* whole.                                                                  *)
LEMMA ClosureStep ==
    ASSUME ClosureInv, ChainsInv, NEW c \in Closures, NEW verdict \in {"PASS", "FAIL"},
           Told(c), Closure!AppendOnce(c, verdict)
    PROVE  ClosureInv' /\ ChainsInv'
<1> DEFINE e == [closure |-> c, verdict |-> verdict]
           S == [closure : Closures, verdict : {"PASS", "FAIL"}]
           n == Len(closureLog) + 1
<1>1. /\ Closure!AppendStatus(c) = "APPENDED"
      /\ closures' = closures \cup {Closure!ClosureKey(c)}
      /\ executions' = executions \cup {Closure!ExecutionKey(c)}
      /\ latest' = {l \in latest : l[1] # Closure!ChainOf(c)} \cup {Closure!ExecutionKey(c)}
      /\ idempotency' = idempotency \cup {Closure!IdempotencyKey(c)}
      /\ closureLog' = Append(closureLog, e)
  BY DEF Closure!AppendOnce
<1>2. e \in S /\ e.closure = c /\ closureLog \in Seq(S)
  BY DEF ClosureInv
<1> HIDE DEF e, S
<1>3. /\ closureLog' \in Seq(S)
      /\ DOMAIN closureLog = 1..n - 1 /\ n \in Nat
      /\ DOMAIN closureLog' = DOMAIN closureLog \cup {n}
      /\ closureLog'[n] = e
      /\ \A i \in DOMAIN closureLog : closureLog'[i] = closureLog[i]
  BY <1>1, <1>2, Grown
<1> HIDE DEF n
<1>4. closures' = {Closure!ClosureKey(closureLog'[i].closure) : i \in DOMAIN closureLog'}
  BY <1>1, <1>2, <1>3 DEF ClosureInv
<1>5. executions' = {Closure!ExecutionKey(closureLog'[i].closure) : i \in DOMAIN closureLog'}
  BY <1>1, <1>2, <1>3 DEF ClosureInv
<1>6. idempotency' = {Closure!IdempotencyKey(closureLog'[i].closure) : i \in DOMAIN closureLog'}
  BY <1>1, <1>2, <1>3 DEF ClosureInv
<1>7. latest' \subseteq executions'
  BY <1>1 DEF ClosureInv
<1>8. \A i \in DOMAIN closureLog' : Told(closureLog'[i].closure)
  BY <1>2, <1>3 DEF ClosureInv
<1>9. ClosureInv'
  BY <1>3, <1>4, <1>5, <1>6, <1>7, <1>8 DEF ClosureInv, S
<1>10. \A i, j \in DOMAIN closureLog' :
           i # j => Differ(closureLog'[i].closure, closureLog'[j].closure)
  <2>1. \A i \in DOMAIN closureLog :
            Differ(c, closureLog[i].closure) /\ Differ(closureLog[i].closure, c)
    BY <1>1, AppendedDiffers
  <2>2. QED
    BY <1>2, <1>3, <2>1 DEF ChainsInv
<1>11. ASSUME NEW i \in DOMAIN closureLog PROVE Linked(closureLog', i)
  <2>1. Linked(closureLog, i)
    BY DEF ChainsInv
  <2>2. closureLog'[i] = closureLog[i] /\ \A j \in 1..i - 1 : closureLog'[j] = closureLog[j]
    BY <1>3
  <2>3. QED
    BY <2>1, <2>2 DEF Linked
<1>12. Linked(closureLog', n)
  <2>1. CASE c.sequence = 1 /\ c.previous = NoDigest
    BY <1>2, <1>3, <2>1 DEF Linked
  <2>2. CASE \E j \in DOMAIN closureLog :
                 /\ Closure!ChainOf(closureLog[j].closure) = Closure!ChainOf(c)
                 /\ closureLog[j].closure.sequence + 1 = c.sequence
                 /\ closureLog[j].closure.payload = c.previous
    BY <1>2, <1>3, <2>2 DEF Linked
  <2>3. QED
    BY <1>1, <2>1, <2>2, AppendedFollows
<1>13. ChainsInv'
  BY <1>3, <1>10, <1>11, <1>12 DEF ChainsInv
<1>14. QED
  BY <1>9, <1>13

(* Everything the theorems about the chains need is kept by every step.    *)
LEMMA ClosureInvariant == RecordSpec => [](ClosureInv /\ ChainsInv)
<1>1. RecordInit => ClosureInv /\ ChainsInv
  <2> SUFFICES ASSUME RecordInit PROVE ClosureInv /\ ChainsInv
    OBVIOUS
  <2>1. closures = {} /\ executions = {} /\ latest = {} /\ idempotency = {} /\ closureLog = <<>>
    BY DEF RecordInit, Closure!Init
  <2>2. /\ DOMAIN closureLog = {}
        /\ closureLog \in Seq([closure : Closures, verdict : {"PASS", "FAIL"}])
    BY <2>1
  <2>3. QED
    BY <2>1, <2>2 DEF ClosureInv, ChainsInv
<1>2. ClosureInv /\ ChainsInv /\ [RecordNext]_<<receiptVars, closureVars>> => ClosureInv' /\ ChainsInv'
  <2> SUFFICES ASSUME ClosureInv, ChainsInv, [RecordNext]_<<receiptVars, closureVars>>
               PROVE  ClosureInv' /\ ChainsInv'
    OBVIOUS
  <2>1. CASE UNCHANGED <<closures, executions, latest, idempotency, closureLog>>
    BY <2>1 DEF ClosureInv, ChainsInv
  <2>2. ASSUME NEW x \in Calls, Closure!VerifyClosed(x.closure, x.handoff, x.now)
        PROVE  ClosureInv' /\ ChainsInv'
    <3> DEFINE c == x.closure
               d == Closure!Derive(c, x.handoff, x.now)
    <3>1. /\ d.status \in {"PASS", "FAIL"}
          /\ \/ Closure!AppendOnce(c, d.status)
             \/ UNCHANGED <<closures, executions, latest, idempotency, closureLog>>
      BY <2>2 DEF Closure!VerifyClosed
    <3>2. c \in Closures
      BY DEF Closures
    <3>3. Closure!CheckPrior(c, x.now) = Closure!Pending
      BY <3>1, Derived
    <3>4. Told(c)
      BY <3>2, <3>3, PassedPrior, PassedTellers
    <3>5. QED
      BY <2>1, <3>1, <3>2, <3>4, ClosureStep
  <2>3. ASSUME NEW x \in Calls, Closure!VerifyUnclosed(x.closure, x.handoff, x.now)
        PROVE  ClosureInv' /\ ChainsInv'
    BY <2>1, <2>3 DEF Closure!VerifyUnclosed
  <2>4. QED
    BY <2>1, <2>2, <2>3 DEF RecordNext, RecordReceipt, RecordClosure, closureVars, Closure!Next
<1>3. QED
  BY <1>1, <1>2, PTL DEF RecordSpec

(* The closures of every attempt form one chain without gaps or forks,     *)
(* whatever is presented in whatever order: append_once takes a closure    *)
(* only after the latest of its chain and under a number that is free, and *)
(* what it holds as the latest was recorded.                               *)
THEOREM ChainsAreLinked == RecordSpec => []ChainIsLinked
<1>1. ChainsInv => ChainIsLinked
  BY DEF ChainsInv, ChainIsLinked, Closure!ChainIsLinked, Linked, Differ
<1>2. QED
  BY <1>1, ClosureInvariant, PTL

(* No idempotency key and round, and no closure id, has two outcomes, of   *)
(* whatever executions.                                                    *)
THEOREM KeysHaveOneOutcome == RecordSpec => []OneOutcomePerKey
<1>1. ChainsInv => OneOutcomePerKey
  BY DEF ChainsInv, OneOutcomePerKey, Closure!OneOutcomePerKey, Differ
<1>2. QED
  BY <1>1, ClosureInvariant, PTL

(* For every trust policy, whatever keys its roots share: a recorded       *)
(* outcome is told by as many people as the policy asks for, and none of   *)
(* them, by name or by a key that counts, had a part in the action or in   *)
(* its evidence.                                                           *)
THEOREM OutcomesAreToldByOutsiders == RecordSpec => []ToldByOutsiders
<1>1. ClosureInv => ToldByOutsiders
  <2> SUFFICES ASSUME ClosureInv PROVE ToldByOutsiders
    OBVIOUS
  <2>1. \A i \in DOMAIN closureLog : Told(closureLog[i].closure)
    BY DEF ClosureInv
  <2>2. QED
    BY <2>1, SameSize DEF ToldByOutsiders, Closure!ToldByOutsiders, Told, Telling,
           Closure!Principals, Closure!Keys, Principals, Keys, Closure!ToSet, ToSet
<1>2. QED
  BY <1>1, ClosureInvariant, PTL

-----------------------------------------------------------------------------
(* The caller gets the verdict that was derived, or one that says why not. *)
LEMMA Answered ==
    ASSUME NEW c, NEW verdict \in {"PASS", "FAIL"}
    PROVE  LET a == Closure!Answer(verdict, Closure!AppendStatus(c))
           IN  /\ a.status \in {"PASS", "FAIL"} => a.status = verdict
               /\ a.status = "UNKNOWN" => a.reason \notin Closure!SilentReasons \cup Closure!FAIL_REASONS
<1> DEFINE s == Closure!AppendStatus(c)
           a == Closure!Answer(verdict, s)
<1>1. Closure!Follows(c) \in {"FOLLOWS", "PREVIOUS_DIGEST_CONFLICT", "ATTEMPT_SEQUENCE_CONFLICT"}
  BY DEF Closure!Follows
<1>2. s \in {"ALREADY_PRESENT", "CLOSURE_ID_CONFLICT", "ATTEMPT_SEQUENCE_CONFLICT",
             "IDEMPOTENCY_CONFLICT", "PREVIOUS_DIGEST_CONFLICT", "UNAVAILABLE", "APPENDED"}
  BY <1>1 DEF Closure!AppendStatus
<1> HIDE DEF s
<1>3. CASE s \in {"APPENDED", "ALREADY_PRESENT"}
  <2>1. \E reason : a = Closure!Result(verdict, reason)
    BY <1>3 DEF Closure!Answer
  <2>2. a.status \in {verdict, "RAISED"}
    BY <2>1, Results
  <2>3. QED
    BY <2>2 DEF s
<1>4. CASE s \notin {"APPENDED", "ALREADY_PRESENT"}
  <2>1. \E reason \in {"CLOSURE_ID_CONFLICT", "ATTEMPT_SEQUENCE_CONFLICT", "IDEMPOTENCY_CONFLICT",
                       "PREVIOUS_DIGEST_CONFLICT", "OUTCOME_INDEX_UNAVAILABLE"} :
            a = Closure!Unknown(reason)
    BY <1>2, <1>4 DEF Closure!Answer
  <2>2. a.status \in {"UNKNOWN", "RAISED"}
    BY <2>1, Results
  <2>3. a.reason \in {"CLOSURE_ID_CONFLICT", "ATTEMPT_SEQUENCE_CONFLICT", "IDEMPOTENCY_CONFLICT",
                      "PREVIOUS_DIGEST_CONFLICT", "OUTCOME_INDEX_UNAVAILABLE"}
    BY <2>1, Results
  <2>4. a.reason \notin Closure!SilentReasons \cup Closure!FAIL_REASONS
    BY <2>3 DEF Closure!SilentReasons, Closure!FAIL_REASONS
  <2>5. QED
    BY <2>2, <2>4 DEF s
<1>5. QED
  BY <1>3, <1>4

(* What the last call returned, of the closure it was about.               *)
LastInv ==
    /\ last.status \in {"PASS", "FAIL"} => Happened(last.closure, last.status)
    /\ last.status = "UNKNOWN" /\ last.reason \in Closure!SilentReasons \cup Closure!FAIL_REASONS
       => last.closure.succeeded = 0

LEMMA LastInvariant == RecordSpec => []LastInv
<1>1. RecordInit => LastInv
  BY DEF RecordInit, Closure!Init, Closure!NoClosure, LastInv
<1>2. LastInv /\ [RecordNext]_<<receiptVars, closureVars>> => LastInv'
  <2> SUFFICES ASSUME LastInv, [RecordNext]_<<receiptVars, closureVars>> PROVE LastInv'
    OBVIOUS
  <2>1. ASSUME NEW x \in Calls, Closure!VerifyUnclosed(x.closure, x.handoff, x.now)
        PROVE  LastInv'
    <3> DEFINE d == Closure!Derive(x.closure, x.handoff, x.now)
    <3>1. /\ d.status \notin {"PASS", "FAIL"}
          /\ last'.closure = x.closure /\ last'.status = d.status /\ last'.reason = d.reason
      BY <2>1 DEF Closure!VerifyUnclosed, Closure!Returns
    <3>2. d.status = "UNKNOWN" /\ d.reason \in Closure!SilentReasons \cup Closure!FAIL_REASONS
          => x.closure.succeeded = 0
      BY Derived
    <3>3. QED
      BY <3>1, <3>2 DEF LastInv, Closure!SilentReasons, Closure!FAIL_REASONS
  <2>2. ASSUME NEW x \in Calls, Closure!VerifyClosed(x.closure, x.handoff, x.now)
        PROVE  LastInv'
    <3> DEFINE c == x.closure
               d == Closure!Derive(c, x.handoff, x.now)
               a == Closure!Answer(d.status, Closure!AppendStatus(c))
    <3>1. /\ d.status \in {"PASS", "FAIL"}
          /\ last'.closure = c /\ last'.status = a.status /\ last'.reason = a.reason
      BY <2>2 DEF Closure!VerifyClosed, Closure!Returns
    <3>2. Happened(c, d.status)
      BY <3>1, DerivedHappened
    <3>3. /\ a.status \in {"PASS", "FAIL"} => a.status = d.status
          /\ a.status = "UNKNOWN" => a.reason \notin Closure!SilentReasons \cup Closure!FAIL_REASONS
      BY <3>1, Answered
    <3>4. QED
      BY <3>1, <3>2, <3>3 DEF LastInv, Closure!SilentReasons, Closure!FAIL_REASONS
  <2>3. CASE UNCHANGED last
    BY <2>3 DEF LastInv, Closure!SilentReasons, Closure!FAIL_REASONS
  <2>4. QED
    BY <2>1, <2>2, <2>3 DEF RecordNext, RecordReceipt, RecordClosure, closureVars, Closure!Next
<1>3. QED
  BY <1>1, <1>2, PTL DEF RecordSpec

(* verify_outcome_closure answers PASS only for effects that were all      *)
(* committed and FAIL only for effects that were all refused, for all      *)
(* counts a closure may state, and both only for an authorised, executed   *)
(* and bound action in time.                                               *)
THEOREM VerdictsSayWhatHappened == RecordSpec => []VerdictSaysWhatHappened
<1>1. LastInv => VerdictSaysWhatHappened
  BY DEF LastInv, VerdictSaysWhatHappened, Closure!VerdictSaysWhatHappened, Happened
<1>2. QED
  BY <1>1, LastInvariant, PTL

(* For all counts a closure may state, a FAIL or an UNKNOWN that is about  *)
(* the effects, their authority, binding or time means that none of them   *)
(* happened.                                                               *)
THEOREM SuccessesAreNeverPassedOver == RecordSpec => []SuccessNeverPassedOver
<1>1. LastInv => SuccessNeverPassedOver
  <2> SUFFICES ASSUME LastInv, last.status \in {"FAIL", "UNKNOWN"},
                      last.reason \in Closure!SilentReasons \cup Closure!FAIL_REASONS
               PROVE  last.closure.succeeded = 0
    BY DEF SuccessNeverPassedOver, Closure!SuccessNeverPassedOver
  <2>1. CASE last.status = "FAIL"
    BY <2>1 DEF LastInv, Happened
  <2>2. CASE last.status = "UNKNOWN"
    BY <2>2 DEF LastInv
  <2>3. QED
    BY <2>1, <2>2
<1>2. QED
  BY <1>1, LastInvariant, PTL
=============================================================================
