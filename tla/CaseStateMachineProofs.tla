------------------------ MODULE CaseStateMachineProofs ------------------------
(***************************************************************************)
(* Proofs about the case state machine for every set of contexts and every *)
(* bound on the number of transitions.                                     *)
(***************************************************************************)
EXTENDS CaseStateMachine, TLAPS

(* The gate history agrees with the state: a case is at the gate only with *)
(* a passed audit, is past it only with a sign-off, and has none before    *)
(* it.  The last part is what makes a revision start from scratch.         *)
GateInv ==
    /\ case.state = "AWAITING_APPROVAL" => gate.audit = "PASS"
    /\ case.state \in {"APPROVED", "PACKAGED"} => SignedOff
    /\ PhaseOf(case.state) \in {"drafting", "gated"} => gate.decision = None

(* The state machine never leaves its types: the case stays in the table's *)
(* states, its version within the bound and the gate history within the    *)
(* values a context can carry.                                             *)
THEOREM TypeCorrect == Spec => []TypeOK
<1> USE CaseAssumption
<1>1. Init => TypeOK
  BY DEF Init, TypeOK, CaseStates, Versions, NoGate, None, ActorKinds
<1>2. TypeOK /\ [Next]_vars => TypeOK'
  <2> SUFFICES ASSUME TypeOK, [Next]_vars PROVE TypeOK'
    OBVIOUS
  <2>1. ASSUME NEW expected \in Versions, NEW sequence \in 0..1,
               NEW target \in CaseStates, NEW kind \in ActorKinds, NEW ctx \in Contexts,
               transition_case(expected, sequence, target, kind, ctx)
        PROVE  TypeOK'
    <3>1. ctx \in TransitionContext
      BY CaseAssumption
    <3>2. case' \in [state : CaseStates, state_version : Versions]
      BY <2>1 DEF transition_case, TypeOK, Versions
    <3>3. gate' \in [audit : {None, "PASS", "REVISE", "BLOCK"},
                     decision : {None, "APPROVE", "REJECT", "REVISE"},
                     kind : ActorKinds \cup {None},
                     role : {None, "required", "other"},
                     valid : BOOLEAN]
      <4>1. /\ ctx.audit_verdict \in {None, "PASS", "REVISE", "BLOCK"}
            /\ ctx.approval_decision \in {None, "APPROVE", "REJECT", "REVISE"}
            /\ ctx.approval_valid \in BOOLEAN
            /\ ctx.actor_role \in {None, "required", "other"}
        BY <3>1 DEF TransitionContext
      <4>2. gate' = GateAfter(target, kind, ctx)
        BY <2>1 DEF transition_case
      <4>3. QED
        BY <4>1, <4>2 DEF TypeOK, GateAfter, NoGate
    <3>4. QED
      BY <3>2, <3>3 DEF TypeOK
  <2>2. CASE UNCHANGED vars
    BY <2>2 DEF vars, TypeOK
  <2>3. QED
    BY <2>1, <2>2 DEF Next
<1>3. QED
  BY <1>1, <1>2, PTL DEF Spec

(* The gate history is right in every reachable state.                     *)
LEMMA GateInvariant == Spec => []GateInv
<1>1. Init => GateInv
  BY DEF Init, GateInv, NoGate, PhaseOf, None
<1>2. TypeOK /\ GateInv /\ [Next]_vars => GateInv'
  <2> SUFFICES ASSUME TypeOK, GateInv, [Next]_vars PROVE GateInv'
    OBVIOUS
  <2>1. ASSUME NEW expected \in Versions, NEW sequence \in 0..1,
               NEW target \in CaseStates, NEW kind \in ActorKinds, NEW ctx \in Contexts,
               transition_case(expected, sequence, target, kind, ctx)
        PROVE  GateInv'
    <3>1. /\ <<case.state, target>> \in ALLOWED_TRANSITIONS
          /\ ValidateGuard(case.state, target, kind, ctx)
          /\ case'.state = target
          /\ gate' = GateAfter(target, kind, ctx)
      BY <2>1 DEF transition_case, TransitionAllowed
    <3>2. case.state \in CaseStates
      BY DEF TypeOK
    <3>3. CASE target = "AWAITING_APPROVAL"
      BY <3>1, <3>3 DEF GateAfter, ValidateGuard, GateInv, SignedOff, NoGate, PhaseOf, None
    <3>4. CASE target \in {"INGESTING", "REVISION_REQUIRED"}
      BY <3>1, <3>4 DEF GateAfter, GateInv, SignedOff, NoGate, PhaseOf, None
    <3>5. CASE target = "APPROVED"
      <4>1. case.state = "AWAITING_APPROVAL"
        BY <3>1, <3>2, <3>5 DEF ALLOWED_TRANSITIONS, CaseStates
      <4>2. gate' = [gate EXCEPT !.decision = ctx.approval_decision, !.kind = kind,
                                 !.role = ctx.actor_role, !.valid = ctx.approval_valid]
        BY <3>1, <3>5, <4>1 DEF GateAfter
      <4>3. QED
        BY <3>1, <3>5, <4>1, <4>2
           DEF ValidateGuard, ApprovalGuard, GateInv, SignedOff, PhaseOf, TypeOK
    <3>6. CASE target \in {"REJECTED", "CLOSED"}
      BY <3>1, <3>6 DEF GateInv, PhaseOf
    <3>7. CASE target = "PACKAGED"
      <4>1. case.state = "APPROVED"
        BY <3>1, <3>2, <3>7 DEF ALLOWED_TRANSITIONS, CaseStates
      <4>2. QED
        BY <3>1, <3>7, <4>1 DEF GateAfter, GateInv, SignedOff, PhaseOf
    <3>8. CASE target \notin {"AWAITING_APPROVAL", "INGESTING", "REVISION_REQUIRED",
                              "APPROVED", "REJECTED", "CLOSED", "PACKAGED"}
      <4>1. PhaseOf(case.state) = "drafting" /\ case.state # "AWAITING_APPROVAL"
        BY <3>1, <3>2, <3>8 DEF ALLOWED_TRANSITIONS, CaseStates, PhaseOf
      <4>2. QED
        BY <3>1, <3>8, <4>1 DEF GateAfter, GateInv, SignedOff, PhaseOf
    <3>9. QED
      BY <3>3, <3>4, <3>5, <3>6, <3>7, <3>8
  <2>2. CASE UNCHANGED vars
    BY <2>2 DEF vars, GateInv, SignedOff
  <2>3. QED
    BY <2>1, <2>2 DEF Next
<1>3. QED
  BY <1>1, <1>2, TypeCorrect, PTL DEF Spec

(* No case is APPROVED or PACKAGED without a passed audit and a valid      *)
(* approval by a human of the required role in its current revision.       *)
THEOREM DeliveryNeedsSignOff == Spec => []NoDeliveryWithoutSignOff
<1>1. GateInv => NoDeliveryWithoutSignOff
  BY DEF GateInv, NoDeliveryWithoutSignOff
<1>2. QED
  BY <1>1, GateInvariant, PTL

(* Refinement: every behaviour of the case state machine is a behaviour of *)
(* the abstract Human Gate.                                                *)
THEOREM Refinement == Spec => ImplementsHumanGate
<1>1. Init => Gate!GateInit
  BY DEF Init, Gate!GateInit, PhaseOf, SignedOff, NoGate, None
<1>2. TypeOK /\ GateInv /\ GateInv' /\ [Next]_vars => [Gate!GateNext]_(Gate!gateVars)
  <2> SUFFICES ASSUME TypeOK, GateInv, GateInv', [Next]_vars
               PROVE  [Gate!GateNext]_(Gate!gateVars)
    OBVIOUS
  <2>1. ASSUME NEW expected \in Versions, NEW sequence \in 0..1,
               NEW target \in CaseStates, NEW kind \in ActorKinds, NEW ctx \in Contexts,
               transition_case(expected, sequence, target, kind, ctx)
        PROVE  [Gate!GateNext]_(Gate!gateVars)
    <3>1. /\ <<case.state, target>> \in ALLOWED_TRANSITIONS
          /\ case'.state = target
          /\ gate' = GateAfter(target, kind, ctx)
          /\ case.state \in CaseStates
      BY <2>1 DEF transition_case, TransitionAllowed, TypeOK
    <3>2. SignedOff = TRUE \/ SignedOff = FALSE
      BY DEF SignedOff, TypeOK
    <3>3. CASE PhaseOf(case.state) = "drafting"
      <4>1. ~SignedOff
        BY <3>3 DEF GateInv, SignedOff, None
      <4>2. PhaseOf(target) \in {"drafting", "gated", "ended"}
        BY <3>1, <3>3 DEF ALLOWED_TRANSITIONS, CaseStates, PhaseOf
      <4>3. gate'.decision = None
        BY <3>1, <3>3 DEF GateAfter, GateInv, PhaseOf, NoGate, None, TypeOK
      <4>4. QED
        BY <3>1, <3>3, <4>1, <4>2, <4>3
           DEF Gate!GateNext, Gate!Submit, Gate!End, Gate!gateVars, SignedOff, None
    <3>4. CASE case.state = "AWAITING_APPROVAL"
      <4>1. target \in {"APPROVED", "REJECTED", "REVISION_REQUIRED"}
        BY <3>1, <3>4 DEF ALLOWED_TRANSITIONS, CaseStates
      <4>2. ~SignedOff
        BY <3>4 DEF GateInv, SignedOff, PhaseOf, None
      <4>3. CASE target = "APPROVED"
        <5>1. SignedOff'
          BY <3>1, <4>3 DEF GateInv
        <5>2. QED
          BY <3>1, <3>4, <4>3, <5>1 DEF Gate!GateNext, Gate!Authorise, PhaseOf
      <4>4. CASE target = "REVISION_REQUIRED"
        <5>1. ~SignedOff'
          BY <3>1, <4>4 DEF GateInv, SignedOff, PhaseOf, None
        <5>2. QED
          BY <3>1, <3>4, <4>4, <5>1 DEF Gate!GateNext, Gate!SendBack, PhaseOf
      <4>5. CASE target = "REJECTED"
        <5>1. gate'.decision = ctx.approval_decision
          BY <3>1, <3>4, <4>5 DEF GateAfter, TypeOK
        <5>2. ctx.approval_decision = "REJECT"
          BY <2>1, <3>4, <4>5
             DEF transition_case, TransitionAllowed, ValidateGuard, ApprovalGuard
        <5>3. gate.decision = None
          BY <3>4 DEF GateInv, PhaseOf
        <5>4. UNCHANGED SignedOff
          BY <5>1, <5>2, <5>3 DEF SignedOff, None
        <5>5. QED
          BY <3>1, <3>4, <4>5, <5>4 DEF Gate!GateNext, Gate!End, PhaseOf
      <4>6. QED
        BY <4>1, <4>3, <4>4, <4>5
    <3>5. CASE case.state = "APPROVED"
      <4>1. target \in {"PACKAGED", "REVISION_REQUIRED"}
        BY <3>1, <3>5 DEF ALLOWED_TRANSITIONS, CaseStates
      <4>2. SignedOff
        BY <3>5 DEF GateInv
      <4>3. CASE target = "PACKAGED"
        <5>1. SignedOff'
          BY <3>1, <4>3 DEF GateInv
        <5>2. QED
          BY <3>1, <3>5, <4>2, <4>3, <5>1 DEF Gate!GateNext, Gate!Deliver, PhaseOf
      <4>4. CASE target = "REVISION_REQUIRED"
        <5>1. ~SignedOff'
          BY <3>1, <4>4 DEF GateInv, SignedOff, PhaseOf, None
        <5>2. QED
          BY <3>1, <3>5, <4>4, <5>1 DEF Gate!GateNext, Gate!SendBack, PhaseOf
      <4>5. QED
        BY <4>1, <4>3, <4>4
    <3>6. CASE case.state = "PACKAGED"
      <4>1. target \in {"CLOSED", "REVISION_REQUIRED"}
        BY <3>1, <3>6 DEF ALLOWED_TRANSITIONS, CaseStates
      <4>2. CASE target = "CLOSED"
        <5>1. gate' = gate
          BY <3>1, <3>6, <4>2 DEF GateAfter
        <5>2. QED
          BY <3>1, <3>6, <4>2, <5>1 DEF Gate!GateNext, Gate!End, PhaseOf, SignedOff
      <4>3. CASE target = "REVISION_REQUIRED"
        <5>1. ~SignedOff'
          BY <3>1, <4>3 DEF GateInv, SignedOff, PhaseOf, None
        <5>2. QED
          BY <3>1, <3>6, <4>3, <5>1 DEF Gate!GateNext, Gate!SendBack, PhaseOf
      <4>4. QED
        BY <4>1, <4>2, <4>3
    <3>7. CASE case.state \in {"REJECTED", "CLOSED"}
      <4>1. case.state = "REJECTED" /\ target = "CLOSED"
        BY <3>1, <3>7 DEF ALLOWED_TRANSITIONS, CaseStates
      <4>2. gate' = gate
        BY <3>1, <4>1 DEF GateAfter
      <4>3. QED
        BY <3>1, <4>1, <4>2 DEF Gate!gateVars, PhaseOf, SignedOff
    <3>8. QED
      BY <3>1, <3>3, <3>4, <3>5, <3>6, <3>7 DEF PhaseOf, CaseStates
  <2>2. CASE UNCHANGED vars
    BY <2>2 DEF vars, Gate!gateVars, SignedOff
  <2>3. QED
    BY <2>1, <2>2 DEF Next
<1>3. QED
  BY <1>1, <1>2, TypeCorrect, GateInvariant, PTL DEF Spec, ImplementsHumanGate, Gate!GateSpec
=============================================================================
