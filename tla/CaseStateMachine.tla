--------------------------- MODULE CaseStateMachine ---------------------------
(***************************************************************************)
(* The case state machine of src/proofflow/state_machine.py: the table of  *)
(* legal edges, the guard of every edge, and transition_case.              *)
(*                                                                         *)
(* transition_case is a function: it makes a new record of the one it is   *)
(* given and keeps nothing.  A behaviour is a chain of records, each made  *)
(* of the one before.  Whether a record was still the latest is for its    *)
(* caller to know: ReferenceRun models the caller that stores it.          *)
(***************************************************************************)
EXTENDS Naturals

CONSTANTS
    Contexts,     \* the TransitionContexts a caller may pass
    MaxVersion    \* bound on the number of transitions explored

CaseStates ==
    {"RECEIVED", "INGESTING", "NEEDS_EVIDENCE", "FACTS_READY", "RULES_READY",
     "CALC_READY", "PROPOSAL_READY", "AUDIT_BLOCKED", "AWAITING_APPROVAL",
     "APPROVED", "REJECTED", "REVISION_REQUIRED", "PACKAGED", "CLOSED"}

ActorKinds == {"AGENT", "HUMAN", "SYSTEM"}
None == "NONE"

(* Evidence the caller claims for the transition.  Roles are abstracted to *)
(* whether a role is given at all and whether it is the required one.      *)
TransitionContext ==
    [manifest_valid : BOOLEAN, input_hashes_match : BOOLEAN,
     evidence_complete : BOOLEAN, has_blocking_issue : BOOLEAN,
     rules_valid : BOOLEAN, calculation_complete : BOOLEAN,
     proposal_complete : BOOLEAN, package_valid : BOOLEAN,
     close_confirmed : BOOLEAN,
     audit_verdict : {None, "PASS", "REVISE", "BLOCK"},
     approval_decision : {None, "APPROVE", "REJECT", "REVISE"},
     approval_valid : BOOLEAN,
     actor_role : {None, "required", "other"}]

ASSUME CaseAssumption ==
    /\ Contexts \subseteq TransitionContext
    /\ MaxVersion \in Nat \ {0}

VARIABLES
    case,     \* the CaseRecord: state and state_version
    gate      \* history: what opened and what decided the gate this revision

vars == <<case, gate>>

Versions == 0..MaxVersion

NoGate == [audit |-> None, decision |-> None, kind |-> None,
           role |-> None, valid |-> FALSE]

-----------------------------------------------------------------------------
(* Variants named Bad... are deliberate faults: TLC must reject a model in *)
(* which one of them replaces the definition it is a fault of.             *)

(* The table with an edge that closes an approved case undelivered.        *)
BadClosableTable ==
    ({"RECEIVED"} \X {"INGESTING"})
    \cup ({"INGESTING"} \X {"FACTS_READY"})
    \cup ({"FACTS_READY"} \X {"RULES_READY"})
    \cup ({"RULES_READY"} \X {"CALC_READY"})
    \cup ({"CALC_READY"} \X {"PROPOSAL_READY"})
    \cup ({"PROPOSAL_READY"} \X {"AWAITING_APPROVAL"})
    \cup ({"AWAITING_APPROVAL"} \X {"APPROVED", "REJECTED"})
    \cup ({"APPROVED"} \X {"PACKAGED", "CLOSED"})

(* The edges of the case graph; CLOSED has none.                           *)
ALLOWED_TRANSITIONS ==
    ({"RECEIVED"} \X {"INGESTING"})
    \cup ({"INGESTING"} \X {"NEEDS_EVIDENCE", "FACTS_READY"})
    \cup ({"NEEDS_EVIDENCE"} \X {"INGESTING", "REJECTED"})
    \cup ({"FACTS_READY"} \X {"RULES_READY", "NEEDS_EVIDENCE"})
    \cup ({"RULES_READY"} \X {"CALC_READY", "NEEDS_EVIDENCE"})
    \cup ({"CALC_READY"} \X {"PROPOSAL_READY", "NEEDS_EVIDENCE"})
    \cup ({"PROPOSAL_READY"} \X {"AUDIT_BLOCKED", "AWAITING_APPROVAL"})
    \cup ({"AUDIT_BLOCKED"} \X {"REVISION_REQUIRED"})
    \cup ({"AWAITING_APPROVAL"} \X {"APPROVED", "REJECTED", "REVISION_REQUIRED"})
    \cup ({"APPROVED"} \X {"PACKAGED", "REVISION_REQUIRED"})
    \cup ({"REJECTED"} \X {"CLOSED"})
    \cup ({"REVISION_REQUIRED"} \X {"INGESTING", "CLOSED"})
    \cup ({"PACKAGED"} \X {"CLOSED", "REVISION_REQUIRED"})

(* Any actor of the required role decides, human or not.                   *)
BadAgentApprovalGuard(target, kind, ctx) ==
    /\ ctx.actor_role = "required"
    /\ target = "APPROVED" => ctx.approval_decision = "APPROVE" /\ ctx.approval_valid
    /\ target = "REJECTED" => ctx.approval_decision = "REJECT"

(* The branch of the guard taken while the case awaits approval: a human   *)
(* with the required role, and a decision that agrees with the target.     *)
ApprovalGuard(target, kind, ctx) ==
    /\ kind = "HUMAN"
    /\ ctx.actor_role = "required"
    /\ target = "APPROVED" => ctx.approval_decision = "APPROVE" /\ ctx.approval_valid
    /\ target = "REJECTED" => ctx.approval_decision = "REJECT"
    /\ target = "REVISION_REQUIRED" =>
          ctx.approval_decision = "REVISE" \/ ~ctx.approval_valid

(* The guards of the edges.  The code tests them in one if/elif chain; on  *)
(* the edges of the table at most one of its branches applies.  An edge no *)
(* branch names (a return to INGESTING, the withdrawal of an approved      *)
(* case, a rejection for want of evidence) is unguarded, as in the code.   *)
ValidateGuard(current, target, kind, ctx) ==
    /\ target = "INGESTING" /\ current = "RECEIVED" =>
          ctx.manifest_valid /\ ctx.input_hashes_match
    /\ target = "FACTS_READY" => ctx.evidence_complete /\ ~ctx.has_blocking_issue
    /\ target = "NEEDS_EVIDENCE" => ctx.has_blocking_issue
    /\ target = "RULES_READY" => ctx.rules_valid /\ ~ctx.has_blocking_issue
    /\ target = "CALC_READY" => ctx.calculation_complete /\ ~ctx.has_blocking_issue
    /\ target = "PROPOSAL_READY" => ctx.proposal_complete
    /\ target = "AUDIT_BLOCKED" => ctx.audit_verdict \in {"BLOCK", "REVISE"}
    /\ target = "AWAITING_APPROVAL" => ctx.audit_verdict = "PASS" /\ ~ctx.has_blocking_issue
    /\ current = "AWAITING_APPROVAL" => ApprovalGuard(target, kind, ctx)
    /\ target = "PACKAGED" =>
          ctx.approval_valid /\ ctx.audit_verdict = "PASS" /\ ctx.package_valid
    /\ target = "CLOSED" => ctx.close_confirmed

(* transition_case refuses a sequence that is not positive, a version that *)
(* is not the record's, an edge outside the table and a failed guard, in   *)
(* that order.                                                             *)
TransitionAllowed(expected, sequence, target, kind, ctx) ==
    /\ sequence >= 1
    /\ expected = case.state_version
    /\ <<case.state, target>> \in ALLOWED_TRANSITIONS
    /\ ValidateGuard(case.state, target, kind, ctx)

(* What the history records of a transition: opening the gate records the *)
(* audit, authorising or rejecting records the decision, and a revision    *)
(* forgets the gate it leaves behind.                                      *)
GateAfter(target, kind, ctx) ==
    IF target = "AWAITING_APPROVAL"
      THEN [NoGate EXCEPT !.audit = ctx.audit_verdict]
    ELSE IF target \in {"INGESTING", "REVISION_REQUIRED"}
      THEN NoGate
    ELSE IF case.state = "AWAITING_APPROVAL"
      THEN [gate EXCEPT !.decision = ctx.approval_decision, !.kind = kind,
                        !.role = ctx.actor_role, !.valid = ctx.approval_valid]
    ELSE gate

-----------------------------------------------------------------------------
Init ==
    /\ case = [state |-> "RECEIVED", state_version |-> 0]
    /\ gate = NoGate

(* transition_case returns the next record; a refusal raises and returns   *)
(* none.                                                                   *)
transition_case(expected, sequence, target, kind, ctx) ==
    /\ case.state_version < MaxVersion
    /\ TransitionAllowed(expected, sequence, target, kind, ctx)
    /\ case' = [state |-> target, state_version |-> case.state_version + 1]
    /\ gate' = GateAfter(target, kind, ctx)

Next ==
    \E expected \in Versions, sequence \in 0..1 :
        \E target \in CaseStates, kind \in ActorKinds, ctx \in Contexts :
            transition_case(expected, sequence, target, kind, ctx)

Spec == Init /\ [][Next]_vars

-----------------------------------------------------------------------------
TypeOK ==
    /\ case \in [state : CaseStates, state_version : Versions]
    /\ gate \in [audit : {None, "PASS", "REVISE", "BLOCK"},
                 decision : {None, "APPROVE", "REJECT", "REVISE"},
                 kind : ActorKinds \cup {None},
                 role : {None, "required", "other"},
                 valid : BOOLEAN]

(* A human with the required role approved the current, audited revision.  *)
SignedOff ==
    /\ gate.audit = "PASS"
    /\ gate.decision = "APPROVE"
    /\ gate.kind = "HUMAN"
    /\ gate.role = "required"
    /\ gate.valid

(* Whatever detours a case made (revisions, reopened evidence, withdrawn   *)
(* packages), it is APPROVED or PACKAGED only if the revision it is in     *)
(* passed the audit and was then approved, with a valid approval, by a     *)
(* human of the required role (_validate_guard, state_machine.py).         *)
NoDeliveryWithoutSignOff ==
    case.state \in {"APPROVED", "PACKAGED"} => SignedOff

(* The phase of the gate a case state belongs to.                          *)
PhaseOf(s) ==
    IF s = "AWAITING_APPROVAL" THEN "gated"
    ELSE IF s = "APPROVED" THEN "authorised"
    ELSE IF s = "PACKAGED" THEN "delivered"
    ELSE IF s \in {"REJECTED", "CLOSED"} THEN "ended"
    ELSE "drafting"

Gate == INSTANCE HumanGate WITH phase <- PhaseOf(case.state), signedOff <- SignedOff

(* The case state machine implements the Human Gate: every transition of   *)
(* the table is a step of the abstract gate or leaves it unchanged.        *)
ImplementsHumanGate == Gate!GateSpec
=============================================================================
