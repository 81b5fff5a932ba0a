------------------------- MODULE MCCaseStateMachine -------------------------
(* The contexts a guard can tell apart: one readiness flag missing, or all *)
(* of them set with every combination of blocking issue, audit verdict,    *)
(* decision, validity and role.                                            *)
EXTENDS CaseStateMachine, TLC

ReadinessFlags ==
    {"manifest_valid", "input_hashes_match", "evidence_complete", "rules_valid",
     "calculation_complete", "proposal_complete", "package_valid", "close_confirmed"}

ContextWith(missing, blocking, audit, decision, valid, role) ==
    [f \in ReadinessFlags |-> f # missing]
    @@ [has_blocking_issue |-> blocking, audit_verdict |-> audit,
        approval_decision |-> decision, approval_valid |-> valid, actor_role |-> role]

SomeContexts ==
    {ContextWith(m, b, "PASS", None, TRUE, None) : m \in ReadinessFlags, b \in BOOLEAN}
    \cup
    {ContextWith(None, b, a, d, v, r) :
        b \in BOOLEAN, a \in {None, "PASS", "BLOCK"},
        d \in {None, "APPROVE", "REJECT", "REVISE"},
        v \in BOOLEAN, r \in {None, "required", "other"}}

(* TLC evaluates a definition once, but what replaces a constant each time *)
(* it is used: the constants are replaced by names of definitions.         *)
MCContexts == SomeContexts
=============================================================================
