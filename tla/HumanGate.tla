------------------------------ MODULE HumanGate ------------------------------
(***************************************************************************)
(* What ProofFlow promises of its Human Gate, whatever the pipeline around *)
(* it does: nothing is delivered unless the submission that is being       *)
(* delivered passed the audit and was signed off by a human holding the    *)
(* required role, and a submission that goes back to the drafting table    *)
(* loses its sign-off.  CaseStateMachine implements this specification.    *)
(***************************************************************************)

VARIABLES
    phase,      \* where the case stands with respect to the gate
    signedOff   \* the current submission carries a human sign-off

gateVars == <<phase, signedOff>>

Phases == {"drafting", "gated", "authorised", "delivered", "ended"}

GateInit ==
    /\ phase = "drafting"
    /\ signedOff = FALSE

(* An audited proposal is put before the human.  A sign-off of an earlier  *)
(* submission does not carry over.                                         *)
Submit ==
    /\ phase = "drafting"
    /\ phase' = "gated"
    /\ signedOff' = FALSE

(* Only the human decision moves a gated case to authorised.               *)
Authorise ==
    /\ phase = "gated"
    /\ phase' = "authorised"
    /\ signedOff' = TRUE

(* Delivery needs the sign-off of this very submission.                    *)
Deliver ==
    /\ phase = "authorised"
    /\ signedOff
    /\ phase' = "delivered"
    /\ UNCHANGED signedOff

(* Any case that has left drafting and has not ended can be sent back.     *)
SendBack ==
    /\ phase \in {"gated", "authorised", "delivered"}
    /\ phase' = "drafting"
    /\ signedOff' = FALSE

(* A case ends by rejection, by closing a delivered package, or while it   *)
(* is being drafted; an authorised case is delivered or sent back first.   *)
End ==
    /\ phase \in {"drafting", "gated", "delivered"}
    /\ phase' = "ended"
    /\ UNCHANGED signedOff

GateNext == Submit \/ Authorise \/ Deliver \/ SendBack \/ End

GateSpec == GateInit /\ [][GateNext]_gateVars
=============================================================================
