----------------------------- MODULE AttemptRecord -----------------------------
(***************************************************************************)
(* What is written down about attempts to execute certified actions:       *)
(* receipts of the attempts, then closures of their outcomes, by the two   *)
(* verifiers of one operator under one trust policy.  They share the roots *)
(* and nothing else: the closure verifier is handed the stored result of   *)
(* the receipt's verification and never looks into the receipt index, so   *)
(* the steps of one do not depend on the state of the other.  Closures are *)
(* presented from the moment one particular log of receipts is complete.   *)
(***************************************************************************)
EXTENDS TrustRoots

CONSTANTS
    Receipts, Horizon,                  \* as in ExecutionReceipt
    OtherReceipts,                      \* Strangers of ExecutionReceipt
    Calls, NoDigest,                    \* as in OutcomeClosure
    ReceiptCapacity, ClosureCapacity,   \* capacities of the two indexes
    Handover                            \* the log: payload and time of each receipt

(* Of the fields of the wire models: times and counts are numbers, and a   *)
(* handoff that contradicts itself does so about one of the two results.   *)
FieldsTyped ==
    /\ \A r \in Receipts : {r.started, r.cert.reservedAt} \subseteq Nat
    /\ \A x \in Calls :
           LET c == x.closure
           IN  /\ {c.expected, c.succeeded, c.failed, c.unresolved, c.sequence} \subseteq Nat
               /\ c.evidence \in {"complete", "missing", "substituted"}
               /\ x.handoff.contradicts \in
                      {"nothing", "ACTION_CERTIFICATE_HANDOFF_UNTRUSTED",
                       "EXECUTION_RECEIPT_HANDOFF_UNTRUSTED"}

ASSUME RecordAssumption ==
    /\ ReceiptCapacity \in Nat \ {0} /\ ClosureCapacity \in Nat \ {0} /\ Horizon \in Nat
    /\ FieldsTyped

VARIABLES
    receipts, attempts, intents, receiptLog,
    closures, executions, latest, idempotency, closureLog, last

receiptVars == <<receipts, attempts, intents, receiptLog>>
closureVars == <<closures, executions, latest, idempotency, closureLog, last>>

Receipt == INSTANCE ExecutionReceipt WITH Strangers <- OtherReceipts,
               Capacity <- ReceiptCapacity, recorded <- receiptLog
Closure == INSTANCE OutcomeClosure WITH Capacity <- ClosureCapacity, recorded <- closureLog

RecordInit == Receipt!Init /\ Closure!Init

RecordReceipt ==
    /\ last = Closure!NoClosure
    /\ Receipt!Next
    /\ UNCHANGED closureVars

RecordClosure ==
    /\ [i \in DOMAIN receiptLog |->
           <<receiptLog[i].receipt.payload, receiptLog[i].now>>] = Handover
    /\ Closure!Next
    /\ UNCHANGED receiptVars

RecordNext == RecordReceipt \/ RecordClosure

RecordSpec == RecordInit /\ [][RecordNext]_<<receiptVars, closureVars>>

-----------------------------------------------------------------------------
(* The properties of the two verifiers, stated where they are modelled.    *)

(* A receipt id, an attempt and an idempotency key each have one account.  *)
OneAccountPerAttempt == Receipt!OneAccountPerAttempt

(* What was executed had been reserved, and was over before the authority. *)
ExecutedUnderReservation == Receipt!ExecutedUnderReservation

(* Nobody attests to his own work.                                         *)
ObservedIndependently == Receipt!ObservedIndependently

(* The closures of an attempt form one chain without gaps or forks.        *)
ChainIsLinked == Closure!ChainIsLinked

(* No idempotency key and round has two outcomes.                          *)
OneOutcomePerKey == Closure!OneOutcomePerKey

(* PASS and FAIL follow the effects, not the producer's claim.             *)
VerdictSaysWhatHappened == Closure!VerdictSaysWhatHappened

(* An effect that happened is never passed over in silence.                *)
SuccessNeverPassedOver == Closure!SuccessNeverPassedOver

(* Outcomes are told by people who have no part in the action.             *)
ToldByOutsiders == Closure!ToldByOutsiders

(* Every closure is answered with one of the four verdicts.                *)
AlwaysAVerdict == Closure!AlwaysAVerdict
=============================================================================
