------------------------------ MODULE DemoServer ------------------------------
(***************************************************************************)
(* The local demo: demo/server.py over one reference run.  Handler threads *)
(* check a request, then do its action under the re-entrant                *)
(* execution_lock, with the state they will show taken under the same      *)
(* lock; a reader takes the lock for its snapshot, and so does an error    *)
(* answer that was not given a state.  The run itself is ReferenceRun: its *)
(* callers are the threads, at fixed times, and a call that raises half    *)
(* way is its Crash.  The thread in an approval record stands for the      *)
(* reason the request gave.                                                *)
(***************************************************************************)
EXTENDS ReferenceRun

CONSTANTS
    Requests,   \* what browsers send
    NoOne,      \* no thread
    MaxResets   \* bound on the resets asked for

(* The times the server passes as now.                                     *)
ApproveTime == 1
PackageTime == 2

ASSUME ServerAssumption ==
    /\ NoOne \notin Actors
    /\ PackageTime <= MaxTime
    /\ MaxResets \in Nat

VARIABLES
    lock,     \* the owner of execution_lock
    app,      \* the fields of DemoApplication
    req,      \* per thread: the request it serves
    listening,\* the server accepts connections
    resets,   \* resets asked for
    uncleaned \* history: the workspace in use outlived a failed clean-up

serverVars == <<lock, app, req, listening, resets, uncleaned>>
allVars == <<vars, serverVars>>

Fresh == [open |-> TRUE, gateProbe |-> "NOT_ATTEMPTED", verification |-> "none"]
Free == [phase |-> "free"]

(* The request of an answer that tells nothing of it but a code.           *)
NoRequest == [path |-> "none"]

-----------------------------------------------------------------------------
(* _snapshot_unlocked: what is shown of the run and of the application.    *)
Snapshot ==
    [stage |-> IF state = NoState THEN "NOT_PREPARED" ELSE state.stage,
     approved |-> state # NoState /\ record # NoRecord,
     packaged |-> state # NoState /\ manifest # NoManifest,
     gateProbe |-> app.gateProbe, verification |-> app.verification]

(* The allow-lists of do_GET and do_POST.                                  *)
Routes(verb) ==
    IF verb = "GET" THEN {"asset", "bootstrap"}
    ELSE {"prepare", "approve", "package", "verify", "benchmark", "reset"}

(* do_GET, do_POST, do_HEAD and do_OPTIONS up to the application: the      *)
(* first refusal of a request, or OK.                                      *)
FrontProblem(r) ==
    IF r.verb \notin {"GET", "POST"} THEN "METHOD_NOT_ALLOWED"
    ELSE IF r.host # "own" THEN "HOST_REJECTED"
    ELSE IF r.query THEN "QUERY_NOT_ALLOWED"
    ELSE IF r.path \notin Routes(r.verb) THEN "ROUTE_NOT_FOUND"
    ELSE IF r.verb = "GET" THEN "OK"
    ELSE IF r.origin # "own" THEN "ORIGIN_REJECTED"
    ELSE IF ~r.token THEN "REQUEST_TOKEN_REJECTED"
    ELSE r.body

(* A page asset is answered at once, the console state and an error need a *)
(* snapshot, everything else is an action.                                 *)
FirstPhase(r) ==
    IF FrontProblem(r) # "OK" THEN "problem"
    ELSE IF r.path = "asset" THEN "answered"
    ELSE IF r.path = "bootstrap" THEN "snapshot" ELSE "dispatch"

(* _require_payload, and the reason of an approval.                        *)
PayloadProblem(r) ==
    IF r.path = "approve"
      THEN IF r.fields # {"reason"} THEN "INVALID_APPROVAL_FIELDS"
           ELSE IF ~r.reasonOk THEN "INVALID_REASON" ELSE "OK"
      ELSE IF r.fields # {} THEN "UNEXPECTED_FIELDS" ELSE "OK"

-----------------------------------------------------------------------------
StartUp ==
    /\ Init
    /\ lock = NoOne
    /\ app = Fresh
    /\ req = [t \in Actors |-> Free]
    /\ listening = TRUE
    /\ resets = 0
    /\ uncleaned = FALSE

Phase(t, from, to) ==
    /\ req[t].phase = from
    /\ req' = [req EXCEPT ![t].phase = to]

Coded(t, from, to, code) ==
    /\ req[t].phase = from
    /\ req' = [req EXCEPT ![t].phase = to, ![t].code = code]

InternalError(t, from) ==
    /\ req[t].phase = from
    /\ req' = [req EXCEPT ![t] = [phase |-> "problem", code |-> "INTERNAL_ERROR",
                                  asks |-> NoRequest]]

(* The state of the answer is taken after the lock was given back.         *)
BadFinish(t, from, code) ==
    /\ Coded(t, from, "problem", code)
    /\ lock' = NoOne

(* The action is over, successful or refused; the lock is still held.      *)
Finish(t, from, code) ==
    /\ Coded(t, from, "done", code)
    /\ UNCHANGED lock

(* The exception leaves dispatch with the lock held.                       *)
BadRaise(t, from) ==
    /\ InternalError(t, from)
    /\ UNCHANGED lock

(* An exception dispatch does not know: the lock is given back, and the    *)
(* handler answers with a snapshot of its own.                             *)
Raise(t, from) ==
    /\ InternalError(t, from)
    /\ lock' = NoOne

-----------------------------------------------------------------------------
(* A request is in and passes the checks of the handler, or does not.      *)
Receive(t, r) ==
    /\ listening
    /\ req[t].phase = "free"
    /\ r.path = "reset" => resets < MaxResets
    /\ req' = [req EXCEPT ![t] =
                  [phase |-> FirstPhase(r), code |-> FrontProblem(r),
                   asks |-> IF FirstPhase(r) = "dispatch" THEN r ELSE NoRequest]]
    /\ resets' = IF r.path = "reset" THEN resets + 1 ELSE resets
    /\ UNCHANGED <<vars, lock, app, listening, uncleaned>>

(* Two threads dispatch at the same time.                                  *)
BadDispatch(t) ==
    /\ Phase(t, "dispatch", "serving")
    /\ lock' = t
    /\ UNCHANGED <<vars, app, listening, resets, uncleaned>>

(* dispatch: an action is done by one thread at a time.                    *)
Dispatch(t) ==
    /\ lock = NoOne
    /\ Phase(t, "dispatch", "serving")
    /\ lock' = t
    /\ UNCHANGED <<vars, app, listening, resets, uncleaned>>

Serves(t, action) ==
    /\ req[t].phase = "serving"
    /\ req[t].asks.path = action

Allowed(t, action) ==
    /\ Serves(t, action)
    /\ PayloadProblem(req[t].asks) = "OK"
    /\ app.open

RefusePayload(t) ==
    /\ req[t].phase = "serving"
    /\ PayloadProblem(req[t].asks) # "OK"
    /\ Finish(t, "serving", PayloadProblem(req[t].asks))
    /\ UNCHANGED <<vars, app, listening, resets, uncleaned>>

(* run_dir and workspace_path of a closed application raise.               *)
ServeClosed(t) ==
    /\ req[t].phase = "serving"
    /\ PayloadProblem(req[t].asks) = "OK"
    /\ ~app.open
    /\ Raise(t, "serving")
    /\ UNCHANGED <<vars, app, listening, resets, uncleaned>>

Refuse(t, code) ==
    /\ Finish(t, "serving", code)
    /\ UNCHANGED <<vars, app, listening, resets, uncleaned>>

Call(t) ==
    /\ Phase(t, "serving", "calling")
    /\ UNCHANGED <<lock, app, listening, resets, uncleaned>>

(* The pinned inputs of the repository no longer have their digests.       *)
RefuseInputs(t) ==
    /\ Allowed(t, "prepare") \/ Allowed(t, "benchmark")
    /\ Refuse(t, "PINNED_INPUT_MISMATCH")

ServePrepare(t) ==
    /\ Allowed(t, "prepare")
    /\ \/ runDir /\ Refuse(t, "RUN_ALREADY_PREPARED")
       \/ Prepare(t) /\ Call(t)

(* A run directory without a state, or past its gate, is a                 *)
(* ReferenceRunError of approve_reference_run.                             *)
ServeApprove(t) ==
    /\ Allowed(t, "approve")
    /\ \/ ~runDir /\ Refuse(t, "RUN_NOT_PREPARED")
       \/ /\ runDir /\ state.stage # "AWAITING_APPROVAL"
          /\ Refuse(t, "REFERENCE_RUN_CONFLICT")
       \/ runDir /\ ApproveLoad(t, "required", "APPROVE", ApproveTime) /\ Call(t)

(* A package asked for at the gate is the probe the console shows.         *)
ServePackage(t) ==
    /\ Allowed(t, "package")
    /\ \/ ~runDir /\ Refuse(t, "RUN_NOT_PREPARED")
       \/ /\ runDir /\ state.stage = "AWAITING_APPROVAL"
          /\ Finish(t, "serving", "HUMAN_GATE_REQUIRED")
          /\ app' = [app EXCEPT !.gateProbe = "BLOCKED_AS_EXPECTED"]
          /\ UNCHANGED <<vars, listening, resets, uncleaned>>
       \/ /\ runDir /\ state.stage \notin {"AWAITING_APPROVAL", "APPROVED"}
          /\ Refuse(t, "INVALID_STAGE_FOR_PACKAGE")
       \/ runDir /\ PackageLoad(t, PackageTime) /\ Call(t)

(* A file that verify_reference_run cannot read or parse makes it raise,   *)
(* and the verification shown stays what it was.                           *)
ServeVerify(t) ==
    /\ Allowed(t, "verify")
    /\ \/ ~runDir /\ Refuse(t, "RUN_NOT_PREPARED")
       \/ runDir /\ state.stage # "PACKAGED" /\ Refuse(t, "PACKAGE_NOT_READY")
       \/ /\ runDir /\ state.stage = "PACKAGED"
          /\ app' = [app EXCEPT !.verification = IF Verified THEN "valid" ELSE "errors"]
          /\ Finish(t, "serving", IF Verified THEN "OK" ELSE "VERIFICATION_FAILED")
          /\ UNCHANGED <<vars, listening, resets, uncleaned>>
       \/ /\ runDir /\ state.stage = "PACKAGED" /\ ~Verified
          /\ \/ Refuse(t, "REFERENCE_RUN_CONFLICT")
             \/ /\ Raise(t, "serving")
                /\ UNCHANGED <<vars, app, listening, resets, uncleaned>>

(* _run_benchmark works in a temporary directory of its own; what its      *)
(* report says is left out.                                                *)
ServeBenchmark(t) ==
    /\ Allowed(t, "benchmark")
    /\ Finish(t, "serving", "OK") \/ Raise(t, "serving")
    /\ UNCHANGED <<vars, app, listening, resets, uncleaned>>

-----------------------------------------------------------------------------
(* TemporaryDirectory.cleanup.                                             *)
Cleaned ==
    /\ runDir' = FALSE /\ written' = 0 /\ subject' = Original
    /\ record' = NoRecord /\ trace' = <<>> /\ state' = NoState
    /\ pkgDir' = FALSE /\ draft' = NoRecord /\ bundle' = NoRecord /\ manifest' = NoManifest
    /\ decided' = {}
    /\ UNCHANGED overlapped

(* A clean-up that raises has removed what it came to first.               *)
PartlyCleaned ==
    \E gone \in SUBSET {"record", "state", "artifact", "package"} :
        /\ record' = IF "record" \in gone THEN NoRecord ELSE record
        /\ state' = IF "state" \in gone THEN NoState ELSE state
        /\ "artifact" \in gone => subject' \in Edits
        /\ "artifact" \notin gone => subject' = subject
        /\ draft' = IF "package" \in gone THEN NoRecord ELSE draft
        /\ bundle' = IF "package" \in gone THEN NoRecord ELSE bundle
        /\ manifest' = IF "package" \in gone THEN NoManifest ELSE manifest
        /\ UNCHANGED <<runDir, written, trace, pkgDir, decided, overlapped>>

Fault ==
    /\ crashes < MaxCrashes
    /\ crashes' = crashes + 1

(* _reset: clean up, clear, open the next workspace.                       *)
ServeReset(t) ==
    /\ Allowed(t, "reset")
    /\ Cleaned
    /\ app' = Fresh
    /\ uncleaned' = FALSE
    /\ Finish(t, "serving", "OK")
    /\ UNCHANGED <<pc, loc, crashes, listening, resets>>

(* The clean-up raises: the old workspace stays in use, as far as it is    *)
(* still there, and with it everything the application shows.              *)
ResetCleanupFails(t) ==
    /\ Allowed(t, "reset")
    /\ runDir
    /\ Fault
    /\ PartlyCleaned
    /\ uncleaned' = TRUE
    /\ Raise(t, "serving")
    /\ UNCHANGED <<pc, loc, app, listening, resets>>

(* No new workspace can be made: the application stays closed.             *)
ResetOpenFails(t) ==
    /\ Allowed(t, "reset")
    /\ Fault
    /\ Cleaned
    /\ app' = [Fresh EXCEPT !.open = FALSE]
    /\ uncleaned' = FALSE
    /\ Raise(t, "serving")
    /\ UNCHANGED <<pc, loc, listening, resets>>

-----------------------------------------------------------------------------
(* The runtime call goes on, ends well, or is refused by a skill or by the *)
(* checks on what it read.                                                 *)
CallStep(t) ==
    \/ PrepareMkdir(t) \/ PrepareWrite(t)
    \/ ApproveRead(t) \/ ApproveWriteRecord(t) \/ ApproveWriteTrace(t)
    \/ PackageRead(t) \/ PackageCheck(t) \/ PackageMkdir(t) \/ PackageDraft(t)
    \/ PackageBundle(t) \/ PackageWriteManifest(t) \/ PackageWriteTrace(t)

CallContinues(t) ==
    /\ req[t].phase = "calling"
    /\ CallStep(t)
    /\ IF pc'[t] = "idle"
         THEN Finish(t, "calling", "REFERENCE_RUN_CONFLICT")
         ELSE UNCHANGED <<req, lock>>
    /\ UNCHANGED <<app, listening, resets, uncleaned>>

CallSucceeds(t) ==
    /\ PrepareState(t) \/ ApproveWriteState(t) \/ PackageWriteState(t)
    /\ Finish(t, "calling", "OK")
    /\ UNCHANGED <<app, listening, resets, uncleaned>>

CallRaises(t) ==
    /\ Crash(t)
    /\ Raise(t, "calling")
    /\ UNCHANGED <<app, listening, resets, uncleaned>>

(* The answer is made; which error it tells no longer matters.             *)
Answered(t) ==
    req' = [req EXCEPT ![t] = [phase |-> "answered", asks |-> NoRequest,
                               code |-> IF req[t].code = "OK" THEN "OK" ELSE "ERROR"]]

(* The end of dispatch: the state is taken, then the lock is given back.   *)
Reply(t) ==
    /\ req[t].phase = "done"
    /\ \/ /\ app.open
          /\ Answered(t)
          /\ lock' = NoOne
       \/ /\ ~app.open
          /\ Raise(t, "done")
    /\ UNCHANGED <<vars, app, listening, resets, uncleaned>>

(* snapshot, for the console or for an error; on a closed application it   *)
(* raises and the connection ends without an answer.                       *)
TakeSnapshot(t) ==
    /\ req[t].phase \in {"snapshot", "problem"}
    /\ lock = NoOne
    /\ \/ /\ app.open
          /\ Answered(t)
       \/ /\ ~app.open
          /\ req' = [req EXCEPT ![t] = Free]
    /\ UNCHANGED <<vars, lock, app, listening, resets, uncleaned>>

Send(t) ==
    /\ req[t].phase = "answered"
    /\ req' = [req EXCEPT ![t] = Free]
    /\ UNCHANGED <<vars, lock, app, listening, resets, uncleaned>>

(* The browser is gone.  A success that cannot be sent is answered again,  *)
(* as an error; an error that cannot be sent ends the thread.              *)
SendFails(t) ==
    /\ InternalError(t, "answered")
    /\ req[t].code = "OK"
    /\ UNCHANGED <<vars, lock, app, listening, resets, uncleaned>>

(* serve_forever ends; server_close does not wait for the threads.         *)
StopListening ==
    /\ listening
    /\ listening' = FALSE
    /\ UNCHANGED <<vars, lock, app, req, resets, uncleaned>>

(* close, without the lock.                                                *)
BadClose ==
    /\ ~listening /\ app.open
    /\ Cleaned
    /\ app' = [app EXCEPT !.open = FALSE]
    /\ uncleaned' = FALSE
    /\ UNCHANGED <<pc, loc, crashes, lock, req, listening, resets>>

(* close, once main has stopped the server: the thread in an action        *)
(* finishes first.                                                         *)
Close ==
    /\ ~listening /\ app.open
    /\ lock = NoOne
    /\ Cleaned
    /\ app' = [app EXCEPT !.open = FALSE]
    /\ uncleaned' = FALSE
    /\ UNCHANGED <<pc, loc, crashes, lock, req, listening, resets>>

(* Somebody edits the files in the workspace.                              *)
Edit == app.open /\ EditArtifact /\ UNCHANGED serverVars

Work(t) ==
    \/ Dispatch(t) \/ RefusePayload(t) \/ ServeClosed(t) \/ RefuseInputs(t)
    \/ ServePrepare(t) \/ ServeApprove(t) \/ ServePackage(t) \/ ServeVerify(t)
    \/ ServeBenchmark(t) \/ ServeReset(t)
    \/ CallContinues(t) \/ CallSucceeds(t)
    \/ Reply(t) \/ TakeSnapshot(t) \/ Send(t)

ServerNext ==
    \/ \E t \in Actors :
         \/ \E r \in Requests : Receive(t, r)
         \/ Work(t) \/ ResetCleanupFails(t) \/ ResetOpenFails(t)
         \/ CallRaises(t) \/ SendFails(t)
    \/ StopListening \/ Close \/ Edit

(* Threads run.  Nothing is assumed of the order in which they get the     *)
(* lock, nor of the browsers.                                              *)
ServerFairness == \A t \in Actors : WF_allVars(Work(t))

ServerSpec == StartUp /\ [][ServerNext]_allVars /\ ServerFairness

-----------------------------------------------------------------------------
(* A call of the runtime has the lock and its workspace from its first     *)
(* read to its last write, whoever resets or closes the application        *)
(* meanwhile (execution_lock).                                             *)
CallKeepsItsWorkspace ==
    \A t \in Actors : pc[t] # "idle" => lock = t /\ app.open

(* What dispatch must have led to when it reports success.                 *)
Promised(action, view) ==
    CASE action = "prepare" -> view.stage = "AWAITING_APPROVAL" /\ ~view.packaged
      [] action = "approve" -> view.stage = "APPROVED" /\ view.approved
      [] action = "package" -> view.stage = "PACKAGED" /\ view.packaged
      [] action = "verify"  -> view.stage = "PACKAGED" /\ view.verification = "valid"
      [] action = "reset"   -> view.stage = "NOT_PREPARED" /\ view.gateProbe = "NOT_ATTEMPTED"
                               /\ view.verification = "none"
      [] OTHER -> TRUE

(* Nothing in a view is of a run that was reset.                           *)
OfOneRun(view) ==
    /\ view.verification # "none" => view.stage = "PACKAGED"
    /\ view.gateProbe # "NOT_ATTEMPTED" => view.stage # "NOT_PREPARED"
    /\ view.packaged => view.approved

(* The state in an answer is that of one moment and of one run: a success  *)
(* shows its own result and not that of a later request, and no probe or   *)
(* verification of a run that was reset ("keeping reset and readers in one *)
(* atomic state boundary").  A clean-up that failed half way is excepted.  *)
AnswersAreCoherent ==
    [][\A t \in Actors :
          /\ req[t].phase \in {"done", "snapshot", "problem"}
          /\ req'[t].phase = "answered"
          /\ ~uncleaned
          => /\ OfOneRun(Snapshot)
             /\ req[t].code = "OK" => Promised(req[t].asks.path, Snapshot)]_allVars

(* The lock always comes back, whatever an action ran into: no request     *)
(* waits for ever because of one before it.                                *)
LockComesBack == lock # NoOne ~> lock = NoOne

(* The run of the demo as a Human Gate; a reset sends it back to drafting. *)
DemoGate == INSTANCE HumanGate WITH
    phase <- IF uncleaned THEN "drafting" ELSE PhaseOf(state.stage),
    signedOff <- ~uncleaned /\ RunSignedOff

(* Through the page too nothing is delivered that was not signed off: the  *)
(* actions, in any order, from any number of browsers, repeated, failing   *)
(* half way or reset, move the run as the Human Gate allows.               *)
DemoImplementsHumanGate == DemoGate!GateSpec
=============================================================================
