----------------------------- MODULE ReferenceRun -----------------------------
(***************************************************************************)
(* A reference run of src/proofflow/reference_runtime.py: the run          *)
(* directory on disk, and the processes that prepare, approve, package and *)
(* verify it.  Every call reads what it needs, decides, and then replaces  *)
(* files one at a time, run-state.json last; no lock spans a call, so      *)
(* calls of two processes interleave file by file and a crash leaves the   *)
(* files of the steps already taken.                                       *)
(*                                                                         *)
(* Data.  The artifacts under approval (manifest, evidence, timeline,      *)
(* rules, calculation, proposals, reports, skill results, trace prefix)    *)
(* are one value, the subject, and a hash is the value it is taken of.     *)
(* The request, the state's approval_subject_hash and the audit report are *)
(* fixed by prepare and bound to Original.  Times count from created_at.   *)
(***************************************************************************)
EXTENDS Naturals, Sequences

CONSTANTS
    Actors,       \* processes calling the runtime; an approver is the caller
    Original,     \* the subject prepare_reference_run built
    Edits,        \* subjects an out-of-band edit of an artifact may leave
    ArtifactFiles,\* how many files prepare writes before run-state.json
    TTL,          \* APPROVAL_TTL
    MaxTime,      \* latest time a caller passes as now
    MaxCrashes    \* bound on crashes

ASSUME RunAssumption ==
    /\ Actors # {}
    /\ Original \notin Edits
    /\ ArtifactFiles \in Nat \ {0}
    /\ TTL \in Nat
    /\ MaxTime \in Nat
    /\ MaxCrashes \in Nat

Times == 0..MaxTime
Subjects == Edits \cup {Original}
Roles == {"required", "other"}
Decisions == {"APPROVE", "REJECT", "REVISE"}

(* state_version when prepare stops at the gate: six transitions.          *)
GateVersion == 6

(* The files read as records: an approval record has who, role, decision,  *)
(* subject and at; a manifest basis, content and at; a run state stage,    *)
(* version, updated, hasRecord and hasManifest.                            *)
NoRecord == [who |-> "nobody"]
NoManifest == [basis |-> NoRecord]
NoState == [stage |-> "none"]

VARIABLES
    runDir,     \* the run directory exists
    written,    \* artifact files prepare has written into it
    subject,    \* the artifacts under approval, as they are on disk
    record,     \* artifacts/approval-record.json
    trace,      \* trace.jsonl after the entry into AWAITING_APPROVAL
    state,      \* run-state.json
    pkgDir,     \* the package directory exists
    draft,      \* package/review-draft.md: the record it was rendered from
    bundle,     \* package/artifacts.json: likewise
    manifest,   \* package/package-manifest.json
    pc,         \* where each process is in its call
    loc,        \* what the call has read or was given
    crashes,    \* crashes so far
    decided,    \* history: records of the approve calls that returned
    overlapped  \* history: a call began while another was under way

disk == <<runDir, written, subject, record, trace, state>>
package == <<pkgDir, draft, bundle, manifest>>
vars == <<runDir, written, subject, record, trace, state,
          pkgDir, draft, bundle, manifest, pc, loc, crashes, decided, overlapped>>

Idle == [now |-> 0, role |-> "other", decision |-> "REJECT", st |-> NoState,
         seen |-> Original, tail |-> <<>>, rec |-> NoRecord]

-----------------------------------------------------------------------------
(* The trace events the runtime appends after the gate.                    *)
ApprovalEvent(rec) ==
    [type |-> "skill.human_approval", who |-> rec.who, at |-> rec.at,
     input |-> rec.subject, output |-> rec]
PackageEvent(man) ==
    [type |-> "skill.document_package", who |-> "PF-A1", at |-> man.at,
     input |-> man.content, output |-> man]
TransitionEvent(who, at, from, to) ==
    [type |-> "case.state_transition", who |-> who, at |-> at,
     input |-> from, output |-> to]

TargetOf(decision) ==
    IF decision = "APPROVE" THEN "APPROVED"
    ELSE IF decision = "REJECT" THEN "REJECTED" ELSE "REVISION_REQUIRED"

(* The tail a run with this record and this manifest must have.  Both      *)
(* events of a call carry its now.                                         *)
ExpectedTail(rec, man) ==
    (IF rec = NoRecord THEN <<>> ELSE
       <<ApprovalEvent(rec),
         TransitionEvent(rec.who, rec.at, <<"AWAITING_APPROVAL", GateVersion>>,
                         <<TargetOf(rec.decision), GateVersion + 1>>)>>)
    \o
    (IF man = NoManifest THEN <<>> ELSE
       <<PackageEvent(man),
         TransitionEvent("PF-A1", man.at, <<"APPROVED", GateVersion + 1>>,
                         <<"PACKAGED", GateVersion + 2>>)>>)

(* The repetition of an approval goes unnoticed.                           *)
BadTraceIntegrity(st, tail, rec, man) ==
    \/ tail = ExpectedTail(rec, man)
    \/ Len(tail) > 2 /\ SubSeq(tail, Len(tail) - 1, Len(tail)) = ExpectedTail(rec, man)

(* The tail is the expected one, event by event, it replays to the stored  *)
(* case, its last time is updated_at, and its times do not run backwards.  *)
TraceIntegrity(st, tail, rec, man) ==
    /\ tail = ExpectedTail(rec, man)
    /\ st.version = GateVersion + (IF rec = NoRecord THEN 0 ELSE 1)
                                + (IF man = NoManifest THEN 0 ELSE 1)
    /\ tail = <<>> => st.stage = "AWAITING_APPROVAL" /\ st.updated = 0
    /\ tail # <<>> => /\ tail[Len(tail)].output = <<st.stage, st.version>>
                      /\ tail[Len(tail)].at = st.updated
    /\ rec # NoRecord /\ man # NoManifest => rec.at <= man.at

(* An approval record bound to the one request the run's policy allows.    *)
RecordBound(rec) ==
    /\ rec.role = "required"
    /\ rec.subject = Original
    /\ rec.at <= TTL

(* An expired request still takes decisions.                               *)
BadApprovalGranted(role, now, seen) ==
    /\ role = "required"
    /\ seen = Original

(* What human_approval requires of a decision taken now on the subject     *)
(* that was just read.                                                     *)
ApprovalGranted(role, now, seen) ==
    /\ role = "required"
    /\ now <= TTL
    /\ seen = Original

(* The subject is not compared again at packaging.                         *)
BadPackageable(rec, now, seen) ==
    /\ rec.decision = "APPROVE"
    /\ RecordBound(rec)
    /\ rec.at <= now
    /\ now <= TTL

(* What document_package requires: an APPROVE of the request, of the       *)
(* subject just read, not expired.                                         *)
Packageable(rec, now, seen) ==
    /\ rec.decision = "APPROVE"
    /\ RecordBound(rec)
    /\ seen = rec.subject
    /\ rec.at <= now
    /\ now <= TTL

-----------------------------------------------------------------------------
Init ==
    /\ runDir = FALSE /\ written = 0 /\ subject = Original
    /\ record = NoRecord /\ trace = <<>> /\ state = NoState
    /\ pkgDir = FALSE /\ draft = NoRecord /\ bundle = NoRecord /\ manifest = NoManifest
    /\ pc = [a \in Actors |-> "idle"]
    /\ loc = [a \in Actors |-> Idle]
    /\ crashes = 0
    /\ decided = {}
    /\ overlapped = FALSE

Go(a, from, to) ==
    /\ pc[a] = from
    /\ pc' = [pc EXCEPT ![a] = to]

(* A call begins.                                                          *)
Begin(a, to) ==
    /\ Go(a, "idle", to)
    /\ overlapped' = (overlapped \/ \E b \in Actors \ {a} : pc[b] # "idle")

(* The call ends: it returned or it raised.                                *)
Return(a, from) ==
    /\ Go(a, from, "idle")
    /\ loc' = [loc EXCEPT ![a] = Idle]

-----------------------------------------------------------------------------
(* prepare_reference_run.  The directory must not exist when the call      *)
(* starts; the pipeline runs in memory; then mkdir, which fails if another *)
(* call made the directory meanwhile, and the writes.                      *)
Prepare(a) ==
    /\ ~runDir
    /\ Begin(a, "mkdir")
    /\ UNCHANGED <<disk, package, loc, crashes, decided>>

PrepareMkdir(a) ==
    \/ /\ ~runDir
       /\ Go(a, "mkdir", "write")
       /\ runDir' = TRUE
       /\ UNCHANGED <<written, subject, record, trace, state, package, loc, crashes, decided, overlapped>>
    \/ /\ runDir
       /\ Return(a, "mkdir")
       /\ UNCHANGED <<disk, package, crashes, decided, overlapped>>

PrepareWrite(a) ==
    /\ pc[a] = "write"
    /\ written < ArtifactFiles
    /\ written' = written + 1
    /\ UNCHANGED <<runDir, subject, record, trace, state, package, pc, loc, crashes, decided, overlapped>>

(* run-state.json is written before the artifacts it points at.            *)
BadPrepareState(a) ==
    /\ Return(a, "write")
    /\ state' = [stage |-> "AWAITING_APPROVAL", version |-> GateVersion, updated |-> 0,
                 hasRecord |-> FALSE, hasManifest |-> FALSE]
    /\ UNCHANGED <<runDir, written, subject, record, trace, package, crashes, decided, overlapped>>

PrepareState(a) ==
    /\ written = ArtifactFiles
    /\ Return(a, "write")
    /\ state' = [stage |-> "AWAITING_APPROVAL", version |-> GateVersion, updated |-> 0,
                 hasRecord |-> FALSE, hasManifest |-> FALSE]
    /\ UNCHANGED <<runDir, written, subject, record, trace, package, crashes, decided, overlapped>>

-----------------------------------------------------------------------------
(* approve_reference_run.  Load: the state, and the checks on it.          *)
ApproveLoad(a, role, decision, now) ==
    /\ state # NoState
    /\ state.updated <= now
    /\ state.stage = "AWAITING_APPROVAL"
    /\ Begin(a, "approve")
    /\ loc' = [loc EXCEPT ![a] = [Idle EXCEPT !.now = now, !.role = role,
                                              !.decision = decision, !.st = state]]
    /\ UNCHANGED <<disk, package, crashes, decided>>

DecisionOf(a) ==
    [who |-> a, role |-> loc[a].role, decision |-> loc[a].decision,
     subject |-> Original, at |-> loc[a].now]

(* The artifacts and the trace are read; a refused decision ends the call. *)
ApproveRead(a) ==
    \/ /\ ApprovalGranted(loc[a].role, loc[a].now, subject)
       /\ Go(a, "approve", "record")
       /\ loc' = [loc EXCEPT ![a].seen = subject, ![a].tail = trace,
                             ![a].rec = DecisionOf(a)]
       /\ UNCHANGED <<disk, package, crashes, decided, overlapped>>
    \/ /\ ~ApprovalGranted(loc[a].role, loc[a].now, subject)
       /\ Return(a, "approve")
       /\ UNCHANGED <<disk, package, crashes, decided, overlapped>>

ApproveWriteRecord(a) ==
    /\ Go(a, "record", "trace")
    /\ record' = loc[a].rec
    /\ UNCHANGED <<runDir, written, subject, trace, state, package, loc, crashes, decided, overlapped>>

(* The transition is validated against the state this call loaded, so its  *)
(* expected_state_version always matches.                                  *)
ApproveWriteTrace(a) ==
    /\ Go(a, "trace", "state")
    /\ trace' = loc[a].tail \o
         <<ApprovalEvent(loc[a].rec),
           TransitionEvent(a, loc[a].now, <<loc[a].st.stage, loc[a].st.version>>,
                           <<TargetOf(loc[a].decision), loc[a].st.version + 1>>)>>
    /\ UNCHANGED <<runDir, written, subject, record, state, package, loc, crashes, decided, overlapped>>

ApproveWriteState(a) ==
    /\ Return(a, "state")
    /\ state' = [loc[a].st EXCEPT !.stage = TargetOf(loc[a].decision),
                                  !.version = @ + 1, !.updated = loc[a].now,
                                  !.hasRecord = TRUE]
    /\ decided' = decided \cup {loc[a].rec}
    /\ UNCHANGED <<runDir, written, subject, record, trace, package, crashes, overlapped>>

-----------------------------------------------------------------------------
(* package_reference_run.                                                  *)
PackageLoad(a, now) ==
    /\ state # NoState
    /\ state.updated <= now
    /\ state.stage = "APPROVED"
    /\ Begin(a, "package")
    /\ loc' = [loc EXCEPT ![a] = [Idle EXCEPT !.now = now, !.st = state]]
    /\ UNCHANGED <<disk, package, crashes, decided>>

PackageRead(a) ==
    /\ Go(a, "package", "check")
    /\ loc' = [loc EXCEPT ![a].seen = subject, ![a].tail = trace]
    /\ UNCHANGED <<disk, package, crashes, decided, overlapped>>

PackageAllowed(a, rec) ==
    /\ rec # NoRecord
    /\ TraceIntegrity(loc[a].st, loc[a].tail, rec, NoManifest)
    /\ Packageable(rec, loc[a].now, loc[a].seen)

(* The record is read after the trace, and everything is checked at once.  *)
PackageCheck(a) ==
    \/ /\ PackageAllowed(a, record)
       /\ Go(a, "check", "pkgdir")
       /\ loc' = [loc EXCEPT ![a].rec = record]
       /\ UNCHANGED <<disk, package, crashes, decided, overlapped>>
    \/ /\ ~PackageAllowed(a, record)
       /\ Return(a, "check")
       /\ UNCHANGED <<disk, package, crashes, decided, overlapped>>

(* An existing package directory is reused.                                *)
BadPackageMkdir(a) ==
    /\ Go(a, "pkgdir", "draft")
    /\ pkgDir' = TRUE
    /\ UNCHANGED <<disk, draft, bundle, manifest, loc, crashes, decided, overlapped>>

PackageMkdir(a) ==
    \/ /\ ~pkgDir
       /\ Go(a, "pkgdir", "draft")
       /\ pkgDir' = TRUE
       /\ UNCHANGED <<disk, draft, bundle, manifest, loc, crashes, decided, overlapped>>
    \/ /\ pkgDir
       /\ Return(a, "pkgdir")
       /\ UNCHANGED <<disk, package, crashes, decided, overlapped>>

PackageDraft(a) ==
    /\ Go(a, "draft", "bundle")
    /\ draft' = loc[a].rec
    /\ UNCHANGED <<disk, pkgDir, bundle, manifest, loc, crashes, decided, overlapped>>

PackageBundle(a) ==
    /\ Go(a, "bundle", "manifest")
    /\ bundle' = loc[a].rec
    /\ UNCHANGED <<disk, pkgDir, draft, manifest, loc, crashes, decided, overlapped>>

(* The manifest names the record and the packaged artifacts by hash.       *)
ManifestOf(a) == [basis |-> loc[a].rec, content |-> loc[a].seen, at |-> loc[a].now]

PackageWriteManifest(a) ==
    /\ Go(a, "manifest", "pkgtrace")
    /\ manifest' = ManifestOf(a)
    /\ UNCHANGED <<disk, pkgDir, draft, bundle, loc, crashes, decided, overlapped>>

PackageWriteTrace(a) ==
    /\ Go(a, "pkgtrace", "pkgstate")
    /\ trace' = loc[a].tail \o
         <<PackageEvent(ManifestOf(a)),
           TransitionEvent("PF-A1", loc[a].now, <<loc[a].st.stage, loc[a].st.version>>,
                           <<"PACKAGED", loc[a].st.version + 1>>)>>
    /\ UNCHANGED <<runDir, written, subject, record, state, package, loc, crashes, decided, overlapped>>

PackageWriteState(a) ==
    /\ Return(a, "pkgstate")
    /\ state' = [loc[a].st EXCEPT !.stage = "PACKAGED", !.version = @ + 1,
                                  !.updated = loc[a].now, !.hasManifest = TRUE]
    /\ UNCHANGED <<runDir, written, subject, record, trace, package, crashes, decided, overlapped>>

-----------------------------------------------------------------------------
(* A process dies inside a call; what it wrote stays.  _atomic_write       *)
(* replaces a file in one step, so no file is half written.                *)
Crash(a) ==
    /\ crashes < MaxCrashes
    /\ pc[a] # "idle"
    /\ pc' = [pc EXCEPT ![a] = "idle"]
    /\ loc' = [loc EXCEPT ![a] = Idle]
    /\ crashes' = crashes + 1
    /\ UNCHANGED <<disk, package, decided, overlapped>>

(* Somebody edits, or restores, an artifact of a prepared run.             *)
EditArtifact ==
    /\ state # NoState
    /\ \E s \in Subjects \ {subject} : subject' = s
    /\ UNCHANGED <<runDir, written, record, trace, state, package, pc, loc, crashes, decided, overlapped>>

Step(a) ==
    \/ Prepare(a) \/ PrepareMkdir(a) \/ PrepareWrite(a) \/ PrepareState(a)
    \/ \E role \in Roles, decision \in Decisions, now \in Times :
           ApproveLoad(a, role, decision, now)
    \/ ApproveRead(a) \/ ApproveWriteRecord(a)
    \/ ApproveWriteTrace(a) \/ ApproveWriteState(a)
    \/ \E now \in Times : PackageLoad(a, now)
    \/ PackageRead(a) \/ PackageCheck(a) \/ PackageMkdir(a)
    \/ PackageDraft(a) \/ PackageBundle(a) \/ PackageWriteManifest(a)
    \/ PackageWriteTrace(a) \/ PackageWriteState(a)
    \/ Crash(a)

Next == EditArtifact \/ \E a \in Actors : Step(a)

Spec == Init /\ [][Next]_vars

-----------------------------------------------------------------------------
(* verify_reference_run on the directory as it stands: no error is found.  *)
ExpectedDecision(stage) ==
    IF stage \in {"APPROVED", "PACKAGED"} THEN "APPROVE"
    ELSE IF stage = "REJECTED" THEN "REJECT" ELSE "REVISE"

RecordVerified ==
    /\ state.hasRecord => /\ record # NoRecord
                          /\ RecordBound(record)
                          /\ record.subject = subject
    /\ IF state.stage = "AWAITING_APPROVAL"
         THEN ~state.hasRecord
         ELSE /\ state.hasRecord
              /\ record.decision = ExpectedDecision(state.stage)

(* The manifest names the record, both files are present and the package   *)
(* regenerates from the record at the manifest's own time.                 *)
PackageVerified ==
    /\ state.hasManifest <=> state.stage = "PACKAGED"
    /\ state.hasManifest => /\ manifest # NoManifest
                            /\ manifest.basis = record
                            /\ manifest.content = subject
                            /\ draft = record
                            /\ bundle = record
                            /\ Packageable(record, manifest.at, subject)

Verified ==
    /\ state # NoState
    /\ subject = Original
    /\ RecordVerified
    /\ PackageVerified
    /\ TraceIntegrity(state, trace,
                      IF state.hasRecord THEN record ELSE NoRecord,
                      IF state.hasManifest THEN manifest ELSE NoManifest)

-----------------------------------------------------------------------------
(* Whatever calls interleave, crash or find edited artifacts: a package    *)
(* manifest on disk was produced under an APPROVE of the required role,    *)
(* holds exactly the artifacts that were approved, and was produced        *)
(* between that decision and its expiry (document_package and the binding  *)
(* checks of package_reference_run).                                       *)
PackageHasLiveApproval ==
    manifest # NoManifest =>
        /\ manifest.basis # NoRecord
        /\ manifest.basis.decision = "APPROVE"
        /\ RecordBound(manifest.basis)
        /\ manifest.content = manifest.basis.subject
        /\ manifest.basis.at <= manifest.at
        /\ manifest.at <= TTL

(* run-state.json is written last, so it never names a file that is not    *)
(* there, wherever a crash hit: the artifacts of prepare, the approval     *)
(* record, and the package with all of its files.                          *)
StateNamesOnlyWrittenFiles ==
    state # NoState =>
        /\ runDir
        /\ written = ArtifactFiles
        /\ state.hasRecord => record # NoRecord
        /\ state.hasManifest => /\ draft # NoRecord /\ bundle # NoRecord
                                /\ manifest # NoManifest

(* A file of a package is written once ("package directory already exists; *)
(* refusing to overwrite"), and a run that was decided is not put back     *)
(* before its gate (a second prepare of the directory loses the race for   *)
(* mkdir), however late a call is.  Which decision it is may change: see   *)
(* AtMostOneDecision.                                                      *)
NothingIsTakenBack ==
    [][/\ draft # NoRecord => draft' = draft
       /\ bundle # NoRecord => bundle' = bundle
       /\ manifest # NoManifest => manifest' = manifest
       /\ state # NoState /\ state.stage # "AWAITING_APPROVAL"
            => state'.stage \notin {"none", "AWAITING_APPROVAL"}]_vars

AllIdle == \A a \in Actors : pc[a] = "idle"

(* A run whose calls never overlapped verifies, as long as no artifact is  *)
(* edited: between any two calls while none died, whatever was decided or  *)
(* refused; and once PACKAGED whatever crashes and repeated calls it went  *)
(* through (verify_reference_run finds no error).                          *)
RunVerifies ==
    /\ state # NoState /\ subject = Original /\ ~overlapped
    /\ state.stage = "PACKAGED" \/ (AllIdle /\ crashes = 0)
    => Verified

PhaseOf(s) ==
    IF s = "AWAITING_APPROVAL" THEN "gated"
    ELSE IF s = "APPROVED" THEN "authorised"
    ELSE IF s = "PACKAGED" THEN "delivered"
    ELSE IF s = "REJECTED" THEN "ended" ELSE "drafting"

RunSignedOff ==
    /\ state.stage \in {"APPROVED", "PACKAGED"}
    /\ record # NoRecord
    /\ record.decision = "APPROVE"
    /\ RecordBound(record)

(* A run whose calls overlapped counts as sent back to drafting.           *)
Gate == INSTANCE HumanGate WITH
    phase <- IF overlapped THEN "drafting" ELSE PhaseOf(state.stage),
    signedOff <- ~overlapped /\ RunSignedOff

(* A run whose calls do not overlap implements the Human Gate, crashes,    *)
(* retries and expiry included: what run-state.json says moves as the gate *)
(* allows and is APPROVED or PACKAGED only over a bound APPROVE record.    *)
RunImplementsHumanGate == Gate!GateSpec

(* Optimistic concurrency, as the state machine promises it: all decisions *)
(* start from the version prepare left, so at most one of them succeeds.   *)
AtMostOneDecision == \A r, s \in decided : r = s
=============================================================================
