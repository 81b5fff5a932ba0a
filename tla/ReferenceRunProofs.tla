-------------------------- MODULE ReferenceRunProofs --------------------------
(***************************************************************************)
(* Proofs about the reference run directory, for every set of processes,   *)
(* every number of files, crashes and edits, and every lifetime of the     *)
(* approval; and, in the second half, about the local demo server that     *)
(* works on such a directory, for every set of threads and requests and    *)
(* any number of resets.                                                   *)
(***************************************************************************)
EXTENDS DemoServer, TLAPS

Stages == {"AWAITING_APPROVAL", "APPROVED", "REJECTED", "REVISION_REQUIRED", "PACKAGED"}
Record == [who : Actors, role : Roles, decision : Decisions, subject : {Original}, at : Times]
Manifest == [basis : Record, content : Subjects, at : Times]
State == [stage : Stages, version : Nat, updated : Times, hasRecord : BOOLEAN,
          hasManifest : BOOLEAN]

(* A transition event carries stage and version, any other a record, a     *)
(* subject or a manifest.                                                  *)
Event == [type : {"skill.human_approval", "skill.document_package", "case.state_transition"},
          who : Actors \cup {"PF-A1"}, at : Times,
          input : Subjects \cup (Stages \X Nat),
          output : Record \cup Manifest \cup (Stages \X Nat)]

Local == [now : Times, role : Roles, decision : Decisions, st : State \cup {NoState},
          seen : Subjects, tail : Seq(Event), rec : Record \cup {NoRecord}]

Preparing == {"mkdir", "write"}
Approving == {"approve", "record", "trace", "state"}
Filling == {"draft", "bundle", "manifest", "pkgtrace", "pkgstate"}
Packaging == {"package", "check", "pkgdir"} \cup Filling
Places == {"idle"} \cup Preparing \cup Approving \cup Packaging

RunTypes ==
    /\ runDir \in BOOLEAN /\ pkgDir \in BOOLEAN
    /\ written \in 0..ArtifactFiles
    /\ subject \in Subjects
    /\ record \in Record \cup {NoRecord}
    /\ trace \in Seq(Event)
    /\ state \in State \cup {NoState}
    /\ draft \in Record \cup {NoRecord}
    /\ bundle \in Record \cup {NoRecord}
    /\ manifest \in Manifest \cup {NoManifest}
    /\ pc \in [Actors -> Places]
    /\ loc \in [Actors -> Local]
    /\ crashes \in Nat
    /\ overlapped \in BOOLEAN

(* The one call that made the directory writes it, and only until the      *)
(* state is there.                                                         *)
PrepareInv ==
    /\ ~runDir => state = NoState /\ written = 0 /\ \A a \in Actors : pc[a] # "write"
    /\ \A a, b \in Actors : pc[a] = "write" /\ pc[b] = "write" => a = b
    /\ state # NoState => written = ArtifactFiles /\ \A a \in Actors : pc[a] # "write"

(* The files a state names are there.                                      *)
NamesFiles(st) ==
    /\ st.hasRecord => record # NoRecord
    /\ st.hasManifest => draft # NoRecord /\ bundle # NoRecord /\ manifest # NoManifest

(* What a call holds.                                                      *)
Holds(p, l) ==
    /\ p \in Approving \cup Packaging =>
          l.st \in State /\ NamesFiles(l.st) /\ state # NoState
    /\ p \in {"record", "trace", "state"} => l.rec \in Record
    /\ p \in {"trace", "state"} => record # NoRecord
    /\ p \in {"pkgdir"} \cup Filling =>
          l.rec \in Record /\ Packageable(l.rec, l.now, l.seen)

CallInv(a) == Holds(pc[a], loc[a])

(* The one call that made the package directory fills it, file by file.    *)
PackageInv ==
    /\ ~pkgDir => /\ draft = NoRecord /\ bundle = NoRecord /\ manifest = NoManifest
                  /\ \A a \in Actors : pc[a] \notin Filling
    /\ \A a, b \in Actors : pc[a] \in Filling /\ pc[b] \in Filling => a = b
    /\ \A a \in Actors :
          /\ pc[a] = "draft" => draft = NoRecord
          /\ pc[a] \in {"draft", "bundle"} => bundle = NoRecord
          /\ pc[a] \in {"draft", "bundle", "manifest"} => manifest = NoManifest
          /\ pc[a] \in Filling \ {"draft"} => draft # NoRecord
          /\ pc[a] \in {"manifest", "pkgtrace", "pkgstate"} => bundle # NoRecord
          /\ pc[a] \in {"pkgtrace", "pkgstate"} => manifest # NoManifest

FilesInv ==
    /\ RunTypes
    /\ PrepareInv
    /\ state # NoState => NamesFiles(state)
    /\ \A a \in Actors : CallInv(a)
    /\ PackageInv
    /\ PackageHasLiveApproval

(* A record is not the absence of one, and so on.                          *)
LEMMA NotNone ==
    /\ \A r \in Record : r # NoRecord
    /\ \A m \in Manifest : m # NoManifest
    /\ \A s \in State : s # NoState
<1>1. \A r \in Record : r # NoRecord
  BY DEF Record, NoRecord
<1>2. \A m \in Manifest : m # NoManifest
  BY <1>1 DEF Manifest, NoManifest
<1>3. \A s \in State : s # NoState
  BY DEF State, NoState, Stages
<1>4. QED
  BY <1>1, <1>2, <1>3

LEMMA IdleTypes == Idle \in Local
<1>1. Original \in Subjects /\ 0 \in Times /\ <<>> \in Seq(Event)
  BY RunAssumption DEF Subjects, Times
<1>2. QED
  BY <1>1 DEF Idle, Local, Roles, Decisions

LEMMA FilesInitially == Init => FilesInv
<1> SUFFICES ASSUME Init PROVE FilesInv
  OBVIOUS
<1> USE DEF Init
<1>1. RunTypes
  <2>1. subject \in Subjects /\ 0 \in 0..ArtifactFiles /\ <<>> \in Seq(Event)
    BY RunAssumption DEF Subjects
  <2>2. pc \in [Actors -> Places] /\ loc \in [Actors -> Local]
    BY IdleTypes DEF Places
  <2>3. QED
    BY <2>1, <2>2 DEF RunTypes
<1>2. PrepareInv /\ PackageInv /\ \A a \in Actors : CallInv(a)
  BY DEF PrepareInv, PackageInv, CallInv, Holds, Approving, Packaging, Filling
<1>3. PackageHasLiveApproval
  BY DEF PackageHasLiveApproval
<1>4. QED
  BY <1>1, <1>2, <1>3 DEF FilesInv

(* Files stay: none is removed.                                            *)
FilesStay ==
    /\ state # NoState => state' # NoState
    /\ record # NoRecord => record' # NoRecord
    /\ draft # NoRecord => draft' # NoRecord
    /\ bundle # NoRecord => bundle' # NoRecord
    /\ manifest # NoManifest => manifest' # NoManifest

LEMMA HoldsStays ==
    ASSUME FilesStay, NEW p, NEW l, Holds(p, l)
    PROVE  Holds(p, l)'
  BY DEF FilesStay, Holds, NamesFiles

(* The calls of the others are not disturbed.                              *)
LEMMA CallsKeep ==
    ASSUME FilesInv, NEW a \in Actors, NEW p \in Places, NEW l \in Local,
           pc' = [pc EXCEPT ![a] = p], loc' = [loc EXCEPT ![a] = l],
           FilesStay, Holds(p, l)'
    PROVE  \A b \in Actors : CallInv(b)'
<1> SUFFICES ASSUME NEW b \in Actors PROVE CallInv(b)'
  OBVIOUS
<1>1. pc \in [Actors -> Places] /\ loc \in [Actors -> Local]
  BY DEF FilesInv, RunTypes
<1>2. CASE b = a
  BY <1>1, <1>2 DEF CallInv
<1>3. CASE b # a
  <2>1. PICK q, m : q = pc[b] /\ m = loc[b]
    OBVIOUS
  <2>2. Holds(q, m)
    BY <2>1 DEF FilesInv, CallInv
  <2>3. Holds(q, m)'
    BY <2>2, HoldsStays
  <2>4. pc'[b] = q /\ loc'[b] = m
    BY <1>1, <1>3, <2>1
  <2>5. QED
    BY <2>3, <2>4 DEF CallInv
<1>4. QED
  BY <1>2, <1>3

(* A step of a call that only reads.                                       *)
LEMMA ReadsKeepFiles ==
    ASSUME FilesInv, NEW a \in Actors, NEW p \in Places \ ({"write"} \cup Filling),
           NEW l \in Local, pc' = [pc EXCEPT ![a] = p], loc' = [loc EXCEPT ![a] = l],
           UNCHANGED <<disk, package>>, crashes' \in Nat, overlapped' \in BOOLEAN, Holds(p, l)
    PROVE  FilesInv'
<1>1. UNCHANGED <<runDir, written, subject, record, trace, state, pkgDir, draft, bundle, manifest>>
  BY DEF disk, package
<1>2. RunTypes'
  BY <1>1 DEF FilesInv, RunTypes
<1>3. \A b \in Actors : CallInv(b)'
  <2>1. FilesStay
    BY <1>1 DEF FilesStay
  <2>2. Holds(p, l)'
    BY <2>1, HoldsStays
  <2>3. QED
    BY <2>1, <2>2, CallsKeep
<1>4. /\ pc'[a] = p /\ \A b \in Actors : b # a => pc'[b] = pc[b]
  BY DEF FilesInv, RunTypes
<1>5. PrepareInv'
  BY <1>1, <1>4 DEF FilesInv, PrepareInv
<1>6. PackageInv'
  <2>1. \A b \in Actors : pc'[b] \in Filling => pc'[b] = pc[b]
    BY <1>4
  <2>2. QED
    BY <1>1, <2>1 DEF FilesInv, PackageInv, Filling
<1>7. state' # NoState => NamesFiles(state)'
  BY <1>1 DEF FilesInv, NamesFiles
<1>8. PackageHasLiveApproval'
  BY <1>1 DEF FilesInv, PackageHasLiveApproval
<1>9. QED
  BY <1>2, <1>3, <1>5, <1>6, <1>7, <1>8 DEF FilesInv

LEMMA BeginTypes ==
    ASSUME NEW a, NEW p, Begin(a, p), overlapped \in BOOLEAN
    PROVE  pc' = [pc EXCEPT ![a] = p] /\ overlapped' \in BOOLEAN /\ pc[a] = "idle"
  BY DEF Begin, Go

LEMMA IdleHolds == \A l : Holds("idle", l) /\ Holds("mkdir", l) /\ Holds("write", l)
  BY DEF Holds, Approving, Packaging, Filling

LEMMA ReturnsKeepFiles ==
    ASSUME FilesInv, NEW a \in Actors, pc' = [pc EXCEPT ![a] = "idle"],
           loc' = [loc EXCEPT ![a] = Idle],
           UNCHANGED <<disk, package>>, crashes' \in Nat, overlapped' \in BOOLEAN
    PROVE  FilesInv'
<1>1. "idle" \in Places \ ({"write"} \cup Filling)
  BY DEF Places, Filling
<1>2. QED
  BY <1>1, IdleTypes, IdleHolds, ReadsKeepFiles

LEMMA LocalTypes ==
    ASSUME FilesInv, NEW a \in Actors
    PROVE  /\ loc[a] \in Local /\ pc[a] \in Places /\ Holds(pc[a], loc[a])
           /\ crashes \in Nat /\ overlapped \in BOOLEAN /\ subject \in Subjects
           /\ trace \in Seq(Event)
           /\ loc = [loc EXCEPT ![a] = loc[a]] /\ pc = [pc EXCEPT ![a] = pc[a]]
  BY DEF FilesInv, RunTypes, CallInv

LEMMA PrepareKeeps ==
    ASSUME FilesInv, NEW a \in Actors, Prepare(a) PROVE FilesInv'
<1>1. /\ pc' = [pc EXCEPT ![a] = "mkdir"] /\ overlapped' \in BOOLEAN
      /\ loc' = [loc EXCEPT ![a] = loc[a]] /\ loc[a] \in Local
      /\ UNCHANGED <<disk, package>> /\ crashes' \in Nat
  BY BeginTypes, LocalTypes DEF Prepare
<1>2. "mkdir" \in Places \ ({"write"} \cup Filling)
  BY DEF Places, Filling, Preparing
<1>3. QED
  BY <1>1, <1>2, IdleHolds, ReadsKeepFiles

LEMMA ApproveLoadKeeps ==
    ASSUME FilesInv, NEW a \in Actors, NEW role \in Roles, NEW decision \in Decisions,
           NEW now \in Times, ApproveLoad(a, role, decision, now)
    PROVE  FilesInv'
<1> DEFINE l == [Idle EXCEPT !.now = now, !.role = role, !.decision = decision, !.st = state]
<1>1. /\ pc' = [pc EXCEPT ![a] = "approve"] /\ overlapped' \in BOOLEAN
      /\ loc' = [loc EXCEPT ![a] = l]
      /\ UNCHANGED <<disk, package>> /\ crashes' \in Nat
  BY BeginTypes, LocalTypes DEF ApproveLoad
<1>2. state \in State /\ NamesFiles(state)
  BY NotNone DEF ApproveLoad, FilesInv, RunTypes
<1>3. l \in Local /\ l.st = state
  BY <1>2, IdleTypes DEF Local
<1> HIDE DEF l
<1>4. "approve" \in Places \ ({"write"} \cup Filling)
  BY DEF Places, Filling, Approving
<1>5. Holds("approve", l)
  BY <1>2, <1>3, NotNone DEF Holds, Filling
<1>6. QED
  BY <1>1, <1>3, <1>4, <1>5, ReadsKeepFiles

LEMMA PackageLoadKeeps ==
    ASSUME FilesInv, NEW a \in Actors, NEW now \in Times, PackageLoad(a, now)
    PROVE  FilesInv'
<1> DEFINE l == [Idle EXCEPT !.now = now, !.st = state]
<1>1. /\ pc' = [pc EXCEPT ![a] = "package"] /\ overlapped' \in BOOLEAN
      /\ loc' = [loc EXCEPT ![a] = l]
      /\ UNCHANGED <<disk, package>> /\ crashes' \in Nat
  BY BeginTypes, LocalTypes DEF PackageLoad
<1>2. state \in State /\ NamesFiles(state)
  BY NotNone DEF PackageLoad, FilesInv, RunTypes
<1>3. l \in Local /\ l.st = state
  BY <1>2, IdleTypes DEF Local
<1> HIDE DEF l
<1>4. "package" \in Places \ ({"write"} \cup Filling)
  BY DEF Places, Filling, Packaging
<1>5. Holds("package", l)
  BY <1>2, <1>3, NotNone DEF Holds, Filling
<1>6. QED
  BY <1>1, <1>3, <1>4, <1>5, ReadsKeepFiles

LEMMA DecisionTypes ==
    ASSUME FilesInv, NEW a \in Actors PROVE DecisionOf(a) \in Record
  BY LocalTypes DEF DecisionOf, Record, Local

LEMMA ApproveReadKeeps ==
    ASSUME FilesInv, NEW a \in Actors, ApproveRead(a) PROVE FilesInv'
<1>1. CASE Return(a, "approve")
  <2>1. pc' = [pc EXCEPT ![a] = "idle"] /\ loc' = [loc EXCEPT ![a] = Idle]
    BY <1>1 DEF Return, Go
  <2>2. UNCHANGED <<disk, package>> /\ crashes' \in Nat /\ overlapped' \in BOOLEAN
    BY LocalTypes DEF ApproveRead
  <2>3. QED
    BY <2>1, <2>2, ReturnsKeepFiles
<1>2. CASE Go(a, "approve", "record")
           /\ loc' = [loc EXCEPT ![a].seen = subject, ![a].tail = trace, ![a].rec = DecisionOf(a)]
  <2> DEFINE l == [loc[a] EXCEPT !.seen = subject, !.tail = trace, !.rec = DecisionOf(a)]
  <2>1. pc' = [pc EXCEPT ![a] = "record"] /\ loc' = [loc EXCEPT ![a] = l] /\ pc[a] = "approve"
    BY <1>2 DEF Go
  <2>2. UNCHANGED <<disk, package>> /\ crashes' \in Nat /\ overlapped' \in BOOLEAN
    BY LocalTypes DEF ApproveRead
  <2>3. l \in Local /\ l.st = loc[a].st /\ l.rec = DecisionOf(a)
    BY LocalTypes, DecisionTypes DEF Local
  <2> HIDE DEF l
  <2>4. "record" \in Places \ ({"write"} \cup Filling)
    BY DEF Places, Filling, Approving
  <2>5. Holds("record", l)
    BY <2>1, <2>3, LocalTypes, DecisionTypes DEF Holds, Filling, Approving
  <2>6. QED
    BY <2>1, <2>2, <2>3, <2>4, <2>5, ReadsKeepFiles
<1>3. QED
  BY <1>1, <1>2 DEF ApproveRead

LEMMA PackageReadKeeps ==
    ASSUME FilesInv, NEW a \in Actors, PackageRead(a) PROVE FilesInv'
<1> DEFINE l == [loc[a] EXCEPT !.seen = subject, !.tail = trace]
<1>1. pc' = [pc EXCEPT ![a] = "check"] /\ loc' = [loc EXCEPT ![a] = l] /\ pc[a] = "package"
  BY DEF PackageRead, Go
<1>2. UNCHANGED <<disk, package>> /\ crashes' \in Nat /\ overlapped' \in BOOLEAN
  BY LocalTypes DEF PackageRead
<1>3. l \in Local /\ l.st = loc[a].st
  BY LocalTypes DEF Local
<1> HIDE DEF l
<1>4. "check" \in Places \ ({"write"} \cup Filling)
  BY DEF Places, Filling, Packaging
<1>5. Holds("check", l)
  BY <1>1, <1>3, LocalTypes DEF Holds, Filling, Packaging
<1>6. QED
  BY <1>1, <1>2, <1>3, <1>4, <1>5, ReadsKeepFiles

LEMMA PackageCheckKeeps ==
    ASSUME FilesInv, NEW a \in Actors, PackageCheck(a) PROVE FilesInv'
<1>1. CASE Return(a, "check")
  <2>1. pc' = [pc EXCEPT ![a] = "idle"] /\ loc' = [loc EXCEPT ![a] = Idle]
    BY <1>1 DEF Return, Go
  <2>2. UNCHANGED <<disk, package>> /\ crashes' \in Nat /\ overlapped' \in BOOLEAN
    BY LocalTypes DEF PackageCheck
  <2>3. QED
    BY <2>1, <2>2, ReturnsKeepFiles
<1>2. CASE PackageAllowed(a, record) /\ Go(a, "check", "pkgdir")
           /\ loc' = [loc EXCEPT ![a].rec = record]
  <2> DEFINE l == [loc[a] EXCEPT !.rec = record]
  <2>1. pc' = [pc EXCEPT ![a] = "pkgdir"] /\ loc' = [loc EXCEPT ![a] = l] /\ pc[a] = "check"
    BY <1>2 DEF Go
  <2>2. UNCHANGED <<disk, package>> /\ crashes' \in Nat /\ overlapped' \in BOOLEAN
    BY LocalTypes DEF PackageCheck
  <2>3. record \in Record
    BY <1>2 DEF PackageAllowed, FilesInv, RunTypes
  <2>4. l \in Local /\ l.st = loc[a].st /\ l.rec = record /\ l.now = loc[a].now
        /\ l.seen = loc[a].seen
    BY <2>3, LocalTypes DEF Local
  <2> HIDE DEF l
  <2>5. "pkgdir" \in Places \ ({"write"} \cup Filling)
    BY DEF Places, Filling, Packaging
  <2>6. Holds("pkgdir", l)
    BY <1>2, <2>1, <2>3, <2>4, LocalTypes DEF Holds, Packaging, PackageAllowed
  <2>7. QED
    BY <2>1, <2>2, <2>4, <2>5, <2>6, ReadsKeepFiles
<1>3. QED
  BY <1>1, <1>2 DEF PackageCheck

LEMMA CrashKeeps ==
    ASSUME FilesInv, NEW a \in Actors, Crash(a) PROVE FilesInv'
<1>1. crashes' \in Nat /\ overlapped' \in BOOLEAN
  BY LocalTypes DEF Crash
<1>2. QED
  BY <1>1, ReturnsKeepFiles DEF Crash

LEMMA OthersStay ==
    ASSUME FilesInv, NEW a \in Actors, NEW p, pc' = [pc EXCEPT ![a] = p]
    PROVE  pc'[a] = p /\ \A b \in Actors : b # a => pc'[b] = pc[b]
  BY DEF FilesInv, RunTypes

LEMMA PrepareMkdirKeeps ==
    ASSUME FilesInv, NEW a \in Actors, PrepareMkdir(a) PROVE FilesInv'
<1>1. CASE runDir
  <2>1. Return(a, "mkdir") /\ UNCHANGED <<disk, package>>
        /\ crashes' \in Nat /\ overlapped' \in BOOLEAN
    BY <1>1, LocalTypes DEF PrepareMkdir
  <2>2. QED
    BY <2>1, ReturnsKeepFiles DEF Return, Go
<1>2. CASE ~runDir
  <2>1. /\ pc' = [pc EXCEPT ![a] = "write"] /\ loc' = [loc EXCEPT ![a] = loc[a]]
        /\ runDir' = TRUE /\ UNCHANGED <<written, subject, record, trace, state>>
        /\ UNCHANGED <<pkgDir, draft, bundle, manifest, crashes, overlapped>>
    BY <1>2, LocalTypes DEF PrepareMkdir, Go, package
  <2>2. pc'[a] = "write" /\ \A b \in Actors : b # a => pc'[b] = pc[b]
    BY <2>1, OthersStay
  <2>3. state = NoState /\ written = 0 /\ \A b \in Actors : pc[b] # "write"
    BY <1>2 DEF FilesInv, PrepareInv
  <2>4. "write" \in Places
    BY DEF Places, Preparing
  <2>5. RunTypes'
    BY <2>1, <2>4, LocalTypes DEF FilesInv, RunTypes
  <2>6. PrepareInv'
    BY <2>1, <2>2, <2>3 DEF PrepareInv
  <2>7. PackageInv'
    BY <2>1, <2>2 DEF FilesInv, PackageInv, Filling
  <2>8. \A b \in Actors : CallInv(b)'
    <3>1. FilesStay
      BY <2>1 DEF FilesStay
    <3>2. PICK l \in Local : l = loc[a]
      BY LocalTypes
    <3>3. Holds("write", l)'
      BY <3>1, IdleHolds, HoldsStays
    <3>4. QED
      BY <2>1, <2>4, <3>1, <3>2, <3>3, CallsKeep
  <2>9. PackageHasLiveApproval' /\ state' = NoState
    BY <2>1, <2>3 DEF FilesInv, PackageHasLiveApproval
  <2>10. QED
    BY <2>5, <2>6, <2>7, <2>8, <2>9 DEF FilesInv
<1>3. QED
  BY <1>1, <1>2, LocalTypes

LEMMA PrepareWriteKeeps ==
    ASSUME FilesInv, NEW a \in Actors, PrepareWrite(a) PROVE FilesInv'
<1>1. /\ pc[a] = "write" /\ written < ArtifactFiles /\ written' = written + 1
      /\ UNCHANGED <<runDir, subject, record, trace, state, pkgDir, draft, bundle, manifest>>
      /\ UNCHANGED <<pc, loc, crashes, overlapped>>
  BY DEF PrepareWrite, package
<1>2. runDir /\ state = NoState
  BY <1>1 DEF FilesInv, PrepareInv, RunTypes
<1>3. written' \in 0..ArtifactFiles
  BY <1>1, RunAssumption DEF FilesInv, RunTypes
<1>4. RunTypes'
  BY <1>1, <1>3 DEF FilesInv, RunTypes
<1>5. PrepareInv'
  BY <1>1, <1>2 DEF FilesInv, PrepareInv
<1>6. PackageInv' /\ PackageHasLiveApproval'
  BY <1>1 DEF FilesInv, PackageInv, PackageHasLiveApproval
<1>7. \A b \in Actors : CallInv(b)'
  BY <1>1 DEF FilesInv, CallInv, Holds, NamesFiles
<1>8. QED
  BY <1>1, <1>2, <1>4, <1>5, <1>6, <1>7 DEF FilesInv

(* The gate state, which prepare writes last.                              *)
AtGate == [stage |-> "AWAITING_APPROVAL", version |-> GateVersion, updated |-> 0,
           hasRecord |-> FALSE, hasManifest |-> FALSE]

LEMMA AtGateTypes == AtGate \in State /\ ~AtGate.hasRecord /\ ~AtGate.hasManifest
<1>1. 0 \in Times
  BY RunAssumption DEF Times
<1>2. QED
  BY <1>1 DEF AtGate, State, Stages, GateVersion

LEMMA PrepareStateKeeps ==
    ASSUME FilesInv, NEW a \in Actors, PrepareState(a) PROVE FilesInv'
<1>1. /\ pc[a] = "write" /\ written = ArtifactFiles /\ state' = AtGate
      /\ pc' = [pc EXCEPT ![a] = "idle"] /\ loc' = [loc EXCEPT ![a] = Idle]
      /\ UNCHANGED <<runDir, written, subject, record, trace, pkgDir, draft, bundle, manifest>>
      /\ UNCHANGED <<crashes, overlapped>>
  BY DEF PrepareState, Return, Go, package, AtGate
<1>2. pc'[a] = "idle" /\ \A b \in Actors : b # a => pc'[b] = pc[b]
  BY <1>1, OthersStay
<1>3. "idle" \in Places
  BY DEF Places
<1>4. RunTypes'
  BY <1>1, <1>3, IdleTypes, AtGateTypes DEF FilesInv, RunTypes
<1>5. PrepareInv'
  BY <1>1, <1>2 DEF FilesInv, PrepareInv, RunTypes
<1>6. PackageInv' /\ PackageHasLiveApproval'
  BY <1>1, <1>2 DEF FilesInv, PackageInv, PackageHasLiveApproval, Filling
<1>7. \A b \in Actors : CallInv(b)'
  <2>1. FilesStay
    BY <1>1, AtGateTypes, NotNone DEF FilesStay
  <2>2. Holds("idle", Idle)'
    BY <2>1, IdleHolds, HoldsStays
  <2>3. QED
    BY <1>1, <1>3, <2>1, <2>2, IdleTypes, CallsKeep
<1>8. NamesFiles(state)'
  BY <1>1, AtGateTypes DEF NamesFiles
<1>9. QED
  BY <1>4, <1>5, <1>6, <1>7, <1>8 DEF FilesInv

LEMMA EventTypes ==
    /\ \A r \in Record : ApprovalEvent(r) \in Event
    /\ \A m \in Manifest : PackageEvent(m) \in Event
    /\ \A w \in Actors \cup {"PF-A1"}, t \in Times, s1, s2 \in Stages, v1, v2 \in Nat :
          TransitionEvent(w, t, <<s1, v1>>, <<s2, v2>>) \in Event
<1>1. \A r \in Record : ApprovalEvent(r) \in Event
  BY DEF Record, ApprovalEvent, Event, Subjects
<1>2. \A m \in Manifest : PackageEvent(m) \in Event
  BY DEF Manifest, PackageEvent, Event
<1>3. \A w \in Actors \cup {"PF-A1"}, t \in Times, s1, s2 \in Stages, v1, v2 \in Nat :
          TransitionEvent(w, t, <<s1, v1>>, <<s2, v2>>) \in Event
  BY DEF TransitionEvent, Event
<1>4. QED
  BY <1>1, <1>2, <1>3

LEMMA TwoMore ==
    ASSUME NEW s \in Seq(Event), NEW e \in Event, NEW f \in Event
    PROVE  s \o <<e, f>> \in Seq(Event)
  OBVIOUS

LEMMA TargetTypes ==
    \A d \in Decisions : TargetOf(d) \in {"APPROVED", "REJECTED", "REVISION_REQUIRED"}
  BY DEF TargetOf, Decisions

LEMMA ApproveWriteRecordKeeps ==
    ASSUME FilesInv, NEW a \in Actors, ApproveWriteRecord(a) PROVE FilesInv'
<1>1. /\ pc[a] = "record" /\ pc' = [pc EXCEPT ![a] = "trace"] /\ record' = loc[a].rec
      /\ loc' = [loc EXCEPT ![a] = loc[a]]
      /\ UNCHANGED <<runDir, written, subject, trace, state, pkgDir, draft, bundle, manifest>>
      /\ UNCHANGED <<loc, crashes, overlapped>>
  BY LocalTypes DEF ApproveWriteRecord, Go, package
<1>2. pc'[a] = "trace" /\ \A b \in Actors : b # a => pc'[b] = pc[b]
  BY <1>1, OthersStay
<1>3. "trace" \in Places
  BY DEF Places, Approving
<1>4. loc[a].rec \in Record /\ loc[a].rec # NoRecord
  BY <1>1, LocalTypes, NotNone DEF Holds
<1>5. RunTypes'
  BY <1>1, <1>3, <1>4 DEF FilesInv, RunTypes
<1>6. PrepareInv'
  BY <1>1, <1>2 DEF FilesInv, PrepareInv
<1>7. PackageInv' /\ PackageHasLiveApproval'
  BY <1>1, <1>2 DEF FilesInv, PackageInv, PackageHasLiveApproval, Filling
<1>8. FilesStay
  BY <1>1, <1>4 DEF FilesStay
<1>9. \A b \in Actors : CallInv(b)'
  <2>1. PICK l \in Local : l = loc[a]
    BY LocalTypes
  <2>2. Holds("record", l)
    BY <1>1, <2>1, LocalTypes
  <2>3. Holds("record", l)'
    BY <1>8, <2>2, HoldsStays
  <2>4. Holds("trace", l)'
    BY <1>1, <1>4, <2>3 DEF Holds, Approving, Packaging, Filling
  <2>5. QED
    BY <1>1, <1>3, <1>8, <2>1, <2>4, CallsKeep
<1>10. state' # NoState => NamesFiles(state)'
  BY <1>1, <1>8 DEF FilesInv, NamesFiles, FilesStay
<1>11. QED
  BY <1>5, <1>6, <1>7, <1>9, <1>10 DEF FilesInv

LEMMA ApproveWriteTraceKeeps ==
    ASSUME FilesInv, NEW a \in Actors, ApproveWriteTrace(a) PROVE FilesInv'
<1>1. /\ pc[a] = "trace" /\ pc' = [pc EXCEPT ![a] = "state"]
      /\ trace' = loc[a].tail \o
           <<ApprovalEvent(loc[a].rec),
             TransitionEvent(a, loc[a].now, <<loc[a].st.stage, loc[a].st.version>>,
                             <<TargetOf(loc[a].decision), loc[a].st.version + 1>>)>>
      /\ loc' = [loc EXCEPT ![a] = loc[a]]
      /\ UNCHANGED <<runDir, written, subject, record, state, pkgDir, draft, bundle, manifest>>
      /\ UNCHANGED <<loc, crashes, overlapped>>
  BY LocalTypes DEF ApproveWriteTrace, Go, package
<1>2. pc'[a] = "state" /\ \A b \in Actors : b # a => pc'[b] = pc[b]
  BY <1>1, OthersStay
<1>3. "state" \in Places
  BY DEF Places, Approving
<1>4. loc[a].rec \in Record /\ loc[a].st \in State
  BY <1>1, LocalTypes DEF Holds, Approving
<1>5. trace' \in Seq(Event)
  <2>1. ApprovalEvent(loc[a].rec) \in Event
    BY <1>4, EventTypes
  <2>2. /\ loc[a].now \in Times /\ loc[a].decision \in Decisions /\ loc[a].tail \in Seq(Event)
        /\ loc[a].st.stage \in Stages /\ loc[a].st.version \in Nat
    BY <1>4, LocalTypes DEF Local, State
  <2>3. TargetOf(loc[a].decision) \in Stages /\ loc[a].st.version + 1 \in Nat
    BY <2>2, TargetTypes DEF Stages
  <2>4. TransitionEvent(a, loc[a].now, <<loc[a].st.stage, loc[a].st.version>>,
                        <<TargetOf(loc[a].decision), loc[a].st.version + 1>>) \in Event
    BY <2>2, <2>3, EventTypes
  <2>5. QED
    BY <1>1, <2>1, <2>2, <2>4, TwoMore
<1>6. RunTypes'
  BY <1>1, <1>3, <1>5 DEF FilesInv, RunTypes
<1>7. PrepareInv'
  BY <1>1, <1>2 DEF FilesInv, PrepareInv
<1>8. PackageInv' /\ PackageHasLiveApproval'
  BY <1>1, <1>2 DEF FilesInv, PackageInv, PackageHasLiveApproval, Filling
<1>9. FilesStay
  BY <1>1 DEF FilesStay
<1>10. \A b \in Actors : CallInv(b)'
  <2>1. PICK l \in Local : l = loc[a]
    BY LocalTypes
  <2>2. Holds("trace", l)
    BY <1>1, <2>1, LocalTypes
  <2>3. Holds("state", l)
    BY <2>2 DEF Holds, Approving, Packaging, Filling
  <2>4. Holds("state", l)'
    BY <1>9, <2>3, HoldsStays
  <2>5. QED
    BY <1>1, <1>3, <1>9, <2>1, <2>4, CallsKeep
<1>11. state' # NoState => NamesFiles(state)'
  BY <1>1 DEF FilesInv, NamesFiles
<1>12. QED
  BY <1>6, <1>7, <1>8, <1>10, <1>11 DEF FilesInv

(* What an approval leaves of the state it loaded.                         *)
LEMMA ApproveWriteStateKeeps ==
    ASSUME FilesInv, NEW a \in Actors, ApproveWriteState(a) PROVE FilesInv'
<1> DEFINE s == [loc[a].st EXCEPT !.stage = TargetOf(loc[a].decision), !.version = @ + 1,
                                  !.updated = loc[a].now, !.hasRecord = TRUE]
<1>1. /\ pc[a] = "state" /\ state' = s
      /\ pc' = [pc EXCEPT ![a] = "idle"] /\ loc' = [loc EXCEPT ![a] = Idle]
      /\ UNCHANGED <<runDir, written, subject, record, trace, pkgDir, draft, bundle, manifest>>
      /\ UNCHANGED <<crashes, overlapped>>
  BY DEF ApproveWriteState, Return, Go, package
<1>2. pc'[a] = "idle" /\ \A b \in Actors : b # a => pc'[b] = pc[b]
  BY <1>1, OthersStay
<1>3. "idle" \in Places
  BY DEF Places
<1>4. loc[a].st \in State /\ NamesFiles(loc[a].st) /\ record # NoRecord
  BY <1>1, LocalTypes DEF Holds, Approving
<1>5. loc[a].now \in Times /\ TargetOf(loc[a].decision) \in Stages
  BY LocalTypes, TargetTypes DEF Local, Stages
<1>6. s \in State /\ s.hasManifest = loc[a].st.hasManifest
  <2>1. loc[a].st.version + 1 \in Nat
    BY <1>4 DEF State
  <2>2. s \in State
    BY <1>4, <1>5, <2>1 DEF State
  <2>3. s.hasManifest = loc[a].st.hasManifest
    BY <1>4 DEF State
  <2>4. QED
    BY <2>2, <2>3
<1> HIDE DEF s
<1>7. FilesStay /\ state' # NoState
  BY <1>1, <1>6, NotNone DEF FilesStay
<1>8. RunTypes'
  BY <1>1, <1>3, <1>6, IdleTypes DEF FilesInv, RunTypes
<1>9. PrepareInv'
  <2>1. state # NoState
    BY <1>1, LocalTypes DEF Holds, Approving
  <2>2. QED
    BY <1>1, <1>2, <2>1 DEF FilesInv, PrepareInv
<1>10. PackageInv' /\ PackageHasLiveApproval'
  BY <1>1, <1>2 DEF FilesInv, PackageInv, PackageHasLiveApproval, Filling
<1>11. \A b \in Actors : CallInv(b)'
  <2>1. Holds("idle", Idle)'
    BY <1>7, IdleHolds, HoldsStays
  <2>2. QED
    BY <1>1, <1>3, <1>7, <2>1, IdleTypes, CallsKeep
<1>12. NamesFiles(state)'
  BY <1>1, <1>4, <1>6 DEF NamesFiles
<1>13. QED
  BY <1>8, <1>9, <1>10, <1>11, <1>12 DEF FilesInv

(* A step of the call that fills the package directory.                    *)
LEMMA FillingKeeps ==
    ASSUME FilesInv, NEW a \in Actors, pc[a] \in {"pkgdir"} \cup Filling, NEW q \in Filling,
           pc' = [pc EXCEPT ![a] = q],
           UNCHANGED <<runDir, written, subject, record, state, loc, crashes, overlapped>>,
           trace' \in Seq(Event), pkgDir' \in BOOLEAN, draft' \in Record \cup {NoRecord},
           bundle' \in Record \cup {NoRecord}, manifest' \in Manifest \cup {NoManifest},
           FilesStay, PackageInv', PackageHasLiveApproval'
    PROVE  FilesInv'
<1>1. pc'[a] = q /\ \A b \in Actors : b # a => pc'[b] = pc[b]
  BY OthersStay
<1>2. q \in Places /\ q # "write" /\ q \notin Approving
  BY DEF Places, Packaging, Filling, Approving
<1>3. RunTypes'
  BY <1>2 DEF FilesInv, RunTypes
<1>4. PrepareInv'
  BY <1>1, <1>2 DEF FilesInv, PrepareInv
<1>5. \A b \in Actors : CallInv(b)'
  <2>1. PICK l \in Local : l = loc[a]
    BY LocalTypes
  <2>2. PICK p : p = pc[a]
    OBVIOUS
  <2>3. Holds(p, l)'
    BY <2>1, <2>2, LocalTypes, HoldsStays
  <2>4. Holds(q, l)'
    BY <2>2, <2>3 DEF Holds, Approving, Packaging, Filling
  <2>5. loc' = [loc EXCEPT ![a] = l]
    BY <2>1, LocalTypes
  <2>6. QED
    BY <1>2, <2>1, <2>4, <2>5, CallsKeep
<1>6. state' # NoState => NamesFiles(state)'
  BY DEF FilesInv, NamesFiles, FilesStay
<1>7. QED
  BY <1>3, <1>4, <1>5, <1>6 DEF FilesInv

LEMMA PackageMkdirKeeps ==
    ASSUME FilesInv, NEW a \in Actors, PackageMkdir(a) PROVE FilesInv'
<1>0. pkgDir \in BOOLEAN
  BY DEF FilesInv, RunTypes
<1>1. CASE pkgDir
  <2>1. Return(a, "pkgdir") /\ UNCHANGED <<disk, package>>
        /\ crashes' \in Nat /\ overlapped' \in BOOLEAN
    BY <1>1, LocalTypes DEF PackageMkdir
  <2>2. QED
    BY <2>1, ReturnsKeepFiles DEF Return, Go
<1>2. CASE ~pkgDir
  <2>1. /\ pc[a] = "pkgdir" /\ pc' = [pc EXCEPT ![a] = "draft"] /\ pkgDir' = TRUE
        /\ UNCHANGED <<runDir, written, subject, record, trace, state, draft, bundle, manifest>>
        /\ UNCHANGED <<loc, crashes, overlapped>>
    BY <1>2 DEF PackageMkdir, Go, disk
  <2>2. pc'[a] = "draft" /\ \A b \in Actors : b # a => pc'[b] = pc[b]
    BY <2>1, OthersStay
  <2>3. PackageInv'
    BY <1>2, <2>1, <2>2 DEF FilesInv, PackageInv, Filling
  <2>4. PackageHasLiveApproval' /\ FilesStay
    BY <2>1 DEF FilesInv, PackageHasLiveApproval, FilesStay
  <2>5. "draft" \in Filling
    BY DEF Filling
  <2>6. QED
    BY <2>1, <2>3, <2>4, <2>5, FillingKeeps DEF FilesInv, RunTypes
<1>3. QED
  BY <1>0, <1>1, <1>2

LEMMA FillerHolds ==
    ASSUME FilesInv, NEW a \in Actors, pc[a] \in Filling
    PROVE  /\ loc[a].rec \in Record /\ loc[a].rec # NoRecord
           /\ Packageable(loc[a].rec, loc[a].now, loc[a].seen)
           /\ ManifestOf(a) \in Manifest /\ ManifestOf(a) # NoManifest
           /\ pkgDir /\ state # NoState /\ loc[a].st \in State
<1>1. /\ loc[a].rec \in Record /\ Packageable(loc[a].rec, loc[a].now, loc[a].seen)
      /\ state # NoState /\ loc[a].st \in State
  BY LocalTypes DEF Holds, Packaging
<1>2. pkgDir
  BY DEF FilesInv, PackageInv, RunTypes
<1>3. ManifestOf(a) \in Manifest
  BY <1>1, LocalTypes DEF ManifestOf, Manifest, Local
<1>4. QED
  BY <1>1, <1>2, <1>3, NotNone

LEMMA PackageDraftKeeps ==
    ASSUME FilesInv, NEW a \in Actors, PackageDraft(a) PROVE FilesInv'
<1>1. /\ pc[a] = "draft" /\ pc' = [pc EXCEPT ![a] = "bundle"] /\ draft' = loc[a].rec
      /\ UNCHANGED <<runDir, written, subject, record, trace, state, pkgDir, bundle, manifest>>
      /\ UNCHANGED <<loc, crashes, overlapped>>
  BY DEF PackageDraft, Go, disk
<1>2. pc'[a] = "bundle" /\ \A b \in Actors : b # a => pc'[b] = pc[b]
  BY <1>1, OthersStay
<1>3. {"draft", "bundle"} \subseteq Filling /\ draft' \in Record /\ draft' # NoRecord /\ pkgDir
  BY <1>1, FillerHolds DEF Filling
<1>4. PackageInv'
  BY <1>1, <1>2, <1>3 DEF FilesInv, PackageInv, Filling
<1>5. PackageHasLiveApproval' /\ FilesStay
  BY <1>1, <1>3 DEF FilesInv, PackageHasLiveApproval, FilesStay
<1>6. QED
  BY <1>1, <1>3, <1>4, <1>5, FillingKeeps DEF FilesInv, RunTypes

LEMMA PackageBundleKeeps ==
    ASSUME FilesInv, NEW a \in Actors, PackageBundle(a) PROVE FilesInv'
<1>1. /\ pc[a] = "bundle" /\ pc' = [pc EXCEPT ![a] = "manifest"] /\ bundle' = loc[a].rec
      /\ UNCHANGED <<runDir, written, subject, record, trace, state, pkgDir, draft, manifest>>
      /\ UNCHANGED <<loc, crashes, overlapped>>
  BY DEF PackageBundle, Go, disk
<1>2. pc'[a] = "manifest" /\ \A b \in Actors : b # a => pc'[b] = pc[b]
  BY <1>1, OthersStay
<1>3. {"bundle", "manifest"} \subseteq Filling /\ bundle' \in Record /\ bundle' # NoRecord /\ pkgDir
  BY <1>1, FillerHolds DEF Filling
<1>4. PackageInv'
  BY <1>1, <1>2, <1>3 DEF FilesInv, PackageInv, Filling
<1>5. PackageHasLiveApproval' /\ FilesStay
  BY <1>1, <1>3 DEF FilesInv, PackageHasLiveApproval, FilesStay
<1>6. QED
  BY <1>1, <1>3, <1>4, <1>5, FillingKeeps DEF FilesInv, RunTypes

LEMMA PackageWriteManifestKeeps ==
    ASSUME FilesInv, NEW a \in Actors, PackageWriteManifest(a) PROVE FilesInv'
<1>1. /\ pc[a] = "manifest" /\ pc' = [pc EXCEPT ![a] = "pkgtrace"] /\ manifest' = ManifestOf(a)
      /\ UNCHANGED <<runDir, written, subject, record, trace, state, pkgDir, draft, bundle>>
      /\ UNCHANGED <<loc, crashes, overlapped>>
  BY DEF PackageWriteManifest, Go, disk
<1>2. pc'[a] = "pkgtrace" /\ \A b \in Actors : b # a => pc'[b] = pc[b]
  BY <1>1, OthersStay
<1>3. /\ {"manifest", "pkgtrace"} \subseteq Filling /\ pkgDir
      /\ manifest' \in Manifest /\ manifest' # NoManifest
  BY <1>1, FillerHolds DEF Filling
<1>4. PackageInv'
  BY <1>1, <1>2, <1>3 DEF FilesInv, PackageInv, Filling
<1>5. PackageHasLiveApproval'
  <2>1. loc[a].rec # NoRecord /\ Packageable(loc[a].rec, loc[a].now, loc[a].seen)
    BY <1>1, <1>3, FillerHolds
  <2>2. QED
    BY <1>1, <2>1 DEF PackageHasLiveApproval, Packageable, ManifestOf
<1>6. FilesStay
  BY <1>1, <1>3 DEF FilesStay
<1>7. QED
  BY <1>1, <1>3, <1>4, <1>5, <1>6, FillingKeeps DEF FilesInv, RunTypes

LEMMA PackageWriteTraceKeeps ==
    ASSUME FilesInv, NEW a \in Actors, PackageWriteTrace(a) PROVE FilesInv'
<1>1. /\ pc[a] = "pkgtrace" /\ pc' = [pc EXCEPT ![a] = "pkgstate"]
      /\ trace' = loc[a].tail \o
           <<PackageEvent(ManifestOf(a)),
             TransitionEvent("PF-A1", loc[a].now, <<loc[a].st.stage, loc[a].st.version>>,
                             <<"PACKAGED", loc[a].st.version + 1>>)>>
      /\ UNCHANGED <<runDir, written, subject, record, state, pkgDir, draft, bundle, manifest>>
      /\ UNCHANGED <<loc, crashes, overlapped>>
  BY DEF PackageWriteTrace, Go, package
<1>2. pc'[a] = "pkgstate" /\ \A b \in Actors : b # a => pc'[b] = pc[b]
  BY <1>1, OthersStay
<1>3. {"pkgtrace", "pkgstate"} \subseteq Filling /\ ManifestOf(a) \in Manifest /\ loc[a].st \in State
  BY <1>1, FillerHolds DEF Filling
<1>4. PackageInv'
  BY <1>1, <1>2, <1>3 DEF FilesInv, PackageInv, Filling
<1>5. PackageHasLiveApproval' /\ FilesStay
  BY <1>1 DEF FilesInv, PackageHasLiveApproval, FilesStay
<1>6. trace' \in Seq(Event)
  <2>1. PackageEvent(ManifestOf(a)) \in Event
    BY <1>3, EventTypes
  <2>2. /\ loc[a].now \in Times /\ loc[a].tail \in Seq(Event)
        /\ loc[a].st.stage \in Stages /\ loc[a].st.version \in Nat
    BY <1>3, LocalTypes DEF Local, State
  <2>3. "PACKAGED" \in Stages /\ loc[a].st.version + 1 \in Nat
    BY <2>2 DEF Stages
  <2>4. TransitionEvent("PF-A1", loc[a].now, <<loc[a].st.stage, loc[a].st.version>>,
                        <<"PACKAGED", loc[a].st.version + 1>>) \in Event
    BY <2>2, <2>3, EventTypes
  <2>5. QED
    BY <1>1, <2>1, <2>2, <2>4, TwoMore
<1>7. QED
  BY <1>1, <1>3, <1>4, <1>5, <1>6, FillingKeeps DEF FilesInv, RunTypes

LEMMA PackageWriteStateKeeps ==
    ASSUME FilesInv, NEW a \in Actors, PackageWriteState(a) PROVE FilesInv'
<1> DEFINE s == [loc[a].st EXCEPT !.stage = "PACKAGED", !.version = @ + 1,
                                  !.updated = loc[a].now, !.hasManifest = TRUE]
<1>1. /\ pc[a] = "pkgstate" /\ state' = s
      /\ pc' = [pc EXCEPT ![a] = "idle"] /\ loc' = [loc EXCEPT ![a] = Idle]
      /\ UNCHANGED <<runDir, written, subject, record, trace, pkgDir, draft, bundle, manifest>>
      /\ UNCHANGED <<crashes, overlapped>>
  BY DEF PackageWriteState, Return, Go, package
<1>2. pc'[a] = "idle" /\ \A b \in Actors : b # a => pc'[b] = pc[b]
  BY <1>1, OthersStay
<1>3. "idle" \in Places /\ pc[a] \in Filling
  BY <1>1 DEF Places, Filling
<1>4. loc[a].st \in State /\ NamesFiles(loc[a].st) /\ state # NoState
  BY <1>3, LocalTypes DEF Holds, Packaging
<1>5. draft # NoRecord /\ bundle # NoRecord /\ manifest # NoManifest
  BY <1>1, <1>3 DEF FilesInv, PackageInv
<1>6. s \in State /\ s.hasRecord = loc[a].st.hasRecord
  <2>1. loc[a].st.version + 1 \in Nat /\ loc[a].now \in Times /\ "PACKAGED" \in Stages
    BY <1>4, LocalTypes DEF State, Local, Stages
  <2>2. s \in State
    BY <1>4, <2>1 DEF State
  <2>3. s.hasRecord = loc[a].st.hasRecord
    BY <1>4 DEF State
  <2>4. QED
    BY <2>2, <2>3
<1> HIDE DEF s
<1>7. FilesStay /\ state' # NoState
  BY <1>1, <1>6, NotNone DEF FilesStay
<1>8. RunTypes'
  BY <1>1, <1>3, <1>6, IdleTypes DEF FilesInv, RunTypes
<1>9. PrepareInv'
  BY <1>1, <1>2, <1>4 DEF FilesInv, PrepareInv
<1>10. PackageInv' /\ PackageHasLiveApproval'
  BY <1>1, <1>2 DEF FilesInv, PackageInv, PackageHasLiveApproval, Filling
<1>11. \A b \in Actors : CallInv(b)'
  <2>1. Holds("idle", Idle)'
    BY <1>7, IdleHolds, HoldsStays
  <2>2. QED
    BY <1>1, <1>3, <1>7, <2>1, IdleTypes, CallsKeep
<1>12. NamesFiles(state)'
  BY <1>1, <1>4, <1>5, <1>6 DEF NamesFiles
<1>13. QED
  BY <1>8, <1>9, <1>10, <1>11, <1>12 DEF FilesInv

LEMMA FilesUnchanged ==
    ASSUME FilesInv, subject' \in Subjects,
           UNCHANGED <<runDir, written, record, trace, state, package, pc, loc, crashes, overlapped>>
    PROVE  FilesInv'
<1>1. UNCHANGED <<pkgDir, draft, bundle, manifest>>
  BY DEF package
<1>2. RunTypes'
  BY <1>1 DEF FilesInv, RunTypes
<1>3. PrepareInv' /\ PackageInv' /\ PackageHasLiveApproval'
  BY <1>1 DEF FilesInv, PrepareInv, PackageInv, PackageHasLiveApproval
<1>4. \A b \in Actors : CallInv(b)'
  BY <1>1 DEF FilesInv, CallInv, Holds, NamesFiles
<1>5. state' # NoState => NamesFiles(state)'
  BY <1>1 DEF FilesInv, NamesFiles
<1>6. QED
  BY <1>2, <1>3, <1>4, <1>5 DEF FilesInv

LEMMA FilesStep == FilesInv /\ [Next]_vars => FilesInv'
<1> SUFFICES ASSUME FilesInv, [Next]_vars PROVE FilesInv'
  OBVIOUS
<1>1. ASSUME NEW a \in Actors, Step(a) PROVE FilesInv'
  BY <1>1, PrepareKeeps, PrepareMkdirKeeps, PrepareWriteKeeps, PrepareStateKeeps,
     ApproveLoadKeeps, ApproveReadKeeps, ApproveWriteRecordKeeps, ApproveWriteTraceKeeps,
     ApproveWriteStateKeeps, PackageLoadKeeps, PackageReadKeeps, PackageCheckKeeps,
     PackageMkdirKeeps, PackageDraftKeeps, PackageBundleKeeps, PackageWriteManifestKeeps,
     PackageWriteTraceKeeps, PackageWriteStateKeeps, CrashKeeps DEF Step
<1>2. CASE EditArtifact
  BY <1>2, FilesUnchanged DEF EditArtifact
<1>3. CASE UNCHANGED vars
  <2>1. subject \in Subjects
    BY DEF FilesInv, RunTypes
  <2>2. QED
    BY <1>3, <2>1, FilesUnchanged DEF vars, package
<1>4. QED
  BY <1>1, <1>2, <1>3 DEF Next

(* A package manifest on disk was produced under a live, bound APPROVE of  *)
(* exactly the artifacts it holds, whatever calls interleaved or crashed   *)
(* and whatever was edited.                                                *)
THEOREM PackageAlwaysHasLiveApproval == Spec => []PackageHasLiveApproval
<1>1. FilesInv => PackageHasLiveApproval
  BY DEF FilesInv
<1>2. QED
  BY <1>1, FilesInitially, FilesStep, PTL DEF Spec

(* run-state.json never names a file that is not there, wherever a crash   *)
(* hit.                                                                    *)
THEOREM StateAlwaysNamesOnlyWrittenFiles == Spec => []StateNamesOnlyWrittenFiles
<1>1. FilesInv => StateNamesOnlyWrittenFiles
  BY DEF FilesInv, RunTypes, PrepareInv, NamesFiles, StateNamesOnlyWrittenFiles
<1>2. QED
  BY <1>1, FilesInitially, FilesStep, PTL DEF Spec

(* The place each writing step starts from.                                *)
LEMMA StepsWrite ==
    ASSUME FilesInv, Next
    PROVE  /\ draft' = draft \/ \E a \in Actors : pc[a] = "draft"
           /\ bundle' = bundle \/ \E a \in Actors : pc[a] = "bundle"
           /\ manifest' = manifest \/ \E a \in Actors : pc[a] = "manifest"
           /\ \/ state' = state
              \/ \E a \in Actors : pc[a] = "write"
              \/ state'.stage \in {"APPROVED", "REJECTED", "REVISION_REQUIRED", "PACKAGED"}
<1>1. CASE EditArtifact
  BY <1>1 DEF EditArtifact, package
<1>2. ASSUME NEW a \in Actors, Step(a)
      PROVE  /\ draft' = draft \/ pc[a] = "draft"
             /\ bundle' = bundle \/ pc[a] = "bundle"
             /\ manifest' = manifest \/ pc[a] = "manifest"
             /\ \/ state' = state
                \/ pc[a] = "write"
                \/ state'.stage \in {"APPROVED", "REJECTED", "REVISION_REQUIRED", "PACKAGED"}
  <2>1. CASE UNCHANGED <<disk, package>>
    BY <2>1 DEF disk, package
  <2>2. CASE PrepareMkdir(a)
    BY <2>2 DEF PrepareMkdir, disk, package
  <2>3. CASE PrepareWrite(a) \/ PrepareState(a)
    BY <2>3 DEF PrepareWrite, PrepareState, Return, Go, package
  <2>4. CASE ApproveWriteRecord(a) \/ ApproveWriteTrace(a)
    BY <2>4 DEF ApproveWriteRecord, ApproveWriteTrace, package
  <2>5. CASE ApproveWriteState(a)
    <3>1. UNCHANGED package /\ pc[a] = "state"
          /\ state' = [loc[a].st EXCEPT !.stage = TargetOf(loc[a].decision), !.version = @ + 1,
                                        !.updated = loc[a].now, !.hasRecord = TRUE]
      BY <2>5 DEF ApproveWriteState, Return, Go
    <3>2. loc[a].st \in State /\ loc[a].decision \in Decisions
      BY <3>1, LocalTypes DEF Holds, Approving, Local
    <3>3. state'.stage = TargetOf(loc[a].decision)
      BY <3>1, <3>2 DEF State
    <3>4. QED
      BY <3>1, <3>2, <3>3, TargetTypes DEF package
  <2>6. CASE PackageMkdir(a)
    BY <2>6 DEF PackageMkdir, disk, package
  <2>7. CASE PackageDraft(a) \/ PackageBundle(a) \/ PackageWriteManifest(a)
    BY <2>7 DEF PackageDraft, PackageBundle, PackageWriteManifest, Go, disk
  <2>8. CASE PackageWriteTrace(a)
    BY <2>8 DEF PackageWriteTrace, package
  <2>9. CASE PackageWriteState(a)
    <3>1. UNCHANGED package /\ pc[a] = "pkgstate"
          /\ state' = [loc[a].st EXCEPT !.stage = "PACKAGED", !.version = @ + 1,
                                        !.updated = loc[a].now, !.hasManifest = TRUE]
      BY <2>9 DEF PackageWriteState, Return, Go
    <3>2. loc[a].st \in State
      BY <3>1, LocalTypes DEF Holds, Packaging, Filling
    <3>3. state'.stage = "PACKAGED"
      BY <3>1, <3>2 DEF State
    <3>4. QED
      BY <3>1, <3>3 DEF package
  <2>10. QED
    BY <1>2, <2>1, <2>2, <2>3, <2>4, <2>5, <2>6, <2>7, <2>8, <2>9
       DEF Step, Prepare, ApproveLoad, ApproveRead, PackageLoad, PackageRead, PackageCheck, Crash
<1>3. QED
  BY <1>1, <1>2 DEF Next

(* No call, however late, overwrites a file of a package or puts a decided *)
(* run back before its gate.                                               *)
THEOREM NothingIsEverTakenBack == Spec => NothingIsTakenBack
<1>1. FilesInv /\ [Next]_vars =>
        [/\ draft # NoRecord => draft' = draft
         /\ bundle # NoRecord => bundle' = bundle
         /\ manifest # NoManifest => manifest' = manifest
         /\ state # NoState /\ state.stage # "AWAITING_APPROVAL"
              => state'.stage \notin {"none", "AWAITING_APPROVAL"}]_vars
  <2> SUFFICES ASSUME FilesInv, Next
               PROVE  /\ draft # NoRecord => draft' = draft
                      /\ bundle # NoRecord => bundle' = bundle
                      /\ manifest # NoManifest => manifest' = manifest
                      /\ state # NoState /\ state.stage # "AWAITING_APPROVAL"
                           => state'.stage \notin {"none", "AWAITING_APPROVAL"}
    OBVIOUS
  <2>1. /\ draft # NoRecord => \A a \in Actors : pc[a] # "draft"
        /\ bundle # NoRecord => \A a \in Actors : pc[a] # "bundle"
        /\ manifest # NoManifest => \A a \in Actors : pc[a] # "manifest"
        /\ state # NoState => \A a \in Actors : pc[a] # "write"
    BY DEF FilesInv, PackageInv, PrepareInv
  <2>2. state # NoState => state.stage # "none"
    BY DEF FilesInv, RunTypes, State, Stages
  <2>3. QED
    BY <2>1, <2>2, StepsWrite
<1>2. QED
  BY <1>1, FilesInitially, FilesStep, PTL DEF Spec, NothingIsTakenBack

-----------------------------------------------------------------------------
(***************************************************************************)
(* Runs whose calls do not overlap.  The invariant says what the disk      *)
(* looks like at each stage, what the one call under way has read and      *)
(* written of it, and, while no call died, that the trace is the expected  *)
(* one except between the write of a trace and the write of its state.     *)
(***************************************************************************)
GateState == [stage |-> "AWAITING_APPROVAL", version |-> GateVersion, updated |-> 0,
              hasRecord |-> FALSE, hasManifest |-> FALSE]
DecidedState(rec) == [stage |-> TargetOf(rec.decision), version |-> GateVersion + 1,
                      updated |-> rec.at, hasRecord |-> TRUE, hasManifest |-> FALSE]
PackagedState(man) == [stage |-> "PACKAGED", version |-> GateVersion + 2,
                       updated |-> man.at, hasRecord |-> TRUE, hasManifest |-> TRUE]

Unprepared == record = NoRecord /\ trace = <<>>
Decided == record \in Record /\ RecordBound(record) /\ state = DecidedState(record)
Packaged ==
    /\ record \in Record /\ manifest \in Manifest
    /\ state = PackagedState(manifest)
    /\ manifest.basis = record /\ manifest.content = Original
    /\ draft = record /\ bundle = record
    /\ Packageable(record, manifest.at, Original)
    /\ trace = ExpectedTail(record, manifest)

DiskInv ==
    /\ state = NoState => Unprepared
    /\ state.stage = "AWAITING_APPROVAL" => state = GateState
    /\ state.stage \in {"APPROVED", "REJECTED", "REVISION_REQUIRED"} => Decided
    /\ state.stage = "PACKAGED" => Packaged

SettledTrace ==
    /\ state.stage = "AWAITING_APPROVAL" => trace = <<>>
    /\ state.stage \in {"APPROVED", "REJECTED", "REVISION_REQUIRED"} =>
          trace = ExpectedTail(record, NoManifest)

(* What the call at p with local l, a's own, knows of the disk.            *)
Follows(a, p, l) ==
    /\ p \in Approving => state = GateState /\ l.st = state
    /\ p \in {"record", "trace", "state"} =>
          /\ l.rec \in Record /\ RecordBound(l.rec)
          /\ l.rec.who = a /\ l.rec.decision = l.decision /\ l.rec.at = l.now
    /\ p \in {"record", "trace"} => l.tail = trace
    /\ p \in {"trace", "state"} => record = l.rec
    /\ p = "state" /\ crashes = 0 => trace = ExpectedTail(record, NoManifest)
    /\ p \in Packaging => state.stage = "APPROVED" /\ l.st = state
    /\ p \in Packaging \ {"package", "pkgstate"} => l.tail = trace
    /\ p \in {"pkgdir"} \cup Filling =>
          l.rec = record /\ l.tail = ExpectedTail(record, NoManifest)
    /\ p \in {"bundle", "manifest", "pkgtrace", "pkgstate"} => draft = record
    /\ p \in {"manifest", "pkgtrace", "pkgstate"} => bundle = record
    /\ p \in {"pkgtrace", "pkgstate"} =>
          manifest = [basis |-> record, content |-> l.seen, at |-> l.now]
    /\ p = "pkgstate" => trace = ExpectedTail(record, manifest)

OneCall == \A a, b \in Actors : pc[a] # "idle" /\ pc[b] # "idle" => a = b
Writing == \E a \in Actors : pc[a] \in {"state", "pkgstate"}

SoloInv ==
    /\ OneCall
    /\ DiskInv
    /\ crashes = 0 /\ ~Writing => SettledTrace
    /\ \A a \in Actors : Follows(a, pc[a], loc[a])

RunInv == FilesInv /\ (~overlapped => SoloInv)

(* What is known of a tail of two or of four events.                       *)
LEMMA Appended ==
    \A a, b, c, d : /\ <<>> \o <<a, b>> = <<a, b>>
                    /\ <<a, b>> \o <<>> = <<a, b>>
                    /\ Len(<<a, b>> \o <<c, d>>) = 4 /\ (<<a, b>> \o <<c, d>>)[4] = d
<1> TAKE a, b, c, d
<1> DEFINE S == {a, b, c, d}
<1>1. /\ <<a, b>> \in Seq(S) /\ <<c, d>> \in Seq(S) /\ <<>> \in Seq(S)
  OBVIOUS
<1>2. <<>> \o <<a, b>> = <<a, b>>
  BY <1>1
<1>3. <<a, b>> \o <<>> = <<a, b>>
  BY <1>1
<1>4. Len(<<a, b>> \o <<c, d>>) = 4 /\ (<<a, b>> \o <<c, d>>)[4] = d
  BY <1>1
<1>5. QED
  BY <1>2, <1>3, <1>4

(* The two forms of an expected tail.                                      *)
LEMMA TailOfDecision ==
    ASSUME NEW rec \in Record
    PROVE  ExpectedTail(rec, NoManifest) =
             <<ApprovalEvent(rec),
               TransitionEvent(rec.who, rec.at, <<"AWAITING_APPROVAL", GateVersion>>,
                               <<TargetOf(rec.decision), GateVersion + 1>>)>>
  BY NotNone, Appended DEF ExpectedTail

LEMMA TailOfPackage ==
    ASSUME NEW rec \in Record, NEW man \in Manifest
    PROVE  ExpectedTail(rec, man) =
             ExpectedTail(rec, NoManifest) \o
             <<PackageEvent(man),
               TransitionEvent("PF-A1", man.at, <<"APPROVED", GateVersion + 1>>,
                               <<"PACKAGED", GateVersion + 2>>)>>
  BY NotNone, Appended DEF ExpectedTail

(* What TraceIntegrity asks of a run as the invariant describes it.        *)
LEMMA IntegrityOfGate == TraceIntegrity(GateState, <<>>, NoRecord, NoManifest)
<1>1. ExpectedTail(NoRecord, NoManifest) = <<>>
  BY DEF ExpectedTail
<1>2. QED
  BY <1>1 DEF TraceIntegrity, GateState, GateVersion

LEMMA IntegrityOfDecision ==
    ASSUME NEW rec \in Record
    PROVE  TraceIntegrity(DecidedState(rec), ExpectedTail(rec, NoManifest), rec, NoManifest)
<1> DEFINE e == ApprovalEvent(rec)
           f == TransitionEvent(rec.who, rec.at, <<"AWAITING_APPROVAL", GateVersion>>,
                                <<TargetOf(rec.decision), GateVersion + 1>>)
           t == ExpectedTail(rec, NoManifest)
<1>1. t = <<e, f>>
  BY TailOfDecision
<1>2. f.output = <<TargetOf(rec.decision), GateVersion + 1>> /\ f.at = rec.at
  BY DEF TransitionEvent
<1> HIDE DEF e, f, t
<1>3. t # <<>> /\ t[Len(t)] = f
  BY <1>1
<1>4. rec # NoRecord
  BY NotNone
<1>5. QED
  BY <1>2, <1>3, <1>4 DEF TraceIntegrity, DecidedState, GateVersion, t

LEMMA IntegrityOfPackage ==
    ASSUME NEW rec \in Record, NEW man \in Manifest, rec.at <= man.at
    PROVE  TraceIntegrity(PackagedState(man), ExpectedTail(rec, man), rec, man)
<1> DEFINE e == ApprovalEvent(rec)
           f == TransitionEvent(rec.who, rec.at, <<"AWAITING_APPROVAL", GateVersion>>,
                                <<TargetOf(rec.decision), GateVersion + 1>>)
           g == PackageEvent(man)
           h == TransitionEvent("PF-A1", man.at, <<"APPROVED", GateVersion + 1>>,
                                <<"PACKAGED", GateVersion + 2>>)
           t == ExpectedTail(rec, man)
<1>1. t = <<e, f>> \o <<g, h>>
  BY TailOfDecision, TailOfPackage
<1>2. h.output = <<"PACKAGED", GateVersion + 2>> /\ h.at = man.at
  BY DEF TransitionEvent
<1> HIDE DEF e, f, g, h, t
<1>3. t # <<>> /\ t[Len(t)] = h
  BY <1>1, Appended
<1>4. rec # NoRecord /\ man # NoManifest
  BY NotNone
<1>5. QED
  BY <1>2, <1>3, <1>4 DEF TraceIntegrity, PackagedState, GateVersion, t

(* A run the invariant describes verifies.                                 *)
LEMMA SoloVerifies ==
    ASSUME FilesInv, SoloInv, state # NoState, subject = Original,
           state.stage = "PACKAGED" \/ (AllIdle /\ crashes = 0)
    PROVE  Verified
<1>1. CASE state.stage = "PACKAGED"
  <2>1. Packaged
    BY <1>1 DEF SoloInv, DiskInv
  <2>2. state.hasRecord /\ state.hasManifest
    BY <2>1 DEF Packaged, PackagedState
  <2>3. TraceIntegrity(state, trace, record, manifest)
    BY <2>1, IntegrityOfPackage DEF Packaged, Packageable
  <2>4. RecordVerified /\ PackageVerified
    BY <1>1, <2>1, <2>2, NotNone DEF Packaged, Packageable, RecordBound, RecordVerified, PackageVerified,
       ExpectedDecision
  <2>5. QED
    BY <2>2, <2>3, <2>4 DEF Verified
<1>2. CASE AllIdle /\ crashes = 0 /\ state.stage # "PACKAGED"
  <2>1. SettledTrace
    BY <1>2 DEF SoloInv, AllIdle, Writing
  <2>2. CASE state.stage = "AWAITING_APPROVAL"
    <3>1. state = GateState /\ trace = <<>>
      BY <2>1, <2>2 DEF SoloInv, DiskInv, SettledTrace
    <3>2. ~state.hasRecord /\ ~state.hasManifest
      BY <3>1 DEF GateState
    <3>3. TraceIntegrity(state, trace, NoRecord, NoManifest)
      BY <3>1, IntegrityOfGate
    <3>4. QED
      BY <2>2, <3>2, <3>3 DEF Verified, RecordVerified, PackageVerified
  <2>3. CASE state.stage \in {"APPROVED", "REJECTED", "REVISION_REQUIRED"}
    <3>1. Decided /\ trace = ExpectedTail(record, NoManifest)
      BY <2>1, <2>3 DEF SoloInv, DiskInv, SettledTrace
    <3>2. state.hasRecord /\ ~state.hasManifest /\ state.stage = TargetOf(record.decision)
      BY <3>1 DEF Decided, DecidedState
    <3>3. TraceIntegrity(state, trace, record, NoManifest)
      BY <3>1, IntegrityOfDecision DEF Decided
    <3>4. record.decision \in Decisions /\ record # NoRecord
      BY <3>1, NotNone DEF Decided, Record
    <3>5. record.decision = ExpectedDecision(state.stage)
      BY <3>2, <3>4 DEF ExpectedDecision, TargetOf, Decisions
    <3>6. RecordVerified
      BY <2>3, <3>1, <3>2, <3>4, <3>5 DEF RecordVerified, Decided, RecordBound
    <3>7. PackageVerified
      BY <2>3, <3>2 DEF PackageVerified
    <3>8. QED
      BY <3>2, <3>3, <3>6, <3>7 DEF Verified
  <2>4. state.stage \in Stages
    BY DEF FilesInv, RunTypes, State
  <2>5. QED
    BY <1>2, <2>2, <2>3, <2>4 DEF Stages
<1>3. QED
  BY <1>1, <1>2

LEMMA OthersIdle ==
    ASSUME SoloInv, NEW a \in Actors, pc[a] # "idle"
    PROVE  \A b \in Actors : b # a => pc[b] = "idle"
  BY DEF SoloInv, OneCall

LEMMA BeginAlone ==
    ASSUME NEW a \in Actors, NEW p, Begin(a, p), ~overlapped'
    PROVE  /\ \A b \in Actors : b # a => pc[b] = "idle"
           /\ pc[a] = "idle" /\ pc' = [pc EXCEPT ![a] = p] /\ ~overlapped
  BY DEF Begin, Go

LEMMA IdleFollows == \A a, l : Follows(a, "idle", l) /\ Follows(a, "mkdir", l) /\ Follows(a, "write", l)
  BY DEF Follows, Approving, Packaging, Filling

(* The one call moves: what it now knows is true, nobody else knows        *)
(* anything.                                                               *)
LEMMA SoloMoves ==
    ASSUME FilesInv, SoloInv, NEW a \in Actors, NEW p, NEW l,
           \A b \in Actors : b # a => pc[b] = "idle",
           pc' = [pc EXCEPT ![a] = p], loc' = [loc EXCEPT ![a] = l],
           Follows(a, p, l)', DiskInv',
           crashes' = 0 /\ p \notin {"state", "pkgstate"} => SettledTrace'
    PROVE  SoloInv'
<1>1. pc'[a] = p /\ loc'[a] = l /\ \A b \in Actors : b # a => pc'[b] = "idle"
  BY DEF FilesInv, RunTypes
<1>2. OneCall'
  BY <1>1 DEF OneCall
<1>3. crashes' = 0 /\ ~Writing' => SettledTrace'
  BY <1>1 DEF Writing
<1>4. ASSUME NEW b \in Actors PROVE Follows(b, pc[b], loc[b])'
  <2>1. CASE b = a
    BY <1>1, <2>1
  <2>2. CASE b # a
    <3>1. pc'[b] = "idle"
      BY <1>1, <2>2
    <3>2. QED
      BY <3>1 DEF Follows, Approving, Packaging, Filling
  <2>3. QED
    BY <2>1, <2>2
<1>5. QED
  BY <1>2, <1>3, <1>4 DEF SoloInv

(* The same when the files the invariant speaks of stay as they are.       *)
LEMMA SoloReads ==
    ASSUME FilesInv, SoloInv, NEW a \in Actors, NEW p, NEW l, p \notin {"state", "pkgstate"},
           \A b \in Actors : b # a => pc[b] = "idle",
           pc' = [pc EXCEPT ![a] = p], loc' = [loc EXCEPT ![a] = l], Follows(a, p, l),
           UNCHANGED <<record, trace, state, draft, bundle, manifest>>,
           crashes' # 0 \/ (crashes' = crashes /\ pc[a] \notin {"state", "pkgstate"})
    PROVE  SoloInv'
<1>1. DiskInv'
  BY DEF SoloInv, DiskInv, Unprepared, Decided, Packaged
<1>2. Follows(a, p, l)'
  BY DEF Follows
<1>3. ASSUME crashes' = 0 PROVE SettledTrace'
  <2>1. crashes = 0 /\ ~Writing
    BY <1>3 DEF Writing
  <2>2. SettledTrace
    BY <2>1 DEF SoloInv
  <2>3. QED
    BY <2>2 DEF SettledTrace
<1>4. QED
  BY <1>1, <1>2, <1>3, SoloMoves

LEMMA SoloReturns ==
    ASSUME FilesInv, SoloInv, NEW a \in Actors, pc[a] # "idle",
           pc' = [pc EXCEPT ![a] = "idle"], loc' = [loc EXCEPT ![a] = Idle],
           UNCHANGED <<disk, package>>,
           crashes' # 0 \/ (crashes' = crashes /\ pc[a] \notin {"state", "pkgstate"})
    PROVE  SoloInv'
<1>1. UNCHANGED <<record, trace, state, draft, bundle, manifest>>
  BY DEF disk, package
<1>2. QED
  BY <1>1, OthersIdle, IdleFollows, SoloReads

LEMMA PrepareSolo ==
    ASSUME FilesInv, SoloInv, NEW a \in Actors, ~overlapped', Prepare(a) PROVE SoloInv'
<1>1. PICK l : l = loc[a]
  OBVIOUS
<1>2. loc' = [loc EXCEPT ![a] = l] /\ crashes' = crashes
      /\ UNCHANGED <<record, trace, state, draft, bundle, manifest>>
  BY <1>1, LocalTypes DEF Prepare, disk, package
<1>3. /\ \A b \in Actors : b # a => pc[b] = "idle"
      /\ pc[a] = "idle" /\ pc' = [pc EXCEPT ![a] = "mkdir"]
  BY BeginAlone DEF Prepare
<1>4. QED
  BY <1>2, <1>3, IdleFollows, SoloReads

LEMMA PrepareMkdirSolo ==
    ASSUME FilesInv, SoloInv, NEW a \in Actors, PrepareMkdir(a) PROVE SoloInv'
<1>1. CASE Return(a, "mkdir") /\ UNCHANGED <<disk, package, crashes>>
  BY <1>1, SoloReturns DEF Return, Go
<1>2. CASE Go(a, "mkdir", "write") /\ UNCHANGED <<record, trace, state, package, loc, crashes>>
  <2>1. PICK l : l = loc[a]
    OBVIOUS
  <2>2. loc' = [loc EXCEPT ![a] = l] /\ crashes' = crashes
        /\ UNCHANGED <<record, trace, state, draft, bundle, manifest>>
        /\ pc[a] = "mkdir" /\ pc' = [pc EXCEPT ![a] = "write"]
    BY <1>2, <2>1, LocalTypes DEF Go, package
  <2>3. \A b \in Actors : b # a => pc[b] = "idle"
    BY <2>2, OthersIdle
  <2>4. QED
    BY <2>2, <2>3, IdleFollows, SoloReads
<1>3. QED
  BY <1>1, <1>2 DEF PrepareMkdir

LEMMA PrepareWriteSolo ==
    ASSUME FilesInv, SoloInv, NEW a \in Actors, PrepareWrite(a) PROVE SoloInv'
<1>1. PICK l : l = loc[a]
  OBVIOUS
<1>2. loc' = [loc EXCEPT ![a] = l] /\ crashes' = crashes
      /\ UNCHANGED <<record, trace, state, draft, bundle, manifest>>
      /\ pc[a] = "write" /\ pc' = [pc EXCEPT ![a] = "write"]
  BY <1>1, LocalTypes DEF PrepareWrite, package
<1>3. \A b \in Actors : b # a => pc[b] = "idle"
  BY <1>2, OthersIdle
<1>4. QED
  BY <1>2, <1>3, IdleFollows, SoloReads

LEMMA PrepareStateSolo ==
    ASSUME FilesInv, SoloInv, NEW a \in Actors, PrepareState(a) PROVE SoloInv'
<1>1. /\ pc[a] = "write" /\ pc' = [pc EXCEPT ![a] = "idle"] /\ loc' = [loc EXCEPT ![a] = Idle]
      /\ state' = GateState /\ trace' = trace /\ record' = record
  BY DEF PrepareState, Return, Go, GateState
<1>2. state = NoState
  BY <1>1 DEF FilesInv, PrepareInv
<1>3. trace = <<>>
  BY <1>2 DEF SoloInv, DiskInv, Unprepared
<1>4. state'.stage = "AWAITING_APPROVAL" /\ state' # NoState
  BY <1>1 DEF GateState, NoState
<1>5. DiskInv' /\ SettledTrace'
  BY <1>1, <1>3, <1>4 DEF DiskInv, SettledTrace
<1>6. Follows(a, "idle", Idle)'
  BY DEF Follows, Approving, Packaging, Filling
<1>7. QED
  BY <1>1, <1>5, <1>6, OthersIdle, SoloMoves

LEMMA ApproveLoadSolo ==
    ASSUME FilesInv, SoloInv, NEW a \in Actors, NEW role \in Roles, NEW decision \in Decisions,
           NEW now \in Times, ~overlapped', ApproveLoad(a, role, decision, now)
    PROVE  SoloInv'
<1> DEFINE l == [Idle EXCEPT !.now = now, !.role = role, !.decision = decision, !.st = state]
<1>1. /\ loc' = [loc EXCEPT ![a] = l] /\ crashes' = crashes
      /\ UNCHANGED <<record, trace, state, draft, bundle, manifest>>
  BY DEF ApproveLoad, disk, package
<1>2. /\ \A b \in Actors : b # a => pc[b] = "idle"
      /\ pc[a] = "idle" /\ pc' = [pc EXCEPT ![a] = "approve"]
  BY BeginAlone DEF ApproveLoad
<1>3. l.st = state
  BY DEF Idle
<1>4. state = GateState
  BY DEF ApproveLoad, SoloInv, DiskInv
<1>5. PICK m : m = l
  OBVIOUS
<1> HIDE DEF l
<1>6. Follows(a, "approve", m)
  BY <1>3, <1>4, <1>5 DEF Follows, Packaging, Filling
<1>7. QED
  BY <1>1, <1>2, <1>5, <1>6, SoloReads

LEMMA ApproveReadSolo ==
    ASSUME FilesInv, SoloInv, NEW a \in Actors, ApproveRead(a) PROVE SoloInv'
<1>1. CASE Return(a, "approve")
  BY <1>1, SoloReturns DEF Return, Go, ApproveRead
<1>2. CASE /\ ApprovalGranted(loc[a].role, loc[a].now, subject)
           /\ Go(a, "approve", "record")
           /\ loc' = [loc EXCEPT ![a].seen = subject, ![a].tail = trace, ![a].rec = DecisionOf(a)]
  <2> DEFINE l == [loc[a] EXCEPT !.seen = subject, !.tail = trace, !.rec = DecisionOf(a)]
  <2>1. /\ pc[a] = "approve" /\ pc' = [pc EXCEPT ![a] = "record"] /\ loc' = [loc EXCEPT ![a] = l]
        /\ UNCHANGED <<record, trace, state, draft, bundle, manifest>> /\ crashes' = crashes
    BY <1>2 DEF Go, ApproveRead, disk, package
  <2>2. /\ l.st = loc[a].st /\ l.rec = DecisionOf(a) /\ l.tail = trace
        /\ l.now = loc[a].now /\ l.decision = loc[a].decision
    BY LocalTypes DEF Local
  <2>3. PICK m : m = l
    OBVIOUS
  <2> HIDE DEF l
  <2>4. state = GateState /\ loc[a].st = state
    BY <2>1 DEF SoloInv, Follows, Approving
  <2>5. /\ DecisionOf(a) \in Record /\ RecordBound(DecisionOf(a))
        /\ DecisionOf(a).who = a /\ DecisionOf(a).decision = loc[a].decision
        /\ DecisionOf(a).at = loc[a].now
    BY <1>2, DecisionTypes DEF DecisionOf, ApprovalGranted, RecordBound
  <2>6. Follows(a, "record", m)
    BY <2>2, <2>3, <2>4, <2>5 DEF Follows, Packaging, Filling
  <2>7. \A b \in Actors : b # a => pc[b] = "idle"
    BY <2>1, OthersIdle
  <2>8. QED
    BY <2>1, <2>3, <2>6, <2>7, SoloReads
<1>3. QED
  BY <1>1, <1>2 DEF ApproveRead

LEMMA ApproveWriteRecordSolo ==
    ASSUME FilesInv, SoloInv, NEW a \in Actors, ApproveWriteRecord(a) PROVE SoloInv'
<1>1. PICK l : l = loc[a]
  OBVIOUS
<1>2. /\ pc[a] = "record" /\ pc' = [pc EXCEPT ![a] = "trace"] /\ loc' = [loc EXCEPT ![a] = l]
      /\ record' = l.rec /\ UNCHANGED <<trace, state, draft, bundle, manifest>> /\ crashes' = crashes
  BY <1>1, LocalTypes DEF ApproveWriteRecord, Go, package
<1>3. Follows(a, "record", l)
  BY <1>1, <1>2 DEF SoloInv
<1>4. state = GateState /\ state.stage = "AWAITING_APPROVAL" /\ state # NoState
  BY <1>3 DEF Follows, Approving, GateState, NoState
<1>5. DiskInv'
  BY <1>2, <1>4 DEF DiskInv
<1>6. Follows(a, "trace", l)'
  BY <1>2, <1>3 DEF Follows, Approving, Packaging, Filling
<1>7. \A b \in Actors : b # a => pc[b] = "idle"
  BY <1>2, OthersIdle
<1>8. ASSUME crashes' = 0 PROVE SettledTrace'
  <2>1. SettledTrace
    BY <1>2, <1>7, <1>8 DEF SoloInv, Writing
  <2>2. QED
    BY <1>2, <1>4, <2>1 DEF SettledTrace
<1>9. QED
  BY <1>2, <1>5, <1>6, <1>7, <1>8, SoloMoves

LEMMA ApproveWriteTraceSolo ==
    ASSUME FilesInv, SoloInv, NEW a \in Actors, ApproveWriteTrace(a) PROVE SoloInv'
<1>1. PICK l : l = loc[a]
  OBVIOUS
<1>2. /\ pc[a] = "trace" /\ pc' = [pc EXCEPT ![a] = "state"] /\ loc' = [loc EXCEPT ![a] = l]
      /\ trace' = l.tail \o
           <<ApprovalEvent(l.rec),
             TransitionEvent(a, l.now, <<l.st.stage, l.st.version>>,
                             <<TargetOf(l.decision), l.st.version + 1>>)>>
      /\ UNCHANGED <<record, state, draft, bundle, manifest>> /\ crashes' = crashes
  BY <1>1, LocalTypes DEF ApproveWriteTrace, Go, package
<1>3. Follows(a, "trace", l)
  BY <1>1, <1>2 DEF SoloInv
<1>4. state = GateState /\ state.stage = "AWAITING_APPROVAL" /\ state # NoState
  BY <1>3 DEF Follows, Approving, GateState, NoState
<1>5. DiskInv'
  BY <1>2, <1>4 DEF DiskInv
<1>6. \A b \in Actors : b # a => pc[b] = "idle"
  BY <1>2, OthersIdle
<1>7. ASSUME crashes' = 0 PROVE trace' = ExpectedTail(record', NoManifest)
  <2>1. SettledTrace
    BY <1>2, <1>6, <1>7 DEF SoloInv, Writing
  <2>2. l.tail = <<>> /\ l.rec \in Record /\ record = l.rec
        /\ l.rec.who = a /\ l.rec.at = l.now /\ l.rec.decision = l.decision
    BY <1>3, <1>4, <2>1 DEF SettledTrace, Follows
  <2>3. l.st.stage = "AWAITING_APPROVAL" /\ l.st.version = GateVersion
    BY <1>3, <1>4 DEF Follows, Approving, GateState
  <2>4. trace' = <<ApprovalEvent(l.rec),
             TransitionEvent(a, l.now, <<l.st.stage, l.st.version>>,
                             <<TargetOf(l.decision), l.st.version + 1>>)>>
    BY <1>2, <2>2, Appended
  <2>5. QED
    BY <1>2, <2>2, <2>3, <2>4, TailOfDecision
<1>8. Follows(a, "state", l)'
  BY <1>2, <1>3, <1>7 DEF Follows, Approving, Packaging, Filling
<1>9. QED
  BY <1>2, <1>5, <1>6, <1>8, SoloMoves

LEMMA ApproveWriteStateSolo ==
    ASSUME FilesInv, SoloInv, NEW a \in Actors, ApproveWriteState(a)
    PROVE  SoloInv' /\ state' = DecidedState(record) /\ record' = record /\ Decided'
<1>1. PICK l : l = loc[a]
  OBVIOUS
<1>2. /\ pc[a] = "state" /\ pc' = [pc EXCEPT ![a] = "idle"] /\ loc' = [loc EXCEPT ![a] = Idle]
      /\ state' = [l.st EXCEPT !.stage = TargetOf(l.decision), !.version = @ + 1,
                               !.updated = l.now, !.hasRecord = TRUE]
      /\ UNCHANGED <<record, trace>> /\ crashes' = crashes
  BY <1>1 DEF ApproveWriteState, Return, Go
<1>3. Follows(a, "state", l)
  BY <1>1, <1>2 DEF SoloInv
<1>4. l.st = GateState /\ record = l.rec /\ record \in Record /\ RecordBound(record)
      /\ record.decision = l.decision /\ record.at = l.now
  BY <1>3 DEF Follows, Approving
<1>5. state' = DecidedState(record)
  <2>1. /\ l.st \in State /\ l.st.version + 1 \in Nat
        /\ l.now \in Times /\ TargetOf(l.decision) \in Stages
    <3>1. l.st \in State /\ l.now \in Times /\ l.decision \in Decisions
      BY <1>1, <1>2, LocalTypes DEF Local, Holds, Approving
    <3>2. l.st.version + 1 \in Nat
      BY <3>1 DEF State
    <3>3. TargetOf(l.decision) \in Stages
      BY DEF TargetOf, Stages
    <3>4. QED
      BY <3>1, <3>2, <3>3
  <2>2. state' \in State
    BY <1>2, <2>1 DEF State
  <2>3. /\ state'.stage = TargetOf(record.decision) /\ state'.version = l.st.version + 1
        /\ state'.updated = record.at /\ state'.hasRecord = TRUE
        /\ state'.hasManifest = l.st.hasManifest
    BY <1>2, <1>4, <2>1 DEF State
  <2>4. l.st.version = GateVersion /\ l.st.hasManifest = FALSE
    BY <1>4 DEF GateState
  <2>5. QED
    BY <2>2, <2>3, <2>4 DEF State, DecidedState
<1>6. state'.stage \in {"APPROVED", "REJECTED", "REVISION_REQUIRED"}
  BY <1>5 DEF DecidedState, TargetOf
<1>7. Decided'
  BY <1>2, <1>4, <1>5 DEF Decided, RecordBound
<1>8. DiskInv'
  BY <1>6, <1>7 DEF DiskInv, NoState
<1>9. crashes' = 0 => SettledTrace'
  BY <1>2, <1>3, <1>6 DEF Follows, SettledTrace
<1>10. Follows(a, "idle", Idle)'
  BY DEF Follows, Approving, Packaging, Filling
<1>11. SoloInv'
  BY <1>2, <1>8, <1>9, <1>10, OthersIdle, SoloMoves
<1>12. QED
  BY <1>2, <1>5, <1>7, <1>11

LEMMA PackageLoadSolo ==
    ASSUME FilesInv, SoloInv, NEW a \in Actors, NEW now \in Times, ~overlapped',
           PackageLoad(a, now)
    PROVE  SoloInv'
<1> DEFINE l == [Idle EXCEPT !.now = now, !.st = state]
<1>1. /\ loc' = [loc EXCEPT ![a] = l] /\ crashes' = crashes
      /\ UNCHANGED <<record, trace, state, draft, bundle, manifest>>
  BY DEF PackageLoad, disk, package
<1>2. /\ \A b \in Actors : b # a => pc[b] = "idle"
      /\ pc[a] = "idle" /\ pc' = [pc EXCEPT ![a] = "package"]
  BY BeginAlone DEF PackageLoad
<1>3. l.st = state
  BY DEF Idle
<1>4. state.stage = "APPROVED"
  BY DEF PackageLoad
<1>5. PICK m : m = l
  OBVIOUS
<1> HIDE DEF l
<1>6. Follows(a, "package", m)
  BY <1>3, <1>4, <1>5 DEF Follows, Approving, Filling
<1>7. QED
  BY <1>1, <1>2, <1>5, <1>6, SoloReads

LEMMA PackageReadSolo ==
    ASSUME FilesInv, SoloInv, NEW a \in Actors, PackageRead(a) PROVE SoloInv'
<1> DEFINE l == [loc[a] EXCEPT !.seen = subject, !.tail = trace]
<1>1. /\ pc[a] = "package" /\ pc' = [pc EXCEPT ![a] = "check"] /\ loc' = [loc EXCEPT ![a] = l]
      /\ UNCHANGED <<record, trace, state, draft, bundle, manifest>> /\ crashes' = crashes
  BY DEF PackageRead, Go, disk, package
<1>2. l.st = loc[a].st /\ l.tail = trace
  BY LocalTypes DEF Local
<1>3. PICK m : m = l
  OBVIOUS
<1> HIDE DEF l
<1>4. state.stage = "APPROVED" /\ loc[a].st = state
  BY <1>1 DEF SoloInv, Follows, Packaging
<1>5. Follows(a, "check", m)
  BY <1>2, <1>3, <1>4 DEF Follows, Approving, Filling
<1>6. \A b \in Actors : b # a => pc[b] = "idle"
  BY <1>1, OthersIdle
<1>7. QED
  BY <1>1, <1>3, <1>5, <1>6, SoloReads

LEMMA PackageCheckSolo ==
    ASSUME FilesInv, SoloInv, NEW a \in Actors, PackageCheck(a) PROVE SoloInv'
<1>1. CASE Return(a, "check")
  BY <1>1, SoloReturns DEF Return, Go, PackageCheck
<1>2. CASE /\ PackageAllowed(a, record) /\ Go(a, "check", "pkgdir")
           /\ loc' = [loc EXCEPT ![a].rec = record]
  <2> DEFINE l == [loc[a] EXCEPT !.rec = record]
  <2>1. /\ pc[a] = "check" /\ pc' = [pc EXCEPT ![a] = "pkgdir"] /\ loc' = [loc EXCEPT ![a] = l]
        /\ UNCHANGED <<record, trace, state, draft, bundle, manifest>> /\ crashes' = crashes
    BY <1>2 DEF Go, PackageCheck, disk, package
  <2>2. l.st = loc[a].st /\ l.tail = loc[a].tail /\ l.rec = record
    BY LocalTypes DEF Local
  <2>3. PICK m : m = l
    OBVIOUS
  <2> HIDE DEF l
  <2>4. state.stage = "APPROVED" /\ loc[a].st = state /\ loc[a].tail = trace
    BY <2>1 DEF SoloInv, Follows, Packaging
  <2>5. loc[a].tail = ExpectedTail(record, NoManifest)
    BY <1>2 DEF PackageAllowed, TraceIntegrity
  <2>6. Follows(a, "pkgdir", m)
    BY <2>2, <2>3, <2>4, <2>5 DEF Follows, Approving, Filling
  <2>7. \A b \in Actors : b # a => pc[b] = "idle"
    BY <2>1, OthersIdle
  <2>8. QED
    BY <2>1, <2>3, <2>6, <2>7, SoloReads
<1>3. QED
  BY <1>1, <1>2 DEF PackageCheck

LEMMA PackageMkdirSolo ==
    ASSUME FilesInv, SoloInv, NEW a \in Actors, PackageMkdir(a) PROVE SoloInv'
<1>1. CASE Return(a, "pkgdir") /\ UNCHANGED <<disk, package, crashes>>
  BY <1>1, SoloReturns DEF Return, Go
<1>2. CASE Go(a, "pkgdir", "draft")
           /\ UNCHANGED <<disk, draft, bundle, manifest, loc, crashes>>
  <2>1. PICK l : l = loc[a]
    OBVIOUS
  <2>2. /\ pc[a] = "pkgdir" /\ pc' = [pc EXCEPT ![a] = "draft"] /\ loc' = [loc EXCEPT ![a] = l]
        /\ UNCHANGED <<record, trace, state, draft, bundle, manifest>> /\ crashes' = crashes
    BY <1>2, <2>1, LocalTypes DEF Go, disk
  <2>3. Follows(a, "pkgdir", l)
    BY <2>1, <2>2 DEF SoloInv
  <2>4. Follows(a, "draft", l)
    BY <2>3 DEF Follows, Approving, Packaging, Filling
  <2>5. QED
    BY <2>2, <2>4, OthersIdle, SoloReads
<1>3. QED
  BY <1>1, <1>2 DEF PackageMkdir

(* A file of the package is written while the run is APPROVED.             *)
LEMMA FillingSolo ==
    ASSUME FilesInv, SoloInv, NEW a \in Actors, NEW p, NEW l,
           p \notin {"state", "pkgstate"},
           pc[a] \in {"draft", "bundle", "manifest"}, l = loc[a],
           pc' = [pc EXCEPT ![a] = p], UNCHANGED <<record, trace, state, loc, crashes>>,
           Follows(a, p, l)'
    PROVE  SoloInv'
<1>1. loc' = [loc EXCEPT ![a] = l]
  BY LocalTypes
<1>2. state.stage = "APPROVED"
  BY DEF SoloInv, Follows, Packaging, Filling
<1>3. DiskInv'
  BY <1>2 DEF SoloInv, DiskInv, Decided, NoState
<1>4. \A b \in Actors : b # a => pc[b] = "idle"
  BY OthersIdle
<1>5. ASSUME crashes' = 0 PROVE SettledTrace'
  <2>1. SettledTrace
    BY <1>4, <1>5 DEF SoloInv, Writing
  <2>2. QED
    BY <2>1 DEF SettledTrace
<1>6. QED
  BY <1>1, <1>3, <1>4, <1>5, SoloMoves

LEMMA PackageDraftSolo ==
    ASSUME FilesInv, SoloInv, NEW a \in Actors, PackageDraft(a) PROVE SoloInv'
<1>1. PICK l : l = loc[a]
  OBVIOUS
<1>2. /\ pc[a] = "draft" /\ pc' = [pc EXCEPT ![a] = "bundle"] /\ draft' = l.rec
      /\ UNCHANGED <<record, trace, state, loc, crashes>> /\ UNCHANGED <<bundle, manifest>>
  BY <1>1 DEF PackageDraft, Go, disk
<1>3. Follows(a, "draft", l)
  BY <1>1, <1>2 DEF SoloInv
<1>4. Follows(a, "bundle", l)'
  BY <1>2, <1>3 DEF Follows, Approving, Packaging, Filling
<1>5. QED
  BY <1>1, <1>2, <1>4, FillingSolo

LEMMA PackageBundleSolo ==
    ASSUME FilesInv, SoloInv, NEW a \in Actors, PackageBundle(a) PROVE SoloInv'
<1>1. PICK l : l = loc[a]
  OBVIOUS
<1>2. /\ pc[a] = "bundle" /\ pc' = [pc EXCEPT ![a] = "manifest"] /\ bundle' = l.rec
      /\ UNCHANGED <<record, trace, state, loc, crashes>> /\ UNCHANGED <<draft, manifest>>
  BY <1>1 DEF PackageBundle, Go, disk
<1>3. Follows(a, "bundle", l)
  BY <1>1, <1>2 DEF SoloInv
<1>4. Follows(a, "manifest", l)'
  BY <1>2, <1>3 DEF Follows, Approving, Packaging, Filling
<1>5. QED
  BY <1>1, <1>2, <1>4, FillingSolo

LEMMA PackageWriteManifestSolo ==
    ASSUME FilesInv, SoloInv, NEW a \in Actors, PackageWriteManifest(a) PROVE SoloInv'
<1>1. PICK l : l = loc[a]
  OBVIOUS
<1>2. /\ pc[a] = "manifest" /\ pc' = [pc EXCEPT ![a] = "pkgtrace"]
      /\ manifest' = [basis |-> l.rec, content |-> l.seen, at |-> l.now]
      /\ UNCHANGED <<record, trace, state, loc, crashes>> /\ UNCHANGED <<draft, bundle>>
  BY <1>1 DEF PackageWriteManifest, ManifestOf, Go, disk
<1>3. Follows(a, "manifest", l)
  BY <1>1, <1>2 DEF SoloInv
<1>4. Follows(a, "pkgtrace", l)'
  BY <1>2, <1>3 DEF Follows, Approving, Packaging, Filling
<1>5. QED
  BY <1>1, <1>2, <1>4, FillingSolo

(* At APPROVED, the state is what the decision made it.                    *)
LEMMA Approved ==
    ASSUME FilesInv, SoloInv, state.stage = "APPROVED"
    PROVE  /\ record \in Record /\ RecordBound(record) /\ record.decision = "APPROVE"
           /\ state = DecidedState(record) /\ state.version = GateVersion + 1
<1>1. Decided
  BY DEF SoloInv, DiskInv
<1>2. state.stage = TargetOf(record.decision) /\ state.version = GateVersion + 1
  BY <1>1 DEF Decided, DecidedState
<1>3. record.decision \in Decisions
  BY <1>1 DEF Decided, Record
<1>4. QED
  BY <1>1, <1>2, <1>3 DEF TargetOf, Decided, Decisions

LEMMA PackageWriteTraceSolo ==
    ASSUME FilesInv, SoloInv, NEW a \in Actors, PackageWriteTrace(a) PROVE SoloInv'
<1>1. PICK l : l = loc[a]
  OBVIOUS
<1>2. /\ pc[a] = "pkgtrace" /\ pc' = [pc EXCEPT ![a] = "pkgstate"] /\ loc' = [loc EXCEPT ![a] = l]
      /\ trace' = l.tail \o
           <<PackageEvent(ManifestOf(a)),
             TransitionEvent("PF-A1", l.now, <<l.st.stage, l.st.version>>,
                             <<"PACKAGED", l.st.version + 1>>)>>
      /\ UNCHANGED <<record, state, draft, bundle, manifest>> /\ crashes' = crashes
  BY <1>1, LocalTypes DEF PackageWriteTrace, Go, package
<1>3. Follows(a, "pkgtrace", l)
  BY <1>1, <1>2 DEF SoloInv
<1>4. /\ state.stage = "APPROVED" /\ l.st = state /\ l.tail = ExpectedTail(record, NoManifest)
      /\ manifest = [basis |-> record, content |-> l.seen, at |-> l.now] /\ l.rec = record
  BY <1>3 DEF Follows, Packaging, Filling
<1>5. manifest = ManifestOf(a) /\ manifest.at = l.now
  BY <1>1, <1>4 DEF ManifestOf
<1>6. record \in Record /\ state.version = GateVersion + 1 /\ manifest \in Manifest
  BY <1>2, <1>4, <1>5, Approved, FillerHolds DEF Filling
<1>7. (GateVersion + 1) + 1 = GateVersion + 2
  BY DEF GateVersion
<1>8. trace' = ExpectedTail(record, manifest)
  BY <1>2, <1>4, <1>5, <1>6, <1>7, TailOfPackage
<1>9. DiskInv'
  BY <1>2, <1>4 DEF SoloInv, DiskInv, Decided, NoState
<1>10. Follows(a, "pkgstate", l)'
  BY <1>2, <1>3, <1>8 DEF Follows, Approving, Packaging, Filling
<1>11. QED
  BY <1>2, <1>9, <1>10, OthersIdle, SoloMoves

LEMMA PackageWriteStateSolo ==
    ASSUME FilesInv, SoloInv, NEW a \in Actors, PackageWriteState(a)
    PROVE  SoloInv' /\ state.stage = "APPROVED" /\ state'.stage = "PACKAGED" /\ record' = record
<1>1. PICK l : l = loc[a]
  OBVIOUS
<1>2. /\ pc[a] = "pkgstate" /\ pc' = [pc EXCEPT ![a] = "idle"] /\ loc' = [loc EXCEPT ![a] = Idle]
      /\ state' = [l.st EXCEPT !.stage = "PACKAGED", !.version = @ + 1,
                               !.updated = l.now, !.hasManifest = TRUE]
      /\ UNCHANGED <<record, trace, draft, bundle, manifest>> /\ crashes' = crashes
  BY <1>1 DEF PackageWriteState, Return, Go, package
<1>3. Follows(a, "pkgstate", l)
  BY <1>1, <1>2 DEF SoloInv
<1>4. /\ state.stage = "APPROVED" /\ l.st = state /\ l.rec = record
      /\ manifest = [basis |-> record, content |-> l.seen, at |-> l.now]
      /\ draft = record /\ bundle = record /\ trace = ExpectedTail(record, manifest)
  BY <1>3 DEF Follows, Packaging, Filling
<1>5. manifest = ManifestOf(a) /\ manifest.at = l.now /\ manifest.basis = record
      /\ manifest.content = l.seen
  BY <1>1, <1>4 DEF ManifestOf
<1>6. record \in Record /\ l.st = DecidedState(record) /\ manifest \in Manifest
  BY <1>2, <1>4, <1>5, Approved, FillerHolds DEF Filling
<1>7. Packageable(record, manifest.at, Original) /\ manifest.content = Original
  <2>1. Packageable(record, l.now, l.seen)
    BY <1>1, <1>2, <1>4, FillerHolds DEF Filling
  <2>2. l.seen = Original
    BY <2>1 DEF Packageable, RecordBound
  <2>3. QED
    BY <1>5, <2>1, <2>2
<1>8. state' = PackagedState(manifest)
  <2>1. l.st \in State /\ l.now \in Times /\ l.st.version + 1 \in Nat /\ "PACKAGED" \in Stages
    BY <1>1, <1>2, LocalTypes DEF Local, Holds, Packaging, Filling, State, Stages
  <2>2. state' \in State
    BY <1>2, <2>1 DEF State
  <2>3. /\ state'.stage = "PACKAGED" /\ state'.version = l.st.version + 1
        /\ state'.updated = manifest.at /\ state'.hasRecord = l.st.hasRecord
        /\ state'.hasManifest = TRUE
    BY <1>2, <1>5, <2>1 DEF State
  <2>4. l.st.version = GateVersion + 1 /\ l.st.hasRecord = TRUE
    BY <1>6 DEF DecidedState
  <2>5. l.st.version + 1 = GateVersion + 2
    BY <2>4 DEF GateVersion
  <2>6. QED
    BY <2>2, <2>3, <2>4, <2>5 DEF State, PackagedState
<1>9. state'.stage = "PACKAGED"
  BY <1>8 DEF PackagedState
<1>10. Packaged'
  BY <1>2, <1>4, <1>5, <1>6, <1>7, <1>8 DEF Packaged, Packageable, RecordBound
<1>11. DiskInv' /\ SettledTrace'
  BY <1>9, <1>10 DEF DiskInv, SettledTrace, NoState
<1>12. Follows(a, "idle", Idle)'
  BY DEF Follows, Approving, Packaging, Filling
<1>13. SoloInv'
  BY <1>2, <1>11, <1>12, OthersIdle, SoloMoves
<1>14. QED
  BY <1>2, <1>4, <1>9, <1>13

LEMMA CrashSolo ==
    ASSUME FilesInv, SoloInv, NEW a \in Actors, Crash(a) PROVE SoloInv'
<1>1. crashes' # 0
  BY DEF Crash, FilesInv, RunTypes
<1>2. QED
  BY <1>1, SoloReturns DEF Crash

(* Nothing the invariant speaks of changes.                                *)
LEMMA SoloUnchanged ==
    ASSUME SoloInv, UNCHANGED <<record, trace, state, package, pc, loc, crashes>>
    PROVE  SoloInv'
<1>1. UNCHANGED <<draft, bundle, manifest>>
  BY DEF package
<1>2. OneCall' /\ DiskInv'
  BY <1>1 DEF SoloInv, OneCall, DiskInv, Unprepared, Decided, Packaged
<1>3. crashes' = 0 /\ ~Writing' => SettledTrace'
  BY DEF SoloInv, Writing, SettledTrace
<1>4. \A a \in Actors : Follows(a, pc[a], loc[a])'
  BY <1>1 DEF SoloInv, Follows
<1>5. QED
  BY <1>2, <1>3, <1>4 DEF SoloInv

(* A run that has overlapped stays so.                                     *)
LEMMA OverlapStays ==
    ASSUME Next, overlapped \in BOOLEAN PROVE overlapped => overlapped'
<1>1. ASSUME NEW a, NEW p, Begin(a, p) PROVE overlapped => overlapped'
  BY <1>1 DEF Begin
<1>2. QED
  BY <1>1 DEF Next, EditArtifact, Step, Prepare, PrepareMkdir, PrepareWrite, PrepareState,
     ApproveLoad, ApproveRead, ApproveWriteRecord, ApproveWriteTrace, ApproveWriteState,
     PackageLoad, PackageRead, PackageCheck, PackageMkdir, PackageDraft, PackageBundle,
     PackageWriteManifest, PackageWriteTrace, PackageWriteState, Crash

LEMMA RunInitially == Init => RunInv
<1> SUFFICES ASSUME Init PROVE RunInv
  OBVIOUS
<1>1. state.stage = "none"
  BY DEF Init, NoState
<1>2. DiskInv /\ SettledTrace
  BY <1>1 DEF Init, DiskInv, SettledTrace, Unprepared
<1>3. OneCall
  BY DEF Init, OneCall
<1>4. \A a \in Actors : Follows(a, pc[a], loc[a])
  BY DEF Init, Follows, Approving, Packaging, Filling
<1>5. QED
  BY <1>2, <1>3, <1>4, FilesInitially DEF RunInv, SoloInv

LEMMA RunStep == RunInv /\ [Next]_vars => RunInv'
<1> SUFFICES ASSUME RunInv, [Next]_vars PROVE RunInv'
  OBVIOUS
<1>1. FilesInv /\ FilesInv'
  BY FilesStep DEF RunInv
<1>2. ASSUME ~overlapped' PROVE SoloInv'
  <2>1. overlapped \in BOOLEAN
    BY <1>1 DEF FilesInv, RunTypes
  <2>2. ~overlapped
    BY <1>2, <2>1, OverlapStays DEF vars
  <2>3. SoloInv
    BY <2>2 DEF RunInv
  <2>4. ASSUME NEW a \in Actors, Step(a) PROVE SoloInv'
    BY <1>1, <1>2, <2>3, <2>4, PrepareSolo, PrepareMkdirSolo, PrepareWriteSolo, PrepareStateSolo,
       ApproveLoadSolo, ApproveReadSolo, ApproveWriteRecordSolo, ApproveWriteTraceSolo,
       ApproveWriteStateSolo, PackageLoadSolo, PackageReadSolo, PackageCheckSolo,
       PackageMkdirSolo, PackageDraftSolo, PackageBundleSolo, PackageWriteManifestSolo,
       PackageWriteTraceSolo, PackageWriteStateSolo, CrashSolo DEF Step
  <2>5. CASE EditArtifact \/ UNCHANGED vars
    BY <2>3, <2>5, SoloUnchanged DEF EditArtifact, vars, package
  <2>6. QED
    BY <2>4, <2>5 DEF Next
<1>3. QED
  BY <1>1, <1>2 DEF RunInv

(* A run whose calls never overlapped, and whose artifacts are as they     *)
(* were approved, verifies: between calls while none died, and once        *)
(* PACKAGED whatever crashes and repeated calls came before.               *)
THEOREM SequentialRunsVerify == Spec => []RunVerifies
<1>1. RunInv => RunVerifies
  BY SoloVerifies DEF RunInv, RunVerifies
<1>2. QED
  BY <1>1, RunInitially, RunStep, PTL DEF Spec

-----------------------------------------------------------------------------
(* A step that leaves the state alone is a stutter of the gate: only a     *)
(* call at the gate writes a record.                                       *)
LEMMA StatesDrive ==
    ASSUME FilesInv, SoloInv, Next, ~overlapped'
    PROVE  \/ state' = state /\ record' = record
           \/ state' = state /\ state.stage = "AWAITING_APPROVAL"
           \/ \E a \in Actors : PrepareState(a) \/ ApproveWriteState(a) \/ PackageWriteState(a)
<1>1. CASE EditArtifact
  BY <1>1 DEF EditArtifact
<1>2. ASSUME NEW a \in Actors, Step(a), ~PrepareState(a), ~ApproveWriteState(a),
             ~PackageWriteState(a)
      PROVE  state' = state /\ (record' = record \/ state.stage = "AWAITING_APPROVAL")
  <2>1. CASE ApproveWriteRecord(a)
    <3>1. pc[a] = "record" /\ state' = state
      BY <2>1 DEF ApproveWriteRecord, Go
    <3>2. state = GateState
      BY <3>1 DEF SoloInv, Follows, Approving
    <3>3. QED
      BY <3>1, <3>2 DEF GateState
  <2>2. CASE ~ApproveWriteRecord(a)
    BY <1>2, <2>2 DEF Step, Prepare, PrepareMkdir, PrepareWrite,
       ApproveLoad, ApproveRead, ApproveWriteTrace,
       PackageLoad, PackageRead, PackageCheck, PackageMkdir, PackageDraft, PackageBundle,
       PackageWriteManifest, PackageWriteTrace, Crash, disk
  <2>3. QED
    BY <2>1, <2>2
<1>3. QED
  BY <1>1, <1>2 DEF Next

(* The step that makes a run overlap leaves the state alone, and no call   *)
(* begins on a rejected run.                                               *)
LEMMA OverlapBegins ==
    ASSUME FilesInv, Next, ~overlapped, overlapped'
    PROVE  state' = state /\ state.stage # "REJECTED"
<1>1. ASSUME NEW a \in Actors, Prepare(a) PROVE state' = state /\ state.stage # "REJECTED"
  BY <1>1 DEF Prepare, FilesInv, PrepareInv, NoState, disk
<1>2. ASSUME NEW a \in Actors, NEW role, NEW decision, NEW now, ApproveLoad(a, role, decision, now)
      PROVE  state' = state /\ state.stage # "REJECTED"
  BY <1>2 DEF ApproveLoad, disk
<1>3. ASSUME NEW a \in Actors, NEW now, PackageLoad(a, now)
      PROVE  state' = state /\ state.stage # "REJECTED"
  BY <1>3 DEF PackageLoad, disk
<1>4. QED
  BY <1>1, <1>2, <1>3 DEF Next, EditArtifact, Step, PrepareMkdir, PrepareWrite, PrepareState,
     ApproveRead, ApproveWriteRecord, ApproveWriteTrace, ApproveWriteState,
     PackageRead, PackageCheck, PackageMkdir, PackageDraft, PackageBundle,
     PackageWriteManifest, PackageWriteTrace, PackageWriteState, Crash

(* A sign-off stands exactly over a decided or packaged run.               *)
Standing == ~overlapped => (RunSignedOff <=> state.stage \in {"APPROVED", "PACKAGED"})

LEMMA SignOff == RunInv => Standing
<1> SUFFICES ASSUME FilesInv, SoloInv
             PROVE  RunSignedOff <=> state.stage \in {"APPROVED", "PACKAGED"}
  BY DEF RunInv, Standing
<1>1. state.stage = "APPROVED" => record \in Record /\ RecordBound(record) /\ record.decision = "APPROVE"
  BY Approved
<1>2. state.stage = "PACKAGED" => record \in Record /\ RecordBound(record) /\ record.decision = "APPROVE"
  BY DEF SoloInv, DiskInv, Packaged, Packageable
<1>3. QED
  BY <1>1, <1>2, NotNone DEF RunSignedOff

(* A step of the run is a step of the gate or leaves it alone.             *)
LEMMA RunStepsGate ==
    ASSUME RunInv, RunInv', Standing, Standing', [Next]_vars
    PROVE  [Gate!GateNext]_(Gate!gateVars)
<1>1. /\ FilesInv /\ FilesInv' /\ (~overlapped => SoloInv) /\ (~overlapped' => SoloInv')
      /\ overlapped \in BOOLEAN
  BY DEF RunInv, FilesInv, RunTypes
<1>2. CASE overlapped
  <2>1. overlapped'
    BY <1>1, <1>2, OverlapStays DEF vars
  <2>2. QED
    BY <1>2, <2>1 DEF Gate!gateVars
<1>3. CASE ~overlapped /\ overlapped' /\ Next
  <2>1. state' = state /\ state.stage # "REJECTED"
    BY <1>1, <1>3, OverlapBegins
  <2>2. RunSignedOff <=> state.stage \in {"APPROVED", "PACKAGED"}
    BY <1>3 DEF Standing
  <2>3. QED
    BY <1>3, <2>1, <2>2 DEF Gate!GateNext, Gate!SendBack, Gate!gateVars, PhaseOf
<1>4. CASE ~overlapped /\ ~overlapped' /\ Next
  <2>1. /\ RunSignedOff <=> state.stage \in {"APPROVED", "PACKAGED"}
        /\ RunSignedOff' <=> state'.stage \in {"APPROVED", "PACKAGED"}
        /\ RunSignedOff \in BOOLEAN /\ RunSignedOff' \in BOOLEAN
    <3>1. RunSignedOff <=> state.stage \in {"APPROVED", "PACKAGED"}
      BY <1>4 DEF Standing
    <3>2. RunSignedOff' <=> state'.stage \in {"APPROVED", "PACKAGED"}
      BY <1>4 DEF Standing
    <3>3. RunSignedOff \in BOOLEAN /\ RunSignedOff' \in BOOLEAN
      BY DEF RunSignedOff
    <3>4. QED
      BY <3>1, <3>2, <3>3
  <2>2. CASE state' = state
    BY <1>4, <2>1, <2>2 DEF Gate!gateVars
  <2>3. ASSUME NEW a \in Actors, PrepareState(a) PROVE Gate!Submit
    <3>1. state = NoState
      BY <1>1, <2>3 DEF PrepareState, Return, Go, FilesInv, PrepareInv
    <3>2. state.stage = "none" /\ state'.stage = "AWAITING_APPROVAL"
      BY <2>3, <3>1 DEF PrepareState, NoState
    <3>3. QED
      BY <1>4, <2>1, <3>2 DEF Gate!Submit, PhaseOf
  <2>4. ASSUME NEW a \in Actors, ApproveWriteState(a)
        PROVE  Gate!Authorise \/ Gate!End \/ Gate!SendBack
    <3>1. state.stage = "AWAITING_APPROVAL"
      <4>1. pc[a] = "state"
        BY <2>4 DEF ApproveWriteState, Return, Go
      <4>2. state = GateState
        BY <1>1, <1>4, <4>1 DEF SoloInv, Follows, Approving
      <4>3. QED
        BY <4>2 DEF GateState
    <3>2. state'.stage \in {"APPROVED", "REJECTED", "REVISION_REQUIRED"}
      <4>1. state' = DecidedState(record)
        BY <1>1, <1>4, <2>4, ApproveWriteStateSolo
      <4>2. QED
        BY <4>1 DEF DecidedState, TargetOf
    <3>3. QED
      BY <1>4, <2>1, <3>1, <3>2 DEF Gate!Authorise, Gate!End, Gate!SendBack, PhaseOf
  <2>5. ASSUME NEW a \in Actors, PackageWriteState(a) PROVE Gate!Deliver
    <3>1. state.stage = "APPROVED" /\ state'.stage = "PACKAGED"
      BY <1>1, <1>4, <2>5, PackageWriteStateSolo
    <3>2. QED
      BY <1>4, <2>1, <3>1 DEF Gate!Deliver, PhaseOf
  <2>6. QED
    BY <1>1, <1>4, <2>2, <2>3, <2>4, <2>5, StatesDrive DEF Gate!GateNext
<1>5. CASE UNCHANGED vars
  BY <1>5 DEF vars, Gate!gateVars, RunSignedOff
<1>6. QED
  BY <1>1, <1>2, <1>3, <1>4, <1>5

(* A run whose calls do not overlap implements the Human Gate, crashes,    *)
(* retries and expiry included; a run whose calls overlap counts as sent   *)
(* back.                                                                   *)
THEOREM RunsImplementHumanGate == Spec => RunImplementsHumanGate
<1>1. Init => Gate!GateInit
  BY DEF Init, Gate!GateInit, PhaseOf, RunSignedOff, NoState
<1>2. QED
  BY <1>1, RunInitially, RunStep, SignOff, RunStepsGate, PTL DEF Spec, RunImplementsHumanGate, Gate!GateSpec

-----------------------------------------------------------------------------
(*                           The demo server                               *)
(*                                                                         *)
(* The lock makes one actor of all the threads, so what is proved above of *)
(* a run without overlap is proved of the server's run until a workspace   *)
(* could not be cleaned up.                                                *)
-----------------------------------------------------------------------------

Serving == {"serving", "calling", "done"}
Waiting == {"free", "dispatch", "snapshot", "problem", "answered"}
Codes ==
    {"OK", "ERROR", "INTERNAL_ERROR",
     "METHOD_NOT_ALLOWED", "HOST_REJECTED", "QUERY_NOT_ALLOWED", "ROUTE_NOT_FOUND",
     "ORIGIN_REJECTED", "REQUEST_TOKEN_REJECTED",
     "INVALID_APPROVAL_FIELDS", "INVALID_REASON", "UNEXPECTED_FIELDS",
     "PINNED_INPUT_MISMATCH", "RUN_ALREADY_PREPARED", "RUN_NOT_PREPARED",
     "REFERENCE_RUN_CONFLICT", "HUMAN_GATE_REQUIRED", "INVALID_STAGE_FOR_PACKAGE",
     "PACKAGE_NOT_READY", "VERIFICATION_FAILED"}
    \cup {r.body : r \in Requests}
Served == [phase : Serving \cup Waiting, code : Codes, asks : Requests \cup {NoRequest}]
App == [open : BOOLEAN, gateProbe : {"NOT_ATTEMPTED", "BLOCKED_AS_EXPECTED"},
        verification : {"none", "valid", "errors"}]

ServerTypes ==
    /\ lock \in Actors \cup {NoOne}
    /\ app \in App
    /\ req \in [Actors -> Served \cup {Free}]
    /\ uncleaned \in BOOLEAN

(* What the lock guards: the thread in an action owns it, a call of the    *)
(* runtime is made in an action, and finds the application open.  So calls *)
(* do not overlap.                                                         *)
LockInv ==
    /\ \A t \in Actors : req[t].phase \in Serving => lock = t
    /\ \A t \in Actors : pc[t] # "idle" => req[t].phase = "calling"
    /\ \A t \in Actors : req[t].phase = "calling" => app.open
    /\ overlapped = FALSE

(* What of the run survives even a failed clean-up.                        *)
CallTypes ==
    /\ pc \in [Actors -> Places]
    /\ DOMAIN loc = Actors /\ loc = [t \in Actors |-> loc[t]]
    /\ \A t \in Actors : pc[t] \in {"idle", "mkdir", "write"} => loc[t] = Idle
    /\ crashes \in Nat

ControlInv == ServerTypes /\ LockInv /\ CallTypes

LEMMA ControlInitially == StartUp => ControlInv
<1> SUFFICES ASSUME StartUp PROVE ControlInv
  OBVIOUS
<1> USE DEF StartUp, Init
<1>1. ServerTypes
  BY DEF ServerTypes, App, Fresh
<1>2. LockInv
  BY DEF LockInv, Serving, Free
<1>3. CallTypes
  BY DEF CallTypes, Places
<1>4. QED
  BY <1>1, <1>2, <1>3 DEF ControlInv

(* A thread that goes on to another phase.                                 *)
LEMMA PhaseMoves ==
    ASSUME ServerTypes, NEW t \in Actors, NEW p \in (Serving \cup Waiting) \ {"free"}, req[t].phase # "free",
           req' = [req EXCEPT ![t].phase = p]
    PROVE  /\ req' \in [Actors -> Served \cup {Free}]
           /\ req'[t].phase = p /\ req'[t].code = req[t].code /\ req'[t].asks = req[t].asks
           /\ \A u \in Actors : u # t => req'[u] = req[u]
<1> DEFINE k == [req[t] EXCEPT !.phase = p]
<1>1. req[t] \in Served
  BY DEF ServerTypes, Free
<1>2. k \in Served /\ k.phase = p /\ k.code = req[t].code /\ k.asks = req[t].asks
  BY <1>1 DEF Served
<1>3. req' = [req EXCEPT ![t] = k]
  OBVIOUS
<1> HIDE DEF k
<1>4. QED
  BY <1>2, <1>3 DEF ServerTypes

LEMMA CodeMoves ==
    ASSUME ServerTypes, NEW t \in Actors, NEW p \in (Serving \cup Waiting) \ {"free"}, NEW c \in Codes,
           req[t].phase # "free", req' = [req EXCEPT ![t].phase = p, ![t].code = c]
    PROVE  /\ req' \in [Actors -> Served \cup {Free}]
           /\ req'[t].phase = p /\ req'[t].code = c /\ req'[t].asks = req[t].asks
           /\ \A u \in Actors : u # t => req'[u] = req[u]
<1> DEFINE k == [req[t] EXCEPT !.phase = p, !.code = c]
<1>1. req[t] \in Served
  BY DEF ServerTypes, Free
<1>2. k \in Served /\ k.phase = p /\ k.code = c /\ k.asks = req[t].asks
  BY <1>1 DEF Served
<1>3. req' = [req EXCEPT ![t] = k]
  OBVIOUS
<1> HIDE DEF k
<1>4. QED
  BY <1>2, <1>3 DEF ServerTypes

(* A step of one thread keeps the control as it must be, if the thread has *)
(* the lock while it is in an action and not longer, does not take it from *)
(* another, and closes the application only while it has it.               *)
LEMMA ControlStep ==
    ASSUME ControlInv, NEW t \in Actors,
           req' \in [Actors -> Served \cup {Free}],
           \A u \in Actors : u # t => req'[u] = req[u] /\ pc'[u] = pc[u],
           \/ req'[t].phase \in Serving /\ lock' = t /\ lock \in {t, NoOne}
           \/ req'[t].phase \notin Serving /\ req[t].phase \in Serving /\ lock' = NoOne
           \/ req'[t].phase \notin Serving /\ req[t].phase \notin Serving /\ lock' = lock,
           app' \in App, app'.open = app.open \/ lock = t, uncleaned' \in BOOLEAN,
           pc'[t] # "idle" => req'[t].phase = "calling",
           req'[t].phase = "calling" => app'.open,
           CallTypes', overlapped' = FALSE
    PROVE  ControlInv'
<1>1. NoOne \notin Actors
  BY ServerAssumption
<1>2. ServerTypes'
  BY DEF ControlInv, ServerTypes
<1>3. ASSUME NEW u \in Actors, u # t, req'[u].phase \in Serving PROVE lock = u /\ lock' = u
  <2>1. lock = u
    BY <1>3 DEF ControlInv, LockInv
  <2>2. lock # t /\ lock # NoOne
    BY <1>1, <1>3, <2>1
  <2>3. req[t].phase \notin Serving
    BY <2>2 DEF ControlInv, LockInv
  <2>4. QED
    BY <2>1, <2>2, <2>3
<1>4. \A u \in Actors : req'[u].phase \in Serving => lock' = u
  BY <1>3
<1>5. \A u \in Actors : pc'[u] # "idle" => req'[u].phase = "calling"
  BY DEF ControlInv, LockInv
<1>6. \A u \in Actors : req'[u].phase = "calling" => app'.open
  <2> SUFFICES ASSUME NEW u \in Actors, u # t, req'[u].phase = "calling" PROVE app'.open
    OBVIOUS
  <2>1. lock = u
    BY <1>3 DEF Serving
  <2>2. app.open
    BY DEF ControlInv, LockInv
  <2>3. QED
    BY <2>1, <2>2
<1>7. LockInv'
  BY <1>4, <1>5, <1>6 DEF LockInv
<1>8. QED
  BY <1>2, <1>7 DEF ControlInv

(* A call goes on.                                                         *)
LEMMA CallMoves ==
    ASSUME CallTypes, NEW t \in Actors, NEW p \in Places, NEW l,
           p \in {"idle", "mkdir", "write"} => l = Idle,
           pc' = [pc EXCEPT ![t] = p], loc' = [loc EXCEPT ![t] = l], crashes' \in Nat
    PROVE  /\ CallTypes' /\ pc'[t] = p
           /\ \A u \in Actors : u # t => pc'[u] = pc[u]
<1>1. /\ pc' \in [Actors -> Places] /\ pc'[t] = p
      /\ \A u \in Actors : u # t => pc'[u] = pc[u]
  BY DEF CallTypes
<1>2. DOMAIN loc' = Actors /\ loc'[t] = l /\ \A u \in Actors : u # t => loc'[u] = loc[u]
  BY DEF CallTypes
<1>3. loc' = [u \in Actors |-> loc'[u]]
  BY <1>2
<1>4. QED
  BY <1>1, <1>2, <1>3 DEF CallTypes

LEMMA CallReturns ==
    ASSUME CallTypes, NEW t \in Actors, NEW from, Return(t, from), crashes' \in Nat
    PROVE  /\ CallTypes' /\ pc'[t] = "idle"
           /\ \A u \in Actors : u # t => pc'[u] = pc[u]
<1>1. "idle" \in Places
  BY DEF Places
<1>2. QED
  BY <1>1, CallMoves DEF Return, Go

(* Every step of a call keeps the shape of the calls.                      *)
LEMMA CallsMove ==
    ASSUME CallTypes, NEW t \in Actors, Step(t)
    PROVE  /\ CallTypes'
           /\ \A u \in Actors : u # t => pc'[u] = pc[u]
<1>0. /\ crashes \in Nat /\ loc = [loc EXCEPT ![t] = loc[t]]
      /\ "mkdir" \in Places /\ "write" \in Places
  BY DEF CallTypes, Places, Preparing
<1> DEFINE Fine == CallTypes' /\ \A u \in Actors : u # t => pc'[u] = pc[u]
<1>1. CASE Prepare(t)
  <2>1. pc' = [pc EXCEPT ![t] = "mkdir"] /\ loc' = [loc EXCEPT ![t] = Idle] /\ crashes' \in Nat
    BY <1>0, <1>1 DEF Prepare, Begin, Go, CallTypes
  <2>2. QED
    BY <1>0, <2>1, CallMoves
<1>2. CASE PrepareMkdir(t)
  <2>1. CASE Return(t, "mkdir") /\ crashes' = crashes
    BY <1>0, <2>1, CallReturns
  <2>2. CASE Go(t, "mkdir", "write") /\ UNCHANGED <<loc, crashes>>
    <3>1. pc' = [pc EXCEPT ![t] = "write"] /\ loc' = [loc EXCEPT ![t] = Idle] /\ crashes' \in Nat
      BY <1>0, <2>2 DEF Go, CallTypes
    <3>2. QED
      BY <1>0, <3>1, CallMoves
  <2>3. QED
    BY <1>2, <2>1, <2>2 DEF PrepareMkdir
<1>3. CASE PrepareWrite(t)
  BY <1>3 DEF PrepareWrite, CallTypes
<1>4. CASE /\ \E from : Return(t, from)
           /\ crashes' = crashes
  BY <1>0, <1>4, CallReturns
<1>5. CASE /\ \E p \in Approving \cup Packaging : \E l :
                  pc' = [pc EXCEPT ![t] = p] /\ loc' = [loc EXCEPT ![t] = l]
           /\ crashes' = crashes
  <2>1. PICK p \in Approving \cup Packaging : \E l :
            pc' = [pc EXCEPT ![t] = p] /\ loc' = [loc EXCEPT ![t] = l]
    BY <1>5
  <2>2. PICK l : pc' = [pc EXCEPT ![t] = p] /\ loc' = [loc EXCEPT ![t] = l]
    BY <2>1
  <2>3. p \in Places /\ p \notin {"idle", "mkdir", "write"} /\ crashes' \in Nat
    BY <1>0, <1>5 DEF Places, Approving, Packaging, Filling
  <2>4. QED
    BY <2>2, <2>3, CallMoves
<1>6. CASE Crash(t)
  <2>1. pc' = [pc EXCEPT ![t] = "idle"] /\ loc' = [loc EXCEPT ![t] = Idle] /\ crashes' \in Nat
        /\ "idle" \in Places
    BY <1>0, <1>6 DEF Crash, Places
  <2>2. QED
    BY <2>1, CallMoves
<1>7. CASE \/ PrepareState(t) \/ ApproveWriteState(t) \/ PackageWriteState(t)
  BY <1>4, <1>7 DEF PrepareState, ApproveWriteState, PackageWriteState
<1>8. ASSUME NEW role, NEW decision, NEW now, ApproveLoad(t, role, decision, now) PROVE Fine
  <2>1. "approve" \in Approving
    BY DEF Approving
  <2>2. QED
    BY <1>5, <1>8, <2>1 DEF ApproveLoad, Begin, Go
<1>9. ASSUME NEW now, PackageLoad(t, now) PROVE Fine
  <2>1. "package" \in Packaging
    BY DEF Packaging
  <2>2. QED
    BY <1>5, <1>9, <2>1 DEF PackageLoad, Begin, Go
<1>10. CASE ApproveRead(t)
  <2>1. "record" \in Approving
    BY DEF Approving
  <2> DEFINE l == [loc[t] EXCEPT !.seen = subject, !.tail = trace, !.rec = DecisionOf(t)]
  <2>2. CASE Return(t, "approve")
    BY <1>4, <1>10, <2>2 DEF ApproveRead
  <2>3. CASE ~Return(t, "approve")
    <3>1. pc' = [pc EXCEPT ![t] = "record"] /\ loc' = [loc EXCEPT ![t] = l] /\ crashes' = crashes
      BY <1>10, <2>3 DEF ApproveRead, Go
    <3>2. QED
      BY <1>5, <2>1, <3>1
  <2>4. QED
    BY <2>2, <2>3
<1>11. CASE PackageRead(t)
  <2>1. "check" \in Packaging
    BY DEF Packaging
  <2> DEFINE l == [loc[t] EXCEPT !.seen = subject, !.tail = trace]
  <2>2. pc' = [pc EXCEPT ![t] = "check"] /\ loc' = [loc EXCEPT ![t] = l] /\ crashes' = crashes
    BY <1>11 DEF PackageRead, Go
  <2>3. QED
    BY <1>5, <2>1, <2>2
<1>12. CASE PackageCheck(t)
  <2>1. "pkgdir" \in Packaging
    BY DEF Packaging
  <2> DEFINE l == [loc[t] EXCEPT !.rec = record]
  <2>2. CASE Return(t, "check")
    BY <1>4, <1>12, <2>2 DEF PackageCheck
  <2>3. CASE ~Return(t, "check")
    <3>1. pc' = [pc EXCEPT ![t] = "pkgdir"] /\ loc' = [loc EXCEPT ![t] = l] /\ crashes' = crashes
      BY <1>12, <2>3 DEF PackageCheck, Go
    <3>2. QED
      BY <1>5, <2>1, <3>1
  <2>4. QED
    BY <2>2, <2>3
<1>13. CASE /\ \E from : \E p \in Approving \cup Packaging : Go(t, from, p)
            /\ loc' = loc /\ crashes' = crashes
  BY <1>0, <1>5, <1>13 DEF Go
<1>14. CASE ApproveWriteRecord(t) \/ ApproveWriteTrace(t)
  <2>1. "trace" \in Approving /\ "state" \in Approving
    BY DEF Approving
  <2>2. QED
    BY <1>13, <1>14, <2>1 DEF ApproveWriteRecord, ApproveWriteTrace
<1>15. CASE PackageMkdir(t)
  <2>1. "draft" \in Packaging
    BY DEF Packaging, Filling
  <2>2. QED
    BY <1>4, <1>13, <1>15, <2>1 DEF PackageMkdir
<1>16. CASE PackageDraft(t) \/ PackageBundle(t) \/ PackageWriteManifest(t) \/ PackageWriteTrace(t)
  <2>1. /\ "bundle" \in Packaging /\ "manifest" \in Packaging
        /\ "pkgtrace" \in Packaging /\ "pkgstate" \in Packaging
    BY DEF Packaging, Filling
  <2>2. QED
    BY <1>13, <1>16, <2>1 DEF PackageDraft, PackageBundle, PackageWriteManifest, PackageWriteTrace
<1>17. QED
  BY <1>1, <1>2, <1>3, <1>6, <1>7, <1>8, <1>9, <1>10, <1>11, <1>12, <1>14, <1>15, <1>16 DEF Step

-----------------------------------------------------------------------------
(* A thread's step outside the runtime.                                    *)
LEMMA QuietStep ==
    ASSUME ControlInv, NEW t \in Actors,
           req' \in [Actors -> Served \cup {Free}],
           \A u \in Actors : u # t => req'[u] = req[u],
           req[t].phase # "calling", req'[t].phase # "calling",
           \/ req'[t].phase \in Serving /\ lock' = t /\ lock \in {t, NoOne}
           \/ req'[t].phase \notin Serving /\ req[t].phase \in Serving /\ lock' = NoOne
           \/ req'[t].phase \notin Serving /\ req[t].phase \notin Serving /\ lock' = lock,
           app' \in App, app'.open = app.open \/ lock = t, uncleaned' \in BOOLEAN,
           UNCHANGED <<pc, loc, overlapped>>, crashes' \in Nat
    PROVE  ControlInv'
<1>1. pc[t] = "idle"
  BY DEF ControlInv, LockInv
<1>2. CallTypes'
  BY DEF ControlInv, CallTypes
<1>3. overlapped' = FALSE
  BY DEF ControlInv, LockInv
<1>4. QED
  BY <1>1, <1>2, <1>3, ControlStep

LEMMA ControlTypes ==
    ASSUME ControlInv
    PROVE  /\ ServerTypes /\ crashes \in Nat /\ app \in App /\ uncleaned \in BOOLEAN
           /\ \A t \in Actors : req[t].phase \in Serving => lock = t
  BY DEF ControlInv, ServerTypes, CallTypes, LockInv

(* The action ends, whatever it was.                                       *)
LEMMA FinishKeeps ==
    ASSUME ControlInv, NEW t \in Actors, NEW code \in Codes, Finish(t, "serving", code),
           app' \in App, uncleaned' \in BOOLEAN,
           UNCHANGED <<pc, loc, overlapped>>, crashes' \in Nat
    PROVE  ControlInv'
<1>1. /\ req[t].phase = "serving" /\ req' = [req EXCEPT ![t].phase = "done", ![t].code = code]
      /\ lock' = lock
  BY DEF Finish, Coded
<1>2. "done" \in (Serving \cup Waiting) \ {"free"} /\ "done" \in Serving /\ "serving" \in Serving
  BY DEF Serving
<1>3. /\ req' \in [Actors -> Served \cup {Free}] /\ req'[t].phase = "done"
      /\ \A u \in Actors : u # t => req'[u] = req[u]
  BY <1>1, <1>2, ControlTypes, CodeMoves
<1>4. lock = t
  BY <1>1, <1>2, ControlTypes
<1>5. QED
  BY <1>1, <1>2, <1>3, <1>4, QuietStep

LEMMA ErrorMoves ==
    ASSUME ServerTypes, NEW t \in Actors, NEW from, InternalError(t, from)
    PROVE  /\ req[t].phase = from /\ req' \in [Actors -> Served \cup {Free}]
           /\ req'[t].phase = "problem" /\ req'[t].asks = NoRequest
           /\ req'[t].code = "INTERNAL_ERROR"
           /\ \A u \in Actors : u # t => req'[u] = req[u]
<1> DEFINE k == [phase |-> "problem", code |-> "INTERNAL_ERROR", asks |-> NoRequest]
<1>1. k \in Served /\ k.phase = "problem" /\ k.asks = NoRequest /\ k.code = "INTERNAL_ERROR"
  BY DEF Served, Waiting, Codes
<1>2. req[t].phase = from /\ req' = [req EXCEPT ![t] = k]
  BY DEF InternalError
<1> HIDE DEF k
<1>3. QED
  BY <1>1, <1>2 DEF ServerTypes

LEMMA RaiseKeeps ==
    ASSUME ControlInv, NEW t \in Actors, NEW from \in {"serving", "done"}, Raise(t, from),
           app' \in App, uncleaned' \in BOOLEAN,
           UNCHANGED <<pc, loc, overlapped>>, crashes' \in Nat
    PROVE  ControlInv'
<1>1. InternalError(t, from) /\ lock' = NoOne
  BY DEF Raise
<1>2. /\ req[t].phase = from /\ req' \in [Actors -> Served \cup {Free}]
      /\ req'[t].phase = "problem"
      /\ \A u \in Actors : u # t => req'[u] = req[u]
  BY <1>1, ControlTypes, ErrorMoves
<1>3. "problem" \notin Serving /\ from \in Serving /\ from # "calling"
  BY DEF Serving
<1>4. lock = t
  BY <1>2, <1>3, ControlTypes
<1>5. QED
  BY <1>1, <1>2, <1>3, <1>4, QuietStep

LEMMA AnsweredMoves ==
    ASSUME ServerTypes, NEW t \in Actors, Answered(t)
    PROVE  /\ req' \in [Actors -> Served \cup {Free}] /\ req'[t].phase = "answered"
           /\ \A u \in Actors : u # t => req'[u] = req[u]
<1> DEFINE k == [phase |-> "answered", asks |-> NoRequest,
                 code |-> IF req[t].code = "OK" THEN "OK" ELSE "ERROR"]
<1>1. k \in Served /\ k.phase = "answered"
  BY DEF Served, Waiting, Codes
<1>2. req' = [req EXCEPT ![t] = k]
  BY DEF Answered
<1> HIDE DEF k
<1>3. QED
  BY <1>1, <1>2 DEF ServerTypes

LEMMA FreeMoves ==
    ASSUME ServerTypes, NEW t \in Actors, req' = [req EXCEPT ![t] = Free]
    PROVE  /\ req' \in [Actors -> Served \cup {Free}] /\ req'[t].phase = "free"
           /\ \A u \in Actors : u # t => req'[u] = req[u]
  BY DEF ServerTypes, Free

(* A request that comes in.                                                *)
LEMMA ReceiveKeeps ==
    ASSUME ControlInv, NEW t \in Actors, NEW r \in Requests, Receive(t, r)
    PROVE  /\ ControlInv' /\ req[t].phase = "free"
           /\ req'[t].phase \in {"problem", "answered", "snapshot", "dispatch"}
           /\ req'[t].phase # "dispatch" => req'[t].asks = NoRequest
           /\ \A u \in Actors : u # t => req'[u] = req[u]
<1> DEFINE k == [phase |-> FirstPhase(r), code |-> FrontProblem(r),
                 asks |-> IF FirstPhase(r) = "dispatch" THEN r ELSE NoRequest]
<1>1. FirstPhase(r) \in {"problem", "answered", "snapshot", "dispatch"}
  BY DEF FirstPhase
<1>2. FrontProblem(r) \in Codes
  BY DEF FrontProblem, Codes
<1>3. /\ k \in Served /\ k.phase = FirstPhase(r)
      /\ k.phase # "dispatch" => k.asks = NoRequest
  BY <1>1, <1>2 DEF Served, Waiting
<1>4. /\ req[t].phase = "free" /\ req' = [req EXCEPT ![t] = k]
      /\ UNCHANGED <<pc, loc, overlapped, crashes>> /\ UNCHANGED <<lock, app, uncleaned>>
  BY DEF Receive, vars
<1> HIDE DEF k
<1>5. /\ req' \in [Actors -> Served \cup {Free}] /\ req'[t] = k
      /\ \A u \in Actors : u # t => req'[u] = req[u]
  BY <1>3, <1>4, ControlTypes DEF ServerTypes
<1>6. k.phase \notin Serving /\ "free" \notin Serving /\ k.phase # "calling"
  BY <1>1, <1>3 DEF Serving
<1>7. ControlInv'
  BY <1>4, <1>5, <1>6, ControlTypes, QuietStep
<1>8. QED
  BY <1>1, <1>3, <1>4, <1>5, <1>7

LEMMA DispatchKeeps ==
    ASSUME ControlInv, NEW t \in Actors, Dispatch(t)
    PROVE  ControlInv'
<1>1. /\ req[t].phase = "dispatch" /\ req' = [req EXCEPT ![t].phase = "serving"]
      /\ UNCHANGED <<pc, loc, overlapped, crashes>> /\ UNCHANGED <<app, uncleaned>>
      /\ lock = NoOne /\ lock' = t
  BY DEF Dispatch, Phase, vars
<1>2. "serving" \in (Serving \cup Waiting) \ {"free"} /\ "serving" \in Serving
  BY DEF Serving
<1>3. /\ req' \in [Actors -> Served \cup {Free}] /\ req'[t].phase = "serving"
      /\ \A u \in Actors : u # t => req'[u] = req[u]
  BY <1>1, <1>2, ControlTypes, PhaseMoves
<1>4. QED
  BY <1>1, <1>2, <1>3, ControlTypes, QuietStep

(* An action that is refused, or done without the runtime.                 *)
LEMMA RefuseKeeps ==
    ASSUME ControlInv, NEW t \in Actors, NEW code \in Codes, Refuse(t, code)
    PROVE  ControlInv'
<1>1. Finish(t, "serving", code) /\ UNCHANGED <<pc, loc, overlapped, crashes, app, uncleaned>>
  BY DEF Refuse, vars
<1>2. QED
  BY <1>1, ControlTypes, FinishKeeps

LEMMA RefusePayloadKeeps ==
    ASSUME ControlInv, NEW t \in Actors, RefusePayload(t)
    PROVE  ControlInv'
<1>1. PayloadProblem(req[t].asks) \in Codes
  BY DEF PayloadProblem, Codes
<1>2. Refuse(t, PayloadProblem(req[t].asks))
  BY DEF RefusePayload, Refuse
<1>3. QED
  BY <1>1, <1>2, RefuseKeeps

LEMMA ServeClosedKeeps ==
    ASSUME ControlInv, NEW t \in Actors, ServeClosed(t)
    PROVE  ControlInv'
<1>1. Raise(t, "serving") /\ UNCHANGED <<pc, loc, overlapped, crashes, app, uncleaned>>
  BY DEF ServeClosed, vars
<1>2. QED
  BY <1>1, ControlTypes, RaiseKeeps

LEMMA RefuseInputsKeeps ==
    ASSUME ControlInv, NEW t \in Actors, RefuseInputs(t)
    PROVE  ControlInv'
<1>1. "PINNED_INPUT_MISMATCH" \in Codes
  BY DEF Codes
<1>2. QED
  BY <1>1, RefuseKeeps DEF RefuseInputs

LEMMA ServeBenchmarkKeeps ==
    ASSUME ControlInv, NEW t \in Actors, ServeBenchmark(t)
    PROVE  ControlInv'
<1>1. "OK" \in Codes
  BY DEF Codes
<1>2. UNCHANGED <<pc, loc, overlapped, crashes, app, uncleaned>>
  BY DEF ServeBenchmark, vars
<1>3. CASE Finish(t, "serving", "OK")
  BY <1>1, <1>2, <1>3, ControlTypes, FinishKeeps
<1>4. CASE Raise(t, "serving")
  BY <1>2, <1>4, ControlTypes, RaiseKeeps
<1>5. QED
  BY <1>3, <1>4 DEF ServeBenchmark

LEMMA ServeVerifyKeeps ==
    ASSUME ControlInv, NEW t \in Actors, ServeVerify(t)
    PROVE  ControlInv'
<1>1. /\ "RUN_NOT_PREPARED" \in Codes /\ "PACKAGE_NOT_READY" \in Codes
      /\ "REFERENCE_RUN_CONFLICT" \in Codes
      /\ (IF Verified THEN "OK" ELSE "VERIFICATION_FAILED") \in Codes
  BY DEF Codes
<1>2. CASE \/ Refuse(t, "RUN_NOT_PREPARED") \/ Refuse(t, "PACKAGE_NOT_READY")
           \/ Refuse(t, "REFERENCE_RUN_CONFLICT")
  BY <1>1, <1>2, RefuseKeeps
<1>3. CASE /\ app' = [app EXCEPT !.verification = IF Verified THEN "valid" ELSE "errors"]
           /\ Finish(t, "serving", IF Verified THEN "OK" ELSE "VERIFICATION_FAILED")
           /\ UNCHANGED <<vars, listening, resets, uncleaned>>
  <2>1. app' \in App
    BY <1>3, ControlTypes DEF App
  <2>2. UNCHANGED <<pc, loc, overlapped, crashes, uncleaned>>
    BY <1>3 DEF vars
  <2>3. QED
    BY <1>1, <1>3, <2>1, <2>2, ControlTypes, FinishKeeps
<1>4. CASE Raise(t, "serving") /\ UNCHANGED <<vars, app, listening, resets, uncleaned>>
  <2>1. UNCHANGED <<pc, loc, overlapped, crashes, app, uncleaned>>
    BY <1>4 DEF vars
  <2>2. QED
    BY <1>4, <2>1, ControlTypes, RaiseKeeps
<1>5. QED
  BY <1>2, <1>3, <1>4 DEF ServeVerify

LEMMA ServeResetKeeps ==
    ASSUME ControlInv, NEW t \in Actors, ServeReset(t)
    PROVE  ControlInv'
<1>1. "OK" \in Codes /\ Fresh \in App
  BY DEF Codes, App, Fresh
<1>2. /\ Finish(t, "serving", "OK") /\ app' = Fresh /\ uncleaned' = FALSE
      /\ UNCHANGED <<pc, loc, overlapped, crashes>>
  BY DEF ServeReset, Cleaned
<1>3. QED
  BY <1>1, <1>2, ControlTypes, FinishKeeps

LEMMA ResetCleanupFailsKeeps ==
    ASSUME ControlInv, NEW t \in Actors, ResetCleanupFails(t)
    PROVE  ControlInv'
<1>1. /\ Raise(t, "serving") /\ app' = app /\ uncleaned' = TRUE
      /\ UNCHANGED <<pc, loc, overlapped>> /\ crashes' = crashes + 1
  BY DEF ResetCleanupFails, PartlyCleaned, Fault
<1>2. QED
  BY <1>1, ControlTypes, RaiseKeeps

LEMMA ResetOpenFailsKeeps ==
    ASSUME ControlInv, NEW t \in Actors, ResetOpenFails(t)
    PROVE  ControlInv'
<1>1. [Fresh EXCEPT !.open = FALSE] \in App
  BY DEF App, Fresh
<1>2. /\ Raise(t, "serving") /\ app' = [Fresh EXCEPT !.open = FALSE] /\ uncleaned' = FALSE
      /\ UNCHANGED <<pc, loc, overlapped>> /\ crashes' = crashes + 1
  BY DEF ResetOpenFails, Cleaned, Fault
<1>3. app' \in App /\ uncleaned' \in BOOLEAN
  BY <1>1, <1>2
<1>4. crashes' \in Nat
  BY <1>2, ControlTypes
<1>5. Raise(t, "serving") /\ UNCHANGED <<pc, loc, overlapped>>
  BY <1>2
<1>6. QED
  BY <1>3, <1>4, <1>5, RaiseKeeps

LEMMA ReplyKeeps ==
    ASSUME ControlInv, NEW t \in Actors, Reply(t)
    PROVE  ControlInv'
<1>1. UNCHANGED <<pc, loc, overlapped, crashes, app, uncleaned>> /\ req[t].phase = "done"
  BY DEF Reply, vars
<1>2. CASE Answered(t) /\ lock' = NoOne
  <2>1. /\ req' \in [Actors -> Served \cup {Free}] /\ req'[t].phase = "answered"
        /\ \A u \in Actors : u # t => req'[u] = req[u]
    BY <1>2, ControlTypes, AnsweredMoves
  <2>2. "answered" \notin Serving /\ "done" \in Serving
    BY DEF Serving
  <2>3. QED
    BY <1>1, <1>2, <2>1, <2>2, ControlTypes, QuietStep
<1>3. CASE Raise(t, "done")
  BY <1>1, <1>3, ControlTypes, RaiseKeeps
<1>4. QED
  BY <1>2, <1>3 DEF Reply

LEMMA TakeSnapshotKeeps ==
    ASSUME ControlInv, NEW t \in Actors, TakeSnapshot(t)
    PROVE  ControlInv'
<1>1. /\ UNCHANGED <<pc, loc, overlapped, crashes, app, uncleaned, lock>>
      /\ req[t].phase \in {"snapshot", "problem"}
  BY DEF TakeSnapshot, vars
<1>2. /\ req' \in [Actors -> Served \cup {Free}] /\ req'[t].phase \in {"answered", "free"}
      /\ \A u \in Actors : u # t => req'[u] = req[u]
  BY ControlTypes, AnsweredMoves, FreeMoves DEF TakeSnapshot
<1>3. req[t].phase \notin Serving /\ req'[t].phase \notin Serving
  BY <1>1, <1>2 DEF Serving
<1>4. req[t].phase # "calling" /\ req'[t].phase # "calling"
  BY <1>1, <1>2
<1>5. QED
  BY <1>1, <1>2, <1>3, <1>4, ControlTypes, QuietStep

LEMMA SendKeeps ==
    ASSUME ControlInv, NEW t \in Actors, Send(t) \/ SendFails(t)
    PROVE  ControlInv'
<1>1. /\ UNCHANGED <<pc, loc, overlapped, crashes, app, uncleaned, lock>>
      /\ req[t].phase = "answered"
  BY DEF Send, SendFails, InternalError, vars
<1>2. /\ req' \in [Actors -> Served \cup {Free}] /\ req'[t].phase \in {"problem", "free"}
      /\ \A u \in Actors : u # t => req'[u] = req[u]
  BY ControlTypes, ErrorMoves, FreeMoves DEF Send, SendFails
<1>3. req[t].phase \notin Serving /\ req'[t].phase \notin Serving
  BY <1>1, <1>2 DEF Serving
<1>4. req[t].phase # "calling" /\ req'[t].phase # "calling"
  BY <1>1, <1>2
<1>5. QED
  BY <1>1, <1>2, <1>3, <1>4, ControlTypes, QuietStep

-----------------------------------------------------------------------------
(* A call of the runtime begins: no other call is under way.               *)
LEMMA CallKeeps ==
    ASSUME ControlInv, NEW t \in Actors, NEW p, Begin(t, p), Step(t), app.open, Call(t)
    PROVE  ControlInv'
<1>1. /\ req[t].phase = "serving" /\ req' = [req EXCEPT ![t].phase = "calling"]
      /\ UNCHANGED <<lock, app, uncleaned>>
  BY DEF Call, Phase
<1>2. "calling" \in (Serving \cup Waiting) \ {"free"} /\ "calling" \in Serving /\ "serving" \in Serving
  BY DEF Serving
<1>3. /\ req' \in [Actors -> Served \cup {Free}] /\ req'[t].phase = "calling"
      /\ \A u \in Actors : u # t => req'[u] = req[u]
  BY <1>1, <1>2, ControlTypes, PhaseMoves
<1>4. CallTypes' /\ \A u \in Actors : u # t => pc'[u] = pc[u]
  BY CallsMove DEF ControlInv
<1>5. lock = t
  BY <1>1, <1>2, ControlTypes
<1>6. \A b \in Actors \ {t} : pc[b] = "idle"
  BY <1>2, <1>5, ControlTypes DEF ControlInv, LockInv
<1>7. overlapped' = FALSE
  BY <1>6 DEF Begin, ControlInv, LockInv
<1>8. lock' = t /\ lock \in {t, NoOne} /\ req'[t].phase \in Serving
  BY <1>1, <1>2, <1>3, <1>5
<1>9. app' \in App /\ app'.open = app.open /\ app'.open /\ uncleaned' \in BOOLEAN
  BY <1>1, ControlTypes
<1>10. QED
  BY <1>3, <1>4, <1>7, <1>8, <1>9, ControlStep

(* The times and the decision the server passes are among those of a run.  *)
LEMMA ServerCalls ==
    /\ ApproveTime \in Times /\ PackageTime \in Times
    /\ "required" \in Roles /\ "APPROVE" \in Decisions
  BY ServerAssumption, RunAssumption DEF ApproveTime, PackageTime, Times, Roles, Decisions

LEMMA ServePrepareKeeps ==
    ASSUME ControlInv, NEW t \in Actors, ServePrepare(t)
    PROVE  ControlInv'
<1>1. "RUN_ALREADY_PREPARED" \in Codes
  BY DEF Codes
<1>2. CASE Refuse(t, "RUN_ALREADY_PREPARED")
  BY <1>1, <1>2, RefuseKeeps
<1>3. CASE Prepare(t) /\ Call(t)
  <2>1. Begin(t, "mkdir") /\ Step(t)
    BY <1>3 DEF Prepare, Step
  <2>2. QED
    BY <1>3, <2>1, CallKeeps DEF ServePrepare, Allowed
<1>4. QED
  BY <1>2, <1>3 DEF ServePrepare

LEMMA ServeApproveKeeps ==
    ASSUME ControlInv, NEW t \in Actors, ServeApprove(t)
    PROVE  ControlInv'
<1>1. "RUN_NOT_PREPARED" \in Codes /\ "REFERENCE_RUN_CONFLICT" \in Codes
  BY DEF Codes
<1>2. CASE Refuse(t, "RUN_NOT_PREPARED") \/ Refuse(t, "REFERENCE_RUN_CONFLICT")
  BY <1>1, <1>2, RefuseKeeps
<1>3. CASE ApproveLoad(t, "required", "APPROVE", ApproveTime) /\ Call(t)
  <2>1. Begin(t, "approve") /\ Step(t)
    BY <1>3, ServerCalls DEF ApproveLoad, Step
  <2>2. QED
    BY <1>3, <2>1, CallKeeps DEF ServeApprove, Allowed
<1>4. QED
  BY <1>2, <1>3 DEF ServeApprove

LEMMA ServePackageKeeps ==
    ASSUME ControlInv, NEW t \in Actors, ServePackage(t)
    PROVE  ControlInv'
<1>1. /\ "RUN_NOT_PREPARED" \in Codes /\ "HUMAN_GATE_REQUIRED" \in Codes
      /\ "INVALID_STAGE_FOR_PACKAGE" \in Codes
  BY DEF Codes
<1>2. CASE Refuse(t, "RUN_NOT_PREPARED") \/ Refuse(t, "INVALID_STAGE_FOR_PACKAGE")
  BY <1>1, <1>2, RefuseKeeps
<1>3. CASE /\ Finish(t, "serving", "HUMAN_GATE_REQUIRED")
           /\ app' = [app EXCEPT !.gateProbe = "BLOCKED_AS_EXPECTED"]
           /\ UNCHANGED <<vars, listening, resets, uncleaned>>
  <2>1. app' \in App
    BY <1>3, ControlTypes DEF App
  <2>2. UNCHANGED <<pc, loc, overlapped, crashes, uncleaned>>
    BY <1>3 DEF vars
  <2>3. QED
    BY <1>1, <1>3, <2>1, <2>2, ControlTypes, FinishKeeps
<1>4. CASE PackageLoad(t, PackageTime) /\ Call(t)
  <2>1. Begin(t, "package") /\ Step(t)
    BY <1>4, ServerCalls DEF PackageLoad, Step
  <2>2. QED
    BY <1>4, <2>1, CallKeeps DEF ServePackage, Allowed
<1>5. QED
  BY <1>2, <1>3, <1>4 DEF ServePackage

(* A step inside a call leaves it as the only one.                         *)
LEMMA CallStepIsStep ==
    ASSUME NEW t, CallStep(t) \/ PrepareState(t) \/ ApproveWriteState(t) \/ PackageWriteState(t)
                  \/ Crash(t)
    PROVE  Step(t) /\ overlapped' = overlapped
<1>1. Step(t)
  BY DEF CallStep, Step
<1>2. overlapped' = overlapped
  BY DEF CallStep, PrepareMkdir, PrepareWrite, PrepareState,
     ApproveRead, ApproveWriteRecord, ApproveWriteTrace, ApproveWriteState,
     PackageRead, PackageCheck, PackageMkdir, PackageDraft, PackageBundle,
     PackageWriteManifest, PackageWriteTrace, PackageWriteState, Crash
<1>3. QED
  BY <1>1, <1>2

LEMMA CallEndsKeeps ==
    ASSUME ControlInv, NEW t \in Actors, NEW code \in Codes, Step(t), overlapped' = overlapped,
           pc'[t] = "idle", Finish(t, "calling", code), UNCHANGED <<app, uncleaned>>
    PROVE  ControlInv'
<1>1. /\ req[t].phase = "calling" /\ req' = [req EXCEPT ![t].phase = "done", ![t].code = code]
      /\ lock' = lock
  BY DEF Finish, Coded
<1>2. "done" \in (Serving \cup Waiting) \ {"free"} /\ "done" \in Serving /\ "calling" \in Serving
  BY DEF Serving
<1>3. /\ req' \in [Actors -> Served \cup {Free}] /\ req'[t].phase = "done"
      /\ \A u \in Actors : u # t => req'[u] = req[u]
  BY <1>1, <1>2, ControlTypes, CodeMoves
<1>4. lock = t
  BY <1>1, <1>2, ControlTypes
<1>5. CallTypes' /\ \A u \in Actors : u # t => pc'[u] = pc[u]
  BY CallsMove DEF ControlInv
<1>6. overlapped' = FALSE
  BY DEF ControlInv, LockInv
<1>7. lock' = t /\ lock \in {t, NoOne} /\ req'[t].phase \in Serving
  BY <1>1, <1>2, <1>3, <1>4
<1>8. app' \in App /\ app'.open = app.open /\ uncleaned' \in BOOLEAN
  BY ControlTypes
<1>9. QED
  BY <1>3, <1>5, <1>6, <1>7, <1>8, ControlStep

LEMMA CallContinuesKeeps ==
    ASSUME ControlInv, NEW t \in Actors, CallContinues(t)
    PROVE  ControlInv'
<1>1. Step(t) /\ overlapped' = overlapped /\ req[t].phase = "calling" /\ UNCHANGED <<app, uncleaned>>
  BY CallStepIsStep DEF CallContinues
<1>2. "REFERENCE_RUN_CONFLICT" \in Codes
  BY DEF Codes
<1>3. CASE pc'[t] = "idle"
  BY <1>1, <1>2, <1>3, CallEndsKeeps DEF CallContinues
<1>4. CASE pc'[t] # "idle"
  <2>1. req' = req /\ lock' = lock
    BY <1>4 DEF CallContinues
  <2>2. CallTypes' /\ \A u \in Actors : u # t => pc'[u] = pc[u]
    BY <1>1, CallsMove DEF ControlInv
  <2>3. overlapped' = FALSE /\ app.open /\ req \in [Actors -> Served \cup {Free}]
    BY <1>1 DEF ControlInv, LockInv, ServerTypes
  <2>4. lock = t /\ "calling" \in Serving
    BY <1>1, ControlTypes DEF Serving
  <2>5. QED
    BY <1>1, <2>1, <2>2, <2>3, <2>4, ControlTypes, ControlStep
<1>5. QED
  BY <1>3, <1>4

LEMMA CallSucceedsKeeps ==
    ASSUME ControlInv, NEW t \in Actors, CallSucceeds(t)
    PROVE  ControlInv'
<1>1. Step(t) /\ overlapped' = overlapped /\ UNCHANGED <<app, uncleaned>>
  BY CallStepIsStep DEF CallSucceeds
<1>2. "OK" \in Codes
  BY DEF Codes
<1>3. pc' = [pc EXCEPT ![t] = "idle"]
  BY DEF CallSucceeds, PrepareState, ApproveWriteState, PackageWriteState, Return, Go
<1>4. pc'[t] = "idle"
  BY <1>3 DEF ControlInv, CallTypes
<1>5. QED
  BY <1>1, <1>2, <1>4, CallEndsKeeps DEF CallSucceeds

LEMMA CallRaisesKeeps ==
    ASSUME ControlInv, NEW t \in Actors, CallRaises(t)
    PROVE  ControlInv'
<1>1. Step(t) /\ overlapped' = overlapped /\ UNCHANGED <<app, uncleaned>>
  BY CallStepIsStep DEF CallRaises
<1>2. CallTypes' /\ \A u \in Actors : u # t => pc'[u] = pc[u]
  BY <1>1, CallsMove DEF ControlInv
<1>3. pc'[t] = "idle"
  BY DEF CallRaises, Crash, ControlInv, CallTypes
<1>4. InternalError(t, "calling") /\ lock' = NoOne
  BY DEF CallRaises, Raise
<1>5. /\ req[t].phase = "calling" /\ req' \in [Actors -> Served \cup {Free}]
      /\ req'[t].phase = "problem"
      /\ \A u \in Actors : u # t => req'[u] = req[u]
  BY <1>4, ControlTypes, ErrorMoves
<1>6. "problem" \notin Serving /\ "calling" \in Serving
  BY DEF Serving
<1>7. overlapped' = FALSE
  BY <1>1 DEF ControlInv, LockInv
<1>8. QED
  BY <1>1, <1>2, <1>3, <1>4, <1>5, <1>6, <1>7, ControlTypes, ControlStep

(* Main's own steps, and an edit.                                          *)
LEMMA MainKeeps ==
    ASSUME ControlInv, StopListening \/ Close \/ Edit \/ UNCHANGED allVars
    PROVE  ControlInv'
<1>1. UNCHANGED <<pc, loc, crashes, overlapped>> /\ UNCHANGED <<lock, req>>
  BY DEF StopListening, Close, Edit, EditArtifact, Cleaned, allVars, serverVars, vars
<1>2. CallTypes'
  BY <1>1 DEF ControlInv, CallTypes
<1>3. CASE UNCHANGED <<app, uncleaned>>
  <2>1. ServerTypes' /\ LockInv'
    BY <1>1, <1>3 DEF ControlInv, ServerTypes, LockInv
  <2>2. QED
    BY <1>2, <2>1 DEF ControlInv
<1>4. CASE Close
  <2>1. app' \in App /\ lock = NoOne /\ uncleaned' = FALSE
    BY <1>4, ControlTypes DEF Close, App
  <2>2. \A t \in Actors : req[t].phase \notin Serving
    BY <2>1, ControlTypes, ServerAssumption
  <2>3. \A t \in Actors : req[t].phase # "calling"
    BY <2>2 DEF Serving
  <2>4. ServerTypes'
    BY <1>1, <2>1 DEF ControlInv, ServerTypes
  <2>5. LockInv'
    BY <1>1, <2>2, <2>3 DEF ControlInv, LockInv
  <2>6. QED
    BY <1>2, <2>4, <2>5 DEF ControlInv
<1>5. QED
  BY <1>3, <1>4 DEF StopListening, Edit, allVars, serverVars

LEMMA ControlKeeps == ControlInv /\ [ServerNext]_allVars => ControlInv'
<1> SUFFICES ASSUME ControlInv, [ServerNext]_allVars PROVE ControlInv'
  OBVIOUS
<1>1. ASSUME NEW t \in Actors, NEW r \in Requests, Receive(t, r) PROVE ControlInv'
  BY <1>1, ReceiveKeeps
<1>2. ASSUME NEW t \in Actors, Work(t) PROVE ControlInv'
  BY <1>2, DispatchKeeps, RefusePayloadKeeps, ServeClosedKeeps, RefuseInputsKeeps,
     ServePrepareKeeps, ServeApproveKeeps, ServePackageKeeps, ServeVerifyKeeps,
     ServeBenchmarkKeeps, ServeResetKeeps, CallContinuesKeeps, CallSucceedsKeeps,
     ReplyKeeps, TakeSnapshotKeeps, SendKeeps DEF Work
<1>3. ASSUME NEW t \in Actors,
             ResetCleanupFails(t) \/ ResetOpenFails(t) \/ CallRaises(t) \/ SendFails(t)
      PROVE  ControlInv'
  BY <1>3, ResetCleanupFailsKeeps, ResetOpenFailsKeeps, CallRaisesKeeps, SendKeeps
<1>4. QED
  BY <1>1, <1>2, <1>3, MainKeeps DEF ServerNext

(* Whatever browsers send, however many threads serve them, whatever fails *)
(* and whoever resets or closes the application: a call of the runtime has *)
(* the lock and its workspace from its first read to its last write.       *)
THEOREM CallsKeepTheirWorkspace == ServerSpec => []CallKeepsItsWorkspace
<1>1. ControlInv => CallKeepsItsWorkspace
  BY DEF ControlInv, LockInv, CallKeepsItsWorkspace, Serving
<1>2. QED
  BY <1>1, ControlInitially, ControlKeeps, PTL DEF ServerSpec

-----------------------------------------------------------------------------
(***************************************************************************)
(* The run of the demo as a Human Gate.  A step of the server leaves the   *)
(* run alone, is a step of the thread that has the lock, cleans the        *)
(* workspace while no call is under way, or fails to.                      *)
(***************************************************************************)
DemoStep(t) ==
    \/ Prepare(t)
    \/ ApproveLoad(t, "required", "APPROVE", ApproveTime)
    \/ PackageLoad(t, PackageTime)
    \/ CallStep(t) \/ PrepareState(t) \/ ApproveWriteState(t) \/ PackageWriteState(t)
    \/ Crash(t)

Untouched == UNCHANGED vars \/ EditArtifact
Wiped == /\ Cleaned /\ UNCHANGED <<pc, loc>> /\ crashes' \in Nat
         /\ AllIdle

LEMMA DemoStepIsStep == ASSUME NEW t \in Actors, DemoStep(t) PROVE Step(t) /\ Next
<1>1. Step(t)
  BY ServerCalls DEF DemoStep, CallStep, Step
<1>2. QED
  BY <1>1 DEF Next

LEMMA NobodyCalls ==
    ASSUME ControlInv, NEW t \in Actors, req[t].phase = "serving" \/ lock = NoOne
    PROVE  AllIdle
<1> SUFFICES ASSUME NEW u \in Actors, pc[u] # "idle" PROVE FALSE
  BY DEF AllIdle
<1>1. req[u].phase = "calling" /\ lock = u
  BY DEF ControlInv, LockInv, Serving
<1>2. req[t].phase = "serving" => lock = t
  BY DEF ControlInv, LockInv, Serving
<1>3. QED
  BY <1>1, <1>2, ServerAssumption

LEMMA WorkTouches ==
    ASSUME ControlInv, NEW t \in Actors, Work(t)
    PROVE  \/ UNCHANGED vars /\ uncleaned' = uncleaned
           \/ DemoStep(t) /\ uncleaned' = uncleaned
           \/ Wiped /\ uncleaned' = FALSE
<1>1. ASSUME NEW code, Refuse(t, code) PROVE UNCHANGED vars /\ uncleaned' = uncleaned
  BY <1>1 DEF Refuse
<1>2. CASE \/ Dispatch(t) \/ RefusePayload(t) \/ ServeClosed(t) \/ ServeVerify(t)
           \/ ServeBenchmark(t) \/ Reply(t) \/ TakeSnapshot(t) \/ Send(t) \/ RefuseInputs(t)
  BY <1>1, <1>2 DEF Dispatch, RefusePayload, ServeClosed, ServeVerify, ServeBenchmark, Reply,
     TakeSnapshot, Send, RefuseInputs
<1>3. CASE ServePrepare(t)
  BY <1>1, <1>3 DEF ServePrepare, Call, DemoStep
<1>4. CASE ServeApprove(t)
  BY <1>1, <1>4 DEF ServeApprove, Call, DemoStep
<1>5. CASE ServePackage(t)
  BY <1>1, <1>5 DEF ServePackage, Call, DemoStep
<1>6. CASE CallContinues(t) \/ CallSucceeds(t)
  BY <1>6 DEF CallContinues, CallSucceeds, DemoStep
<1>7. CASE ServeReset(t)
  <2>1. Cleaned /\ UNCHANGED <<pc, loc, crashes>> /\ uncleaned' = FALSE /\ req[t].phase = "serving"
    BY <1>7 DEF ServeReset, Allowed, Serves
  <2>2. crashes' \in Nat
    BY <2>1, ControlTypes
  <2>3. QED
    BY <2>1, <2>2, NobodyCalls DEF Wiped
<1>8. QED
  BY <1>2, <1>3, <1>4, <1>5, <1>6, <1>7 DEF Work

LEMMA ServerTouches ==
    ASSUME ControlInv, [ServerNext]_allVars
    PROVE  \/ Untouched /\ uncleaned' = uncleaned
           \/ (\E t \in Actors : DemoStep(t)) /\ uncleaned' = uncleaned
           \/ Wiped /\ uncleaned' = FALSE
           \/ uncleaned' = TRUE
<1>1. ASSUME NEW t \in Actors, NEW r \in Requests, Receive(t, r)
      PROVE  UNCHANGED vars /\ uncleaned' = uncleaned
  BY <1>1 DEF Receive
<1>2. ASSUME NEW t \in Actors, SendFails(t) PROVE UNCHANGED vars /\ uncleaned' = uncleaned
  BY <1>2 DEF SendFails
<1>3. CASE StopListening \/ Edit \/ UNCHANGED allVars
  BY <1>3 DEF StopListening, Edit, Untouched, serverVars, allVars
<1>4. ASSUME NEW t \in Actors, ResetCleanupFails(t) PROVE uncleaned' = TRUE
  BY <1>4 DEF ResetCleanupFails
<1>5. ASSUME NEW t \in Actors, CallRaises(t) PROVE DemoStep(t) /\ uncleaned' = uncleaned
  BY <1>5 DEF CallRaises, DemoStep
<1>6. ASSUME NEW t \in Actors, ResetOpenFails(t) PROVE Wiped /\ uncleaned' = FALSE
  <2>1. /\ Cleaned /\ UNCHANGED <<pc, loc>> /\ crashes' = crashes + 1 /\ uncleaned' = FALSE
        /\ req[t].phase = "serving"
    BY <1>6 DEF ResetOpenFails, Allowed, Serves, Fault
  <2>2. crashes' \in Nat
    BY <2>1, ControlTypes
  <2>3. QED
    BY <2>1, <2>2, NobodyCalls DEF Wiped
<1>7. CASE Close
  <2>1. /\ Cleaned /\ UNCHANGED <<pc, loc, crashes>> /\ uncleaned' = FALSE /\ lock = NoOne
    BY <1>7 DEF Close
  <2>2. crashes' \in Nat /\ \E t \in Actors : TRUE
    BY <2>1, ControlTypes, RunAssumption
  <2>3. QED
    BY <2>1, <2>2, NobodyCalls DEF Wiped
<1>8. QED
  BY <1>1, <1>2, <1>3, <1>4, <1>5, <1>6, <1>7, WorkTouches DEF ServerNext, Untouched

-----------------------------------------------------------------------------
(* A workspace nothing was written to, as an opened or a cleaned one is.   *)
Blank ==
    /\ runDir = FALSE /\ written = 0 /\ subject = Original
    /\ record = NoRecord /\ trace = <<>> /\ state = NoState
    /\ pkgDir = FALSE /\ draft = NoRecord /\ bundle = NoRecord /\ manifest = NoManifest
    /\ pc = [a \in Actors |-> "idle"]
    /\ loc = [a \in Actors |-> Idle]
    /\ crashes \in Nat
    /\ overlapped = FALSE

(* The page only approves; so the run is not rejected or sent back.        *)
Chosen ==
    /\ state.stage \notin {"REJECTED", "REVISION_REQUIRED"}
    /\ \A a \in Actors : pc[a] \in Approving => loc[a].decision = "APPROVE"

LEMMA BlankRuns == Blank => RunInv /\ Chosen
<1> SUFFICES ASSUME Blank PROVE RunInv /\ Chosen
  OBVIOUS
<1> USE DEF Blank
<1>1. RunTypes
  <2>1. subject \in Subjects /\ 0 \in 0..ArtifactFiles /\ <<>> \in Seq(Event)
    BY RunAssumption DEF Subjects
  <2>2. pc \in [Actors -> Places] /\ loc \in [Actors -> Local]
    BY IdleTypes DEF Places
  <2>3. QED
    BY <2>1, <2>2 DEF RunTypes
<1>2. PrepareInv /\ PackageInv /\ \A a \in Actors : CallInv(a)
  BY DEF PrepareInv, PackageInv, CallInv, Holds, Approving, Packaging, Filling
<1>3. PackageHasLiveApproval
  BY DEF PackageHasLiveApproval
<1>4. FilesInv
  BY <1>1, <1>2, <1>3 DEF FilesInv
<1>5. state.stage = "none"
  BY DEF NoState
<1>6. DiskInv /\ SettledTrace
  BY <1>5 DEF DiskInv, SettledTrace, Unprepared
<1>7. OneCall /\ \A a \in Actors : Follows(a, pc[a], loc[a])
  BY DEF OneCall, Follows, Approving, Packaging, Filling
<1>8. Chosen
  BY <1>5 DEF Chosen, Approving
<1>9. QED
  BY <1>4, <1>6, <1>7, <1>8 DEF RunInv, SoloInv

LEMMA WipedIsBlank == ASSUME ControlInv, Wiped PROVE Blank'
<1>1. pc = [a \in Actors |-> "idle"]
  BY DEF ControlInv, CallTypes, Wiped, AllIdle
<1>2. loc = [a \in Actors |-> Idle]
  BY DEF ControlInv, CallTypes, Wiped, AllIdle
<1>3. overlapped' = FALSE
  BY DEF Wiped, Cleaned, ControlInv, LockInv
<1>4. QED
  BY <1>1, <1>2, <1>3 DEF Wiped, Cleaned, Blank

(* While the workspace was not half removed it holds a proper run.         *)
ServedRun == ~uncleaned => RunInv /\ Chosen
DemoInv == ControlInv /\ ServedRun

(* How a step of a call changes what is shown of the run.                  *)
LEMMA StagesAdvance ==
    ASSUME FilesInv, SoloInv, Chosen, NEW t \in Actors, DemoStep(t)
    PROVE  \/ /\ state' = state /\ record' = record
              /\ manifest' = manifest \/ state.stage = "APPROVED"
           \/ state' = state /\ manifest' = manifest /\ state.stage = "AWAITING_APPROVAL"
           \/ /\ PrepareState(t) /\ state = NoState
              /\ state'.stage = "AWAITING_APPROVAL" /\ manifest' = manifest
           \/ /\ ApproveWriteState(t) /\ state.stage = "AWAITING_APPROVAL"
              /\ state'.stage = "APPROVED" /\ manifest' = manifest
           \/ /\ PackageWriteState(t) /\ state.stage = "APPROVED"
              /\ state'.stage = "PACKAGED" /\ manifest' = manifest
<1>1. CASE PrepareState(t)
  <2>1. state = NoState
    BY <1>1 DEF PrepareState, Return, Go, FilesInv, PrepareInv
  <2>2. QED
    BY <1>1, <2>1 DEF PrepareState, package
<1>2. CASE ApproveWriteState(t)
  <2>1. pc[t] = "state"
    BY <1>2 DEF ApproveWriteState, Return, Go
  <2>2. state = GateState /\ loc[t].st = state /\ loc[t].decision = "APPROVE"
    BY <2>1 DEF SoloInv, Follows, Approving, Chosen
  <2>3. state'.stage = TargetOf("APPROVE")
    BY <1>2, <2>2 DEF ApproveWriteState, GateState
  <2>4. QED
    BY <1>2, <2>2, <2>3 DEF ApproveWriteState, GateState, TargetOf, package
<1>3. CASE PackageWriteState(t)
  <2>1. state.stage = "APPROVED" /\ state'.stage = "PACKAGED"
    BY <1>3, PackageWriteStateSolo
  <2>2. QED
    BY <1>3, <2>1 DEF PackageWriteState, package
<1>4. CASE PackageWriteManifest(t)
  <2>1. pc[t] = "manifest" /\ state' = state /\ record' = record
    BY <1>4 DEF PackageWriteManifest, Go, disk
  <2>2. state.stage = "APPROVED"
    BY <2>1 DEF SoloInv, Follows, Packaging, Filling
  <2>3. QED
    BY <2>1, <2>2
<1>5. CASE ApproveWriteRecord(t)
  <2>1. pc[t] = "record" /\ state' = state /\ manifest' = manifest
    BY <1>5 DEF ApproveWriteRecord, Go, package
  <2>2. state = GateState
    BY <2>1 DEF SoloInv, Follows, Approving
  <2>3. QED
    BY <2>1, <2>2 DEF GateState
<1>6. CASE Prepare(t) \/ ApproveLoad(t, "required", "APPROVE", ApproveTime)
           \/ PackageLoad(t, PackageTime) \/ Crash(t)
  BY <1>6 DEF Prepare, ApproveLoad, PackageLoad, Crash, disk, package
<1>7. CASE CallStep(t) /\ ~PackageWriteManifest(t) /\ ~ApproveWriteRecord(t)
  BY <1>7 DEF CallStep, PrepareMkdir, PrepareWrite, ApproveRead, ApproveWriteTrace,
     PackageRead, PackageCheck, PackageMkdir, PackageDraft, PackageBundle, PackageWriteTrace,
     disk, package
<1>8. QED
  BY <1>1, <1>2, <1>3, <1>4, <1>5, <1>6, <1>7 DEF DemoStep

(* The decision of a call is the one it began with.                        *)
LEMMA DecisionsStay ==
    ASSUME FilesInv, Chosen, NEW t \in Actors, DemoStep(t)
    PROVE  \A a \in Actors : pc'[a] \in Approving => loc'[a].decision = "APPROVE"
<1>1. pc \in [Actors -> Places] /\ loc \in [Actors -> Local]
  BY DEF FilesInv, RunTypes
<1>2. \A a \in Actors : a # t => pc'[a] = pc[a] /\ loc'[a] = loc[a]
  BY <1>1 DEF DemoStep, Prepare, ApproveLoad, PackageLoad, CallStep, PrepareMkdir, PrepareWrite,
     PrepareState, ApproveRead, ApproveWriteRecord, ApproveWriteTrace, ApproveWriteState,
     PackageRead, PackageCheck, PackageMkdir, PackageDraft, PackageBundle,
     PackageWriteManifest, PackageWriteTrace, PackageWriteState, Crash, Begin, Return, Go
<1>3. pc'[t] \in Approving => loc'[t].decision = "APPROVE"
  <2>1. CASE ApproveLoad(t, "required", "APPROVE", ApproveTime)
    BY <1>1, <2>1, IdleTypes DEF ApproveLoad, Idle
  <2>2. CASE ApproveRead(t)
    <3>1. CASE Return(t, "approve")
      BY <1>1, <3>1 DEF Return, Go, Approving
    <3>2. CASE ~Return(t, "approve")
      <4> DEFINE l == [loc[t] EXCEPT !.seen = subject, !.tail = trace, !.rec = DecisionOf(t)]
      <4>1. pc[t] = "approve" /\ loc' = [loc EXCEPT ![t] = l]
        BY <2>2, <3>2 DEF ApproveRead, Go
      <4>2. loc[t] \in Local /\ loc[t].decision = "APPROVE"
        BY <1>1, <4>1 DEF Chosen, Approving
      <4>3. l.decision = "APPROVE"
        BY <4>2 DEF Local
      <4> HIDE DEF l
      <4>4. QED
        BY <1>1, <4>1, <4>3
    <3>3. QED
      BY <3>1, <3>2
  <2>3. CASE ApproveWriteRecord(t) \/ ApproveWriteTrace(t)
    <3>1. pc[t] \in Approving /\ loc' = loc
      BY <2>3 DEF ApproveWriteRecord, ApproveWriteTrace, Go, Approving
    <3>2. QED
      BY <3>1 DEF Chosen
  <2>4. CASE ~ApproveLoad(t, "required", "APPROVE", ApproveTime) /\ ~ApproveRead(t)
             /\ ~ApproveWriteRecord(t) /\ ~ApproveWriteTrace(t)
    <3>1. pc'[t] \notin Approving
      BY <1>1, <2>4 DEF DemoStep, Prepare, PackageLoad, CallStep, PrepareMkdir, PrepareWrite,
         PrepareState, ApproveWriteState, PackageRead, PackageCheck, PackageMkdir, PackageDraft,
         PackageBundle, PackageWriteManifest, PackageWriteTrace, PackageWriteState, Crash,
         Begin, Return, Go, Approving
    <3>2. QED
      BY <3>1
  <2>5. QED
    BY <2>1, <2>2, <2>3, <2>4
<1>4. QED
  BY <1>2, <1>3 DEF Chosen

LEMMA ServedRunKeeps ==
    ASSUME DemoInv, ControlInv', [ServerNext]_allVars
    PROVE  ServedRun'
<1> SUFFICES ASSUME ~uncleaned' PROVE RunInv' /\ Chosen'
  BY DEF ServedRun
<1>1. ControlInv /\ ControlInv' /\ (~uncleaned => RunInv /\ Chosen)
  BY DEF DemoInv, ServedRun
<1>2. CASE Wiped
  BY <1>1, <1>2, WipedIsBlank, BlankRuns, PTL
<1>3. CASE Untouched /\ uncleaned' = uncleaned
  <2>1. RunInv /\ Chosen /\ [Next]_vars
    BY <1>1, <1>3 DEF Untouched, Next
  <2>2. RunInv'
    BY <2>1, RunStep
  <2>3. Chosen'
    BY <1>3, <2>1 DEF Untouched, EditArtifact, vars, Chosen
  <2>4. QED
    BY <2>2, <2>3
<1>4. ASSUME NEW t \in Actors, DemoStep(t), uncleaned' = uncleaned PROVE RunInv' /\ Chosen'
  <2>1. RunInv /\ Chosen /\ Next
    BY <1>1, <1>4, DemoStepIsStep
  <2>2. RunInv'
    BY <2>1, RunStep
  <2>3. FilesInv /\ SoloInv
    BY <1>1, <2>1 DEF RunInv, ControlInv, LockInv
  <2>4. state'.stage \notin {"REJECTED", "REVISION_REQUIRED"}
    BY <1>4, <2>1, <2>3, StagesAdvance DEF Chosen
  <2>5. QED
    BY <1>4, <2>1, <2>2, <2>3, <2>4, DecisionsStay DEF Chosen
<1>5. QED
  BY <1>1, <1>2, <1>3, <1>4, ServerTouches

LEMMA DemoInitially == StartUp => DemoInv
<1> SUFFICES ASSUME StartUp PROVE DemoInv
  OBVIOUS
<1>1. Blank
  BY DEF StartUp, Init, Blank
<1>2. QED
  BY <1>1, ControlInitially, BlankRuns DEF DemoInv, ServedRun

LEMMA DemoKeeps == DemoInv /\ [ServerNext]_allVars => DemoInv'
  BY ControlKeeps, ServedRunKeeps DEF DemoInv

(* What the gate is told while the workspace is whole: nothing is ended,   *)
(* and a sign-off stands over what was decided.                            *)
GateShown ==
    ~uncleaned => /\ RunSignedOff <=> state.stage \in {"APPROVED", "PACKAGED"}
                  /\ PhaseOf(state.stage) \in {"drafting", "gated", "authorised", "delivered"}
                  /\ PhaseOf(state.stage) = "drafting" => ~RunSignedOff
                  /\ RunInv /\ Standing /\ ~overlapped

LEMMA DemoShows == DemoInv => GateShown
<1> SUFFICES ASSUME DemoInv, ~uncleaned
             PROVE  /\ RunSignedOff <=> state.stage \in {"APPROVED", "PACKAGED"}
                    /\ PhaseOf(state.stage) \in {"drafting", "gated", "authorised", "delivered"}
                    /\ PhaseOf(state.stage) = "drafting" => ~RunSignedOff
                    /\ RunInv /\ Standing /\ ~overlapped
  BY DEF GateShown
<1>1. RunInv /\ Chosen /\ ~overlapped
  BY DEF DemoInv, ServedRun, ControlInv, LockInv
<1>2. Standing
  BY <1>1, SignOff
<1>3. RunSignedOff <=> state.stage \in {"APPROVED", "PACKAGED"}
  BY <1>1, <1>2 DEF Standing
<1>4. QED
  BY <1>1, <1>2, <1>3 DEF Chosen, PhaseOf

(* A step of the server is a step of the gate or leaves it alone.          *)
LEMMA ServerStepsGate ==
    ASSUME DemoInv, GateShown, GateShown', [ServerNext]_allVars
    PROVE  [DemoGate!GateNext]_(DemoGate!gateVars)
<1>1. uncleaned \in BOOLEAN /\ uncleaned' \in BOOLEAN /\ ControlInv
  BY ControlKeeps, ControlTypes DEF DemoInv, ControlInv, ServerTypes
<1>2. CASE uncleaned /\ uncleaned'
  BY <1>2 DEF DemoGate!gateVars
<1>3. CASE ~uncleaned /\ uncleaned'
  BY <1>3 DEF GateShown, DemoGate!GateNext, DemoGate!SendBack, DemoGate!gateVars
<1>4. CASE Wiped /\ ~uncleaned'
  <2>1. state'.stage = "none"
    BY <1>4 DEF Wiped, Cleaned, NoState
  <2>2. PhaseOf(state.stage)' = "drafting" /\ ~RunSignedOff'
    BY <1>4, <2>1 DEF GateShown, PhaseOf
  <2>3. QED
    BY <1>4, <2>2 DEF GateShown, DemoGate!GateNext, DemoGate!SendBack, DemoGate!gateVars
<1>5. CASE ~uncleaned /\ ~uncleaned' /\ [Next]_vars
  <2>1. [Gate!GateNext]_(Gate!gateVars)
    BY <1>5, RunStepsGate DEF GateShown
  <2>2. ~overlapped /\ ~overlapped'
    BY <1>5 DEF GateShown
  <2>3. CASE UNCHANGED Gate!gateVars
    BY <1>5, <2>2, <2>3 DEF Gate!gateVars, DemoGate!gateVars, RunSignedOff
  <2>4. CASE Gate!GateNext
    BY <1>5, <2>2, <2>4 DEF Gate!GateNext, Gate!Submit, Gate!Authorise, Gate!Deliver,
       Gate!SendBack, Gate!End, DemoGate!GateNext, DemoGate!Submit, DemoGate!Authorise,
       DemoGate!Deliver, DemoGate!SendBack, DemoGate!End, RunSignedOff
  <2>5. QED
    BY <2>1, <2>3, <2>4
<1>6. (\E t \in Actors : DemoStep(t)) \/ Untouched => [Next]_vars
  BY DemoStepIsStep DEF Untouched, Next
<1>7. QED
  BY <1>1, <1>2, <1>3, <1>4, <1>5, <1>6, ServerTouches

(* Through the page too nothing is delivered that was not signed off: any  *)
(* requests, from any number of browsers, in any order, repeated, failing  *)
(* half way or reset, move the run as the Human Gate allows.               *)
THEOREM DemoRunsImplementHumanGate == ServerSpec => DemoImplementsHumanGate
<1>1. StartUp => DemoGate!GateInit
  BY DEF StartUp, Init, DemoGate!GateInit, PhaseOf, RunSignedOff, NoState
<1>2. QED
  BY <1>1, DemoInitially, DemoKeeps, DemoShows, ServerStepsGate, PTL
     DEF ServerSpec, DemoImplementsHumanGate, DemoGate!GateSpec

-----------------------------------------------------------------------------
(***************************************************************************)
(* What the answers show.  The inductive invariant ties the request of a   *)
(* thread to its call, what is shown of the application to the run in its  *)
(* workspace, and a success that is still to be answered to the state it   *)
(* promised: nobody moves the run while its thread has the lock.           *)
(***************************************************************************)
Asked(p) ==
    IF p \in Preparing THEN "prepare" ELSE IF p \in Approving THEN "approve" ELSE "package"

AskInv ==
    \A t \in Actors :
        /\ req[t].phase \in {"snapshot", "problem"} => req[t].asks = NoRequest
        /\ pc[t] # "idle" => req[t].asks.path = Asked(pc[t])

ShownInv ==
    ~uncleaned /\ app.open =>
        /\ manifest # NoManifest => state.stage \in {"APPROVED", "PACKAGED"}
        /\ app.verification # "none" => state.stage = "PACKAGED"
        /\ app.gateProbe # "NOT_ATTEMPTED" => state # NoState

Keeps(t) ==
    req[t].phase = "done" /\ req[t].code = "OK" /\ ~uncleaned /\ app.open
    => Promised(req[t].asks.path, Snapshot)

AnswerInv == AskInv /\ ShownInv /\ \A t \in Actors : Keeps(t)

LEMMA PromisedWhen ==
    ASSUME NEW v
    PROVE  /\ v.stage = "AWAITING_APPROVAL" /\ ~v.packaged => Promised("prepare", v)
           /\ v.stage = "APPROVED" /\ v.approved => Promised("approve", v)
           /\ v.stage = "PACKAGED" /\ v.packaged => Promised("package", v)
           /\ v.stage = "PACKAGED" /\ v.verification = "valid" => Promised("verify", v)
           /\ v.stage = "NOT_PREPARED" /\ v.gateProbe = "NOT_ATTEMPTED" /\ v.verification = "none"
                => Promised("reset", v)
           /\ Promised("benchmark", v) /\ Promised("none", v)
  BY DEF Promised

LEMMA CodedMoves ==
    ASSUME ServerTypes, NEW t \in Actors, NEW from, NEW to, NEW code, from # "free",
           Coded(t, from, to, code)
    PROVE  /\ req[t].phase = from
           /\ req'[t].phase = to /\ req'[t].code = code /\ req'[t].asks = req[t].asks
           /\ \A u \in Actors : u # t => req'[u] = req[u]
<1> DEFINE k == [req[t] EXCEPT !.phase = to, !.code = code]
<1>1. req[t] \in Served /\ req[t].phase = from
  BY DEF ServerTypes, Free, Coded
<1>2. k.phase = to /\ k.code = code /\ k.asks = req[t].asks
  BY <1>1 DEF Served
<1>3. req' = [req EXCEPT ![t] = k]
  BY DEF Coded
<1> HIDE DEF k
<1>4. QED
  BY <1>1, <1>2, <1>3 DEF ServerTypes

LEMMA PhasedMoves ==
    ASSUME ServerTypes, NEW t \in Actors, NEW from, NEW to, from # "free", Phase(t, from, to)
    PROVE  /\ req[t].phase = from
           /\ req'[t].phase = to /\ req'[t].asks = req[t].asks
           /\ \A u \in Actors : u # t => req'[u] = req[u]
<1> DEFINE k == [req[t] EXCEPT !.phase = to]
<1>1. req[t] \in Served /\ req[t].phase = from
  BY DEF ServerTypes, Free, Phase
<1>2. k.phase = to /\ k.asks = req[t].asks
  BY <1>1 DEF Served
<1>3. req' = [req EXCEPT ![t] = k]
  BY DEF Phase
<1> HIDE DEF k
<1>4. QED
  BY <1>1, <1>2, <1>3 DEF ServerTypes

(* What a step of one thread must not do to the others, and must do for    *)
(* its own answer.                                                         *)
LEMMA AnswerStep ==
    ASSUME ControlInv, AnswerInv, NEW t \in Actors,
           \A u \in Actors : u # t => req'[u] = req[u] /\ pc'[u] = pc[u],
           lock = t \/ UNCHANGED <<state, record, manifest, app, uncleaned>>,
           req'[t].phase \in {"snapshot", "problem"} => req'[t].asks = NoRequest,
           pc'[t] # "idle" => req'[t].asks.path = Asked(pc'[t]),
           Keeps(t)', ShownInv'
    PROVE  AnswerInv'
<1>1. AskInv'
  BY DEF AnswerInv, AskInv
<1>2. ASSUME NEW u \in Actors, u # t PROVE Keeps(u)'
  <2>1. CASE lock = t
    <3>1. req[u].phase # "done"
      BY <1>2, <2>1 DEF ControlInv, LockInv, Serving
    <3>2. QED
      BY <1>2, <3>1 DEF Keeps
  <2>2. CASE UNCHANGED <<state, record, manifest, app, uncleaned>>
    BY <1>2, <2>2 DEF AnswerInv, Keeps, Snapshot
  <2>3. QED
    BY <2>1, <2>2
<1>3. QED
  BY <1>1, <1>2 DEF AnswerInv

LEMMA ShownStays ==
    ASSUME ShownInv, UNCHANGED <<state, record, manifest, app, uncleaned>> PROVE ShownInv'
  BY DEF ShownInv

(* A step of a thread that moves neither the run nor the application.      *)
LEMMA AnswerQuiet ==
    ASSUME ControlInv, AnswerInv, NEW t \in Actors, UNCHANGED vars, UNCHANGED <<app, uncleaned>>,
           pc[t] = "idle",
           \A u \in Actors : u # t => req'[u] = req[u],
           req'[t].phase \in {"snapshot", "problem"} => req'[t].asks = NoRequest,
           req'[t].phase # "done" \/ req'[t].code # "OK" \/ req'[t].asks.path = "benchmark"
    PROVE  AnswerInv'
<1>1. UNCHANGED <<state, record, manifest, app, uncleaned>> /\ pc' = pc
  BY DEF vars
<1>2. ShownInv'
  BY <1>1, ShownStays DEF AnswerInv
<1>3. Keeps(t)'
  BY PromisedWhen DEF Keeps
<1>4. QED
  BY <1>1, <1>2, <1>3, AnswerStep

LEMMA IdleOutsideCalls ==
    ASSUME ControlInv, NEW t \in Actors, req[t].phase # "calling" PROVE pc[t] = "idle"
  BY DEF ControlInv, LockInv

LEMMA AnswerAfterWaiting ==
    ASSUME ControlInv, AnswerInv, NEW t \in Actors,
           \/ Dispatch(t) \/ ServeClosed(t) \/ Reply(t) \/ TakeSnapshot(t) \/ Send(t)
           \/ SendFails(t) \/ \E r \in Requests : Receive(t, r)
    PROVE  AnswerInv'
<1>1. UNCHANGED vars /\ UNCHANGED <<app, uncleaned>>
  BY DEF Dispatch, ServeClosed, Reply, TakeSnapshot, Send, SendFails, Receive
<1>2. ServerTypes
  BY ControlTypes
<1>3. CASE Dispatch(t)
  <2>1. /\ req[t].phase = "dispatch" /\ req'[t].phase = "serving"
        /\ \A u \in Actors : u # t => req'[u] = req[u]
    BY <1>2, <1>3, PhasedMoves DEF Dispatch
  <2>2. QED
    BY <1>1, <2>1, IdleOutsideCalls, AnswerQuiet
<1>4. ASSUME NEW from \in {"serving", "done", "answered"}, InternalError(t, from) PROVE AnswerInv'
  <2>1. /\ req[t].phase = from /\ req'[t].phase = "problem" /\ req'[t].asks = NoRequest
        /\ \A u \in Actors : u # t => req'[u] = req[u]
    BY <1>2, <1>4, ErrorMoves
  <2>2. QED
    BY <1>1, <2>1, IdleOutsideCalls, AnswerQuiet
<1>5. CASE Answered(t) /\ req[t].phase # "calling"
  BY <1>1, <1>2, <1>5, AnsweredMoves, IdleOutsideCalls, AnswerQuiet
<1>6. CASE req' = [req EXCEPT ![t] = Free] /\ req[t].phase # "calling"
  BY <1>1, <1>2, <1>6, FreeMoves, IdleOutsideCalls, AnswerQuiet
<1>7. ASSUME NEW r \in Requests, Receive(t, r) PROVE AnswerInv'
  <2>1. /\ req[t].phase = "free"
        /\ req'[t].phase \in {"problem", "answered", "snapshot", "dispatch"}
        /\ req'[t].phase # "dispatch" => req'[t].asks = NoRequest
        /\ \A u \in Actors : u # t => req'[u] = req[u]
    BY <1>7, ReceiveKeeps
  <2>2. QED
    BY <1>1, <2>1, IdleOutsideCalls, AnswerQuiet
<1>8. CASE ServeClosed(t) \/ SendFails(t)
  BY <1>4, <1>8 DEF ServeClosed, SendFails, Raise
<1>9. CASE Reply(t)
  BY <1>4, <1>5, <1>9 DEF Reply, Raise
<1>10. CASE TakeSnapshot(t) \/ Send(t)
  BY <1>5, <1>6, <1>10 DEF TakeSnapshot, Send
<1>11. QED
  BY <1>3, <1>7, <1>8, <1>9, <1>10

LEMMA AnswerAfterRefusal ==
    ASSUME ControlInv, AnswerInv, NEW t \in Actors, NEW code, code # "OK", Refuse(t, code)
    PROVE  AnswerInv'
<1>1. /\ UNCHANGED vars /\ UNCHANGED <<app, uncleaned>> /\ Coded(t, "serving", "done", code)
      /\ ServerTypes
  BY ControlTypes DEF Refuse, Finish
<1>2. /\ req[t].phase = "serving" /\ req'[t].phase = "done" /\ req'[t].code = code
      /\ \A u \in Actors : u # t => req'[u] = req[u]
  BY <1>1, CodedMoves
<1>3. QED
  BY <1>1, <1>2, IdleOutsideCalls, AnswerQuiet

LEMMA AnswerAfterBenchmark ==
    ASSUME ControlInv, AnswerInv, NEW t \in Actors, ServeBenchmark(t)
    PROVE  AnswerInv'
<1>1. /\ UNCHANGED vars /\ UNCHANGED <<app, uncleaned>> /\ ServerTypes
      /\ req[t].asks.path = "benchmark"
  BY ControlTypes DEF ServeBenchmark, Allowed, Serves
<1>2. CASE Finish(t, "serving", "OK")
  <2>1. /\ req[t].phase = "serving" /\ req'[t].phase = "done" /\ req'[t].asks = req[t].asks
        /\ \A u \in Actors : u # t => req'[u] = req[u]
    BY <1>1, <1>2, CodedMoves DEF Finish
  <2>2. QED
    BY <1>1, <2>1, IdleOutsideCalls, AnswerQuiet
<1>3. CASE Raise(t, "serving")
  <2>1. /\ req[t].phase = "serving" /\ req'[t].phase = "problem" /\ req'[t].asks = NoRequest
        /\ \A u \in Actors : u # t => req'[u] = req[u]
    BY <1>1, <1>3, ErrorMoves DEF Raise
  <2>2. QED
    BY <1>1, <2>1, IdleOutsideCalls, AnswerQuiet
<1>4. QED
  BY <1>2, <1>3 DEF ServeBenchmark

(* The probe and the verification the console shows.                       *)
LEMMA AnswerAfterProbe ==
    ASSUME ControlInv, AnswerInv, NEW t \in Actors,
           state.stage = "AWAITING_APPROVAL", Finish(t, "serving", "HUMAN_GATE_REQUIRED"),
           app' = [app EXCEPT !.gateProbe = "BLOCKED_AS_EXPECTED"],
           UNCHANGED vars, uncleaned' = uncleaned
    PROVE  AnswerInv'
<1>1. /\ req[t].phase = "serving" /\ req'[t].phase = "done"
      /\ req'[t].code = "HUMAN_GATE_REQUIRED"
      /\ \A u \in Actors : u # t => req'[u] = req[u]
  BY ControlTypes, CodedMoves DEF Finish
<1>2. lock = t /\ pc[t] = "idle" /\ pc' = pc
  BY <1>1, IdleOutsideCalls DEF ControlInv, LockInv, Serving, vars
<1>3. app'.open = app.open /\ app'.verification = app.verification
  BY ControlTypes DEF App
<1>4. state # NoState /\ UNCHANGED <<state, manifest>>
  BY DEF NoState, vars
<1>5. ShownInv'
  BY <1>3, <1>4 DEF AnswerInv, ShownInv
<1>6. Keeps(t)'
  BY <1>1 DEF Keeps
<1>7. QED
  BY <1>1, <1>2, <1>5, <1>6, AnswerStep

LEMMA AnswerAfterVerification ==
    ASSUME ControlInv, AnswerInv, NEW t \in Actors, Allowed(t, "verify"),
           state.stage = "PACKAGED", NEW found, NEW code, code = "OK" => found = "valid",
           app' = [app EXCEPT !.verification = found], Finish(t, "serving", code),
           UNCHANGED vars, uncleaned' = uncleaned
    PROVE  AnswerInv'
<1>1. /\ req[t].phase = "serving" /\ req'[t].phase = "done" /\ req'[t].code = code
      /\ req'[t].asks.path = "verify"
      /\ \A u \in Actors : u # t => req'[u] = req[u]
  BY ControlTypes, CodedMoves DEF Finish, Allowed, Serves
<1>2. lock = t /\ pc[t] = "idle" /\ pc' = pc
  BY <1>1, IdleOutsideCalls DEF ControlInv, LockInv, Serving, vars
<1>3. app'.open = app.open /\ app'.verification = found /\ app'.gateProbe = app.gateProbe
  BY ControlTypes DEF App
<1>4. state # NoState /\ UNCHANGED <<state, manifest>>
  BY DEF NoState, vars
<1>5. ShownInv'
  BY <1>3, <1>4 DEF AnswerInv, ShownInv
<1>6. ASSUME code = "OK" PROVE Promised("verify", Snapshot)'
  <2>1. Snapshot'.stage = "PACKAGED" /\ Snapshot'.verification = "valid"
    BY <1>3, <1>4, <1>6 DEF Snapshot
  <2> DEFINE v == Snapshot'
  <2>2. v.stage = "PACKAGED" /\ v.verification = "valid"
    BY <2>1
  <2>3. Promised("verify", v)
    BY <2>2, PromisedWhen
  <2>4. QED
    BY <2>3
<1>7. Keeps(t)'
  BY <1>1, <1>6 DEF Keeps
<1>8. QED
  BY <1>1, <1>2, <1>5, <1>7, AnswerStep

(* The workspace is cleaned, or is not.                                    *)
LEMMA AnswerAfterReset ==
    ASSUME ControlInv, AnswerInv, NEW t \in Actors, ServeReset(t)
    PROVE  AnswerInv'
<1>1. /\ Cleaned /\ app' = Fresh /\ pc' = pc /\ Finish(t, "serving", "OK")
      /\ req[t].asks.path = "reset"
  BY DEF ServeReset, Allowed, Serves
<1>2. /\ req[t].phase = "serving" /\ req'[t].phase = "done" /\ req'[t].asks = req[t].asks
      /\ \A u \in Actors : u # t => req'[u] = req[u]
  BY <1>1, ControlTypes, CodedMoves DEF Finish
<1>3. lock = t /\ pc[t] = "idle"
  BY <1>2, IdleOutsideCalls DEF ControlInv, LockInv, Serving
<1>4. state' = NoState /\ manifest' = NoManifest
  BY <1>1 DEF Cleaned
<1>5. ShownInv'
  BY <1>1, <1>4 DEF ShownInv, Fresh
<1>6. Promised("reset", Snapshot)'
  <2> DEFINE v == Snapshot'
  <2>1. v.stage = "NOT_PREPARED" /\ v.gateProbe = "NOT_ATTEMPTED" /\ v.verification = "none"
    BY <1>1, <1>4 DEF Snapshot, Fresh
  <2>2. Promised("reset", v)
    BY <2>1, PromisedWhen
  <2>3. QED
    BY <2>2
<1>7. Keeps(t)'
  BY <1>1, <1>2, <1>6 DEF Keeps
<1>8. QED
  BY <1>1, <1>2, <1>3, <1>5, <1>7, AnswerStep

LEMMA AnswerAfterFailedReset ==
    ASSUME ControlInv, AnswerInv, NEW t \in Actors, ResetCleanupFails(t) \/ ResetOpenFails(t)
    PROVE  AnswerInv'
<1>1. pc' = pc /\ InternalError(t, "serving") /\ (uncleaned' = TRUE \/ app'.open = FALSE)
  BY DEF ResetCleanupFails, ResetOpenFails, Raise, Fresh
<1>2. /\ req[t].phase = "serving" /\ req'[t].phase = "problem" /\ req'[t].asks = NoRequest
      /\ \A u \in Actors : u # t => req'[u] = req[u]
  BY <1>1, ControlTypes, ErrorMoves
<1>3. lock = t /\ pc[t] = "idle"
  BY <1>2, IdleOutsideCalls DEF ControlInv, LockInv, Serving
<1>4. ShownInv' /\ Keeps(t)'
  BY <1>1, <1>2 DEF ShownInv, Keeps
<1>5. QED
  BY <1>1, <1>2, <1>3, <1>4, AnswerStep

LEMMA AnswerAfterMain ==
    ASSUME ControlInv, AnswerInv, StopListening \/ Close \/ Edit \/ UNCHANGED allVars
    PROVE  AnswerInv'
<1>1. req' = req /\ pc' = pc
  BY DEF StopListening, Close, Edit, EditArtifact, allVars, serverVars, vars
<1>2. AskInv'
  BY <1>1 DEF AnswerInv, AskInv
<1>3. CASE Close
  <2>1. app'.open = FALSE
    BY <1>3, ControlTypes DEF Close, App
  <2>2. QED
    BY <1>2, <2>1 DEF AnswerInv, ShownInv, Keeps
<1>4. CASE StopListening \/ Edit \/ UNCHANGED allVars
  <2>1. UNCHANGED <<state, record, manifest, app, uncleaned>>
    BY <1>4 DEF StopListening, Edit, EditArtifact, allVars, serverVars, vars, package
  <2>2. ShownInv'
    BY <2>1, ShownStays DEF AnswerInv
  <2>3. \A t \in Actors : Keeps(t)'
    BY <1>1, <2>1 DEF AnswerInv, Keeps, Snapshot
  <2>4. QED
    BY <1>2, <2>2, <2>3 DEF AnswerInv
<1>5. QED
  BY <1>3, <1>4

(* A call begins, goes on, ends or raises.                                 *)
LEMMA ShownAfterCall ==
    ASSUME DemoInv, AnswerInv, NEW t \in Actors, DemoStep(t), UNCHANGED <<app, uncleaned>>
    PROVE  ShownInv'
<1> SUFFICES ASSUME ~uncleaned, app.open
             PROVE  /\ manifest' # NoManifest => state'.stage \in {"APPROVED", "PACKAGED"}
                    /\ app.verification # "none" => state'.stage = "PACKAGED"
                    /\ app.gateProbe # "NOT_ATTEMPTED" => state' # NoState
  BY DEF ShownInv
<1>1. FilesInv /\ SoloInv /\ Chosen
  BY DEF DemoInv, ServedRun, ControlInv, LockInv, RunInv
<1>2. /\ manifest # NoManifest => state.stage \in {"APPROVED", "PACKAGED"}
      /\ app.verification # "none" => state.stage = "PACKAGED"
      /\ app.gateProbe # "NOT_ATTEMPTED" => state # NoState
  BY DEF AnswerInv, ShownInv
<1>3. NoState.stage = "none"
  BY DEF NoState
<1>4. QED
  BY <1>1, <1>2, <1>3, StagesAdvance

LEMMA AnswerAfterCall ==
    ASSUME DemoInv, AnswerInv, NEW t \in Actors, DemoStep(t), UNCHANGED <<app, uncleaned>>,
           req[t].phase \in Serving,
           \A u \in Actors : u # t => req'[u] = req[u],
           req'[t].phase \in {"snapshot", "problem"} => req'[t].asks = NoRequest,
           pc'[t] # "idle" => req'[t].asks.path = Asked(pc'[t]),
           Keeps(t)'
    PROVE  AnswerInv'
<1>1. ControlInv /\ lock = t
  BY DEF DemoInv, ControlInv, LockInv
<1>2. \A u \in Actors : u # t => pc'[u] = pc[u]
  BY <1>1, DemoStepIsStep, CallsMove DEF ControlInv
<1>3. QED
  BY <1>1, <1>2, ShownAfterCall, AnswerStep

LEMMA AnswerAfterBegin ==
    ASSUME DemoInv, AnswerInv, NEW t \in Actors, NEW p, NEW action, Serves(t, action),
           DemoStep(t), Begin(t, p), Asked(p) = action, Call(t)
    PROVE  AnswerInv'
<1>1. /\ req[t].phase = "serving" /\ req[t].asks.path = action
      /\ UNCHANGED <<app, uncleaned>> /\ Phase(t, "serving", "calling")
      /\ pc' = [pc EXCEPT ![t] = p]
  BY DEF Serves, Call, Begin, Go
<1>2. ServerTypes /\ DOMAIN pc = Actors
  BY DEF DemoInv, ControlInv, CallTypes
<1>3. /\ req'[t].phase = "calling" /\ req'[t].asks = req[t].asks
      /\ \A u \in Actors : u # t => req'[u] = req[u]
  BY <1>1, <1>2, PhasedMoves
<1>4. pc'[t] = p
  BY <1>1, <1>2
<1>5. Keeps(t)' /\ req[t].phase \in Serving
  BY <1>1, <1>3 DEF Keeps, Serving
<1>6. QED
  BY <1>1, <1>3, <1>4, <1>5, AnswerAfterCall

(* A call that goes on is of the kind it was.                              *)
LEMMA CallsStayOfTheirKind ==
    ASSUME CallTypes, NEW t \in Actors, CallStep(t), pc'[t] # "idle"
    PROVE  pc[t] # "idle" /\ Asked(pc'[t]) = Asked(pc[t])
<1>1. pc \in [Actors -> Places]
  BY DEF CallTypes
<1>2. CASE PrepareMkdir(t) \/ PrepareWrite(t)
  BY <1>1, <1>2 DEF PrepareMkdir, PrepareWrite, Return, Go, Asked, Preparing
<1>3. CASE ApproveRead(t) \/ ApproveWriteRecord(t) \/ ApproveWriteTrace(t)
  BY <1>1, <1>3 DEF ApproveRead, ApproveWriteRecord, ApproveWriteTrace, Return, Go, Asked,
     Preparing, Approving
<1>4. CASE \/ PackageRead(t) \/ PackageCheck(t) \/ PackageMkdir(t) \/ PackageDraft(t)
           \/ PackageBundle(t) \/ PackageWriteManifest(t) \/ PackageWriteTrace(t)
  BY <1>1, <1>4 DEF PackageRead, PackageCheck, PackageMkdir, PackageDraft, PackageBundle,
     PackageWriteManifest, PackageWriteTrace, Return, Go, Asked, Preparing, Approving
<1>5. QED
  BY <1>2, <1>3, <1>4 DEF CallStep

LEMMA AnswerAfterCallStep ==
    ASSUME DemoInv, AnswerInv, NEW t \in Actors, CallContinues(t)
    PROVE  AnswerInv'
<1>1. /\ req[t].phase = "calling" /\ CallStep(t) /\ DemoStep(t) /\ UNCHANGED <<app, uncleaned>>
      /\ req[t].phase \in Serving /\ ServerTypes /\ CallTypes
  BY DEF CallContinues, DemoStep, Serving, DemoInv, ControlInv
<1>2. CASE pc'[t] = "idle"
  <2>1. Coded(t, "calling", "done", "REFERENCE_RUN_CONFLICT")
    BY <1>2 DEF CallContinues, Finish
  <2>2. /\ req'[t].phase = "done" /\ req'[t].code = "REFERENCE_RUN_CONFLICT"
        /\ \A u \in Actors : u # t => req'[u] = req[u]
    BY <1>1, <2>1, CodedMoves
  <2>3. Keeps(t)'
    BY <2>2 DEF Keeps
  <2>4. QED
    BY <1>1, <1>2, <2>2, <2>3, AnswerAfterCall
<1>3. CASE pc'[t] # "idle"
  <2>1. req' = req
    BY <1>3 DEF CallContinues
  <2>2. req'[t].asks.path = Asked(pc'[t])
    BY <1>1, <1>3, <2>1, CallsStayOfTheirKind DEF AnswerInv, AskInv
  <2>3. Keeps(t)' /\ req'[t].phase = "calling"
    BY <1>1, <2>1 DEF Keeps
  <2>4. QED
    BY <1>1, <2>1, <2>2, <2>3, AnswerAfterCall
<1>4. QED
  BY <1>2, <1>3

(* A call that succeeds leaves what its request promises.                  *)
LEMMA SuccessIsPromised ==
    ASSUME DemoInv, AnswerInv, NEW t \in Actors, ~uncleaned, app.open,
           PrepareState(t) \/ ApproveWriteState(t) \/ PackageWriteState(t)
    PROVE  Promised(Asked(pc[t]), Snapshot')
<1>1. FilesInv /\ SoloInv /\ Chosen /\ DemoStep(t)
  BY DEF DemoInv, ServedRun, ControlInv, LockInv, RunInv, DemoStep
<1>2. NoState.stage = "none" /\ (manifest # NoManifest => state.stage \in {"APPROVED", "PACKAGED"})
  BY DEF NoState, AnswerInv, ShownInv
<1> DEFINE v == Snapshot'
<1>3. CASE PrepareState(t)
  <2>1. /\ state = NoState /\ state'.stage = "AWAITING_APPROVAL" /\ manifest' = manifest
        /\ pc[t] = "write"
    BY <1>3 DEF PrepareState, Return, Go, package, FilesInv, PrepareInv, DemoInv, ServedRun, RunInv
  <2>2. v.stage = "AWAITING_APPROVAL" /\ ~v.packaged
    BY <1>2, <2>1 DEF Snapshot
  <2>3. Promised("prepare", v) /\ Asked(pc[t]) = "prepare"
    BY <2>1, <2>2, PromisedWhen DEF Asked, Preparing
  <2>4. QED
    BY <2>3
<1>4. CASE ApproveWriteState(t)
  <2>1. state'.stage = "APPROVED" /\ record' \in Record /\ pc[t] = "state"
    <3>1. pc[t] = "state"
      BY <1>4 DEF ApproveWriteState, Return, Go
    <3>2. record' \in Record
      BY <1>1, <1>4, ApproveWriteStateSolo DEF Decided
    <3>3. state = GateState /\ loc[t].st = state /\ loc[t].decision = "APPROVE"
      BY <1>1, <3>1 DEF SoloInv, Follows, Approving, Chosen
    <3>4. state'.stage = TargetOf("APPROVE")
      BY <1>4, <3>3 DEF ApproveWriteState, GateState
    <3>5. QED
      BY <3>1, <3>2, <3>4 DEF TargetOf
  <2>2. v.stage = "APPROVED" /\ v.approved
    BY <1>2, <2>1, NotNone DEF Snapshot
  <2>3. Promised("approve", v) /\ Asked(pc[t]) = "approve"
    BY <2>1, <2>2, PromisedWhen DEF Asked, Preparing, Approving
  <2>4. QED
    BY <2>3
<1>5. CASE PackageWriteState(t)
  <2>1. state'.stage = "PACKAGED" /\ manifest' # NoManifest /\ pc[t] = "pkgstate"
    <3>1. pc[t] = "pkgstate" /\ manifest' = manifest
      BY <1>5 DEF PackageWriteState, Return, Go, package
    <3>2. manifest # NoManifest
      BY <1>1, <3>1 DEF FilesInv, PackageInv
    <3>3. state'.stage = "PACKAGED"
      BY <1>1, <1>5, PackageWriteStateSolo
    <3>4. QED
      BY <3>1, <3>2, <3>3
  <2>2. v.stage = "PACKAGED" /\ v.packaged
    BY <1>2, <2>1 DEF Snapshot
  <2>3. Promised("package", v) /\ Asked(pc[t]) = "package"
    BY <2>1, <2>2, PromisedWhen DEF Asked, Preparing, Approving
  <2>4. QED
    BY <2>3
<1>6. QED
  BY <1>3, <1>4, <1>5

LEMMA AnswerAfterSuccess ==
    ASSUME DemoInv, AnswerInv, NEW t \in Actors, CallSucceeds(t)
    PROVE  AnswerInv'
<1>1. /\ Coded(t, "calling", "done", "OK") /\ DemoStep(t) /\ UNCHANGED <<app, uncleaned>>
      /\ PrepareState(t) \/ ApproveWriteState(t) \/ PackageWriteState(t)
      /\ ServerTypes /\ DOMAIN pc = Actors
  BY DEF CallSucceeds, Finish, DemoStep, DemoInv, ControlInv, CallTypes
<1>2. /\ req[t].phase = "calling" /\ req'[t].phase = "done" /\ req'[t].asks = req[t].asks
      /\ \A u \in Actors : u # t => req'[u] = req[u]
  BY <1>1, CodedMoves
<1>3. pc'[t] = "idle" /\ pc[t] # "idle"
  BY <1>1 DEF PrepareState, ApproveWriteState, PackageWriteState, Return, Go
<1>4. req[t].asks.path = Asked(pc[t])
  BY <1>3 DEF AnswerInv, AskInv
<1>5. Keeps(t)'
  <2> SUFFICES ASSUME ~uncleaned, app.open PROVE Promised(Asked(pc[t]), Snapshot')
    BY <1>1, <1>2, <1>4 DEF Keeps
  <2>1. QED
    BY <1>1, SuccessIsPromised
<1>6. req[t].phase \in Serving
  BY <1>2 DEF Serving
<1>7. QED
  BY <1>1, <1>2, <1>3, <1>5, <1>6, AnswerAfterCall

LEMMA AnswerAfterRaise ==
    ASSUME DemoInv, AnswerInv, NEW t \in Actors, CallRaises(t)
    PROVE  AnswerInv'
<1>1. /\ InternalError(t, "calling") /\ DemoStep(t) /\ UNCHANGED <<app, uncleaned>>
      /\ ServerTypes /\ DOMAIN pc = Actors
  BY DEF CallRaises, Raise, DemoStep, DemoInv, ControlInv, CallTypes
<1>2. /\ req[t].phase = "calling" /\ req'[t].phase = "problem" /\ req'[t].asks = NoRequest
      /\ \A u \in Actors : u # t => req'[u] = req[u]
  BY <1>1, ErrorMoves
<1>3. pc'[t] = "idle"
  BY <1>1 DEF CallRaises, Crash
<1>4. Keeps(t)' /\ req[t].phase \in Serving
  BY <1>2 DEF Keeps, Serving
<1>5. QED
  BY <1>1, <1>2, <1>3, <1>4, AnswerAfterCall

LEMMA AnswerAfterWork ==
    ASSUME DemoInv, AnswerInv, NEW t \in Actors, Work(t)
    PROVE  AnswerInv'
<1>1. ControlInv
  BY DEF DemoInv
<1>2. CASE Dispatch(t) \/ ServeClosed(t) \/ Reply(t) \/ TakeSnapshot(t) \/ Send(t)
  BY <1>1, <1>2, AnswerAfterWaiting
<1>3. CASE RefusePayload(t)
  <2>1. Refuse(t, PayloadProblem(req[t].asks)) /\ PayloadProblem(req[t].asks) # "OK"
    BY <1>3 DEF RefusePayload, Refuse
  <2>2. QED
    BY <1>1, <2>1, AnswerAfterRefusal
<1>4. CASE RefuseInputs(t)
  BY <1>1, <1>4, AnswerAfterRefusal DEF RefuseInputs
<1>5. CASE ServePrepare(t)
  <2>1. CASE Refuse(t, "RUN_ALREADY_PREPARED")
    BY <1>1, <2>1, AnswerAfterRefusal
  <2>2. CASE Prepare(t) /\ Call(t)
    <3>1. Begin(t, "mkdir") /\ DemoStep(t) /\ Asked("mkdir") = "prepare"
      BY <2>2 DEF Prepare, DemoStep, Asked, Preparing
    <3>2. QED
      BY <1>5, <2>2, <3>1, AnswerAfterBegin DEF ServePrepare, Allowed
  <2>3. QED
    BY <1>5, <2>1, <2>2 DEF ServePrepare
<1>6. CASE ServeApprove(t)
  <2>1. CASE Refuse(t, "RUN_NOT_PREPARED") \/ Refuse(t, "REFERENCE_RUN_CONFLICT")
    BY <1>1, <2>1, AnswerAfterRefusal
  <2>2. CASE ApproveLoad(t, "required", "APPROVE", ApproveTime) /\ Call(t)
    <3>1. Begin(t, "approve") /\ DemoStep(t) /\ Asked("approve") = "approve"
      BY <2>2 DEF ApproveLoad, DemoStep, Asked, Preparing, Approving
    <3>2. QED
      BY <1>6, <2>2, <3>1, AnswerAfterBegin DEF ServeApprove, Allowed
  <2>3. QED
    BY <1>6, <2>1, <2>2 DEF ServeApprove
<1>7. CASE ServePackage(t)
  <2>1. CASE Refuse(t, "RUN_NOT_PREPARED") \/ Refuse(t, "INVALID_STAGE_FOR_PACKAGE")
    BY <1>1, <2>1, AnswerAfterRefusal
  <2>2. CASE PackageLoad(t, PackageTime) /\ Call(t)
    <3>1. Begin(t, "package") /\ DemoStep(t) /\ Asked("package") = "package"
      BY <2>2 DEF PackageLoad, DemoStep, Asked, Preparing, Approving
    <3>2. QED
      BY <1>7, <2>2, <3>1, AnswerAfterBegin DEF ServePackage, Allowed
  <2>3. CASE /\ state.stage = "AWAITING_APPROVAL"
             /\ Finish(t, "serving", "HUMAN_GATE_REQUIRED")
             /\ app' = [app EXCEPT !.gateProbe = "BLOCKED_AS_EXPECTED"]
             /\ UNCHANGED <<vars, listening, resets, uncleaned>>
    BY <1>1, <2>3, AnswerAfterProbe
  <2>4. QED
    BY <1>7, <2>1, <2>2, <2>3 DEF ServePackage
<1>8. CASE ServeVerify(t)
  <2> DEFINE refused == \/ Refuse(t, "RUN_NOT_PREPARED") \/ Refuse(t, "PACKAGE_NOT_READY")
                        \/ Refuse(t, "REFERENCE_RUN_CONFLICT")
             raised == Raise(t, "serving") /\ UNCHANGED <<vars, app, listening, resets, uncleaned>>
  <2>1. CASE refused
    BY <1>1, <2>1, AnswerAfterRefusal
  <2>2. CASE ~refused /\ ~raised
    <3>1. PICK found, code :
              /\ code = "OK" => found = "valid"
              /\ app' = [app EXCEPT !.verification = found]
              /\ Finish(t, "serving", code)
      BY <1>8, <2>2 DEF ServeVerify
    <3>2. state.stage = "PACKAGED" /\ UNCHANGED vars /\ uncleaned' = uncleaned
          /\ Allowed(t, "verify")
      BY <1>8, <2>2 DEF ServeVerify
    <3>3. QED
      BY <1>1, <3>1, <3>2, AnswerAfterVerification
  <2>3. CASE raised
    <3>1. ServerTypes
      BY <1>1, ControlTypes
    <3>2. /\ req[t].phase = "serving" /\ req'[t].phase = "problem" /\ req'[t].asks = NoRequest
          /\ \A u \in Actors : u # t => req'[u] = req[u]
      BY <2>3, <3>1, ErrorMoves DEF Raise
    <3>3. QED
      BY <1>1, <2>3, <3>2, IdleOutsideCalls, AnswerQuiet
  <2>4. QED
    BY <2>1, <2>2, <2>3
<1>9. QED
  BY <1>1, <1>2, <1>3, <1>4, <1>5, <1>6, <1>7, <1>8, AnswerAfterBenchmark, AnswerAfterReset,
     AnswerAfterCallStep, AnswerAfterSuccess DEF Work

LEMMA AnswersKeep == DemoInv /\ AnswerInv /\ [ServerNext]_allVars => AnswerInv'
<1> SUFFICES ASSUME DemoInv, AnswerInv, [ServerNext]_allVars PROVE AnswerInv'
  OBVIOUS
<1>1. ControlInv
  BY DEF DemoInv
<1>2. ASSUME NEW t \in Actors, (\E r \in Requests : Receive(t, r)) \/ SendFails(t)
      PROVE  AnswerInv'
  BY <1>1, <1>2, AnswerAfterWaiting
<1>3. ASSUME NEW t \in Actors, ResetCleanupFails(t) \/ ResetOpenFails(t) PROVE AnswerInv'
  BY <1>1, <1>3, AnswerAfterFailedReset
<1>4. QED
  BY <1>1, <1>2, <1>3, AnswerAfterWork, AnswerAfterRaise, AnswerAfterMain DEF ServerNext

LEMMA AnswersInitially == StartUp => AnswerInv
<1> SUFFICES ASSUME StartUp PROVE AnswerInv
  OBVIOUS
<1>1. AskInv
  BY DEF StartUp, Init, AskInv, Free
<1>2. ShownInv
  BY DEF StartUp, Init, ShownInv, Fresh
<1>3. \A t \in Actors : Keeps(t)
  BY DEF StartUp, Keeps, Free
<1>4. QED
  BY <1>1, <1>2, <1>3 DEF AnswerInv

(* An answer is made only while the application is open.                   *)
LEMMA AnswersAreOpen ==
    ASSUME ControlInv, [ServerNext]_allVars, NEW t \in Actors,
           req[t].phase \in {"done", "snapshot", "problem"}, req'[t].phase = "answered"
    PROVE  app.open
<1>0. req \in [Actors -> Served \cup {Free}] /\ ServerTypes /\ req' # req
  BY DEF ControlInv, ServerTypes
<1>2. ASSUME NEW u \in Actors, NEW r \in Requests, Receive(u, r) PROVE FALSE
  BY <1>0, <1>2 DEF Receive
<1>3. ASSUME NEW u \in Actors, NEW from, NEW to, from # "free", to # "answered",
             Phase(u, from, to) \/ \E code : Coded(u, from, to, code)
      PROVE  FALSE
  BY <1>0, <1>3, PhasedMoves, CodedMoves
<1>4. ASSUME NEW u \in Actors, NEW from, InternalError(u, from) PROVE FALSE
  BY <1>0, <1>4, ErrorMoves
<1>5. ASSUME NEW u \in Actors, Reply(u) PROVE app.open
  BY <1>4, <1>5 DEF Reply, Raise
<1>6. ASSUME NEW u \in Actors, TakeSnapshot(u) PROVE app.open
  BY <1>0, <1>6, FreeMoves DEF TakeSnapshot
<1>7. ASSUME NEW u \in Actors, Send(u) PROVE FALSE
  BY <1>0, <1>7, FreeMoves DEF Send
<1>8. ASSUME NEW u \in Actors, \/ ServePrepare(u) \/ ServeApprove(u) \/ ServePackage(u)
                               \/ ServeVerify(u) \/ ServeBenchmark(u) \/ ServeReset(u)
                               \/ RefusePayload(u) \/ RefuseInputs(u) \/ Dispatch(u)
      PROVE  FALSE
  BY <1>3, <1>4, <1>8 DEF ServePrepare, ServeApprove, ServePackage, ServeVerify, ServeBenchmark,
     ServeReset, RefusePayload, RefuseInputs, Dispatch, Refuse, Call, Finish, Raise
<1>9. ASSUME NEW u \in Actors, CallContinues(u) \/ CallSucceeds(u) PROVE FALSE
  BY <1>0, <1>3, <1>9 DEF CallContinues, CallSucceeds, Finish
<1>10. ASSUME NEW u \in Actors, \/ ResetCleanupFails(u) \/ ResetOpenFails(u) \/ CallRaises(u)
                                \/ SendFails(u) \/ ServeClosed(u)
       PROVE  FALSE
  BY <1>4, <1>10 DEF ResetCleanupFails, ResetOpenFails, CallRaises, SendFails, ServeClosed, Raise
<1>11. ASSUME StopListening \/ Close \/ Edit \/ UNCHANGED allVars PROVE FALSE
  BY <1>0, <1>11 DEF StopListening, Close, Edit, serverVars, allVars
<1>12. QED
  BY <1>2, <1>5, <1>6, <1>7, <1>8, <1>9, <1>10, <1>11 DEF ServerNext, Work

(* What an answer shows is of one run.                                     *)
LEMMA ViewsAreOfOneRun ==
    ASSUME DemoInv, AnswerInv, ~uncleaned, app.open PROVE OfOneRun(Snapshot)
<1>1. FilesInv /\ SoloInv
  BY DEF DemoInv, ServedRun, ControlInv, LockInv, RunInv
<1>2. /\ manifest # NoManifest => state.stage \in {"APPROVED", "PACKAGED"}
      /\ app.verification # "none" => state.stage = "PACKAGED"
      /\ app.gateProbe # "NOT_ATTEMPTED" => state # NoState
  BY DEF AnswerInv, ShownInv
<1>3. NoState.stage = "none" /\ (state # NoState => state.stage # "NOT_PREPARED")
  BY <1>1 DEF NoState, FilesInv, RunTypes, State, Stages
<1>4. manifest # NoManifest => record # NoRecord
  <2>1. state.stage \in {"APPROVED", "PACKAGED"} => record \in Record
    BY <1>1, Approved DEF SoloInv, DiskInv, Packaged
  <2>2. QED
    BY <1>2, <2>1, NotNone
<1> DEFINE v == Snapshot
<1>5. /\ v.verification = app.verification /\ v.gateProbe = app.gateProbe
      /\ state # NoState => v.stage = state.stage
      /\ v.packaged => manifest # NoManifest /\ state # NoState
      /\ state # NoState /\ record # NoRecord => v.approved
  BY DEF Snapshot
<1> HIDE DEF v
<1>6. OfOneRun(v)
  BY <1>2, <1>3, <1>4, <1>5 DEF OfOneRun
<1>7. QED
  BY <1>6 DEF v

(* The state in an answer is that of one moment and of one run: a success  *)
(* shows its own result and not that of a later request, and no probe or   *)
(* verification of a run that was reset, however many threads serve.       *)
THEOREM AnswersAreAlwaysCoherent == ServerSpec => AnswersAreCoherent
<1>1. ASSUME DemoInv, AnswerInv, [ServerNext]_allVars
      PROVE  [\A t \in Actors :
                 /\ req[t].phase \in {"done", "snapshot", "problem"}
                 /\ req'[t].phase = "answered"
                 /\ ~uncleaned
                 => /\ OfOneRun(Snapshot)
                    /\ req[t].code = "OK" => Promised(req[t].asks.path, Snapshot)]_allVars
  <2> SUFFICES ASSUME NEW t \in Actors, ~uncleaned, req'[t].phase = "answered",
                      req[t].phase \in {"done", "snapshot", "problem"}
               PROVE  /\ OfOneRun(Snapshot)
                      /\ req[t].code = "OK" => Promised(req[t].asks.path, Snapshot)
    OBVIOUS
  <2>1. app.open
    BY <1>1, AnswersAreOpen DEF DemoInv
  <2>2. OfOneRun(Snapshot)
    BY <1>1, <2>1, ViewsAreOfOneRun
  <2>3. CASE req[t].phase = "done"
    BY <1>1, <2>1, <2>2, <2>3 DEF AnswerInv, Keeps
  <2>4. CASE req[t].phase \in {"snapshot", "problem"}
    <3>1. req[t].asks.path = "none"
      BY <1>1, <2>4 DEF AnswerInv, AskInv, NoRequest
    <3>2. QED
      BY <2>2, <3>1, PromisedWhen
  <2>5. QED
    BY <2>3, <2>4
<1>2. QED
  BY <1>1, DemoInitially, DemoKeeps, AnswersInitially, AnswersKeep, PTL
     DEF ServerSpec, AnswersAreCoherent
================================================================================
