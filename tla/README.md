# Formal models of ProofFlow

TLA+ models of the parts of ProofFlow that decide, check with TLC on small
instances that they decide right, and TLAPS proofs of what matters most for
every instance. Paths below are relative to the repository; line numbers of
each definition are in `PROJECT.json` under `map`.

## The system

ProofFlow takes the documents of a labour case, extracts evidence, retrieves
rules, calculates a compensation, proposes, audits, and stops at a human gate.
Only after a human of the required role approves exactly what is on disk is a
package produced. Around that core are three verifiers of signed envelopes (was
an action authorised, was it executed under that authority, what came of it), an
HTTP service that offers the deterministic skills as tools, a local demo page
over one run with the command that lays out its inputs, and the scripts that
collect supply-chain evidence and build a release from it.

| Part | State it keeps | Operations | Hard behaviour |
|---|---|---|---|
| Case state machine `state_machine.py` | none: it makes the next record of a case from the one it is given | `transition_case` | long detours around the gate |
| Case pipeline `reference_runtime.py` (`prepare`, in memory), `skills/*.py`, `strategy.py` | evidence, trusted store, rules, sheet, trace | one skill after the other, each may refuse | contradictions found late, boundaries of dates and rules |
| Compensation formula `skills/calculation.py` | none | service coefficient, amount | month ends, leap days, cap, the end of the calendar |
| Run directory `reference_runtime.py`, `skills/approval.py`, `skills/packaging.py` | a dozen files, `run-state.json` last | `prepare`, `approve`, `package`, `verify` as separate processes | crashes between files, races, edits, expiry |
| ActionCertificate `action_certificate.py` | replay ledger, revocation snapshot | `verify_action_certificate` | racing replays, stale snapshots, thresholds |
| ExecutionReceipt `execution_receipt.py` | receipt index | `verify_execution_receipt` | duplicated and reordered receipts |
| OutcomeClosure `outcome_closure.py` | closure index with chains | `verify_outcome_closure` | corrections out of order, partial effects |
| Tool service `tool_server.py`, `trusted_store.py` | request slots, evidence registry | accept, read, handle, answer | slow clients, lost slots, racing batches |
| Demo server `demo/server.py` | a workspace with one run, the shown probe and verification, a lock | prepare, approve, package, verify, benchmark, reset, snapshot, shutdown | threads over one run, failing resets, answers that are stale or lost |
| Demo initialiser `demo_init.py` | a directory tree it shares with others | make and pin directories, write files, verify, clean up | entries replaced between two system calls, failures half way |
| Evidence collector `deploy/tool-service/scripts/collect_supply_chain_evidence.py` | the evidence directory, backups | read the revision, scan, validate, promote | racing promotions, death between two renames, a moving checkout |
| Release build `scripts/build_installable_distribution.py`, gate `validate_supply_chain_evidence.py` | bindings to commit, evidence and policy, the output directory | bind, gate, snapshot, build, publish | values read at different times, shared output directories |

They meet in these places. `prepare` drives the state machine and the skills
and writes the run directory; `approve` and `package` call the state machine
with what the directory holds. The receipt verifier is given the stored result
of the certificate verifier, and the closure verifier the stored results of
both, each re-checked against the trust policy they share. The tool service
calls the ingestion, retrieval and calculation skills with a registry in place
of the in-memory store of a run. The demo server calls `prepare`, `approve`,
`package` and `verify` as a library. The collector, the validator (a process of
its own) and the builder share nothing but the checkout, the evidence directory
and the policy file, and nothing locks these.

## Modules

| Module | Models | Uses |
|---|---|---|
| `HumanGate` | what the state machine and the run directory promise: drafting, gated, decided, delivered, closed | |
| `CaseStateMachine` | `transition_case`: its refusals, the table, the guards, on one case after another transition | refines `HumanGate` |
| `CaseStateMachineProofs` | theorems about it | |
| `Compensation` | `_add_months`, `_service_coefficient` and the amount, on calendar dates; the statute they are held against | |
| `CasePipeline` | `prepare_reference_run` up to the gate, one action per skill call | `EXTENDS Compensation`, `INSTANCE CaseStateMachine` for the transitions |
| `CompensationProofs` | the coefficient and the amount against the statute | `EXTENDS Compensation` |
| `CasePipelineProofs` | theorems about the pipeline and its sheet | `EXTENDS CasePipeline`, `CompensationProofs` |
| `ReferenceRun` | the run directory: one action per file a call writes, crashes, edits, the clock | refines `HumanGate` |
| `DemoServer` | the threads, the lock, the actions and the answers of the demo | `EXTENDS ReferenceRun`, refines `HumanGate` |
| `ReferenceRunProofs` | theorems about the run directory, then about the demo server | `EXTENDS DemoServer` |
| `DemoInit` | `initialize_demo`, one action per system call, among other processes | |
| `DemoInitProofs` | theorems about it | |
| `TrustRoots` | the trust policy: current roots, verified signatures, who counts once | |
| `ActionCertificate` | the certificate verifier, the revocation snapshots, the replay ledger | `TrustRoots` |
| `ExecutionReceipt` | the receipt verifier and its index | `TrustRoots` |
| `OutcomeClosure` | the closure verifier, the validator of its result, its index | `TrustRoots` |
| `AttemptRecord` | receipts and closures under one trust policy | `INSTANCE ExecutionReceipt`, `INSTANCE OutcomeClosure` |
| `VerifierProofs` | who counts under a trust policy, then theorems about the three verifiers | `EXTENDS ActionCertificate`, `AttemptRecord` |
| `ToolServer` | connections, slots, threads, the read deadline, the registry | |
| `ToolServerProofs` | theorems about it | |
| `SupplyChainEvidence` | the checkout and the collectors up to the promotion of their directories | |
| `Release` | the builder and the validator as its gate | `EXTENDS SupplyChainEvidence` |
| `ReleaseProofs` | theorems about the evidence and the release | |

The `MC*` modules only give constants their values. In every module a
definition whose name begins with `Bad` is a plausible bug in the definition
that follows it; no specification uses them, they serve to show that a property
can fail.

### How state and actions correspond to the code

**CaseStateMachine.** `case` is the record that was returned last, `gate` is
history: the audit, sign-off and role the current revision went through.
`transition_case` is the function, with any expected version, number in the
trace, target, actor and context; a call that raises returns no record. The
function stores nothing, so this module says nothing of two callers that work
on one stored record: that is `ReferenceRun`, where they lose a decision
(below).

**CasePipeline.** Initially any case of `Cases`: documents (media type, whether
the hash matches, fields), a catalog of rules, the jurisdiction and the issues
asked about. Each action is a skill call with the trace event and the transition
that follow it in `prepare_reference_run`, or the refusal that ends the
preparation: also those of `RuleRetrieveRequest` (more than 32 issues, an empty
or repeated one, no jurisdiction), of a half year that would be looked for after
the year 9999, and of an amount with more digits than `quantize` takes
(`MaxAmount`). The value of a field is its normalised text with the date and the
amount that text stands for, if any: the code compares texts, so two spellings
of one date contradict each other. Extraction from text is the constant
`Extractable`. Evidence and citations are sets, since no skill tells their order
apart.

**ReferenceRun.** A file is a variable. `prepare`, `approve` and `package` are
broken at each read and each write; `Crash` ends a process between any two.
`_atomic_write` replaces a file as a whole, so a file is never half written.
The verification (`verify_reference_run`) is the predicate `Verified` over the
directory: it reads everything and writes nothing.

**The three verifiers.** An envelope is a record of what the code finds in it:
its form, the keys whose signature verifies, and the fields the checks look at.
Roots and policy have their purposes, tenants, audiences, predicate types and
windows. What the wire models already refuse is not checked a second time: a
root of an observer always has the scopes its purpose asks for, and evidence
that is not LOCAL_BYTES does not parse.
`Check` and `Derive` are the early returns of the code in their order. The
index or ledger call under its lock is one step. A certificate verification is
two steps, because the snapshot is read before the ledger is locked; the other
two depend on nothing that moves before their index and are one step. Digests
are identities: equal content has an equal digest and different content a
different one.

**ToolServer.** `conn[c]` is a connection and the thread that serves it.
`AfterHead` is what the request line and the headers lead to: a line that is too
long, cannot be parsed or names no known method, a route, an authorisation and a
framing. The deadline is a count of ticks. `RegisterAll` is the critical section of the
registry; `LookUp` takes the lock once per object, as the code does.

**DemoServer.** `req[t]` is a handler thread and its request, `app` the fields of
`DemoApplication`, `lock` the owner of `execution_lock`. `Receive` stands for
everything up to the application, with the checks in their order
(`FrontProblem`, with a list of paths for each method); an action then holds the lock from `Dispatch` to `Reply`, and
its runtime call is the sequence of steps of `ReferenceRun` for that thread. A
runtime call that raises is a `Crash` there. The directory a reset removes is
the state of `ReferenceRun` put back to its beginning; a clean-up that fails has
removed any part of the files and kept the application's fields. A
verification that finds errors answers them and keeps them, or raises and leaves
the one kept before.

**DemoInit.** `node` is a table of inodes and `links` the directory entries, so
that a name may be made to mean something else between two calls. `me[p].root`,
`kids` and `files` are what the code has pinned, `above` is the directory the
output goes into, which the call makes when it is missing and never removes.
Any system call may fail, those of the clean-up too, which goes on with the next
entry. `MoveAway`, `MoveParent`, `Plant` and `Tamper` are other processes.
`calm`, `alone` and `stuck` are history variables that say which of the
properties' exceptions apply. A call that finds the parent moved away would make
another and work in a tree of its own; that is left out.

**SupplyChainEvidence and Release.** A commit is a number, a tree the number of
its commit, edited files are 0. A report is what it is bound to; the policy is
the report it was written for, since it pins each of those values. Each read of
HEAD, of the status, of the report, of the policy and of the directories is a
step, in the order of the code. The exception is `HEAD^{tree}` with the status
that follows it, which are one step for the collector and for the validator: an
edit that is committed between the two commands shows in neither, as if it came
after both. The scan is one step. `_seed_contract_files` is not a step: it
copies schema files from the live directory, if there is one at that moment, and
a report does not say which lie beside it. A release without its inputs, or
inputs without `--release`, is refused before anything is read and is left out. `os.replace` onto a directory with entries fails, and one onto a free name
succeeds, which is all the mutual exclusion the promotion has.

## What the runs check

| Run | Bounds | Shows |
|---|---|---|
| `case` | 15 transitions, every actor and version, all guards' contexts | no delivery without a valid human sign-off of the current revision; every step is one of `HumanGate` |
| `reference_run` | 2 processes, 1 crash, 1 edited content, 2 files before the state, 3 times | a manifest has a live approval of exactly its content; the state names only files that are there; nothing decided or packaged is taken back; a run whose calls did not overlap verifies and implements `HumanGate` |
| `reference_run_lost_decision` | 2 processes, no failures | **violated**, see below |
| `demo_server` | 2 threads, 1 reset, 1 failure, 1 edited content, 10 requests | a runtime call keeps the lock and its workspace; a success shows its own result, and no view mixes two runs; the gate holds through the page; the lock comes back |
| `action_certificate` | 2 verifiers, 16 certificates, 11 roots among which one person has two keys and two persons one, 3 times, ledger of 2 | an effect is authorised once; the ledger holds exactly the accepted; a revocation counts as soon as snapshots without it run out; thresholds count people who did not ask, each with a key of their own |
| `attempt_record` | receipts of the set in all orders, index of 2; then closures in all orders, index of 4 | one account per attempt, under a reservation, by independent observers; chains without gaps, one outcome per key, verdicts that follow the effects, told by outsiders |
| `outcome_raised` | the same, closure index of 1 | **violated**, see below |
| `tool_service` | 3 clients, 2 slots, 5 requests, 3 places in the registry, 2 times | slots are conserved, batches registered whole, calculations use registered evidence of their own scope, every connection ends |
| `case_pipeline` | up to 3 documents of 16 kinds; 8 catalogs with rules at the edges of their validity and 6 lists of issues, and requests of 32 and 33 issues; 14 starts at uneven places of the calendar with the days around every month's end up to 2020, and services that end in the year 9999 | exactly the whole cases reach the gate, with all facts and rules, the expected trace and the amount of the statute; the audit finds nothing the calculation did not |
| `demo_init` | 1 process, a file in the output and one in its directory, the parent there or not, 2 moves of others, 2 failing calls | success is the whole bundle at its path; nothing foreign is overwritten or removed; an undisturbed failure leaves nothing in the output but what a call failed over |
| `release` | 3 collectors, 2 builders of which one releases, 2 commits; three alternative budgets (below) | the newest evidence survives and is back once promotions are over; a manifest stands beside its own archives; a release is what its evidence is about |
| `release_returning` | 1 collector, 1 release, 2 moves, 1 return of the checkout | **violated**, see below |

The bounds are the smallest at which the cases the properties speak of occur:
two racing parties, one more item than fits, a revision and a second gate (15
transitions), a chain of three closures, both sides of each date, a swap
(rename away, put another in its place) under `init-demo`, a failure and a
second one while it is cleaned up or made good. Three collectors are
needed for one to find the place taken by a second while a third holds the
backup. The budgets of `release` bound how often each thing happens and are
chosen at the start: four collections with two failures; two builds beside one
collection while the checkout moves twice and returns once, with a failure; one
build beside two collections and two policies. All of them at once is beyond
TLC's reach. Commit 2 raises the version, so that two builds publish under the
same names or under different ones. Collectors are interchangeable and no
liveness is checked there, so symmetry is sound.

In `attempt_record` closures start after one particular log of receipts: the two
verifiers share the trust policy and no state, so their steps commute.
In `case_pipeline` the kinds of documents, the kinds of rules and the dates are
three families of cases: a document, a rule and a date meet only in the
conditions that `Whole` names, and those are in each family.

Where a run has `CHECK_DEADLOCK FALSE` the system may stop: a closed case, a
finished preparation, build or initialisation, a demo that was shut down, a bound
on versions, time or crashes that is used up.

**Fairness.** `tool_service` assumes weak fairness of what the server does by
itself for each connection: the accept loop takes connections, threads run, time
passes. Nothing is assumed of clients. The deadline the reader leaves on the
socket also bounds the write of the answer, so a client that does not take it is
an action that ends the thread (`SendFails`), not one that blocks it. That every
connection ends is stated of one client; the specification does not tell clients
apart. `demo_server` assumes weak fairness of each thread's work, which is that
the operating system runs it and that file operations return. It assumes nothing
of browsers and nothing of the order in which waiting threads get the lock,
which Python does not promise either; so it shows that the lock comes back
(`LockComesBack`), and not that each request is answered.

### Disagreements found

- `outcome_raised`: a closure whose effects are all terminal, one committed and
  one refused of two, makes `verify_outcome_closure` build an `UNSAFE_SUCCESS`
  with the reason `EFFECT_TERMINAL_INVALID`, which its own result validator
  does not allow. The call raises instead of answering; the command line ends
  with the code of an input error. `docs/15_OUTCOME_CLOSURE_V0P1.md` promises a
  verdict.
- `reference_run_lost_decision`: `approve_reference_run` passes the version it
  has just loaded as the version it expects. Two calls that load the same state
  both succeed and the second replaces the decision of the first. `README.md`
  and `docs/01_TECHNICAL_DESIGN.md` speak of optimistic concurrency versions.

- `release_returning`: the builder observes the checkout before and after the
  validator and compares the two. When the checkout goes to another commit and
  comes back in between, both comparisons and those of the validator succeed: the
  validator attests the evidence of the commit in between, and the archives are
  of the other. The comment in `build_distribution` says that this cannot happen.
  A checkout that only moves on is caught (`SteadyReleaseIsAttested`).

Some facts are exceptions written into a property rather than findings:

- An employment begun on 29 February reaches its half year a day early in common
  years, because the six months are added to an anniversary already moved to the
  28th (`SheetFollowsStatute`).
- A service that ends after its last anniversary in the year 9999 and would
  reach its half year in the next is refused as an invalid parameter; `Whole`
  counts that among the faults of a case (`ExactlyWholeCasesReachTheGate`).
- `init-demo` pins what it finds under the name it has just made, so a directory
  of somebody else put there between `mkdir` and `open` is taken for its own, and
  written into. An entry is compared and removed in two calls; a file put in
  place between them is removed. When the call that follows the making of an
  entry fails, that entry is not recorded yet and stays, with its directories;
  so does an entry whose comparison or removal fails in the clean-up, which says
  nothing of it (`FailureLeavesNothing`). The directories made above the output
  are never removed. Changes made while the verification runs may escape
  it (`SuccessIsWhole`).
- A collector that dies between its two renames leaves no evidence directory,
  and so does one whose second rename fails and whose move back fails as well;
  the evidence is in the backup directory until a promotion fills the place
  again (`EvidenceIsBackAtRest`).
- After a clean-up that failed half way the demo goes on in what is left of the
  workspace, and shows the probe and the verification of before
  (`AnswersAreCoherent` and `DemoImplementsHumanGate` except the time up to the
  next reset).
- `NothingIsTakenBack` is about files of a package and about the way back before
  the gate; a late approve may still replace a decision, which is the finding
  above.
- Two calls that overlap in a run directory may leave a run that does not verify
  (`RunVerifies` speaks of calls that do not).

## What is proved

TLAPS checks the theorems below for every value of the constants that meets the
assumption named: every number of transitions, processes, verifiers, connections,
collectors and builders, every set of contexts, cases, certificates, closures and
requests, every calendar date and wage, every bundle, every trust policy, every
capacity and every bound on time and failures.

| Theorem | Says | Assumption |
|---|---|---|
| `CaseStateMachineProofs!TypeCorrect` | the case and the history of its gate keep their types | `CaseAssumption` |
| `CaseStateMachineProofs!DeliveryNeedsSignOff` | `NoDeliveryWithoutSignOff` | `CaseAssumption` |
| `CaseStateMachineProofs!Refinement` | the state machine implements `HumanGate` | `CaseAssumption` |
| `VerifierProofs!TypeCorrect` | the verifier keeps its types | `CertificateAssumption` |
| `VerifierProofs!LedgerIsExact` | `LedgerHoldsExactlyTheAccepted` | `CertificateAssumption` |
| `VerifierProofs!NoEffectTwice` | `AuthorisedAtMostOnce` | `CertificateAssumption` |
| `VerifierProofs!RevocationCounts` | `RevocationTakesEffect` | `CertificateAssumption` |
| `VerifierProofs!EnoughOthersApproved` | `ApprovedByEnoughOthers` | `PolicyAssumption` |
| `VerifierProofs!AttemptsHaveOneAccount` | `OneAccountPerAttempt` | `RecordAssumption`, `PolicyAssumption` |
| `VerifierProofs!ExecutionsWereReserved` | `ExecutedUnderReservation` | `RecordAssumption`, `PolicyAssumption` |
| `VerifierProofs!ReceiptsAreIndependent` | `ObservedIndependently` | `RecordAssumption`, `PolicyAssumption` |
| `VerifierProofs!ChainsAreLinked` | `ChainIsLinked` | `RecordAssumption`, `PolicyAssumption` |
| `VerifierProofs!KeysHaveOneOutcome` | `OneOutcomePerKey` | `RecordAssumption`, `PolicyAssumption` |
| `VerifierProofs!OutcomesAreToldByOutsiders` | `ToldByOutsiders` | `RecordAssumption`, `PolicyAssumption` |
| `VerifierProofs!VerdictsSayWhatHappened` | `VerdictSaysWhatHappened` | `RecordAssumption`, `PolicyAssumption` |
| `VerifierProofs!SuccessesAreNeverPassedOver` | `SuccessNeverPassedOver` | `RecordAssumption`, `PolicyAssumption` |
| `CasePipelineProofs!ExactlyWholeCasesPass` | `ExactlyWholeCasesReachTheGate` | `PipelineAssumption` |
| `CasePipelineProofs!GateAlwaysShowsEverything` | `GateShowsEverything` | `PipelineAssumption` |
| `CasePipelineProofs!TraceIsAlwaysTheExpectedOne` | `TraceIsTheExpectedOne` | `PipelineAssumption` |
| `CasePipelineProofs!AuditNeverFindsAnythingNew` | `AuditFindsNothingNew` | `PipelineAssumption` |
| `CompensationProofs!CoefficientFollowsStatute` | the coefficient of any two dates is the statute's, with the exception above | none |
| `CasePipelineProofs!SheetsFollowStatute` | `SheetFollowsStatute` | `PipelineAssumption` |
| `DemoInitProofs!FailedCallsLeaveNothing` | `FailureLeavesNothing` | `InitAssumption` |
| `DemoInitProofs!SuccessfulCallsAreWhole` | `SuccessIsWhole` | `InitAssumption` |
| `DemoInitProofs!ForeignFilesAreKept` | `NothingForeignHarmed` | `InitAssumption` |
| `ReferenceRunProofs!PackageAlwaysHasLiveApproval` | `PackageHasLiveApproval` | `RunAssumption` |
| `ReferenceRunProofs!StateAlwaysNamesOnlyWrittenFiles` | `StateNamesOnlyWrittenFiles` | `RunAssumption` |
| `ReferenceRunProofs!NothingIsEverTakenBack` | `NothingIsTakenBack` | `RunAssumption` |
| `ReferenceRunProofs!SequentialRunsVerify` | `RunVerifies` | `RunAssumption` |
| `ReferenceRunProofs!RunsImplementHumanGate` | the run directory implements `HumanGate` | `RunAssumption` |
| `ReferenceRunProofs!CallsKeepTheirWorkspace` | `CallKeepsItsWorkspace` | `RunAssumption`, `ServerAssumption` of `DemoServer` |
| `ReferenceRunProofs!DemoRunsImplementHumanGate` | the demo implements `HumanGate` | the same |
| `ReferenceRunProofs!AnswersAreAlwaysCoherent` | `AnswersAreCoherent` | the same |
| `ReleaseProofs!NewestEvidenceAlwaysSurvives` | `NewestEvidenceSurvives` | `CommitsAssumption`, `BudgetsAssumption` |
| `ReleaseProofs!EvidenceIsAlwaysBackAtRest` | `EvidenceIsBackAtRest` | the same |
| `ReleaseProofs!ManifestAlwaysNamesItsOwnFiles` | `ManifestNamesItsOwnFiles` | the same |
| `ReleaseProofs!SteadyReleaseIsAlwaysAttested` | `SteadyReleaseIsAttested` | the same |
| `ToolServerProofs!TypeCorrect` | the service keeps its types, the registry its capacity | `ServerAssumption` |
| `ToolServerProofs!NoSlotLost` | `SlotsConserved` | `ServerAssumption` |
| `ToolServerProofs!WholeBatches` | `RegisteredWhole` | `ServerAssumption` |
| `ToolServerProofs!NoForeignEvidence` | `CalculatedFromRegistered` | `ServerAssumption` |

The arguments:

- **The gate.** That a delivered case is signed off is not inductive: a case
  that comes back for a revision must lose its sign-off, or the next gate would
  be passed on the old one. `GateInv` says what each state has behind it,
  before the gate too. The refinement uses the same `GateInv`.
- **The ledger.** That no two accepted certificates share a nonce says nothing
  of the ledger the next one is compared with. `LedgerInv` says that nonces and
  intents in the ledger are those of the accepted certificates, one each.
- **Revocation.** A verification reads its snapshot, and reserves later. The
  invariant (`RevocationInv`, on top of `SnapshotInv`) therefore covers the
  calls in between as well as the accepted certificates, and `StillGood` is
  stable: neither the clock nor a later revocation undoes it.
- **Slots.** Every step changes one connection, and takes or gives back a slot
  exactly when a thread begins or ends to serve it (`Moves`). Types and
  conservation are proved together, because a release stays within the limit
  only since the running threads account for the slots that are out.
- **The registry.** `LookupInv` says that whatever a calculation has looked up
  so far and found is registered in its own scope. It survives the gaps between
  lookups because the registry only grows.
- **Who counts.** `Distinct` goes through the verified roots and skips those
  whose key or principal was counted before. It is a recursive function of the
  position, and what it computes is shown from its defining equation and the fact
  that a set of numbers has a least element: what is counted was presented, nobody counts twice, and
  so a threshold on the count is a threshold on people with keys of their own
  (`CountedArePeople`).
  `PendingIsApproved` carries this to the certificates in flight. A receipt or
  closure is checked and recorded in one step, so there the step needs no more.
- **The indexes.** Like the ledger: `ReceiptInv` says that the tables of the
  receipt index are exactly the image of the recorded receipts and that no two of
  those share what may be used once; `ClosureInv` says the same of the closure
  index and that what it takes for the latest of a chain was recorded, and `ChainsInv`
  that each recorded closure is a first one or follows a recorded one. That no
  PASS, FAIL or silence of the verdict last returned (`LastInv`) contradicts the
  effects is a case analysis of the early returns (`Derived`, `DerivedHappened`).
- **The pipeline.** `Ingestion` says that the evidence is the facts of the
  documents done so far and the store holds them. `StageInv` says what each stage
  has settled, in terms of the input and not of what earlier stages computed.
  The lemmas connect the two: the values told of a field are those of the
  evidence, conflicts are found exactly when the facts disagree, the citations are
  the rules in force, and the calculation refuses exactly when a fact or a rule
  is missing or ambiguous, a service cannot be counted or an amount is too large.
  `TraceInv` says that the trace so far is the beginning of the expected one.
- **The sheet.** The code works from the last anniversary, the statute counts
  whole months of service from the start. The proof goes through a closed form: the months
  between two dates are the difference of their months, less one while the day of the
  month (or the end of a shorter month) is not reached (`MonthIsOver`,
  `CountedMonths`). Adding months keeps months in order (`MonthOrder`), so the last
  anniversary reached is the number of whole years in that count (`CompletedYears`),
  and the half year beyond it is reached when the count is, but for the one day after a
  29 February that the code's anniversary has already moved to the 28th
  (`HalfYear`). The count is of a set of numbers that turns out to be an interval,
  so no induction is needed. In the pipeline the sheet is filled from the one value
  told of each field (`ToldValues`), which carries the theorem to the gate.
- **The initialiser.** What a call knows of a tree that others change is little,
  and the invariant `BundleInv` says just that, in four parts. `TreeOK`: a name means one
  thing in a directory and an inode is younger than the directory it was made
  in. `CallOK`: what is pinned are directories, one below the other, and the files
  recorded are the call's own; inodes keep kind and maker, so this survives
  whatever others do. `CalmOK`: what an undisturbed verification has been through,
  or an undisturbed comparison before an unlink, is still so. `AloneOK`: when nobody
  else has touched the tree, every entry in it is one that the call has recorded and
  its clean-up has yet to reach, or is one that a call failed over (`stuck`). The last is
  an upper bound on the entries, and that is enough, because names are unique:
  an entry that is not the one looked up does not exist. A directory stays in the clean-up
  only when something is in it, and since entries point to younger inodes that
  something is neither the directory itself nor one above it.
- **The run directory, with overlapping calls.** `FilesInv`: only the
  call that made the package directory fills it, so the draft, the bundle and the
  manifest have one writer whose approval was checked live (`PackageInv`); what
  each call still holds in memory was true of the directory when it was read, and
  the parts used later cannot become false (`CallInv`).
- **The run directory, without overlap.** `SoloInv`: at most one call is under
  way, the directory is determined by the stage of the run and by how far that
  call has come (`DiskInv`), and at rest the trace is the one verification
  expects (`SettledTrace`). A crash leaves a directory from which a retry goes
  on. Both the verification and the refinement follow from it.
- **The demo.** `ControlInv` says that the thread in a runtime call owns the lock
  and that the workspace is open. From this the calls on the run directory never overlap, so the
  invariant of the run directory holds of the workspace until a clean-up fails
  (`ServedRun`). `AnswerInv` ties what a thread will answer, and the probe and
  verification the application keeps, to the run that is there.
- **The evidence.** Three parts. The id of a report under construction is
  nobody else's (`FreshInv`). A backup that is about to be deleted is not the
  newest evidence (`BackupInv`). While the place is empty and the evidence is not stranded, some
  collector holds what was there (`HolderInv`); this is what the order of the two
  renames gives, without any lock.
- **The release.** `JobInv` records, for each builder, what each value it has read
  says of the checkout at that time. Unless the checkout is put back, a
  commit once left does not return (`MovesOn`), so two equal reads mean that
  nothing moved in between. `OutputInv` says whose files the output directory
  holds between two publications.

What the assumptions ask for. `CaseAssumption`: contexts have
the fields of `TransitionContext`, the bound on versions is positive.
`CertificateAssumption`: capacity, snapshot life and time bound are numbers.
`PolicyAssumption`: the trust policy is one that the code's own validation of
policies lets through (thresholds from 1 to 16, distinct root ids, valid roots).
`RecordAssumption`: capacities are positive, and the times, counts and closed
vocabularies in receipts and closures are what their wire models enforce
(`FieldsTyped`). `PipelineAssumption`: required fields can be extracted, finitely many
can, the store has a place, the largest amount is a number, and a case lists its
documents, issues and rules, the values in which are dates of the calendar or none and
amounts or none.
`InitAssumption`: the files of the bundle, at least one, are in its root or one of
its directories, others are no process of this kind, the bounds are numbers.
`RunAssumption`: there is a process, edited content differs from the original,
a run has an artifact, the bounds are numbers. `ServerAssumption` of `DemoServer`:
no thread is the value for a free lock, and the fixed time of packaging is within
the bound on time. `ServerAssumption` of `ToolServer`: connections are finitely
many, the limits are numbers, a skill answers OK or BLOCKED, and no refusal of a
request is called CALCULATED or BODY. `CommitsAssumption`, `BudgetsAssumption` and
`ReleasingAssumption`: commits are positive numbers, budgets are numbers, releasing
builders are builders (no proof needs the last one). TLC evaluates each of them in
the runs.

`ObservedIndependently` and `ToldByOutsiders` speak of the names a receipt or
closure gives as its observers and of the keys that count towards the threshold.
A further signature, by a root the policy does not list as an observer or lists
for another tenant or audience, is ignored by the code, and nothing is claimed of it.

Only model-checked: liveness under fairness (`AnyConnectionEnds`,
`LockComesBack`), which this prover does not reach. Every other property of a
passing run is a theorem.

## Not modelled

- `canonical.py`: serialisation and hashing; modules use identities.
- `cli.py`: parses arguments, calls one function, maps the result to an exit
  code.
- `benchmarks/evaluation/ledger*.py`: builds a record of finished trials and
  checks one offline; a format and its validation, without state that moves.
- other benchmarks, the remaining `scripts/`, `deploy/agentteams`,
  `public-demo/`, `schemas/`, `third_party/`: drivers, generators, static data and
  evidence about external services.
- Of the supply-chain validator: the consistency mode for historical evidence,
  the formats of the scanner reports, the order of time stamps and the freshness
  limits.
- Within modelled parts: text extraction, formats of identifiers, the wording of
  results, the cryptography of signatures, `fsync` (a crash of the process is
  modelled, one of the machine is not), start-up configuration of the service, the
  content of archives and of the demo page.

## Plan

Done, in this order: the state machine and its abstract gate with proofs; the
run directory; the trust policy and the certificate verifier with proofs; the
receipt and closure verifiers; the tool service with proofs; the pipeline and
the formula; the demo server over the run directory; the demo initialiser; the
evidence collectors and the release build; the composition `AttemptRecord`.

Then the proofs, in this order: the evidence and the release; the run directory
and its refinement of the gate; the demo server; the trust policy and the three
verifiers; the pipeline; the sheet; the demo initialiser.

Left: the two liveness properties stay with TLC. Of the parts that are not
modelled, the freshness limits of the supply-chain validator and the order of its
time stamps would be the next to add.
