------------------------------ MODULE Release ------------------------------
(***************************************************************************)
(* Building the distribution (scripts/build_installable_distribution.py)   *)
(* from a checkout that moves, with --release behind the supply-chain gate *)
(* (deploy/tool-service/scripts/validate_supply_chain_evidence.py, run as  *)
(* a process of its own), into an output directory other builds may use.   *)
(* Every read of the repository, of the evidence, of the policy and of the *)
(* output directory is a step; only HEAD^{tree} and the git status that    *)
(* follows it are read together.  Refused command lines are left out.      *)
(*                                                                         *)
(* The policy pins every value the validator compares it with, so it is    *)
(* the report it was written for; its digest is given on the command line. *)
(* Reading, hashing and parsing are left out, and so are the freshness     *)
(* limits; the two archives are reduced to the sources they were made of.  *)
(***************************************************************************)
EXTENDS SupplyChainEvidence

CONSTANTS Builders,     \* processes that run build_distribution()
          Releasing,    \* those of them that were given --release
          Version       \* the version pyproject.toml has in a tree

ASSUME ReleasingAssumption == Releasing \subseteq Builders

VARIABLES policy,    \* the release policy file, None before it is written
          bld,       \* per builder: phase and local variables
          output     \* the output directory: what each name in it holds

releaseVars == <<policy, bld, output>>
vars == <<head, edited, evidenceVars, left, releaseVars>>

Fresh == [phase |-> "idle"]

\* The three names a build of tree t publishes.
Names(t) == {<<"wheel", Version[t]>>, <<"sdist", Version[t]>>, <<"manifest">>}

In(b, phase) == bld[b].phase = phase
Fail(b) == bld' = [bld EXCEPT ![b] = [phase |-> "failed"]]
To(b, phase) == bld' = [bld EXCEPT ![b].phase = phase]
Set(b, field, value) == [bld[b] EXCEPT ![field] = value]
Then(b, phase, r) == bld' = [bld EXCEPT ![b] = [r EXCEPT !.phase = phase]]
Check(b, ok, phase) == IF ok THEN To(b, phase) ELSE Fail(b)

Untouched == UNCHANGED <<head, edited, evidenceVars, left, policy, output>>

-----------------------------------------------------------------------------
(* The operator writes the policy for the evidence it has reviewed.        *)

WritePolicy ==
    /\ live # None
    /\ Spend("policies")
    /\ policy' = live
    /\ UNCHANGED <<head, edited, evidenceVars, bld, output>>

-----------------------------------------------------------------------------
(* _source_binding: the commit, then whether the tree is clean.  The tree  *)
(* and the date are those of the commit.  It is called up to three times.  *)

\* build_distribution begins; a release is told the digest of the policy.
Start(b) ==
    /\ In(b, "idle")
    /\ Spend("builds")
    /\ b \in Releasing => policy # None
    /\ bld' = [bld EXCEPT ![b] =
                 [phase |-> "status", pinned |-> policy, returns |-> left.returns,
                  commit |-> head, clean |-> FALSE,
                  seen |-> 0, evidence |-> None, report |-> None, before |-> 0, snapshot |-> 0]]
    /\ UNCHANGED <<head, edited, evidenceVars, policy, output>>

BindStatus(b) ==
    /\ In(b, "status")
    /\ Then(b, IF b \in Releasing THEN "inputs" ELSE "open", Set(b, "clean", ~edited))
    /\ Untouched

\* post_preflight_binding and final_binding: the commit ...
Rebind(b) ==
    /\ In(b, "rebind") \/ In(b, "finalbind")
    /\ Then(b, IF In(b, "rebind") THEN "restatus" ELSE "finalstatus", Set(b, "seen", head))
    /\ Untouched

BadSameBinding(b) == ~edited = bld[b].clean

SameBinding(b) == bld[b].seen = bld[b].commit /\ ~edited = bld[b].clean

\* ... and the status; it must be the binding of the start, and clean.
Restatus(b) ==
    /\ In(b, "restatus")
    /\ Check(b, SameBinding(b) /\ bld[b].clean, "open")
    /\ Untouched

FinalStatus(b) ==
    /\ In(b, "finalstatus")
    /\ Check(b, SameBinding(b), "assert")
    /\ Untouched

-----------------------------------------------------------------------------
(* _release_supply_chain_preflight                                         *)

\* The evidence and the policy are read; the policy must have the digest.
ReadInputs(b) ==
    /\ In(b, "inputs")
    /\ IF live # None /\ policy = bld[b].pinned
       THEN Then(b, "validator", Set(b, "evidence", live))
       ELSE Fail(b)
    /\ Untouched

\* verify: the report and the policy, by their paths again ...
ReadReport(b) ==
    /\ In(b, "validator")
    /\ IF live # None /\ policy = bld[b].pinned
       THEN Then(b, "observe", Set(b, "report", live))
       ELSE Fail(b)
    /\ Untouched

\* ... _observe_repository_state before and after the validation: the commit ...
Observe(b) ==
    /\ In(b, "observe") \/ In(b, "reobserve")
    /\ Then(b, IF In(b, "observe") THEN "match" ELSE "rematch", Set(b, "seen", head))
    /\ Untouched

\* ... and the tree and the status, with
\* _require_repository_state_matches(report and policy).
RepositoryMatches(b) ==
    /\ ~edited
    /\ \A declared \in {bld[b].report, bld[b].pinned} :
          declared.commit = bld[b].seen /\ declared.tree = head

Match(b) ==
    /\ In(b, "match")
    /\ IF RepositoryMatches(b)
       THEN Then(b, "common", Set(b, "before", bld[b].seen))
       ELSE Fail(b)
    /\ Untouched

\* _validate_common: the build inputs are those of the working tree now, and
\* the artifacts found beside the report are the ones it names.
ValidateCommon(b) ==
    /\ In(b, "common")
    /\ Check(b, bld[b].report.inputs = WorkTree /\ live = bld[b].report, "reobserve")
    /\ Untouched

\* repository_after = repository_before, the policy's expectations, and no
\* high or critical finding.
Eligible(b) ==
    /\ bld[b].seen = bld[b].before
    /\ head = bld[b].report.tree
    /\ ~edited
    /\ bld[b].report = bld[b].pinned
    /\ ~bld[b].report.findings

Rematch(b) ==
    /\ In(b, "rematch")
    /\ Check(b, Eligible(b), "reread")
    /\ Untouched

\* Back in the builder: both files are still the ones that were read.
Reread(b) ==
    /\ In(b, "reread")
    /\ Check(b, live = bld[b].evidence /\ policy = bld[b].pinned, "rebind")
    /\ Untouched

-----------------------------------------------------------------------------
(* _build_distribution_with_output                                         *)

\* _open_output_directory: a new or an empty directory.
OpenOutput(b) ==
    /\ In(b, "open")
    /\ Check(b, DOMAIN output = {}, "snapshot")
    /\ Untouched

BadSnapshot(b) ==
    /\ In(b, "snapshot")
    /\ Then(b, "built", Set(b, "snapshot", WorkTree))
    /\ Untouched

\* _git_inventory of the bound commit, or _worktree_inventory if the tree was
\* not clean; the build and the comparison of its archives with the snapshot.
Snapshot(b) ==
    /\ In(b, "snapshot")
    /\ Then(b, "built", Set(b, "snapshot", IF bld[b].clean THEN bld[b].commit ELSE WorkTree))
    /\ Untouched

\* git status after the build; a release insists on it and binds once more.
AfterBuild(b) ==
    /\ In(b, "built")
    /\ IF b \in Releasing THEN Check(b, ~edited, "finalbind") ELSE To(b, "assert")
    /\ Untouched

\* _assert_output_directory_binding(..., set())
AssertEmpty(b) ==
    /\ In(b, "assert")
    /\ Check(b, DOMAIN output = {}, "wheel")
    /\ Untouched

Following == [wheel |-> "sdist", sdist |-> "manifest", manifest |-> "verify"]

NameOf(b) == IF In(b, "manifest") THEN <<"manifest">>
             ELSE <<bld[b].phase, Version[bld[b].snapshot]>>

\* A file holds what its builder knows: the archives their sources, the
\* manifest the binding, the receipt of the gate and the archives' digests.
Put(b, whole) ==
    output' = [n \in DOMAIN output \cup {NameOf(b)} |->
                 IF n # NameOf(b) THEN output[n]
                 ELSE [by |-> b, whole |-> whole, exact |-> bld[b].clean, commit |-> bld[b].commit,
                       snapshot |-> bld[b].snapshot, attested |-> bld[b].report,
                       steady |-> bld[b].returns = left.returns]]

\* _publish_file: O_CREAT | O_EXCL in the directory that was opened, one file
\* after the other, the manifest last.
PublishFile(b) ==
    /\ bld[b].phase \in DOMAIN Following
    /\ IF NameOf(b) \in DOMAIN output
       THEN Fail(b) /\ UNCHANGED output
       ELSE /\ Put(b, TRUE)
            /\ To(b, Following[bld[b].phase])
    /\ UNCHANGED <<head, edited, evidenceVars, left, policy>>

\* The write fails, or the process dies, after the file was created.
PublishFails(b) ==
    /\ bld[b].phase \in DOMAIN Following
    /\ NameOf(b) \notin DOMAIN output
    /\ Spend("faults")
    /\ Put(b, FALSE)
    /\ Fail(b)
    /\ UNCHANGED <<head, edited, evidenceVars, policy>>

\* The listing must be the three names before the call returns.
VerifyOutput(b) ==
    /\ In(b, "verify")
    /\ bld' = [bld EXCEPT ![b] = [phase |-> IF DOMAIN output = Names(bld[b].snapshot)
                                             THEN "done" ELSE "failed"]]
    /\ Untouched

\* A subprocess fails, a file cannot be read, or the process dies.
BuildFails(b) ==
    /\ bld[b].phase \notin {"idle", "failed", "done"}
    /\ Spend("faults")
    /\ Fail(b)
    /\ UNCHANGED <<head, edited, evidenceVars, policy, output>>

Build(b) ==
    \/ Start(b) \/ BindStatus(b) \/ Rebind(b) \/ Restatus(b) \/ FinalStatus(b)
    \/ ReadInputs(b) \/ ReadReport(b) \/ Observe(b) \/ Match(b) \/ ValidateCommon(b)
    \/ Rematch(b) \/ Reread(b) \/ OpenOutput(b) \/ Snapshot(b) \/ AfterBuild(b)
    \/ AssertEmpty(b) \/ PublishFile(b) \/ PublishFails(b) \/ VerifyOutput(b) \/ BuildFails(b)

Init ==
    /\ EvidenceInit
    /\ policy = None
    /\ bld = [b \in Builders |-> Fresh]
    /\ output = [n \in {} |-> None]

Next ==
    \/ EvidenceNext /\ UNCHANGED releaseVars
    \/ WritePolicy
    \/ \E b \in Builders : Build(b)

Spec == Init /\ [][Next]_vars

-----------------------------------------------------------------------------
(* Properties                                                              *)

\* The manifests that were written whole.
Manifests == {output[n] : n \in {m \in DOMAIN output : m = <<"manifest">> /\ output[m].whole}}

\* Two builds given one output directory, and writes that fail half-way: a
\* manifest that can be read stands beside the two archives it was written
\* for, whole and by the same build, and where it claims an exact commit
\* (exact_commit_binding) they are made of that commit, whatever happened to
\* the checkout meanwhile.
ManifestNamesItsOwnFiles ==
    \A m \in Manifests : \A n \in Names(m.snapshot) :
       /\ n \in DOMAIN output
       /\ output[n].by = m.by
       /\ output[n].whole
       /\ m.exact => output[n].snapshot = m.commit

\* The report the validator attested names the commit the archives were made
\* of, was measured on its bytes and has no blocking finding.
Attested(m) ==
    /\ m.attested # None
    /\ {m.attested.commit, m.attested.tree, m.attested.inputs} = {m.snapshot}
    /\ m.snapshot = m.commit
    /\ ~m.attested.findings

\* A release is what its evidence is about, however collections, promotions,
\* commits and edits fall between the reads of the builder, the validator and
\* the collector, as long as the checkout did not go back to an earlier state
\* while the build ran.
SteadyReleaseIsAttested ==
    \A m \in Manifests : m.by \in Releasing /\ m.steady => Attested(m)

\* build_distribution: "Re-observe the revision after that subprocess so a
\* concurrent checkout/commit cannot make the validator attest one source
\* while this builder snapshots another."  Without the exception above.
ReleaseIsAttested ==
    \A m \in Manifests : m.by \in Releasing => Attested(m)
=============================================================================
