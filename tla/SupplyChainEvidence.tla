------------------------ MODULE SupplyChainEvidence ------------------------
(***************************************************************************)
(* The supply-chain evidence of the tool service                           *)
(* (deploy/tool-service/scripts/collect_supply_chain_evidence.py): a       *)
(* collector scans the image in a staging directory next to the output     *)
(* directory, has its own report validated, and promotes the candidate by  *)
(* renaming directories.  Collectors share the output directory and the    *)
(* repository checkout with each other and with the release build          *)
(* (module Release), and nothing locks either.                             *)
(*                                                                         *)
(* A commit is a number; a report is reduced to what the release binds it  *)
(* to: its evidence_set_id, the commit and the tree it names, the bytes of *)
(* the build inputs it measured, and whether the scan had high or critical *)
(* findings.                                                               *)
(***************************************************************************)
EXTENDS Naturals

CONSTANTS Collectors,       \* processes that run collect()
          Commits,          \* 1..n, the commits HEAD may name
          Budgets           \* bounds: how often each thing happens in a run

ASSUME CommitsAssumption == Commits \subseteq Nat \ {0} /\ 1 \in Commits
ASSUME BudgetsAssumption ==
    Budgets \subseteq [moves: Nat, returns: Nat, collections: Nat, faults: Nat,
                        policies: Nat, builds: Nat]

VARIABLES head,      \* the commit HEAD names
          edited,    \* whether git status reports a change
          live,      \* the report in the output directory, or None
          col,       \* per collector: phase, report under construction, backup
          kept,      \* reports in backup directories whose collector is gone
          newest,    \* history: the report promoted last
          stranded,  \* history: the place is empty and nobody is to fill it
          left       \* what is left of the bounds chosen at the start

evidenceVars == <<live, col, kept, newest, stranded>>

None == [id |-> 0]

\* The bytes of the working tree: those of a commit, or edited ones (0).
WorkTree == IF edited THEN 0 ELSE head

Idle == [phase |-> "idle", report |-> None, backup |-> None]

Spend(what) == left[what] > 0 /\ left' = [left EXCEPT ![what] = @ - 1]

-----------------------------------------------------------------------------
(* The checkout, which developers move while the scripts run.              *)

Commit ==
    /\ head + 1 \in Commits
    /\ Spend("moves")
    /\ head' = head + 1
    /\ edited' = FALSE
    /\ UNCHANGED evidenceVars

Edit ==
    /\ ~edited
    /\ Spend("moves")
    /\ edited' = TRUE
    /\ UNCHANGED <<head, evidenceVars>>

\* git checkout of an earlier commit, or of the edited files.
Checkout ==
    /\ Spend("returns")
    /\ \E k \in Commits :
          /\ k < head \/ (edited /\ k = head)
          /\ head' = k
    /\ edited' = FALSE
    /\ UNCHANGED evidenceVars

-----------------------------------------------------------------------------
(* collect()                                                               *)

At(c, phase) == col[c].phase = phase
BetweenRenames(c) == col[c].phase \in {"rename", "restore", "moveback"}
Go(c, phase) == col' = [col EXCEPT ![c].phase = phase]

\* The exception ends the process; `finally` removes the staging directory,
\* and a backup that was not moved back stays where it is.
Abandon(c) ==
    /\ col' = [col EXCEPT ![c] = Idle]
    /\ kept' = kept \cup ({col[c].backup} \ {None})

\* source_revision: git rev-parse HEAD, ...
ReadRevision(c) ==
    /\ At(c, "idle")
    /\ Spend("collections")
    /\ col' = [col EXCEPT ![c] = [phase |-> "tree", backup |-> None,
                 report |-> [id |-> left.collections, commit |-> head]]]
    /\ UNCHANGED <<head, edited, live, kept, newest, stranded>>

\* ... then, of a HEAD that may have moved, HEAD^{tree} and a status that
\* must be clean.  The two commands are one step: what changes between them
\* is seen by neither or refused by the second.
ReadTree(c) ==
    /\ At(c, "tree")
    /\ IF edited
       THEN Abandon(c)
       ELSE /\ col' = [col EXCEPT ![c].phase = "scan",
                         ![c].report = [id |-> @.id, commit |-> @.commit, tree |-> head]]
            /\ UNCHANGED kept
    /\ UNCHANGED <<head, edited, live, newest, left, stranded>>

\* _collect_into: the scan, with the build inputs measured where they are now.
CollectInto(c) ==
    /\ At(c, "scan")
    /\ \E findings \in BOOLEAN :
          col' = [col EXCEPT ![c].phase = "validate",
                    ![c].report = [id |-> @.id, commit |-> @.commit, tree |-> @.tree,
                                   inputs |-> WorkTree, findings |-> findings]]
    /\ UNCHANGED <<head, edited, live, kept, newest, left, stranded>>

\* _self_validate, in consistency mode: the report agrees with its artifacts,
\* whatever the repository looks like meanwhile.  (_seed_contract_files has
\* copied the schema files of the live directory, if there was one at that
\* moment; a report does not say which schema files lie beside it.)
SelfValidate(c) ==
    /\ At(c, "validate")
    /\ Go(c, "promote")
    /\ UNCHANGED <<head, edited, live, kept, newest, left, stranded>>

\* A scanner, a changed database, a failed validation or a refused first
\* rename ends the collection before anything outside the staging directory
\* was touched.
CollectFails(c) ==
    /\ col[c].phase \in {"scan", "validate", "promote", "backup"}
    /\ Abandon(c)
    /\ UNCHANGED <<head, edited, live, newest, left, stranded>>

\* _promote_directory: output_dir.exists() ...
LookForLive(c) ==
    /\ At(c, "promote")
    /\ Go(c, IF live = None THEN "rename" ELSE "backup")
    /\ UNCHANGED <<head, edited, live, kept, newest, left, stranded>>

\* ... os.replace(output_dir, backup), under a name nobody else uses; the
\* directory may have gone since it was seen ...
BackUp(c) ==
    /\ At(c, "backup")
    /\ IF live = None
       THEN Abandon(c) /\ UNCHANGED live
       ELSE /\ col' = [col EXCEPT ![c].phase = "rename", ![c].backup = live]
            /\ live' = None
            /\ UNCHANGED kept
    /\ UNCHANGED <<head, edited, newest, left, stranded>>

\* ... os.replace(candidate_dir, output_dir), which an evidence directory put
\* there meanwhile refuses ...
Rename(c) ==
    /\ At(c, "rename")
    /\ IF live = None
       THEN live' = col[c].report /\ newest' = live' /\ stranded' = FALSE /\ Go(c, "remove")
       ELSE Go(c, "restore") /\ UNCHANGED <<live, newest, stranded>>
    /\ UNCHANGED <<head, edited, kept, left>>

\* ... or which fails for a reason of its own ...
RenameFails(c) ==
    /\ At(c, "rename")
    /\ Spend("faults")
    /\ Go(c, "restore")
    /\ UNCHANGED <<head, edited, live, kept, newest, stranded>>

BadLookAgain(c) ==
    /\ At(c, "restore")
    /\ Abandon(c)
    /\ UNCHANGED <<head, edited, live, newest, left, stranded>>

\* ... the handler: backup is not None and not output_dir.exists() ...
LookAgain(c) ==
    /\ At(c, "restore")
    /\ IF col[c].backup # None /\ live = None
       THEN Go(c, "moveback") /\ UNCHANGED kept
       ELSE Abandon(c)
    /\ UNCHANGED <<head, edited, live, newest, left, stranded>>

BadMoveBack(c) ==
    /\ At(c, "moveback")
    /\ col' = [col EXCEPT ![c] = Idle]
    /\ UNCHANGED <<head, edited, live, kept, newest, left, stranded>>

\* ... os.replace(backup, output_dir), then the error of the rename is raised
\* again; like the rename it is refused if a directory came in between ...
MoveBack(c) ==
    /\ At(c, "moveback")
    /\ IF live = None
       THEN /\ live' = col[c].backup
            /\ stranded' = FALSE
            /\ col' = [col EXCEPT ![c] = Idle]
            /\ UNCHANGED kept
       ELSE Abandon(c) /\ UNCHANGED <<live, stranded>>
    /\ UNCHANGED <<head, edited, newest, left>>

\* ... and like the rename it may fail for a reason of its own: its own error
\* is raised, and the evidence stays in the backup directory.
MoveBackFails(c) ==
    /\ At(c, "moveback")
    /\ live = None
    /\ Spend("faults")
    /\ stranded' = TRUE
    /\ Abandon(c)
    /\ UNCHANGED <<head, edited, live, newest>>

\* shutil.rmtree(backup), which may stop half-way: the pieces it leaves are
\* no evidence any more.
RemoveBackup(c) ==
    /\ At(c, "remove")
    /\ col' = [col EXCEPT ![c] = Idle]
    /\ UNCHANGED <<head, edited, live, kept, newest, left, stranded>>

\* The process dies anywhere; directories stay as they are.
CollectorDies(c) ==
    /\ ~At(c, "idle")
    /\ Spend("faults")
    /\ IF BetweenRenames(c) /\ live = None THEN stranded' = TRUE ELSE UNCHANGED stranded
    /\ IF At(c, "remove")
       THEN col' = [col EXCEPT ![c] = Idle] /\ UNCHANGED kept
       ELSE Abandon(c)
    /\ UNCHANGED <<head, edited, live, newest>>

Collect(c) ==
    \/ ReadRevision(c) \/ ReadTree(c) \/ CollectInto(c) \/ SelfValidate(c) \/ CollectFails(c)
    \/ LookForLive(c) \/ BackUp(c) \/ Rename(c) \/ RenameFails(c) \/ LookAgain(c)
    \/ MoveBack(c) \/ MoveBackFails(c) \/ RemoveBackup(c) \/ CollectorDies(c)

EvidenceInit ==
    /\ head = 1
    /\ edited = FALSE
    /\ live = None
    /\ col = [c \in Collectors |-> Idle]
    /\ kept = {}
    /\ newest = None
    /\ stranded = FALSE
    /\ left \in Budgets

EvidenceNext == Commit \/ Edit \/ Checkout \/ \E c \in Collectors : Collect(c)

-----------------------------------------------------------------------------
(* Properties                                                              *)

\* "... then promote without partial overwrite" (collect): whatever the
\* interleaving of promotions, failures of a rename and deaths of a process,
\* the evidence promoted last still exists whole: it is live, or in a backup
\* directory.  A collector deletes a backup only after its own report took
\* the place.
NewestEvidenceSurvives ==
    newest # None => newest \in {live} \cup kept \cup {col[c].backup : c \in Collectors}

\* Between its two renames a promotion leaves no output directory.  Once no
\* promotion is under way there is one again, even when collectors took each
\* other's place and a rename failed: whoever finds the place empty fills it.
\* Two things are not made good, and leave the evidence in a backup directory
\* until the next promotion fills the place: a collector that dies between
\* its renames, and a rename that fails followed by a move back that fails.
EvidenceIsBackAtRest ==
    (/\ newest # None
     /\ ~stranded
     /\ \A c \in Collectors : ~BetweenRenames(c))
    => live # None
=============================================================================
