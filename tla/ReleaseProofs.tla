----------------------------- MODULE ReleaseProofs -----------------------------
(***************************************************************************)
(* Proofs about the evidence directory and the release build, for every    *)
(* set of collectors, builders and commits, and however often the checkout *)
(* moves, a rename fails or a process dies.                                *)
(***************************************************************************)
EXTENDS Release, TLAPS

-----------------------------------------------------------------------------
(* Part 1: the promotion of evidence.                                      *)

Draft == [id : Nat \ {0}, commit : Commits]
Bound == [id : Nat \ {0}, commit : Commits, tree : Commits]
Report == [id : Nat \ {0}, commit : Commits, tree : Commits, inputs : Commits \cup {0},
           findings : BOOLEAN]

Staged == {"validate", "promote", "backup"}
Renaming == {"rename", "restore", "moveback"}
Promoting == Staged \cup Renaming \cup {"remove"}
Cell == [phase : {"idle"}, report : {None}, backup : {None}]
        \cup [phase : {"tree"}, report : Draft, backup : {None}]
        \cup [phase : {"scan"}, report : Bound, backup : {None}]
        \cup [phase : Staged, report : Report, backup : {None}]
        \cup [phase : {"rename", "restore", "remove"}, report : Report,
              backup : Report \cup {None}]
        \cup [phase : {"moveback"}, report : Report, backup : Report]

(* A report grows while its collector works and is whole once validated.   *)
EvidenceTypes ==
    /\ head \in Commits
    /\ edited \in BOOLEAN
    /\ live \in Report \cup {None}
    /\ newest \in Report \cup {None}
    /\ kept \subseteq Report
    /\ stranded \in BOOLEAN
    /\ left \in [moves : Nat, returns : Nat, collections : Nat, faults : Nat,
                 policies : Nat, builds : Nat]
    /\ col \in [Collectors -> Cell]

(* Under construction, not promoted yet.                                   *)
Working(c) == col[c].phase \notin {"idle", "remove"}

(* i is the evidence_set_id of a report that was promoted, or 0.           *)
Known(i) ==
    \/ i = 0 \/ i = live.id \/ i = newest.id
    \/ \E r \in kept : i = r.id
    \/ \E c \in Collectors : i = col[c].backup.id

(* The evidence_set_id of a report under construction is nobody else's.    *)
FreshInv ==
    /\ \A i \in Nat : Known(i) => i = 0 \/ i > left.collections
    /\ \A c \in Collectors : Working(c) =>
          /\ col[c].report.id > left.collections
          /\ ~Known(col[c].report.id)
          /\ \A d \in Collectors : Working(d) /\ col[d].report.id = col[c].report.id => d = c

(* The backup a collector is about to delete is not the newest evidence.   *)
BackupInv == \A c \in Collectors : col[c].phase = "remove" => col[c].backup.id # newest.id

HoldsEvidence(k) == k.phase \in Renaming /\ k.backup # None

(* While the place of the evidence is empty, a collector has the evidence  *)
(* that was there and is about to fill the place.                          *)
HolderInv ==
    newest # None /\ ~stranded /\ live = None =>
        \E c \in Collectors : HoldsEvidence(col[c])

EvidenceInv ==
    /\ EvidenceTypes
    /\ FreshInv
    /\ BackupInv
    /\ HolderInv
    /\ NewestEvidenceSurvives

(* Steps that leave the evidence alone.                                    *)
EvidenceKept ==
    /\ UNCHANGED evidenceVars
    /\ head' \in Commits
    /\ edited' \in BOOLEAN
    /\ left' \in [moves : Nat, returns : Nat, collections : Nat, faults : Nat,
                  policies : Nat, builds : Nat]
    /\ left'.collections = left.collections

(* A step that is neither a new collection nor a successful promotion      *)
(* makes no report known and begins no deletion.                           *)
Quiet ==
    /\ newest' = newest
    /\ left'.collections = left.collections
    /\ \A i \in Nat : Known(i)' => Known(i)
    /\ \A d \in Collectors : Working(d)' => Working(d) /\ col'[d].report.id = col[d].report.id
    /\ \A d \in Collectors : col'[d].phase = "remove" =>
          col[d].phase = "remove" /\ col'[d].backup = col[d].backup

(* What is spent is a number less than before, and nothing else changes.   *)
LEMMA SpendTypes ==
    ASSUME EvidenceTypes,
           NEW what \in {"moves", "returns", "faults", "policies", "builds", "collections"},
           Spend(what)
    PROVE  /\ left' \in [moves : Nat, returns : Nat, collections : Nat, faults : Nat,
                         policies : Nat, builds : Nat]
           /\ what # "collections" => left'.collections = left.collections
           /\ what # "returns" => left'.returns = left.returns
           /\ what = "collections" =>
                 left.collections > 0 /\ left'.collections = left.collections - 1
           /\ what = "returns" => left'.returns < left.returns
  BY DEF EvidenceTypes, Spend

LEMMA QuietFresh ==
    ASSUME EvidenceTypes, FreshInv, BackupInv, EvidenceTypes', Quiet
    PROVE  FreshInv' /\ BackupInv'
<1>1. \A c \in Collectors : Working(c) => col[c].report.id \in Nat
  BY DEF EvidenceTypes, Working, Cell, Draft, Bound, Report
<1>2. \A c \in Collectors : Working(c)' => col'[c].report.id \in Nat
  BY DEF EvidenceTypes, Working, Cell, Draft, Bound, Report
<1>3. FreshInv'
  BY <1>1, <1>2 DEF Quiet, FreshInv
<1>4. BackupInv'
  BY DEF Quiet, BackupInv
<1>5. QED
  BY <1>3, <1>4

LEMMA KeptEvidence == EvidenceInv /\ EvidenceKept => EvidenceInv'
<1> SUFFICES ASSUME EvidenceInv, EvidenceKept PROVE EvidenceInv'
  OBVIOUS
<1>1. EvidenceTypes'
  BY DEF EvidenceInv, EvidenceTypes, EvidenceKept, evidenceVars
<1>2. Quiet
  BY DEF Quiet, EvidenceKept, evidenceVars, Known, Working
<1>3. FreshInv' /\ BackupInv'
  BY <1>1, <1>2, QuietFresh DEF EvidenceInv
<1>4. HolderInv' /\ NewestEvidenceSurvives'
  BY DEF EvidenceInv, EvidenceKept, evidenceVars, HolderInv, NewestEvidenceSurvives
<1>5. QED
  BY <1>1, <1>3, <1>4 DEF EvidenceInv

(* The steps of one collector that neither begin a collection nor promote  *)
(* it: the reports they move about stay somewhere unless they are not the  *)
(* newest, and the place is left empty only by a collector that fills it.  *)
MovesReports(c, k) ==
    /\ col' = [col EXCEPT ![c] = k]
    /\ UNCHANGED <<head, edited, newest>>
    /\ live' \in {live, None, col[c].backup}
    /\ k.backup \in {None, live, col[c].backup}
    /\ kept' \in {kept, kept \cup ({col[c].backup} \ {None})}
    /\ stranded' \in BOOLEAN
    /\ left' \in [moves : Nat, returns : Nat, collections : Nat, faults : Nat,
                  policies : Nat, builds : Nat]
    /\ left'.collections = left.collections
    /\ k.phase # "remove"
    /\ k.phase # "idle" => Working(c) /\ k.report.id = col[c].report.id

KeepsReports(c, k) ==
    \A r \in {live, col[c].backup} :
       r # None => r.id # newest.id \/ r \in {live', k.backup} \cup kept'

FillsPlace(c, k) ==
    ~stranded' /\ live' = None =>
       HoldsEvidence(k) \/ (live = None /\ ~stranded /\ ~HoldsEvidence(col[c]))

LEMMA MovedReports ==
    ASSUME EvidenceInv, NEW c \in Collectors, NEW k \in Cell,
           MovesReports(c, k), KeepsReports(c, k), FillsPlace(c, k)
    PROVE  EvidenceInv'
<1>1. col[c] \in Cell /\ col' \in [Collectors -> Cell] /\ col'[c] = k
      /\ \A d \in Collectors : d # c => col'[d] = col[d]
  BY DEF EvidenceInv, EvidenceTypes, MovesReports
<1>2. col[c].backup \in Report \cup {None}
  BY <1>1 DEF Cell
<1>3. EvidenceTypes'
  BY <1>1, <1>2 DEF EvidenceInv, EvidenceTypes, MovesReports
<1>4. Quiet
  <2>1. \A i \in Nat : Known(i)' => Known(i)
    <3> SUFFICES ASSUME NEW i \in Nat, Known(i)' PROVE Known(i)
      OBVIOUS
    <3>1. None.id = 0
      BY DEF None
    <3>2. CASE i = live'.id
      BY <1>1, <3>1, <3>2 DEF MovesReports, Known
    <3>3. CASE i = newest'.id
      BY <3>3 DEF MovesReports, Known
    <3>4. CASE \E r \in kept' : i = r.id
      BY <3>4 DEF MovesReports, Known
    <3>5. CASE \E d \in Collectors : i = col'[d].backup.id
      BY <1>1, <3>1, <3>5 DEF MovesReports, Known
    <3>6. QED
      BY <3>1, <3>2, <3>3, <3>4, <3>5 DEF Known
  <2>2. \A d \in Collectors : Working(d)' => Working(d) /\ col'[d].report.id = col[d].report.id
    BY <1>1 DEF MovesReports, Working
  <2>3. \A d \in Collectors : col'[d].phase = "remove" =>
          col[d].phase = "remove" /\ col'[d].backup = col[d].backup
    BY <1>1 DEF MovesReports
  <2>4. QED
    BY <2>1, <2>2, <2>3 DEF Quiet, MovesReports
<1>5. FreshInv' /\ BackupInv'
  BY <1>3, <1>4, QuietFresh DEF EvidenceInv
<1>6. HolderInv'
  <2> SUFFICES ASSUME newest' # None, ~stranded', live' = None
               PROVE  \E d \in Collectors : HoldsEvidence(col'[d])
    BY DEF HolderInv
  <2>1. CASE HoldsEvidence(k)
    BY <1>1, <2>1
  <2>2. CASE live = None /\ ~stranded /\ ~HoldsEvidence(col[c])
    <3>1. PICK d \in Collectors : HoldsEvidence(col[d])
      BY <2>2 DEF EvidenceInv, HolderInv, MovesReports
    <3>2. d # c
      BY <2>2, <3>1
    <3>3. QED
      BY <1>1, <3>1, <3>2
  <2>3. QED
    BY <2>1, <2>2 DEF FillsPlace
<1>7. NewestEvidenceSurvives'
  <2> SUFFICES ASSUME newest # None
               PROVE  newest \in {live'} \cup kept' \cup {col'[d].backup : d \in Collectors}
    BY DEF NewestEvidenceSurvives, MovesReports
  <2>1. newest \in {live} \cup kept \cup {col[d].backup : d \in Collectors}
    BY DEF EvidenceInv, NewestEvidenceSurvives
  <2>2. CASE newest \in {live, col[c].backup}
    BY <1>1, <2>2 DEF KeepsReports
  <2>3. CASE newest \in kept
    BY <2>3 DEF MovesReports
  <2>4. CASE \E d \in Collectors : d # c /\ newest = col[d].backup
    BY <1>1, <2>4
  <2>5. QED
    BY <2>1, <2>2, <2>3, <2>4
<1>8. QED
  BY <1>3, <1>5, <1>6, <1>7 DEF EvidenceInv

(* A collector that gives up leaves its backup where it is.                *)
LEMMA Abandoned ==
    ASSUME EvidenceInv, NEW c \in Collectors, Abandon(c),
           UNCHANGED <<head, edited, live, newest>>,
           stranded' \in {stranded, TRUE},
           left' \in [moves : Nat, returns : Nat, collections : Nat, faults : Nat,
                      policies : Nat, builds : Nat],
           left'.collections = left.collections,
           ~stranded' /\ live = None => ~HoldsEvidence(col[c])
    PROVE  EvidenceInv'
<1>1. Idle \in Cell /\ Idle.phase = "idle" /\ Idle.backup = None
  BY DEF Idle, Cell
<1>4. stranded \in BOOLEAN
  BY DEF EvidenceInv, EvidenceTypes
<1>2. MovesReports(c, Idle)
  BY <1>1, <1>4 DEF Abandon, MovesReports
<1>3. KeepsReports(c, Idle)
  BY <1>1 DEF Abandon, KeepsReports
<1>5. FillsPlace(c, Idle)
  BY <1>4 DEF FillsPlace
<1>6. QED
  BY <1>1, <1>2, <1>3, <1>5, MovedReports

(* What a collector's cell is in each phase.                               *)
LEMMA CellTypes ==
    ASSUME EvidenceInv, NEW c \in Collectors
    PROVE  /\ col[c] \in [phase : {col[c].phase}, report : {col[c].report},
                          backup : {col[c].backup}]
           /\ At(c, "tree") => col[c].report \in Draft /\ col[c].backup = None
           /\ At(c, "scan") => col[c].report \in Bound /\ col[c].backup = None
           /\ col[c].phase \in Staged => col[c].backup = None
           /\ col[c].phase \in Promoting =>
                 col[c].report \in Report /\ col[c].backup \in Report \cup {None}
           /\ At(c, "moveback") => col[c].backup # None
           /\ col[c].phase \in Promoting \cup {"idle", "tree", "scan"}
<1>0. None \notin Report
  BY DEF None, Report
<1>1. col[c] \in Cell
  BY DEF EvidenceInv, EvidenceTypes
<1>2. QED
  BY <1>0, <1>1 DEF Cell, At, Promoting, Staged, Renaming

(* Steps that only advance a collector, towards a promotion.               *)
LEMMA Advanced ==
    ASSUME EvidenceInv, NEW c \in Collectors, NEW ph \in Staged \cup Renaming, Go(c, ph),
           col[c].phase \in Staged \/ (col[c].phase \in Renaming /\ ph \in Renaming),
           ph = "moveback" => col[c].backup # None,
           UNCHANGED <<head, edited, live, newest, kept, stranded>>,
           left' \in [moves : Nat, returns : Nat, collections : Nat, faults : Nat,
                      policies : Nat, builds : Nat],
           left'.collections = left.collections
    PROVE  EvidenceInv'
<1> DEFINE k == [col[c] EXCEPT !.phase = ph]
<1>0. col' = [col EXCEPT ![c] = k]
  BY DEF Go
<1>a. k \in [phase : {ph}, report : {col[c].report}, backup : {col[c].backup}]
  BY CellTypes
<1> HIDE DEF k
<1>1. k \in Cell /\ k.phase = ph /\ k.report = col[c].report /\ k.backup = col[c].backup
  BY <1>a, CellTypes DEF Cell, Promoting, Staged, Renaming
<1>4. stranded \in BOOLEAN
  BY DEF EvidenceInv, EvidenceTypes
<1>2. MovesReports(c, k)
  BY <1>0, <1>1, <1>4 DEF MovesReports, Working, Staged, Renaming
<1>3. KeepsReports(c, k)
  BY <1>1 DEF KeepsReports
<1>5. FillsPlace(c, k)
  BY <1>1, <1>4, CellTypes DEF FillsPlace, HoldsEvidence, Staged, Renaming
<1>6. QED
  BY <1>1, <1>2, <1>3, <1>5, MovedReports

LEMMA LeftTypes ==
    ASSUME EvidenceInv, left' = left
    PROVE  /\ left' \in [moves : Nat, returns : Nat, collections : Nat, faults : Nat,
                         policies : Nat, builds : Nat]
           /\ left'.collections = left.collections
           /\ stranded \in BOOLEAN
  BY DEF EvidenceInv, EvidenceTypes

LEMMA ReadTreeKeeps ==
    ASSUME EvidenceInv, NEW c \in Collectors, ReadTree(c) PROVE EvidenceInv'
<1>1. col[c].report \in Draft /\ col[c].backup = None /\ col[c].phase = "tree"
  BY CellTypes DEF ReadTree, At
<1>2. CASE edited
  BY <1>1, <1>2, Abandoned, LeftTypes DEF ReadTree, HoldsEvidence
<1>3. CASE ~edited
  <2> DEFINE r == [id |-> col[c].report.id, commit |-> col[c].report.commit, tree |-> head]
             k == [phase |-> "scan", report |-> r, backup |-> None]
  <2>1. r \in Bound
    BY <1>1 DEF Draft, Bound, EvidenceInv, EvidenceTypes
  <2>2. k \in Cell
    BY <2>1 DEF Cell
  <2>3. col' = [col EXCEPT ![c] = k]
    BY <1>1, <1>3, CellTypes DEF ReadTree
  <2>4. MovesReports(c, k)
    BY <1>1, <1>3, <2>3, LeftTypes DEF ReadTree, MovesReports, Working
  <2>5. KeepsReports(c, k)
    BY <1>1, <1>3 DEF ReadTree, KeepsReports
  <2>6. FillsPlace(c, k)
    BY <1>1 DEF ReadTree, FillsPlace, HoldsEvidence
  <2>7. QED
    BY <2>2, <2>4, <2>5, <2>6, MovedReports
<1>4. QED
  BY <1>2, <1>3

LEMMA CollectIntoKeeps ==
    ASSUME EvidenceInv, NEW c \in Collectors, CollectInto(c) PROVE EvidenceInv'
<1>1. col[c].report \in Bound /\ col[c].backup = None /\ col[c].phase = "scan"
  BY CellTypes DEF CollectInto, At
<1>2. PICK f \in BOOLEAN :
        col' = [col EXCEPT ![c].phase = "validate",
                  ![c].report = [id |-> @.id, commit |-> @.commit, tree |-> @.tree,
                                 inputs |-> WorkTree, findings |-> f]]
  BY DEF CollectInto
<1> DEFINE r == [id |-> col[c].report.id, commit |-> col[c].report.commit,
                 tree |-> col[c].report.tree, inputs |-> WorkTree, findings |-> f]
           k == [col[c] EXCEPT !.phase = "validate", !.report = r]
<1>3. WorkTree \in Commits \cup {0}
  BY DEF WorkTree, EvidenceInv, EvidenceTypes
<1>4. r \in Report
  BY <1>1, <1>3 DEF Bound, Report
<1>6. col' = [col EXCEPT ![c] = k]
  BY <1>2
<1>a. k \in [phase : {"validate"}, report : {r}, backup : {None}] /\ r.id = col[c].report.id
  BY <1>1, CellTypes
<1> HIDE DEF k, r
<1>5. k \in Cell
  BY <1>4, <1>a DEF Cell, Staged
<1>7. MovesReports(c, k)
  BY <1>1, <1>a, <1>6, LeftTypes DEF CollectInto, MovesReports, Working
<1>8. KeepsReports(c, k)
  BY <1>1, <1>a DEF CollectInto, KeepsReports
<1>9. FillsPlace(c, k)
  BY <1>1, <1>a DEF CollectInto, FillsPlace, HoldsEvidence
<1>10. QED
  BY <1>5, <1>7, <1>8, <1>9, MovedReports

LEMMA BackUpKeeps ==
    ASSUME EvidenceInv, NEW c \in Collectors, BackUp(c) PROVE EvidenceInv'
<1>1. col[c].report \in Report /\ col[c].phase = "backup" /\ col[c].backup = None
  BY CellTypes DEF BackUp, At, Promoting, Staged
<1>2. CASE live = None
  BY <1>1, <1>2, Abandoned, LeftTypes DEF BackUp, HoldsEvidence
<1>3. CASE live # None
  <2> DEFINE k == [col[c] EXCEPT !.phase = "rename", !.backup = live]
  <2>1. col' = [col EXCEPT ![c] = k]
    BY <1>3 DEF BackUp
  <2>2. k \in [phase : {"rename"}, report : {col[c].report}, backup : {live}]
    BY CellTypes
  <2> HIDE DEF k
  <2>3. k \in Cell
    BY <1>1, <2>2 DEF Cell, Renaming, EvidenceInv, EvidenceTypes
  <2>4. MovesReports(c, k)
    BY <1>1, <1>3, <2>1, <2>2, LeftTypes DEF BackUp, MovesReports, Working
  <2>5. FillsPlace(c, k)
    BY <1>3, <2>2 DEF FillsPlace, HoldsEvidence, Renaming
  <2>6. KeepsReports(c, k)
    BY <1>1, <2>2 DEF KeepsReports
  <2>7. QED
    BY <2>3, <2>4, <2>5, <2>6, MovedReports
<1>4. QED
  BY <1>2, <1>3

(* A promotion that found the place taken keeps its backup; one that finds *)
(* it empty puts the backup there.                                         *)
LEMMA MoveBackKeeps ==
    ASSUME EvidenceInv, NEW c \in Collectors, MoveBack(c) PROVE EvidenceInv'
<1>1. CASE live # None
  BY <1>1, Abandoned, LeftTypes DEF MoveBack
<1>2. CASE live = None
  <2>1. Idle \in Cell /\ Idle.phase = "idle" /\ Idle.backup = None
    BY DEF Idle, Cell
  <2>2. MovesReports(c, Idle)
    BY <1>2, <2>1, LeftTypes DEF MoveBack, MovesReports
  <2>3. KeepsReports(c, Idle)
    BY <1>2 DEF MoveBack, KeepsReports
  <2>4. live' # None
    BY <1>2, CellTypes DEF MoveBack
  <2>5. FillsPlace(c, Idle)
    BY <2>4 DEF FillsPlace
  <2>6. QED
    BY <2>1, <2>2, <2>3, <2>5, MovedReports
<1>3. QED
  BY <1>1, <1>2

(* The backup that goes is not the newest evidence.                        *)
LEMMA DeletesOldBackup ==
    ASSUME EvidenceInv, NEW c \in Collectors, At(c, "remove"),
           col' = [col EXCEPT ![c] = Idle],
           UNCHANGED <<head, edited, live, kept, newest>>,
           stranded' \in {stranded, TRUE},
           left' \in [moves : Nat, returns : Nat, collections : Nat, faults : Nat,
                      policies : Nat, builds : Nat],
           left'.collections = left.collections
    PROVE  EvidenceInv'
<1>1. Idle \in Cell /\ Idle.phase = "idle" /\ Idle.backup = None
  BY DEF Idle, Cell
<1>4. stranded \in BOOLEAN
  BY DEF EvidenceInv, EvidenceTypes
<1>2. MovesReports(c, Idle)
  BY <1>1, <1>4 DEF MovesReports
<1>3. KeepsReports(c, Idle)
  BY DEF KeepsReports, EvidenceInv, BackupInv, At
<1>5. FillsPlace(c, Idle)
  BY <1>4 DEF FillsPlace, HoldsEvidence, At, Renaming
<1>6. QED
  BY <1>1, <1>2, <1>3, <1>5, MovedReports

(* A new report has an evidence_set_id that no report has yet.             *)
LEMMA ReadRevisionKeeps ==
    ASSUME EvidenceInv, NEW c \in Collectors, ReadRevision(c) PROVE EvidenceInv'
<1> DEFINE r == [id |-> left.collections, commit |-> head]
           k == [phase |-> "tree", backup |-> None, report |-> r]
<1>1. /\ left' \in [moves : Nat, returns : Nat, collections : Nat, faults : Nat,
                    policies : Nat, builds : Nat]
      /\ left.collections \in Nat \ {0}
      /\ left'.collections = left.collections - 1
  BY SpendTypes DEF ReadRevision, EvidenceInv, EvidenceTypes
<1>2. r \in Draft /\ r.id = left.collections
  BY <1>1 DEF Draft, EvidenceInv, EvidenceTypes
<1> HIDE DEF r
<1>3. k \in Cell /\ k.phase = "tree" /\ k.report = r /\ k.backup = None
  BY <1>2 DEF Cell
<1>4. /\ col' = [col EXCEPT ![c] = k]
      /\ UNCHANGED <<head, edited, live, kept, newest, stranded>>
      /\ col[c].phase = "idle"
  BY DEF ReadRevision, At, r
<1> HIDE DEF k
<1>5. /\ col[c] \in Cell /\ col' \in [Collectors -> Cell] /\ col'[c] = k
      /\ \A d \in Collectors : d # c => col'[d] = col[d]
  BY <1>3, <1>4 DEF EvidenceInv, EvidenceTypes
<1>6. EvidenceTypes'
  BY <1>1, <1>4, <1>5 DEF EvidenceInv, EvidenceTypes
<1>7. col[c].backup = None
  BY <1>4, <1>5 DEF Cell, Staged, Renaming
<1>8. \A i \in Nat : Known(i)' <=> Known(i)
  BY <1>3, <1>4, <1>5, <1>7 DEF Known
<1>9. \A d \in Collectors : d # c =>
        (Working(d)' <=> Working(d)) /\ (Working(d) => col[d].report.id \in Nat)
  BY <1>5 DEF Working, EvidenceInv, EvidenceTypes, Cell, Draft, Bound, Report
<1>10. FreshInv'
  <2>1. \A i \in Nat : Known(i)' => i = 0 \/ i > left'.collections
    BY <1>1, <1>8 DEF EvidenceInv, FreshInv
  <2>2. ASSUME NEW d \in Collectors, Working(d)'
        PROVE  /\ col'[d].report.id > left'.collections
               /\ ~Known(col[d].report.id)'
               /\ \A e \in Collectors : Working(e)' /\ col'[e].report.id = col'[d].report.id => e = d
    <3>1. CASE d = c
      <4>1. col'[d].report.id = left.collections
        BY <1>2, <1>3, <1>5, <3>1
      <4>2. ~Known(left.collections)
        BY <1>1 DEF EvidenceInv, FreshInv
      <4>3. \A e \in Collectors : e # c /\ Working(e)' => col'[e].report.id > left.collections
        BY <1>5, <1>9 DEF EvidenceInv, FreshInv
      <4>4. QED
        BY <1>1, <1>8, <3>1, <4>1, <4>2, <4>3
    <3>2. CASE d # c
      <4>1. col'[d] = col[d] /\ Working(d) /\ col[d].report.id \in Nat
        BY <1>5, <1>9, <2>2, <3>2
      <4>2. col[d].report.id > left.collections /\ ~Known(col[d].report.id)
        BY <4>1 DEF EvidenceInv, FreshInv
      <4>3. \A e \in Collectors : e # c /\ Working(e)' /\ col'[e].report.id = col'[d].report.id => e = d
        BY <1>5, <1>9, <4>1 DEF EvidenceInv, FreshInv
      <4>4. col'[c].report.id = left.collections
        BY <1>2, <1>3, <1>5
      <4>5. QED
        BY <1>1, <1>8, <4>1, <4>2, <4>3, <4>4
    <3>3. QED
      BY <3>1, <3>2
  <2>3. QED
    BY <2>1, <2>2 DEF FreshInv
<1>11. BackupInv'
  BY <1>3, <1>4, <1>5 DEF EvidenceInv, BackupInv
<1>12. HolderInv'
  BY <1>4, <1>5 DEF EvidenceInv, HolderInv, HoldsEvidence, Renaming
<1>13. NewestEvidenceSurvives'
  BY <1>3, <1>4, <1>5, <1>7 DEF EvidenceInv, NewestEvidenceSurvives
<1>14. QED
  BY <1>6, <1>10, <1>11, <1>12, <1>13 DEF EvidenceInv

(* A promotion makes a report the newest that no backup holds.             *)
LEMMA Promoted ==
    ASSUME EvidenceInv, NEW c \in Collectors, Rename(c), live = None PROVE EvidenceInv'
<1> DEFINE k == [col[c] EXCEPT !.phase = "remove"]
<1>1. /\ col' = [col EXCEPT ![c] = k]
      /\ live' = col[c].report /\ newest' = col[c].report
      /\ UNCHANGED <<head, edited, kept, left>> /\ stranded' = FALSE
      /\ col[c].phase = "rename"
  BY DEF Rename, Go, At
<1>2. k \in [phase : {"remove"}, report : {col[c].report}, backup : {col[c].backup}]
  BY CellTypes
<1> HIDE DEF k
<1>3. col[c].report \in Report /\ col[c].backup \in Report \cup {None}
  BY <1>1, CellTypes DEF Promoting, Renaming
<1>4. k \in Cell
  BY <1>2, <1>3 DEF Cell
<1>5. /\ col' \in [Collectors -> Cell] /\ col'[c] = k
      /\ \A d \in Collectors : d # c => col'[d] = col[d]
  BY <1>1, <1>4 DEF EvidenceInv, EvidenceTypes
<1>6. EvidenceTypes'
  BY <1>1, <1>3, <1>5, LeftTypes DEF EvidenceInv, EvidenceTypes
<1>7. /\ col[c].report.id \in Nat \ {0} /\ Working(c)
      /\ \A d \in Collectors : Working(d) => col[d].report.id \in Nat
  BY <1>1, <1>3 DEF Working, Report, EvidenceInv, EvidenceTypes, Cell, Draft, Bound
<1>8. ~Known(col[c].report.id) /\ col[c].report.id > left.collections
  BY <1>7 DEF EvidenceInv, FreshInv
<1>9. \A d \in Collectors : col'[d].backup = col[d].backup
  BY <1>2, <1>5
<1>10. \A i \in Nat : Known(i)' => Known(i) \/ i = col[c].report.id
  BY <1>1, <1>9 DEF Known
<1>11. FreshInv'
  <2>1. \A i \in Nat : Known(i)' => i = 0 \/ i > left'.collections
    BY <1>1, <1>8, <1>10 DEF EvidenceInv, FreshInv
  <2>2. ASSUME NEW d \in Collectors, Working(d)'
        PROVE  /\ col'[d].report.id > left'.collections
               /\ ~Known(col[d].report.id)'
               /\ \A e \in Collectors : Working(e)' /\ col'[e].report.id = col'[d].report.id => e = d
    <3>1. ~Working(c)' /\ \A e \in Collectors : e # c => (Working(e)' <=> Working(e))
      BY <1>2, <1>5 DEF Working
    <3>2. d # c /\ col'[d] = col[d] /\ Working(d)
      BY <1>5, <2>2, <3>1
    <3>3. col[d].report.id # col[c].report.id
      BY <1>7, <3>2 DEF EvidenceInv, FreshInv
    <3>4. col[d].report.id > left.collections /\ ~Known(col[d].report.id)
      BY <3>2 DEF EvidenceInv, FreshInv
    <3>5. \A e \in Collectors : Working(e)' /\ col'[e].report.id = col'[d].report.id => e = d
      BY <1>5, <3>1, <3>2 DEF EvidenceInv, FreshInv
    <3>6. QED
      BY <1>1, <1>7, <1>10, <3>2, <3>3, <3>4, <3>5
  <2>3. QED
    BY <2>1, <2>2 DEF FreshInv
<1>12. BackupInv'
  <2>1. \A d \in Collectors : Known(col[d].backup.id)
    BY DEF Known
  <2>2. QED
    BY <1>1, <1>8, <1>9, <2>1 DEF BackupInv
<1>13. HolderInv'
  BY <1>1, <1>7 DEF HolderInv, None
<1>14. NewestEvidenceSurvives'
  BY <1>1 DEF NewestEvidenceSurvives
<1>15. QED
  BY <1>6, <1>11, <1>12, <1>13, <1>14 DEF EvidenceInv

(* Every step of a collector.                                              *)
LEMMA CollectKeeps ==
    ASSUME EvidenceInv, NEW c \in Collectors, Collect(c) PROVE EvidenceInv'
<1>1. CASE ReadRevision(c)
  BY <1>1, ReadRevisionKeeps
<1>2. CASE ReadTree(c)
  BY <1>2, ReadTreeKeeps
<1>3. CASE CollectInto(c)
  BY <1>3, CollectIntoKeeps
<1>4. CASE SelfValidate(c)
  BY <1>4, Advanced, LeftTypes DEF SelfValidate, At, Staged, Renaming
<1>5. CASE CollectFails(c)
  BY <1>5, Abandoned, LeftTypes DEF CollectFails, At, HoldsEvidence, Renaming
<1>6. CASE LookForLive(c)
  BY <1>6, Advanced, LeftTypes DEF LookForLive, At, Staged, Renaming
<1>7. CASE BackUp(c)
  BY <1>7, BackUpKeeps
<1>8. CASE Rename(c)
  <2>1. CASE live # None
    BY <1>8, <2>1, Advanced, LeftTypes DEF Rename, At, Staged, Renaming
  <2>2. QED
    BY <1>8, <2>1, Promoted
<1>9. CASE RenameFails(c)
  <2>1. /\ left' \in [moves : Nat, returns : Nat, collections : Nat, faults : Nat,
                      policies : Nat, builds : Nat]
        /\ left'.collections = left.collections
    BY <1>9, SpendTypes DEF RenameFails, EvidenceInv
  <2>2. QED
    BY <1>9, <2>1, Advanced DEF RenameFails, At, Staged, Renaming
<1>10. CASE LookAgain(c)
  <2>1. CASE col[c].backup # None /\ live = None
    BY <1>10, <2>1, Advanced, LeftTypes DEF LookAgain, At, Staged, Renaming
  <2>2. CASE ~(col[c].backup # None /\ live = None)
    BY <1>10, <2>2, Abandoned, LeftTypes DEF LookAgain, HoldsEvidence
  <2>3. QED
    BY <2>1, <2>2
<1>11. CASE MoveBack(c)
  BY <1>11, MoveBackKeeps
<1>12. CASE RemoveBackup(c)
  BY <1>12, DeletesOldBackup, LeftTypes DEF RemoveBackup
<1>13. CASE CollectorDies(c)
  <2>1. /\ left' \in [moves : Nat, returns : Nat, collections : Nat, faults : Nat,
                      policies : Nat, builds : Nat]
        /\ left'.collections = left.collections
    BY <1>13, SpendTypes DEF CollectorDies, EvidenceInv
  <2>2. CASE At(c, "remove")
    BY <1>13, <2>1, <2>2, DeletesOldBackup DEF CollectorDies
  <2>3. CASE ~At(c, "remove")
    <3>1. stranded' \in {stranded, TRUE} /\ UNCHANGED <<head, edited, live, newest>> /\ Abandon(c)
      BY <1>13, <2>3 DEF CollectorDies
    <3>2. BetweenRenames(c) /\ live = None => stranded'
      BY <1>13 DEF CollectorDies
    <3>3. QED
      BY <2>1, <3>1, <3>2, Abandoned DEF BetweenRenames, HoldsEvidence, Renaming
  <2>4. QED
    BY <2>2, <2>3
<1>14. CASE MoveBackFails(c)
  <2>1. /\ left' \in [moves : Nat, returns : Nat, collections : Nat, faults : Nat,
                      policies : Nat, builds : Nat]
        /\ left'.collections = left.collections
    BY <1>14, SpendTypes DEF MoveBackFails, EvidenceInv
  <2>2. QED
    BY <1>14, <2>1, Abandoned DEF MoveBackFails
<1>15. QED
  BY <1>1, <1>2, <1>3, <1>4, <1>5, <1>6, <1>7, <1>8, <1>9, <1>10, <1>11, <1>12, <1>13, <1>14
     DEF Collect

(* The checkout, the policy and the builds read the evidence at most.      *)
LEMMA OthersKeepEvidence ==
    ASSUME EvidenceInv,
           Commit \/ Edit \/ Checkout \/ WritePolicy \/ \E b \in Builders : Build(b)
    PROVE  EvidenceKept
<1> USE DEF EvidenceInv
<1>1. head \in Commits /\ edited \in BOOLEAN
  BY DEF EvidenceTypes
<1>2. CASE Commit
  BY <1>1, <1>2, SpendTypes DEF Commit, EvidenceKept
<1>3. CASE Edit
  BY <1>1, <1>3, SpendTypes DEF Edit, EvidenceKept, evidenceVars
<1>4. CASE Checkout
  BY <1>1, <1>4, SpendTypes DEF Checkout, EvidenceKept
<1>5. CASE WritePolicy
  BY <1>1, <1>5, SpendTypes DEF WritePolicy, EvidenceKept
<1>6. ASSUME NEW b \in Builders, Build(b) PROVE EvidenceKept
  <2>1. CASE Untouched
    BY <1>1, <2>1, LeftTypes DEF Untouched, EvidenceKept
  <2>2. CASE Start(b)
    BY <1>1, <2>2, SpendTypes DEF Start, EvidenceKept
  <2>3. CASE PublishFile(b)
    BY <1>1, <2>3, LeftTypes DEF PublishFile, EvidenceKept
  <2>4. CASE PublishFails(b)
    BY <1>1, <2>4, SpendTypes DEF PublishFails, EvidenceKept
  <2>5. CASE BuildFails(b)
    BY <1>1, <2>5, SpendTypes DEF BuildFails, EvidenceKept
  <2>6. Untouched \/ Start(b) \/ PublishFile(b) \/ PublishFails(b) \/ BuildFails(b)
    BY <1>6 DEF Build, BindStatus, Rebind, Restatus, FinalStatus, ReadInputs, ReadReport,
                Observe, Match, ValidateCommon, Rematch, Reread, OpenOutput, Snapshot,
                AfterBuild, AssertEmpty, VerifyOutput
  <2>7. QED
    BY <2>1, <2>2, <2>3, <2>4, <2>5, <2>6
<1>7. QED
  BY <1>2, <1>3, <1>4, <1>5, <1>6

LEMMA EvidenceInitially == Init => EvidenceInv
<1> SUFFICES ASSUME Init PROVE EvidenceInv
  OBVIOUS
<1> USE DEF Init, EvidenceInit
<1>1. EvidenceTypes
  BY CommitsAssumption, BudgetsAssumption DEF EvidenceTypes, Cell, Idle
<1>2. \A c \in Collectors : col[c].phase = "idle" /\ col[c].backup = None
  BY DEF Idle
<1>3. None.id = 0
  BY DEF None
<1>4. FreshInv
  BY <1>2, <1>3 DEF FreshInv, Known, Working
<1>5. BackupInv /\ HolderInv /\ NewestEvidenceSurvives
  BY <1>2 DEF BackupInv, HolderInv, NewestEvidenceSurvives
<1>6. QED
  BY <1>1, <1>4, <1>5 DEF EvidenceInv

LEMMA EvidenceStep == EvidenceInv /\ [Next]_vars => EvidenceInv'
<1> SUFFICES ASSUME EvidenceInv, [Next]_vars PROVE EvidenceInv'
  OBVIOUS
<1>1. ASSUME NEW c \in Collectors, Collect(c) PROVE EvidenceInv'
  BY <1>1, CollectKeeps
<1>2. CASE Commit \/ Edit \/ Checkout \/ WritePolicy \/ \E b \in Builders : Build(b)
  BY <1>2, OthersKeepEvidence, KeptEvidence
<1>3. CASE UNCHANGED vars
  <2>1. EvidenceKept
    BY <1>3, LeftTypes DEF vars, EvidenceKept, EvidenceInv, EvidenceTypes
  <2>2. QED
    BY <2>1, KeptEvidence
<1>4. QED
  BY <1>1, <1>2, <1>3 DEF Next, EvidenceNext

(* The evidence promoted last still exists, whole: it is live or a backup, *)
(* however many collectors race through _promote_directory, and whichever  *)
(* renames fail and processes die.                                         *)
THEOREM NewestEvidenceAlwaysSurvives == Spec => []NewestEvidenceSurvives
<1>1. EvidenceInv => NewestEvidenceSurvives
  BY DEF EvidenceInv
<1>2. QED
  BY <1>1, EvidenceInitially, EvidenceStep, PTL DEF Spec

(* Once no promotion is between its renames the evidence directory is      *)
(* there, whichever renames failed, unless a collector died between its    *)
(* renames or failed to move its backup back since the last promotion.     *)
THEOREM EvidenceIsAlwaysBackAtRest == Spec => []EvidenceIsBackAtRest
<1>1. EvidenceInv => EvidenceIsBackAtRest
  BY DEF EvidenceInv, HolderInv, HoldsEvidence, EvidenceIsBackAtRest, BetweenRenames, Renaming
<1>2. QED
  BY <1>1, EvidenceInitially, EvidenceStep, PTL DEF Spec

-----------------------------------------------------------------------------
(* Part 2: the release build.                                              *)

Publishing == {"wheel", "sdist", "manifest", "verify"}
Built == {"built", "finalbind", "finalstatus", "assert"} \cup Publishing
Admitted == {"open", "snapshot"} \cup Built
Eligibles == {"reread", "rebind", "restatus"}
Measured == {"reobserve", "rematch"}
Matched == {"common"} \cup Measured \cup Eligibles
Phases == {"status", "inputs", "validator", "observe", "match"} \cup Matched \cup Admitted

Job == [phase : Phases, pinned : Report \cup {None}, returns : Nat, commit : Commits,
        clean : BOOLEAN, seen : Commits \cup {0}, evidence : Report \cup {None},
        report : Report \cup {None}, before : Commits \cup {0}, snapshot : Commits \cup {0}]
Ended == [phase : {"idle", "failed", "done"}]

Entry == [by : Builders, whole : BOOLEAN, exact : BOOLEAN, commit : Commits,
          snapshot : Commits \cup {0}, attested : Report \cup {None}, steady : BOOLEAN]

BuildTypes ==
    /\ policy \in Report \cup {None}
    /\ bld \in [Builders -> Job \cup Ended]
    /\ \A n \in DOMAIN output : output[n] \in Entry

(* The archive of a kind, of the sources s, written whole by builder b.    *)
Wrote(b, kind, s) ==
    /\ <<kind, Version[s]>> \in DOMAIN output
    /\ output[<<kind, Version[s]>>].by = b
    /\ output[<<kind, Version[s]>>].whole
    /\ output[<<kind, Version[s]>>].snapshot = s

(* What a release knows after each check if the checkout only moved on:    *)
(* the commits it read follow each other, so that the last equality of the *)
(* chain, post_preflight_binding = initial binding, makes them all one.    *)
Progress(k) ==
    /\ k.commit <= head
    /\ k.phase \in {"observe", "match"} \cup Matched \cup Admitted => k.report \in Report
    /\ k.phase = "match" => k.commit <= k.seen /\ k.seen <= head
    /\ k.phase \in Matched =>
          /\ k.report.commit = k.before
          /\ k.commit <= k.before /\ k.before <= k.report.tree /\ k.report.tree <= head
    /\ k.phase \in Measured =>
          IF k.report.inputs = 0 THEN edited \/ head > k.report.tree
          ELSE k.report.tree <= k.report.inputs /\ k.report.inputs <= head
    /\ k.phase \in Eligibles => k.report.inputs = k.report.tree /\ ~k.report.findings
    /\ k.phase = "restatus" => k.report.tree <= k.seen
    /\ k.phase \in Admitted =>
          /\ k.clean
          /\ k.report.commit = k.commit /\ k.report.tree = k.commit /\ k.report.inputs = k.commit
          /\ ~k.report.findings

JobInv(b, k) ==
    k.phase \in Phases =>
       /\ left.returns <= k.returns
       /\ k.phase \in Built /\ k.clean => k.snapshot = k.commit
       /\ k.phase \in {"sdist", "manifest", "verify"} => Wrote(b, "wheel", k.snapshot)
       /\ k.phase \in {"manifest", "verify"} => Wrote(b, "sdist", k.snapshot)
       /\ b \in Releasing /\ k.returns = left.returns => Progress(k)

(* What stands in the output directory.                                    *)
OutputInv ==
    \A n \in DOMAIN output : LET e == output[n] IN
       /\ e.exact => e.snapshot = e.commit
       /\ e.by \in Releasing /\ e.steady => Attested(e)
       /\ n = <<"manifest">> /\ e.whole =>
             Wrote(e.by, "wheel", e.snapshot) /\ Wrote(e.by, "sdist", e.snapshot)

BuildInv ==
    /\ BuildTypes
    /\ \A b \in Builders : JobInv(b, bld[b])
    /\ OutputInv

(* The checkout goes back only at the expense of a return.                 *)
MovesOn ==
    \/ left'.returns < left.returns
    \/ /\ left'.returns = left.returns
       /\ head <= head'
       /\ head' = head /\ edited => edited'

LEMMA CommitsAreNumbers == \A n \in Commits \cup {0} : n \in Nat
  BY CommitsAssumption

LEMMA ReportTypes ==
    \A r \in Report : /\ r # None
                     /\ r.commit \in Nat /\ r.tree \in Nat /\ r.inputs \in Nat
                     /\ r.findings \in BOOLEAN
  BY CommitsAreNumbers DEF Report, None

LEMMA JobTypes ==
    \A k \in Job : k.commit \in Nat /\ k.seen \in Nat /\ k.before \in Nat /\ k.returns \in Nat
  BY CommitsAreNumbers DEF Job

(* What a release knew stays true while the checkout moves on.             *)
LEMMA ProgressStays ==
    ASSUME EvidenceTypes, EvidenceTypes', MovesOn, NEW k \in Job, k.phase \in Phases,
           Progress(k), left'.returns = left.returns
    PROVE  Progress(k)'
<1>1. head \in Nat /\ head' \in Nat /\ head <= head' /\ (head' = head /\ edited => edited')
  BY CommitsAssumption DEF EvidenceTypes, MovesOn
<1>2. k.commit \in Nat /\ k.seen \in Nat /\ k.before \in Nat
  BY JobTypes
<1>3. k.report \in Report => k.report.tree \in Nat /\ k.report.inputs \in Nat
  BY ReportTypes
<1>4. k.phase \in Matched \cup Measured => k.report \in Report
  BY DEF Progress, Matched
<1>5. k.phase \in Measured =>
          (IF k.report.inputs = 0 THEN edited \/ head > k.report.tree
           ELSE k.report.tree <= k.report.inputs /\ k.report.inputs <= head)'
  BY <1>1, <1>3, <1>4 DEF Progress, Matched
<1>6. QED
  BY <1>1, <1>2, <1>3, <1>4, <1>5 DEF Progress

LEMMA WroteStays ==
    ASSUME \A n \in DOMAIN output : n \in DOMAIN output' /\ output'[n] = output[n],
           NEW b, NEW kind, NEW s, Wrote(b, kind, s)
    PROVE  Wrote(b, kind, s)'
  BY DEF Wrote

LEMMA JobStays ==
    ASSUME EvidenceTypes, EvidenceTypes', MovesOn, NEW b \in Builders, NEW k \in Job \cup Ended,
           \A n \in DOMAIN output : n \in DOMAIN output' /\ output'[n] = output[n],
           JobInv(b, k)
    PROVE  JobInv(b, k)'
<1> SUFFICES ASSUME k.phase \in Phases PROVE JobInv(b, k)'
  BY DEF JobInv
<1>1. k \in Job /\ k.returns \in Nat
  BY DEF Ended, Phases, Matched, Measured, Eligibles, Admitted, Built, Publishing, Job
<1>2. left.returns \in Nat /\ left'.returns \in Nat /\ left'.returns <= left.returns
  BY DEF MovesOn, EvidenceTypes
<1>3. left'.returns <= k.returns
  BY <1>1, <1>2 DEF JobInv
<1>4. ASSUME b \in Releasing, k.returns = left'.returns PROVE Progress(k)'
  <2>1. left'.returns = left.returns
    BY <1>1, <1>2, <1>4 DEF JobInv
  <2>2. Progress(k)
    BY <1>4, <2>1 DEF JobInv
  <2>3. QED
    BY <1>1, <2>1, <2>2, ProgressStays
<1>5. QED
  BY <1>3, <1>4, WroteStays DEF JobInv

LEMMA BuildersWait ==
    ASSUME EvidenceTypes, EvidenceTypes', BuildInv, MovesOn,
           UNCHANGED <<bld, output>>, policy' \in Report \cup {None}
    PROVE  BuildInv'
<1>1. BuildTypes'
  BY DEF BuildInv, BuildTypes
<1>2. ASSUME NEW b \in Builders PROVE JobInv(b, bld[b])'
  <2>1. PICK k \in Job \cup Ended : k = bld[b]
    BY DEF BuildInv, BuildTypes
  <2>2. JobInv(b, k)
    BY <2>1 DEF BuildInv
  <2>3. JobInv(b, k)'
    BY <2>2, JobStays
  <2>4. bld'[b] = k
    BY <2>1
  <2>5. QED
    BY <2>3, <2>4
<1>3. OutputInv'
  BY DEF BuildInv, OutputInv, Wrote
<1>4. QED
  BY <1>1, <1>2, <1>3 DEF BuildInv

(* A step of one builder that publishes nothing.                           *)
LEMMA BuilderReads ==
    ASSUME EvidenceTypes, EvidenceTypes', BuildInv, NEW b \in Builders, NEW k \in Job \cup Ended,
           bld' = [bld EXCEPT ![b] = k], UNCHANGED <<head, edited, policy, output>>,
           left'.returns = left.returns, JobInv(b, k)
    PROVE  BuildInv'
<1>1. bld'[b] = k /\ \A c \in Builders : c # b => bld'[c] = bld[c]
  BY DEF BuildInv, BuildTypes
<1>2. BuildTypes'
  BY DEF BuildInv, BuildTypes
<1>3. head \in Nat
  BY CommitsAreNumbers DEF EvidenceTypes
<1>4. MovesOn
  BY <1>3 DEF MovesOn
<1>5. ASSUME NEW c \in Builders PROVE JobInv(c, bld[c])'
  <2>1. PICK j \in Job \cup Ended : j = bld'[c]
    BY <1>2 DEF BuildTypes
  <2>2. JobInv(c, j)
    BY <1>1, <2>1 DEF BuildInv
  <2>3. JobInv(c, j)'
    BY <1>4, <2>2, JobStays
  <2>4. QED
    BY <2>1, <2>3
<1>6. OutputInv'
  BY DEF BuildInv, OutputInv, Wrote
<1>7. QED
  BY <1>2, <1>5, <1>6 DEF BuildInv

LEMMA BuilderFails ==
    ASSUME EvidenceTypes, EvidenceTypes', BuildInv, NEW b \in Builders, Fail(b),
           UNCHANGED <<head, edited, policy, output>>, left'.returns = left.returns
    PROVE  BuildInv'
<1> DEFINE k == [phase |-> "failed"]
<1>1. k \in Ended /\ k.phase = "failed"
  BY DEF Ended
<1>2. bld' = [bld EXCEPT ![b] = k]
  BY DEF Fail
<1> HIDE DEF k
<1>3. JobInv(b, k)
  BY <1>1 DEF JobInv, Phases, Matched, Measured, Eligibles, Admitted, Built, Publishing
<1>4. QED
  BY <1>1, <1>2, <1>3, BuilderReads

(* Everything but the phase is the same.                                   *)
SameBut(k, j) ==
    /\ k.pinned = j.pinned /\ k.returns = j.returns /\ k.commit = j.commit
    /\ k.clean = j.clean /\ k.seen = j.seen /\ k.evidence = j.evidence
    /\ k.report = j.report /\ k.before = j.before /\ k.snapshot = j.snapshot

LEMMA ActiveJob ==
    ASSUME BuildInv, NEW b \in Builders, bld[b].phase \in Phases
    PROVE  /\ bld[b] \in Job /\ JobInv(b, bld[b])
           /\ bld[b].returns \in Nat /\ bld[b].commit \in Nat /\ bld[b].seen \in Nat
           /\ bld[b].before \in Nat /\ bld[b].clean \in BOOLEAN
<1>1. bld[b] \in Job /\ JobInv(b, bld[b])
  BY DEF BuildInv, BuildTypes, Ended, Phases, Matched, Measured, Eligibles, Admitted, Built,
         Publishing
<1>2. bld[b].clean \in BOOLEAN
  BY <1>1 DEF Job
<1>3. QED
  BY <1>1, <1>2, JobTypes

LEMMA BuilderProceeds ==
    ASSUME EvidenceTypes, EvidenceTypes', BuildInv, NEW b \in Builders, NEW ph \in Phases,
           bld[b].phase \in Phases, To(b, ph), Untouched,
           \A k \in Job : k.phase = ph /\ SameBut(k, bld[b]) => JobInv(b, k)
    PROVE  BuildInv'
<1> DEFINE k == [bld[b] EXCEPT !.phase = ph]
<1>1. bld' = [bld EXCEPT ![b] = k]
  BY DEF To
<1>2. k \in Job /\ k.phase = ph
  BY ActiveJob DEF Job
<1>3. SameBut(k, bld[b])
  BY ActiveJob DEF Job, SameBut
<1> HIDE DEF k
<1>4. JobInv(b, k)
  BY <1>2, <1>3
<1>5. QED
  BY <1>1, <1>2, <1>4, BuilderReads DEF Untouched


LEMMA UntouchedKeeps ==
    Untouched => UNCHANGED <<head, edited, policy, output>> /\ left'.returns = left.returns
  BY DEF Untouched

(* repository_before: the report names the commit HEAD had, and the tree   *)
(* that is there now.                                                      *)
LEMMA ValidateCommonKeeps ==
    ASSUME EvidenceTypes, EvidenceTypes', BuildInv, NEW b \in Builders, ValidateCommon(b)
    PROVE  BuildInv'
<1> USE DEF Phases, Matched, Measured, Eligibles, Admitted, Built, Publishing
<1>1. bld[b].phase = "common"
  BY DEF ValidateCommon, In
<1>2. CASE bld[b].report.inputs = WorkTree /\ live = bld[b].report
  <2>1. To(b, "reobserve") /\ Untouched
    BY <1>2 DEF ValidateCommon, Check
  <2>2. ASSUME NEW k \in Job, k.phase = "reobserve", SameBut(k, bld[b]) PROVE JobInv(b, k)
    <3>1. head \in Nat \ {0}
      BY CommitsAssumption DEF EvidenceTypes
    <3>2. left.returns <= k.returns
      BY <1>1, <2>2, ActiveJob DEF JobInv, SameBut
    <3>3. ASSUME b \in Releasing, k.returns = left.returns PROVE Progress(k)
      <4>1. Progress(bld[b])
        BY <1>1, <2>2, <3>3, ActiveJob DEF JobInv, SameBut
      <4>2. bld[b].report \in Report /\ bld[b].report.tree <= head
        BY <1>1, <4>1 DEF Progress
      <4>3. bld[b].report.tree \in Nat
        BY <4>2, ReportTypes
      <4>4. IF bld[b].report.inputs = 0 THEN edited \/ head > bld[b].report.tree
            ELSE bld[b].report.tree <= bld[b].report.inputs /\ bld[b].report.inputs <= head
        <5>1. CASE edited
          BY <1>2, <5>1 DEF WorkTree
        <5>2. CASE ~edited
          BY <1>2, <3>1, <4>2, <4>3, <5>2 DEF WorkTree
        <5>3. QED
          BY <5>1, <5>2
      <4>5. QED
        BY <1>1, <2>2, <4>1, <4>4 DEF Progress, SameBut
    <3>4. QED
      BY <2>2, <3>2, <3>3 DEF JobInv
  <2>3. QED
    BY <1>1, <2>1, <2>2, BuilderProceeds
<1>3. CASE ~(bld[b].report.inputs = WorkTree /\ live = bld[b].report)
  BY <1>3, BuilderFails, UntouchedKeeps DEF ValidateCommon, Check
<1>4. QED
  BY <1>2, <1>3

(* repository_after: the tree is still the report's and is clean, so that  *)
(* the inputs were measured on it.                                         *)
LEMMA RematchKeeps ==
    ASSUME EvidenceTypes, EvidenceTypes', BuildInv, NEW b \in Builders, Rematch(b)
    PROVE  BuildInv'
<1> USE DEF Phases, Matched, Measured, Eligibles, Admitted, Built, Publishing
<1>1. bld[b].phase = "rematch"
  BY DEF Rematch, In
<1>2. CASE Eligible(b)
  <2>1. To(b, "reread") /\ Untouched
    BY <1>2 DEF Rematch, Check
  <2>2. ASSUME NEW k \in Job, k.phase = "reread", SameBut(k, bld[b]) PROVE JobInv(b, k)
    <3>1. head \in Nat
      BY CommitsAreNumbers DEF EvidenceTypes
    <3>2. left.returns <= k.returns
      BY <1>1, <2>2, ActiveJob DEF JobInv, SameBut
    <3>3. ASSUME b \in Releasing, k.returns = left.returns PROVE Progress(k)
      <4>1. Progress(bld[b])
        BY <1>1, <2>2, <3>3, ActiveJob DEF JobInv, SameBut
      <4>2. bld[b].report \in Report
        BY <1>1, <4>1 DEF Progress
      <4>3. bld[b].report.tree \in Nat /\ bld[b].report.inputs \in Nat
        BY <4>2, ReportTypes
      <4>4. bld[b].report.inputs = bld[b].report.tree /\ ~bld[b].report.findings
        BY <1>1, <1>2, <3>1, <4>1, <4>3 DEF Eligible, Progress
      <4>5. QED
        BY <1>1, <2>2, <4>1, <4>4 DEF Progress, SameBut
    <3>4. QED
      BY <2>2, <3>2, <3>3 DEF JobInv
  <2>3. QED
    BY <1>1, <2>1, <2>2, BuilderProceeds
<1>3. CASE ~Eligible(b)
  BY <1>3, BuilderFails, UntouchedKeeps DEF Rematch, Check
<1>4. QED
  BY <1>2, <1>3

(* post_preflight_binding: the commit of the start is that of the end, and *)
(* so everything that was read in between.                                 *)
LEMMA RestatusKeeps ==
    ASSUME EvidenceTypes, EvidenceTypes', BuildInv, NEW b \in Builders, Restatus(b)
    PROVE  BuildInv'
<1> USE DEF Phases, Matched, Measured, Eligibles, Admitted, Built, Publishing
<1>1. bld[b].phase = "restatus"
  BY DEF Restatus, In
<1>2. CASE SameBinding(b) /\ bld[b].clean
  <2>1. To(b, "open") /\ Untouched
    BY <1>2 DEF Restatus, Check
  <2>2. ASSUME NEW k \in Job, k.phase = "open", SameBut(k, bld[b]) PROVE JobInv(b, k)
    <3>2. left.returns <= k.returns
      BY <1>1, <2>2, ActiveJob DEF JobInv, SameBut
    <3>3. ASSUME b \in Releasing, k.returns = left.returns PROVE Progress(k)
      <4>1. Progress(bld[b])
        BY <1>1, <2>2, <3>3, ActiveJob DEF JobInv, SameBut
      <4>2. bld[b].report \in Report
        BY <1>1, <4>1 DEF Progress
      <4>3. bld[b].report.tree \in Nat
        BY <4>2, ReportTypes
      <4>4. bld[b].report.tree = bld[b].commit /\ bld[b].before = bld[b].commit
        BY <1>1, <1>2, <4>1, <4>3, ActiveJob DEF SameBinding, Progress
      <4>5. QED
        BY <1>1, <1>2, <2>2, <4>1, <4>4 DEF Progress, SameBut
    <3>4. QED
      BY <2>2, <3>2, <3>3 DEF JobInv
  <2>3. QED
    BY <1>1, <2>1, <2>2, BuilderProceeds
<1>3. CASE ~(SameBinding(b) /\ bld[b].clean)
  BY <1>3, BuilderFails, UntouchedKeeps DEF Restatus, Check
<1>4. QED
  BY <1>2, <1>3

(* Checks after which a builder knows nothing new that the claims need.    *)
LEMMA ChecksKeep ==
    ASSUME EvidenceTypes, EvidenceTypes', BuildInv, NEW b \in Builders,
           FinalStatus(b) \/ Reread(b) \/ OpenOutput(b) \/ AfterBuild(b) \/ AssertEmpty(b)
    PROVE  BuildInv'
<1> USE DEF Phases, Matched, Measured, Eligibles, Admitted, Built, Publishing
<1>1. Untouched
  BY DEF FinalStatus, Reread, OpenOutput, AfterBuild, AssertEmpty
<1>2. CASE Fail(b)
  BY <1>1, <1>2, BuilderFails, UntouchedKeeps
<1>3. ASSUME NEW ph \in Phases, To(b, ph), bld[b].phase \in Phases,
             \/ <<bld[b].phase, ph>> = <<"reread", "rebind">>
             \/ <<bld[b].phase, ph>> = <<"open", "snapshot">>
             \/ bld[b].phase \in Built /\ ph \in {"finalbind", "assert", "wheel"}
      PROVE  BuildInv'
  <2>1. ASSUME NEW k \in Job, k.phase = ph, SameBut(k, bld[b]) PROVE JobInv(b, k)
    <3>1. left.returns <= k.returns
      BY <1>3, <2>1, ActiveJob DEF JobInv, SameBut
    <3>2. ASSUME b \in Releasing, k.returns = left.returns PROVE Progress(k)
      <4>1. Progress(bld[b])
        BY <1>3, <2>1, <3>2, ActiveJob DEF JobInv, SameBut
      <4>2. QED
        BY <1>3, <2>1, <4>1 DEF Progress, SameBut
    <3>3. QED
      BY <1>3, <2>1, <3>1, <3>2, ActiveJob DEF JobInv, SameBut
  <2>2. QED
    BY <1>1, <1>3, <2>1, BuilderProceeds
<1>4. CASE FinalStatus(b)
  BY <1>2, <1>3, <1>4 DEF FinalStatus, In, Check
<1>5. CASE Reread(b)
  BY <1>2, <1>3, <1>5 DEF Reread, In, Check
<1>6. CASE OpenOutput(b)
  BY <1>2, <1>3, <1>6 DEF OpenOutput, In, Check
<1>7. CASE AfterBuild(b)
  BY <1>2, <1>3, <1>7 DEF AfterBuild, In, Check
<1>8. CASE AssertEmpty(b)
  BY <1>2, <1>3, <1>8 DEF AssertEmpty, In, Check
<1>9. QED
  BY <1>4, <1>5, <1>6, <1>7, <1>8

(* The reads of the preflight and the snapshot.                            *)
LEMMA ReadsKeep ==
    ASSUME EvidenceTypes, EvidenceTypes', BuildInv, NEW b \in Builders,
           NEW k \in Job, bld[b].phase \in Phases,
           bld' = [bld EXCEPT ![b] = k], Untouched,
           k.returns = bld[b].returns,
           k.phase \in Built /\ k.clean => k.snapshot = k.commit,
           k.phase \notin {"sdist", "manifest", "verify"},
           b \in Releasing /\ k.returns = left.returns /\ Progress(bld[b]) => Progress(k)
    PROVE  BuildInv'
<1>1. JobInv(b, k)
  BY ActiveJob DEF JobInv
<1>2. QED
  BY <1>1, BuilderReads, UntouchedKeeps

(* _source_binding of the start: only the commit is known.               *)
LEMMA BindStatusKeeps ==
    ASSUME EvidenceTypes, EvidenceTypes', BuildInv, NEW b \in Builders, BindStatus(b)
    PROVE  BuildInv'
<1> USE DEF Phases, Matched, Measured, Eligibles, Admitted, Built, Publishing
<1> DEFINE v == ~edited
           k == [Set(b, "clean", v) EXCEPT !.phase = (IF b \in Releasing THEN "inputs" ELSE "open")]
<1>1. bld[b].phase = "status"
  BY DEF BindStatus, In
<1>2. bld' = [bld EXCEPT ![b] = k] /\ Untouched
  BY <1>1 DEF BindStatus, In, Then
<1>3. v \in BOOLEAN
  BY DEF EvidenceTypes
<1> HIDE DEF v
<1>4. k \in Job /\ k.phase = (IF b \in Releasing THEN "inputs" ELSE "open") /\ k.clean = v
  <2>1. bld[b] \in Job
    BY <1>1, ActiveJob
  <2>2. k \in Job
    <3> DEFINE ph == IF b \in Releasing THEN "inputs" ELSE "open"
    <3>1. ph \in Phases
      OBVIOUS
    <3> HIDE DEF ph, Phases
    <3>2. [Set(b, "clean", v) EXCEPT !.phase = ph] \in Job
      BY <1>3, <2>1, <3>1 DEF Job, Set
    <3>3. QED
      BY <3>2 DEF ph
  <2>3. k.phase = (IF b \in Releasing THEN "inputs" ELSE "open")
    BY <2>1 DEF Job, Set
  <2>4. k.clean = v
    BY <2>1 DEF Job, Set
  <2>5. QED
    BY <2>2, <2>3, <2>4
<1>5. /\ k.returns = bld[b].returns /\ k.commit = bld[b].commit /\ k.seen = bld[b].seen
        /\ k.evidence = bld[b].evidence /\ k.report = bld[b].report /\ k.before = bld[b].before
        /\ k.snapshot = bld[b].snapshot
  BY <1>1, ActiveJob DEF Job, Set
<1> HIDE DEF k
<1>6. b \in Releasing /\ Progress(bld[b]) => Progress(k)
  BY <1>4, <1>5 DEF Progress
<1>7. QED
  BY <1>1, <1>2, <1>4, <1>5, <1>6, ReadsKeep

(* The second and the third binding read a HEAD that came later.           *)
LEMMA RebindKeeps ==
    ASSUME EvidenceTypes, EvidenceTypes', BuildInv, NEW b \in Builders, Rebind(b)
    PROVE  BuildInv'
<1> USE DEF Phases, Matched, Measured, Eligibles, Admitted, Built, Publishing
<1> DEFINE v == head
           k == [Set(b, "seen", v) EXCEPT !.phase = (IF In(b, "rebind") THEN "restatus" ELSE "finalstatus")]
<1>1. bld[b].phase \in {"rebind", "finalbind"}
  BY DEF Rebind, In
<1>2. bld' = [bld EXCEPT ![b] = k] /\ Untouched
  BY <1>1 DEF Rebind, In, Then
<1>3. v \in Commits
  BY DEF EvidenceTypes
<1> HIDE DEF v
<1>4. k \in Job /\ k.phase = (IF In(b, "rebind") THEN "restatus" ELSE "finalstatus") /\ k.seen = v
  <2>1. bld[b] \in Job
    BY <1>1, ActiveJob
  <2>2. k \in Job
    <3> DEFINE ph == IF In(b, "rebind") THEN "restatus" ELSE "finalstatus"
    <3>1. ph \in Phases
      OBVIOUS
    <3> HIDE DEF ph, Phases
    <3>2. [Set(b, "seen", v) EXCEPT !.phase = ph] \in Job
      BY <1>3, <2>1, <3>1 DEF Job, Set
    <3>3. QED
      BY <3>2 DEF ph
  <2>3. k.phase = (IF In(b, "rebind") THEN "restatus" ELSE "finalstatus")
    BY <2>1 DEF Job, Set
  <2>4. k.seen = v
    BY <2>1 DEF Job, Set
  <2>5. QED
    BY <2>2, <2>3, <2>4
<1>5. /\ k.returns = bld[b].returns /\ k.commit = bld[b].commit /\ k.clean = bld[b].clean
        /\ k.evidence = bld[b].evidence /\ k.report = bld[b].report /\ k.before = bld[b].before
        /\ k.snapshot = bld[b].snapshot
  BY <1>1, ActiveJob DEF Job, Set
<1> HIDE DEF k
<1>6. Progress(bld[b]) => Progress(k)
  BY <1>1, <1>4, <1>5 DEF Progress, v, In
<1>7. k.clean /\ k.phase \in Built => k.snapshot = k.commit
  BY <1>1, <1>4, <1>5, ActiveJob DEF JobInv, In
<1>8. QED
  BY <1>1, <1>2, <1>4, <1>5, <1>6, <1>7, ReadsKeep DEF In

(* _observe_repository_state reads a HEAD that came later.                 *)
LEMMA ObserveKeeps ==
    ASSUME EvidenceTypes, EvidenceTypes', BuildInv, NEW b \in Builders, Observe(b)
    PROVE  BuildInv'
<1> USE DEF Phases, Matched, Measured, Eligibles, Admitted, Built, Publishing
<1> DEFINE v == head
           k == [Set(b, "seen", v) EXCEPT !.phase = (IF In(b, "observe") THEN "match" ELSE "rematch")]
<1>1. bld[b].phase \in {"observe", "reobserve"}
  BY DEF Observe, In
<1>2. bld' = [bld EXCEPT ![b] = k] /\ Untouched
  BY <1>1 DEF Observe, In, Then
<1>3. v \in Commits
  BY DEF EvidenceTypes
<1> HIDE DEF v
<1>4. k \in Job /\ k.phase = (IF In(b, "observe") THEN "match" ELSE "rematch") /\ k.seen = v
  <2>1. bld[b] \in Job
    BY <1>1, ActiveJob
  <2>2. k \in Job
    <3> DEFINE ph == IF In(b, "observe") THEN "match" ELSE "rematch"
    <3>1. ph \in Phases
      OBVIOUS
    <3> HIDE DEF ph, Phases
    <3>2. [Set(b, "seen", v) EXCEPT !.phase = ph] \in Job
      BY <1>3, <2>1, <3>1 DEF Job, Set
    <3>3. QED
      BY <3>2 DEF ph
  <2>3. k.phase = (IF In(b, "observe") THEN "match" ELSE "rematch")
    BY <2>1 DEF Job, Set
  <2>4. k.seen = v
    BY <2>1 DEF Job, Set
  <2>5. QED
    BY <2>2, <2>3, <2>4
<1>5. /\ k.returns = bld[b].returns /\ k.commit = bld[b].commit /\ k.clean = bld[b].clean
        /\ k.evidence = bld[b].evidence /\ k.report = bld[b].report /\ k.before = bld[b].before
        /\ k.snapshot = bld[b].snapshot
  BY <1>1, ActiveJob DEF Job, Set
<1> HIDE DEF k
<1>6. head \in Nat
  BY CommitsAreNumbers DEF EvidenceTypes
<1>7. Progress(bld[b]) => Progress(k)
  BY <1>1, <1>4, <1>5, <1>6 DEF Progress, v, In
<1>8. QED
  BY <1>1, <1>2, <1>4, <1>5, <1>7, ReadsKeep DEF In

(* The report and the policy name the commit and the tree.                 *)
LEMMA MatchKeeps ==
    ASSUME EvidenceTypes, EvidenceTypes', BuildInv, NEW b \in Builders, Match(b), RepositoryMatches(b)
    PROVE  BuildInv'
<1> USE DEF Phases, Matched, Measured, Eligibles, Admitted, Built, Publishing
<1> DEFINE v == bld[b].seen
           k == [Set(b, "before", v) EXCEPT !.phase = "common"]
<1>1. bld[b].phase = "match"
  BY DEF Match, In
<1>2. bld' = [bld EXCEPT ![b] = k] /\ Untouched
  BY <1>1 DEF Match, In, Then
<1>3. v \in Commits \cup {0}
  BY <1>1, ActiveJob DEF Job
<1> HIDE DEF v
<1>4. k \in Job /\ k.phase = "common" /\ k.before = v
  <2>1. bld[b] \in Job
    BY <1>1, ActiveJob
  <2>2. k \in Job
    BY <1>3, <2>1 DEF Job, Set
  <2>3. k.phase = "common"
    BY <2>1 DEF Job, Set
  <2>4. k.before = v
    BY <2>1 DEF Job, Set
  <2>5. QED
    BY <2>2, <2>3, <2>4
<1>5. /\ k.returns = bld[b].returns /\ k.commit = bld[b].commit /\ k.clean = bld[b].clean
        /\ k.seen = bld[b].seen /\ k.evidence = bld[b].evidence /\ k.report = bld[b].report
        /\ k.snapshot = bld[b].snapshot
  BY <1>1, ActiveJob DEF Job, Set
<1> HIDE DEF k
<1>6. head \in Nat
  BY CommitsAreNumbers DEF EvidenceTypes
<1>7. Progress(bld[b]) => Progress(k)
  BY <1>1, <1>4, <1>5, <1>6, ActiveJob DEF Progress, v, RepositoryMatches
<1>8. QED
  BY <1>1, <1>2, <1>4, <1>5, <1>7, ReadsKeep

(* The evidence, for the first time ...                                    *)
LEMMA ReadInputsKeeps ==
    ASSUME EvidenceTypes, EvidenceTypes', BuildInv, NEW b \in Builders, ReadInputs(b), live # None /\ policy = bld[b].pinned
    PROVE  BuildInv'
<1> USE DEF Phases, Matched, Measured, Eligibles, Admitted, Built, Publishing
<1> DEFINE v == live
           k == [Set(b, "evidence", v) EXCEPT !.phase = "validator"]
<1>1. bld[b].phase = "inputs"
  BY DEF ReadInputs, In
<1>2. bld' = [bld EXCEPT ![b] = k] /\ Untouched
  BY <1>1 DEF ReadInputs, In, Then
<1>3. v \in Report \cup {None}
  BY DEF EvidenceTypes
<1> HIDE DEF v
<1>4. k \in Job /\ k.phase = "validator" /\ k.evidence = v
  <2>1. bld[b] \in Job
    BY <1>1, ActiveJob
  <2>2. k \in Job
    BY <1>3, <2>1 DEF Job, Set
  <2>3. k.phase = "validator"
    BY <2>1 DEF Job, Set
  <2>4. k.evidence = v
    BY <2>1 DEF Job, Set
  <2>5. QED
    BY <2>2, <2>3, <2>4
<1>5. /\ k.returns = bld[b].returns /\ k.commit = bld[b].commit /\ k.clean = bld[b].clean
        /\ k.seen = bld[b].seen /\ k.report = bld[b].report /\ k.before = bld[b].before
        /\ k.snapshot = bld[b].snapshot
  BY <1>1, ActiveJob DEF Job, Set
<1> HIDE DEF k
<1>6. Progress(bld[b]) => Progress(k)
  BY <1>1, <1>4, <1>5 DEF Progress
<1>7. QED
  BY <1>1, <1>2, <1>4, <1>5, <1>6, ReadsKeep

(* ... and in the validator.                                               *)
LEMMA ReadReportKeeps ==
    ASSUME EvidenceTypes, EvidenceTypes', BuildInv, NEW b \in Builders, ReadReport(b), live # None /\ policy = bld[b].pinned
    PROVE  BuildInv'
<1> USE DEF Phases, Matched, Measured, Eligibles, Admitted, Built, Publishing
<1> DEFINE v == live
           k == [Set(b, "report", v) EXCEPT !.phase = "observe"]
<1>1. bld[b].phase = "validator"
  BY DEF ReadReport, In
<1>2. bld' = [bld EXCEPT ![b] = k] /\ Untouched
  BY <1>1 DEF ReadReport, In, Then
<1>3. v \in Report
  BY DEF EvidenceTypes
<1> HIDE DEF v
<1>4. k \in Job /\ k.phase = "observe" /\ k.report = v
  <2>1. bld[b] \in Job
    BY <1>1, ActiveJob
  <2>2. k \in Job
    BY <1>3, <2>1 DEF Job, Set
  <2>3. k.phase = "observe"
    BY <2>1 DEF Job, Set
  <2>4. k.report = v
    BY <2>1 DEF Job, Set
  <2>5. QED
    BY <2>2, <2>3, <2>4
<1>5. /\ k.returns = bld[b].returns /\ k.commit = bld[b].commit /\ k.clean = bld[b].clean
        /\ k.seen = bld[b].seen /\ k.evidence = bld[b].evidence /\ k.before = bld[b].before
        /\ k.snapshot = bld[b].snapshot
  BY <1>1, ActiveJob DEF Job, Set
<1> HIDE DEF k
<1>6. Progress(bld[b]) => Progress(k)
  BY <1>1, <1>3, <1>4, <1>5 DEF Progress
<1>7. QED
  BY <1>1, <1>2, <1>4, <1>5, <1>6, ReadsKeep

(* What is built: the bound commit, if the tree was clean.                 *)
LEMMA SnapshotKeeps ==
    ASSUME EvidenceTypes, EvidenceTypes', BuildInv, NEW b \in Builders, Snapshot(b)
    PROVE  BuildInv'
<1> USE DEF Phases, Matched, Measured, Eligibles, Admitted, Built, Publishing
<1> DEFINE v == IF bld[b].clean THEN bld[b].commit ELSE WorkTree
           k == [Set(b, "snapshot", v) EXCEPT !.phase = "built"]
<1>1. bld[b].phase = "snapshot"
  BY DEF Snapshot, In
<1>2. bld' = [bld EXCEPT ![b] = k] /\ Untouched
  BY <1>1 DEF Snapshot, In, Then
<1>3. v \in Commits \cup {0}
  BY <1>1, ActiveJob DEF Job, WorkTree, EvidenceTypes
<1> HIDE DEF v
<1>4. k \in Job /\ k.phase = "built" /\ k.snapshot = v
  <2>1. bld[b] \in Job
    BY <1>1, ActiveJob
  <2>2. k \in Job
    BY <1>3, <2>1 DEF Job, Set
  <2>3. k.phase = "built"
    BY <2>1 DEF Job, Set
  <2>4. k.snapshot = v
    BY <2>1 DEF Job, Set
  <2>5. QED
    BY <2>2, <2>3, <2>4
<1>5. /\ k.returns = bld[b].returns /\ k.commit = bld[b].commit /\ k.clean = bld[b].clean
        /\ k.seen = bld[b].seen /\ k.evidence = bld[b].evidence /\ k.report = bld[b].report
        /\ k.before = bld[b].before
  BY <1>1, ActiveJob DEF Job, Set
<1> HIDE DEF k
<1>6. Progress(bld[b]) => Progress(k)
  BY <1>1, <1>4, <1>5 DEF Progress
<1>7. k.clean => k.snapshot = k.commit
  BY <1>4, <1>5 DEF v
<1>8. QED
  BY <1>1, <1>2, <1>4, <1>5, <1>6, <1>7, ReadsKeep

LEMMA StartKeeps ==
    ASSUME EvidenceTypes, EvidenceTypes', BuildInv, NEW b \in Builders, Start(b)
    PROVE  BuildInv'
<1> DEFINE k == [phase |-> "status", pinned |-> policy, returns |-> left.returns,
                 commit |-> head, clean |-> FALSE, seen |-> 0, evidence |-> None,
                 report |-> None, before |-> 0, snapshot |-> 0]
<1>1. bld' = [bld EXCEPT ![b] = k] /\ UNCHANGED <<head, edited, policy, output>>
  BY DEF Start
<1>2. left'.returns = left.returns
  BY SpendTypes DEF Start
<1>3. policy \in Report \cup {None} /\ left.returns \in Nat /\ head \in Commits /\ head \in Nat
  BY CommitsAreNumbers DEF EvidenceTypes, BuildInv, BuildTypes
<1>4. k \in Job /\ k.phase = "status" /\ k.commit = head /\ k.returns = left.returns
  BY <1>3 DEF Job, Phases
<1> HIDE DEF k
<1>5. Progress(k)
  BY <1>3, <1>4 DEF Progress, Matched, Measured, Eligibles, Admitted, Built, Publishing
<1>6. JobInv(b, k)
  BY <1>3, <1>4, <1>5 DEF JobInv, Built, Publishing
<1>7. QED
  BY <1>1, <1>2, <1>4, <1>6, BuilderReads

LEMMA EndsKeep ==
    ASSUME EvidenceTypes, EvidenceTypes', BuildInv, NEW b \in Builders,
           VerifyOutput(b) \/ BuildFails(b)
    PROVE  BuildInv'
<1>1. CASE BuildFails(b)
  <2>1. left'.returns = left.returns
    BY <1>1, SpendTypes DEF BuildFails
  <2>2. QED
    BY <1>1, <2>1, BuilderFails DEF BuildFails
<1>2. CASE VerifyOutput(b)
  <2>1. PICK k \in Ended : bld' = [bld EXCEPT ![b] = k] /\ k.phase \in {"done", "failed"}
    <3> DEFINE ph == IF DOMAIN output = Names(bld[b].snapshot) THEN "done" ELSE "failed"
               k == [phase |-> ph]
    <3>1. k \in Ended /\ k.phase \in {"done", "failed"}
      BY DEF Ended
    <3>2. bld' = [bld EXCEPT ![b] = k]
      BY <1>2 DEF VerifyOutput
    <3>3. QED
      BY <3>1, <3>2
  <2>2. JobInv(b, k)
    BY <2>1 DEF JobInv, Phases, Matched, Measured, Eligibles, Admitted, Built, Publishing
  <2>3. QED
    BY <1>2, <2>1, <2>2, BuilderReads, UntouchedKeeps DEF VerifyOutput
<1>3. QED
  BY <1>1, <1>2

(* A step of one builder that creates a file n with the content e.         *)
LEMMA BuilderWrites ==
    ASSUME EvidenceTypes, EvidenceTypes', BuildInv, NEW b \in Builders, NEW k \in Job \cup Ended,
           NEW n, NEW e \in Entry, n \notin DOMAIN output,
           bld' = [bld EXCEPT ![b] = k], UNCHANGED <<head, edited, policy>>,
           left'.returns = left.returns,
           output' = [m \in DOMAIN output \cup {n} |-> IF m # n THEN output[m] ELSE e],
           e.exact => e.snapshot = e.commit,
           e.by \in Releasing /\ e.steady => Attested(e),
           n = <<"manifest">> /\ e.whole =>
              Wrote(e.by, "wheel", e.snapshot) /\ Wrote(e.by, "sdist", e.snapshot),
           JobInv(b, k)'
    PROVE  BuildInv'
<1>1. bld'[b] = k /\ \A c \in Builders : c # b => bld'[c] = bld[c]
  BY DEF BuildInv, BuildTypes
<1>2. /\ \A m \in DOMAIN output : m \in DOMAIN output' /\ output'[m] = output[m]
      /\ DOMAIN output' = DOMAIN output \cup {n}
      /\ output'[n] = e
  OBVIOUS
<1>3. BuildTypes'
  BY <1>2 DEF BuildInv, BuildTypes
<1>4. head \in Nat
  BY CommitsAreNumbers DEF EvidenceTypes
<1>5. MovesOn
  BY <1>4 DEF MovesOn
<1>6. ASSUME NEW c \in Builders, c # b PROVE JobInv(c, bld[c])'
  <2>1. PICK j \in Job \cup Ended : j = bld'[c]
    BY <1>3 DEF BuildTypes
  <2>2. JobInv(c, j)
    BY <1>1, <1>6, <2>1 DEF BuildInv
  <2>3. JobInv(c, j)'
    BY <1>2, <1>5, <2>2, JobStays
  <2>4. QED
    BY <2>1, <2>3
<1>7. OutputInv'
  <2> SUFFICES ASSUME NEW m \in DOMAIN output', NEW f, f = output'[m]
               PROVE  /\ f.exact => f.snapshot = f.commit
                      /\ f.by \in Releasing /\ f.steady => Attested(f)
                      /\ m = <<"manifest">> /\ f.whole =>
                            /\ Wrote(f.by, "wheel", f.snapshot)'
                            /\ Wrote(f.by, "sdist", f.snapshot)'
    BY DEF OutputInv
  <2>1. CASE m = n
    BY <1>2, <2>1, WroteStays
  <2>2. CASE m # n
    <3>1. m \in DOMAIN output /\ f = output[m]
      BY <1>2, <2>2
    <3>2. QED
      BY <1>2, <3>1, WroteStays DEF BuildInv, OutputInv
  <2>3. QED
    BY <2>1, <2>2
<1>8. QED
  BY <1>1, <1>3, <1>6, <1>7 DEF BuildInv

(* What a builder puts into a file is what the claims say.                 *)
EntryOf(b, whole) ==
    [by |-> b, whole |-> whole, exact |-> bld[b].clean, commit |-> bld[b].commit,
     snapshot |-> bld[b].snapshot, attested |-> bld[b].report,
     steady |-> bld[b].returns = left.returns]

LEMMA EntryHolds ==
    ASSUME BuildInv, NEW b \in Builders, bld[b].phase \in {"wheel", "sdist", "manifest"},
           NEW whole \in BOOLEAN, NEW e, e = EntryOf(b, whole)
    PROVE  /\ e \in Entry /\ e.by = b /\ e.whole = whole /\ e.snapshot = bld[b].snapshot
           /\ e.exact => e.snapshot = e.commit
           /\ e.by \in Releasing /\ e.steady => Attested(e)
           /\ NameOf(b) = <<"manifest">> /\ e.whole =>
                 Wrote(e.by, "wheel", e.snapshot) /\ Wrote(e.by, "sdist", e.snapshot)
<1> USE DEF Phases, Matched, Measured, Eligibles, Admitted, Built, Publishing
<1>1. bld[b] \in Job /\ JobInv(b, bld[b])
  BY ActiveJob
<1>2. e \in Entry /\ e.by = b /\ e.whole = whole
  BY <1>1 DEF Entry, EntryOf, Job
<1>3. /\ e.exact = bld[b].clean /\ e.commit = bld[b].commit /\ e.snapshot = bld[b].snapshot
      /\ e.attested = bld[b].report /\ e.steady = (bld[b].returns = left.returns)
  BY DEF EntryOf
<1>4. bld[b].clean => bld[b].snapshot = bld[b].commit
  BY <1>1 DEF JobInv
<1>5. ASSUME b \in Releasing, bld[b].returns = left.returns PROVE Attested(e)
  <2>1. Progress(bld[b])
    BY <1>1, <1>5 DEF JobInv
  <2>2. /\ bld[b].report \in Report /\ bld[b].clean
        /\ bld[b].report.commit = bld[b].commit /\ bld[b].report.tree = bld[b].commit
        /\ bld[b].report.inputs = bld[b].commit /\ ~bld[b].report.findings
    BY <2>1 DEF Progress
  <2>3. bld[b].report # None
    BY <2>2, ReportTypes
  <2>4. QED
    BY <1>3, <1>4, <2>2, <2>3 DEF Attested
<1>6. NameOf(b) = <<"manifest">> => bld[b].phase = "manifest"
  BY DEF NameOf, In
<1>7. NameOf(b) = <<"manifest">> =>
        Wrote(b, "wheel", bld[b].snapshot) /\ Wrote(b, "sdist", bld[b].snapshot)
  BY <1>1, <1>6 DEF JobInv
<1>8. QED
  BY <1>2, <1>3, <1>4, <1>5, <1>7

LEMMA PublishFailsKeeps ==
    ASSUME EvidenceTypes, EvidenceTypes', BuildInv, NEW b \in Builders, PublishFails(b)
    PROVE  BuildInv'
<1> DEFINE k == [phase |-> "failed"]
           e == EntryOf(b, FALSE)
           n == NameOf(b)
<1>1. bld[b].phase \in {"wheel", "sdist", "manifest"}
  BY DEF PublishFails, Following
<1>2. k \in Ended /\ k.phase = "failed" /\ bld' = [bld EXCEPT ![b] = k]
  BY DEF PublishFails, Fail, Ended
<1>3. n \notin DOMAIN output /\ UNCHANGED <<head, edited, policy>>
  BY DEF PublishFails
<1>4. output' = [m \in DOMAIN output \cup {n} |-> IF m # n THEN output[m] ELSE e]
  BY DEF PublishFails, Put, EntryOf
<1>5. left'.returns = left.returns
  BY SpendTypes DEF PublishFails
<1>6. /\ e \in Entry
      /\ e.exact => e.snapshot = e.commit
      /\ e.by \in Releasing /\ e.steady => Attested(e)
      /\ n = <<"manifest">> /\ e.whole =>
            Wrote(e.by, "wheel", e.snapshot) /\ Wrote(e.by, "sdist", e.snapshot)
  BY <1>1, EntryHolds
<1> HIDE DEF k, e, n
<1>7. PICK c : c = k
  OBVIOUS
<1>8. JobInv(b, c)'
  BY <1>2, <1>7 DEF JobInv, Phases, Matched, Measured, Eligibles, Admitted, Built, Publishing
<1>9. QED
  BY <1>2, <1>3, <1>4, <1>5, <1>6, <1>7, <1>8, BuilderWrites

LEMMA PublishFileKeeps ==
    ASSUME EvidenceTypes, EvidenceTypes', BuildInv, NEW b \in Builders, PublishFile(b)
    PROVE  BuildInv'
<1> USE DEF Phases, Matched, Measured, Eligibles, Admitted, Built, Publishing
<1>1. bld[b].phase \in {"wheel", "sdist", "manifest"}
  BY DEF PublishFile, Following
<1>2. CASE NameOf(b) \in DOMAIN output
  <2>1. Fail(b) /\ UNCHANGED <<head, edited, policy, output, left>>
    BY <1>2 DEF PublishFile
  <2>2. QED
    BY <2>1, BuilderFails
<1>3. CASE NameOf(b) \notin DOMAIN output
  <2> DEFINE j == [bld[b] EXCEPT !.phase = Following[bld[b].phase]]
             e == EntryOf(b, TRUE)
             n == NameOf(b)
  <2>1. bld' = [bld EXCEPT ![b] = j] /\ UNCHANGED <<head, edited, policy, left>>
    BY <1>3 DEF PublishFile, To
  <2>2. output' = [m \in DOMAIN output \cup {n} |-> IF m # n THEN output[m] ELSE e]
    BY <1>3 DEF PublishFile, Put, EntryOf
  <2>3. /\ e \in Entry /\ e.by = b /\ e.whole /\ e.snapshot = bld[b].snapshot
        /\ e.exact => e.snapshot = e.commit
        /\ e.by \in Releasing /\ e.steady => Attested(e)
        /\ n = <<"manifest">> /\ e.whole =>
              Wrote(e.by, "wheel", e.snapshot) /\ Wrote(e.by, "sdist", e.snapshot)
    BY <1>1, EntryHolds
  <2>4. bld[b] \in Job /\ JobInv(b, bld[b])
    BY <1>1, ActiveJob
  <2>5. /\ bld[b].phase = "wheel" => Following[bld[b].phase] = "sdist"
        /\ bld[b].phase = "sdist" => Following[bld[b].phase] = "manifest"
        /\ bld[b].phase = "manifest" => Following[bld[b].phase] = "verify"
    BY DEF Following
  <2>6. j \in Job /\ j.phase = Following[bld[b].phase] /\ SameBut(j, bld[b])
    BY <1>1, <2>4, <2>5 DEF Job, SameBut
  <2> HIDE DEF j, e
  <2>7. PICK k \in Job : k = j
    BY <2>6
  <2>8. /\ \A m \in DOMAIN output : m \in DOMAIN output' /\ output'[m] = output[m]
        /\ n \in DOMAIN output' /\ output'[n] = e
    BY <1>3, <2>2
  <2>9. JobInv(b, k)'
    <3>1. left'.returns <= k.returns
      BY <1>1, <2>1, <2>4, <2>6, <2>7 DEF JobInv, SameBut
    <3>2. k.clean => k.snapshot = k.commit
      BY <1>1, <2>4, <2>6, <2>7 DEF JobInv, SameBut
    <3>3. k.phase \in {"sdist", "manifest", "verify"} => Wrote(b, "wheel", k.snapshot)'
      <4>1. CASE bld[b].phase = "wheel"
        <5>1. n = <<"wheel", Version[k.snapshot]>>
          BY <2>6, <2>7, <4>1 DEF NameOf, In, SameBut
        <5>2. QED
          BY <2>3, <2>6, <2>7, <2>8, <5>1 DEF Wrote, SameBut
      <4>2. CASE bld[b].phase \in {"sdist", "manifest"}
        <5>1. Wrote(b, "wheel", k.snapshot)
          BY <2>4, <2>6, <2>7, <4>2 DEF JobInv, SameBut
        <5>2. QED
          BY <2>8, <5>1, WroteStays
      <4>3. QED
        BY <1>1, <4>1, <4>2
    <3>4. k.phase \in {"manifest", "verify"} => Wrote(b, "sdist", k.snapshot)'
      <4>1. CASE bld[b].phase = "sdist"
        <5>1. n = <<"sdist", Version[k.snapshot]>>
          BY <2>6, <2>7, <4>1 DEF NameOf, In, SameBut
        <5>2. QED
          BY <2>3, <2>6, <2>7, <2>8, <5>1 DEF Wrote, SameBut
      <4>2. CASE bld[b].phase = "manifest"
        <5>1. Wrote(b, "sdist", k.snapshot)
          BY <2>4, <2>6, <2>7, <4>2 DEF JobInv, SameBut
        <5>2. QED
          BY <2>8, <5>1, WroteStays
      <4>3. CASE bld[b].phase = "wheel"
        BY <2>5, <2>6, <2>7, <4>3
      <4>4. QED
        BY <1>1, <4>1, <4>2, <4>3
    <3>5. b \in Releasing /\ k.returns = left'.returns => Progress(k)'
      <4>1. b \in Releasing /\ k.returns = left'.returns => Progress(bld[b])
        BY <1>1, <2>1, <2>4, <2>6, <2>7 DEF JobInv, SameBut
      <4>2. Progress(bld[b]) => Progress(k)
        BY <1>1, <2>5, <2>6, <2>7 DEF Progress, SameBut
      <4>3. Progress(k) => Progress(k)'
        BY <2>1 DEF Progress
      <4>4. QED
        BY <4>1, <4>2, <4>3
    <3>6. QED
      BY <3>1, <3>2, <3>3, <3>4, <3>5 DEF JobInv
  <2>10. QED
    BY <1>3, <2>1, <2>2, <2>3, <2>7, <2>9, BuilderWrites
<1>4. QED
  BY <1>2, <1>3

LEMMA BuildKeeps ==
    ASSUME EvidenceTypes, EvidenceTypes', BuildInv, NEW b \in Builders, Build(b)
    PROVE  BuildInv'
<1>1. CASE ReadInputs(b) /\ ~(live # None /\ policy = bld[b].pinned)
  BY <1>1, BuilderFails, UntouchedKeeps DEF ReadInputs
<1>2. CASE ReadReport(b) /\ ~(live # None /\ policy = bld[b].pinned)
  BY <1>2, BuilderFails, UntouchedKeeps DEF ReadReport
<1>3. CASE Match(b) /\ ~RepositoryMatches(b)
  BY <1>3, BuilderFails, UntouchedKeeps DEF Match
<1>4. QED
  BY <1>1, <1>2, <1>3, StartKeeps, BindStatusKeeps, RebindKeeps, RestatusKeeps, ChecksKeep,
     ReadInputsKeeps, ReadReportKeeps, ObserveKeeps, MatchKeeps, ValidateCommonKeeps,
     RematchKeeps, SnapshotKeeps, PublishFileKeeps, PublishFailsKeeps, EndsKeep DEF Build

LEMMA CheckoutMovesOn ==
    ASSUME EvidenceTypes,
           Commit \/ Edit \/ Checkout \/ WritePolicy \/ \E c \in Collectors : Collect(c)
    PROVE  MovesOn
<1>1. head \in Nat
  BY CommitsAreNumbers DEF EvidenceTypes
<1>2. CASE Commit
  <2>1. head < head' /\ left'.returns = left.returns
    BY <1>1, <1>2, SpendTypes DEF Commit
  <2>2. QED
    BY <1>1, <1>2, <2>1 DEF MovesOn, Commit
<1>3. CASE Edit
  <2>1. head' = head /\ left'.returns = left.returns /\ edited'
    BY <1>3, SpendTypes DEF Edit
  <2>2. QED
    BY <1>1, <2>1 DEF MovesOn
<1>4. CASE Checkout
  BY <1>4, SpendTypes DEF Checkout, MovesOn
<1>5. CASE WritePolicy
  BY <1>1, <1>5, SpendTypes DEF WritePolicy, MovesOn
<1>6. ASSUME NEW c \in Collectors, Collect(c) PROVE MovesOn
  <2>1. head' = head /\ edited' = edited
    BY <1>6 DEF Collect, ReadRevision, ReadTree, CollectInto, SelfValidate, CollectFails,
                LookForLive, BackUp, Rename, RenameFails, LookAgain, MoveBack, MoveBackFails,
                RemoveBackup, CollectorDies
  <2>2. left' = left \/ Spend("collections") \/ Spend("faults")
    BY <1>6 DEF Collect, ReadRevision, ReadTree, CollectInto, SelfValidate, CollectFails,
                LookForLive, BackUp, Rename, RenameFails, LookAgain, MoveBack, MoveBackFails,
                RemoveBackup, CollectorDies
  <2>3. left'.returns = left.returns
    BY <2>2, SpendTypes
  <2>4. QED
    BY <1>1, <2>1, <2>3 DEF MovesOn
<1>7. QED
  BY <1>2, <1>3, <1>4, <1>5, <1>6

LEMMA BuildInitially == Init => BuildInv
<1> SUFFICES ASSUME Init PROVE BuildInv
  OBVIOUS
<1>1. Fresh \in Ended /\ Fresh.phase = "idle"
  BY DEF Fresh, Ended
<1>2. \A b \in Builders : bld[b] = Fresh
  BY DEF Init
<1>3. BuildTypes
  BY <1>1 DEF Init, BuildTypes
<1>4. \A b \in Builders : JobInv(b, bld[b])
  BY <1>1, <1>2 DEF JobInv, Phases, Matched, Measured, Eligibles, Admitted, Built, Publishing
<1>5. OutputInv
  BY DEF Init, OutputInv
<1>6. QED
  BY <1>3, <1>4, <1>5 DEF BuildInv

LEMMA BuildStep == EvidenceInv /\ BuildInv /\ [Next]_vars => BuildInv'
<1> SUFFICES ASSUME EvidenceInv, BuildInv, [Next]_vars PROVE BuildInv'
  OBVIOUS
<1>1. EvidenceTypes /\ EvidenceTypes'
  BY EvidenceStep DEF EvidenceInv
<1>2. ASSUME NEW b \in Builders, Build(b) PROVE BuildInv'
  BY <1>1, <1>2, BuildKeeps
<1>3. policy \in Report \cup {None} /\ live \in Report \cup {None}
  BY <1>1 DEF BuildInv, BuildTypes, EvidenceTypes
<1>4. CASE WritePolicy
  <2>1. UNCHANGED <<bld, output>> /\ policy' \in Report \cup {None}
    BY <1>3, <1>4 DEF WritePolicy
  <2>2. QED
    BY <1>1, <1>4, <2>1, CheckoutMovesOn, BuildersWait
<1>5. CASE EvidenceNext /\ UNCHANGED releaseVars
  <2>1. UNCHANGED <<bld, output>> /\ policy' \in Report \cup {None}
    BY <1>3, <1>5 DEF releaseVars
  <2>2. QED
    BY <1>1, <1>5, <2>1, CheckoutMovesOn, BuildersWait DEF EvidenceNext
<1>6. CASE UNCHANGED vars
  <2>1. UNCHANGED <<bld, output>> /\ policy' \in Report \cup {None}
    BY <1>3, <1>6 DEF vars, releaseVars
  <2>2. head \in Nat
    BY <1>1, CommitsAreNumbers DEF EvidenceTypes
  <2>3. MovesOn
    BY <1>6, <2>2 DEF vars, MovesOn
  <2>4. QED
    BY <1>1, <2>1, <2>3, BuildersWait
<1>7. QED
  BY <1>2, <1>4, <1>5, <1>6 DEF Next

(* A readable manifest stands beside the two archives it was written for,  *)
(* whole, by the same build, and made of the commit it claims, for any     *)
(* number of builds that are given the same output directory.              *)
THEOREM ManifestAlwaysNamesItsOwnFiles == Spec => []ManifestNamesItsOwnFiles
<1>1. BuildInv => ManifestNamesItsOwnFiles
  <2> SUFFICES ASSUME BuildInv, NEW m \in Manifests, NEW n \in Names(m.snapshot)
               PROVE  /\ n \in DOMAIN output
                      /\ output[n].by = m.by
                      /\ output[n].whole
                      /\ m.exact => output[n].snapshot = m.commit
    BY DEF ManifestNamesItsOwnFiles
  <2>1. <<"manifest">> \in DOMAIN output /\ m = output[<<"manifest">>] /\ m.whole
    BY DEF Manifests
  <2>2. /\ m.exact => m.snapshot = m.commit
        /\ Wrote(m.by, "wheel", m.snapshot) /\ Wrote(m.by, "sdist", m.snapshot)
    BY <2>1 DEF BuildInv, OutputInv
  <2>3. QED
    BY <2>1, <2>2 DEF Names, Wrote
<1>2. QED
  BY <1>1, EvidenceInitially, EvidenceStep, BuildInitially, BuildStep, PTL DEF Spec

(* A release is what its evidence attests, however the reads of builder,   *)
(* validator and collector fall between commits and edits, as long as the  *)
(* checkout did not go back while the build ran.                           *)
THEOREM SteadyReleaseIsAlwaysAttested == Spec => []SteadyReleaseIsAttested
<1>1. BuildInv => SteadyReleaseIsAttested
  BY DEF BuildInv, OutputInv, SteadyReleaseIsAttested, Manifests
<1>2. QED
  BY <1>1, EvidenceInitially, EvidenceStep, BuildInitially, BuildStep, PTL DEF Spec
================================================================================
