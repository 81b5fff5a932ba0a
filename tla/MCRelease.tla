----------------------------- MODULE MCRelease -----------------------------
(***************************************************************************)
(* Instances of Release.  The budgets are alternatives: collections whose  *)
(* promotions race, with two failures; two builds beside a collection while   *)
(* the checkout moves; or one build beside two collections.  Commit 2      *)
(* raises the version, so that two builds may or may not publish under the *)
(* same names.  Collectors are interchangeable.                            *)
(***************************************************************************)
EXTENDS Release, TLC

AnyCollector == Permutations(Collectors)

SomeCommits == 1..2

SomeVersion == [t \in 0..2 |-> IF t = 2 THEN 2 ELSE 1]

PromotionAndBuild ==
    {[moves |-> 0, returns |-> 0, collections |-> 4, faults |-> 2, policies |-> 0, builds |-> 0],
     [moves |-> 2, returns |-> 1, collections |-> 1, faults |-> 1, policies |-> 1, builds |-> 2],
     [moves |-> 1, returns |-> 1, collections |-> 2, faults |-> 0, policies |-> 2, builds |-> 1]}

OneRelease ==
    {[moves |-> 2, returns |-> 1, collections |-> 1, faults |-> 0, policies |-> 1, builds |-> 1]}

MCCommits == SomeCommits
MCVersion == SomeVersion
MCBudgets == PromotionAndBuild
MCOneRelease == OneRelease
=============================================================================
