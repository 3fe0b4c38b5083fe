---------------------------- MODULE MCCriticReview ----------------------------
(***************************************************************************)
(* One feature and a budget of two calls, in either of two settings that   *)
(* no behaviour mixes: two slices whose reviews fail, so that the budget   *)
(* is what matters; or one slice whose reviews answer while the source and *)
(* the brief change, so that the results are.                              *)
(***************************************************************************)
EXTENDS CriticReview, TLC

CONSTANTS sliceA, sliceB

VARIABLE setting

Even == [s \in Scopes |-> 1]

Budget == INSTANCE CriticReview
            WITH Kinds <- {"visp"}, Answers <- {"invalid"}, MaxEdits <- 0, MaxRevisions <- 0
Results(slice) == INSTANCE CriticReview
            WITH Scopes <- {slice}, MaxReserved <- 2, Answers <- {"clean", "findings"}

SettingInit == setting \in {"budget"} \cup Scopes /\ Init

BudgetNext == setting = "budget" /\ Budget!Next /\ UNCHANGED setting
ResultsNext == \E slice \in Scopes : setting = slice /\ Results(slice)!Next /\ UNCHANGED setting

Symmetry == Permutations({sliceA, sliceB})

SettingSpec == SettingInit /\ [][BudgetNext \/ ResultsNext]_<<vars, setting>>
=============================================================================
