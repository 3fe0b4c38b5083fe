--------------------------- MODULE MCCheckExecution ---------------------------
(***************************************************************************)
(* A feature of one slice, two versions of the source, and a brief that    *)
(* may be revised: in nothing a digest covers, in the feature, or in the   *)
(* first slice.  Four settings, which no behaviour mixes: two commands     *)
(* side by side; two that also give advice on passes; one command while    *)
(* versions change; and reviews VISP launches, in a feature of two slices. *)
(***************************************************************************)
EXTENDS CheckExecution

CONSTANTS sliceA, sliceB, p, q

VARIABLE setting

Two == <<sliceA, sliceB>>
One == <<sliceA>>

Digests ==
    [same   |-> [o \in {sliceA, sliceB, None} |-> 0],
     design |-> [o \in {sliceA, sliceB, None} |-> IF o = None THEN 1 ELSE 0],
     scope  |-> [o \in {sliceA, sliceB, None} |-> IF o \in {None, sliceA} THEN 2 ELSE 0]]

Concurrent ==
    INSTANCE CheckExecution
        WITH Sources <- {"v1"}, Briefs <- {"same"}, Statuses <- {"passed", "failed"},
             Flips <- {}
Advising ==
    INSTANCE CheckExecution
        WITH Sources <- {"v1"}, Briefs <- {"same"}, Modes <- {"done"},
             Statuses <- {"passed"}, MaxExecutions <- 2
Versions ==
    INSTANCE CheckExecution
        WITH Commands <- {p}, Modes <- {"done", "accept"}, Briefs <- {"same", "scope"},
             Statuses <- {"passed"}, Flips <- {}
Reviewed ==
    INSTANCE CheckExecution
        WITH Order <- Two, Commands <- {p}, Modes <- {"done", "accept"}, Sources <- {"v1"},
             Briefs <- {"same", "design"}, Statuses <- {"passed"}, Flips <- {},
             ReviewerRules <- TRUE, MaxExecutions <- 5

SettingInit ==
    \/ setting = "concurrent" /\ Concurrent!Init
    \/ setting = "advised" /\ Advising!Init
    \/ setting = "versions" /\ Versions!Init
    \/ setting = "reviewed" /\ Reviewed!Init

ConcurrentNext == setting = "concurrent" /\ Concurrent!Next /\ UNCHANGED setting
AdvisingNext == setting = "advised" /\ Advising!Next /\ UNCHANGED setting
VersionsNext == setting = "versions" /\ Versions!Next /\ UNCHANGED setting
ReviewedNext == setting = "reviewed" /\ Reviewed!Next /\ UNCHANGED setting

AcceptedSpec == setting = "accepted" /\ Init /\ [][Next /\ UNCHANGED setting]_<<vars, setting>>

SettingSpec ==
    /\ SettingInit
    /\ [][ConcurrentNext \/ AdvisingNext \/ VersionsNext \/ ReviewedNext]_<<vars, setting>>
===============================================================================
