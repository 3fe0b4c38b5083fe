---------------------------- MODULE ProductRecords ----------------------------
(***************************************************************************)
(* What the product's records say of its tests and reviews, side by side:  *)
(* the initial state picks one.  Disputes of two pinned tests that the     *)
(* reviewer rules on; two starts of the independent tester; the findings   *)
(* of two slices, or of one feature with several runs and environments;    *)
(* the dashboard's page over a change and a dropped stream.                *)
(***************************************************************************)
EXTENDS PinnedDisputes, TLC

CONSTANTS
    Processes, Suites, FailsOn, MaxTries, TesterEdits, MaxRevisions,        \* of the tester
    Resources, MaxChanges, MaxDrops, MaxFailures, InFlight,        \* of the page
    Feature, Shared, problem,
    item1, item2,           \* tests, and slices
    edition1, edition2,     \* versions of the product, and environments
    host1, host2,           \* processes that start the tester
    suite1, suite2          \* what its testers write

VARIABLES
    part,
    product, files, launch, record, old, brief, status, testers, changes,
    found, verifier, environment, runs, reviews, links, repairs,
    recorded, unsaved, noticed, pending, stream, event, polling, rereading, settling, visible,
    requests, shown, given, outdated, drops, failures

testerVars == <<product, files, launch, record, old, brief, status, testers, changes>>
findingVars == <<found, verifier, environment, runs, reviews, links, repairs>>
pageVars == <<recorded, unsaved, noticed, pending, stream, event, polling, rereading, settling,
              visible, requests, shown, given, outdated, drops, failures>>

FailsIn == edition1 :> {item1, item2} @@ edition2 :> {item2}

\* One suite fails on the product as it was, the other on what the worker made of it.
FailsOnOne == suite1 :> {edition1} @@ suite2 :> {edition2}

Tester == INSTANCE IndependentTester WITH edits <- changes, MaxEdits <- TesterEdits

\* A review of the given version found the problem.
Report(task, version) ==
    [task |-> task, source |-> edition1, version |-> version, resolutions |-> {},
     found |-> {[problem |-> problem, required |-> TRUE, evidence |-> {}]}]

Scopes == INSTANCE Findings
    WITH source <- found, edits <- repairs, Slices <- {item1, item2}, Problems <- {problem},
         Checks <- {"main"}, Verifiers <- {edition1}, Environments <- {edition1}, MaxRuns <- 1,
         MaxReviews <- 3, MaxEdits <- 0,
         Histories <- {<<Report(item1, 1), Report(item2, 1)>>, <<Report(item1, 1)>>,
                       <<Report(Feature, 2)>>}

Repairs == INSTANCE Findings
    WITH source <- found, edits <- repairs, Slices <- {}, Problems <- {problem},
         Checks <- {"main", "near"}, Verifiers <- {edition1}, Environments <- {edition1, edition2},
         MaxRuns <- 3, MaxReviews <- 2, MaxEdits <- 1, Histories <- {<<Report(Feature, 2)>>}

Page == INSTANCE DashboardPage WITH product <- unsaved

ProductInit ==
    /\ part \in {"disputes", "tester", "scopes", "repairs", "page"}
    /\ Init /\ Tester!Init /\ Page!Init
    /\ IF part = "scopes" THEN Scopes!Init
       ELSE Repairs!Init /\ (part # "repairs" => environment = edition1)

InDisputes == part = "disputes" /\ Next /\ UNCHANGED <<part, testerVars, findingVars, pageVars>>
InTester == part = "tester" /\ Tester!Next /\ UNCHANGED <<part, vars, findingVars, pageVars>>
InScopes == part = "scopes" /\ Scopes!Next /\ UNCHANGED <<part, vars, testerVars, pageVars>>
InRepairs == part = "repairs" /\ Repairs!Next /\ UNCHANGED <<part, vars, testerVars, pageVars>>
InPage == part = "page" /\ Page!Next /\ UNCHANGED <<part, vars, testerVars, findingVars>>

ProductSpec ==
    ProductInit /\ [][InDisputes \/ InTester \/ InScopes \/ InRepairs \/ InPage]_
                       <<part, vars, testerVars, findingVars, pageVars>>

-----------------------------------------------------------------------------

\* A suite is pinned only if it failed where the tester was launched.
PinnedFailedAtLaunch == Tester!PinnedFailedAtLaunch

\* The page is given the overview of what is recorded, whatever streams drop (live.ts:22-27).
NothingMissed == Page!NothingMissed

\* No report of a required finding is lost, in whichever scope it was made (findings.ts:44-84), and
\* one is closed only on the last result of a check (feedback.ts:400-520).
FindingsStand == []Scopes!NothingVanishes /\ Repairs!ClosedOnLatestPass
===============================================================================
