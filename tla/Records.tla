------------------------------- MODULE Records -------------------------------
(***************************************************************************)
(* What later commands go by, side by side: the initial state picks one.   *)
(* A study's budget (two processes reserve for four runs, one request      *)
(* names another approval), the telemetry log (two processes import three  *)
(* runs; one of them exists with two contents, one is in the old file),    *)
(* Codex rollouts of up to five rows, two calls that start features, a     *)
(* skill, a check compared with its run on the old files, a file copied    *)
(* for that, and the edits a grant allows: of one session whose slices,    *)
(* configuration and commits change meanwhile, and of two sessions whose   *)
(* hooks overlap.                                                          *)
(***************************************************************************)
EXTENDS StudyBudget, TLC

CONSTANTS
    r0, r1, r2, r3, r4, p1, p2,
    Receipts, Legacy, MaxEvents,                                        \* of the log
    Worktrees, Short, Chunks, MaxPrompts, MaxFeatures, MaxCalls, MaxCrashes,  \* of features
    Contents, Closable, MinSupport, MaxTransitions, MaxClosures,        \* of a skill
    Sessions, Slices, Paths, EnvFile, Blockable, Scopes,                \* of what may be edited
    MaxChanges, MaxTurns, MaxHooks, MaxGrants

VARIABLES
    part,
    logOwner, log, logJournal, importing, recorded, logLosses,
    rows, times, runIds, sessionStartedAt, model, tokens, segments, refused,
    home, service, session, said, prompts, hookReads, rewritten, features, refs, lock, rules, removed,
    remembered, progress, told, call, calls, crashes,
    skill, skillFile, revisions, transitions, evaluations, slice, draft,
    source, forms, position, carry, prior, tail, output, scan, finished,
    content, heads, scope, closed, grant, config, waived, reviewing, hosts, latest, heartbeat, answered,
    granter, since, slipped, treeChanges, turns, records, grants,
    tested, world, flipCheck, passing, oldRun, executions, edits

logVars == <<logOwner, log, logJournal, importing, recorded, logLosses>>
usageVars == <<rows, times, runIds, sessionStartedAt, model, tokens, segments, refused>>
startVars == <<home, service, session, said, prompts, hookReads, rewritten, features, refs, lock, rules, removed,
               remembered, progress, told, call, calls, crashes>>
skillVars == <<skill, skillFile, revisions, transitions, evaluations, slice, draft>>
rebaseVars == <<source, forms, position, carry, prior, tail, output, scan, finished>>
scopeVars == <<content, heads, scope, closed, grant, config, waived, reviewing, hosts, latest, heartbeat,
               answered, granter, since, slipped, treeChanges, turns, records, grants>>
flipVars == <<tested, world, flipCheck, passing, oldRun, executions, edits>>

Ceiling == "main" :> 31 @@ "later" :> 60
Wanted == {[run |-> r1, approval |-> "main", maximum |-> 9],
          [run |-> r1, approval |-> "later", maximum |-> 30],
          [run |-> r2, approval |-> "main", maximum |-> 35],
          [run |-> r3, approval |-> "main", maximum |-> 29],
          [run |-> r4, approval |-> "main", maximum |-> 5]}

LoggedReceipts == {[run |-> r0, content |-> 2], [run |-> r1, content |-> 1],
                   [run |-> r1, content |-> 2], [run |-> r2, content |-> 1]}
OldFile == <<[run |-> r0, content |-> 1]>>

Log == INSTANCE TelemetryJournal
    WITH owner <- logOwner, disk <- log, journal <- logJournal, losses <- logLosses

Usage == INSTANCE UsageImport
    WITH RunIds <- {r1, r2}, Models <- {"small", "large"}, Times <- {1, 2, 3}, None <- Absent,
         Counts <- {[input |-> 0, cached |-> 0], [input |-> 2, cached |-> 0],
                    [input |-> 2, cached |-> 2], [input |-> 3, cached |-> 2],
                    [input |-> 5, cached |-> 1]},
         MaxRows <- 5

Start == INSTANCE FeatureStart
    WITH recorded <- remembered, file <- prompts, hook <- hookReads, None <- NoOne

Skill == INSTANCE Skills
    WITH file <- skillFile, history <- transitions, Slices <- Closable, Nothing <- Absent,
         MaxEvents <- MaxTransitions

\* Whole small files, and longer ones of slashes and letters.
Rebase == INSTANCE RebaseScan
    WITH Files <- (UNION {[1..n -> 0..3] : n \in 0..5}) \cup [1..7 -> {1, 2}] \cup [1..9 -> {1, 2}],
         Forms <- {<<<<1, 2>>>>, <<<<1, 2>>, <<1, 2, 1, 2>>>>, <<<<1, 2, 2>>, <<1, 2>>>>},
         MaxStep <- 3

MayAllow == [first |-> {{"a"}, {"a", "b"}}, second |-> {{"b"}}]

Scope == INSTANCE EditScope WITH head <- heads, changes <- treeChanges, hook <- heartbeat

Flip == INSTANCE FlipComparison
    WITH files <- tested, run <- oldRun, None <- Absent, MaxRuns <- 2, MaxEdits <- 1

FlipInit ==
    IF part = "flip" THEN Flip!Init
    ELSE /\ tested = Absent /\ world = Absent /\ flipCheck = FALSE /\ passing = {} /\ oldRun = Absent
         /\ executions = <<>> /\ edits = 0

RebaseInit ==
    IF part = "rebase" THEN Rebase!Init
    ELSE /\ source = <<>> /\ forms = <<>> /\ position = 0 /\ carry = <<>> /\ prior = <<>> /\ tail = <<>>
         /\ output = <<>> /\ scan = Absent /\ finished = FALSE

\* One session edits, under any scopes and configuration; or the hooks of two sessions overlap.
ScopeInit ==
    /\ Scope!Init
    /\ part # "scope" => config = {} /\ scope = [first |-> {"a"}, second |-> {"b"}]
                         /\ \A f \in Paths : content[f] = 1 => part = "sessions" /\ f = "b"

\* Both calls in one worktree, with any memory, or in two.
StartInit ==
    /\ Start!Init
    /\ \/ home[p1] = home[p2] /\ home[p1] = 1 /\ (service => session = FALSE)
       \/ home[p1] # home[p2] /\ service = FALSE /\ session = FALSE

RecordsInit ==
    /\ part \in {"budget", "log", "usage", "start", "skill", "rebase", "flip", "scope", "sessions"}
    /\ Init /\ Log!Init /\ Usage!Init /\ StartInit /\ Skill!Init /\ RebaseInit /\ FlipInit /\ ScopeInit
    /\ part # "start" => home[p1] = home[p2] /\ service = FALSE /\ session = FALSE

BudgetNext ==
    /\ part = "budget" /\ Next
    /\ UNCHANGED <<part, logVars, usageVars, startVars, skillVars, rebaseVars, flipVars, scopeVars>>

LogNext ==
    /\ part = "log" /\ Log!Next
    /\ UNCHANGED <<part, vars, usageVars, startVars, skillVars, rebaseVars, flipVars, scopeVars>>

UsageNext ==
    /\ part = "usage" /\ Usage!Next
    /\ UNCHANGED <<part, vars, logVars, startVars, skillVars, rebaseVars, flipVars, scopeVars>>

\* With a service for the memory nobody says anything meanwhile; with two worktrees nobody removes
\* rules.
StartNext ==
    /\ part = "start" /\ Start!Next /\ (service => hookReads' = hookReads)
    /\ home[p1] # home[p2] => removed' = removed
    /\ UNCHANGED <<part, vars, logVars, usageVars, skillVars, rebaseVars, flipVars, scopeVars>>

SkillNext ==
    /\ part = "skill" /\ Skill!Next
    /\ UNCHANGED <<part, vars, logVars, usageVars, startVars, rebaseVars, flipVars, scopeVars>>

RebaseNext ==
    /\ part = "rebase" /\ Rebase!Next
    /\ UNCHANGED <<part, vars, logVars, usageVars, startVars, skillVars, flipVars, scopeVars>>

FlipNext ==
    /\ part = "flip" /\ Flip!Next
    /\ UNCHANGED <<part, vars, logVars, usageVars, startVars, skillVars, rebaseVars, scopeVars>>

ScopeNext ==
    /\ part \in {"scope", "sessions"} /\ Scope!Next
    /\ part = "scope" => records' <= 2 /\ heartbeat'[r0] = "idle" /\ answered'[r0] = NoOne
    /\ part = "sessions" => treeChanges' = treeChanges /\ turns' = turns
    /\ UNCHANGED <<part, vars, logVars, usageVars, startVars, skillVars, rebaseVars, flipVars>>

RecordsNext ==
    \/ BudgetNext \/ LogNext \/ UsageNext \/ StartNext \/ SkillNext
    \/ RebaseNext \/ FlipNext \/ ScopeNext

RecordsSpec ==
    RecordsInit /\ [][RecordsNext]_
                       <<part, vars, logVars, usageVars, startVars, skillVars, rebaseVars, flipVars, scopeVars>>

Symmetry == Permutations({p1, p2})

-----------------------------------------------------------------------------

\* A report names what took effect, each run once, or is refused, whatever files got lost, and no
\* crash alone makes it refuse (telemetry/journal.ts:74, budgets.ts:108); a receipt's segments add
\* up to its totals, in the order of time, under the model of every token they count.
ReportsAddUp ==
    /\ ReportsGrants /\ CrashKeepsLedger /\ Log!CrashKeepsLog
    /\ Log!ReportsRecorded /\ Log!RunsCountedOnce
    /\ Usage!Reconciles /\ Usage!Chronological /\ Usage!ModelCoversTokens

\* One request starts one feature, which takes each prompt once, under a number of its own; what it
\* leaves to later features is remembered completely, its rules until they are removed. A skill is
\* given to workers as somebody admitted it, while its support stands, and never after it was found
\* harmful.
GivenAsAgreed ==
    /\ Start!OneFeaturePerRequest /\ Start!PromptsTakenOnce /\ Start!OrdinalsDiffer
    /\ Start!MemoryComplete /\ Start!RulesFollowPrompts
    /\ Skill!HarmfulStaysOut /\ Skill!GivenAsAdmitted

\* A grant belongs to the session that asked for it; the edits it allows pass `visp done`, which lets
\* no other change since the first grant through (guard-evaluation.ts:98-413, scopes.ts:154-345).
ChangesStayInScope ==
    /\ [](Scope!GrantNamesItsSession /\ Scope!AllowedEditsClose)
    /\ [][Scope!ClosesInScope]_scopeVars

\* A comparison starts where the passing check did and is recorded with the runs it is about; a file
\* copied for it names the user's project nowhere (flip-check.ts:61, flip-environment.ts:524).
ComparesAside == Flip!ComparesLikeWithLike /\ (part = "rebase" => Rebase!CopyNamesNoProject)

=============================================================================
