# A verification of VISP

VISP (`src/`) is a TypeScript harness for AI coding agents: a CLI and an MCP server that keep a
record of a feature beside the code, authorize edits slice by slice, run checks, call an
independent reviewer ("critic") and close and accept the work on evidence.  Nothing coordinates
its processes except files: a directory that serves as a lock, a journal that makes a group of
writes atomic, and JSON records that are read, judged and written again.  Agents, hosts, editors
and people run commands side by side and kill them at will.  This directory models that in TLA+,
checks it with TLC on small instances, and proves the lock and its scopes, the transactions,
installations, the critic's budget, the commands that close work, the disputes of pinned tests and
the open findings, the ledger of a study, usage reports, the start of features, skills, the grants
of edits, the runner's feedback loop and commands, browser journeys, and the leases of dashboards
with TLAPS for every instance.

## 1. The system

| component | state | operations | who shares it |
|---|---|---|---|
| writer lock, `core/state-lock.ts` | `mutation.lock/owner.json`, `mutation.lock.recovery/`, the process's `activeTokens`, `writers` queue and `scopes` storage | `withStateLock` (acquire, nest, release), reclaim of a dead owner, `doctor --fix --recover-lock` | every process, and every call inside one |
| file transactions, `core/file-transaction.ts` | `state/transactions/<id>.json`, the target files | apply, recover, inspect | runs under the lock; editors write the same files without it |
| checks, closing, acceptance, `workflow/product/evidence.ts`, `check/`, `assessment.ts`, `corrections.ts` | executions, `pendingVerification`, slice and feature status | `verify`, `done`, `accept` | lock, then checks outside the lock, then lock again |
| a check's second run, `workflow/product/flip/` | a captured environment, cached outcomes, a temporary tree | capture, compare, copy and rebase | between a check and its receipt; editors, Git, dependencies |
| critic, `workflow/product/critic/` | one critic state per selection, one budget per feature | reserve, dispatch, submit, relaunch, revise, policy | VISP, hosts with and without an adapter, the brief |
| findings, `workflow/product/findings.ts`, `feedback.ts`, `functional-*.ts` | the history of reviews | report, reproduce, resolve, reopen | reviews and checks |
| advice, `workflow/product/status*.ts`, reviewed `done` and `accept` (`review/`) | derived from the record | `next`, and the commands it names | the worker, the reviewer |
| independent tester, pinned tests, disputes, `workflow/product/tester/` | tester record, suite, brief | start, run in the background, pin, dispute, rule, waive | brief, checks, critic |
| features and memory, `workflow/product/feature-create.ts`, `memory/` | prompts a host recorded, rules, features, memory files or a service | `feature`, `product remove-rule` | host hooks, the memory service |
| orchestration guard, `orchestrate/`, `harness/scripts/pretooluse.script.mjs`, `workflow/product/scopes.ts` | the grant, host sessions, waivers | edit hook, pre-commit hook, `work`, the scope check of `done` | host sessions, editors, Git |
| runner and budgets, `runner/` | the ledger of a study, run directories, one attempt with its actors and reviewer | reserve, settle, run a feedback loop | lock; host processes |
| commands, `core/exec.ts` | a process group, a timer | run, time out, abort, drain | Node's callbacks |
| telemetry, `telemetry/` | hash-chained event log, its head, an older file kept for old readers | append, import a rollout, verify, report | lock and one transaction |
| skills, `skills/` | versions, lineage, evaluations, `SKILL.md` | propose, admit, evaluate, promote, retire, roll back, give | lock; people |
| graph, `graph/` | snapshots and a head in SQLite | walk, refresh, publish, prune | any process, no lock |
| installation, `harness/` | generated files, the Git hook, parts of the project's files, backups, a manifest | `install`, `uninstall`, upgrade | people |
| dashboard, `cli/commands/ui.ts`, `ui/` | a lease, an event stream, a page | start, reopen, stop, announce, fetch | several starts; the repository |
| browser testing, `testing/` | Chrome, its profile, a project server | run a journey, capture, close | the page; the process that hosts VISP |
| migration, CLI, MCP, configuration, doctor, build, benchmarks | read-only, derived, or written by one transaction | - | - |

Commands reach the lock through `withProductMutation`, `withStateMutation` or
`applyFileTransaction`; a nested call joins the lock its caller holds.  A transaction first
recovers what an interrupted one left.  `verify`, `done` and `accept` hold the lock only to
prepare, to publish each receipt and to finish, so that anything may happen in between; a
reviewer likewise runs between a reservation and a result, and a tester between its launch and
the pinning of its suite.

What is hard here, and what makes each part correct:

* **Lock.** Every file system call interleaves with those of other processes; a process may die
  between any two; a clock decides that a half-made directory is abandoned; a token read earlier
  is judged later.  Correct: at most one owner, who still finds its own token at release; only a
  stopped owner is reclaimed; a dead one does not block for ever.
* **Scopes.** Calls in one process queue, nest, run as siblings and outlive their parent.
  Correct: no nested operation runs after the lock it relies on is released, concurrent ones
  serialize, the process does not contend with itself, nothing waits in a circle.
* **Transactions.** Crashes, I/O errors and editors between any two file operations.  Correct:
  all or nothing, always recoverable without outside edits, an edit is lost only inside the
  check-to-write gap, a rollback is complete.
* **Critic.** Results race with deadlines, relaunches, revisions, edits; several selections spend
  one budget.  Correct: the budget holds, one review at a time, a settled attempt is final, only
  current work is credited.
* **Checks.** The source, the brief and the record change while the checks run.  Correct: no
  receipt is lost, a closed slice and an accepted feature rest on passes for the contract in
  force, a review in progress is waited for, a comparison starts where the check did.
* **Findings, disputes, tests.** Records are read, judged by something slow, and saved when the
  world has moved.  Correct: nothing required vanishes, nothing closes on a pass that a later run
  overtook, a rejected test does not pass, a pinned one failed before the work.
* **Advice.** A worker that does what it is told must get somewhere, whatever reviews say.
* **Edits.** Hooks judge single edits, `done` judges everything since the grant, and grants,
  sessions, configuration and commits change in between.  Correct: what was allowed closes, and
  nothing else does.
* **Ledgers and logs.** Several files that belong together, written by processes that die and
  lost by hand.  Correct: ceilings hold, a report is complete or refused.
* **Processes.** Timers, signals, exits and abandoned promises in any order.  Correct: one
  answer, about what really happened; nothing is left running; nothing hangs.
* **Installation, graph, dashboard, skills, features.** Sequences of commands and edits nobody
  tests together.  Correct: the project's text survives, an index tells the truth, a page shows
  what is recorded, a skill is given as admitted, one request starts one feature.

`PROJECT.json` lists every component with its status, and each hazard at the line where it bites.

## 2. The modules

| module | models | stands on |
|---|---|---|
| `ExclusiveOwner` | what the lock promises | - |
| `StateLock` | `acquire`, `createOwner`, `publishOwner`, `release`, `reclaimAbandoned`, `recoverStateLock`, one action per file system call | implements `ExclusiveOwner` |
| `StateScopes` | `withStateLock`'s queue, scopes and leases inside one process | takes the lock as one variable |
| `FileMutations` | mutations, preconditions, snapshots and what they do to a file, as operators | |
| `AtomicUpdate` | what a transaction promises | - |
| `FileTransaction` | journal, apply, verify, commit, roll back, recover | uses `ExclusiveOwner`, implements `AtomicUpdate` |
| `WorkspaceFiles` | lock and transactions as their clients see them: an owner, an update written file by file, a crash, a recovery | what the two above promise |
| `StudyBudget`, `TelemetryJournal` | the ledger of a study; the telemetry log | `WorkspaceFiles` |
| `UsageImport` | one Codex rollout made into a receipt | |
| `CriticReview` | attempts, budget, reservation, relaunch, dispatch, result, submission, revision | |
| `CheckExecution` | `verify`, `done`, `accept`, with `work`, `brief`, edits and reviews between their steps | |
| `FlipComparison`, `RebaseScan` | the second run of a passing check; how a file is copied for it | |
| `Findings` | what reviews found and what closes it | |
| `PinnedDisputes`, `IndependentTester` | disputes of pinned tests; how tests come to be pinned | |
| `AdviceLoop` | `next`, and a worker that does what it says | |
| `FeatureStart`, `Skills` | `feature` with prompts, rules and memory; one learned skill | |
| `EditScope` | grants, the two hooks and the scope check of `done` | |
| `CommandRun`, `FeedbackLoop`, `BrowserJourney` | a command; an attempt of the runner; a browser journey | |
| `DashboardLease`, `DashboardPage` | starts of a dashboard; its watcher, stream and page | |
| `Installation` | `install`, `uninstall` and the files they share with people | a command is one `AtomicUpdate` |
| `GraphIndex` | walk, refresh, publication and pruning of the index | |
| `StateLockProofs`, `CriticReviewProofs`, `CheckExecutionProofs` | theorems about the module they are named for (section 5) | that module |
| `WorktreeProofs` | theorems about `FileTransaction` and `Installation` | `MCWorktree` |
| `Processes` | `StateScopes`, `FeedbackLoop`, `CommandRun`, `DashboardLease`, `BrowserJourney` side by side, and the instance for TLC | these |
| `ProcessesProofs` | theorems about these five and `Processes` | `Processes` |
| `ProductRecords` | `PinnedDisputes`, `IndependentTester`, `Findings`, `DashboardPage` side by side, and the instance for TLC | these |
| `ProductRecordsProofs` | theorems about `PinnedDisputes`, `IndependentTester`, `Findings`, `DashboardPage` and `ProductRecords` | `ProductRecords` |
| `Records` | `StudyBudget`, `TelemetryJournal`, `UsageImport`, `FeatureStart`, `Skills`, `EditScope`, `FlipComparison`, `RebaseScan` side by side, and the instance for TLC | these |
| `RecordsProofs` | theorems about `StudyBudget`, `TelemetryJournal`, `UsageImport`, `EditScope`, `FeatureStart`, `Skills` and `Records` | `Records` |
| `NaturalFacts` | least and greatest elements, induction, the sums of a fold, as facts the proofs cite | - |

Each `MC...` module instantiates these for TLC; a `.cfg` gives the values.  `Processes` and
`ProductRecords`, about which there are theorems, leave the values of the proved parts to their
`.cfg` and hold the few definitions it names.  Several put modules that have nothing to do with each other side by side: a variable `part` names the one that runs,
the initial state picks it, and the others keep their initial state.  A property of such a run
is the conjunction of the properties of its parts.

### StateLock

`lockDir`, `temps`, `owner` are the lock directory and its entries, `recovery` the recovery mutex,
`aged` and `recoveryAged` whether they are past `OWNERLESS_LOCK_MS` and `STALE_RECOVERY_MS`;
`activeTokens` is the union of the in-memory sets; `pc[w]` is where a caller stands in the code.
A token (a UUID in the code) is a writer and the number of its acquisition.  `processIdentity` is
the relation `Sees`: whether one process can tell that another is alive.  `remade` records that
the directory was made again since a reclaimer listed it: its inode may then match by accident or
not, so both outcomes are explored.  Three constants name what the code takes for granted, so
that the theorems can say which of it is needed:

* `HardLinks`: `link()` is available.  Otherwise the code looks for `owner.json` and renames over
  it, two steps.
* `PromptPublish`: a live writer publishes within 30 s of making the directory, and a live writer
  does not stop between unlinking and removing.  Needed only without hard links.
* `PromptReclaim`, `AtomicClear`: a live reclaimer is done with the mutex within 60 s; nothing
  happens between the second `lstat` and the `rmdir` of a stale mutex.

### StateScopes

An action is what JavaScript runs between two awaits.  `phase[c]` follows a call from its making
through queue, acquisition, its turn among its siblings, running, draining (its children settle)
and release.  `Within[c]` is the operation that makes the call, `parent[c]` the scope it joined:
the innermost one still active, which is looked up through the scopes' parents as
`AsyncLocalStorage` and the `active` flags do.  `Hasty` calls pass `timeoutMs` and skip the queue.

### FileMutations, FileTransaction, WorkspaceFiles

A file is absent or has a body and a mode; a symbolic link is a body with the link mode.  One
transaction runs at a time, so the state of the owner is a set of plain variables, lost in
`Crash`.  Every file operation is a step, and each has a failing form that takes the code's error
path: abort in planning and recovery, roll back while applying, an error that keeps the update
after the commit mark.  `ToRestore` is what a rollback found to be applied, as positions in the
journal; `pending` what of it is still to be restored.  `Edit` is an editor outside the lock; `raced` remembers the files edited
in the gap between the last look at them and the next write.  `Store` maps the state to
`AtomicUpdate`, whose `Edit` is the same editor: before the commit mark, targets count for what
they were.  `EditsAnytime` says whether the editor saves during an update too, or between updates
only, where the refinement holds.  `WorkspaceFiles` keeps of all this the owner, the files on disk
in the order they are written, and the journal that names what was there before; the ledger, the
log and their reports add contents and the loss of files.

### StudyBudget, TelemetryJournal, UsageImport

`StudyBudget` reserves the whole estimate of an attempt from an approved ceiling, rounded up to
the micro-dollar; the record is chained, copied to the run's directory and summed up in a
projection, and each is compared before the next reservation and a report.  `TelemetryJournal`
chains events from a baseline taken from the older file.  The hash of a record is the sequence of
everything it chains.  `UsageImport` reads rows of cumulative counts; model, time and session are
those of the row.  A resumed session's `startedAt` is the first row's.

### CriticReview

`attempts` is the history of all selections; `dispatch` is what the process that reserved each
attempt is doing, so that it may die at any point while the attempt stays pending.  `expired` is
the deadline; deadlines pass in the order of reservation within a selection.  The ledger
`critic-budget.json` is not a variable: `readFeatureCriticBudget` merges every attempt into it on
each reading, and the two are saved by one transaction.  `kind` tells a review VISP launches
itself from a host's with an adapter or without: only VISP's are relaunched, and only theirs are
given back when they got no response.  `Total` adds up the reserved time as a recursive
function.  Every `Timeout` is within `MaxReserved`: the configuration allows a call five minutes
at most, and a feature has eighteen.

### CheckExecution

Each `withProductMutation` is one action: `Prepare`, `Publish`, `Finish`, `Work`, `Revise`.
Between them, `Run` executes a check on the source of that moment and `Reuse` skips one that had
passed.  `batch` is what the process knew when it started; a receipt (`Receipt`) names that
version and contract, and `ran` remembers, for properties only, the version the check really met.
`flip` is the advice of a compared pass; `Reuse` of a slice's own pass may replace it in the
receipt, where it stands (`refreshFlip`).
A brief is one of a few documents, of which the model keeps the digests per slice and for the
feature.  `Picked` keeps the wanted checks in the order of the brief.
`gaps` in `Finish` is a free choice that stands for what is not modelled: journeys,
images, reviews, feedback, pinned files.

### FlipComparison, RebaseScan

`FlipComparison` captures what a check may overwrite, runs the check, reads its sources again and
runs it on the old implementation with the tests of that moment, or takes over the outcome of an
earlier comparison of the same sources.  What the check answers is any function of both files; the
world is what Git does not track.  `RebaseScan` copies one file in steps, carrying the bytes that
may be the start of a spelling of the project's root; `RebaseWindow` is the scan of one window, and
the property compares the output with the spellings, at path boundaries, of the whole file.

### Findings, PinnedDisputes, IndependentTester

The open findings are computed from all reviews (`RetainedFinding`, `Reference`), those of older
builds without a stable identity included.  `Review` closes one on evidence that the code accepts:
a reproduction and a later pass, or a current pass.  In `PinnedDisputes` the tester's record
(disputes, rulings, waivers) and the review that ruled lie in two files saved one after the other;
a save that finds the record changed is refused and read again.  `worker` and `reviewer` are the
two processes, records that start from `Idle` and `NoReview`.  `IndependentTester` is the
launch, the answer and the pinning by processes that may be slow, die and be started again.

### AdviceLoop

`Advice` is the case analysis of `next`; `Work`, `Edit`, `Done`, `Accept`, `Stop` do what it
says, with the refusals of `work` and the reviews that `done` and `accept` start.  A slice has one
outcome and one check; `works[v]` are the checks that pass on version `v`.  A careful edit leaves
working what was worked on; a bounded number of slips breaks some of it.  Reviews judge anything,
report and resolve any subset of findings, leave an outcome unclear, fail, or are cut off.

### FeatureStart, Skills

A call of `visp feature` reads prompts, duplicates and memory without the lock, consults models
and a service, and creates the feature under preconditions on what it read.  `Claim` reserves an
ordinal in Git, or uses it without a reservation where Git cannot be written; a request in `Short`
(under 20 characters) is never taken for a repetition.  `claimed`, `heard`, `removed` and
`rewritten` are history, for properties only.  `Skills` keeps one
record whose version is its content, its origin and its cited slices, so that changed support is
another version; `Given` is what a worker's packet takes.

### EditScope

`Ask` and `Commit` are the hooks' questions, answered by `Allowed`; an edit happens some time
after its answer.  `Work` stamps a grant with the session the heartbeat names, `Done` judges all
changes since the grant's baseline, commits that came from elsewhere excluded.

### CommandRun, FeedbackLoop, BrowserJourney

Callbacks are actions and happen in any order the program allows.  `CommandRun` has the root
process and its descendants, which may ignore SIGTERM or hold the output.  `FeedbackLoop` counts
time in ticks and money in units, with actors and a reviewer that report any cost.  In
`BrowserJourney` the body of a journey goes on when its caller gave up on it; Chrome crashes, does
not answer, and dies with VISP or later.

### DashboardLease, DashboardPage, Installation, GraphIndex

The lease is one file, read and removed without a lock; pings tell whether somebody listens.
The page counts contents: each request returns what was there when the server read it, each
change is announced unless the stream is down, and responses arrive in any order.  `given` and
`outdated` are history: what the page was given, and whether the last answer was to a request that
a later one had overtaken.  `Installation` applies one plan per step, between
edits of every file by people; `mine` remembers the hook the project wrote.  `GraphIndex` takes a source
for what it defines, imports, re-exports and calls, so that "parsing what changed" can be compared
with parsing everything; indexers run under no lock, and a publication is two transactions.  A
snapshot's `read` and `missed` are history: with which content each file was last parsed, and what
was parsed when a walked file was gone.

## 3. What TLC checks

Passing runs.  "States" is the number of distinct states.

| run | instance | shows | states |
|---|---|---|---|
| `lock_shared` | two callers in one process that cannot die, one in a process that can; one acquisition each; doctor may recover; with hard links, or without them where one caller fails to write and only one of the other two asks | the lock implements exclusive ownership; an owner finds its own token; only stopped owners are unlinked | 661,705 |
| `settling` | the lock: two processes, one in an unknown pid namespace, no hard links, failing file operations, two acquisitions each; transactions: two operations, three files, five kinds of plan, eight crashes, errors and edits between updates; advice: two slices, independent or one after the other, with two reviews, and one slice with three, with any judgment. Under fairness | active tokens belong to operations, dead owners and ownerless directories go away; updates are all or nothing and always recoverable, journals settle; a worker that follows `next` is refused in two known situations only, and comes to an end but for these and one more | 108,041 |
| `worktree` | a transaction with an editor at any moment and three faults or edits; an installation of two harnesses, two builds and two edits, once where people edit generated files and the Git hook, once where they edit entries in shared files; two indexers over four files and two edits | edits are lost only in the gap, commits are verified, rollbacks complete; the project's hook runs, what nobody edited is known as VISP's; a refreshed index is the one a full run of the files, as they were read, would have made | 458,924 |
| `reviews` | two slices, two calls, time for three, reviewers that answer nonsense, fail, are cut off or die; or one slice, two calls, an edit, a revision, VISP and a host | calls and time hold; a consultation leaves a product call; one review at a time; settled attempts are final; only current work is credited | 644,070 |
| `checks` | two processes, all three commands; or one, with two versions and two contracts restored at will; or two slices under VISP's own reviewer; or one process, with passes that are reused and advised again | no receipt is lost or changed but in its advice; each command judges on everybody's receipts; acceptance and closure rest on passes for the version and contract in force; reviews are waited for | 1,967,440 |
| `processes` | nested calls of the lock (three callers, calls two deep); a feedback loop of two rounds; a command with descendants; three starts of a dashboard; a journey that waits, sends input and waits. Under fairness | nested work stays under its lock and serializes; budgets hold; nothing is left behind; success is earned; nothing hangs | 307,867 |
| `records` | a study of four runs; a log of three runs and two losses; rollouts of five rows; two calls that start features, with prompts or with a memory service; a skill of two contents; a file copied in steps; a compared check with two runs; grants of one session that change, and of two that overlap | ceilings hold, reports add up, one request starts one feature unless it is short, a skill is given as admitted, comparisons start where the check did and name no user project, grants name their session, allowed edits close and no others do | 1,118,490 |
| `product` | two disputed tests; two starts of a tester; findings of two slices, or of one feature over two versions and environments; a page over one change, one dropped stream, one failed request, two requests at a time for a resource, answered in any order | passes are earned, rejections stand, pinned tests failed at launch, findings stand, the page is given what is recorded | 1,350,612 |

Every property is paired with a mutant of the code (the `Bug...` operators beside the definition
they would replace): a plausible slip that makes the property fail in the same instance.  A
property that speaks of several parts has one for more than one of them.

Bounds, and why they are enough:

* Three writers are what a reclaim needs: a dead owner and two contenders that race for its lock
  and for the recovery mutex; two callers in one process add the in-memory tokens.  The proofs
  remove this bound.  One acquisition each suffices for races; a second one (`settling`) lets a
  process meet its own abandoned token.
* Three nested calls give a chain, siblings, and a child that outlives its parent.
* Two targets and an assertion give every order of a first, a middle and a last step; eight faults
  let each recovery be interrupted again.
* Two calls and time for three reservations separate "no call left" from "no time left" and leave
  room for a relaunch given back.
* Five receipts are a whole feature of two slices: each slice's own check, the other's for the
  feature, and the pinned suite twice or accepted by reuse; three are a slice, its pinned suite
  and one more run.
* Advice: two reviews suffice for one that leaves findings in both slices and one that finds the
  budget spent, and for one that repeats an unclear judgment; the ordered slices add an edit that
  breaks the other slice's work; with one slice a third lets a repair be found wanting.  A worker
  reaches version 12 in no behaviour, so the bound on versions cuts nothing off (checked with that
  as an invariant).
* A copied file of nine bytes holds two spellings and a boundary at any offset of the three-byte
  step; all files of up to five bytes are tried.
* Two edits give an index, or an installation, that is edited during one command and again before
  the next.
* A rollout of five rows has three differences and may shrink, repeat and change its model once.
* Two losses take a record and what names it.

Symmetry is used only for interchangeable callers, slices, commands and indexers, never with
liveness.

Fairness.  It is weak throughout, and each part of a run has its own.  Lock: a live process goes
on with what it does, a sleeping contender wakes up (`acquire` polls until its own deadline), and
time passes; nothing is assumed for starting, for crashes, for errors or for giving up.  Scopes:
the event loop runs what is ready, and an operation ends.  Transactions: a running operation goes
on and commands keep coming; a bounded number of faults stands for "not every attempt fails".
Advice: the worker goes on until it is told to stop.  Commands, loops, dashboards, journeys:
timers fire, signals arrive and callbacks run; SIGKILL works, a journey's own files can be
written (`fulfill`), and hosts end by their deadline because the runner kills them.  As only one
part moves, one condition for the progress of all of them (`Progress` in `Processes`) is the
same as one for each.  Nothing in the modules without a fair specification is stated in time.

Where the system may really stop, the configurations switch deadlock checking off: callers that
made all their acquisitions, calls that returned, a budget that is spent, edits that are used up.

## 4. What the code does not do

Violation runs, each with its trace from TLC:

* `review_died` (`OnlyReturnedFailuresBlock`): a reviewer whose process died is settled by the
  relaunch that replaces it as an unavailable attempt without an adapter call, which `hardFailure`
  counts as hard.  The comment there says such a reviewer "was slow, not broken", and that "only a
  failure the reviewer itself returned counts toward blocking".
* `checks_accepted` (`AcceptedMeansClosed`): `accept` asks whether every slice is closed when it
  starts, not when it finishes.  A slice reopened by `visp work` for a failure that the running
  accept then supersedes with a pass stays in progress in an accepted feature.
* `dispute_stale` (`NoStaleRuling`): the packet of a review lists the open disputes whatever
  version they were observed on, so a reviewer started on an edited source rules on a failure of
  the old one; the comment at `pinned-disputes.ts:346` says it "never rules on stale output".
* `advice_stuck` (`LoopEnds`): the second slice depends on the first, both have findings, the
  first was reopened and the budget is spent.  `next` advises `work` on the second, which still
  lacks a repair round, and `work` refuses because the first is not closed.  README.md:56 and
  docs/critic.md:34 say that the loop always ends.

The modules state more expectations that a comment or a document raises and the code does not
meet.  They are not among the runs; each is reproduced by checking the definition alone.

| definition | instance | what happens |
|---|---|---|
| `StateLock!MutualExclusion` | `MCLockShared.cfg` with a process for each of three writers, one of them mortal, and `AtomicClear = FALSE` | the gap that state-lock.ts:380-383 accepts lets a contender remove a fresh mutex; two reclaimers run at once, and the slower one unlinks the lock the faster one won |
| `StateLock!ReclaimCompletes` | `MCLockShared.cfg` | an owner that died between `link` and the `unlink` of its temporary file leaves both; the reclaimer's `rmdir` fails and its caller gets an error; the directory is reclaimed later, by age |
| `FileTransaction!ErrorRolledBack` | `FileTransaction` with the constants of `MCSettling` | a journal that cannot be removed after the commit mark is returned as the error of an update that stays |
| `CriticReview!EndedNeverReturns` | `MCReviews.cfg` | an answer given in time that waits for the writer lock past the deadline is settled as ended without a result |
| `CriticReview!RevisionRefundsNothing` | `MCReviews.cfg` | a revision of the brief settles a running VISP review as unavailable, and so gives its call back; critic.md:125 says it never does |
| `CheckExecution!ClosesOnWhatRan` | `MCChecks.cfg` | a check that met an edited source is credited to the version its command started from, and closes the slice once that version is restored |
| `CheckExecution!LastDoneRunsPinned` | `MCChecks.cfg` with two slices | two `done`s that start while the other's slice is open both leave out the pinned suite |
| `FeatureStart!RemovedRulesStayRemoved` | `Records.cfg`, a Codex session | a rule that was removed is read from the session again and applies to the next feature (with a host's file, only if the hook wrote a taken prompt back); docs/configuration.md:114 says it stops at once |
| `DashboardLease!ReopensRunning` | `Processes.cfg` with a start on a port | a dashboard started with `--port` replaces the lease of the running one |
| `DashboardPage!ShowsLatest` | `ProductRecords.cfg` | two responses for the overview arrive in the other order, and the older one stays on the page until the next change or until the tab is shown again: the re-read of every 30 s fetches the feature only (ui/src/resources.ts:34, live.ts:20; docs/dashboard.md:44 says "within a moment") |
| `GraphIndex!SnapshotReadable` | `MCWorktree.cfg` | an indexer that published before the head moved on prunes the snapshot the head names (store.ts:122 and :290), and the index reads as none until the next publication; store.ts:67 says that a reader sees a complete snapshot |
| `CheckExecution!AppendOnly` | `MCChecks.cfg` | `done` reuses the pass of a slice's own check, compares it once more and replaces the recorded advice (check-lifecycle.ts:97 and :244); docs/internals.md:61 calls the history append-only |
| `AdviceLoop!LoopEnds` | the slices of `settling` | `accept` needs a review of the unclear outcome, which is refused as a duplicate of the last one; `next` says `accept` again.  VISP itself makes poorly cited assessments unclear (review-citations.ts:40) |
| `AdviceLoop!AdviceIsTaken` | the two slices of `settling`, a slice's review that names the other slice's outcome only | `done` closes a slice and then reviews it; the finding belongs to the closed slice, `next` advises `work` on it, and `work` finds no reason to reopen it |
| `BrowserJourney!NoBrowserOutlivesVisp` | the journey of `Processes.cfg`, a host without signal handlers | `visp capture` does not listen to signals (cli/commands/product.ts:207), so one that is interrupted leaves Chrome and its profile; chrome-transport.ts:134 says every browser still running is killed |

Read in the code while modelling, and not run:

* Flip comparisons: waivers are not part of the identity of a comparison; an "unchecked" outcome
  is kept until the sources change; an environment captured for a check of an hour is as old as
  what another comparison sweeps (flip-environment.ts:47, model.ts:90), and the copy of a swept
  one is silently empty; a root linked into itself has two spellings at one place, of which only
  the first is considered.
* Grants: one asked for again keeps its baseline only when no other slice was granted in between
  (work.ts:344 says otherwise); after a revision, or in another session, the pre-commit hook finds
  no active slice and lets any commit through, which `done` then excludes; a session idle for an
  hour is no longer listed, so `work` over MCP may be stamped with another; two sessions may lose
  an update of the stop hook's counter.
* Browser: a caller that gives up while a file is fetched may see it reported as a refused file;
  Chrome that takes 2 s to die of SIGKILL makes a finished journey throw; helpers of a crashed
  Chrome survive a VISP that exits before closing.
* Graph: a refresh keeps an import that an added file now takes by preference (`Shadowed` leaves
  such files out of the comparison); a file that vanished between the walk and the reading and came
  back as it was leaves a gap in what imports it (`missed`).
* Skills: support that is lost and restored between two `visp skill list`s brings a skill back;
  a harmful text may return as another version.
* Installation: `install` overwrites an edited VISP hook without `--force` or a backup, while
  `uninstall` takes it for the project's; after an upgrade `uninstall` keeps the older build's MCP
  entry as customized; the backup of a text already backed up is not renewed and may be the next
  to go.
* Features: two worktrees whose Git cannot be written may give one number, and a request of fewer
  than 20 characters may start two features, as the code's comments say; a second call after the first has finished, with its prompts taken, is not known as a
  duplicate; concurrent recording of one memory part fails one of the calls.
* A tester that is still running after 26 minutes is taken for dead although its deadlines add up
  to more.

## 5. What is proved

For every value of the constants: any callers and processes, any project and plans, any slices,
limits, tests, versions and ceilings, any journey, any number of crashes and failures.  The
assumptions on constants are named where they are declared (`...Constants`) and say what types they have and what the code
guarantees: a plan names a target once, a slice's contract is part of the feature's, a call's
time is within the feature's.  TLC evaluates each of them in a run.

| module | theorem | states |
|---|---|---|
| `StateLockProofs` | `LockTypes`, `Exclusion`, `HolderKeepsOwner`, `ReclaimSafety`, `Refinement` | `TypeOK`, `MutualExclusion`, `OwnerNamesHolder`, `ReclaimsOnlyStopped`, `ImplementsExclusiveOwner` |
| `ProcessesProofs` | of scopes: `TypeCorrect`, `NestingIsSound` | `TypeOK`, `NestingSound` |
| | of the loop: `LoopTypeCorrect`, `LoopWithinBudget`, `ReviewKeepsItsTime`, `CompletionIsEarned`, `FrozenIsJudged` | `TypeOK`, `WithinBudget`, `ReviewTimeReserved`, `CompletedOnPass`, `JudgesFrozenCandidate` |
| | of a command: `GroupIsReaped`, `SuccessIsEarned`, `TimeoutBeforeExit` | `GroupReaped`, `SuccessIsItsOwn`, `TimeoutNotAfterExit` |
| | of dashboards: `StoppedTakesItsLease`, `ReopenedListens` | `StoppedLeavesNoLease`, `ReopensListening` |
| | of journeys: `JourneyLeavesNothing`, `JourneyTellsTheTruth`, `JourneyResultSettled` | `NothingLeft`, `JourneyTellsTruth`, `ResultSettled` |
| | of all of them: `LoopKeepsBudget`, `NothingIsLeftBehind`, `CreditEarned` | `LoopSharesBudget`, `NothingLeftBehind`, `CreditIsEarned` |
| `WorktreeProofs` | of transactions: `TypeCorrect`, `CommitIsVerified`, `RollbackRestores`, `OverwritesSeen`, `Recoverable`, `UpdatesAreAtomic` | `TypeOK`, `CommitsOnlyVerified`, `RollbackComplete`, `OverwritesOnlyWhatItSaw`, `AlwaysRecoverable`, `ImplementsAtomicUpdate` |
| | of installations: `HookAndOwnFiles`, `UserTextIsKept` | `InstallationOwnsItsOwn`, `KeepsUserText` |
| `CriticReviewProofs` | `TypeCorrect`, `SettledStays`, `CreditIsCurrent`, `BudgetKept`, `ReviewsOneAtATime`, `ProductCallKept` | `TypeOK`, `SettledForGood`, `CreditsCurrentWork`, `WithinBudget`, `OneReviewInProgress`, `KeepsProductCall` |
| `CheckExecutionProofs` | `TypeCorrect`, `HistoryAppends`, `ReviewIsAwaited`, `LatestJudged`, `PassesBehindTheEnd` | `TypeOK`, `HistoryGrows`, `WaitsForReview`, `JudgesLatest`, `EndsOnPasses` |
| `ProductRecordsProofs` | of disputes: `TypeCorrect`, `PassIsEarned`, `RejectionIsFinal` | `Types`, `PassesAreEarned`, `RejectionsStand` |
| | of testers: `PinnedOnFailure`, `BaselineIsFirst` | `PinnedFailedAtLaunch`, that `launch` is written once |
| | of findings: `FindingsAlwaysStand` | `FindingsStand` |
| | of the page: `PageMissesNothing` | `NothingMissed` |
| `RecordsProofs` | of grants: `EditsStayInScope` | `ChangesStayInScope` |
| | of the ledger: `TypeCorrect`, `CeilingKept`, `ReportsAreGrants`, `CrashLeavesLedger` | `TypeOK`, `WithinCeiling`, `ReportsGrants`, `CrashKeepsLedger` |
| | of the log: `LogTypeCorrect`, `ReportsAreComplete`, `CrashLeavesLog`, `CountedOnce` | `TypeOK`, `ReportsRecorded`, `CrashKeepsLog`, `RunsCountedOnce` |
| | of ledger, log and receipts: `ReportsAlwaysAddUp` | `ReportsAddUp` |
| | of features and skills: `GivenAsItWasAgreed` | `GivenAsAgreed` |

### The lock

All theorems but `LockTypes` assume `HardLinks`, `PromptReclaim` and `AtomicClear`;
`PromptPublish` is not assumed: a publisher that stalls for an hour loses its directory, never its
exclusivity, because `link` fails once the temporary file or the directory is gone.
`lock_shared` and `settling` check the protocol without hard links, where the 30 s do matter.

`MutualExclusion` is not inductive: a reclaimer about to unlink `owner.json` would break it from
a state in which it judged a live owner.  `IInv` is the conjunction of

1. `TypeOK`;
2. `TokensUsed`: a token in `owner.json`, or one a reclaimer remembers, is of an acquisition that
   has published already, so no writer will publish it again;
3. `Paths`: doctor acquires nothing, and nobody renames;
4. `Ownership`: a publishing writer is active, and an owner's token is the one in `owner.json`;
5. `Judgement`: what a reclaimer judged stopped stays stopped, since its token is used up;
6. `Mutex`: the live reclaimer past the mutex is the one that holds it, and only a dead one's
   grows old;
7. `Rereading`: what was read again under the mutex stays in `owner.json` until it is unlinked:
   nobody else unlinks it (6), and nobody links over it;
8. `ActiveMeansHeld`.

One step per action shows that `[Next]_vars` preserves each part the action can disturb.  The
refinement proof takes the same cases: publication is `Acquire`, the unlink of one's own
`owner.json`, a failed release and a crash are `Relinquish`, and everything else stutters.

### Scopes

Calls wait in lines: those of the process's queue, and the children of each scope.  `Line` says
what such a line is by its sets of members that contain everybody who waits for one of them
(`Closed`): all of these contain the rear member, and of any two one contains the other.  Joining
behind the rear one and leaving at the front keep a line (`Joins`, `Leaves`), and at most one
member of a line waits for nobody in it (`OneServed`): so one call of the queue is past it, and
one child of a scope runs.  Besides the lines, `IInv` says that

* no scopes lie inside each other in a circle (`Rooted`), so that the functions by which the
  module follows the scopes around a call exist; `Defined` carries that along, as a step adds one
  scope whose own are known already;
* a call goes on only when the one before it is done (`Turns`), a scope is active until its
  children are done (`LiveParents`), and a call that is not nested has the lock from its
  acquisition to its release (`Holds`).

`NestingSound` follows: up the scopes of an active call all are active, and the topmost has the
lock; as only one call has it, two active calls have the same topmost scope, and where their ways
part two children of one scope would be running.

### An attempt, a command, a dashboard

The properties of these modules, and of a journey, are the parts of the conjunctions that
`processes` checks.  `PartsAre` shows that each part of `Processes` behaves as its module says,
because a step of one leaves the others where they are; so the conjunctions follow for the very
specification TLC explores.

The feedback loop is within its budget because of what holds while a turn is under way
(`Shares`): the money charged so far and the turn's allocation fit the attempt, as do the time
that has passed, the actor's time and a whole review.  `ShareFits` is the reason, that a share of
what is left is at most what is left, however it is divided; only what a host reports beyond its
allocation is an overrun.  `Judged` ties completion to a review: an attempt completes only on a
pass, with all criteria passed on evidence, by the exercise each had failed before, and it ends so
only if the frozen candidate is still in place.

Of a command, `CommandRuns` says that a signal was sent because the time was over or somebody
aborted, that the exit code once seen is the root's, and that whoever was started is gone with the
answer.  Of dashboards, `LeaseFiles` says that a lease is there only while its dashboard has not
removed it, and is of the repository it is filed under.

The hypotheses are about values: `Amounts` (limits and reported costs are numbers), `ExitCodes`
(a code is not "alive" or "not started"), `ActionList` and `NoResult` (a journey's actions are a
list of the three kinds, and the value for "no result yet" is none) and `None \notin Starts`.
They are not assumptions of the modules, which `Processes` uses by `INSTANCE`, where TLC would not
evaluate them.

### A browser journey

What the tasks of a journey are is a recursive function of its actions.  `TasksAre` proves by
induction what the argument needs of it: the page comes first, and after the last image of the
page nothing comes but looks at it, the last task being one (`Shown`).  The invariant has four parts:

* `Orderly`: Chrome is stopped once nothing is written any more and the profile goes after it;
  closing has begun only in a closed session, or in one that never ran.  `NothingLeft` follows.
* `Blames`: an exception, a failure to be shown in an image and a failure already returned are the
  page's own.  While a session is open a project's server is there, so a page without its server
  throws nothing that counts.
* `Place`: as long as the caller waits, the images are those of the tasks done so far, the page
  was not refused and showed what was awaited; and when all since the last image were looks, no
  file was refused and none is being answered, because `Begin` does not wait and nothing is
  requested meanwhile.  This is what makes the last look at the end enough.
* `Complete`: a completed journey stays as it was; its session is closed and hears of nothing.

`BodyMoves` sorts every step of the body into five kinds, so that each part is proved once for all
tasks.

### File transactions

`IInv` says what the properties leave out: lists name a target once (`Distinct`); from its write
to its removal the journal on disk is the one in memory (`OwnJournal`); during a rollback an entry
still `pending` is as the update made it and any other is back (`Restoring`); what was looked at
is so still (`Checked`), each unless `raced`.  `CommitIsVerified`, `RollbackRestores` and
`OverwritesSeen` follow with an editor at any moment.

`Recoverable` and `UpdatesAreAtomic` assume `~EditsAnytime`: nobody but the owner writes during
an update.  They are false otherwise, since recovery leaves a third state of a file alone; that is
the code's decision, and `worktree` explores it.  The invariant behind them, `Undisturbed`, adds
that the entries in memory were made from an accepted plan and that each target of a prepared
journal is exactly what it was or what it was to become.  The refinement maps the files to their
contents before the update until the commit mark (`Store`): the mark is the update; writes,
rollbacks and recoveries stutter; an edit is an edit.

### Installations

`MCWorktree` takes harnesses, profiles, generated and shared files, options and bounds as constants,
so the theorems hold for any of them; `InstallationConstants` asks that generated files, shared
files and the hook are different files and that "no file" is no text.  `InstalledInv` says why
each command can trust what it finds:

* `InManifest`: a generated file is gone, the user's, or exactly what the manifest says, and the
  manifest has only texts of VISP's; a hook of VISP's is the one in the manifest.  This is
  stronger than `UntouchedIsOwned`, which also takes what the running build would write, and it
  survives the upgrade of VISP, after which the build would write something else.
* `Chained`: what is set aside as `pre-commit.local` is a hook of the project's, which chains
  nothing, and the project's own hook is the hook or chained.  `install` refuses to set a hook
  aside where another one already is (`HookBlocked`); without that the first one is lost.

For `KeepsUserText` every command is split by file: `install` writes, drops or leaves an entry, and an
edited entry it writes without `--force` is an MCP entry whose file it has just copied
(`SavedCopies`, for any number of copies kept); `uninstall` takes only what it recognizes.  That
the manifest has none of the user's texts is what protects their files in both.

### Reviews

`TypeCorrect` carries along what a settled attempt looks like (`Sound`).  Every action leaves the
history as it is, lets pending attempts go on (`GoesOn`) or appends one, and the theorems are read
off these three shapes.  `BudgetKept` needs that the sum of the reserved times does not change
when attempts go on, and grows by the new one's when it is appended: `SumsExist` to `TotalAppend`
prove that of the recursive function, `OneMoreCosts` adds the count of calls.  `ProductCallKept`
is the argument behind the rule for consultations: as long as every attempt is one, some scope can
still afford a product review, because a consultation is reserved only when two reviews fit.
`OneReviewInProgress` is not inductive: it holds because a revision settles what is pending
(`PendingIsCurrent`), a second attempt is reserved only past the deadline of the first
(`EarlierExpired`), and a VISP launch settles those of its own phase (`LaunchAlone`).

### Checks, closing and acceptance

`Types` contains, besides types, that a running command has in its batch at least the checks of
what it would close or accept (`Covers`), which rests on what `Picked` keeps, and that an accepted
feature is accepted for the contract in force.  `EndsOnPasses` follows because only `Finish`
closes or accepts (`OnlyFinishCloses`), what it finds are passes by everybody's latest receipts
(`ClosingFinds`, `AcceptingFinds`), and a recorded pass stays one as long as its contract does
(`PassStays`), because what is replaced in place is advice alone (`HistoryKept`); a brief that
changes the contract takes the closure and the acceptance back.

### Disputes of pinned tests

An upheld dispute names an attempt of the other file, and the attempt a reviewer works at is
undecided; so a waiver is looked up in a review that is there, and only the reviewer's own save
decides it.  `DisputesChange` shows that a save made from an old copy never counts: every change
of the disputes is one of what they are now.  A pass is new only with waivers for all that fails
(`PassNeedsWaivers`), and an accepted review never changes (`Stays`).

### The independent tester

Before the first launch nothing is recorded or pinned; after it everything is about that launch:
each state of a process knows the sources, a record is about them, and a suite that is kept,
written or pinned failed on them (`States`, `RecordsOf`, `Sound`).  What a process read long ago
is harmless because it, too, is about the one launch, which no step changes; a confirmed record
names a suite that is pinned, and pinned suites only grow (`MorePinned`).  `NoneIsNoLaunch` says
that the value for "not launched" is no launch.

### Findings

What reviews leave open is a fold over their history.  `OpenIs` and `NextOpenUpTo` prove that the
function behind it is what its definition says, so that one more review changes what is open by
`AfterReview` and nothing else (`AfterOne`).  The invariant is about the history as a whole: an
identity names the problem and, unless it is the shared one of a review that named no owner, the
task that owns the finding (`OpenOK`); and every required report is open for the task that made it
or was closed, later and by name, by a review of that task or of the feature (`Standing`).
`Resolved` and `ReportAdds` show why neither a resolution nor a report can take away what another task owns.
Every review appended is one whose closing resolutions cite a run that was the last of its check
and passed (`Adds`), which both instances of `Findings` in `ProductRecords` satisfy although they
differ in what else may happen.  `ScopesDiffer` says that the marker of an identity without an
owner is not a slice, and that there are two slices.

### The page

The invariant, `PageKeepsUp`, is about the request for the overview made last.  When no change is
on its way and that request was not answered, its answer is still to be read or is what is
recorded; when it was answered, the page was given what is recorded, and shows it until a request
that it overtook is answered too (`AskedLast`).  Nothing is assumed about the order of responses:
whichever arrives marks the requests made before it (`AllOvertaken`), and that mark is what
`outdated` tells.  The invariant holds until the first request fails: a failure puts back what was
shown when it was asked.  `PageConstants` says that the overview is among the resources.

### The edits a grant allows

`GrantInv` compares the standing grant with what happened since: it names nobody or the session
that asked for it, `since` is what it recorded, and each file that was changed since, was not
committed since and is blocked or outside the granted contract (`Outside`), was changed other than by an
edit the grant allows.  It speaks of the contract the grant was given for and not of the brief's
scope of now, so it survives a revision of the brief and one that takes it back.  `CallerKnown` is
why the stamp is right: while a session's shell runs, its heartbeat is there (`HookKnown`), so it
is the latest session or not the only one.  The one hypothesis is that what Git ignores is among
the files.  For two sessions and for changing grants `Records` bounds what happens, by session and
by counter; the theorem has no such bounds, since every step of `Records` is one of `EditScope`.

### The ledger of a study

`Stood` says that there are records, a chain in which each names the one before and adds to its
sum (`Chain`), that they are the grants (`Grants`), and that what recovery would leave on disk is
those of their files that were not lost (`Keeps`).  Only a commit mark and a loss change that
(`StepKinds`): a write in the middle of an update, a crash and a recovery do not.  A reservation
that the command agreed to found the ledger sound, the run without a record and the rounded sum
within the rounded ceiling; so its records are the whole chain (`Reading`), and the new one
continues it (`ChainGrows`).

The exact cost is a sum over a set, by a fold that takes the elements in no particular order.
`CostOfOneMore`, one more request costs what it asks for, is proved by induction on the size of
the set from the fold's definition, and so needs nothing about the order.

`TypeCorrect` has no hypothesis.  The other three assume `AbsentIsNoRecord`, an absent file is not
a record, which is a property of the value that stands for it.  It is a hypothesis and not an
assumption of the module because it speaks of all values, which TLC cannot enumerate.
They also assume `MaxLosses <= 3`: whoever removes all four files
of the first reservation by hand leaves a directory in which there never was a ledger, and the
next command starts one.  Up to three lost files, whichever they are, are noticed.

### The telemetry log

The argument is the ledger's, without sums: `LogTold` says that there are a baseline and events
after it which together are all that was recorded (`Continues`), that the files there are hold
them (`Shows`), and that none is missing but those lost (`Complete`, `Missing`).  Marks, rebuilds
and losses are the only steps that change that (`LogStepKinds`).  A log that may be read tells
everything (`LogReading`): either its baseline is gone and so is everything but telemetry.json,
which then is the baseline of the next event; or the head names the last event, and each event
there names the one before, so none is missing: the greatest gap would be followed by an event
that names nothing.

`LogConstants` says what an older telemetry.json is, `AbsentIsNoEntry` that an absent file is
nothing the log writes, and `MaxLosses <= 3` is as above.

### Receipts

A report adds up if ledger and log do, as above, and if each receipt does.  `UsageInv` says that
the segments so far count together what the last accepted snapshot of the rollout says, and lie in
the order of time up to the last timestamp; a row adds the difference, or nothing when it did not
grow, and a row that shrinks refuses the rollout.  `OneMoreSegment` is what the sum needs:
one more number changes a fold by that number, whatever the numbers before it are.  The hypothesis
is that the value for "nothing" is neither a time nor a count.

### Starting features

`StartInv` collects what concurrent calls rely on between their steps:

* who lists, claims or saves holds the lock of its worktree, and no feature of its request is there
  (`Holding`), which was looked up before and again under the lock: so a request starts one feature;
* two calls about to save have claimed different numbers, and no feature claimed one of them
  (`SaversDiffer`), because a number claimed is a reference that was not there: worktrees do not
  share a lock, and Git makes the difference.  A number used without a reference differs from
  those of its own worktree (`OwnNumber`), whose lock the call holds, and from no others;
* every prompt said is in the prompts file or taken (`PromptsInv`), what the hook read before a
  feature took its prompts included, and what a call has read it will take (`CallsTake`);
* the rules of a feature's prompts are in force or were removed, and one that was removed is in
  force only if a feature started since heard it again (`RulesInv`);
* what is to be remembered is new, and told but for the chunks that the call still has to tell
  (`AddsInv`): so the memory has a request only when it has all of it (`MemoryInv`), although a
  call may die after any chunk.

The hypotheses are that the value for "no process" is none and that a request has a number of
chunks.

### Skills

A text found harmful must stay out through proposals, retirements and rollbacks.  It does because
the evaluation is on record as a transition of that very version (`HarmOnRecord`), written in the
same update, and every way back reads the record.  `SkillInv` adds that the skill there is one
of the transitions, and that only versions drawn from slices cite any, so that those admitted by a person
need no support.

### What stays with TLC

* Liveness and every property under fairness (`LockSettles`, `JournalSettles`, `AdviceEnds`, those
  of `processes`): the prover has no rules for fairness and `ENABLED` here.
* The lock without hard links, and updates with an editor in the middle of them, as said above.
* `AdviceTaken`: what `next` advises is derived by a long case distinction over the whole record,
  and that a command takes it back would need the same distinction as its invariant.
* `IndexTellsTruth`: that parsing the affected files finds what parsing all would is a fact about
  what the closure of a change under two relations leaves out, of facts that were themselves
  merged; it would need induction along these relations.
* `ComparesAside`: that copying a file in steps gives what copying it at once would give takes
  induction over its bytes, with spellings that overlap.

The library's induction theorems take an operator as a parameter, which the installed provers
cannot instantiate.  `NaturalFacts` proves induction for a set of numbers instead
(`SetInduction`), from the library's well-founded order; it shows that the recursive functions
`Total` and `Picked`, and those behind the folds of `Cost`, `Sum`, `Without` and
`OutstandingFeedback`, are what their definitions say.

## 6. What is not modelled

* Inside the modelled parts: symbolic link targets and directories as transaction targets,
  Windows and its file modes, power loss (the code does not fsync); in `CriticReview` source-only
  reviews, reviews of the whole feature, and the on/off policy (the kind "attached" differs from
  "host" in its dispatch only and is not part of an instance yet); in `CheckExecution` validation
  commands, journeys, images, slice dependencies; in `AdviceLoop` journeys, reproductions, pinned
  tests, environment failures, reviews of quality, and reviews that run in the background; in
  `Installation` Codex's TOML and hosts' older files.  The status and note of each component in
  `PROJECT.json` say what is left out of it.
* Locks of two worktrees taken by one process in a nested way: no caller does so today.
* Components with the status `not_modelled`: pure readers and parsers (artifact validation,
  digests, configuration, doctor, the queries over a graph), entry points that run one of the
  modelled operations (CLI, MCP), migration (one plan applied by one transaction), and benchmarks.
* A good half of the implementation is parsing, validation, text for people and packets for
  models.  It has no state to interleave, and tests reach it better than a model does.

## 7. Plan

In place: the lock, transactions, scopes; critic, checks, findings, disputes, testers, advice;
ledgers, logs, features, skills, guard; commands, loops, journeys, dashboards; installation and
index; the proofs of section 5.  Left, in the order of importance:

1. Still to model: the background review that `next` waits for, counters of the stop hook, the
   publication of captures, the project server's own budgets.
2. To prove: what stays with TLC for size and not for want of a rule, first `AdviceTaken`.
