---------------------------- MODULE CheckExecution ----------------------------
(***************************************************************************)
(* `visp verify`, `visp done` and `visp accept` of one feature: they read  *)
(* the record and the product source under the writer lock, run the checks *)
(* of the brief outside it, publish each receipt under the lock again, and *)
(* judge the product under the lock at the end.  Meanwhile other commands  *)
(* do the same, the worker edits the source, `visp work` (re)opens slices, *)
(* `visp brief` revises the contract, and a reviewer may be at work.       *)
(*                                                                         *)
(* Each withProductMutation is one action.  finishExecution reads the      *)
(* source before it saves; an edit in between is the same as one after the *)
(* save, because nothing else in the action reads the source.              *)
(*                                                                         *)
(* Abstractions: a digest of the source is one of a few versions, which    *)
(* may come back; a brief is one of a few documents, of which only the     *)
(* digests matter.  Each slice has one check of its own, named like the    *)
(* slice, and one pinned suite covers the feature.  Validation commands,   *)
(* journeys, images, dependencies between slices and reopening for review  *)
(* findings are left out; the gaps they raise are a free choice.           *)
(***************************************************************************)
EXTENDS Naturals, Sequences, SequencesExt

CONSTANTS
    Order,          \* the slices in the order of the brief
    Pinned,         \* the pinned acceptance checks, run as one suite
    None,           \* no slice: the whole feature
    Commands,       \* processes that run verify, done or accept
    Modes,          \* which of the three they run
    Sources,        \* versions of the product source
    Briefs,         \* documents the brief may be
    ContractOf,     \* digest of each document's contract for a slice and for the feature
    Statuses,       \* how a check may end
    Flips,          \* what comparing a pass with the code before the change may say
    ReviewerRules,  \* does VISP launch the reviewer itself?
    MaxExecutions   \* bound: receipts recorded

Slices == Range(Order)
Owners == Slices \cup {None}
Checks == Slices \cup {Pinned}
LastSlice == Order[Len(Order)]

ASSUME CheckConstants ==
    /\ Order \in Seq(Slices) \ {<<>>} /\ IsInjective(Order)
    /\ Pinned \notin Owners /\ None \notin Slices /\ None \notin Sources /\ None \notin Flips
    /\ \A b \in Briefs : Owners \subseteq DOMAIN ContractOf[b]
    /\ \A b, c \in Briefs : ContractOf[b][None] = ContractOf[c][None]
                                => \A s \in Slices : ContractOf[b][s] = ContractOf[c][s]
    /\ Modes \subseteq {"verify", "done", "accept"}
    /\ Statuses \subseteq {"passed", "failed", "timed-out"}
    /\ ReviewerRules \in BOOLEAN /\ MaxExecutions \in Nat

VARIABLES
    source,             \* the product source now
    brief,              \* the document in force
    slices,             \* the status of each slice
    status,             \* the status of the feature
    acceptedSubject,    \* the version that was accepted, and
    acceptedContract,   \* the feature contract it was accepted under
    executions,         \* the receipts; "ran" is the version the check really met, "flip"
                        \* the advice that came with a pass
    pendingVerification,\* the batch an interrupted command was running
    authorization,      \* the slice that may be edited and its contract
    reviewing,          \* is a review pending within its deadline?
    command             \* what each process is doing

record == <<brief, slices, status, acceptedSubject, acceptedContract, executions,
            pendingVerification, authorization>>
vars == <<source, record, reviewing, command>>

Idle == [mode |-> "idle"]

Init ==
    /\ source \in Sources /\ brief \in Briefs
    /\ slices = [s \in Slices |-> "pending"] /\ status = "active"
    /\ acceptedSubject = None /\ acceptedContract = None
    /\ executions = <<>> /\ pendingVerification = None /\ authorization = None
    /\ reviewing = FALSE
    /\ command = [p \in Commands |-> Idle]

-----------------------------------------------------------------------------
(* Which receipts count *)

Contract(o) == ContractOf[brief][o]

Applicable(list, b, subject) ==
    {i \in DOMAIN list : list[i].subject = subject /\ list[i].contract = ContractOf[b][list[i].owner]}

\* Status of the latest of the receipts S for one check and owner; "none" without one.
Latest(list, S, c, o) ==
    LET own == {i \in S : list[i].check = c /\ list[i].owner = o}
    IN  IF own = {} THEN "none" ELSE list[CHOOSE i \in own : \A j \in own : j <= i].status

Verdict(c, o) == Latest(executions, Applicable(executions, brief, source), c, o)

SameRun(e, f) == e.check = f.check /\ e.owner = f.owner

\* The latest applicable receipt of each check and owner.
LatestReceipts ==
    LET current == Applicable(executions, brief, source)
    IN  {i \in current : \A j \in current : SameRun(executions[j], executions[i]) => j <= i}

\* A failure is the task's it ran for, else the slice's that claims the check; a pinned
\* suite falls to the slice that completes the feature.
FailureOwner(c, o) == IF o # None THEN o ELSE IF c = Pinned THEN LastSlice ELSE c

CorrectionReasons(s) ==
    {f \in Checks \X Owners : FailureOwner(f[1], f[2]) = s /\ Verdict(f[1], f[2]) = "failed"}

\* Failures on earlier versions ask for another run until a current receipt supersedes them.
CorrectionChecks(s) ==
    LET old == {i \in DOMAIN executions : /\ executions[i].status = "failed"
                                          /\ executions[i].contract = Contract(executions[i].owner)}
    IN  {c \in Checks : \E o \in Owners :
            /\ FailureOwner(c, o) = s
            /\ \/ Verdict(c, o) = "failed"
               \/ Verdict(c, o) = "none" /\ Latest(executions, old, c, o) = "failed"}

AllClosed == \A s \in Slices : slices[s] = "closed"

LastOpenSlice(s) == \A t \in Slices \ {s} : slices[t] = "closed"

ChecksFor(s) == IF s = None THEN Slices ELSE {s}

\* The checks of S in the order of list, as a recursive function.
Picked(list, S) ==
    LET pick[n \in 0..Len(list)] ==
            IF n = 0 THEN <<>>
            ELSE IF list[n] \in S THEN Append(pick[n - 1], list[n]) ELSE pick[n - 1]
    IN  pick[Len(list)]

ExecutionCommands(s, mode) ==
    LET completing == mode = "done" /\ ReviewerRules /\ LastOpenSlice(s)
        wanted == UNION {
            IF completing THEN Slices ELSE ChecksFor(s),
            IF s = None THEN {} ELSE CorrectionChecks(s),
            IF s = None \/ LastOpenSlice(s) THEN {Pinned} ELSE {}}
    IN  Picked(Append(Order, Pinned), wanted)

\* The receipt of a slice's own check belongs to the slice, any other to the feature.
Owner(c, s) == IF c = s THEN s ELSE None

-----------------------------------------------------------------------------
(* verify, done, accept *)

\* Bug: closing and accepting never ask whether a review is pending.
BugAvailable(mode) == TRUE

Available(mode) == mode = "verify" \/ ~reviewing

Grant(s) == [task |-> s, contract |-> Contract(s)]

Authorized(s) == authorization = Grant(s)

Prepare(p, mode, s, reusePassed) ==
    LET commands == ExecutionCommands(s, mode)
        batch == [source |-> source, brief |-> brief, checks |-> commands, task |-> s, mode |-> mode]
        reuse == mode = "done" \/ reusePassed \/ pendingVerification = batch
        passes == {i \in LatestReceipts : /\ reuse /\ executions[i].status = "passed"
                                          /\ executions[i].check \in ToSet(commands)
                                          /\ executions[i].owner = Owner(executions[i].check, s)}
    IN
    /\ command[p] = Idle
    /\ Available(mode)
    /\ mode = "done" => s # None
    /\ mode = "accept" => s = None /\ AllClosed
    /\ reusePassed => mode = "accept"
    /\ s # None => slices[s] = "closed" \/ Authorized(s)
    /\ command' = [command EXCEPT ![p] =
            [mode |-> mode, slice |-> s, batch |-> batch, next |-> 1, result |-> None,
             failed |-> FALSE,
             passes |-> {[receipt |-> i, flip |-> executions[i].flip] : i \in passes}]]
    /\ UNCHANGED <<source, record, reviewing>>

Remaining(p) == command[p] # Idle /\ command[p].next <= Len(command[p].batch.checks)

\* The check whose turn it is.
Check(p) == command[p].batch.checks[command[p].next]

SameContract(p) == command[p].batch.brief = brief

\* The pass in place 'at' of the history gets new advice (refreshFlip).
Advised(at, flip) == [executions EXCEPT ![at].flip = flip]

\* A pass the record held when the command started is not run again, if the toolchain is the
\* same: a free choice here.  That of the slice's own check is compared with the code before the
\* change once more, and new advice replaces the old one where it stands; what cannot be
\* compared or saved is left as it is.
Reuse(p) ==
    /\ Remaining(p) /\ command[p].result = None
    /\ \E pass \in command[p].passes :
        /\ executions[pass.receipt].check = Check(p)
        /\ \/ UNCHANGED executions
           \/ \E flip \in Flips \ {pass.flip} :
                /\ Check(p) = command[p].slice /\ SameContract(p)
                /\ executions' = Advised(pass.receipt, flip)
    /\ command' = [command EXCEPT ![p].next = @ + 1]
    /\ UNCHANGED <<source, brief, slices, status, acceptedSubject, acceptedContract,
                   pendingVerification, authorization, reviewing>>

\* The command of the check runs on the source of that moment.
Run(p, result) ==
    /\ Remaining(p) /\ command[p].result = None
    /\ command' = [command EXCEPT ![p].result = [status |-> result, ran |-> source]]
    /\ UNCHANGED <<source, record, reviewing>>

\* The receipt names the version and the contract the command was prepared on, and joins the
\* record as it is now.  A pass of the slice's own check may come with advice.
Receipt(p, flip) ==
    LET c == command[p]
        o == Owner(Check(p), c.slice)
    IN  [check |-> Check(p), owner |-> o, subject |-> c.batch.source,
         contract |-> ContractOf[c.batch.brief][o],
         status |-> c.result.status, ran |-> c.result.ran, flip |-> flip]

\* Bug: a receipt takes the place of the earlier ones of its check and owner.
BugRecorded(e) == Append(SelectSeq(executions, LAMBDA x : ~SameRun(x, e)), e)

Recorded(e) == Append(executions, e)

Publish(p, flip) ==
    /\ Remaining(p) /\ command[p].result # None /\ SameContract(p)
    /\ flip # None => command[p].result.status = "passed" /\ Check(p) = command[p].slice
    /\ Len(executions) < MaxExecutions
    /\ executions' = Recorded(Receipt(p, flip))
    /\ pendingVerification' = command[p].batch
    /\ command' = [command EXCEPT ![p].next = @ + 1, ![p].result = None,
                                  ![p].failed = @ \/ command[p].result.status # "passed"]
    /\ UNCHANGED <<source, brief, slices, status, acceptedSubject, acceptedContract,
                   authorization, reviewing>>

\* Bug: a check counts as resolved by the slice's own receipts, whatever the feature's say.
BugUnresolved(s) == \E c \in ChecksFor(s) : Verdict(c, s) # "passed"

\* Some check of the slice has no current receipt, or one owner's latest is no pass.
Unresolved(s) ==
    LET owners == IF s = None THEN Owners ELSE {None, s}
    IN  \E c \in ChecksFor(s) :
            \/ \A o \in owners : Verdict(c, o) = "none"
            \/ \E o \in owners : Verdict(c, o) \notin {"none", "passed"}

NoPass(p) ==
    \E c \in ToSet(command[p].batch.checks) : Verdict(c, Owner(c, command[p].slice)) # "passed"

Done(p) == command[p] # Idle /\ ~Remaining(p)

Accept(passed) ==
    /\ status' = IF passed THEN "accepted" ELSE "active"
    /\ acceptedSubject' = IF passed THEN source ELSE None
    /\ acceptedContract' = IF passed THEN Contract(None) ELSE None

\* "gaps" stands for every other gap: reviews, feedback, journeys, images, pinned files.
Finish(p, gaps) ==
    LET c == command[p]
        passed == /\ ~Unresolved(c.slice) /\ ~c.failed /\ ~NoPass(p)
                  /\ c.batch.source = source /\ ~gaps
    IN
    /\ Done(p) /\ SameContract(p) /\ Available(c.mode)
    /\ pendingVerification' = None
    /\ slices' = IF c.mode = "done" /\ passed THEN [slices EXCEPT ![c.slice] = "closed"] ELSE slices
    /\ IF c.mode = "accept"
       THEN Accept(passed)
       ELSE UNCHANGED <<status, acceptedSubject, acceptedContract>>
    /\ command' = [command EXCEPT ![p] = Idle]
    /\ UNCHANGED <<source, brief, executions, authorization, reviewing>>

\* The brief changed meanwhile, or a review began: the command ends without a trace.
Refuse(p) ==
    /\ \/ Remaining(p) /\ command[p].result # None /\ ~SameContract(p)
       \/ Done(p) /\ ~(SameContract(p) /\ Available(command[p].mode))
    /\ command' = [command EXCEPT ![p] = Idle]
    /\ UNCHANGED <<source, record, reviewing>>

\* The signal of the caller, its deadline, or the death of the process.
Cancel(p) ==
    /\ command[p] # Idle
    /\ command' = [command EXCEPT ![p] = Idle]
    /\ UNCHANGED <<source, record, reviewing>>

-----------------------------------------------------------------------------
(* The rest of the workflow *)

\* A closed slice is reopened only to correct a current failure.
MayReopen(s) == slices[s] = "closed" => CorrectionReasons(s) # {}

\* workingState: reopening a slice withdraws the acceptance.
Working(s) ==
    /\ slices' = [slices EXCEPT ![s] = "in-progress"]
    /\ status' = IF slices[s] = "closed" THEN "active" ELSE status
    /\ acceptedSubject' = IF slices[s] = "closed" THEN None ELSE acceptedSubject

\* `visp work --task s` authorizes editing.
Work(s) ==
    /\ ~reviewing /\ MayReopen(s) /\ Working(s)
    /\ authorization' = Grant(s)
    /\ UNCHANGED <<source, brief, acceptedContract, executions, pendingVerification,
                   reviewing, command>>

\* Bug: slices keep their status whatever the revision changes.
BugSlicesAfter(b) == slices

SlicesAfter(b) ==
    [s \in Slices |-> IF ContractOf[b][s] = Contract(s) THEN slices[s] ELSE "pending"]

AcceptanceApplies(b) == acceptedContract = ContractOf[b][None]

\* `visp brief`: not held up by a review or by commands that run.
Revise(b) ==
    /\ b # brief
    /\ brief' = b
    /\ slices' = SlicesAfter(b)
    /\ status' = IF /\ status = "accepted" /\ AcceptanceApplies(b)
                     /\ \A s \in Slices : ContractOf[b][s] = Contract(s)
                 THEN "accepted" ELSE "active"
    /\ acceptedSubject' = IF AcceptanceApplies(b) THEN acceptedSubject ELSE None
    /\ UNCHANGED <<source, acceptedContract, executions, pendingVerification, authorization,
                   reviewing, command>>

\* The worker edits, or restores, the product.
Edit(v) ==
    /\ v # source
    /\ source' = v
    /\ UNCHANGED <<record, reviewing, command>>

\* A review is reserved, or ends by its result or its deadline.
Review ==
    /\ reviewing' = ~reviewing
    /\ UNCHANGED <<source, record, command>>

Next ==
    \/ \E p \in Commands :
        \/ \E mode \in Modes, s \in Owners, again \in BOOLEAN :
                Prepare(p, mode, s, again)
        \/ Reuse(p)
        \/ \E result \in Statuses : Run(p, result)
        \/ \E flip \in Flips \cup {None} : Publish(p, flip)
        \/ \E gaps \in BOOLEAN : Finish(p, gaps)
        \/ Refuse(p)
        \/ Cancel(p)
    \/ \E s \in Slices : Work(s)
    \/ \E b \in Briefs : Revise(b)
    \/ \E v \in Sources : Edit(v)
    \/ Review

Spec == Init /\ [][Next]_vars

-----------------------------------------------------------------------------
(* Properties *)

Batches == [source : Sources, brief : Briefs, checks : Seq(Checks), task : Owners,
            mode : Modes]

Contracts == {ContractOf[b][o] : b \in Briefs, o \in Owners}

\* Every variable keeps its type; the record names an accepted version exactly while the
\* feature is accepted; a command that accepts is about the whole feature.
TypeOK ==
    /\ source \in Sources /\ brief \in Briefs
    /\ slices \in [Slices -> {"pending", "in-progress", "closed"}]
    /\ status \in {"active", "accepted"}
    /\ acceptedSubject \in Sources \cup {None} /\ acceptedContract \in Contracts \cup {None}
    /\ (status = "accepted") = (acceptedSubject # None)
    /\ executions \in Seq([check : Checks, owner : Owners, subject : Sources,
                           contract : Contracts, status : Statuses, ran : Sources,
                           flip : Flips \cup {None}])
    /\ pendingVerification \in Batches \cup {None}
    /\ authorization \in [task : Slices, contract : Contracts] \cup {None}
    /\ reviewing \in BOOLEAN
    /\ \A p \in Commands : command[p] # Idle =>
        /\ command[p].batch \in Batches
        /\ command[p].next \in 1..(Len(command[p].batch.checks) + 1)
        /\ command[p].mode = "accept" => command[p].slice = None

HasPass(c, o, subject) ==
    \E i \in DOMAIN executions :
        /\ executions[i].check = c /\ executions[i].owner = o
        /\ executions[i].subject = subject /\ executions[i].contract = Contract(o)
        /\ executions[i].status = "passed"

\* An accepted product has, for every check, the pinned suite included, a pass recorded for
\* the accepted version under the contract in force; a closed slice has passed its own check
\* under its contract, however often the brief was revised and restored since
\* (runProductAccept, runProductDone, revisedProductState).
EndsOnPasses ==
    /\ status = "accepted" => \A c \in Checks : HasPass(c, None, acceptedSubject)
    /\ \A s \in Slices : slices[s] = "closed" => \E v \in Sources : HasPass(s, s, v)

\* A command that closes or accepts goes by everybody's latest receipts: no receipt published
\* by another command in the meantime leaves a check of the slice failed (finishExecution).
JudgesLatest ==
    [][/\ \A s \in Slices : slices[s] # "closed" /\ slices'[s] = "closed" =>
            Verdict(s, s) = "passed" /\ Verdict(s, None) \in {"passed", "none"}
       /\ status # "accepted" /\ status' = "accepted" =>
            \A c \in Slices, o \in Owners : Verdict(c, o) \in {"passed", "none"}]_vars

\* What a receipt says, its advice left out.
Fixed(e) == [e EXCEPT !.flip = None]

\* Commands that publish or reuse passes side by side lose none of each other's receipts, and
\* none changes what a check did: each stays in its place with the version, contract and outcome
\* it was recorded with.  Only the advice of a pass of a slice's own check may be replaced, and
\* not be lost, when a command reuses the pass (publishCheck, refreshFlip).
HistoryGrows ==
    [][/\ Len(executions) <= Len(executions')
       /\ \A i \in DOMAIN executions :
            LET old == executions[i]  new == executions'[i]
            IN  /\ Fixed(new) = Fixed(old)
                /\ new # old => /\ old.status = "passed" /\ old.check = old.owner
                                /\ new.flip # None]_vars

\* "While a review is pending, editing, closing and acceptance wait for it"
\* (docs/workflow.md:137), a review that began while the checks ran included.
WaitsForReview ==
    [][reviewing =>
        /\ \A s \in Slices : slices'[s] \in {"closed", "in-progress"} => slices'[s] = slices[s]
        /\ status' = "accepted" => status = "accepted"]_vars

\* "Verification and review history is append-only" (docs/internals.md:61): nothing that was
\* recorded changes.
AppendOnly == [][IsPrefix(executions, executions')]_vars

\* "Close the active slices before final product acceptance" (evidence.ts:388): an accepted
\* feature has no open slice.
AcceptedMeansClosed == status = "accepted" => AllClosed

\* "An execution is bound to the product source" (docs/internals.md:57) and "Missing, stale or
\* unavailable evidence ... never becomes a pass" (docs/workflow.md:166): a slice closes on a
\* pass of its check on the version it closes on.
ClosesOnWhatRan ==
    [][\A s \in Slices : slices[s] # "closed" /\ slices'[s] = "closed" =>
        \E i \in DOMAIN executions : /\ executions[i].check = s
                                      /\ executions[i].ran = source
                                      /\ executions[i].status = "passed"]_vars

\* "On the last open slice `done` also runs the pinned acceptance tests" (docs/workflow.md:137):
\* the step that closes the last open slice finds the pinned suite passed.
LastDoneRunsPinned ==
    [][~AllClosed /\ AllClosed' => Verdict(Pinned, None) = "passed"]_vars

===============================================================================
