----------------------------- MODULE AdviceLoop -----------------------------
(***************************************************************************)
(* `visp next` and a worker that does what it says                         *)
(* (src/workflow/product/status*.ts, review/done-review.ts, work.ts).      *)
(*                                                                         *)
(* The worker asks next, runs the command it names, edits where it is told *)
(* to fix or implement, closes the slice with `visp done`, and stops when  *)
(* next says the feature is complete or hands it to `visp pr`. VISP's own  *)
(* reviewer is started by done and accept, out of a budget of calls.       *)
(*                                                                         *)
(* A slice has one functional outcome and one check, and both carry its    *)
(* name. A version of the source is new with every edit; works[v] are the  *)
(* checks that pass on it. Reviews return within the command that started  *)
(* them (their races are CriticReview's), findings are required product    *)
(* findings, and no reproduction, journey or pinned test takes part.       *)
(***************************************************************************)
EXTENDS FiniteSetsExt, Naturals, Sequences, SequencesExt

CONSTANTS
    Brief,        \* the slices in the order of the brief
    Depends,      \* pairs <<slice, what it depends on>>
    Judgments,    \* what a review may say of an outcome
    Reports,      \* per scope, the outcomes a finding of its review may name, in their order
    MaxCalls,     \* the review budget
    MaxSlips,     \* edits that leave a check failing
    MaxVersions

Slices == Range(Brief)

\* In place of a slice: the assembled feature.
Feature == "feature"

VARIABLES
    status,       \* of each slice
    active,       \* the slice with the grant, which is the active task, or Feature
    works,        \* per version, the checks that pass on it
    runs,         \* executions: check, owner, version, and the reviews recorded before
    reviews,      \* recorded reviews: scope, version, judgments, the checks it was given
    open,         \* open findings in the order they were first reported
    calls,        \* review calls spent
    failures,     \* per scope, reviews that failed on the current version
    accepted,     \* the current version is accepted
    turn,         \* the worker: "next", "edit", "done", "stopped"
    answer,       \* what the last command said
    slips

adviceVars == <<status, active, works, runs, reviews, open, calls, failures, accepted, turn, answer, slips>>

Source == Len(works)

Scopes == Slices \cup {Feature}

TypeOK ==
    /\ status \in [Slices -> {"pending", "in-progress", "closed"}]
    /\ active \in Scopes /\ works \in Seq(SUBSET Slices)
    /\ runs \subseteq [check : Slices, owner : Scopes, version : 1..Source, after : 0..MaxCalls]
    /\ calls \in 0..MaxCalls /\ failures \in [Scopes -> 0..2]
    /\ turn \in {"next", "edit", "done", "stopped"} /\ slips \in 0..MaxSlips

First(slices) == Brief[CHOOSE i \in DOMAIN Brief : Brief[i] \in slices /\ \A j \in 1..(i - 1) : Brief[j] \notin slices]

Closed == {s \in Slices : status[s] = "closed"}

\* The slices that must be closed before this one is worked.
DependsOn(s) == {d \in Slices : <<s, d>> \in Depends}

\* Closing this slice leaves no unfinished slice in the feature.
CompletesFeature(s) == Slices \ {s} \subseteq Closed

-----------------------------------------------------------------------------
(* Executions and judgments that count for the current version *)

ApplicableExecutions(version) == {r \in runs : r.version = version}

ProductFailures == {r.check : r \in {x \in ApplicableExecutions(Source) : x.check \notin works[Source]}}

\* The slice's own check ran, in its name.
Ran(s, version) == \E r \in ApplicableExecutions(version) : r.check = s /\ r.owner = s

\* The current judgment of a slice's outcome, by its own reviews and the feature's.
Judgment(s, history) ==
    LET about == {i \in DOMAIN history : history[i].scope \in {s, Feature} /\ history[i].version = Source}
    IN  IF about = {} THEN "unassessed" ELSE history[CHOOSE i \in about : \A j \in about : j <= i].judgments[s]

AssessmentGaps(history, findings) ==
    findings # <<>> \/ \E s \in Slices : Judgment(s, history) # "satisfied"

-----------------------------------------------------------------------------
(* Findings *)

Named(finding) == Range(finding.outcomes)

FindingAppliesToSlice(finding, s) ==
    IF finding.scope # Feature THEN finding.scope = s
    ELSE Named(finding) = {} \/ s \in Named(finding)

FindingOwner(finding) ==
    IF finding.scope # Feature THEN finding.scope
    ELSE IF finding.outcomes # <<>> THEN finding.outcomes[1] ELSE Brief[1]

Applying(s, findings) == {f \in Range(findings) : FindingAppliesToSlice(f, s)}

\* The finding reported most often, the oldest of these.
FirstFinding ==
    open[CHOOSE i \in DOMAIN open :
            \A j \in DOMAIN open : open[j].repeats < open[i].repeats \/ (open[j].repeats = open[i].repeats /\ i <= j)]

Owners == {FindingOwner(f) : f \in Range(open)}

\* Versions later than the latest review and its findings that passed the slice's checks.
Repaired(s) ==
    LET about == {i \in DOMAIN reviews : reviews[i].scope \in {s, Feature}}
        latest == CHOOSE i \in about : \A j \in about : j <= i
        own == {f \in Range(open) : FindingOwner(f) = s}
        reviewed == {reviews[latest].version} \cup {f.version : f \in own}
        later == {r.version : r \in {x \in runs : x.after >= latest}} \ reviewed
    IN  IF about = {} THEN {} ELSE {v \in later : s \in works[v] /\ Ran(s, v)}

-----------------------------------------------------------------------------
(* What next advises *)

ReviewScope(s) == IF CompletesFeature(s) THEN Feature ELSE s

Available(scope) == calls < MaxCalls /\ failures[scope] < 2

WorkOn(s) == [command |-> "work", task |-> s]

Handoff == [command |-> "pr", task |-> Feature]

Unrepaired == {o \in Owners : Repaired(o) = {}}

\* No review can run: every finding gets one repair round, in the slice that owns it.
UnavailableReviewerFindings(s) ==
    LET repair == IF Unrepaired # {} THEN First(Unrepaired) ELSE IF s \in Owners THEN s ELSE First(Owners)
    IN  IF Unrepaired = {} /\ ProductFailures = {} /\ \E o \in Owners : Source \in Repaired(o)
        THEN Handoff ELSE WorkOn(repair)

NextOpenSlice(s) ==
    LET available == Available(ReviewScope(s))
        failing == Ran(s, Source) /\ s \notin works[Source]
        findings == Applying(s, open) # {} \/ Judgment(s, reviews) = "failed"
    IN  CASE active # s \/ failing -> WorkOn(s)
          [] OTHER ->
             IF ~available /\ open # <<>> THEN UnavailableReviewerFindings(s)
             ELSE IF findings THEN (IF available THEN WorkOn(s) ELSE Handoff)
             ELSE [command |-> "done", task |-> s]

\* The slice to reopen, or Feature.
ClosedProductCorrection ==
    LET failed == {s \in Slices : Judgment(s, reviews) = "failed"}
    IN  IF open # <<>> THEN FindingOwner(FirstFinding)
        ELSE IF failed # {} THEN First(failed)
        ELSE IF ProductFailures # {} THEN First(ProductFailures) ELSE Feature

NextClosedProduct ==
    IF ~Available(Feature) /\ ProductFailures = {} /\ open # <<>>
    THEN UnavailableReviewerFindings(FindingOwner(FirstFinding))
    ELSE IF ClosedProductCorrection # Feature THEN WorkOn(ClosedProductCorrection)
    ELSE IF AssessmentGaps(reviews, open) /\ ~Available(Feature) THEN Handoff
    ELSE [command |-> "accept", task |-> Feature]

\* The active slice, else the first open one whose dependencies are closed, else Feature.
SelectProductSlice ==
    LET ready == {s \in Slices \ Closed : DependsOn(s) \subseteq Closed}
    IN  IF active # Feature THEN active ELSE IF ready # {} THEN First(ready) ELSE Feature

Advice ==
    CASE accepted -> [command |-> "complete", task |-> Feature]
      [] ~accepted /\ Closed = Slices -> NextClosedProduct
      [] ~accepted /\ Closed # Slices ->
         IF SelectProductSlice = Feature THEN [command |-> "brief", task |-> Feature]
         ELSE NextOpenSlice(SelectProductSlice)

Advised(command) == turn = "next" /\ Advice.command = command

-----------------------------------------------------------------------------
(* work, and the edits it allows *)

BugCorrectionReasons(s) ==
    (\E f \in Applying(s, open) : s \in Named(f)) \/ Judgment(s, reviews) = "failed" \/ s \in ProductFailures

\* What a closed slice may be reopened for.
CorrectionReasons(s) ==
    \/ \E f \in Applying(s, open) : f.outcomes = <<>> \/ s \in Named(f)
    \/ Judgment(s, reviews) = "failed"
    \/ s \in ProductFailures

WorkRefused(s) ==
    \/ ~(DependsOn(s) \subseteq Closed)
    \/ s \in Closed /\ ~CorrectionReasons(s)

Work ==
    LET s == Advice.task
    IN  /\ Advised("work")
        /\ \/ /\ WorkRefused(s)
              /\ answer' = "refused"
              /\ UNCHANGED <<status, active, accepted, turn>>
           \/ /\ ~WorkRefused(s)
              /\ status' = [status EXCEPT ![s] = "in-progress"]
              /\ active' = s
              /\ accepted' = (accepted /\ s \notin Closed)
              /\ turn' = "edit" /\ answer' = "granted"
        /\ UNCHANGED <<works, runs, reviews, open, calls, failures, slips>>

\* A careful edit leaves working what has been worked on; a slip breaks or misses some of it.
Edit ==
    LET careful == {s \in Slices : status[s] # "pending"}
    IN  /\ turn = "edit" \/ Advised("done")
        /\ Source < MaxVersions
        /\ \/ works' = Append(works, careful) /\ UNCHANGED slips
           \/ /\ slips < MaxSlips /\ slips' = slips + 1
              /\ \E broken \in (SUBSET careful) \ {{}} : works' = Append(works, careful \ broken)
        /\ failures' = [scope \in Scopes |-> 0]
        /\ accepted' = FALSE /\ turn' = "done"
        /\ UNCHANGED <<status, active, runs, reviews, open, calls, answer>>

-----------------------------------------------------------------------------
(* Reviews started by done and accept *)

\* The checks whose results a review of this scope would be given.
Evidence(scope, executed) ==
    {r.check : r \in {x \in executed : x.version = Source /\ (scope = Feature \/ x.owner \in {scope, Feature})}}

BugNewReview(scope, executed) ==
    \/ IF scope = Feature THEN open # <<>> ELSE Applying(scope, open) # {}
    \/ \A i \in DOMAIN reviews :
          reviews[i].scope = scope => reviews[i].evidence # Evidence(scope, executed)

\* Open findings owe a review; otherwise this version and evidence must not have had one.
NewReview(scope, executed) ==
    \/ IF scope = Feature THEN open # <<>> ELSE Applying(scope, open) # {}
    \/ \A i \in DOMAIN reviews :
          ~(reviews[i].scope = scope /\ reviews[i].version = Source
            /\ reviews[i].evidence = Evidence(scope, executed))

Launches(scope, executed) == Available(scope) /\ NewReview(scope, executed)

\* A review of a slice resolves only the findings of its own reviews.
Resolvable(scope) == {f \in Range(open) : scope \in {Feature, f.scope}}

\* A finding reported again keeps its place and its version.
WithReport(findings, scope, outcomes) ==
    LET same == {i \in DOMAIN findings : findings[i].scope = scope /\ findings[i].outcomes = outcomes}
    IN  IF same = {}
        THEN Append(findings, [scope |-> scope, outcomes |-> outcomes, version |-> Source, repeats |-> 1])
        ELSE [i \in DOMAIN findings |->
                IF i \in same THEN [findings[i] EXCEPT !.repeats = @ + 1] ELSE findings[i]]

\* A review that returns: its judgments, its findings and what it resolves.
Returned(scope, executed, judgments, reported, resolved) ==
    /\ calls' = calls + 1
    /\ reviews' = Append(reviews, [scope |-> scope, version |-> Source, judgments |-> judgments,
                                   evidence |-> Evidence(scope, executed)])
    /\ LET kept == SelectSeq(open, LAMBDA f : f \notin resolved)
       IN  open' = FoldSet(LAMBDA report, findings : WithReport(findings, scope, report), kept, reported)
    /\ UNCHANGED failures

\* One that fails spends its call; one cut off does not count toward blocking.
Failed(scope) ==
    /\ calls' = calls + 1
    /\ failures' \in {failures, [failures EXCEPT ![scope] = @ + 1]}
    /\ UNCHANGED <<reviews, open>>

NoReview == UNCHANGED <<reviews, open, calls, failures>>

Judges(scope) == [IF scope = Feature THEN Slices ELSE {scope} -> Judgments]

-----------------------------------------------------------------------------
(* done and accept *)

\* Checks run; with reuse, not those with a pass for this version in the same name.
Executed(checks, owner, reuse) ==
    LET current(c) == {r \in ApplicableExecutions(Source) : r.check = c /\ r.owner = owner[c]}
        fresh == {c \in checks : ~(reuse /\ current(c) # {} /\ c \in works[Source])}
    IN  (runs \ UNION {current(c) : c \in fresh})
            \cup {[check |-> c, owner |-> owner[c], version |-> Source, after |-> Len(reviews)] : c \in fresh}

\* The slice that completes the feature runs every check, the others' in the feature's name.
DoneChecks(s) == IF CompletesFeature(s) THEN Slices ELSE {s}

Closes(s, history, findings) ==
    /\ DoneChecks(s) \subseteq works[Source]
    /\ Judgment(s, history) # "failed"
    /\ Applying(s, findings) = {}

ReviewOwed(s) == Applying(s, open) # {} \/ Judgment(s, reviews) = "failed"

\* A middle slice yields to the completing review's last call, or to a clean review before it.
SkippableReview(s) ==
    /\ ~CompletesFeature(s) /\ ~ReviewOwed(s)
    /\ \/ Available(s) /\ MaxCalls - calls < 2
       \/ /\ reviews # <<>> /\ open = <<>>
          /\ \A s2 \in DOMAIN Last(reviews).judgments : Last(reviews).judgments[s2] # "failed"

\* Close on passing checks, then review, then close against the review.
Done ==
    LET s == active
        scope == ReviewScope(s)
        executed == Executed(DoneChecks(s), [c \in Slices |-> IF c = s THEN s ELSE Feature], TRUE)
        passed == Closes(s, reviews, open)
        reviewed == /\ DoneChecks(s) \subseteq works[Source]
                    /\ executed # runs \/ passed \/ ReviewOwed(s)
                    /\ ~SkippableReview(s) /\ Launches(scope, executed)
    IN  /\ turn = "done"
        /\ runs' = executed
        /\ \/ ~reviewed /\ NoReview
           \/ reviewed /\ Failed(scope)
           \/ /\ reviewed
              /\ \E judgments \in Judges(scope), reported \in SUBSET Reports[scope], resolved \in SUBSET Resolvable(scope) :
                    Returned(scope, executed, judgments, reported, resolved)
        /\ IF passed \/ Closes(s, reviews', open')
           THEN status' = [status EXCEPT ![s] = "closed"] /\ active' = Feature /\ answer' = "closed"
           ELSE UNCHANGED <<status, active>> /\ answer' = "open"
        /\ turn' = "next"
        /\ UNCHANGED <<works, accepted, slips>>

Accepts(history, findings) == Slices \subseteq works[Source] /\ ~AssessmentGaps(history, findings)

Accept ==
    LET executed == Executed(Slices, [c \in Slices |-> Feature], FALSE)
        passed == Accepts(reviews, open)
        reviewed == ~passed /\ Slices \subseteq works[Source] /\ Launches(Feature, executed)
    IN  /\ Advised("accept")
        /\ runs' = executed
        /\ \/ ~reviewed /\ NoReview
           \/ reviewed /\ Failed(Feature)
           \/ /\ reviewed
              /\ \E judgments \in Judges(Feature), reported \in SUBSET Reports[Feature], resolved \in SUBSET Range(open) :
                    Returned(Feature, executed, judgments, reported, resolved)
        /\ accepted' = (passed \/ Accepts(reviews', open'))
        /\ answer' = IF accepted' THEN "accepted" ELSE "open"
        /\ UNCHANGED <<status, active, works, turn, slips>>

\* The worker stops at complete, and after visp pr.
Stop ==
    /\ \/ Advised("complete") /\ answer' = "accepted"
       \/ Advised("pr") /\ answer' = "handoff"
    /\ turn' = "stopped"
    /\ UNCHANGED <<status, active, works, runs, reviews, open, calls, failures, accepted, slips>>

Stopped == turn = "stopped" /\ UNCHANGED adviceVars

Init ==
    /\ status = [s \in Slices |-> "pending"] /\ active = Feature
    /\ works = <<{}>> /\ runs = {} /\ reviews = <<>> /\ open = <<>>
    /\ calls = 0 /\ failures = [scope \in Scopes |-> 0] /\ accepted = FALSE
    /\ turn = "next" /\ answer = "none" /\ slips = 0

Next == Work \/ Edit \/ Done \/ Accept \/ Stop \/ Stopped

Spec == Init /\ [][Next]_adviceVars

\* The worker goes on until it is told to stop.
FairSpec == Spec /\ WF_adviceVars(Next)

-----------------------------------------------------------------------------
(* Properties *)

\* What next names is something the program then does: it never sends the
\* worker to a command that is refused (status-next.ts against work.ts).
AdviceIsTaken == answer # "refused"

\* Refused is only work on a slice that depends on one reopened since (work.ts:553), or on a closed
\* slice a finding applies to that names none of its outcomes.
RefusalsExplained ==
    LET s == Advice.task IN
    answer = "refused" =>
        \/ ~(DependsOn(s) \subseteq Closed)
        \/ s \in Closed /\ \E f \in Applying(s, open) : f.outcomes # <<>> /\ s \notin Named(f)

\* Following next ends, in an accepted feature or in a handoff to the human
\* reviewer (README.md:56, docs/critic.md:34).
LoopEnds == <>(turn = "stopped")

\* Nothing the worker is told changes any more: work is refused; or accept is advised while an outcome
\* stays unclear, and a review of it is refused as a repetition of the last one.
Stalled ==
    \/ answer = "refused"
    \/ /\ Advised("accept") /\ ~NewReview(Feature, runs)
       /\ \E s \in Slices : Judgment(s, reviews) = "unclear"

=============================================================================
