------------------------------- MODULE Findings -------------------------------
(***************************************************************************)
(* What reviews found, and what closes it.  The open findings are computed *)
(* from the whole history of reviews (findings.ts), older ones without     *)
(* identity version 2 included.  A review may close a required functional  *)
(* finding only on executed evidence (feedback.ts, functional-resolution,  *)
(* functional-regression), to which a failing run can be linked before the *)
(* repair (reproduction.ts).                                               *)
(*                                                                         *)
(* Every finding is a functional one of the product phase whose outcomes   *)
(* are those of its slice.  Runs are of command checks, under one contract.*)
(***************************************************************************)
EXTENDS Naturals, Sequences, FiniteSetsExt, SequencesExt

CONSTANTS
    Slices,         \* the slices of the brief
    Feature,        \* the task of a review or a run that names no slice
    Shared,         \* the scope of an identity that leaves the slice out
    Problems,
    Checks, Versions, FirstVersion, Verifiers, Environments,
    Histories,      \* the reviews there may be at the start
    None, MaxRuns, MaxReviews, MaxEdits

VARIABLES
    source, verifier, environment,   \* the product, the check's program, where it runs
    runs,           \* the receipts of executed checks, in order
    reviews,        \* the recorded reviews, in order
    links,          \* failing runs attached to findings before the repair
    edits

vars == <<source, verifier, environment, runs, reviews, links, edits>>

Tasks == Slices \cup {Feature}
Dispositions == {"repaired", "disproved", "unavailable"}
Citations == {{}} \cup {{n} : n \in DOMAIN runs}   \* a judgment cites at most one run
NotApplicable == {0}          \* no adjacent check applies, for a reason that was given

-----------------------------------------------------------------------------
(* Identities and the open findings                                        *)

Closes(resolution) == resolution.disposition \in {"repaired", "disproved"}

\* Problems that reviews without version 2 report in two scopes: the old identity names no owner.
Collisions(history) ==
    {p \in Problems : \E i, j \in DOMAIN history :
        /\ history[i].version = 1 /\ history[j].version = 1
        /\ history[i].task # history[j].task
        /\ \E f \in history[i].found, g \in history[j].found : f.problem = p /\ g.problem = p}

FindingId(pending, review, problem, collision) ==
    LET old == <<problem, Shared>>
        scoped == \/ collision
                  \/ review.version = 2
                     /\ (old \in DOMAIN pending => pending[old].task # review.task)
    IN  IF scoped THEN <<problem, review.task>> ELSE old

\* Any later report of the same problem replaces the earlier one.
BugRetainedFinding(pending, id, review, finding, collision) ==
    [problem |-> finding.problem, required |-> finding.required, evidence |-> finding.evidence,
     task |-> review.task, source |-> review.source, legacy |-> collision]

\* A required report stays as it is, even when later advice weakens it.
RetainedFinding(pending, id, review, finding, collision) ==
    IF id \in DOMAIN pending /\ pending[id].required
    THEN pending[id]
    ELSE [problem |-> finding.problem, required |-> finding.required,
          evidence |-> finding.evidence, task |-> review.task, source |-> review.source,
          legacy |-> collision]

Reported(pending, review, collisions) ==
    LET id(f) == FindingId(pending, review, f.problem, f.problem \in collisions)
        ids == {id(f) : f \in review.found}
    IN  [i \in DOMAIN pending \cup ids |->
            IF i \in ids
            THEN LET f == CHOOSE f \in review.found : id(f) = i
                 IN  RetainedFinding(pending, i, review, f, f.problem \in collisions)
            ELSE pending[i]]

ResolveHistoricalFinding(pending, id, task) ==
    LET exact == id \in DOMAIN pending /\ (task # Feature => pending[id].task = task)
        aliases == {i \in DOMAIN pending : /\ task # Feature
                                           /\ pending[i].legacy /\ id = <<pending[i].problem, Shared>>
                                           /\ pending[i].task = task}
        closed == aliases \cup IF exact THEN {id} ELSE {}
    IN  [i \in DOMAIN pending \ closed |-> pending[i]]

AfterReview(pending, review, collisions) ==
    LET closing == {r \in review.resolutions : Closes(r)}
        kept == IF closing = {} THEN pending
                ELSE ResolveHistoricalFinding(pending, (CHOOSE r \in closing : TRUE).id, review.task)
    IN  Reported(kept, review, collisions)

OutstandingFeedback(history) ==
    LET collisions == Collisions(history)
    IN  FoldLeft(LAMBDA pending, review : AfterReview(pending, review, collisions), <<>>, history)

-----------------------------------------------------------------------------
(* Evidence                                                                *)

InSlice(run, task) == task = Feature \/ run.task \in {Feature, task}

\* A pass stays available after a later failure.
BugReference(n, task) ==
    IF ~InSlice(runs[n], task) THEN "unavailable"
    ELSE IF runs[n].source # source THEN "stale"
    ELSE IF runs[n].passed THEN "available" ELSE "failed"

\* The status under which a packet for `task` lists a run: a later failure supersedes a pass.
Reference(n, task) ==
    LET latest == Max({m \in DOMAIN runs : /\ runs[m].check = runs[n].check
                                           /\ runs[m].task = runs[n].task
                                           /\ runs[m].source = runs[n].source})
    IN  IF ~InSlice(runs[n], task) THEN "unavailable"
        ELSE IF runs[n].source # source THEN "stale"
        ELSE IF runs[n].passed /\ runs[latest].passed THEN "available" ELSE "failed"

LatestComparable(n) ==
    \A m \in DOMAIN runs : m > n => ~(/\ runs[m].source = runs[n].source
                                      /\ runs[m].task = runs[n].task
                                      /\ runs[m].check = runs[n].check)

WitnessedExecutions(finding, cited) ==
    {n \in cited : /\ LatestComparable(n) /\ runs[n].passed
                   /\ finding.task = Feature \/ runs[n].task = finding.task}

FindingReproductions(id, finding) ==
    {l \in links : /\ l.finding \in {id, IF finding.legacy THEN <<finding.problem, Shared>> ELSE id}
                   /\ l.source = finding.source
                   /\ runs[l.run].task = finding.task /\ ~runs[l.run].passed}

RepairEnvironments(before, after, change) ==
    IF change = None
    THEN runs[before].environment = runs[after].environment
    ELSE /\ runs[before].environment # runs[after].environment
         /\ change = <<runs[before].environment, runs[after].environment>>

\* A failing run the report or a link names, and a later pass of the same check that was cited.
WitnessedRepairs(subject, task, failing, cited, change) ==
    {repair \in (failing \cap DOMAIN runs) \X cited :
        LET before == repair[1]
            after == repair[2]
        IN  /\ before < after
            /\ ~runs[before].passed /\ runs[before].source = subject
            /\ task # Feature => runs[before].task = task
            /\ runs[after].passed /\ LatestComparable(after)
            /\ runs[after].task = runs[before].task /\ runs[after].check = runs[before].check
            /\ runs[after].verifier = runs[before].verifier
            /\ RepairEnvironments(before, after, change)}

FunctionalRepairs(id, finding, cited, change) ==
    WitnessedRepairs(finding.source, finding.task, finding.evidence, cited, change)
    \cup UNION {WitnessedRepairs(runs[l.run].source, runs[l.run].task, {l.run}, cited, change) :
                    l \in FindingReproductions(id, finding)}

RegressionChecked(finding, regression, repairs, task) ==
    \/ regression = NotApplicable
    \/ /\ regression \notin {{}, NotApplicable}
       /\ \A n \in regression : Reference(n, task) = "available"
       /\ WitnessedExecutions(finding, regression) = regression
       /\ \E pair \in repairs : \A n \in regression :
            /\ runs[n].source = runs[pair[2]].source
            /\ runs[n].check # runs[pair[2]].check

ClosingResolutionHolds(resolution, finding, reviewer, task) ==
    LET cited == resolution.evidence
        repairs == FunctionalRepairs(resolution.id, finding, cited, resolution.change)
    IN  /\ resolution.change # None => finding.required /\ resolution.disposition = "repaired"
        /\ \A n \in cited : Reference(n, task) = "available"
        /\ reviewer # "unavailable" /\ cited \ finding.evidence # {}
        /\ \/ ~finding.required
           \/ /\ resolution.disposition = "disproved"
              /\ WitnessedExecutions(finding, cited) # {}
           \/ /\ resolution.disposition = "repaired"
              /\ repairs # {} /\ RegressionChecked(finding, resolution.regression, repairs, task)
           \/ /\ resolution.disposition = "repaired"
              /\ repairs = {} /\ reviewer = "fresh"

\* "refused" refuses the whole review; "limitation" only drops the resolution.
ValidateResolution(resolution, reviewer, task) ==
    LET pending == OutstandingFeedback(reviews)
    IN  IF resolution.id \notin DOMAIN pending THEN "refused"
        ELSE IF \/ task # Feature /\ pending[resolution.id].task \notin {Feature, task}
                \/ /\ Closes(resolution)
                   /\ ~ClosingResolutionHolds(resolution, pending[resolution.id], reviewer, task)
             THEN "limitation"
             ELSE "accepted"

-----------------------------------------------------------------------------

Init ==
    /\ source = FirstVersion /\ verifier \in Verifiers /\ environment \in Environments
    /\ runs = <<>> /\ reviews \in Histories /\ links = {} /\ edits = 0

\* Somebody changes the product, the check's program or the environment.
Edit ==
    /\ edits < MaxEdits /\ edits' = edits + 1
    /\ \/ source' \in Versions \ {source} /\ UNCHANGED <<verifier, environment>>
       \/ verifier' \in Verifiers \ {verifier} /\ UNCHANGED <<source, environment>>
       \/ environment' \in Environments \ {environment} /\ UNCHANGED <<source, verifier>>
    /\ UNCHANGED <<runs, reviews, links>>

Run(task, check, passed) ==
    /\ Len(runs) < MaxRuns
    /\ runs' = Append(runs, [task |-> task, check |-> check, source |-> source,
                             verifier |-> verifier, environment |-> environment,
                             passed |-> passed])
    /\ UNCHANGED <<source, verifier, environment, reviews, links, edits>>

\* A current failing run of the finding's own slice is attached before the product changes.
Reproduce(id, n) ==
    LET finding == OutstandingFeedback(reviews)[id]
        link == [finding |-> id, source |-> finding.source, run |-> n]
    IN  /\ id \in DOMAIN OutstandingFeedback(reviews)
        /\ runs[n].task = finding.task /\ runs[n].source = source /\ ~runs[n].passed
        /\ links' = links \cup {link}
        /\ UNCHANGED <<source, verifier, environment, runs, reviews, edits>>

\* A review reports one problem or assesses one open finding.
Review(task, reviewer, found, resolutions) ==
    /\ Len(reviews) < MaxReviews
    /\ \A f \in found : \A n \in f.evidence : Reference(n, task) \in {"available", "failed"}
    /\ \A r \in resolutions : /\ ValidateResolution(r, reviewer, task) # "refused"
                              /\ \A n \in r.evidence : Reference(n, task) \in {"available", "failed"}
    /\ LET accepted == {r \in resolutions : ValidateResolution(r, reviewer, task) = "accepted"}
       IN  reviews' = Append(reviews, [task |-> task, source |-> source, version |-> 2,
                                       found |-> found, resolutions |-> accepted])
    /\ UNCHANGED <<source, verifier, environment, runs, links, edits>>

Reviewers == {"fresh", "inline", "unavailable"}
ReportedFindings == {{[problem |-> p, required |-> r, evidence |-> e]} :
                        p \in Problems, r \in BOOLEAN, e \in Citations}
Resolutions ==
    LET ids == DOMAIN OutstandingFeedback(reviews)
        all == [id : ids, disposition : Dispositions, evidence : Citations, regression : Citations \cup {NotApplicable},
                change : {None} \cup (Environments \X Environments)]
    IN  {r \in all : /\ Closes(r) => r.evidence # {}
                     /\ r.disposition # "repaired" => r.regression = {} /\ r.change = None
                     /\ r.change # None => r.change[1] # r.change[2]}

Next ==
    \/ Edit
    \/ \E task \in Tasks, check \in Checks, passed \in BOOLEAN : Run(task, check, passed)
    \/ \E id \in DOMAIN OutstandingFeedback(reviews), n \in DOMAIN runs : Reproduce(id, n)
    \/ \E task \in Tasks, reviewer \in Reviewers :
        \/ \E found \in ReportedFindings : Review(task, reviewer, found, {})
        \/ \E r \in Resolutions : Review(task, reviewer, {}, {r})

Spec == Init /\ [][Next]_vars

-----------------------------------------------------------------------------
(* Properties                                                              *)

\* What a finding of the task may be known by: its own identity, or one that names no owner.
Names(id, problem, task) == id \in {<<problem, task>>, <<problem, Shared>>}

\* A required finding that some review reported is open, in the task that reported it, until a later
\* review of that task or of the whole feature closes it by name; a report of another slice, a weaker
\* one, an identity shared by slices or the closing of another slice's finding never takes it away
\* (findings.ts:44-84).
NothingVanishes ==
    LET listed == OutstandingFeedback(reviews)
    IN  \A i \in DOMAIN reviews : \A f \in reviews[i].found :
        LET task == reviews[i].task
        IN  f.required =>
                \/ \E id \in DOMAIN listed : /\ listed[id].problem = f.problem
                                             /\ listed[id].task = task
                                             /\ listed[id].required
                \/ \E j \in DOMAIN reviews : /\ j > i /\ reviews[j].task \in {Feature, task}
                                             /\ \E r \in reviews[j].resolutions :
                                                    Closes(r) /\ Names(r.id, f.problem, task)

\* A review takes a required finding off the list only on a run of a check on the current product
\* whose last result, for that check and task, is a pass.
ClosedOnLatestPass ==
    [][reviews' # reviews =>
        LET before == OutstandingFeedback(reviews)
            after == OutstandingFeedback(reviews')
        IN  \A id \in {id \in DOMAIN before : before[id].required} :
                id \notin DOMAIN after =>
                    \E r \in Last(reviews').resolutions : \E n \in r.evidence :
                        LET same == {m \in DOMAIN runs : /\ runs[m].source = source
                                                         /\ runs[m].check = runs[n].check
                                                         /\ runs[m].task = runs[n].task}
                        IN  runs[n].passed /\ same # {} /\ runs[Max(same)].passed]_vars
===============================================================================

