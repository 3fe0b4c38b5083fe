--------------------------- MODULE IndependentTester ---------------------------
(***************************************************************************)
(* The tester that writes acceptance tests from the request alone           *)
(* (tester/independent-tests-*.ts, tester-snapshot.ts): processes that      *)
(* start it for one feature, die, and start it again, while the worker      *)
(* edits the product, revises the brief and has the feature accepted.  A    *)
(* suite is kept only if it fails on the sources of the first launch.       *)
(***************************************************************************)
EXTENDS Naturals

CONSTANTS
    Processes,      \* each starts the tester at most once
    Versions, FirstVersion,
    Suites,         \* the suites testers write, one file each
    FailsOn,        \* suite -> the versions of the product it fails on
    None,
    MaxTries,       \* of a pin that meets another revision (8 in the source)
    MaxEdits, MaxRevisions

VARIABLES
    product, files,        \* the product, and the acceptance files beside it
    launch,                \* the sources when the tester first started, or None
    record,                \* acceptance-tests.json, or None
    old,                   \* the running record is older than STALE_RUNNING_MS
    brief,                 \* its revision and the suites it pins
    status,                \* of the feature
    testers,               \* process -> what it is doing
    edits

vars == <<product, files, launch, record, old, brief, status, testers, edits>>

Gone == [at |-> "gone"]
Sources == <<product, files>>      \* acceptance files are part of the source digest

Go(p, step) == testers' = [testers EXCEPT ![p] = step]
At(p, at) == testers[p].at = at

Init ==
    /\ product = FirstVersion /\ files = {} /\ launch = None
    /\ record = None /\ old = FALSE
    /\ brief = [revision |-> 0, pinned |-> {}] /\ status = "active"
    /\ testers = [p \in Processes |-> [at |-> "new"]]
    /\ edits = 0

-----------------------------------------------------------------------------
(* The worker                                                              *)

Edit(version) ==
    /\ edits < MaxEdits /\ version # product
    /\ product' = version /\ edits' = edits + 1
    /\ UNCHANGED <<files, launch, record, old, brief, status, testers>>

Revise ==
    /\ brief.revision < MaxRevisions
    /\ brief' = [brief EXCEPT !.revision = @ + 1] /\ status' = "active"
    /\ UNCHANGED <<product, files, launch, record, old, testers, edits>>

\* The feature is accepted once every pinned suite passes; the brief stays as it is.
Accept ==
    /\ status = "active" /\ \A s \in brief.pinned : product \notin FailsOn[s]
    /\ status' = "accepted"
    /\ UNCHANGED <<product, files, launch, record, old, brief, testers, edits>>

-----------------------------------------------------------------------------
(* A process that starts the tester                                        *)

\* Its process is gone or it is older than its deadlines together.
IsStale == old \/ testers[record.pid] = Gone

MayRestartTester(retry) ==
    record # None => \/ retry /\ record.status = "failed"
                     \/ record.status = "running" /\ IsStale

\* A failed record whose file waits to be pinned is only pinned again.
PendingPin == record # None /\ record.status = "failed" /\ record.file /\ record.suite \in files

\* An existing record is read; a first start writes down the sources it finds, once.
Start(p, retry) ==
    /\ At(p, "new") /\ MayRestartTester(retry)
    /\ record = None => status # "accepted" /\ brief.pinned = {}
    /\ IF retry /\ PendingPin
       THEN Go(p, [at |-> "written", suite |-> record.suite, before |-> record, tries |-> 0,
                  again |-> TRUE, revision |-> None])
            /\ UNCHANGED launch
       ELSE /\ launch' = IF launch = None THEN Sources ELSE launch
            /\ Go(p, [at |-> "started", before |-> record])
    /\ UNCHANGED <<product, files, record, old, brief, status, edits>>

\* The sources a run is about are those of the first launch, or of the record it continues.
LaunchSources(before) == IF before = None THEN launch ELSE before.sources

Record(p, as, suite, file, sources) ==
    [status |-> as, pid |-> p, suite |-> suite, file |-> file, sources |-> sources]

\* The record says who runs, or that the baseline is inconclusive by now.
Mark(p) ==
    LET before == testers[p].before
        sources == LaunchSources(before)
    IN  /\ At(p, "started")
        /\ IF record # before
           THEN Go(p, Gone) /\ UNCHANGED <<record, old>>
           ELSE /\ old' = FALSE
                /\ IF Sources # sources
                   THEN record' = Record(p, "declined", None, FALSE, sources) /\ Go(p, Gone)
                   ELSE /\ record' = Record(p, "running", None, FALSE, sources)
                        /\ Go(p, [at |-> "marked", sources |-> sources])
        /\ UNCHANGED <<product, files, launch, brief, status, edits>>

\* What the run ends with: the record it left, and what becomes of it.
Ends(p, as, suite, file) ==
    Go(p, [at |-> "ending", before |-> Record(p, "running", None, FALSE, testers[p].sources),
           after |-> Record(p, as, suite, file, testers[p].sources)])

\* The sources must be those of the launch when the copy begins; the worker may edit meanwhile.
Capture(p) ==
    /\ At(p, "marked")
    /\ IF Sources = testers[p].sources THEN Go(p, [testers[p] EXCEPT !.at = "capturing"])
                                       ELSE Ends(p, "failed", None, FALSE)
    /\ UNCHANGED <<product, files, launch, record, old, brief, status, edits>>

Copy(p) ==
    /\ At(p, "capturing")
    /\ Go(p, [at |-> "copied", sources |-> testers[p].sources, copy |-> product])
    /\ UNCHANGED <<product, files, launch, record, old, brief, status, edits>>

\* The copy is taken as it came out.
BugSnapshotHolds(p) == TRUE

\* The copied bytes are still those of the project, and those are still the launch's.
SnapshotHolds(p) == Sources = testers[p].sources /\ testers[p].copy = product

Verify(p) ==
    /\ At(p, "copied")
    /\ IF SnapshotHolds(p)
       THEN Go(p, [testers[p] EXCEPT !.at = "asked"] )
       ELSE Ends(p, "failed", None, FALSE)
    /\ UNCHANGED <<product, files, launch, record, old, brief, status, edits>>

\* A suite must fail on the copy; one that passes is repaired once.
Answer(p, suite) ==
    /\ \/ At(p, "asked") \/ At(p, "repairing")
    /\ IF testers[p].copy \in FailsOn[suite]
       THEN Go(p, [at |-> "kept", sources |-> testers[p].sources, suite |-> suite])
       ELSE IF At(p, "asked") THEN Go(p, [testers[p] EXCEPT !.at = "repairing"])
                              ELSE Ends(p, "rejected", None, FALSE)
    /\ UNCHANGED <<product, files, launch, record, old, brief, status, edits>>

\* The tester declines or does not answer.
NoAnswer(p, as) ==
    /\ \/ At(p, "asked") \/ At(p, "repairing")
    /\ Ends(p, as, None, FALSE)
    /\ UNCHANGED <<product, files, launch, record, old, brief, status, edits>>

WriteFile(p) ==
    LET suite == testers[p].suite
    IN  /\ At(p, "kept")
        /\ IF suite \in files
           THEN Ends(p, "failed", None, FALSE) /\ UNCHANGED files
           ELSE /\ files' = files \cup {suite}
                /\ Go(p, [at |-> "written", sources |-> testers[p].sources, suite |-> suite,
                          tries |-> 0, again |-> FALSE, revision |-> None])
        /\ UNCHANGED <<product, launch, record, old, brief, status, edits>>

\* The pin failed: the record keeps the file to be pinned later, or a repeated pin leaves it alone.
PinFails(p, file) ==
    IF testers[p].again THEN Go(p, Gone) ELSE Ends(p, "failed", testers[p].suite, file)

\* Accepted work is not reopened; the file goes again.
ReadBrief(p) ==
    /\ At(p, "written")
    /\ IF status = "accepted"
       THEN /\ PinFails(p, TRUE)
            /\ files' = IF testers[p].again THEN files ELSE files \ {testers[p].suite}
       ELSE /\ Go(p, [testers[p] EXCEPT !.at = "pinning", !.revision = brief])
            /\ UNCHANGED files
    /\ UNCHANGED <<product, launch, record, old, brief, status, edits>>

\* The suite becomes protected intent, unless the brief was revised since it was read.
Pin(p) ==
    LET suite == testers[p].suite
        tester == testers[p]
    IN  /\ At(p, "pinning")
        /\ \/ /\ brief = tester.revision
              /\ brief' = [revision |-> brief.revision, pinned |-> brief.pinned \cup {suite}]
              /\ status' = "active"
              /\ IF tester.again
                 THEN Go(p, [at |-> "ending", before |-> tester.before,
                             after |-> [tester.before EXCEPT !.status = "pinned"]])
                 ELSE Ends(p, "pinned", suite, TRUE)
           \/ /\ brief # tester.revision
              /\ IF tester.tries < MaxTries
                 THEN Go(p, [tester EXCEPT !.at = "written", !.tries = @ + 1, !.revision = None])
                 ELSE PinFails(p, TRUE)
              /\ UNCHANGED <<brief, status>>
        /\ UNCHANGED <<product, files, launch, record, old, edits>>

\* The record takes the result if it is still the one this process wrote or continued.
SaveRecord(p) ==
    /\ At(p, "ending")
    /\ record' = IF record = testers[p].before THEN testers[p].after ELSE record
    /\ Go(p, Gone)
    /\ UNCHANGED <<product, files, launch, old, brief, status, edits>>

\* The host ends the process, or it stops between two steps.
Die(p) ==
    /\ testers[p] # Gone /\ ~At(p, "new") /\ Go(p, Gone)
    /\ UNCHANGED <<product, files, launch, record, old, brief, status, edits>>

\* Two answers of 12 minutes with their baseline runs take longer than the 26 a record may be old.
GrowOld ==
    /\ record # None /\ record.status = "running" /\ ~old
    /\ old' = TRUE
    /\ UNCHANGED <<product, files, launch, record, brief, status, testers, edits>>

-----------------------------------------------------------------------------

Tester(p) ==
    \/ \E retry \in BOOLEAN : Start(p, retry)
    \/ Mark(p) \/ Capture(p) \/ Copy(p) \/ Verify(p)
    \/ \E suite \in Suites : Answer(p, suite)
    \/ \E as \in {"declined", "failed"} : NoAnswer(p, as)
    \/ WriteFile(p) \/ ReadBrief(p) \/ Pin(p) \/ SaveRecord(p) \/ Die(p)

Next ==
    \/ \E version \in Versions : Edit(version)
    \/ Revise \/ Accept \/ GrowOld
    \/ \E p \in Processes : Tester(p)

Spec == Init /\ [][Next]_vars

-----------------------------------------------------------------------------
(* Properties                                                              *)

\* A pinned suite failed on the sources the tester was first launched on, however often it was
\* restarted and whatever was edited meanwhile; a record that says pinned names a suite the brief
\* pins (independent-tests-run.ts, tester-snapshot.ts).
PinnedFailedAtLaunch ==
    /\ \A s \in brief.pinned : launch[1] \in FailsOn[s]
    /\ record # None /\ record.status = "pinned" => record.suite \in brief.pinned
===============================================================================
