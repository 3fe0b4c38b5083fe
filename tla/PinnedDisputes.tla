---------------------------- MODULE PinnedDisputes ----------------------------
(***************************************************************************)
(* The pinned acceptance tests and the disputes about them                 *)
(* (tester/pinned-disputes.ts, pinned-dispute-model.ts, done-review.ts).   *)
(* A worker may dispute a failing test, the independent reviewer rules, and *)
(* an upheld test is waived.  Disputes lie in the tester's record, which is *)
(* read, changed and saved only if nobody saved it in between; the review  *)
(* itself lies in another file, saved after the rulings were recorded.     *)
(*                                                                         *)
(* A run of the suite is one step (CheckExecution has edits during it), and *)
(* a review that asks about no dispute is left out: it rules on nothing.   *)
(***************************************************************************)
EXTENDS Naturals, Sequences, FiniteSets

CONSTANTS
    Tests,          \* the declared tests of the suite
    Crash,          \* a failure that names no declared test
    Versions, FirstVersion,
    Failing,        \* version -> what fails there, with nothing waived
    SuiteSkips,     \* whether the suite reads VISP_WAIVED_TESTS
    None,
    MaxOpen, MaxFilings, MaxReviewsPerFiling,   \* limits of the source
    MaxAttempts,    \* the calls of the review budget
    MaxEdits, MaxCalls

ASSUME PinnedConstants ==
    /\ FirstVersion \in Versions /\ None \notin Versions \cup {"passed"} /\ Crash \notin Tests
    /\ Failing \in [Versions -> SUBSET (Tests \cup {Crash})] /\ SuiteSkips \in BOOLEAN
    /\ {MaxOpen, MaxFilings, MaxReviewsPerFiling, MaxAttempts, MaxEdits, MaxCalls} \subseteq Nat

VARIABLES
    source,         \* the product
    disputes,       \* test -> its dispute, or None
    receipts,       \* version -> the last result of the suite recorded for it, or None
    attempts,       \* the recorded reviews that asked about disputes
    worker,         \* the `done` or `accept` under way
    reviewer,       \* the review process
    edits, calls

vars == <<source, disputes, receipts, attempts, worker, reviewer, edits, calls>>

Idle == [at |-> "idle", asks |-> {}, subject |-> None, failing |-> {}, before |-> None,
         verified |-> {}]
NoReview == [at |-> "none", asked |-> {}, subject |-> None, shown |-> <<>>, id |-> 0,
             rulings |-> <<>>, tries |-> 0, before |-> None]
Rulings == {"upheld", "rejected"}

Open == {t \in Tests : disputes[t] # None /\ disputes[t].status = "open"}
Pending == {t \in Open : disputes[t].reviews < MaxReviewsPerFiling}

-----------------------------------------------------------------------------
(* Waivers and runs                                                        *)

\* The tester's record alone decides.
BugVerifiedUpheld(t) == disputes[t] # None /\ disputes[t].status = "upheld"

\* An upheld ruling counts only with the accepted review that gave it, on the same evidence.
VerifiedUpheld(t) ==
    /\ disputes[t] # None /\ disputes[t].status = "upheld"
    /\ LET attempt == attempts[disputes[t].ruling.attempt]
       IN  /\ attempt.status = "reviewed" /\ t \in attempt.asked
           /\ t \in DOMAIN attempt.rulings /\ attempt.rulings[t] = "upheld"

PinnedWaivers == {t \in Tests : VerifiedUpheld(t)}

\* What a run reports as failing: a suite that can, skips the waived tests.
Reported(version, waived) ==
    IF SuiteSkips THEN Failing[version] \ waived ELSE Failing[version]

AllFailuresIn(failing, covered) == Crash \notin failing /\ failing # {} /\ failing \subseteq covered

WaivedResult(failing, waived) ==
    IF failing = {} \/ (~SuiteSkips /\ waived # {} /\ AllFailuresIn(failing, waived))
    THEN "passed" ELSE "failed"

\* Reviews of the same disputes, unruled equally often, on the same product are the same review.
DisputeSetKey(pending) == {<<t, disputes[t].reviews>> : t \in pending}

-----------------------------------------------------------------------------
(* The worker                                                              *)

Init ==
    /\ source = FirstVersion
    /\ disputes = [t \in Tests |-> None]
    /\ receipts = [v \in Versions |-> None]
    /\ attempts = <<>> /\ worker = Idle /\ reviewer = NoReview
    /\ edits = 0 /\ calls = 0

Edit(version) ==
    /\ edits < MaxEdits /\ version # source
    /\ source' = version /\ edits' = edits + 1
    /\ UNCHANGED <<disputes, receipts, attempts, worker, reviewer, calls>>

\* `verify`, or the second `done` after a review: the suite runs, and disputes are left alone.
Verify ==
    /\ worker = Idle /\ calls < MaxCalls
    /\ receipts' = [receipts EXCEPT ![source] =
                        WaivedResult(Reported(source, PinnedWaivers), PinnedWaivers)]
    /\ calls' = calls + 1
    /\ UNCHANGED <<source, disputes, attempts, worker, reviewer, edits>>

\* `done` reuses a pass of this very product; `accept` runs the suite again.
RunsSuite(command) == command = "accept" \/ receipts[source] # "passed"

\* `done` or `accept`, with a dispute of at most one test.
Call(command, asks) ==
    LET failing == Reported(source, PinnedWaivers)
        status == WaivedResult(failing, PinnedWaivers)
        ran == RunsSuite(command)
    IN  /\ worker = Idle /\ calls < MaxCalls
        /\ calls' = calls + 1
        /\ receipts' = IF ran THEN [receipts EXCEPT ![source] = status] ELSE receipts
        /\ worker' = [Idle EXCEPT !.at = IF ran THEN "ran" ELSE "refreshed", !.asks = asks,
                                  !.subject = source,
                                  !.failing = IF ran /\ status = "failed" THEN failing ELSE {}]
        /\ UNCHANGED <<source, disputes, attempts, reviewer, edits>>

\* The record is read; what it says is used until it is saved.
Load(from, to) ==
    /\ worker.at = from
    /\ worker' = [worker EXCEPT !.at = to, !.before = disputes]
    /\ UNCHANGED <<source, disputes, receipts, attempts, reviewer, edits, calls>>

StartRefresh == Load("ran", "refreshing")

\* Disputes of an earlier product take over the run just observed, or expire.
Refreshed(before) ==
    [t \in Tests |->
        IF before[t] = None THEN None
        ELSE IF before[t].status # "open" \/ before[t].subject = worker.subject THEN before[t]
        ELSE IF t \in worker.failing
        THEN [before[t] EXCEPT !.subject = worker.subject, !.reviews = 0]
        ELSE [before[t] EXCEPT !.status = "expired"]]

\* Saves whatever the record became meanwhile.
BugUnchangedSince(before) == TRUE

\* saveTestsRecord: the record must be as it was read.
UnchangedSince(before) == disputes = before

\* A save that comes too late fails the whole call with STATE_BUSY.
Save(from, to, after) ==
    /\ worker.at = from
    /\ IF after = worker.before \/ UnchangedSince(worker.before)
       THEN /\ disputes' = IF after = worker.before THEN disputes ELSE after
            /\ worker' = [worker EXCEPT !.at = to, !.before = None]
       ELSE worker' = Idle /\ UNCHANGED disputes
    /\ UNCHANGED <<source, receipts, attempts, reviewer, edits, calls>>

Refresh == worker.at = "refreshing" /\ Save("refreshing", "refreshed", Refreshed(worker.before))

\* Nothing to file, or no review left that could rule.
SkipFiling ==
    /\ worker.at = "refreshed" /\ (worker.asks = {} \/ Len(attempts) >= MaxAttempts)
    /\ worker' = IF worker.asks = {} THEN [worker EXCEPT !.at = "filed"] ELSE Idle
    /\ UNCHANGED <<source, disputes, receipts, attempts, reviewer, edits, calls>>

StartFiling ==
    /\ worker.asks # {} /\ Len(attempts) < MaxAttempts
    /\ Load("refreshed", "filing")

\* The waivers are looked up after the record was read.
ReadWaivers ==
    /\ worker.at = "filing"
    /\ worker' = [worker EXCEPT !.at = "judging", !.verified = PinnedWaivers]
    /\ UNCHANGED <<source, disputes, receipts, attempts, reviewer, edits, calls>>

\* Why a test may not be disputed (again).
Refused(before, verified, t, subject, failing) ==
    LET open == {u \in Tests \ {t} : before[u] # None /\ before[u].status = "open"}
        unverified == before[t] # None /\ before[t].status = "upheld" /\ t \notin verified
    IN  \/ t \notin failing
        \/ Cardinality(open) >= MaxOpen
        \/ before[t] # None /\ \/ before[t].status = "upheld" /\ ~unverified
                               \/ before[t].status = "rejected" /\ before[t].ruling.subject = subject
                               \/ /\ ~unverified /\ before[t].status # "open"
                                  /\ before[t].filings >= MaxFilings

FiledDispute(prior, subject) ==
    IF prior # None /\ prior.status = "open"
    THEN [prior EXCEPT !.subject = subject]
    ELSE [status |-> "open", subject |-> subject, reviews |-> 0, ruling |-> None,
          filings |-> IF prior = None THEN 1 ELSE prior.filings + 1]

File ==
    /\ worker.at = "judging"
    /\ LET filed == {t \in worker.asks : ~Refused(worker.before, worker.verified, t,
                                                  worker.subject, worker.failing)}
       IN  Save("judging", "filed",
                [t \in Tests |-> IF t \in filed THEN FiledDispute(worker.before[t], worker.subject)
                                                ELSE worker.before[t]])

\* What failed must await a ruling in full; then the reviewer is launched for what is pending.
LaunchReview ==
    /\ worker.at = "filed"
    /\ worker' = Idle
    /\ IF /\ worker.failing # {} => AllFailuresIn(worker.failing, Pending)
          /\ Pending # {} /\ reviewer = NoReview /\ Len(attempts) < MaxAttempts
       THEN reviewer' = [NoReview EXCEPT !.at = "launched"]
       ELSE UNCHANGED reviewer
    /\ UNCHANGED <<source, disputes, receipts, attempts, edits, calls>>

-----------------------------------------------------------------------------
(* The reviewer                                                            *)

\* The packet is put together, with the failure each pending dispute recorded.
ReviewContext ==
    /\ reviewer.at = "launched"
    /\ reviewer' = [NoReview EXCEPT !.at = "prepared", !.asked = Pending, !.subject = source,
                                    !.shown = [t \in Pending |-> disputes[t].subject]]
    /\ UNCHANGED <<source, disputes, receipts, attempts, worker, edits, calls>>

ReserveReview ==
    LET key == DisputeSetKey(Pending)
        duplicate == \E i \in DOMAIN attempts : /\ attempts[i].status = "reviewed"
                                                /\ attempts[i].subject = source
                                                /\ attempts[i].key = key
    IN  /\ reviewer.at = "prepared"
        /\ IF source # reviewer.subject \/ duplicate \/ Len(attempts) >= MaxAttempts
           THEN reviewer' = NoReview /\ UNCHANGED attempts
           ELSE /\ attempts' = Append(attempts,
                       [status |-> "pending", subject |-> source, asked |-> reviewer.asked,
                        shown |-> reviewer.shown, key |-> key, rulings |-> <<>>])
                /\ reviewer' = [NoReview EXCEPT !.at = "reading", !.id = Len(attempts) + 1]
        /\ UNCHANGED <<source, disputes, receipts, worker, edits, calls>>

\* The answer rules on some of the disputes asked about; it counts for an unchanged product only.
Answer(rulings) ==
    LET attempt == attempts[reviewer.id]
    IN  /\ reviewer.at = "reading" /\ DOMAIN rulings \subseteq attempt.asked
        /\ IF source = attempt.subject
           THEN /\ reviewer' = [reviewer EXCEPT !.at = "returned", !.rulings = rulings]
                /\ UNCHANGED attempts
           ELSE /\ attempts' = [attempts EXCEPT ![reviewer.id].status = "unavailable"]
                /\ reviewer' = NoReview
        /\ UNCHANGED <<source, disputes, receipts, worker, edits, calls>>

LoadForRulings ==
    /\ reviewer.at = "returned"
    /\ reviewer' = [reviewer EXCEPT !.at = "ruling", !.before = disputes]
    /\ UNCHANGED <<source, disputes, receipts, attempts, worker, edits, calls>>

\* Open disputes that were asked about get their ruling, or have used up one of their reviews.
Ruled(before, rulings, attempt, id) ==
    [t \in Tests |->
        IF before[t] = None \/ t \notin attempt.asked THEN before[t]
        ELSE IF before[t].status # "open" THEN before[t]
        ELSE IF t \in DOMAIN rulings
        THEN [before[t] EXCEPT !.status = rulings[t],
                               !.ruling = [attempt |-> id, subject |-> attempt.subject]]
        ELSE [before[t] EXCEPT !.reviews = @ + 1]]

\* The rulings are recorded first, in at most three tries.
ApplyRulings ==
    LET after == Ruled(reviewer.before, reviewer.rulings, attempts[reviewer.id], reviewer.id)
        next(at, tries, rulings) == [reviewer EXCEPT !.at = at, !.tries = tries,
                                                     !.rulings = rulings, !.before = None]
    IN  /\ reviewer.at = "ruling"
        /\ IF UnchangedSince(reviewer.before)
           THEN /\ disputes' = after
                /\ reviewer' = next("ruled", 0, reviewer.rulings)
           ELSE /\ reviewer' = IF reviewer.tries < 2
                               THEN next("returned", reviewer.tries + 1, reviewer.rulings)
                               ELSE next("ruled", 0, <<>>)
                /\ UNCHANGED disputes
        /\ UNCHANGED <<source, receipts, attempts, worker, edits, calls>>

\* Then the review itself is saved as accepted, with the rulings that were recorded.
SaveReview ==
    /\ reviewer.at = "ruled"
    /\ attempts' = [attempts EXCEPT ![reviewer.id].status = "reviewed",
                                    ![reviewer.id].rulings = reviewer.rulings]
    /\ reviewer' = NoReview
    /\ UNCHANGED <<source, disputes, receipts, worker, edits, calls>>

\* The review process ends early; a later launch settles its attempt once the deadline passed.
ReviewerDies ==
    /\ reviewer.at \notin {"none", "launched", "prepared"}
    /\ attempts' = [attempts EXCEPT ![reviewer.id].status = "unavailable"]
    /\ reviewer' = NoReview
    /\ UNCHANGED <<source, disputes, receipts, worker, edits, calls>>

-----------------------------------------------------------------------------

Next ==
    \/ \E version \in Versions : Edit(version)
    \/ Verify
    \/ \E command \in {"done", "accept"}, asks \in {{}} \cup {{t} : t \in Tests} : Call(command, asks)
    \/ StartRefresh \/ Refresh \/ SkipFiling \/ StartFiling \/ ReadWaivers \/ File \/ LaunchReview
    \/ ReviewContext \/ ReserveReview
    \/ \E ruled \in SUBSET Tests : \E rulings \in [ruled -> Rulings] : Answer(rulings)
    \/ LoadForRulings \/ ApplyRulings \/ SaveReview \/ ReviewerDies

Spec == Init /\ [][Next]_vars

-----------------------------------------------------------------------------
(* Properties                                                              *)

\* The suite counts as passed on a product only if every test that fails there was upheld by an
\* accepted review that was asked about it, and nothing else failed; a review that died after its
\* ruling was recorded waives nothing (pinned-dispute-model.ts:440-468).
PassesAreEarned ==
    \A v \in Versions : receipts[v] = "passed" =>
        \A failure \in Failing[v] : \E i \in DOMAIN attempts :
            /\ attempts[i].status = "reviewed" /\ failure \in attempts[i].asked
            /\ failure \in DOMAIN attempts[i].rulings /\ attempts[i].rulings[failure] = "upheld"

\* A rejected test is open again only for a changed product, and once: copies of the record that
\* were read before the ruling never bring the dispute back (pinned-disputes.ts:295-322).
RejectionsStand ==
    [][\A t \in Tests :
        disputes[t] # None /\ disputes[t].status = "rejected" /\ disputes'[t] # disputes[t] =>
            /\ disputes'[t].subject # disputes[t].ruling.subject
            /\ disputes'[t].filings = disputes[t].filings + 1 /\ disputes'[t].filings <= MaxFilings]_vars

\* "the reviewer never rules on stale output" (pinned-disputes.ts:339-344): an accepted review that
\* ruled on a test was shown a failure of the product it ruled on.
NoStaleRuling ==
    \A i \in DOMAIN attempts : attempts[i].status = "reviewed" =>
        \A t \in DOMAIN attempts[i].rulings : attempts[i].shown[t] = attempts[i].subject
===============================================================================
