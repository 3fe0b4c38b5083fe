----------------------------- MODULE FeedbackLoop -----------------------------
(***************************************************************************)
(* One budgeted attempt of the runner with a feedback loop: an actor       *)
(* builds a candidate, the candidate is frozen, an independent reviewer    *)
(* judges it, and its review drives the next round.  Both are host         *)
(* processes that may report anything; the worktree may be edited by       *)
(* anybody at any time.                                                    *)
(*                                                                         *)
(* Time is counted in ticks and money in small units; halving rounds down. *)
(* A candidate is one of a few versions, an exercise one of a few checks.  *)
(***************************************************************************)
EXTENDS Integers, FiniteSets

CONSTANTS
    MaxRounds, ActorMax, ReviewMax,     \* of the loop's configuration
    MaxDuration, MaxUsd,                \* of the attempt's budget
    Criteria, Exercises, Sources, Sessions,
    None,
    Costs(_),                           \* what a turn with an allocation may report
    MaxEdits                            \* bound: edits from outside a turn

VARIABLES
    phase,          \* where the loop is
    round,
    clock,          \* ticks since the start
    charged,        \* chargedBudget
    turn,           \* the host turn under way: its time and money
    source,         \* the candidate in the worktree
    subject,        \* the frozen candidate of this round
    session,        \* the actor's session
    last,           \* decision and subject of the last review
    failedFirst,    \* the exercise each criterion first failed with
    checks,         \* the checks of the last review
    status,         \* of the loop, then of the attempt
    diagnosed, accepted,
    aborted,        \* the caller's signal
    spent, overrun, \* what the hosts used at most, and by how much that passed their shares
    edits

reviewed == <<last, failedFirst, checks, accepted>>
vars == <<phase, round, clock, charged, turn, source, subject, session, reviewed,
          status, diagnosed, aborted, spent, overrun, edits>>

NoReview == [decision |-> None, subject |-> None]
NoTurn == [time |-> 0, usd |-> 0]

Init ==
    /\ phase = "act" /\ round = 1 /\ clock = 0 /\ charged = 0 /\ turn = NoTurn
    /\ source \in Sources /\ subject = None
    /\ session \in Sessions \cup {None}
    /\ last = NoReview /\ failedFirst = [c \in Criteria |-> None]
    /\ checks = [c \in Criteria |-> None]
    /\ status = "failed" /\ diagnosed = FALSE /\ accepted = FALSE
    /\ aborted = FALSE /\ spent = 0 /\ overrun = 0 /\ edits = 0

RemainingUsd == MaxUsd - charged
RemainingTime == MaxDuration - clock

-----------------------------------------------------------------------------
(* Phases *)

\* What stops a phase from starting, in the order of the code.
Obstacle(duration) ==
    IF aborted THEN "cancelled" ELSE IF RemainingUsd <= 0 THEN "budget-exceeded"
    ELSE IF duration < 1 THEN "timed-out" ELSE None

Smaller(a, b) == IF a <= b THEN a ELSE b

\* Bug: no time is set aside for the review.
BugActorDuration == Smaller(ActorMax, RemainingTime \div (MaxRounds - round + 1))

ActorDuration == Smaller(ActorMax, (RemainingTime - ReviewMax) \div (MaxRounds - round + 1))

\* Ends the loop with a status; the attempt then takes its final snapshot.
EndWith(s) == phase' = "ended" /\ status' = s

StartActor ==
    /\ phase = "act"
    /\ IF Obstacle(ActorDuration) # None
       THEN EndWith(Obstacle(ActorDuration)) /\ UNCHANGED turn
       ELSE /\ phase' = "acting" /\ UNCHANGED status
            /\ turn' = [time |-> ActorDuration, usd |-> RemainingUsd \div 2]
    /\ UNCHANGED <<round, clock, charged, source, subject, session, reviewed, diagnosed,
                   aborted, spent, overrun, edits>>

\* A turn that reports no cost is charged its whole allocation.
Charge(usd) == charged' = charged + (IF usd = None THEN turn.usd ELSE usd)

\* A host process ends within its time: what it reports, and what becomes of the status.
\* It has completed only with a session, a known cost and no diagnostics of its own.
HostTurn(t, usd, outcome, sess) ==
    /\ t \in 0..turn.time /\ clock' = clock + t
    /\ outcome = "timed-out" => t = turn.time
    /\ outcome = "completed" => usd # None /\ sess # None
    /\ outcome = "cancelled" => aborted
    /\ Charge(usd)
    /\ spent' = spent + (IF usd = None THEN turn.usd ELSE usd)
    /\ overrun' = overrun + (IF usd = None \/ usd <= turn.usd THEN 0 ELSE usd - turn.usd)
    /\ diagnosed' = (diagnosed \/ outcome # "completed")
    /\ turn' = NoTurn

Outcomes == {"completed", "failed", "timed-out", "cancelled", "budget-exceeded"}

\* A time checkpoint still hands the partial candidate over.
ActorEnds ==
    /\ phase = "acting"
    /\ \E t \in {0, turn.time}, usd \in Costs(turn.usd), outcome \in Outcomes,
          sess \in Sessions \cup {None} :
          /\ HostTurn(t, usd, outcome, sess)
          /\ session # None => sess = session     \* a resumed session keeps its identity
          /\ session' = sess
          /\ status' = (IF outcome = "completed" THEN "failed" ELSE outcome)
          /\ phase' = (IF outcome \in {"completed", "timed-out"} THEN "freeze" ELSE "ended")
    /\ source' \in Sources
    /\ UNCHANGED <<round, subject, reviewed, aborted, edits>>

Freeze ==
    /\ phase = "freeze"
    /\ IF last.decision = "evidence" /\ last.subject # source
       THEN phase' = "ended" /\ diagnosed' = TRUE /\ UNCHANGED subject
       ELSE phase' = "review" /\ subject' = source /\ UNCHANGED diagnosed
    /\ UNCHANGED <<round, clock, charged, turn, source, session, reviewed, status, aborted,
                   spent, overrun, edits>>

StartReview ==
    /\ phase = "review"
    /\ LET duration == Smaller(ReviewMax, RemainingTime)
       IN  IF Obstacle(duration) # None
           THEN EndWith(Obstacle(duration)) /\ UNCHANGED turn
           ELSE /\ phase' = "reviewing" /\ UNCHANGED status
                /\ turn' = [time |-> duration, usd |-> RemainingUsd \div 2]
    /\ UNCHANGED <<round, clock, charged, source, subject, session, reviewed, diagnosed,
                   aborted, spent, overrun, edits>>

-----------------------------------------------------------------------------
(* The review *)

Check == [status : {"passed", "failed"}, exercise : Exercises, evidence : BOOLEAN]
            \cup {[status |-> "unverified", exercise |-> None, evidence |-> FALSE]}
Review == [decision : {"pass", "repair", "evidence", "unavailable"},
           checks : [Criteria -> Check], findings : SUBSET Criteria]

\* Bug: any exercise counts for a repaired criterion.
BugReplays(r) == TRUE

\* A repaired criterion must replay the exercise it first failed with.
Replays(r) ==
    \A c \in Criteria : failedFirst[c] # None /\ r.checks[c].status = "passed"
                            => r.checks[c].exercise = failedFirst[c]

DecisionHolds(r) ==
    /\ r.decision = "pass" => r.findings = {} /\ \A c \in Criteria : r.checks[c].status = "passed"
    /\ r.decision = "repair" => \E c \in r.findings : r.checks[c].status = "failed"
    /\ r.decision = "evidence" => \E c \in Criteria : r.checks[c].status = "unverified"

\* The reviews parseLoopReview accepts: each criterion once, claims with evidence.
Valid(r) ==
    /\ \A c \in Criteria : r.checks[c].status # "unverified" => r.checks[c].evidence
    /\ DecisionHolds(r) /\ Replays(r)

\* The candidate is what was frozen and the reviewer is not the actor.
HandoffValid(now, sess) == now = subject /\ sess # session

\* What follows a review that was recorded.
AfterReview(r) ==
    IF aborted \/ MaxUsd - charged' <= 0 \/ MaxDuration - clock' < 1
    THEN /\ EndWith(IF aborted THEN "cancelled"
                    ELSE IF MaxUsd - charged' <= 0 THEN "budget-exceeded" ELSE "timed-out")
         /\ UNCHANGED <<round, accepted>>
    ELSE \/ /\ r.decision = "pass"
            /\ EndWith("completed") /\ accepted' = TRUE /\ UNCHANGED round
         \/ /\ r.decision = "unavailable"
            /\ EndWith("failed") /\ UNCHANGED <<round, accepted>>
         \/ /\ r.decision \in {"repair", "evidence"} /\ status' = "failed" /\ UNCHANGED accepted
            /\ IF round < MaxRounds THEN phase' = "act" /\ round' = round + 1
               ELSE phase' = "ended" /\ UNCHANGED round

\* The reviewer ends without a review that counts.
ReviewFails ==
    /\ phase = "reviewing"
    /\ \E t \in {0, turn.time}, usd \in Costs(turn.usd), outcome \in Outcomes,
          sess \in Sessions \cup {None} :
          /\ HostTurn(t, usd, outcome, sess)
          /\ EndWith(IF outcome = "completed" THEN "failed" ELSE outcome)
    /\ source' \in Sources
    /\ UNCHANGED <<round, subject, session, reviewed, aborted, edits>>

ReviewReturns ==
    /\ phase = "reviewing"
    /\ \E now \in Sources, t \in {0, turn.time}, usd \in Costs(turn.usd), sess \in Sessions :
          /\ HostTurn(t, usd, "completed", sess) /\ source' = now
          /\ HandoffValid(now, sess)
    /\ \E r \in Review :
          /\ Valid(r)
          /\ last' = [decision |-> r.decision, subject |-> subject] /\ checks' = r.checks
          /\ failedFirst' = [c \in Criteria |->
                IF failedFirst[c] = None /\ r.checks[c].status = "failed"
                THEN r.checks[c].exercise ELSE failedFirst[c]]
          /\ AfterReview(r)
    /\ UNCHANGED <<subject, session, aborted, edits>>

-----------------------------------------------------------------------------
(* The end of the attempt, and the world around it *)

\* The final snapshot; what passed review but is not in it fails the attempt.
Finish ==
    /\ phase = "ended" /\ phase' = "finished" /\ subject' = source
    /\ diagnosed' = (diagnosed \/ ~accepted \/ last.subject # source)
    /\ status' = (IF status = "completed" /\ diagnosed' THEN "failed" ELSE status)
    /\ UNCHANGED <<round, clock, charged, turn, source, session, reviewed, aborted, spent,
                   overrun, edits>>

Abort ==
    /\ ~aborted /\ phase # "finished" /\ aborted' = TRUE
    /\ UNCHANGED <<phase, round, clock, charged, turn, source, subject, session, reviewed,
                   status, diagnosed, spent, overrun, edits>>

Edit ==
    /\ edits < MaxEdits /\ phase # "finished" /\ edits' = edits + 1
    /\ \E s \in Sources \ {source} : source' = s
    /\ UNCHANGED <<phase, round, clock, charged, turn, subject, session, reviewed, status,
                   diagnosed, aborted, spent, overrun>>

Step == StartActor \/ ActorEnds \/ Freeze \/ StartReview \/ ReviewFails \/ ReviewReturns \/ Finish

Next == Step \/ Abort \/ Edit

Spec == Init /\ [][Next]_vars

\* Host processes end: they are killed when their time is over.
FairSpec == Spec /\ WF_vars(Step)

-----------------------------------------------------------------------------

\* The loop's counters and records have the shape the result is built from.
TypeOK ==
    /\ round \in 1..MaxRounds /\ charged \in Nat /\ turn.usd \in Nat /\ turn.time \in Nat
    /\ source \in Sources /\ subject \in Sources \cup {None} /\ session \in Sessions \cup {None}
    /\ \A c \in Criteria : failedFirst[c] \in Exercises \cup {None}
    /\ status \in Outcomes /\ phase \in {"act", "acting", "freeze", "review", "reviewing",
                                         "ended", "finished"}

\* The phases share one budget: it is exceeded only by what a host reports beyond its allocation.
WithinBudget == spent <= MaxUsd + overrun

\* However long the actors take, their time leaves the review of the round its full share
\* (feedback-loop.ts:57, actors divide what the reviewer does not need).
ReviewTimeReserved == phase = "reviewing" => turn.time = ReviewMax

\* A completed attempt ends with the candidate that a review passed, every criterion of it by
\* the exercise that failed before, if any did, and with evidence.
CompletedOnPass ==
    phase = "finished" /\ status = "completed" =>
        /\ last = [decision |-> "pass", subject |-> source]
        /\ \A c \in Criteria : /\ checks[c].status = "passed" /\ checks[c].evidence
                               /\ failedFirst[c] \in {None, checks[c].exercise}

\* Only a frozen candidate that did not move during its review is credited with it, and the
\* answer to an evidence request is judged on the candidate it was asked about.
JudgesFrozenCandidate ==
    [][last' # last => /\ last'.subject = subject /\ source' = subject
                       /\ last.decision = "evidence" => last'.subject = last.subject]_vars

=============================================================================
