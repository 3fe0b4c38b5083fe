----------------------------- MODULE CriticReview -----------------------------
(***************************************************************************)
(* Independent reviews of one feature and the budget they share: the code  *)
(* of src/workflow/product/critic/.  A review is an attempt recorded in    *)
(* its selection's critic state: reserved under the writer lock, claimed,  *)
(* run by a reviewer process outside the lock until its deadline, and      *)
(* finished under the lock.  Meanwhile the worker edits the source or the  *)
(* brief, other VISP processes reserve, and any process may die.           *)
(*                                                                         *)
(* Every action on attempts is one withProductMutation, hence atomic.      *)
(* Abstractions: a digest of the source or of the brief's intent is a      *)
(* version number; deadlines are one bit per attempt, set in the order of  *)
(* the attempts of a scope; critic-budget.json is not a variable because   *)
(* readFeatureCriticBudget recomputes every entry from the attempts.       *)
(* Source-only reviews, reviews of the whole feature and the refusal of a  *)
(* second review of unchanged evidence are left out.                       *)
(***************************************************************************)
EXTENDS Naturals, Sequences, FiniteSets

CONSTANTS
    Scopes,         \* the slices of the feature, with a critic state each
    MaxCalls,       \* config.maxCalls
    MaxReserved,    \* CRITIC_FEATURE_TIMEOUT_MS, in units of
    Timeout,        \* config.timeoutMs of each scope
    Kinds,          \* who asks: VISP for the reviewer it launches ("visp"), a host with an
                    \* attached adapter, or a host that prepares and submits by itself
    Answers,        \* what a reviewer may answer
    MaxEdits,       \* bound: versions of the source after the first
    MaxRevisions    \* bound: changes of the brief's intent

ASSUME CriticConstants ==
    /\ Scopes # {} /\ MaxCalls \in Nat \ {0} /\ MaxReserved \in Nat
    /\ Timeout \in [Scopes -> 1..MaxReserved]
    /\ Kinds \subseteq {"visp", "attached", "host"} /\ ~({"visp", "attached"} \subseteq Kinds)
    /\ Answers \subseteq {"clean", "findings", "invalid"}
    /\ MaxEdits \in Nat /\ MaxRevisions \in Nat

VARIABLES
    attempts,   \* the attempts of all scopes, in the order of their reservation
    dispatch,   \* what the process that reserved each attempt is doing
    source,     \* the current version of the product source
    intent,     \* the current version of the brief's promises
    checked     \* which slices have executions recorded, on which version of the source

vars == <<attempts, dispatch, source, intent, checked>>

Phases == {"understanding", "product"}

Ids == DOMAIN attempts

Init ==
    /\ attempts = <<>> /\ dispatch = <<>>
    /\ source = 0 /\ intent = 0 /\ checked = {}

-----------------------------------------------------------------------------
(* The budget *)

\* Bug: any attempt that ended unavailable is free, an invalid response included.
BugNoResponse(a) == a.kind = "visp" /\ a.status = "unavailable"

NoResponse(a) == a.kind = "visp" /\ a.status = "unavailable" /\ ~a.returned

CallsUsed(list) == Cardinality({i \in DOMAIN list : ~NoResponse(list[i])})

Total(times) ==
    LET sum[n \in 0..Len(times)] == IF n = 0 THEN 0 ELSE sum[n - 1] + times[n]
    IN  sum[Len(times)]

Reserved(list) == Total([i \in DOMAIN list |-> Timeout[list[i].scope]])

TimeLeft(list, s) == IF Reserved(list) > MaxReserved THEN 0 ELSE MaxReserved - Reserved(list)

CallsLeft(list) == IF CallsUsed(list) > MaxCalls THEN 0 ELSE MaxCalls - CallsUsed(list)

Reservable(list, s) ==
    LET timeouts == TimeLeft(list, s) \div Timeout[s]
    IN  IF CallsLeft(list) < timeouts THEN CallsLeft(list) ELSE timeouts

BudgetGap(list, s) == CallsLeft(list) = 0 \/ TimeLeft(list, s) < Timeout[s]

-----------------------------------------------------------------------------
(* When a review may be reserved *)

Latest(S) == {i \in S : \A j \in S : j <= i}

InScope(s) == {i \in Ids : attempts[i].scope = s}

SameIntent(s) == {i \in InScope(s) : attempts[i].intent = intent}

ExpiredPending(a) == a.status = "pending" /\ a.expired

FailedAttempt(a) == a.status = "unavailable" \/ ExpiredPending(a)

HardFailure(a) == FailedAttempt(a) /\ ~ExpiredPending(a) /\ ~a.cutoff

OwnAttempts(s, phase) ==
    {i \in SameIntent(s) : attempts[i].phase = phase /\ attempts[i].kind # "host"}

RelaunchBlocked(s, phase) ==
    LET own == OwnAttempts(s, phase)
        failures == {i \in own : attempts[i].subject = source /\ HardFailure(attempts[i])}
    IN  \E last \in Latest(own) :
            /\ FailedAttempt(attempts[last]) /\ attempts[last].subject = source
            /\ Cardinality(failures) >= 2

Relaunchable(s, phase, kind) ==
    kind = "visp" /\ SameIntent(s) # {} /\ ~RelaunchBlocked(s, phase)

\* Bug: a review of the other phase does not count as in progress.
BugInProgress(s, phase, kind) ==
    \E last \in Latest(SameIntent(s)) :
        /\ attempts[last].status = "pending" /\ attempts[last].phase = phase
        /\ ~(Relaunchable(s, phase, kind) /\ attempts[last].expired)

\* "review-in-progress" or "interrupted-review"
InProgress(s, phase, kind) ==
    \E last \in Latest(SameIntent(s)) :
        LET a == attempts[last] IN
        /\ a.status = "pending"
        /\ a.phase = phase \/ ~a.expired
        /\ ~(Relaunchable(s, phase, kind) /\ a.phase = phase /\ a.expired)

CurrentClean(s, phase) ==
    \E i \in Latest({j \in SameIntent(s) : attempts[j].phase = phase /\ attempts[j].subject = source}) :
        attempts[i].status = "reviewed" /\ attempts[i].verdict = "clean"

\* "Previous critic attempt unavailable"
Unavailable(s, phase, kind, retryAfter) ==
    \E last \in Latest(SameIntent(s)) :
        /\ attempts[last].status = "unavailable" /\ attempts[last].phase = phase
        /\ last # retryAfter /\ ~Relaunchable(s, phase, kind)

Stopped(s, phase, kind, retryAfter) ==
    \/ InProgress(s, phase, kind)
    \/ ~CurrentClean(s, phase) /\ Unavailable(s, phase, kind, retryAfter)

\* 0 asks for no recovery.
RetryAllowed(s, phase, retryAfter) ==
    retryAfter # 0 =>
        /\ retryAfter \in Latest(InScope(s))
        /\ attempts[retryAfter].status = "unavailable"
        /\ attempts[retryAfter].phase = phase /\ attempts[retryAfter].intent = intent

Built(s) == \E v \in 0..source : <<s, v>> \in checked

\* Bug: one call is enough for a consultation.
BugUnderstandingAllowed(s, retryAfter) ==
    /\ \A i \in InScope(s) : attempts[i].phase = "understanding" => i = retryAfter
    /\ ~Built(s) /\ Reservable(attempts, s) >= 1

UnderstandingAllowed(s, retryAfter) ==
    /\ \A i \in InScope(s) : attempts[i].phase = "understanding" => i = retryAfter
    /\ ~Built(s) /\ Reservable(attempts, s) >= 2

PhaseAllowed(s, phase, retryAfter) ==
    IF phase = "understanding" THEN UnderstandingAllowed(s, retryAfter) ELSE <<s, source>> \in checked

\* endedWithoutResult
EndedWithoutResult(s, phase, kind) ==
    [i \in Ids |->
        LET a == attempts[i] IN
        IF kind = "visp" /\ a.scope = s /\ a.phase = phase /\ ExpiredPending(a)
        THEN [a EXCEPT !.status = "unavailable", !.cause = "ended"] ELSE a]

Fresh(s, phase, kind) ==
    [scope |-> s, phase |-> phase, kind |-> kind, subject |-> source, intent |-> intent,
     status |-> "pending", expired |-> FALSE, claimed |-> FALSE, returned |-> FALSE,
     cutoff |-> FALSE, verdict |-> "none", cause |-> "none"]

\* planCriticBudgetMutation, in the transaction that saves the attempt.
Affordable(next) == CallsUsed(next) <= MaxCalls /\ Reserved(next) <= MaxReserved

Reserve(s, phase, kind, retryAfter) ==
    LET next == Append(EndedWithoutResult(s, phase, kind), Fresh(s, phase, kind)) IN
    /\ RetryAllowed(s, phase, retryAfter)
    /\ ~Stopped(s, phase, kind, retryAfter)
    /\ ~BudgetGap(attempts, s)
    /\ PhaseAllowed(s, phase, retryAfter)
    /\ Affordable(next)
    /\ attempts' = next
    /\ dispatch' = Append(dispatch, IF kind = "host" THEN "none" ELSE "reserved")
    /\ UNCHANGED <<source, intent, checked>>

-----------------------------------------------------------------------------
(* Running a review that VISP or an attached adapter dispatches *)

\* claimInvocation, then the adapter is called; a claim that is refused ends the dispatch.
Claim(i) ==
    /\ dispatch[i] = "reserved"
    /\ IF attempts[i].status = "pending" /\ ~attempts[i].claimed
       THEN /\ attempts' = [attempts EXCEPT ![i].claimed = TRUE]
            /\ dispatch' = [dispatch EXCEPT ![i] = IF attempts[i].expired THEN "cut" ELSE "calling"]
       ELSE /\ dispatch' = [dispatch EXCEPT ![i] = "over"] /\ UNCHANGED attempts
    /\ UNCHANGED <<source, intent, checked>>

\* The reviewer answers before its deadline or fails by itself; at any time the
\* deadline or the caller may cut it off.
Return(i, outcome) ==
    /\ dispatch[i] = "calling"
    /\ outcome \in Answers \cup {"failed", "cut"} /\ (attempts[i].expired => outcome = "cut")
    /\ dispatch' = [dispatch EXCEPT ![i] = outcome]
    /\ UNCHANGED <<attempts, source, intent, checked>>

\* The process that dispatched the review is killed.
Die(i) ==
    /\ dispatch[i] \notin {"none", "over"}
    /\ dispatch' = [dispatch EXCEPT ![i] = "over"]
    /\ UNCHANGED <<attempts, source, intent, checked>>

\* Bug: a response is accepted whatever became of the source.
BugAccepted(a, answer, inTime) == answer \in {"clean", "findings"} /\ inTime

Accepted(a, answer, inTime) ==
    /\ answer \in {"clean", "findings"} /\ inTime
    /\ a.subject = source /\ a.intent = intent

Finished(a, answer, inTime) ==
    LET accepted == Accepted(a, answer, inTime) IN
    [a EXCEPT !.status = IF accepted THEN "reviewed" ELSE "unavailable",
              !.verdict = IF accepted THEN answer ELSE "none",
              !.returned = answer \in Answers,
              !.cutoff = answer = "cut",
              !.cause = IF accepted THEN "none" ELSE "finished"]

\* Bug: a late result is written over whatever the attempt has become.
BugFinish(i) ==
    /\ dispatch[i] \in Answers \cup {"failed", "cut"}
    /\ attempts' = [attempts EXCEPT ![i] = Finished(@, dispatch[i], TRUE)]
    /\ dispatch' = [dispatch EXCEPT ![i] = "over"]
    /\ UNCHANGED <<source, intent, checked>>

\* finishReview of the dispatch: the answer's own time counts, not that of the lock.
Finish(i) ==
    /\ dispatch[i] \in Answers \cup {"failed", "cut"}
    /\ attempts' = IF attempts[i].status = "pending"
                   THEN [attempts EXCEPT ![i] = Finished(@, dispatch[i], TRUE)] ELSE attempts
    /\ dispatch' = [dispatch EXCEPT ![i] = "over"]
    /\ UNCHANGED <<source, intent, checked>>

\* submitNative: a host reports the result of an attempt, or its failure.  Only attempts
\* with a capability report have this way in; VISP's own launcher sends one too.
Submit(i, answer) ==
    /\ attempts[i].status = "pending" /\ answer \in Answers \cup {"failed"}
    /\ attempts[i].claimed => answer = "failed"
    /\ attempts' = [attempts EXCEPT ![i] = Finished(@, answer, ~@.expired)]
    /\ UNCHANGED <<dispatch, source, intent, checked>>

-----------------------------------------------------------------------------
(* The worker and time *)

Edit ==
    /\ source < MaxEdits /\ source' = source + 1
    /\ UNCHANGED <<attempts, dispatch, intent, checked>>

RunChecks(s) ==
    /\ <<s, source>> \notin checked /\ checked' = checked \cup {<<s, source>>}
    /\ UNCHANGED <<attempts, dispatch, source, intent>>

\* planCriticRevision, with the brief it belongs to.
Revise ==
    /\ intent < MaxRevisions /\ intent' = intent + 1
    /\ attempts' = [i \in Ids |->
           IF attempts[i].status = "pending"
           THEN [attempts[i] EXCEPT !.status = "unavailable", !.cause = "revised"]
           ELSE attempts[i]]
    /\ UNCHANGED <<dispatch, source, checked>>

\* The deadline of a pending attempt passes.
Expire(i) ==
    /\ attempts[i].status = "pending" /\ ~attempts[i].expired
    /\ \A j \in InScope(attempts[i].scope) :
         j < i /\ attempts[j].status = "pending" => attempts[j].expired
    /\ attempts' = [attempts EXCEPT ![i].expired = TRUE]
    /\ UNCHANGED <<dispatch, source, intent, checked>>

Next ==
    \/ \E s \in Scopes, phase \in Phases, kind \in Kinds, retryAfter \in {0} \cup Ids :
          Reserve(s, phase, kind, retryAfter)
    \/ \E i \in Ids :
          \/ Claim(i) \/ Die(i) \/ Finish(i) \/ Expire(i)
          \/ \E outcome \in Answers \cup {"failed", "cut"} : Return(i, outcome)
          \/ \E answer \in Answers \cup {"failed"} : Submit(i, answer)
    \/ \E s \in Scopes : RunChecks(s)
    \/ Edit \/ Revise

Spec == Init /\ [][Next]_vars

-----------------------------------------------------------------------------
Attempt == [scope: Scopes, phase: Phases, kind: {"visp", "attached", "host"}, subject: Nat,
            intent: Nat, status: {"pending", "reviewed", "unavailable"}, expired: BOOLEAN,
            claimed: BOOLEAN, returned: BOOLEAN, cutoff: BOOLEAN,
            verdict: {"none", "clean", "findings"}, cause: {"none", "finished", "revised", "ended"}]

(* Every variable keeps its type; only a reviewed attempt has a verdict, and  *)
(* only a finished one says that its reviewer returned or was cut off.        *)
TypeOK ==
    /\ attempts \in Seq(Attempt)
    /\ dispatch \in Seq({"none", "reserved", "calling", "failed", "cut", "over"} \cup Answers)
    /\ Len(dispatch) = Len(attempts)
    /\ source \in Nat /\ intent \in Nat /\ checked \subseteq Scopes \X Nat
    /\ \A i \in Ids :
         /\ attempts[i].verdict # "none" <=> attempts[i].status = "reviewed"
         /\ attempts[i].returned \/ attempts[i].cutoff => attempts[i].status # "pending"

(* docs/critic.md "Budgets": attempts that have, may have or may still get a  *)
(* response never exceed the calls, and the reserved time never exceeds the   *)
(* ceiling, whatever scopes and processes reserve from the one budget.        *)
WithinBudget ==
    /\ Cardinality({i \in Ids : \/ attempts[i].kind # "visp"
                                \/ attempts[i].status # "unavailable"
                                \/ attempts[i].returned}) <= MaxCalls
    /\ Reserved(attempts) <= MaxReserved

(* A selection has at most one review in progress, in whatever phase: the     *)
(* pending reviewer owns the implementation window (critic-policy.ts:155).    *)
(* A VISP launch leaves no expired attempt of its phase behind: the fresh     *)
(* attempt is the only pending one of its phase.                              *)
OneReviewInProgress ==
    \A i, j \in Ids :
        (/\ attempts[i].scope = attempts[j].scope
         /\ {attempts[i].status, attempts[j].status} = {"pending"} /\ i < j) =>
            /\ attempts[i].expired \/ attempts[j].expired
            /\ attempts[i].phase = attempts[j].phase => attempts[j].kind # "visp"

(* Once settled an attempt is never written again: a result that arrives      *)
(* after a revision, a relaunch or a submission changes nothing.              *)
SettledForGood ==
    [][\A i \in Ids : attempts[i].status # "pending" => attempts'[i] = attempts[i]]_vars

(* Review credit is given only for the source and the promises that are       *)
(* current when it is given.                                                  *)
CreditsCurrentWork ==
    [][\A i \in Ids :
          attempts[i].status = "pending" /\ attempts'[i].status = "reviewed" =>
              attempts[i].subject = source /\ attempts[i].intent = intent]_vars

(* critic-understanding.ts:10: an early consultation always leaves a product  *)
(* call, also after recoveries of a consultation that failed.                 *)
KeepsProductCall ==
    (\A i \in Ids : attempts[i].phase = "understanding") =>
        \E s \in Scopes : ~BudgetGap(attempts, s)

-----------------------------------------------------------------------------
(* critic-status.ts:304-309: a reviewer whose process died before returning   *)
(* "was slow, not broken", and "only a failure the reviewer itself returned   *)
(* counts toward blocking" another launch on the same source.                 *)
OnlyReturnedFailuresBlock ==
    \A s \in Scopes : RelaunchBlocked(s, "product") =>
        Cardinality({i \in OwnAttempts(s, "product") :
                        attempts[i].subject = source /\ attempts[i].cause = "finished"}) >= 2

(* critic-reservation.ts:161: a reviewer process that "ended without a result *)
(* before its deadline never returns one", so no answer given in time is      *)
(* settled as ended.                                                          *)
EndedNeverReturns == \A i \in Ids : attempts[i].cause = "ended" => dispatch[i] \notin Answers

(* docs/critic.md:125: every reserved call counts, and editing the brief      *)
(* never refunds calls.                                                       *)
RevisionRefundsNothing ==
    \A i \in Ids : attempts[i].cause = "revised" => ~NoResponse(attempts[i])
=============================================================================
