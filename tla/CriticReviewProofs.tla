-------------------------- MODULE CriticReviewProofs --------------------------
(***************************************************************************)
(* Reviews, for any slices, budget and number of edits and revisions: what *)
(* a settled attempt keeps, what a review is credited with, how many may   *)
(* be in progress, and that the budget is kept, the last product call      *)
(* included.                                                               *)
(***************************************************************************)
EXTENDS CriticReview, NaturalFacts, SequenceTheorems

\* Only a reviewed attempt has a verdict, only a finished one was returned or cut off.
Sound(a) ==
    /\ a.verdict # "none" <=> a.status = "reviewed"
    /\ a.returned \/ a.cutoff => a.status # "pending"

\* What becomes of a pending attempt.
Kept(a, b) ==
    /\ b \in Attempt /\ Sound(b)
    /\ b.scope = a.scope /\ b.phase = a.phase /\ b.kind = a.kind
    /\ b.subject = a.subject /\ b.intent = a.intent
    /\ a.expired => b.expired

\* The attempts of list are those there were, except that pending ones went on.
GoesOn(list) ==
    /\ list \in Seq(Attempt) /\ Len(list) = Len(attempts)
    /\ \A i \in Ids : \/ list[i] = attempts[i]
                      \/ attempts[i].status = "pending" /\ Kept(attempts[i], list[i])

Attempts == attempts \in Seq(Attempt) /\ \A i \in Ids : Sound(attempts[i])

Dispatching == {"none", "reserved", "calling", "failed", "cut", "over"} \cup Answers

Dispatches == dispatch \in Seq(Dispatching) /\ Len(dispatch) = Len(attempts)

Work == source \in Nat /\ intent \in Nat /\ checked \subseteq Scopes \X Nat

Types == Attempts /\ Dispatches /\ Work

-----------------------------------------------------------------------------
(* Attempts *)

\* What is assumed of the constants.
LEMMA Constants ==
    /\ Scopes # {} /\ MaxCalls \in Nat \ {0} /\ MaxReserved \in Nat
    /\ \A s \in Scopes : Timeout[s] \in Nat \ {0} /\ Timeout[s] <= MaxReserved
    /\ Kinds \subseteq {"visp", "attached", "host"}
    /\ Answers \subseteq {"clean", "findings", "invalid"}
  BY CriticConstants

\* A claim or a deadline leaves a pending attempt pending.
LEMMA Advances ==
    ASSUME NEW a \in Attempt, Sound(a), a.status = "pending"
    PROVE  Kept(a, [a EXCEPT !.claimed = TRUE]) /\ Kept(a, [a EXCEPT !.expired = TRUE])
  BY DEF Kept, Sound, Attempt

\* An attempt that a relaunch or a revision gives up.
LEMMA GivenUp ==
    ASSUME NEW a \in Attempt, Sound(a), a.status = "pending", NEW cause \in {"ended", "revised"}
    PROVE  Kept(a, [a EXCEPT !.status = "unavailable", !.cause = cause])
  BY DEF Kept, Sound, Attempt

\* A settled attempt is an attempt.
LEMMA Outcome ==
    ASSUME NEW a \in Attempt, Sound(a), NEW status \in {"reviewed", "unavailable"},
           NEW verdict \in {"none", "clean", "findings"}, verdict # "none" <=> status = "reviewed",
           NEW returned \in BOOLEAN, NEW cutoff \in BOOLEAN, NEW cause \in {"none", "finished"}
    PROVE  Kept(a, [a EXCEPT !.status = status, !.verdict = verdict, !.returned = returned,
                             !.cutoff = cutoff, !.cause = cause])
  BY DEF Kept, Sound, Attempt

\* A finished attempt is settled, and reviewed only for what is current.
LEMMA Settled ==
    ASSUME NEW a \in Attempt, Sound(a), a.status = "pending", NEW answer, NEW inTime \in BOOLEAN
    PROVE  /\ Kept(a, Finished(a, answer, inTime))
           /\ Finished(a, answer, inTime).status # "pending"
           /\ Finished(a, answer, inTime).status = "reviewed" =>
                 a.subject = source /\ a.intent = intent
<1> DEFINE accepted == Accepted(a, answer, inTime)
           status == IF accepted THEN "reviewed" ELSE "unavailable"
           verdict == IF accepted THEN answer ELSE "none"
           cause == IF accepted THEN "none" ELSE "finished"
           returned == answer \in Answers
           cutoff == answer = "cut"
           b == [a EXCEPT !.status = status, !.verdict = verdict, !.returned = returned,
                          !.cutoff = cutoff, !.cause = cause]
<1>1. accepted => answer \in {"clean", "findings"} /\ a.subject = source /\ a.intent = intent
  BY DEF Accepted
<1>2. /\ status \in {"reviewed", "unavailable"} /\ verdict \in {"none", "clean", "findings"}
      /\ cause \in {"none", "finished"} /\ (verdict # "none" <=> status = "reviewed")
      /\ status = "reviewed" => accepted
  BY <1>1
<1>3. returned \in BOOLEAN /\ cutoff \in BOOLEAN
  OBVIOUS
<1>4. b = Finished(a, answer, inTime)
  BY DEF Finished
<1>5. b.status = status
  BY DEF Attempt
<1> HIDE DEF status, verdict, cause, returned, cutoff, accepted
<1>6. Kept(a, b)
  BY <1>2, <1>3, Outcome
<1> QED BY <1>1, <1>2, <1>4, <1>5, <1>6

\* One pending attempt goes on, or none does.
LEMMA OneGoesOn ==
    ASSUME Attempts, NEW i \in Ids, attempts[i].status = "pending",
           NEW b, Kept(attempts[i], b)
    PROVE  GoesOn([attempts EXCEPT ![i] = b]) /\ attempts[i] \in Attempt
<1>1. b \in Attempt /\ attempts \in Seq(Attempt)
  BY DEF Kept, Attempts
<1>2. [attempts EXCEPT ![i] = b] \in Seq(Attempt) /\ Len([attempts EXCEPT ![i] = b]) = Len(attempts)
  BY <1>1, ExceptSeq DEF Ids
<1>3. attempts[i] \in Attempt
  BY <1>1 DEF Ids
<1> QED BY <1>1, <1>2, <1>3 DEF GoesOn, Ids

\* Nothing changes.
LEMMA NoneGoesOn == ASSUME Attempts PROVE GoesOn(attempts)
  BY DEF Attempts, GoesOn

\* Giving up some pending attempts at once.
LEMMA SomeGivenUp ==
    ASSUME Attempts, NEW cause \in {"ended", "revised"}, NEW S \in SUBSET Ids,
           \A i \in S : attempts[i].status = "pending"
    PROVE  GoesOn([i \in Ids |->
                      IF i \in S THEN [attempts[i] EXCEPT !.status = "unavailable", !.cause = cause]
                      ELSE attempts[i]])
<1> DEFINE list == [i \in Ids |->
                      IF i \in S THEN [attempts[i] EXCEPT !.status = "unavailable", !.cause = cause]
                      ELSE attempts[i]]
<1>1. attempts \in Seq(Attempt) /\ Ids = 1..Len(attempts) /\ Len(attempts) \in Nat
  BY DEF Attempts, Ids
<1>2. \A i \in Ids : attempts[i] \in Attempt /\ Sound(attempts[i])
  BY <1>1 DEF Attempts
<1>3. \A i \in S : Kept(attempts[i], [attempts[i] EXCEPT !.status = "unavailable", !.cause = cause])
  BY <1>2, GivenUp
<1>4. \A i \in Ids : list[i] \in Attempt
  BY <1>2, <1>3 DEF Kept
<1>5. list \in [1..Len(attempts) -> Attempt]
  BY <1>1, <1>4
<1>6. list \in Seq(Attempt) /\ Len(list) = Len(attempts)
  <2> HIDE DEF list
  <2> QED BY <1>1, <1>5
<1> QED BY <1>2, <1>3, <1>6 DEF GoesOn

\* A fresh attempt.
LEMMA FreshAttempt ==
    ASSUME Work, NEW s \in Scopes, NEW phase \in Phases, NEW kind \in Kinds
    PROVE  Fresh(s, phase, kind) \in Attempt /\ Sound(Fresh(s, phase, kind))
  BY Constants DEF Fresh, Attempt, Sound, Work, Phases

\* A relaunch gives up what expired.
LEMMA EndedGoesOn ==
    ASSUME Attempts, NEW s, NEW phase, NEW kind
    PROVE  GoesOn(EndedWithoutResult(s, phase, kind))
<1> DEFINE S == {i \in Ids : /\ kind = "visp" /\ attempts[i].scope = s /\ attempts[i].phase = phase
                             /\ ExpiredPending(attempts[i])}
<1>1. \A i \in S : attempts[i].status = "pending"
  BY DEF ExpiredPending
<1>2. EndedWithoutResult(s, phase, kind) =
        [i \in Ids |->
            IF i \in S THEN [attempts[i] EXCEPT !.status = "unavailable", !.cause = "ended"]
            ELSE attempts[i]]
  BY DEF EndedWithoutResult
<1> HIDE DEF S
<1>3. S \in SUBSET Ids
  BY DEF S
<1> QED BY <1>1, <1>2, <1>3, SomeGivenUp

\* In every step that reserves nothing, attempts only go on.
LEMMA OthersGoOn ==
    ASSUME Types, [Next]_vars
    PROVE  \/ GoesOn(attempts')
           \/ \E s \in Scopes, phase \in Phases, kind \in Kinds, retryAfter \in {0} \cup Ids :
                 Reserve(s, phase, kind, retryAfter)
<1>a. Attempts /\ \A i \in Ids : attempts[i] \in Attempt /\ Sound(attempts[i])
  BY DEF Types, Attempts, Ids
<1>1. ASSUME NEW i \in Ids, Claim(i) PROVE GoesOn(attempts')
  <2>1. CASE attempts[i].status = "pending" /\ ~attempts[i].claimed
    <3>1. attempts' = [attempts EXCEPT ![i] = [attempts[i] EXCEPT !.claimed = TRUE]]
      BY <1>1, <2>1 DEF Claim
    <3> QED BY <1>a, <2>1, <3>1, Advances, OneGoesOn
  <2>2. CASE ~(attempts[i].status = "pending" /\ ~attempts[i].claimed)
    BY <1>1, <1>a, <2>2, NoneGoesOn DEF Claim
  <2> QED BY <2>1, <2>2
<1>2. ASSUME NEW i \in Ids, Finish(i) PROVE GoesOn(attempts')
  <2>1. CASE attempts[i].status = "pending"
    <3>1. attempts' = [attempts EXCEPT ![i] = Finished(attempts[i], dispatch[i], TRUE)]
      BY <1>2, <2>1 DEF Finish
    <3> QED BY <1>a, <2>1, <3>1, Settled, OneGoesOn
  <2>2. CASE attempts[i].status # "pending"
    BY <1>2, <1>a, <2>2, NoneGoesOn DEF Finish
  <2> QED BY <2>1, <2>2
<1>3. ASSUME NEW i \in Ids, Expire(i) PROVE GoesOn(attempts')
  <2>1. /\ attempts' = [attempts EXCEPT ![i] = [attempts[i] EXCEPT !.expired = TRUE]]
        /\ attempts[i].status = "pending"
    BY <1>3 DEF Expire
  <2> QED BY <1>a, <2>1, Advances, OneGoesOn
<1>4. ASSUME NEW i \in Ids, NEW answer, Submit(i, answer) PROVE GoesOn(attempts')
  <2>1. /\ attempts' = [attempts EXCEPT ![i] = Finished(attempts[i], answer, ~attempts[i].expired)]
        /\ attempts[i].status = "pending"
    BY <1>4 DEF Submit
  <2>2. (~attempts[i].expired) \in BOOLEAN
    OBVIOUS
  <2> QED BY <1>a, <2>1, <2>2, Settled, OneGoesOn
<1>5. CASE Revise
  <2> DEFINE S == {i \in Ids : attempts[i].status = "pending"}
  <2>1. attempts' = [i \in Ids |->
           IF i \in S THEN [attempts[i] EXCEPT !.status = "unavailable", !.cause = "revised"]
           ELSE attempts[i]]
    BY <1>5 DEF Revise
  <2>2. \A i \in S : attempts[i].status = "pending"
    OBVIOUS
  <2>3. S \in SUBSET Ids
    OBVIOUS
  <2> HIDE DEF S
  <2> QED BY <1>a, <2>1, <2>2, <2>3, SomeGivenUp
<1>6. CASE UNCHANGED attempts
  BY <1>a, <1>6, NoneGoesOn
<1>7. ASSUME NEW i \in Ids, NEW outcome, Die(i) \/ Return(i, outcome) PROVE UNCHANGED attempts
  BY <1>7 DEF Die, Return
<1>8. CASE Edit \/ (\E s \in Scopes : RunChecks(s)) \/ UNCHANGED vars
  BY <1>6, <1>8 DEF Edit, RunChecks, vars
<1> QED BY <1>1, <1>2, <1>3, <1>4, <1>5, <1>6, <1>7, <1>8 DEF Next

\* A reservation adds a fresh attempt to those there were.
LEMMA ReserveAppends ==
    ASSUME Types, NEW s \in Scopes, NEW phase \in Phases, NEW kind \in Kinds, NEW retryAfter,
           Reserve(s, phase, kind, retryAfter),
           NEW list, list = EndedWithoutResult(s, phase, kind)
    PROVE  /\ GoesOn(list) /\ attempts' = Append(list, Fresh(s, phase, kind))
           /\ Len(attempts) \in Nat /\ Len(attempts') = Len(attempts) + 1
           /\ attempts' \in Seq(Attempt)
           /\ Ids = 1..Len(attempts) /\ Ids' = 1..(Len(attempts) + 1)
           /\ \A i \in Ids : attempts'[i] = list[i]
           /\ attempts'[Len(attempts) + 1] = Fresh(s, phase, kind)
           /\ Fresh(s, phase, kind) \in Attempt /\ Sound(Fresh(s, phase, kind))
<1>1. GoesOn(list)
  BY EndedGoesOn DEF Types
<1>2. Fresh(s, phase, kind) \in Attempt /\ Sound(Fresh(s, phase, kind))
  BY FreshAttempt DEF Types
<1>3. attempts' = Append(list, Fresh(s, phase, kind))
  BY DEF Reserve
<1>4. list \in Seq(Attempt) /\ Len(list) = Len(attempts) /\ attempts \in Seq(Attempt)
  BY <1>1 DEF GoesOn, Types, Attempts
<1> HIDE DEF Ids
<1>5. Ids = 1..Len(attempts) /\ Len(attempts) \in Nat
  BY <1>4 DEF Ids
<1>6. /\ attempts' \in Seq(Attempt) /\ Len(attempts') = Len(list) + 1
      /\ \A i \in 1..Len(list) : attempts'[i] = list[i]
      /\ attempts'[Len(list) + 1] = Fresh(s, phase, kind)
  BY <1>2, <1>3, <1>4, AppendProperties
<1>7. Ids' = 1..(Len(attempts) + 1)
  BY <1>4, <1>6 DEF Ids
<1> QED BY <1>1, <1>2, <1>3, <1>4, <1>5, <1>6, <1>7

-----------------------------------------------------------------------------
(* Types *)

\* Attempts stay attempts.
LEMMA AttemptsStep == ASSUME Types, [Next]_vars PROVE Attempts'
<1>1. CASE GoesOn(attempts')
  BY <1>1 DEF GoesOn, Kept, Types, Attempts, Ids
<1>2. ASSUME NEW s \in Scopes, NEW phase \in Phases, NEW kind \in Kinds, NEW retryAfter,
             Reserve(s, phase, kind, retryAfter)
      PROVE  Attempts'
  <2> DEFINE list == EndedWithoutResult(s, phase, kind)
  <2>1. /\ GoesOn(list) /\ attempts' \in Seq(Attempt) /\ Ids' = 1..(Len(attempts) + 1)
        /\ Ids = 1..Len(attempts) /\ Len(attempts) \in Nat
        /\ \A i \in Ids : attempts'[i] = list[i]
        /\ Sound(attempts'[Len(attempts) + 1])
    BY <1>2, ReserveAppends
  <2>2. \A i \in Ids : Sound(list[i])
    BY <2>1 DEF GoesOn, Kept, Types, Attempts
  <2> QED BY <2>1, <2>2 DEF Attempts
<1> QED BY <1>1, <1>2, OthersGoOn

\* Every attempt has a dispatch.
LEMMA DispatchesStep == ASSUME Types, [Next]_vars PROVE Dispatches'
<1>a. dispatch \in Seq(Dispatching) /\ Len(dispatch) = Len(attempts) /\ Ids = 1..Len(dispatch)
  BY DEF Types, Dispatches, Attempts, Ids
<1>1. ASSUME NEW s \in Scopes, NEW phase \in Phases, NEW kind \in Kinds, NEW retryAfter,
             Reserve(s, phase, kind, retryAfter)
      PROVE  Dispatches'
  <2> DEFINE first == IF kind = "host" THEN "none" ELSE "reserved"
  <2>1. dispatch' = Append(dispatch, first) /\ first \in Dispatching
    BY <1>1 DEF Reserve, Dispatching
  <2>2. Len(attempts') = Len(attempts) + 1
    BY <1>1, ReserveAppends
  <2> QED BY <1>a, <2>1, <2>2, AppendProperties DEF Dispatches
<1>2. ASSUME NEW i \in Ids, NEW state \in Dispatching, dispatch' = [dispatch EXCEPT ![i] = state],
             GoesOn(attempts')
      PROVE  Dispatches'
  BY <1>a, <1>2, ExceptSeq DEF Dispatches, GoesOn
<1>3. CASE UNCHANGED dispatch /\ GoesOn(attempts')
  BY <1>a, <1>3 DEF Dispatches, GoesOn
<1>4. ASSUME NEW i \in Ids, Claim(i) \/ Die(i) \/ Finish(i)
      PROVE  \E state \in Dispatching : dispatch' = [dispatch EXCEPT ![i] = state]
  BY <1>4 DEF Claim, Die, Finish, Dispatching
<1>5. ASSUME NEW i \in Ids, NEW outcome \in Answers \cup {"failed", "cut"}, Return(i, outcome)
      PROVE  \E state \in Dispatching : dispatch' = [dispatch EXCEPT ![i] = state]
  BY <1>5 DEF Return, Dispatching
<1>6. ASSUME NEW i \in Ids, NEW answer, Expire(i) \/ Submit(i, answer) PROVE UNCHANGED dispatch
  BY <1>6 DEF Expire, Submit
<1>7. Edit \/ Revise \/ (\E s \in Scopes : RunChecks(s)) \/ UNCHANGED vars => UNCHANGED dispatch
  BY DEF Edit, Revise, RunChecks, vars
<1>8. CASE GoesOn(attempts')
  BY <1>1, <1>2, <1>3, <1>4, <1>5, <1>6, <1>7, <1>8 DEF Next
<1> QED BY <1>1, <1>8, OthersGoOn

\* Versions are counted.
LEMMA WorkStep == ASSUME Types, [Next]_vars PROVE Work'
<1>a. Work
  BY DEF Types
<1>1. ASSUME NEW s \in Scopes, RunChecks(s) PROVE Work'
  BY <1>a, <1>1 DEF Work, RunChecks
<1>2. ASSUME Edit \/ Revise PROVE Work'
  <2>1. /\ source' = source \/ source' = source + 1
        /\ intent' = intent \/ intent' = intent + 1
        /\ UNCHANGED checked
    BY <1>2 DEF Edit, Revise
  <2> QED BY <1>a, <2>1 DEF Work
<1>3. CASE UNCHANGED <<source, intent, checked>>
  BY <1>a, <1>3 DEF Work
<1>4. ASSUME NEW i \in Ids, NEW answer, NEW outcome,
             Claim(i) \/ Die(i) \/ Finish(i) \/ Expire(i) \/ Return(i, outcome) \/ Submit(i, answer)
      PROVE  UNCHANGED <<source, intent, checked>>
  BY <1>4 DEF Claim, Die, Finish, Expire, Return, Submit
<1>5. ASSUME NEW s, NEW phase, NEW kind, NEW retryAfter, Reserve(s, phase, kind, retryAfter)
      PROVE  UNCHANGED <<source, intent, checked>>
  BY <1>5 DEF Reserve
<1>6. CASE UNCHANGED vars
  BY <1>3, <1>6 DEF vars
<1> QED BY <1>1, <1>2, <1>3, <1>4, <1>5, <1>6 DEF Next

\* What has a type keeps it.
LEMMA TypesInvariant == Spec => []Types
<1>1. Init => Types
  BY DEF Init, Types, Attempts, Dispatches, Work, Ids
<1>2. Types /\ [Next]_vars => Types'
  <2> SUFFICES ASSUME Types, [Next]_vars PROVE Types'
    OBVIOUS
  <2> QED BY AttemptsStep, DispatchesStep, WorkStep DEF Types
<1> QED BY <1>1, <1>2, PTL DEF Spec

\* Every variable keeps its type, and only a reviewed attempt has a verdict.
THEOREM TypeCorrect == Spec => []TypeOK
<1>1. Types => TypeOK
  BY DEF Types, TypeOK, Attempts, Dispatches, Dispatching, Work, Sound
<1> QED BY <1>1, TypesInvariant, PTL

-----------------------------------------------------------------------------
(* Settled attempts and credit *)

\* A result that arrives after a revision, a relaunch or a submission changes nothing.
THEOREM SettledStays == Spec => SettledForGood
<1>1. Types /\ [Next]_vars =>
        (\A i \in Ids : attempts[i].status # "pending" => attempts'[i] = attempts[i])
  <2> SUFFICES ASSUME Types, [Next]_vars, NEW i \in Ids, attempts[i].status # "pending"
               PROVE  attempts'[i] = attempts[i]
    OBVIOUS
  <2>1. CASE GoesOn(attempts')
    BY <2>1 DEF GoesOn
  <2>2. ASSUME NEW s \in Scopes, NEW phase \in Phases, NEW kind \in Kinds, NEW retryAfter,
               Reserve(s, phase, kind, retryAfter)
        PROVE  attempts'[i] = attempts[i]
    BY <2>2, ReserveAppends DEF GoesOn
  <2> QED BY <2>1, <2>2, OthersGoOn
<1> QED BY <1>1, TypesInvariant, PTL DEF Spec, SettledForGood

\* Only an answer makes a pending attempt a reviewed one, and only if the source and the brief
\* still are those it was reserved for.
THEOREM CreditIsCurrent == Spec => CreditsCurrentWork
<1> DEFINE Credited(i) ==
      attempts[i].status = "pending" /\ attempts'[i].status = "reviewed" =>
          attempts[i].subject = source /\ attempts[i].intent = intent
<1>1. ASSUME Types, [Next]_vars, NEW i \in Ids PROVE Credited(i)
  <2>a. attempts \in Seq(Attempt) /\ \A k \in Ids : attempts[k] \in Attempt /\ Sound(attempts[k])
    BY <1>1 DEF Types, Attempts, Ids
  <2>1. ASSUME NEW k \in Ids, attempts[k].status = "pending", NEW answer, NEW inTime \in BOOLEAN,
               attempts' = [attempts EXCEPT ![k] = Finished(attempts[k], answer, inTime)]
        PROVE  Credited(i)
    BY <2>a, <2>1, Settled DEF Ids
  <2>2. ASSUME NEW k \in Ids, Finish(k) PROVE Credited(i)
    <3>1. CASE attempts[k].status = "pending"
      <4>1. attempts' = [attempts EXCEPT ![k] = Finished(attempts[k], dispatch[k], TRUE)]
        BY <2>2, <3>1 DEF Finish
      <4> QED BY <2>1, <3>1, <4>1
    <3>2. CASE attempts[k].status # "pending"
      BY <2>2, <3>2 DEF Finish
    <3> QED BY <3>1, <3>2
  <2>3. ASSUME NEW k \in Ids, NEW answer, Submit(k, answer) PROVE Credited(i)
    <3>1. /\ attempts' = [attempts EXCEPT ![k] = Finished(attempts[k], answer, ~attempts[k].expired)]
          /\ attempts[k].status = "pending"
      BY <2>3 DEF Submit
    <3>2. (~attempts[k].expired) \in BOOLEAN
      OBVIOUS
    <3> QED BY <2>1, <3>1, <3>2
  <2>4. ASSUME NEW k \in Ids, Claim(k) \/ Expire(k) PROVE Credited(i)
    <3>1. \/ UNCHANGED attempts
          \/ attempts' = [attempts EXCEPT ![k] = [attempts[k] EXCEPT !.claimed = TRUE]]
          \/ attempts' = [attempts EXCEPT ![k] = [attempts[k] EXCEPT !.expired = TRUE]]
      BY <2>4 DEF Claim, Expire
    <3> QED BY <2>a, <3>1 DEF Attempt, Ids
  <2>5. CASE Revise
    BY <2>a, <2>5 DEF Revise, Attempt
  <2>6. ASSUME NEW s \in Scopes, NEW phase \in Phases, NEW kind \in Kinds, NEW retryAfter,
               Reserve(s, phase, kind, retryAfter)
        PROVE  Credited(i)
    <3>1. attempts'[i] = EndedWithoutResult(s, phase, kind)[i]
      BY <1>1, <2>6, ReserveAppends
    <3> QED BY <2>a, <3>1 DEF EndedWithoutResult, Attempt
  <2>7. CASE UNCHANGED attempts
    BY <2>7
  <2>8. ASSUME NEW k \in Ids, NEW outcome, Die(k) \/ Return(k, outcome) PROVE UNCHANGED attempts
    BY <2>8 DEF Die, Return
  <2>9. CASE Edit \/ (\E s \in Scopes : RunChecks(s)) \/ UNCHANGED vars
    BY <2>7, <2>9 DEF Edit, RunChecks, vars
  <2> QED BY <1>1, <2>2, <2>3, <2>4, <2>5, <2>6, <2>7, <2>8, <2>9 DEF Next
<1>2. Types /\ [Next]_vars => (\A i \in Ids : Credited(i))
  BY <1>1
<1> QED BY <1>2, TypesInvariant, PTL DEF Spec, CreditsCurrentWork

-----------------------------------------------------------------------------
(* Sums *)

\* f holds the partial sums of the first k numbers.
PartialSums(f, times, k) == f = [n \in 0..k |-> IF n = 0 THEN 0 ELSE f[n - 1] + times[n]]

\* There are partial sums of every list.
LEMMA SumsExist ==
    ASSUME NEW times \in Seq(Nat)
    PROVE  \E f : PartialSums(f, times, Len(times))
<1> DEFINE S == {k \in Nat : k <= Len(times) => \E f : PartialSums(f, times, k)}
<1>1. 0 \in S
  <2>1. PartialSums([n \in 0..0 |-> 0], times, 0)
    BY DEF PartialSums
  <2> QED BY <2>1
<1>2. ASSUME NEW k \in S \cap Nat PROVE k + 1 \in S
  <2> SUFFICES ASSUME k + 1 <= Len(times) PROVE \E f : PartialSums(f, times, k + 1)
    OBVIOUS
  <2>1. PICK f : PartialSums(f, times, k)
    BY <1>2
  <2> DEFINE g == [n \in 0..(k + 1) |-> IF n = k + 1 THEN f[k] + times[n] ELSE f[n]]
  <2>2. \A n \in 0..k : g[n] = f[n] /\ f[n] = IF n = 0 THEN 0 ELSE f[n - 1] + times[n]
    BY <2>1 DEF PartialSums
  <2>3. ASSUME NEW n \in 0..(k + 1) PROVE g[n] = IF n = 0 THEN 0 ELSE g[n - 1] + times[n]
    <3>1. CASE n = k + 1
      <4>1. g[n] = f[k] + times[n]
        BY <3>1
      <4>2. n - 1 = k /\ n # 0 /\ k \in 0..k
        BY <3>1
      <4>3. g[k] = f[k]
        BY <2>2, <4>2
      <4> HIDE DEF g
      <4>4. g[n] = g[k] + times[n]
        BY <4>1, <4>3, Zenon
      <4>5. g[n] = g[n - 1] + times[n]
        BY <4>2, <4>4, Zenon
      <4> QED BY <4>2, <4>5, Zenon
    <3>2. CASE n = 0
      <4>1. 0 \in 0..k
        OBVIOUS
      <4> HIDE DEF g
      <4>2. g[0] = f[0] /\ f[0] = 0
        BY <2>2, <4>1
      <4> QED BY <3>2, <4>2
    <3>3. CASE n # k + 1 /\ n # 0
      <4>1. n \in 0..k /\ n - 1 \in 0..k
        BY <3>3
      <4> HIDE DEF g
      <4>2. g[n] = f[n] /\ g[n - 1] = f[n - 1] /\ f[n] = f[n - 1] + times[n]
        BY <2>2, <3>3, <4>1
      <4>3. g[n] = g[n - 1] + times[n]
        BY <4>2, Zenon
      <4> QED BY <3>3, <4>3, Zenon
    <3> QED BY <3>1, <3>2, <3>3
  <2>4. PartialSums(g, times, k + 1)
    BY <2>3 DEF PartialSums
  <2> QED BY <2>4
<1> HIDE DEF S
<1>3. Nat \subseteq S
  BY <1>1, <1>2, SetInduction
<1>4. Len(times) \in S
  BY <1>3
<1> QED BY <1>4 DEF S

\* Partial sums of lists that begin alike are alike.
LEMMA SumsAgree ==
    ASSUME NEW k \in Nat, NEW j \in Nat, j <= k, NEW f, NEW g, NEW first, NEW second,
           PartialSums(f, first, j), PartialSums(g, second, k), \A n \in 1..j : first[n] = second[n]
    PROVE  f[j] = g[j]
<1> DEFINE S == {n \in Nat : n <= j => f[n] = g[n]}
<1>1. 0 \in S
  BY DEF PartialSums
<1>2. ASSUME NEW n \in S \cap Nat PROVE n + 1 \in S
  <2>1. n + 1 <= j => f[n + 1] = f[n] + first[n + 1] /\ g[n + 1] = g[n] + second[n + 1]
    BY <1>2 DEF PartialSums
  <2> QED BY <1>2, <2>1
<1> HIDE DEF S
<1>3. Nat \subseteq S
  BY <1>1, <1>2, SetInduction
<1> QED BY <1>3 DEF S

\* Total is the last partial sum.
LEMMA TotalIsSum ==
    ASSUME NEW times \in Seq(Nat)
    PROVE  \E f : PartialSums(f, times, Len(times)) /\ Total(times) = f[Len(times)]
  BY SumsExist DEF Total, PartialSums

\* One more number.
LEMMA TotalAppend ==
    ASSUME NEW times \in Seq(Nat), NEW time \in Nat
    PROVE  Total(Append(times, time)) = Total(times) + time
<1> DEFINE longer == Append(times, time)
           k == Len(times)
<1>1. /\ longer \in Seq(Nat) /\ Len(longer) = k + 1 /\ k \in Nat
      /\ longer[k + 1] = time /\ \A n \in 1..k : times[n] = longer[n]
  OBVIOUS
<1>2. PICK f : PartialSums(f, times, k) /\ Total(times) = f[k]
  BY TotalIsSum
<1> HIDE DEF longer, k
<1>3. PICK g : PartialSums(g, longer, k + 1) /\ Total(longer) = g[k + 1]
  BY <1>1, TotalIsSum
<1>4. g[k + 1] = g[k] + longer[k + 1]
  BY <1>1, <1>3 DEF PartialSums
<1>5. f[k] = g[k]
  BY <1>1, <1>2, <1>3, SumsAgree
<1> QED BY <1>1, <1>2, <1>3, <1>4, <1>5 DEF longer

\* A total is a number; of nothing it is 0.
LEMMA TotalType == \A times \in Seq(Nat) : Total(times) \in Nat /\ Total(<<>>) = 0
<1>1. ASSUME NEW times \in Seq(Nat) PROVE Total(times) \in Nat
  <2>1. PICK f : PartialSums(f, times, Len(times)) /\ Total(times) = f[Len(times)]
    BY TotalIsSum
  <2> DEFINE S == {n \in Nat : n <= Len(times) => f[n] \in Nat}
  <2>2. 0 \in S
    BY <2>1 DEF PartialSums
  <2>3. ASSUME NEW n \in S \cap Nat PROVE n + 1 \in S
    <3>1. n + 1 <= Len(times) => f[n + 1] = f[n] + times[n + 1] /\ times[n + 1] \in Nat
      BY <2>1 DEF PartialSums
    <3> QED BY <2>3, <3>1
  <2> HIDE DEF S
  <2>4. Nat \subseteq S
    BY <2>2, <2>3, SetInduction
  <2> QED BY <2>1, <2>4 DEF S
<1>2. Total(<<>>) = 0
  <2>1. <<>> \in Seq(Nat) /\ Len(<<>>) = 0
    OBVIOUS
  <2>2. PICK f : PartialSums(f, <<>>, 0) /\ Total(<<>>) = f[0]
    BY <2>1, TotalIsSum
  <2> QED BY <2>2 DEF PartialSums
<1> QED BY <1>1, <1>2

-----------------------------------------------------------------------------
(* The budget *)

Used(list) == {i \in DOMAIN list : ~NoResponse(list[i])}

Times(list) == [i \in DOMAIN list |-> Timeout[list[i].scope]]

\* What a list of attempts costs.
LEMMA Costs ==
    ASSUME NEW list \in Seq(Attempt)
    PROVE  /\ Times(list) \in Seq(Nat) /\ Len(Times(list)) = Len(list)
           /\ Reserved(list) = Total(Times(list)) /\ Reserved(list) \in Nat
           /\ IsFiniteSet(Used(list)) /\ CallsUsed(list) = Cardinality(Used(list))
           /\ CallsUsed(list) \in Nat
<1>1. /\ DOMAIN list = 1..Len(list) /\ Len(list) \in Nat
      /\ \A i \in DOMAIN list : list[i] \in Attempt
  OBVIOUS
<1>2. \A i \in DOMAIN list : Timeout[list[i].scope] \in Nat
  BY <1>1, Constants DEF Attempt
<1>3. Times(list) \in [1..Len(list) -> Nat]
  BY <1>1, <1>2 DEF Times
<1>4. Times(list) \in Seq(Nat) /\ Len(Times(list)) = Len(list)
  BY <1>1, <1>3
<1>5. IsFiniteSet(Used(list))
  <2>1. IsFiniteSet(1..Len(list))
    BY <1>1, FS_Interval
  <2>2. Used(list) \in SUBSET (1..Len(list))
    BY <1>1 DEF Used
  <2> QED BY <2>1, <2>2, FS_Subset
<1>6. CallsUsed(list) = Cardinality(Used(list)) /\ CallsUsed(list) \in Nat
  BY <1>5, FS_CardinalityType DEF CallsUsed, Used
<1> QED BY <1>4, <1>5, <1>6, TotalType DEF Reserved, Times

\* Attempts that go on cost no more: the time stays reserved, and a pending attempt counts as a
\* call already.
LEMMA GoingOnIsFree ==
    ASSUME Attempts, NEW list, GoesOn(list)
    PROVE  Reserved(list) = Reserved(attempts) /\ CallsUsed(list) <= CallsUsed(attempts)
<1>1. /\ list \in Seq(Attempt) /\ attempts \in Seq(Attempt) /\ Len(list) = Len(attempts)
      /\ DOMAIN list = Ids /\ DOMAIN attempts = Ids
  BY DEF GoesOn, Attempts, Ids
<1>2. Times(list) = Times(attempts)
  BY <1>1 DEF GoesOn, Kept, Times
<1>3. Used(list) \subseteq Used(attempts)
  BY <1>1 DEF GoesOn, Used, NoResponse
<1>4. CallsUsed(list) <= CallsUsed(attempts)
  BY <1>1, <1>3, Costs, FS_Subset
<1> QED BY <1>1, <1>2, <1>4, Costs

\* One attempt more is at most one call more, and its time.
LEMMA OneMoreCosts ==
    ASSUME NEW list \in Seq(Attempt), NEW a \in Attempt
    PROVE  /\ Reserved(Append(list, a)) = Reserved(list) + Timeout[a.scope]
           /\ CallsUsed(Append(list, a)) <= CallsUsed(list) + 1
<1> DEFINE longer == Append(list, a)
           n == Len(list) + 1
<1>1. /\ longer \in Seq(Attempt) /\ Len(longer) = n /\ longer[n] = a
      /\ DOMAIN longer = DOMAIN list \cup {n} /\ \A i \in DOMAIN list : longer[i] = list[i]
      /\ Timeout[a.scope] \in Nat
  BY Constants DEF Attempt
<1>2. Times(longer) = Append(Times(list), Timeout[a.scope])
  <2>1. /\ Times(list) \in Seq(Nat) /\ Len(Times(list)) = Len(list)
        /\ DOMAIN Times(list) = DOMAIN list /\ DOMAIN Times(longer) = DOMAIN longer
    BY Costs DEF Times
  <2>2. /\ DOMAIN Append(Times(list), Timeout[a.scope]) = DOMAIN longer
        /\ \A i \in DOMAIN list : Append(Times(list), Timeout[a.scope])[i] = Times(list)[i]
        /\ Append(Times(list), Timeout[a.scope])[n] = Timeout[a.scope]
    BY <1>1, <2>1
  <2>3. \A i \in DOMAIN longer : Times(longer)[i] = Append(Times(list), Timeout[a.scope])[i]
    BY <1>1, <2>2 DEF Times
  <2> QED BY <2>1, <2>2, <2>3 DEF Times
<1>3. Used(longer) \subseteq Used(list) \cup {n}
  BY <1>1 DEF Used
<1> HIDE DEF longer, n
<1>4. CallsUsed(longer) <= CallsUsed(list) + 1
  <2>1. IsFiniteSet(Used(list)) /\ CallsUsed(list) = Cardinality(Used(list)) /\ CallsUsed(list) \in Nat
    BY Costs
  <2>2. IsFiniteSet(Used(longer)) /\ CallsUsed(longer) = Cardinality(Used(longer)) /\ CallsUsed(longer) \in Nat
    BY <1>1, Costs
  <2>3. IsFiniteSet(Used(list) \cup {n}) /\ Cardinality(Used(list) \cup {n}) <= CallsUsed(list) + 1
    <3>1. /\ IsFiniteSet(Used(list) \cup {n})
          /\ Cardinality(Used(list) \cup {n}) =
                IF n \in Used(list) THEN Cardinality(Used(list)) ELSE Cardinality(Used(list)) + 1
      BY <2>1, FS_AddElement, Zenon
    <3> QED BY <2>1, <3>1
  <2>4. Cardinality(Used(longer)) <= Cardinality(Used(list) \cup {n})
    BY <1>3, <2>3, FS_Subset
  <2>5. Cardinality(Used(list) \cup {n}) \in Nat
    BY <2>3, FS_CardinalityType
  <2> QED BY <2>1, <2>2, <2>3, <2>4, <2>5
<1>5. Reserved(longer) = Reserved(list) + Timeout[a.scope]
  BY <1>1, <1>2, Costs, TotalAppend
<1> QED BY <1>4, <1>5 DEF longer

\* Whatever slices and processes reserve, and however their attempts end, neither the calls nor
\* the reserved time exceed what the feature was given (planCriticBudgetMutation).
THEOREM BudgetKept == Spec => []WithinBudget
<1> DEFINE Within == Types /\ CallsUsed(attempts) <= MaxCalls /\ Reserved(attempts) <= MaxReserved
<1>1. Init => Within
  <2> SUFFICES ASSUME Init PROVE Within
    OBVIOUS
  <2>1. Types
    BY DEF Init, Types, Attempts, Dispatches, Work, Ids
  <2>2. attempts = <<>> /\ <<>> \in Seq(Attempt) /\ Used(<<>>) = {} /\ Times(<<>>) = <<>>
    BY DEF Init, Used, Times
  <2>3. CallsUsed(attempts) = 0 /\ Reserved(attempts) = 0
    BY <2>2, Costs, FS_EmptySet, TotalType
  <2> QED BY <2>1, <2>3, Constants
<1>2. Within /\ [Next]_vars => Within'
  <2> SUFFICES ASSUME Within, [Next]_vars PROVE Within'
    OBVIOUS
  <2>1. Types'
    BY AttemptsStep, DispatchesStep, WorkStep DEF Types
  <2>2. CASE GoesOn(attempts')
    <3>1. Reserved(attempts') = Reserved(attempts) /\ CallsUsed(attempts') <= CallsUsed(attempts)
      BY <2>2, GoingOnIsFree DEF Types
    <3>2. /\ CallsUsed(attempts') \in Nat /\ CallsUsed(attempts) \in Nat
          /\ Reserved(attempts) \in Nat
      BY <2>2, Costs DEF GoesOn, Types, Attempts
    <3> QED BY <2>1, <3>1, <3>2, Constants
  <2>3. ASSUME NEW s \in Scopes, NEW phase \in Phases, NEW kind \in Kinds, NEW retryAfter,
               Reserve(s, phase, kind, retryAfter)
        PROVE  Within'
    BY <2>1, <2>3 DEF Reserve, Affordable
  <2> QED BY <2>2, <2>3, OthersGoOn
<1>3. Within => WithinBudget
  <2> SUFFICES ASSUME Within PROVE WithinBudget
    OBVIOUS
  <2>1. {i \in Ids : \/ attempts[i].kind # "visp" \/ attempts[i].status # "unavailable"
                     \/ attempts[i].returned} = Used(attempts)
    BY Zenon DEF Used, NoResponse, Ids
  <2>2. Cardinality(Used(attempts)) <= MaxCalls
    BY Costs DEF Types, Attempts
  <2> QED BY <2>1, <2>2 DEF WithinBudget
<1> QED BY <1>1, <1>2, <1>3, PTL DEF Spec

-----------------------------------------------------------------------------
(* One review in progress *)

Pending(i) == attempts[i].status = "pending"

\* A revision settles what is pending, so a pending attempt is for the current promises.
PendingIsCurrent == \A i \in Ids : Pending(i) => attempts[i].intent = intent

\* Another attempt is reserved only when those still pending in its scope have expired.
EarlierExpired ==
    \A i, j \in Ids :
        i < j /\ attempts[i].scope = attempts[j].scope /\ Pending(i) => attempts[i].expired

\* A VISP launch leaves no pending attempt of its phase behind.
LaunchAlone ==
    \A i, j \in Ids :
        /\ i < j /\ attempts[i].scope = attempts[j].scope /\ attempts[i].phase = attempts[j].phase
        /\ Pending(i) /\ Pending(j)
        => attempts[j].kind # "visp"

OneInProgress == Types /\ PendingIsCurrent /\ EarlierExpired /\ LaunchAlone

\* In a scope where no review is in progress, every pending attempt has expired.
LEMMA PendingExpired ==
    ASSUME OneInProgress, NEW s, NEW phase, NEW kind, ~InProgress(s, phase, kind),
           NEW i \in Ids, Pending(i), attempts[i].scope = s
    PROVE  attempts[i].expired
<1>1. i \in SameIntent(s) /\ SameIntent(s) \subseteq Ids
  BY DEF SameIntent, InScope, OneInProgress, PendingIsCurrent
<1>2. Ids = 1..Len(attempts) /\ Len(attempts) \in Nat
  BY DEF Ids, OneInProgress, Types, Attempts
<1>3. PICK last \in SameIntent(s) : \A j \in SameIntent(s) : j <= last
  <2>1. SameIntent(s) \in SUBSET Nat /\ \A j \in SameIntent(s) : j <= Len(attempts)
    BY <1>1, <1>2
  <2> QED BY <1>1, <1>2, <2>1, GreatestElement
<1>4. last \in Latest(SameIntent(s)) /\ last \in Ids /\ attempts[last].scope = s
  BY <1>1, <1>3 DEF Latest, SameIntent, InScope
<1>5. CASE i = last
  BY <1>4, <1>5 DEF InProgress, Pending
<1>6. CASE i # last
  <2>1. i < last
    BY <1>1, <1>2, <1>3, <1>6
  <2> QED BY <1>4, <2>1 DEF OneInProgress, EarlierExpired
<1> QED BY <1>5, <1>6

\* What goes on stays alone.
LEMMA GoingOnAlone ==
    ASSUME Types, EarlierExpired, LaunchAlone, NEW list, GoesOn(list),
           NEW i \in Ids, NEW j \in Ids, i < j, list[i].scope = list[j].scope,
           list[i].status = "pending"
    PROVE  /\ list[i].expired /\ Pending(i)
           /\ list[i].phase = list[j].phase /\ list[j].status = "pending" => list[j].kind # "visp"
  BY DEF GoesOn, Kept, EarlierExpired, LaunchAlone, Pending

\* The pending reviewer owns the implementation window: a selection never has two reviews that
\* may both still be answered, and a launch gives up the expired ones of its phase.
THEOREM ReviewsOneAtATime == Spec => []OneReviewInProgress
<1>1. Init => OneInProgress
  BY DEF Init, OneInProgress, Types, Attempts, Dispatches, Work, Ids, PendingIsCurrent,
         EarlierExpired, LaunchAlone
<1>2. OneInProgress /\ [Next]_vars => OneInProgress'
  <2> SUFFICES ASSUME OneInProgress, [Next]_vars PROVE OneInProgress'
    OBVIOUS
  <2>1. Types /\ Types'
    BY AttemptsStep, DispatchesStep, WorkStep DEF OneInProgress, Types
  <2>2. CASE GoesOn(attempts')
    <3>1. Ids' = Ids
      BY <2>1, <2>2 DEF GoesOn, Types, Attempts, Ids
    <3>2. EarlierExpired' /\ LaunchAlone'
      BY <2>1, <2>2, <3>1, GoingOnAlone DEF OneInProgress, EarlierExpired, LaunchAlone, Pending
    <3>3. PendingIsCurrent'
      <4>1. CASE Revise
        <5>1. \A i \in Ids : attempts[i] \in Attempt
          BY <2>1 DEF Types, Attempts, Ids
        <5>2. \A i \in Ids : attempts'[i].status # "pending"
          BY <4>1, <5>1 DEF Revise, Attempt
        <5> QED BY <3>1, <5>2 DEF PendingIsCurrent, Pending
      <4>2. CASE intent' = intent
        BY <2>2, <3>1, <4>2 DEF OneInProgress, PendingIsCurrent, Pending, GoesOn, Kept
      <4>3. Revise \/ intent' = intent
        BY DEF Next, vars, Reserve, Claim, Die, Finish, Expire, Return, Submit, RunChecks, Edit
      <4> QED BY <4>1, <4>2, <4>3
    <3> QED BY <2>1, <3>2, <3>3 DEF OneInProgress
  <2>3. ASSUME NEW s \in Scopes, NEW phase \in Phases, NEW kind \in Kinds, NEW retryAfter,
               Reserve(s, phase, kind, retryAfter)
        PROVE  OneInProgress'
    <3> DEFINE list == EndedWithoutResult(s, phase, kind)
               n == Len(attempts) + 1
               a == Fresh(s, phase, kind)
    <3>1. /\ GoesOn(list) /\ Ids = 1..Len(attempts) /\ Ids' = 1..n /\ Len(attempts) \in Nat
          /\ \A i \in Ids : attempts'[i] = list[i]
          /\ attempts'[n] = a
      BY <2>1, <2>3, ReserveAppends
    <3>2. /\ a.scope = s /\ a.phase = phase /\ a.kind = kind /\ a.intent = intent
          /\ a.status = "pending"
      BY DEF Fresh
    <3>3. ~InProgress(s, phase, kind) /\ intent' = intent
      BY <2>3 DEF Reserve, Stopped
    <3>4. ASSUME NEW i \in Ids, list[i].status = "pending", list[i].scope = s
          PROVE  list[i].expired /\ (list[i].phase = phase => kind # "visp")
      <4>1. list[i] = attempts[i]
            /\ ~(kind = "visp" /\ attempts[i].scope = s /\ attempts[i].phase = phase
                 /\ ExpiredPending(attempts[i]))
        <5>1. attempts[i] \in Attempt
          BY <2>1 DEF Types, Attempts, Ids
        <5> QED BY <3>4, <5>1 DEF EndedWithoutResult, Attempt
      <4>2. attempts[i].expired
        BY <3>3, <3>4, <4>1, PendingExpired DEF Pending
      <4> QED BY <3>4, <4>1, <4>2 DEF ExpiredPending
    <3> HIDE DEF list, a
    <3>5. PendingIsCurrent'
      <4>1. \A i \in Ids : list[i].status = "pending" => list[i].intent = intent
        BY <3>1 DEF OneInProgress, PendingIsCurrent, Pending, GoesOn, Kept
      <4> QED BY <3>1, <3>2, <3>3, <4>1 DEF PendingIsCurrent, Pending
    <3>6. ASSUME NEW i \in Ids', NEW j \in Ids', i < j, Pending(i)',
                 attempts'[i].scope = attempts'[j].scope
          PROVE  /\ attempts'[i].expired
                 /\ attempts'[i].phase = attempts'[j].phase /\ Pending(j)' =>
                       attempts'[j].kind # "visp"
      <4>1. i \in Ids /\ list[i].status = "pending" /\ attempts'[i] = list[i]
        BY <3>1, <3>6 DEF Pending
      <4>2. CASE j \in Ids
        <5>1. attempts'[j] = list[j]
          BY <3>1, <4>2
        <5>2. EarlierExpired /\ LaunchAlone
          BY DEF OneInProgress
        <5> QED BY <2>1, <3>1, <3>6, <4>1, <4>2, <5>1, <5>2, GoingOnAlone DEF Pending
      <4>3. CASE j \notin Ids
        <5>1. attempts'[j] = a
          BY <3>1, <4>3
        <5> QED BY <3>2, <3>4, <3>6, <4>1, <5>1
      <4> QED BY <4>2, <4>3
    <3>7. EarlierExpired' /\ LaunchAlone'
      BY <3>6 DEF EarlierExpired, LaunchAlone
    <3> QED BY <2>1, <3>5, <3>7 DEF OneInProgress
  <2> QED BY <2>1, <2>2, <2>3, OthersGoOn
<1>3. OneInProgress => OneReviewInProgress
  BY DEF OneInProgress, EarlierExpired, LaunchAlone, Pending, OneReviewInProgress
<1> QED BY <1>1, <1>2, <1>3, PTL DEF Spec

-----------------------------------------------------------------------------
(* The last product call *)

\* While every attempt is a consultation, some scope can still afford a product review.
KeepsCall == Types /\ KeepsProductCall

\* A gap is a matter of what is used and reserved, and closes with it.
LEMMA GapCloses ==
    ASSUME Types, NEW list, GoesOn(list), NEW s \in Scopes, BudgetGap(list, s)
    PROVE  BudgetGap(attempts, s)
<1>1. Reserved(list) = Reserved(attempts) /\ CallsUsed(list) <= CallsUsed(attempts)
  BY GoingOnIsFree DEF Types
<1>2. CallsUsed(list) \in Nat /\ CallsUsed(attempts) \in Nat
  BY Costs DEF GoesOn, Types, Attempts
<1>3. MaxCalls \in Nat
  BY Constants
<1>4. CallsLeft(list) = 0 => CallsLeft(attempts) = 0
  BY <1>1, <1>2, <1>3 DEF CallsLeft
<1>5. TimeLeft(list, s) = TimeLeft(attempts, s)
  BY <1>1 DEF TimeLeft
<1> QED BY <1>4, <1>5 DEF BudgetGap

\* Two timeouts fit into the time that is left when they fit as often.
LEMMA TwoFit ==
    ASSUME NEW left \in Nat, NEW timeout \in Nat \ {0}, left \div timeout >= 2
    PROVE  left >= timeout + timeout
  OBVIOUS

\* When two reviews can be reserved, one remains after one.
LEMMA OneRemains ==
    ASSUME NEW list \in Seq(Attempt), NEW s \in Scopes, Reservable(list, s) >= 2,
           NEW a \in Attempt, a.scope = s
    PROVE  ~BudgetGap(Append(list, a), s)
<1> DEFINE next == Append(list, a)
<1>1. /\ Reserved(next) = Reserved(list) + Timeout[s]
      /\ CallsUsed(next) <= CallsUsed(list) + 1
  BY OneMoreCosts
<1>2. next \in Seq(Attempt)
  OBVIOUS
<1>3. /\ Reserved(list) \in Nat /\ CallsUsed(list) \in Nat /\ CallsUsed(next) \in Nat
      /\ MaxCalls \in Nat /\ MaxReserved \in Nat /\ Timeout[s] \in Nat \ {0}
  BY <1>2, Costs, Constants
<1> HIDE DEF next
<1>4. TimeLeft(list, s) \in Nat /\ CallsLeft(list) \in Nat
  BY <1>3 DEF TimeLeft, CallsLeft
<1>5. CallsLeft(list) >= 2 /\ TimeLeft(list, s) \div Timeout[s] >= 2
  <2>1. TimeLeft(list, s) \div Timeout[s] \in Nat
    BY <1>3, <1>4
  <2> QED BY <1>4, <2>1 DEF Reservable
<1>6. TimeLeft(list, s) >= Timeout[s] + Timeout[s]
  BY <1>3, <1>4, <1>5, TwoFit
<1>7. CallsLeft(next) # 0
  BY <1>1, <1>3, <1>5 DEF CallsLeft
<1>8. ~(TimeLeft(next, s) < Timeout[s])
  BY <1>1, <1>3, <1>6 DEF TimeLeft
<1> QED BY <1>7, <1>8 DEF BudgetGap, next

\* What one reservation may take remains when the attempts before it went on.
LEMMA ReservableGrows ==
    ASSUME Types, NEW list, GoesOn(list), NEW s \in Scopes
    PROVE  Reservable(attempts, s) >= 2 => Reservable(list, s) >= 2
<1>1. Reserved(list) = Reserved(attempts) /\ CallsUsed(list) <= CallsUsed(attempts)
  BY GoingOnIsFree DEF Types
<1>2. CallsUsed(list) \in Nat /\ CallsUsed(attempts) \in Nat /\ Reserved(attempts) \in Nat
  BY Costs DEF GoesOn, Types, Attempts
<1>3. MaxCalls \in Nat /\ MaxReserved \in Nat /\ Timeout[s] \in Nat \ {0}
  BY Constants
<1>4. TimeLeft(list, s) = TimeLeft(attempts, s) /\ TimeLeft(attempts, s) \in Nat
  BY <1>1, <1>2, <1>3 DEF TimeLeft
<1>5. /\ CallsLeft(list) \in Nat /\ CallsLeft(attempts) \in Nat
      /\ CallsLeft(attempts) <= CallsLeft(list)
  BY <1>1, <1>2, <1>3 DEF CallsLeft
<1>6. TimeLeft(attempts, s) \div Timeout[s] \in Nat
  BY <1>3, <1>4
<1> QED BY <1>4, <1>5, <1>6 DEF Reservable

\* An early consultation always leaves a product call, whatever slices consult, also after
\* consultations that failed were recovered.
THEOREM ProductCallKept == Spec => []KeepsProductCall
<1>1. Init => KeepsCall
  <2> SUFFICES ASSUME Init PROVE KeepsCall
    OBVIOUS
  <2>1. Types
    BY DEF Init, Types, Attempts, Dispatches, Work, Ids
  <2>2. attempts = <<>> /\ <<>> \in Seq(Attempt) /\ Used(<<>>) = {} /\ Times(<<>>) = <<>>
    BY DEF Init, Used, Times
  <2>3. CallsUsed(attempts) = 0 /\ Reserved(attempts) = 0
    BY <2>2, Costs, FS_EmptySet, TotalType
  <2>4. PICK s \in Scopes : TRUE
    BY Constants
  <2>5. ~BudgetGap(attempts, s)
    BY <2>3, Constants DEF BudgetGap, CallsLeft, TimeLeft
  <2> QED BY <2>1, <2>5 DEF KeepsCall, KeepsProductCall
<1>2. KeepsCall /\ [Next]_vars => KeepsCall'
  <2> SUFFICES ASSUME KeepsCall, [Next]_vars PROVE KeepsCall'
    OBVIOUS
  <2>1. Types /\ Types'
    BY AttemptsStep, DispatchesStep, WorkStep DEF KeepsCall, Types
  <2> SUFFICES ASSUME (\A i \in Ids : attempts[i].phase = "understanding")'
               PROVE  \E s \in Scopes : ~BudgetGap(attempts', s)
    BY <2>1 DEF KeepsCall, KeepsProductCall, BudgetGap, CallsLeft, TimeLeft
  <2>2. CASE GoesOn(attempts')
    <3>1. Ids' = Ids /\ \A i \in Ids : attempts[i].phase = "understanding"
      BY <2>1, <2>2 DEF GoesOn, Kept, Types, Attempts, Ids
    <3>2. PICK s \in Scopes : ~BudgetGap(attempts, s)
      BY <3>1 DEF KeepsCall, KeepsProductCall
    <3> QED BY <2>1, <2>2, <3>2, GapCloses
  <2>3. ASSUME NEW s \in Scopes, NEW phase \in Phases, NEW kind \in Kinds, NEW retryAfter,
               Reserve(s, phase, kind, retryAfter)
        PROVE  ~BudgetGap(attempts', s)
    <3> DEFINE list == EndedWithoutResult(s, phase, kind)
               a == Fresh(s, phase, kind)
    <3>1. /\ GoesOn(list) /\ attempts' = Append(list, a) /\ a \in Attempt
          /\ Len(attempts) + 1 \in Ids' /\ attempts'[Len(attempts) + 1] = a
      BY <2>1, <2>3, ReserveAppends
    <3>2. a.scope = s /\ a.phase = phase
      BY DEF Fresh
    <3>3. Reservable(attempts, s) >= 2
      BY <2>3, <3>1, <3>2 DEF Reserve, PhaseAllowed, UnderstandingAllowed
    <3> HIDE DEF list, a
    <3>4. list \in Seq(Attempt) /\ Reservable(list, s) >= 2
      BY <2>1, <3>1, <3>3, ReservableGrows DEF GoesOn
    <3> QED BY <3>1, <3>2, <3>4, OneRemains
  <2> QED BY <2>1, <2>2, <2>3, OthersGoOn
<1>3. KeepsCall => KeepsProductCall
  BY DEF KeepsCall
<1> QED BY <1>1, <1>2, <1>3, PTL DEF Spec
=============================================================================
