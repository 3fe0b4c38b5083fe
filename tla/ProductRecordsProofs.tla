-------------------------- MODULE ProductRecordsProofs --------------------------
(***************************************************************************)
(* How tests come to be pinned, and what becomes of them, for any          *)
(* processes, suites, tests, versions of the product and limits.  Disputes *)
(* of pinned tests: a pass of the suite is earned, a rejection stands.     *)
(* The independent tester: what it pins failed where it was launched.      *)
(* Findings: none goes away that nobody closed.                            *)
(* And the dashboard's page: it misses no change, however many changes,    *)
(* dropped streams, failed requests and requests under way there are.      *)
(***************************************************************************)
EXTENDS ProductRecords, NaturalFacts, SequenceTheorems

Given == [attempt : Nat, subject : Versions]

Dispute == [status : {"open", "expired"} \cup Rulings, subject : Versions, reviews : Nat,
            ruling : Given \cup {None}, filings : Nat]

Records == [Tests -> Dispute \cup {None}]

RulingMaps == {<<>>} \cup UNION {[S -> Rulings] : S \in SUBSET Tests}

ShownMaps == {<<>>} \cup UNION {[S -> Versions] : S \in SUBSET Tests}

Failures == SUBSET (Tests \cup {Crash})

Workers == [at : {"idle", "ran", "refreshing", "refreshed", "filing", "judging", "filed"},
            asks : SUBSET Tests, subject : Versions \cup {None}, failing : Failures,
            before : Records \cup {None}, verified : SUBSET Tests]

Reviewers == [at : {"none", "launched", "prepared", "reading", "returned", "ruling", "ruled"},
              asked : SUBSET Tests, subject : Versions \cup {None}, shown : ShownMaps, id : Nat,
              rulings : RulingMaps, tries : Nat, before : Records \cup {None}]

Attempt == [status : {"pending", "reviewed", "unavailable"}, subject : Versions,
            asked : SUBSET Tests, shown : ShownMaps, key : SUBSET (Tests \X Nat),
            rulings : RulingMaps]

Ids == DOMAIN attempts

Product == source \in Versions /\ receipts \in [Versions -> {"passed", "failed", None}]

WorkerOK == worker \in Workers /\ (worker.at # "idle" => worker.subject \in Versions)

\* The attempt a reviewer works at is not decided yet.
ReviewerOK ==
    /\ reviewer \in Reviewers
    /\ reviewer.at \in {"reading", "returned", "ruling", "ruled"} =>
          reviewer.id \in Ids /\ attempts[reviewer.id].status = "pending"

AttemptsOK == attempts \in Seq(Attempt)

\* An upheld dispute names an attempt.
DisputesOK ==
    /\ disputes \in Records
    /\ \A t \in Tests : disputes[t] # None /\ disputes[t].status = "upheld" =>
          disputes[t].ruling \in Given /\ disputes[t].ruling.attempt \in Ids

Types == Product /\ WorkerOK /\ ReviewerOK /\ AttemptsOK /\ DisputesOK

-----------------------------------------------------------------------------
(* Disputes *)

\* What is assumed of the constants.
LEMMA Constants ==
    /\ FirstVersion \in Versions /\ None \notin Versions /\ Crash \notin Tests
    /\ \A v \in Versions : Failing[v] \in Failures
    /\ SuiteSkips \in BOOLEAN /\ MaxFilings \in Nat /\ MaxReviewsPerFiling \in Nat
  BY PinnedConstants DEF Failures

\* An open dispute that takes over another run, expires or has used up a review.
LEMMA DisputeRefreshed ==
    ASSUME NEW d \in Dispute, d.status = "open", NEW subject \in Versions, NEW e,
           \/ e = [d EXCEPT !.subject = subject, !.reviews = 0]
           \/ e = [d EXCEPT !.status = "expired"]
           \/ e = [d EXCEPT !.subject = subject]
           \/ e = [d EXCEPT !.reviews = d.reviews + 1]
    PROVE  e \in Dispute /\ (e.status = "open" \/ e = [d EXCEPT !.status = "expired"])
           /\ e.status # "upheld"
<1>1. d.reviews + 1 \in Nat
  BY DEF Dispute
<1>2. CASE e = [d EXCEPT !.status = "expired"]
  BY <1>2 DEF Dispute
<1>3. CASE e = [d EXCEPT !.reviews = d.reviews + 1]
  BY <1>1, <1>3 DEF Dispute
<1>4. CASE e = [d EXCEPT !.subject = subject, !.reviews = 0]
  <2>1. e \in Dispute
    BY ONLY <1>4, d \in Dispute, subject \in Versions DEF Dispute
  <2>2. e.status = "open"
    BY ONLY <1>4, d \in Dispute, d.status = "open" DEF Dispute
  <2> QED BY <2>1, <2>2
<1>5. CASE e = [d EXCEPT !.subject = subject]
  <2>1. e \in Dispute
    BY ONLY <1>5, d \in Dispute, subject \in Versions DEF Dispute
  <2>2. e.status = "open"
    BY ONLY <1>5, d \in Dispute, d.status = "open" DEF Dispute
  <2> QED BY <2>1, <2>2
<1> QED BY <1>2, <1>3, <1>4, <1>5

\* A filed dispute is open.
LEMMA DisputeFiled ==
    ASSUME NEW d \in Dispute \cup {None}, NEW subject \in Versions
    PROVE  /\ FiledDispute(d, subject) \in Dispute /\ FiledDispute(d, subject).status = "open"
           /\ d # None /\ d.status # "open" =>
                 /\ FiledDispute(d, subject).subject = subject
                 /\ FiledDispute(d, subject).filings = d.filings + 1
<1>1. CASE d # None /\ d.status = "open"
  <2>1. FiledDispute(d, subject) = [d EXCEPT !.subject = subject] /\ d \in Dispute
    BY <1>1 DEF FiledDispute
  <2>2. FiledDispute(d, subject) \in Dispute /\ FiledDispute(d, subject).status = "open"
    BY <1>1, <2>1 DEF Dispute
  <2> QED BY <1>1, <2>2
<1>2. CASE ~(d # None /\ d.status = "open")
  <2>1. FiledDispute(d, subject) =
          [status |-> "open", subject |-> subject, reviews |-> 0, ruling |-> None,
           filings |-> IF d = None THEN 1 ELSE d.filings + 1]
    BY <1>2 DEF FiledDispute
  <2>2. (IF d = None THEN 1 ELSE d.filings + 1) \in Nat
    BY DEF Dispute
  <2> QED BY <2>1, <2>2 DEF Dispute
<1> QED BY <1>1, <1>2

\* A save that counts is made from the disputes as they are.
LEMMA SaveChanges ==
    ASSUME NEW from, NEW to, NEW after, Save(from, to, after)
    PROVE  \/ UNCHANGED disputes
           \/ worker.before = disputes /\ disputes' = after
  BY DEF Save, UnchangedSince

\* The disputes of the given tests are filed.
Files(filed) ==
    /\ disputes' = [t \in Tests |-> IF t \in filed THEN FiledDispute(disputes[t], worker.subject)
                                                   ELSE disputes[t]]
    /\ \A t \in filed : ~Refused(disputes, worker.verified, t, worker.subject, worker.failing)

\* Whatever was read before, disputes are changed as they are now.
LEMMA DisputesChange ==
    ASSUME Types, [Next]_vars
    PROVE  \/ UNCHANGED disputes
           \/ worker.subject \in Versions /\ disputes' = Refreshed(disputes)
           \/ worker.subject \in Versions /\ \E filed \in SUBSET Tests : Files(filed)
           \/ /\ reviewer.at = "ruling"
              /\ disputes' = Ruled(disputes, reviewer.rulings, attempts[reviewer.id], reviewer.id)
<1>a. worker.at # "idle" => worker.subject \in Versions
  BY DEF Types, WorkerOK
<1>1. CASE Refresh
  <2>1. \/ UNCHANGED disputes
        \/ worker.before = disputes /\ disputes' = Refreshed(worker.before)
    BY <1>1, SaveChanges DEF Refresh
  <2> QED BY <1>1, <1>a, <2>1 DEF Refresh
<1>2. CASE File
  <2> DEFINE filed == {t \in worker.asks : ~Refused(worker.before, worker.verified, t,
                                                    worker.subject, worker.failing)}
             after == [t \in Tests |-> IF t \in filed
                                       THEN FiledDispute(worker.before[t], worker.subject)
                                       ELSE worker.before[t]]
  <2>1. Save("judging", "filed", after) /\ worker.at = "judging"
    BY <1>2 DEF File
  <2>2. UNCHANGED disputes \/ (worker.before = disputes /\ disputes' = after)
    BY <2>1, SaveChanges
  <2>3. filed \in SUBSET Tests
    BY DEF Types, WorkerOK, Workers
  <2>4. CASE worker.before = disputes /\ disputes' = after
    <3>1. Files(filed)
      BY <2>4 DEF Files
    <3> HIDE DEF filed
    <3> QED BY <1>a, <2>1, <2>3, <3>1
  <2> QED BY <2>2, <2>4
<1>3. CASE ApplyRulings
  BY <1>3 DEF ApplyRulings, UnchangedSince
<1>4. ASSUME \/ \E version \in Versions : Edit(version)
             \/ Verify
             \/ \E call \in {"done", "accept"}, asks \in {{}} \cup {{t} : t \in Tests} : Call(call, asks)
             \/ StartRefresh \/ SkipFiling \/ StartFiling \/ ReadWaivers \/ LaunchReview
             \/ ReviewContext \/ ReserveReview
             \/ \E ruled \in SUBSET Tests : \E rulings \in [ruled -> Rulings] : Answer(rulings)
             \/ LoadForRulings \/ SaveReview \/ ReviewerDies \/ UNCHANGED vars
      PROVE  UNCHANGED disputes
  BY <1>4 DEF Edit, Verify, Call, StartRefresh, Load, SkipFiling, StartFiling, ReadWaivers,
              LaunchReview, ReviewContext, ReserveReview, Answer, LoadForRulings, SaveReview,
              ReviewerDies, vars
<1> QED BY <1>1, <1>2, <1>3, <1>4 DEF Next

\* Attempts are never dropped, and one that is reviewed is never changed.
Stays ==
    /\ \A i \in Ids : i \in Ids'
    /\ \A i \in Ids : attempts[i].status = "reviewed" => attempts'[i] = attempts[i]

\* What becomes of the attempts.
LEMMA AttemptsChange ==
    ASSUME Types, [Next]_vars
    PROVE  AttemptsOK' /\ Stays
<1>a. attempts \in Seq(Attempt) /\ Ids = 1..Len(attempts) /\ Len(attempts) \in Nat
  BY DEF Types, AttemptsOK, Ids
<1>b. source \in Versions /\ reviewer \in Reviewers
  BY DEF Types, Product, ReviewerOK
<1>1. CASE UNCHANGED attempts
  BY <1>a, <1>1 DEF AttemptsOK, Stays, Ids
<1>2. ASSUME NEW a \in Attempt, attempts' = Append(attempts, a) PROVE AttemptsOK' /\ Stays
  BY <1>a, <1>2 DEF AttemptsOK, Stays, Ids
<1>3. ASSUME NEW i \in Ids, attempts[i].status = "pending", NEW a \in Attempt,
             attempts' = [attempts EXCEPT ![i] = a]
      PROVE  AttemptsOK' /\ Stays
  BY <1>a, <1>3 DEF AttemptsOK, Stays, Ids
<1>4. CASE ReserveReview
  <2> DEFINE a == [status |-> "pending", subject |-> source, asked |-> reviewer.asked,
                   shown |-> reviewer.shown, key |-> DisputeSetKey(Pending), rulings |-> <<>>]
  <2>1. UNCHANGED attempts \/ attempts' = Append(attempts, a)
    BY <1>4 DEF ReserveReview
  <2>2. DisputeSetKey(Pending) \in SUBSET (Tests \X Nat)
    <3>1. \A t \in Pending : t \in Tests /\ disputes[t].reviews \in Nat
      BY DEF Types, DisputesOK, Records, Dispute, Pending, Open
    <3> QED BY <3>1 DEF DisputeSetKey
  <2>3. <<>> \in RulingMaps
    BY DEF RulingMaps
  <2>4. a \in Attempt
    BY <1>b, <2>2, <2>3 DEF Attempt, Reviewers
  <2> HIDE DEF a
  <2> QED BY <1>1, <1>2, <2>1, <2>4
<1>5. ASSUME reviewer.at \in {"reading", "returned", "ruling", "ruled"},
             NEW verdict \in {"reviewed", "unavailable"}, NEW rulings \in RulingMaps
      PROVE  /\ reviewer.id \in Ids /\ attempts[reviewer.id].status = "pending"
             /\ attempts[reviewer.id] \in Attempt
             /\ [attempts[reviewer.id] EXCEPT !.status = verdict] \in Attempt
             /\ [attempts[reviewer.id] EXCEPT !.status = verdict, !.rulings = rulings] \in Attempt
  <2>1. /\ reviewer.id \in Ids /\ attempts[reviewer.id].status = "pending"
        /\ attempts[reviewer.id] \in Attempt
    BY <1>a, <1>5 DEF Types, ReviewerOK
  <2> QED BY <2>1 DEF Attempt
<1>6. ASSUME NEW rulings, Answer(rulings) PROVE AttemptsOK' /\ Stays
  <2>1. CASE UNCHANGED attempts
    BY <1>1, <2>1
  <2>2. CASE attempts' = [attempts EXCEPT ![reviewer.id] =
                             [attempts[reviewer.id] EXCEPT !.status = "unavailable"]]
    <3>1. <<>> \in RulingMaps /\ reviewer.at = "reading"
      BY <1>6 DEF RulingMaps, Answer
    <3> QED BY <1>3, <1>5, <2>2, <3>1
  <2> QED BY <1>6, <2>1, <2>2 DEF Answer
<1>7. CASE ReviewerDies
  <2>1. attempts' = [attempts EXCEPT ![reviewer.id] =
                        [attempts[reviewer.id] EXCEPT !.status = "unavailable"]]
    BY <1>7 DEF ReviewerDies
  <2>2. <<>> \in RulingMaps /\ reviewer.at \in {"reading", "returned", "ruling", "ruled"}
    BY <1>7, <1>b DEF RulingMaps, ReviewerDies, Reviewers
  <2> QED BY <1>3, <1>5, <2>1, <2>2
<1>8. CASE SaveReview
  <2>1. attempts' = [attempts EXCEPT ![reviewer.id] =
                        [attempts[reviewer.id] EXCEPT !.status = "reviewed",
                                                      !.rulings = reviewer.rulings]]
    BY <1>8, <1>a DEF SaveReview
  <2>2. reviewer.rulings \in RulingMaps /\ reviewer.at = "ruled"
    BY <1>8, <1>b DEF SaveReview, Reviewers
  <2> QED BY <1>3, <1>5, <2>1, <2>2
<1>9. ASSUME \/ \E version \in Versions : Edit(version)
             \/ Verify
             \/ \E call \in {"done", "accept"}, asks \in {{}} \cup {{t} : t \in Tests} : Call(call, asks)
             \/ StartRefresh \/ Refresh \/ SkipFiling \/ StartFiling \/ ReadWaivers \/ File
             \/ LaunchReview \/ ReviewContext \/ LoadForRulings \/ ApplyRulings \/ UNCHANGED vars
      PROVE  UNCHANGED attempts
  BY <1>9 DEF Edit, Verify, Call, StartRefresh, Load, Refresh, Save, SkipFiling, StartFiling,
              ReadWaivers, File, LaunchReview, ReviewContext, LoadForRulings, ApplyRulings, vars
<1> QED BY <1>1, <1>4, <1>6, <1>7, <1>8, <1>9 DEF Next

\* Disputes stay disputes, and an upheld one names an attempt.
LEMMA DisputesStep == ASSUME Types, [Next]_vars PROVE DisputesOK'
<1>a. disputes \in Records /\ Stays
  BY AttemptsChange DEF Types, DisputesOK
<1> DEFINE Good(d) == /\ d \in Dispute \cup {None}
                      /\ d # None /\ d.status = "upheld" =>
                            d.ruling \in Given /\ d.ruling.attempt \in Ids'
<1>b. \A t \in Tests : Good(disputes[t]) /\ disputes[t] \in Dispute \cup {None}
  BY <1>a DEF Types, DisputesOK, Records, Stays
<1>c. ASSUME NEW f, disputes' = [t \in Tests |-> f[t]], \A t \in Tests : Good(f[t])
      PROVE  DisputesOK'
  BY <1>c DEF DisputesOK, Records
<1>1. CASE UNCHANGED disputes
  BY <1>a, <1>b, <1>1 DEF DisputesOK
<1>2. CASE worker.subject \in Versions /\ disputes' = Refreshed(disputes)
  <2>1. ASSUME NEW t \in Tests PROVE Good(Refreshed(disputes)[t])
    <3> DEFINE d == disputes[t]
    <3>1. Refreshed(disputes)[t] \in
             {d, [d EXCEPT !.subject = worker.subject, !.reviews = 0],
              [d EXCEPT !.status = "expired"]}
          /\ (d = None => Refreshed(disputes)[t] = d)
          /\ (d # None /\ d.status # "open" => Refreshed(disputes)[t] = d)
      BY DEF Refreshed
    <3>2. CASE d = None \/ d.status # "open"
      BY <1>b, <3>1, <3>2
    <3>3. CASE d # None /\ d.status = "open"
      <4>1. d \in Dispute
        BY <1>b, <3>3
      <4> HIDE DEF d
      <4>2. \/ Refreshed(disputes)[t] = d
            \/ Refreshed(disputes)[t] \in Dispute /\ Refreshed(disputes)[t].status # "upheld"
        BY <1>2, <3>1, <3>3, <4>1, DisputeRefreshed
      <4> QED BY <3>3, <4>1, <4>2
    <3> QED BY <3>2, <3>3
  <2> QED BY <1>2, <2>1 DEF Refreshed, DisputesOK, Records
<1>3. ASSUME worker.subject \in Versions, NEW filed \in SUBSET Tests, Files(filed)
      PROVE  DisputesOK'
  <2>1. ASSUME NEW t \in Tests
        PROVE  Good(IF t \in filed THEN FiledDispute(disputes[t], worker.subject) ELSE disputes[t])
    BY <1>b, <1>3, DisputeFiled
  <2> QED BY <1>3, <2>1 DEF Files, DisputesOK, Records
<1>4. CASE /\ reviewer.at = "ruling"
           /\ disputes' = Ruled(disputes, reviewer.rulings, attempts[reviewer.id], reviewer.id)
  <2> DEFINE attempt == attempts[reviewer.id]
             stamp == [attempt |-> reviewer.id, subject |-> attempt.subject]
             after == Ruled(disputes, reviewer.rulings, attempt, reviewer.id)
  <2>1. reviewer.id \in Ids /\ attempt \in Attempt /\ reviewer \in Reviewers
    BY <1>4 DEF Types, ReviewerOK, AttemptsOK, Ids
  <2>2. stamp \in Given /\ stamp.attempt \in Ids'
    BY <1>a, <2>1 DEF Given, Attempt, Reviewers, Stays
  <2>3. \A t \in DOMAIN reviewer.rulings : reviewer.rulings[t] \in Rulings
    BY <2>1 DEF Reviewers, RulingMaps
  <2>4. ASSUME NEW t \in Tests PROVE Good(after[t])
    <3> DEFINE d == disputes[t]
    <3>1. /\ \/ after[t] = d
             \/ d # None /\ d.status = "open" /\ t \in DOMAIN reviewer.rulings
                /\ after[t] = [d EXCEPT !.status = reviewer.rulings[t], !.ruling = stamp]
             \/ d # None /\ d.status = "open" /\ after[t] = [d EXCEPT !.reviews = d.reviews + 1]
      BY DEF Ruled
    <3>2. d # None => d \in Dispute
      BY <1>b
    <3>3. Good(d)
      BY <1>b
    <3> HIDE DEF d, after, stamp
    <3>4. \/ after[t] = d
          \/ after[t] \in Dispute /\ after[t].ruling = stamp
          \/ after[t] \in Dispute /\ after[t].status # "upheld"
      <4>1. source \in Versions
        BY DEF Types, Product
      <4>2. CASE /\ d # None /\ d.status = "open" /\ t \in DOMAIN reviewer.rulings
                 /\ after[t] = [d EXCEPT !.status = reviewer.rulings[t], !.ruling = stamp]
        <5>1. reviewer.rulings[t] \in Rulings /\ d \in Dispute
          BY <2>3, <3>2, <4>2
        <5>2. stamp \in Given
          BY <2>2
        <5>3. after[t] = [d EXCEPT !.status = reviewer.rulings[t], !.ruling = stamp]
          BY <4>2
        <5>4. PICK verdict, e : verdict = reviewer.rulings[t] /\ e = after[t]
          OBVIOUS
        <5>5. e = [d EXCEPT !.status = verdict, !.ruling = stamp] /\ verdict \in Rulings
          BY <5>1, <5>3, <5>4
        <5>6. e \in Dispute /\ e.ruling = stamp
          BY ONLY <5>1, <5>2, <5>5 DEF Dispute
        <5> QED BY <5>4, <5>6
      <4>3. CASE d # None /\ d.status = "open" /\ after[t] = [d EXCEPT !.reviews = d.reviews + 1]
        BY <3>2, <4>1, <4>3, DisputeRefreshed
      <4> QED BY <3>1, <4>2, <4>3
    <3> QED BY <2>2, <3>3, <3>4
  <2> QED BY <1>4, <2>4 DEF Ruled, DisputesOK, Records
<1> QED BY <1>1, <1>2, <1>3, <1>4, DisputesChange

-----------------------------------------------------------------------------
(* Every reachable state *)

\* A run's result is a result.
LEMMA ProductStep == ASSUME Types, [Next]_vars PROVE Product'
<1>a. source \in Versions /\ receipts \in [Versions -> {"passed", "failed", None}]
  BY DEF Types, Product
<1>b. \A failing, waived : WaivedResult(failing, waived) \in {"passed", "failed"}
  BY DEF WaivedResult
<1>1. ASSUME NEW version \in Versions, Edit(version) PROVE Product'
  BY <1>a, <1>1 DEF Edit, Product
<1>2. CASE Verify
  BY <1>a, <1>b, <1>2 DEF Verify, Product
<1>3. ASSUME NEW call, NEW asks, Call(call, asks) PROVE Product'
  BY <1>a, <1>b, <1>3 DEF Call, Product
<1>4. ASSUME \/ StartRefresh \/ Refresh \/ SkipFiling \/ StartFiling \/ ReadWaivers \/ File
             \/ LaunchReview \/ ReviewContext \/ ReserveReview
             \/ \E ruled \in SUBSET Tests : \E rulings \in [ruled -> Rulings] : Answer(rulings)
             \/ LoadForRulings \/ ApplyRulings \/ SaveReview \/ ReviewerDies \/ UNCHANGED vars
      PROVE  Product'
  <2>1. UNCHANGED <<source, receipts>>
    BY <1>4 DEF StartRefresh, Load, Refresh, Save, SkipFiling, StartFiling, ReadWaivers, File,
                LaunchReview, ReviewContext, ReserveReview, Answer, LoadForRulings, ApplyRulings,
                SaveReview, ReviewerDies, vars
  <2> QED BY <1>a, <2>1 DEF Product
<1> QED BY <1>1, <1>2, <1>3, <1>4 DEF Next

\* A call under way knows the product it runs on.
LEMMA WorkerStep == ASSUME Types, [Next]_vars PROVE WorkerOK'
<1>a. worker \in Workers /\ (worker.at # "idle" => worker.subject \in Versions)
  BY DEF Types, WorkerOK
<1>b. source \in Versions /\ disputes \in Records
  BY DEF Types, Product, DisputesOK
<1>c. PinnedWaivers \in SUBSET Tests
  BY DEF PinnedWaivers
<1>d. Idle \in Workers /\ Idle.at = "idle"
  BY DEF Idle, Workers, Failures
<1>e. ASSUME worker' = Idle PROVE WorkerOK'
  BY <1>d, <1>e DEF WorkerOK
<1>1. CASE UNCHANGED worker
  BY <1>a, <1>1 DEF WorkerOK
<1>2. ASSUME NEW call, NEW asks \in SUBSET Tests, Call(call, asks) PROVE WorkerOK'
  <2> DEFINE failing == Reported(source, PinnedWaivers)
  <2>1. failing \in Failures
    BY <1>b, Constants DEF Reported, Failures
  <2>2. {} \in Failures
    BY DEF Failures
  <2>3. PICK at \in {"ran", "refreshed"}, fs \in {failing, {}} :
          worker' = [Idle EXCEPT !.at = at, !.asks = asks, !.subject = source, !.failing = fs]
    BY <1>2 DEF Call
  <2>4. fs \in Failures
    BY <2>1, <2>2
  <2>5. /\ [Idle EXCEPT !.at = at, !.asks = asks, !.subject = source, !.failing = fs] \in Workers
        /\ [Idle EXCEPT !.at = at, !.asks = asks, !.subject = source, !.failing = fs].subject = source
    BY <1>b, <2>4 DEF Idle, Workers
  <2> QED BY <1>b, <2>3, <2>5 DEF WorkerOK
<1>3. ASSUME NEW at \in {"refreshing", "refreshed", "filing", "judging", "filed"},
             NEW before \in Records \cup {None}, NEW verified \in SUBSET Tests,
             worker.at # "idle",
             \/ worker' = [worker EXCEPT !.at = at, !.before = before]
             \/ worker' = [worker EXCEPT !.at = at, !.verified = verified]
             \/ worker' = [worker EXCEPT !.at = at]
      PROVE  WorkerOK'
  BY <1>a, <1>3 DEF WorkerOK, Workers
<1>4. None \in Records \cup {None} /\ disputes \in Records \cup {None} /\ {} \in SUBSET Tests
  BY <1>b
<1>5. ASSUME NEW from, from # "idle",
             NEW to \in {"refreshing", "refreshed", "filing", "judging", "filed"}, Load(from, to)
      PROVE  WorkerOK'
  BY <1>3, <1>4, <1>5 DEF Load
<1>6. ASSUME NEW from, from # "idle", NEW to \in {"refreshed", "filed"}, NEW after,
             Save(from, to, after)
      PROVE  WorkerOK'
  BY <1>3, <1>4, <1>6, <1>e DEF Save
<1>7. CASE SkipFiling
  BY <1>3, <1>4, <1>7, <1>e DEF SkipFiling
<1>8. CASE ReadWaivers
  BY <1>3, <1>4, <1>8, <1>c DEF ReadWaivers
<1>9. CASE File
  BY <1>6, <1>9 DEF File
<1>10. CASE \/ \E version \in Versions : Edit(version)
            \/ Verify \/ ReviewContext \/ ReserveReview
            \/ \E ruled \in SUBSET Tests : \E rulings \in [ruled -> Rulings] : Answer(rulings)
            \/ LoadForRulings \/ ApplyRulings \/ SaveReview \/ ReviewerDies \/ UNCHANGED vars
  <2>1. UNCHANGED worker
    BY <1>10 DEF Edit, Verify, ReviewContext, ReserveReview, Answer, LoadForRulings, ApplyRulings,
                 SaveReview, ReviewerDies, vars
  <2> QED BY <2>1, <1>1
<1>11. CASE LaunchReview
  BY <1>11, <1>e DEF LaunchReview
<1> QED BY <1>2, <1>5, <1>6, <1>7, <1>8, <1>9, <1>10, <1>11 DEF Next, StartRefresh, Refresh, StartFiling

\* A reviewer works at an attempt that is not decided yet.
LEMMA ReviewerStep == ASSUME Types, [Next]_vars PROVE ReviewerOK'
<1>a. /\ reviewer \in Reviewers
      /\ reviewer.at \in {"reading", "returned", "ruling", "ruled"} =>
            reviewer.id \in Ids /\ attempts[reviewer.id].status = "pending"
  BY DEF Types, ReviewerOK
<1>b. source \in Versions /\ disputes \in Records
  BY DEF Types, Product, DisputesOK
<1>c. <<>> \in RulingMaps /\ <<>> \in ShownMaps /\ {} \in SUBSET Tests /\ Pending \in SUBSET Tests
  BY DEF RulingMaps, ShownMaps, Pending, Open
<1>d. NoReview \in Reviewers /\ NoReview.at = "none"
  BY <1>c DEF NoReview, Reviewers
<1>e. ASSUME reviewer' = NoReview PROVE ReviewerOK'
  BY <1>d, <1>e DEF ReviewerOK
<1>1. CASE UNCHANGED <<reviewer, attempts>>
  BY <1>a, <1>1 DEF ReviewerOK, Ids
<1>2. CASE LaunchReview
  <2>1. UNCHANGED <<reviewer, attempts>> \/ reviewer' = [NoReview EXCEPT !.at = "launched"]
    BY <1>2 DEF LaunchReview
  <2>2. [NoReview EXCEPT !.at = "launched"] \in Reviewers
        /\ [NoReview EXCEPT !.at = "launched"].at = "launched"
    BY <1>d DEF NoReview, Reviewers
  <2> QED BY <1>1, <2>1, <2>2 DEF ReviewerOK
<1>3. CASE ReviewContext
  <2> DEFINE sent == [t \in Pending |-> disputes[t].subject]
  <2>1. reviewer' = [NoReview EXCEPT !.at = "prepared", !.asked = Pending, !.subject = source,
                                     !.shown = sent]
    BY <1>3 DEF ReviewContext
  <2>2. \A t \in Pending : disputes[t].subject \in Versions
    BY <1>b DEF Records, Dispute, Pending, Open
  <2>3. sent \in ShownMaps
    <3>1. sent \in [Pending -> Versions]
      BY <2>2
    <3> HIDE DEF sent
    <3> QED BY <1>c, <3>1 DEF ShownMaps
  <2> HIDE DEF sent
  <2>4. reviewer' \in Reviewers /\ reviewer'.at = "prepared"
    BY <1>b, <1>c, <2>1, <2>3 DEF NoReview, Reviewers
  <2> QED BY <2>4 DEF ReviewerOK
<1>4. CASE ReserveReview
  <2>1. CASE reviewer' = NoReview
    BY <1>e, <2>1
  <2>2. CASE reviewer' # NoReview
    <3>1. PICK a : attempts' = Append(attempts, a) /\ a.status = "pending"
      BY <1>4, <2>2 DEF ReserveReview
    <3>2. reviewer' = [NoReview EXCEPT !.at = "reading", !.id = Len(attempts) + 1]
      BY <1>4, <2>2 DEF ReserveReview
    <3>3. attempts \in Seq(Attempt) /\ Len(attempts) \in Nat
      BY DEF Types, AttemptsOK
    <3>4. reviewer' \in Reviewers /\ reviewer'.id = Len(attempts) + 1
      <4>1. PICK n : n = Len(attempts) + 1
        OBVIOUS
      <4>2. n \in Nat
        BY <3>3, <4>1
      <4>3. reviewer' = [NoReview EXCEPT !.at = "reading", !.id = n]
        BY <3>2, <4>1
      <4>4. reviewer' = [at |-> "reading", asked |-> {}, subject |-> None, shown |-> <<>>, id |-> n,
                         rulings |-> <<>>, tries |-> 0, before |-> None]
        BY ONLY <4>3 DEF NoReview
      <4>5. reviewer' \in Reviewers /\ reviewer'.id = n
        BY ONLY <1>c, <4>2, <4>4 DEF Reviewers
      <4> QED BY <4>1, <4>5
    <3>5. Len(attempts) + 1 \in Ids' /\ attempts'[Len(attempts) + 1] = a
      BY <3>1, <3>3 DEF Ids
    <3> QED BY <3>1, <3>4, <3>5 DEF ReviewerOK
  <2> QED BY <2>1, <2>2
\* The reviewer goes on with the attempt it has.
<1>5. ASSUME NEW at \in {"returned", "ruling", "ruled"}, NEW rulings \in RulingMaps, NEW tries \in Nat,
             NEW before \in Records \cup {None},
             reviewer.at \in {"reading", "returned", "ruling", "ruled"}, UNCHANGED attempts,
             \/ reviewer' = [reviewer EXCEPT !.at = at, !.rulings = rulings]
             \/ reviewer' = [reviewer EXCEPT !.at = at, !.before = before]
             \/ reviewer' = [reviewer EXCEPT !.at = at, !.tries = tries, !.rulings = rulings,
                                             !.before = before]
      PROVE  ReviewerOK'
  <2>1. reviewer' \in Reviewers /\ reviewer'.id = reviewer.id
    BY <1>a, <1>5 DEF Reviewers
  <2> QED BY <1>a, <1>5, <2>1 DEF ReviewerOK, Ids
<1>6. None \in Records \cup {None} /\ disputes \in Records \cup {None} /\ 0 \in Nat
  BY <1>b
<1>7. ASSUME NEW ruled \in SUBSET Tests, NEW rulings \in [ruled -> Rulings], Answer(rulings)
      PROVE  ReviewerOK'
  <2>1. rulings \in RulingMaps
    BY DEF RulingMaps
  <2> QED BY <1>5, <1>6, <1>7, <1>e, <2>1 DEF Answer
<1>8. CASE LoadForRulings
  BY <1>5, <1>6, <1>8, <1>c DEF LoadForRulings
<1>9. CASE ApplyRulings
  <2>1. reviewer.tries + 1 \in Nat /\ reviewer.rulings \in RulingMaps
    BY <1>a DEF Reviewers
  <2>2. PICK at \in {"returned", "ruled"}, tries \in {0, reviewer.tries + 1},
             rulings \in {reviewer.rulings, <<>>} :
          reviewer' = [reviewer EXCEPT !.at = at, !.tries = tries, !.rulings = rulings,
                                       !.before = None]
    BY <1>9 DEF ApplyRulings
  <2>3. tries \in Nat /\ rulings \in RulingMaps
    BY <1>c, <2>1
  <2>4. reviewer.at = "ruling" /\ UNCHANGED attempts
    BY <1>9 DEF ApplyRulings
  <2> QED BY <1>5, <1>6, <2>2, <2>3, <2>4
<1>10. CASE SaveReview \/ ReviewerDies
  BY <1>10, <1>e DEF SaveReview, ReviewerDies
<1>11. CASE \/ \E version \in Versions : Edit(version)
            \/ Verify
            \/ \E call \in {"done", "accept"}, asks \in {{}} \cup {{t} : t \in Tests} : Call(call, asks)
            \/ StartRefresh \/ Refresh \/ SkipFiling \/ StartFiling \/ ReadWaivers \/ File
            \/ UNCHANGED vars
  <2>1. UNCHANGED <<reviewer, attempts>>
    BY <1>11 DEF Edit, Verify, Call, StartRefresh, Load, Refresh, Save, SkipFiling, StartFiling,
                 ReadWaivers, File, vars
  <2> QED BY <1>1, <2>1
<1> QED BY <1>2, <1>3, <1>4, <1>7, <1>8, <1>9, <1>10, <1>11 DEF Next

\* What the steps need holds at the start.
LEMMA TypesStart == ASSUME Init PROVE Types
<1>1. Idle \in Workers /\ Idle.at = "idle"
  BY DEF Idle, Workers, Failures
<1>2. <<>> \in RulingMaps /\ <<>> \in ShownMaps
  BY DEF RulingMaps, ShownMaps
<1>3. NoReview \in Reviewers /\ NoReview.at = "none"
  BY <1>2 DEF NoReview, Reviewers
<1>4. disputes \in Records /\ \A t \in Tests : disputes[t] = None
  BY DEF Init, Records
<1>5. receipts \in [Versions -> {"passed", "failed", None}] /\ source \in Versions
  BY Constants DEF Init
<1> QED BY <1>1, <1>3, <1>4, <1>5 DEF Init, Types, Product, WorkerOK, ReviewerOK, AttemptsOK, DisputesOK

\* What the steps need holds in every reachable state: every variable has its type, the attempt a
\* reviewer works at is undecided, an upheld dispute names an attempt.
THEOREM TypeCorrect == Spec => []Types
<1>1. ASSUME Types, [Next]_vars PROVE Types'
  BY <1>1, ProductStep, WorkerStep, ReviewerStep, AttemptsChange, DisputesStep DEF Types
<1> QED BY <1>1, TypesStart, PTL DEF Spec

-----------------------------------------------------------------------------
(* A pass is earned *)

\* A suite passes only if every test that fails there is waived.
LEMMA PassNeedsWaivers ==
    ASSUME NEW version \in Versions, NEW waived \in SUBSET Tests,
           WaivedResult(Reported(version, waived), waived) = "passed"
    PROVE  Failing[version] \subseteq waived
  BY DEF WaivedResult, Reported, AllFailuresIn

\* A test is waived by an accepted review that was asked about it and upheld it.
Upheld(failure) ==
    \E i \in Ids : /\ attempts[i].status = "reviewed" /\ failure \in attempts[i].asked
                   /\ failure \in DOMAIN attempts[i].rulings
                   /\ attempts[i].rulings[failure] = "upheld"

LEMMA WaiversAreUpheld == ASSUME Types PROVE \A t \in PinnedWaivers : Upheld(t)
<1> SUFFICES ASSUME NEW t \in Tests, VerifiedUpheld(t) PROVE Upheld(t)
  BY DEF PinnedWaivers
<1>1. disputes[t].ruling.attempt \in Ids
  BY DEF VerifiedUpheld, Types, DisputesOK
<1> QED BY <1>1 DEF VerifiedUpheld, Upheld

\* The suite counts as passed on a product only if every test that fails there was upheld by an
\* accepted review (pinned-dispute-model.ts:440-468): a pass is new only when the waivers cover the
\* failures, and an accepted review stays as it is.
THEOREM PassIsEarned == Spec => []PassesAreEarned
<1> DEFINE Earned == \A v \in Versions : receipts[v] = "passed" => \A f \in Failing[v] : Upheld(f)
<1>1. PassesAreEarned <=> Earned
  BY DEF PassesAreEarned, Upheld, Ids
<1>2. Init => Earned
  BY PinnedConstants DEF Init
<1>3. ASSUME Types, [Next]_vars, Earned PROVE Earned'
  <2>1. ASSUME NEW f, Upheld(f) PROVE Upheld(f)'
    BY <1>3, <2>1, AttemptsChange DEF Stays, Upheld
  <2>2. \/ UNCHANGED receipts
        \/ receipts' = [receipts EXCEPT ![source] =
                            WaivedResult(Reported(source, PinnedWaivers), PinnedWaivers)]
    BY <1>3 DEF Next, Edit, Verify, Call, StartRefresh, Load, Refresh, Save, SkipFiling, StartFiling,
                ReadWaivers, File, LaunchReview, ReviewContext, ReserveReview, Answer,
                LoadForRulings, ApplyRulings, SaveReview, ReviewerDies, vars
  <2>3. source \in Versions /\ receipts \in [Versions -> {"passed", "failed", None}]
    BY <1>3 DEF Types, Product
  <2>4. ASSUME NEW v \in Versions, receipts'[v] = "passed" PROVE \A f \in Failing[v] : Upheld(f)
    <3>1. CASE receipts[v] = "passed"
      BY <1>3, <3>1
    <3>2. CASE receipts[v] # "passed"
      <4>1. v = source /\ WaivedResult(Reported(source, PinnedWaivers), PinnedWaivers) = "passed"
        BY <2>2, <2>3, <2>4, <3>2
      <4>2. PinnedWaivers \in SUBSET Tests
        BY DEF PinnedWaivers
      <4>3. Failing[v] \subseteq PinnedWaivers
        BY <4>1, <4>2, PassNeedsWaivers
      <4> QED BY <1>3, <4>3, WaiversAreUpheld
    <3> QED BY <3>1, <3>2
  <2> QED BY <2>1, <2>4
<1> QED BY <1>1, <1>2, <1>3, TypeCorrect, PTL DEF Spec

-----------------------------------------------------------------------------
(* A rejection stands *)

\* A rejected test is open again only for a changed product, and once (pinned-disputes.ts:295-322):
\* only a new filing touches a rejected dispute, and the save sees the record it was judged by.
THEOREM RejectionIsFinal == Spec => RejectionsStand
<1> DEFINE Stand(t) ==
      disputes[t] # None /\ disputes[t].status = "rejected" /\ disputes'[t] # disputes[t] =>
          /\ disputes'[t].subject # disputes[t].ruling.subject
          /\ disputes'[t].filings = disputes[t].filings + 1 /\ disputes'[t].filings <= MaxFilings
<1>1. ASSUME Types, [Next]_vars, NEW t \in Tests PROVE Stand(t)
  <2>1. disputes[t] \in Dispute \cup {None}
    BY <1>1 DEF Types, DisputesOK, Records
  <2>2. CASE disputes' = Refreshed(disputes)
    BY <2>2 DEF Refreshed
  <2>3. ASSUME NEW filed \in SUBSET Tests, worker.subject \in Versions, Files(filed) PROVE Stand(t)
    <3> SUFFICES ASSUME disputes[t] # None, disputes[t].status = "rejected",
                        disputes'[t] # disputes[t]
                 PROVE  /\ disputes'[t].subject # disputes[t].ruling.subject
                        /\ disputes'[t].filings = disputes[t].filings + 1
                        /\ disputes'[t].filings <= MaxFilings
      OBVIOUS
    <3>1. /\ t \in filed /\ disputes'[t] = FiledDispute(disputes[t], worker.subject)
          /\ ~Refused(disputes, worker.verified, t, worker.subject, worker.failing)
      BY <2>3 DEF Files
    <3>2. /\ disputes'[t].subject = worker.subject
          /\ disputes'[t].filings = disputes[t].filings + 1
      BY <2>1, <2>3, <3>1, DisputeFiled
    <3>3. /\ disputes[t].ruling.subject # worker.subject
          /\ ~(disputes[t].filings >= MaxFilings)
      BY <3>1 DEF Refused
    <3>4. disputes[t].filings \in Nat
      BY <2>1 DEF Dispute
    <3> QED BY <3>2, <3>3, <3>4, Constants
  <2>4. CASE disputes' = Ruled(disputes, reviewer.rulings, attempts[reviewer.id], reviewer.id)
    BY <2>4 DEF Ruled
  <2> QED BY <1>1, <2>2, <2>3, <2>4, DisputesChange
<1>2. ASSUME Types, [Next]_vars PROVE [\A t \in Tests : Stand(t)]_vars
  BY <1>1, <1>2
<1> QED BY <1>2, TypeCorrect, PTL DEF Spec, RejectionsStand

-----------------------------------------------------------------------------
(* What testers pin *)

Launches == Versions \X SUBSET Suites

\* The value that stands for a launch that has not been is none.
NoneIsNoLaunch == None \notin Launches

\* The suites that fail on the sources of a launch.
Sound(at) == {s \in Suites : at[1] \in FailsOn[s]}

\* A record is about the launch; a file it names holds such a suite.
RecordsOf(at) ==
    {r \in [status : {"running", "declined", "failed", "rejected", "pinned"}, pid : Processes,
            suite : Suites \cup {None}, file : BOOLEAN, sources : {at}] :
        r.file = TRUE => r.suite \in Sound(at)}

\* A record that says pinned names a pinned suite.
Confirmed(at, pinned) == {r \in RecordsOf(at) : r.status = "pinned" => r.suite \in pinned}

Started(at) == [at : {"started"}, before : RecordsOf(at) \cup {None}]
Marked(at) == [at : {"marked", "capturing"}, sources : {at}]
Copied(at) == [at : {"copied"}, sources : {at}, copy : Versions]
Asked(at) == [at : {"asked", "repairing"}, sources : {at}, copy : {at[1]}]
Kept(at) == [at : {"kept"}, sources : {at}, suite : Sound(at)]
Briefs == [revision : Nat, pinned : SUBSET Suites]
Pinning(at) ==
    [at : {"written", "pinning"}, sources : {at}, suite : Sound(at), tries : Nat, again : {FALSE},
     revision : Briefs \cup {None}]
PinningAgain(at) ==
    {x \in [at : {"written", "pinning"}, before : RecordsOf(at), suite : Sound(at), tries : Nat,
            again : {TRUE}, revision : Briefs \cup {None}] : x.before.suite = x.suite}
Ending(at, pinned) ==
    [at : {"ending"}, before : RecordsOf(at), after : Confirmed(at, pinned)]

\* What a process may be doing after the launch.
States(at, pinned) ==
    [at : {"new", "gone"}] \cup Started(at) \cup Marked(at) \cup Copied(at) \cup Asked(at)
        \cup Kept(at) \cup Pinning(at) \cup PinningAgain(at) \cup Ending(at, pinned)

NotLaunched ==
    /\ launch = None /\ record = None /\ brief.pinned = {}
    /\ testers \in [Processes -> {[at |-> "new"]}]

Launched ==
    /\ launch \in Launches
    /\ record \in Confirmed(launch, brief.pinned) \cup {None}
    /\ brief.pinned \subseteq Sound(launch)
    /\ testers \in [Processes -> States(launch, brief.pinned)]

Worker == product \in Versions /\ files \in SUBSET Suites /\ brief \in Briefs

TesterInv == Worker /\ (NotLaunched \/ Launched)

\* What a process is doing tells what it knows.
LEMMA Knows ==
    ASSUME NEW at, NEW pinned, NEW x \in States(at, pinned)
    PROVE  /\ x.at = "started" => x \in Started(at)
           /\ x.at \in {"marked", "capturing"} => x \in Marked(at)
           /\ x.at = "copied" => x \in Copied(at)
           /\ x.at \in {"asked", "repairing"} => x \in Asked(at)
           /\ x.at = "kept" => x \in Kept(at)
           /\ x.at \in {"written", "pinning"} => x \in Pinning(at) \cup PinningAgain(at)
           /\ x.at = "ending" => x \in Ending(at, pinned)
  BY DEF States, Started, Marked, Copied, Asked, Kept, Pinning, PinningAgain, Ending

\* More pinned suites confirm no fewer records.
LEMMA MorePinned ==
    ASSUME NEW at, NEW pinned, NEW more, pinned \subseteq more
    PROVE  /\ Confirmed(at, pinned) \subseteq Confirmed(at, more)
           /\ States(at, pinned) \subseteq States(at, more)
<1>1. Confirmed(at, pinned) \subseteq Confirmed(at, more)
  BY DEF Confirmed
<1>2. Ending(at, pinned) \subseteq Ending(at, more)
  BY <1>1 DEF Ending
<1> QED BY <1>1, <1>2 DEF States

\* A step of one process, with the suites that are pinned afterwards.
LEMMA Steps ==
    ASSUME Launched, NEW p \in Processes, NEW step, Tester!Go(p, step), launch' = launch,
           brief.pinned \subseteq brief'.pinned, brief'.pinned \subseteq Sound(launch),
           step \in States(launch, brief'.pinned),
           record' \in Confirmed(launch, brief'.pinned) \cup {None} \cup {record}
    PROVE  Launched'
<1>1. /\ Confirmed(launch, brief.pinned) \subseteq Confirmed(launch, brief'.pinned)
      /\ States(launch, brief.pinned) \subseteq States(launch, brief'.pinned)
  BY MorePinned
<1>2. testers' \in [Processes -> States(launch, brief'.pinned)]
  BY <1>1 DEF Launched, Tester!Go
<1> QED BY <1>1, <1>2 DEF Launched

\* A record that pins nothing.
LEMMA RecordIs ==
    ASSUME NEW at, NEW pinned, NEW p \in Processes,
           NEW as \in {"running", "declined", "failed", "rejected"},
           NEW suite \in Suites \cup {None}, NEW file \in BOOLEAN,
           file = TRUE => suite \in Sound(at)
    PROVE  Tester!Record(p, as, suite, file, at) \in Confirmed(at, pinned)
  BY DEF Tester!Record, Confirmed, RecordsOf

\* A run that ends otherwise than by pinning.
LEMMA EndsSo ==
    ASSUME Launched, NEW p \in Processes, NEW as \in {"declined", "failed", "rejected"},
           NEW suite \in Suites \cup {None}, NEW file \in BOOLEAN,
           file = TRUE => suite \in Sound(launch),
           testers[p].sources = launch, Tester!Ends(p, as, suite, file),
           UNCHANGED <<launch, brief, record>>
    PROVE  Launched'
<1> DEFINE before == Tester!Record(p, "running", None, FALSE, launch)
           after == Tester!Record(p, as, suite, file, launch)
           step == [at |-> "ending", before |-> before, after |-> after]
<1>1. before \in RecordsOf(launch)
  BY RecordIs DEF Confirmed
<1>2. after \in Confirmed(launch, brief.pinned)
  BY RecordIs
<1>3. step \in States(launch, brief.pinned)
  <2> HIDE DEF before, after
  <2> QED BY <1>1, <1>2 DEF States, Ending
<1>4. Tester!Go(p, step)
  BY DEF Tester!Ends
<1> HIDE DEF step
<1> QED BY <1>3, <1>4, Steps DEF Launched

\* What p does, known.
LEMMA Does ==
    ASSUME Launched, NEW p \in Processes
    PROVE  testers[p] \in States(launch, brief.pinned)
  BY DEF Launched

LEMMA LaunchedStart ==
    ASSUME Worker, Launched, NoneIsNoLaunch, NEW p \in Processes, NEW retry \in BOOLEAN,
           Tester!Start(p, retry)
    PROVE  Launched'
<1>1. launch # None
  BY DEF Launched, NoneIsNoLaunch
<1>2. CASE retry /\ Tester!PendingPin
  <2> DEFINE step == [at |-> "written", suite |-> record.suite, before |-> record, tries |-> 0,
                      again |-> TRUE, revision |-> None]
  <2>1. record \in RecordsOf(launch) /\ record.suite \in Sound(launch)
    BY <1>2 DEF Tester!PendingPin, Launched, Confirmed, RecordsOf
  <2>2. step \in PinningAgain(launch)
    BY <2>1 DEF PinningAgain
  <2>3. Tester!Go(p, step) /\ UNCHANGED <<launch, record, brief>>
    BY <1>2 DEF Tester!Start
  <2> HIDE DEF step
  <2>4. step \in States(launch, brief.pinned)
    BY <2>2 DEF States
  <2> QED BY <2>3, <2>4, Steps DEF Launched
<1>3. CASE ~(retry /\ Tester!PendingPin)
  <2> DEFINE step == [at |-> "started", before |-> record]
  <2>1. step \in Started(launch)
    BY DEF Started, Launched, Confirmed
  <2>2. Tester!Go(p, step) /\ UNCHANGED <<launch, record, brief>>
    BY <1>1, <1>3 DEF Tester!Start
  <2> HIDE DEF step
  <2>3. step \in States(launch, brief.pinned)
    BY <2>1 DEF States
  <2> QED BY <2>2, <2>3, Steps DEF Launched
<1> QED BY <1>2, <1>3

\* The first start writes down the sources.
LEMMA FirstStart ==
    ASSUME Worker, NotLaunched, NoneIsNoLaunch, NEW p \in Processes, NEW retry \in BOOLEAN,
           Tester!Start(p, retry)
    PROVE  Launched'
<1>1. launch' = Tester!Sources /\ UNCHANGED <<record, brief>>
      /\ Tester!Go(p, [at |-> "started", before |-> None])
  BY DEF Tester!Start, Tester!PendingPin, NotLaunched
<1>2. launch' \in Launches
  BY <1>1 DEF Tester!Sources, Launches, Worker
<1>3. [at |-> "started", before |-> None] \in Started(launch') /\ [at |-> "new"] \in [at : {"new", "gone"}]
  BY DEF Started
<1>4. /\ [at |-> "started", before |-> None] \in States(launch', {})
      /\ [at |-> "new"] \in States(launch', {})
  BY <1>3 DEF States
<1>5. testers' \in [Processes -> States(launch', {})]
  BY <1>1, <1>4 DEF Tester!Go, NotLaunched
<1> QED BY <1>1, <1>2, <1>5 DEF NotLaunched, Launched

LEMMA LaunchedMark ==
    ASSUME Launched, NEW p \in Processes, Tester!Mark(p)
    PROVE  Launched'
<1> DEFINE before == testers[p].before
           sources == Tester!LaunchSources(before)
<1>1. before \in RecordsOf(launch) \cup {None}
  BY Does, Knows DEF Tester!Mark, Tester!At, Started
<1>2. sources = launch
  BY <1>1 DEF Tester!LaunchSources, RecordsOf
<1>3. UNCHANGED <<launch, brief>> /\ [at |-> "gone"] \in States(launch, brief.pinned)
      /\ [at |-> "marked", sources |-> launch] \in States(launch, brief.pinned)
  BY DEF Tester!Mark, States, Marked
<1>4. CASE record # before
  BY <1>3, <1>4, Steps DEF Tester!Mark, Tester!Gone, Launched
<1>5. CASE record = before
  <2>1. /\ Tester!Record(p, "declined", None, FALSE, launch) \in Confirmed(launch, brief.pinned)
        /\ Tester!Record(p, "running", None, FALSE, launch) \in Confirmed(launch, brief.pinned)
    BY RecordIs
  <2>2. \/ record' = Tester!Record(p, "declined", None, FALSE, launch)
           /\ Tester!Go(p, [at |-> "gone"])
        \/ record' = Tester!Record(p, "running", None, FALSE, launch)
           /\ Tester!Go(p, [at |-> "marked", sources |-> launch])
    BY <1>2, <1>5 DEF Tester!Mark, Tester!Gone
  <2> QED BY <1>3, <2>1, <2>2, Steps DEF Launched
<1> QED BY <1>4, <1>5

LEMMA LaunchedCapture ==
    ASSUME Launched, NEW p \in Processes, Tester!Capture(p)
    PROVE  Launched'
<1>1. testers[p] \in Marked(launch) /\ UNCHANGED <<launch, brief, record>>
  BY Does, Knows DEF Tester!Capture, Tester!At
<1>2. CASE Tester!Sources = testers[p].sources
  <2>1. [testers[p] EXCEPT !.at = "capturing"] \in Marked(launch)
    BY <1>1 DEF Marked
  <2>2. [testers[p] EXCEPT !.at = "capturing"] \in States(launch, brief.pinned)
    BY <2>1 DEF States
  <2> QED BY <1>1, <1>2, <2>2, Steps DEF Tester!Capture, Launched
<1>3. CASE Tester!Sources # testers[p].sources
  <2>1. Tester!Ends(p, "failed", None, FALSE) /\ testers[p].sources = launch
    BY <1>1, <1>3 DEF Tester!Capture, Marked
  <2> QED BY <1>1, <2>1, EndsSo
<1> QED BY <1>2, <1>3

LEMMA LaunchedCopy ==
    ASSUME Worker, Launched, NEW p \in Processes, Tester!Copy(p)
    PROVE  Launched'
<1> DEFINE step == [at |-> "copied", sources |-> testers[p].sources, copy |-> product]
<1>1. testers[p] \in Marked(launch) /\ UNCHANGED <<launch, brief, record>> /\ Tester!Go(p, step)
  BY Does, Knows DEF Tester!Copy, Tester!At
<1>2. step \in Copied(launch)
  BY <1>1 DEF Marked, Copied, Worker
<1> HIDE DEF step
<1>3. step \in States(launch, brief.pinned)
  BY <1>2 DEF States
<1> QED BY <1>1, <1>3, Steps DEF Launched

\* A copy that holds is of the sources of the launch.
LEMMA LaunchedVerify ==
    ASSUME Launched, NEW p \in Processes, Tester!Verify(p)
    PROVE  Launched'
<1>1. testers[p] \in Copied(launch) /\ UNCHANGED <<launch, brief, record>>
  BY Does, Knows DEF Tester!Verify, Tester!At
<1>2. CASE Tester!SnapshotHolds(p)
  <2>1. testers[p].copy = launch[1]
    BY <1>1, <1>2 DEF Tester!SnapshotHolds, Tester!Sources, Copied
  <2>2. [testers[p] EXCEPT !.at = "asked"] \in Asked(launch)
    BY <1>1, <2>1 DEF Copied, Asked
  <2>3. [testers[p] EXCEPT !.at = "asked"] \in States(launch, brief.pinned)
    BY <2>2 DEF States
  <2> QED BY <1>1, <1>2, <2>3, Steps DEF Tester!Verify, Launched
<1>3. CASE ~Tester!SnapshotHolds(p)
  <2>1. Tester!Ends(p, "failed", None, FALSE) /\ testers[p].sources = launch
    BY <1>1, <1>3 DEF Tester!Verify, Copied
  <2> QED BY <1>1, <2>1, EndsSo
<1> QED BY <1>2, <1>3

\* What is kept failed on that copy.
LEMMA LaunchedAnswer ==
    ASSUME Launched, NEW p \in Processes, NEW suite \in Suites, Tester!Answer(p, suite)
    PROVE  Launched'
<1>1. testers[p] \in Asked(launch) /\ UNCHANGED <<launch, brief, record>>
  BY Does, Knows DEF Tester!Answer, Tester!At
<1>2. CASE testers[p].copy \in FailsOn[suite]
  <2> DEFINE step == [at |-> "kept", sources |-> testers[p].sources, suite |-> suite]
  <2>1. step \in Kept(launch) /\ Tester!Go(p, step)
    BY <1>1, <1>2 DEF Tester!Answer, Asked, Kept, Sound
  <2> HIDE DEF step
  <2>2. step \in States(launch, brief.pinned)
    BY <2>1 DEF States
  <2> QED BY <1>1, <2>1, <2>2, Steps DEF Launched
<1>3. CASE testers[p].copy \notin FailsOn[suite] /\ Tester!At(p, "asked")
  <2>1. [testers[p] EXCEPT !.at = "repairing"] \in Asked(launch)
    BY <1>1 DEF Asked
  <2>2. [testers[p] EXCEPT !.at = "repairing"] \in States(launch, brief.pinned)
    BY <2>1 DEF States
  <2>3. Tester!Go(p, [testers[p] EXCEPT !.at = "repairing"])
    BY <1>3 DEF Tester!Answer
  <2> QED BY <1>1, <2>2, <2>3, Steps DEF Launched
<1>4. CASE testers[p].copy \notin FailsOn[suite] /\ ~Tester!At(p, "asked")
  <2>1. Tester!Ends(p, "rejected", None, FALSE) /\ testers[p].sources = launch
    BY <1>1, <1>4 DEF Tester!Answer, Asked
  <2> QED BY <1>1, <2>1, EndsSo
<1> QED BY <1>2, <1>3, <1>4

LEMMA LaunchedNoAnswer ==
    ASSUME Launched, NEW p \in Processes, NEW as \in {"declined", "failed"}, Tester!NoAnswer(p, as)
    PROVE  Launched'
<1>1. testers[p] \in Asked(launch) /\ UNCHANGED <<launch, brief, record>>
  BY Does, Knows DEF Tester!NoAnswer, Tester!At
<1>2. Tester!Ends(p, as, None, FALSE) /\ testers[p].sources = launch
  BY <1>1 DEF Tester!NoAnswer, Asked
<1> QED BY <1>1, <1>2, EndsSo

LEMMA LaunchedWriteFile ==
    ASSUME Launched, NEW p \in Processes, Tester!WriteFile(p)
    PROVE  Launched'
<1> DEFINE suite == testers[p].suite
<1>1. testers[p] \in Kept(launch) /\ UNCHANGED <<launch, brief, record>>
  BY Does, Knows DEF Tester!WriteFile, Tester!At
<1>2. CASE suite \in files
  <2>1. Tester!Ends(p, "failed", None, FALSE) /\ testers[p].sources = launch
    BY <1>1, <1>2 DEF Tester!WriteFile, Kept
  <2> QED BY <1>1, <2>1, EndsSo
<1>3. CASE suite \notin files
  <2> DEFINE step == [at |-> "written", sources |-> testers[p].sources, suite |-> suite,
                      tries |-> 0, again |-> FALSE, revision |-> None]
  <2>1. step \in Pinning(launch) /\ Tester!Go(p, step)
    BY <1>1, <1>3 DEF Tester!WriteFile, Kept, Pinning
  <2> HIDE DEF step
  <2>2. step \in States(launch, brief.pinned)
    BY <2>1 DEF States
  <2> QED BY <1>1, <2>1, <2>2, Steps DEF Launched
<1> QED BY <1>2, <1>3

\* A pin that fails.
LEMMA PinFailsSo ==
    ASSUME Launched, NEW p \in Processes, testers[p] \in Pinning(launch) \cup PinningAgain(launch),
           Tester!PinFails(p, TRUE), UNCHANGED <<launch, brief, record>>
    PROVE  Launched'
<1>1. CASE testers[p] \in Pinning(launch)
  <2>1. /\ Tester!Ends(p, "failed", testers[p].suite, TRUE)
        /\ testers[p].suite \in Sound(launch) /\ testers[p].sources = launch
    BY <1>1 DEF Tester!PinFails, Pinning
  <2>2. testers[p].suite \in Suites
    BY <2>1 DEF Sound
  <2> QED BY <2>1, <2>2, EndsSo
<1>2. CASE testers[p] \in PinningAgain(launch)
  <2>1. Tester!Go(p, [at |-> "gone"])
    BY <1>2 DEF Tester!PinFails, Tester!Gone, PinningAgain
  <2>2. [at |-> "gone"] \in States(launch, brief.pinned)
    BY DEF States
  <2> QED BY <2>1, <2>2, Steps DEF Launched
<1> QED BY <1>1, <1>2

LEMMA LaunchedReadBrief ==
    ASSUME Worker, Launched, NEW p \in Processes, Tester!ReadBrief(p)
    PROVE  Launched'
<1>1. testers[p] \in Pinning(launch) \cup PinningAgain(launch) /\ UNCHANGED <<launch, brief, record>>
  BY Does, Knows DEF Tester!ReadBrief, Tester!At
<1>2. CASE status = "accepted"
  BY <1>1, <1>2, PinFailsSo DEF Tester!ReadBrief
<1>3. CASE status # "accepted"
  <2> DEFINE step == [testers[p] EXCEPT !.at = "pinning", !.revision = brief]
  <2>1. step \in Pinning(launch) \cup PinningAgain(launch)
    <3>1. CASE testers[p] \in Pinning(launch)
      BY <3>1 DEF Pinning, Worker
    <3>2. CASE testers[p] \in PinningAgain(launch)
      BY <3>2 DEF PinningAgain, Worker
    <3> QED BY <1>1, <3>1, <3>2
  <2>2. Tester!Go(p, step)
    BY <1>3 DEF Tester!ReadBrief
  <2> HIDE DEF step
  <2>3. step \in States(launch, brief.pinned)
    BY <2>1 DEF States
  <2> QED BY <1>1, <2>2, <2>3, Steps DEF Launched
<1> QED BY <1>2, <1>3

\* A pin that met another revision tries again.
LEMMA TriesAgain ==
    ASSUME NEW at, NEW x \in Pinning(at) \cup PinningAgain(at), NEW n \in Nat
    PROVE  [x EXCEPT !.at = "written", !.tries = n, !.revision = None]
               \in Pinning(at) \cup PinningAgain(at)
<1>1. CASE x \in Pinning(at)
  <2>1. [x EXCEPT !.at = "written", !.tries = n, !.revision = None] \in Pinning(at)
    BY <1>1, Zenon DEF Pinning
  <2> QED BY <2>1
<1>2. CASE x \in PinningAgain(at)
  <2> DEFINE y == [x EXCEPT !.at = "written", !.tries = n, !.revision = None]
  <2>1. x \in [at : {"written", "pinning"}, before : RecordsOf(at), suite : Sound(at), tries : Nat,
               again : {TRUE}, revision : Briefs \cup {None}]
    BY <1>2 DEF PinningAgain
  <2>2. y \in [at : {"written", "pinning"}, before : RecordsOf(at), suite : Sound(at), tries : Nat,
               again : {TRUE}, revision : Briefs \cup {None}]
    BY <2>1, Zenon
  <2>3. y.before = x.before /\ y.suite = x.suite
    BY <2>1, Zenon
  <2>4. x.before.suite = x.suite
    BY <1>2 DEF PinningAgain
  <2>5. y \in PinningAgain(at)
    BY <2>2, <2>3, <2>4, Zenon DEF PinningAgain
  <2> QED BY <2>5
<1> QED BY <1>1, <1>2

\* A suite becomes pinned together with the record that will say so.
LEMMA LaunchedPin ==
    ASSUME Worker, Launched, NEW p \in Processes, Tester!Pin(p)
    PROVE  Launched'
<1> DEFINE suite == testers[p].suite
           more == brief.pinned \cup {suite}
<1>1. testers[p] \in Pinning(launch) \cup PinningAgain(launch) /\ UNCHANGED <<launch, record>>
  BY Does, Knows DEF Tester!Pin, Tester!At
<1>2. suite \in Sound(launch) /\ suite \in Suites
  BY <1>1 DEF Pinning, PinningAgain, Sound
<1>3. CASE brief = testers[p].revision
  <2>1. brief'.pinned = more
    BY <1>3 DEF Tester!Pin
  <2>2. brief.pinned \subseteq more /\ more \subseteq Sound(launch)
    BY <1>2 DEF Launched
  <2>3. CASE testers[p] \in PinningAgain(launch)
    <3> DEFINE before == testers[p].before
               after == [before EXCEPT !.status = "pinned"]
               step == [at |-> "ending", before |-> before, after |-> after]
    <3>1. before \in RecordsOf(launch) /\ before.suite = suite
      BY <2>3 DEF PinningAgain
    <3>2. after \in RecordsOf(launch) /\ after.suite = suite
      BY <3>1 DEF RecordsOf
    <3>3. after \in Confirmed(launch, more)
      BY <3>2 DEF Confirmed
    <3>4. Tester!Go(p, step)
      BY <1>3, <2>3 DEF Tester!Pin, PinningAgain
    <3>5. step \in Ending(launch, more)
      <4> HIDE DEF before, after
      <4> QED BY <3>1, <3>3 DEF Ending
    <3> HIDE DEF step
    <3>6. step \in States(launch, more)
      BY <3>5 DEF States
    <3> QED BY <1>1, <2>1, <2>2, <3>4, <3>6, Steps
  <2>4. CASE testers[p] \in Pinning(launch)
    <3> DEFINE before == Tester!Record(p, "running", None, FALSE, launch)
               after == Tester!Record(p, "pinned", suite, TRUE, launch)
               step == [at |-> "ending", before |-> before, after |-> after]
    <3>1. before \in RecordsOf(launch)
      BY RecordIs DEF Confirmed
    <3>2. after \in Confirmed(launch, more)
      BY <1>2 DEF Tester!Record, Confirmed, RecordsOf
    <3>3. Tester!Go(p, step)
      BY <1>3, <2>4 DEF Tester!Pin, Tester!Ends, Pinning
    <3>4. step \in Ending(launch, more)
      <4> HIDE DEF before, after
      <4> QED BY <3>1, <3>2 DEF Ending
    <3> HIDE DEF step
    <3>5. step \in States(launch, more)
      BY <3>4 DEF States
    <3> QED BY <1>1, <2>1, <2>2, <3>3, <3>5, Steps
  <2> QED BY <1>1, <2>3, <2>4
<1>4. CASE brief # testers[p].revision /\ testers[p].tries < MaxTries
  <2> DEFINE step == [testers[p] EXCEPT !.at = "written", !.tries = @ + 1, !.revision = None]
  <2>1. step \in Pinning(launch) \cup PinningAgain(launch)
    <3>1. testers[p].tries + 1 \in Nat
      <4>1. testers[p].tries \in Nat
        BY <1>1 DEF Pinning, PinningAgain
      <4> QED BY <4>1
    <3> QED BY <1>1, <3>1, TriesAgain, Zenon
  <2>2. Tester!Go(p, step) /\ UNCHANGED brief
    BY <1>4 DEF Tester!Pin
  <2> HIDE DEF step
  <2>3. step \in States(launch, brief.pinned)
    BY <2>1 DEF States
  <2> QED BY <1>1, <2>2, <2>3, Steps DEF Launched
<1>5. CASE brief # testers[p].revision /\ ~(testers[p].tries < MaxTries)
  <2>1. Tester!PinFails(p, TRUE) /\ UNCHANGED brief
    BY <1>5 DEF Tester!Pin
  <2> QED BY <1>1, <2>1, PinFailsSo
<1> QED BY <1>3, <1>4, <1>5

LEMMA LaunchedSaveRecord ==
    ASSUME Launched, NEW p \in Processes, Tester!SaveRecord(p)
    PROVE  Launched'
<1>1. testers[p].after \in Confirmed(launch, brief.pinned) /\ UNCHANGED <<launch, brief>>
      /\ Tester!Go(p, [at |-> "gone"])
  BY Does, Knows DEF Tester!SaveRecord, Tester!At, Tester!Gone, Ending
<1>2. record' \in {record, testers[p].after} /\ [at |-> "gone"] \in States(launch, brief.pinned)
  BY DEF Tester!SaveRecord, States
<1> QED BY <1>1, <1>2, Steps DEF Launched

LEMMA LaunchedDie ==
    ASSUME Launched, NEW p \in Processes, Tester!Die(p)
    PROVE  Launched'
<1>1. Tester!Go(p, [at |-> "gone"]) /\ UNCHANGED <<launch, brief, record>>
  BY DEF Tester!Die, Tester!Gone
<1>2. [at |-> "gone"] \in States(launch, brief.pinned)
  BY DEF States
<1> QED BY <1>1, <1>2, Steps DEF Launched

\* What testers and the worker do to the product, its files and the brief.
LEMMA WorkerStands ==
    ASSUME TesterInv, [Tester!Next]_(Tester!vars)
    PROVE  Worker'
<1> USE DEF Worker, Briefs, TesterInv
<1>1. ASSUME NEW version \in Versions, Tester!Edit(version) PROVE Worker'
  BY <1>1 DEF Tester!Edit
<1>2. ASSUME Tester!Revise PROVE Worker'
  BY <1>2 DEF Tester!Revise
<1>3. ASSUME NEW p \in Processes, Tester!Pin(p) PROVE Worker'
  <2>1. CASE NotLaunched
    BY <1>3, <2>1 DEF NotLaunched, Tester!Pin, Tester!At
  <2>2. CASE Launched
    <3>1. testers[p].suite \in Suites
      <4>1. testers[p] \in Pinning(launch) \cup PinningAgain(launch)
        BY <1>3, <2>2, Does, Knows DEF Tester!Pin, Tester!At
      <4> QED BY <4>1 DEF Pinning, PinningAgain, Sound
    <3>2. \/ brief' = brief
          \/ brief' = [revision |-> brief.revision, pinned |-> brief.pinned \cup {testers[p].suite}]
      BY <1>3, Zenon DEF Tester!Pin
    <3>3. UNCHANGED <<product, files>>
      BY <1>3 DEF Tester!Pin
    <3> QED BY <3>1, <3>2, <3>3
  <2> QED BY <2>1, <2>2
<1>4. ASSUME NEW p \in Processes, Tester!WriteFile(p) PROVE Worker'
  <2>1. CASE NotLaunched
    BY <1>4, <2>1 DEF NotLaunched, Tester!WriteFile, Tester!At
  <2>2. CASE Launched
    <3>1. testers[p].suite \in Suites
      <4>1. testers[p] \in Kept(launch)
        BY <1>4, <2>2, Does, Knows DEF Tester!WriteFile, Tester!At
      <4> QED BY <4>1 DEF Kept, Sound
    <3> QED BY <1>4, <3>1 DEF Tester!WriteFile
  <2> QED BY <2>1, <2>2
<1>5. ASSUME NEW p \in Processes, Tester!ReadBrief(p) PROVE Worker'
  BY <1>5 DEF Tester!ReadBrief
<1>6. ASSUME NEW p \in Processes, Tester!Tester(p), ~Tester!Pin(p), ~Tester!WriteFile(p),
             ~Tester!ReadBrief(p)
      PROVE  Worker'
  BY <1>6 DEF Tester!Tester, Tester!Start, Tester!Mark, Tester!Capture, Tester!Copy, Tester!Verify,
              Tester!Answer, Tester!NoAnswer, Tester!SaveRecord, Tester!Die
<1>7. ASSUME Tester!Accept \/ Tester!GrowOld \/ UNCHANGED Tester!vars PROVE Worker'
  BY <1>7 DEF Tester!Accept, Tester!GrowOld, Tester!vars
<1> QED BY <1>1, <1>2, <1>3, <1>4, <1>5, <1>6, <1>7 DEF Tester!Next

\* The worker's own steps touch neither the launch nor what depends on it.
LEMMA LaunchUntouched ==
    ASSUME NotLaunched \/ Launched, UNCHANGED <<launch, record, testers>>, brief'.pinned = brief.pinned
    PROVE  NotLaunched' \/ Launched'
  BY DEF NotLaunched, Launched

LEMMA LaunchStands ==
    ASSUME TesterInv, NoneIsNoLaunch, [Tester!Next]_(Tester!vars)
    PROVE  NotLaunched' \/ Launched'
<1>1. ASSUME NEW p \in Processes, NEW retry \in BOOLEAN, Tester!Start(p, retry) PROVE Launched'
  BY <1>1, FirstStart, LaunchedStart DEF TesterInv
<1>2. ASSUME NEW p \in Processes, Tester!Tester(p), NotLaunched
      PROVE  \E retry \in BOOLEAN : Tester!Start(p, retry)
  <2>1. testers[p] = [at |-> "new"]
    BY <1>2 DEF NotLaunched
  <2> QED
    BY <1>2, <2>1 DEF Tester!Tester, Tester!Mark, Tester!Capture, Tester!Copy, Tester!Verify,
                      Tester!Answer, Tester!NoAnswer, Tester!WriteFile, Tester!ReadBrief, Tester!Pin,
                      Tester!SaveRecord, Tester!Die, Tester!At
<1>3. ASSUME NEW p \in Processes, Tester!Tester(p), Launched PROVE Launched'
  BY <1>1, <1>3, LaunchedMark, LaunchedCapture, LaunchedCopy, LaunchedVerify, LaunchedAnswer,
     LaunchedNoAnswer, LaunchedWriteFile, LaunchedReadBrief, LaunchedPin, LaunchedSaveRecord,
     LaunchedDie DEF Tester!Tester, TesterInv
<1>4. ASSUME \/ \E version \in Versions : Tester!Edit(version)
             \/ Tester!Revise \/ Tester!Accept \/ Tester!GrowOld \/ UNCHANGED Tester!vars
      PROVE  NotLaunched' \/ Launched'
  <2>1. UNCHANGED <<launch, record, testers>> /\ brief'.pinned = brief.pinned
    BY <1>4 DEF Tester!Edit, Tester!Revise, Tester!Accept, Tester!GrowOld, Tester!vars, TesterInv,
                Worker, Briefs
  <2> QED BY <2>1, LaunchUntouched DEF TesterInv
<1> QED BY <1>1, <1>2, <1>3, <1>4 DEF Tester!Next, TesterInv

LEMMA TesterInvariance == ASSUME NoneIsNoLaunch PROVE Tester!Spec => []TesterInv
<1>1. Tester!Init => TesterInv
  <2> SUFFICES ASSUME Tester!Init PROVE TesterInv
    OBVIOUS
  <2>1. Worker
    BY Constants DEF Tester!Init, Worker, Briefs
  <2>2. NotLaunched
    BY DEF Tester!Init, NotLaunched
  <2> QED BY <2>1, <2>2 DEF TesterInv
<1>2. TesterInv /\ [Tester!Next]_(Tester!vars) => TesterInv'
  BY WorkerStands, LaunchStands DEF TesterInv
<1> QED BY <1>1, <1>2, PTL DEF Tester!Spec

LEMMA RecordsAre == ProductSpec => Tester!Spec
<1>1. ProductInit => Tester!Init
  BY DEF ProductInit
<1>2. [InDisputes \/ InTester \/ InScopes \/ InRepairs \/ InPage]_
         <<part, vars, testerVars, findingVars, pageVars>>
      => [Tester!Next]_(Tester!vars)
  BY DEF InDisputes, InTester, InScopes, InRepairs, InPage, testerVars, Tester!vars
<1> QED BY <1>1, <1>2, PTL DEF ProductSpec, Tester!Spec

\* A pinned suite failed on the sources the tester was first launched on, however often processes
\* start it again, die or take each other for dead, and whatever the worker edits meanwhile; a
\* record that says pinned names a pinned suite (independent-tests-run.ts, tester-snapshot.ts).
THEOREM PinnedOnFailure ==
    ASSUME NoneIsNoLaunch
    PROVE  ProductSpec => []PinnedFailedAtLaunch
<1>1. TesterInv => PinnedFailedAtLaunch
  BY DEF TesterInv, NotLaunched, Launched, Sound, Confirmed, PinnedFailedAtLaunch,
         Tester!PinnedFailedAtLaunch
<1> QED BY <1>1, RecordsAre, TesterInvariance, PTL

\* The sources of the first launch are written down once: no restart moves the baseline to what the
\* worker has made of the product since (independent-tests-run.ts).
THEOREM BaselineIsFirst ==
    ASSUME NoneIsNoLaunch
    PROVE  ProductSpec => [][launch # None => launch' = launch]_(Tester!vars)
<1>1. ASSUME TesterInv, [Tester!Next]_(Tester!vars)
      PROVE  [launch # None => launch' = launch]_(Tester!vars)
  BY <1>1 DEF Tester!Next, Tester!Tester, Tester!Edit, Tester!Revise, Tester!Accept, Tester!GrowOld,
              Tester!Start, Tester!Mark, Tester!Capture, Tester!Copy, Tester!Verify, Tester!Answer,
              Tester!NoAnswer, Tester!WriteFile, Tester!ReadBrief, Tester!Pin, Tester!SaveRecord,
              Tester!Die
<1> QED BY <1>1, RecordsAre, TesterInvariance, PTL DEF Tester!Spec

-----------------------------------------------------------------------------
(* The dashboard's page *)

\* The page shows the overview.
PageConstants == "overview" \in Resources

Request == [kept : Nat, answer : Nat \cup {None}, overtaken : BOOLEAN]

PageTypes ==
    /\ recorded \in Nat /\ unsaved \in Nat /\ failures \in Nat
    /\ requests \in [Resources -> Seq(Request)] /\ shown \in [Resources -> Nat]

\* No change is on its way to the page.
Settled == ~noticed /\ ~pending /\ ~event /\ stream = "open"

\* The request made last was answered.
LastAnswered(asked) == asked = <<>> \/ asked[Len(asked)].overtaken

\* Then the answer was what is recorded, which is shown until an overtaken request is answered;
\* otherwise the answer to come is.
AskedLast(asked, seen, had, late, now) ==
    IF LastAnswered(asked) THEN now \in had /\ (seen = now \/ late) ELSE asked[Len(asked)].answer \in {None, now}

\* All requests for the overview were overtaken when the last was.
AllOvertaken(asked) ==
    asked # <<>> /\ asked[Len(asked)].overtaken => \A j \in DOMAIN asked : asked[j].overtaken

PageKeepsUp ==
    /\ PageTypes
    /\ stream # "open" => polling
    /\ failures = 0 => AllOvertaken(requests["overview"])
    /\ Settled /\ failures = 0 => AskedLast(requests["overview"], shown["overview"], given, outdated, recorded)

LEMMA RemovedOne ==
    ASSUME NEW S, NEW s \in Seq(S), NEW i \in 1..Len(s)
    PROVE  /\ Page!RemoveAt(s, i) \in Seq(S) /\ Len(Page!RemoveAt(s, i)) = Len(s) - 1
           /\ \A j \in 1..(Len(s) - 1) : Page!RemoveAt(s, i)[j] = IF j < i THEN s[j] ELSE s[j + 1]
<1> DEFINE front == SubSeq(s, 1, i - 1)
           back == SubSeq(s, i + 1, Len(s))
<1>1. Len(s) \in Nat /\ DOMAIN s = 1..Len(s)
  BY LenProperties
<1>2. Page!RemoveAt(s, i) = front \o back
  BY DEF Page!RemoveAt
<1>3. front \in Seq(S) /\ Len(front) = i - 1 /\ \A j \in 1..(i - 1) : front[j] = s[j]
  <2>1. 1 \in Int /\ i - 1 \in Int /\ \A j \in 1..(i - 1) : j \in 1..Len(s)
    BY <1>1
  <2>2. front \in Seq(S) /\ Len(front) = i - 1
    BY <1>1, <2>1, SubSeqProperties
  <2>3. \A j \in 1..((i - 1) - 1 + 1) : front[j] = s[1 + j - 1]
    <3>1. \A j \in 1..(i - 1) : s[j] \in S
      BY <1>1, <2>1, ElementOfSeq
    <3> QED BY <2>1, <3>1, SubSeqProperties
  <2>4. (i - 1) - 1 + 1 = i - 1 /\ \A j \in 1..(i - 1) : 1 + j - 1 = j
    BY <2>1
  <2> HIDE DEF front
  <2> QED BY <2>2, <2>3, <2>4
<1>4. back \in Seq(S) /\ Len(back) = Len(s) - i /\ \A j \in 1..(Len(s) - i) : back[j] = s[i + j]
  <2>1. i + 1 \in 1..(Len(s) + 1) /\ Len(s) \in i..Len(s) /\ (i + 1) - 1 = i
    BY <1>1
  <2>2. \A j \in (i + 1)..Len(s) : s[j] \in S
    BY <1>1, ElementOfSeq
  <2>3. back \in Seq(S) /\ Len(back) = Len(s) - i
    <3>1. i + 1 \in Int /\ Len(s) \in Int
      BY <1>1
    <3>2. back \in Seq(S) /\ Len(back) = IF i + 1 <= Len(s) THEN Len(s) - (i + 1) + 1 ELSE 0
      BY <2>2, <3>1, SubSeqProperties
    <3>3. (IF i + 1 <= Len(s) THEN Len(s) - (i + 1) + 1 ELSE 0) = Len(s) - i
      <4>1. ASSUME NEW n \in Nat, i \in 1..n
            PROVE  (i + 1 <= n => n - (i + 1) + 1 = n - i) /\ (~(i + 1 <= n) => n - i = 0)
        BY <4>1
      <4>2. i \in 1..Len(s)
        OBVIOUS
      <4> QED BY <1>1, <4>1, <4>2
    <3> HIDE DEF back
    <3> QED BY <3>2, <3>3
  <2>4. \A j \in 1..(Len(s) - i) : back[j] = s[i + j]
    <3>1. Len(s) - (i + 1) + 1 = Len(s) - i
      BY <1>1
    <3>2. \A j \in 1..(Len(s) - (i + 1) + 1) : back[j] = s[(i + 1) + j - 1]
      BY <1>1, <2>1, <2>2, SubSeqProperties
    <3>3. \A j \in 1..(Len(s) - i) : (i + 1) + j - 1 = i + j
      BY <1>1
    <3> HIDE DEF back
    <3> QED BY <3>1, <3>2, <3>3
  <2> QED BY <2>3, <2>4
<1> HIDE DEF front, back
<1>5. /\ front \o back \in Seq(S) /\ Len(front \o back) = (i - 1) + (Len(s) - i)
      /\ \A j \in 1..((i - 1) + (Len(s) - i)) :
            (front \o back)[j] = IF j <= i - 1 THEN front[j] ELSE back[j - (i - 1)]
  <2>1. /\ front \o back \in Seq(S) /\ Len(front \o back) = Len(front) + Len(back)
        /\ \A j \in 1..(Len(front) + Len(back)) :
              (front \o back)[j] = IF j <= Len(front) THEN front[j] ELSE back[j - Len(front)]
    BY <1>3, <1>4, ConcatProperties
  <2>2. Len(front) = i - 1 /\ Len(back) = Len(s) - i
    BY <1>3, <1>4
  <2> QED BY <2>1, <2>2
<1>6. (i - 1) + (Len(s) - i) = Len(s) - 1
  BY <1>1
<1>7. ASSUME NEW j \in 1..(Len(s) - 1) PROVE (front \o back)[j] = IF j < i THEN s[j] ELSE s[j + 1]
  <2>1. j \in 1..((i - 1) + (Len(s) - i))
    BY <1>1, <1>7
  <2>2. CASE j < i
    <3>1. j <= i - 1 /\ j \in 1..(i - 1)
      BY <2>2
    <3> QED BY <1>3, <1>5, <2>1, <2>2, <3>1
  <2>3. CASE ~(j < i)
    <3>1. ~(j <= i - 1) /\ j - (i - 1) \in 1..(Len(s) - i) /\ i + (j - (i - 1)) = j + 1
      BY <1>1, <2>3
    <3>2. back[j - (i - 1)] = s[j + 1]
      BY <1>4, <3>1
    <3> QED BY <1>5, <2>1, <2>3, <3>1, <3>2
  <2> QED BY <2>2, <2>3
<1> QED BY <1>2, <1>5, <1>6, <1>7

\* What is asked for is asked last.
LEMMA Asks ==
    ASSUME PageTypes, NEW rs, Page!Load(rs)
    PROVE  /\ requests' \in [Resources -> Seq(Request)]
           /\ \A r \in Resources : \A now :
                 IF r \in rs THEN AllOvertaken(requests'[r]) /\ \A had, late : AskedLast(requests'[r], shown[r], had, late, now)
                 ELSE requests'[r] = requests[r]
<1> DEFINE new(r) == [kept |-> shown[r], answer |-> None, overtaken |-> FALSE]
<1>1. requests' = [r \in Resources |-> IF r \in rs THEN Append(requests[r], new(r)) ELSE requests[r]]
  <2>1. DOMAIN requests = Resources
    BY DEF PageTypes
  <2> QED BY <2>1 DEF Page!Load
<1>2. ASSUME NEW r \in Resources
      PROVE  /\ Append(requests[r], new(r)) \in Seq(Request)
             /\ Append(requests[r], new(r)) # <<>>
             /\ Append(requests[r], new(r))[Len(Append(requests[r], new(r)))] = new(r)
  <2>1. requests[r] \in Seq(Request) /\ new(r) \in Request
    BY DEF PageTypes, Request
  <2>2. Len(requests[r]) \in Nat
    BY <2>1, LenProperties
  <2> HIDE DEF new
  <2>3. /\ Append(requests[r], new(r)) \in Seq(Request)
        /\ Len(Append(requests[r], new(r))) = Len(requests[r]) + 1
        /\ Append(requests[r], new(r))[Len(requests[r]) + 1] = new(r)
    BY <2>1, AppendProperties
  <2>4. Append(requests[r], new(r)) # <<>>
    BY <2>2, <2>3
  <2> QED BY <2>3, <2>4
<1>3. ASSUME NEW r \in Resources, r \in rs, NEW now, NEW had, NEW late
      PROVE  AllOvertaken(requests'[r]) /\ AskedLast(requests'[r], shown[r], had, late, now)
  <2>1. requests'[r] = Append(requests[r], new(r)) /\ new(r).answer = None /\ new(r).overtaken = FALSE
    BY <1>1, <1>3
  <2> HIDE DEF new
  <2> QED BY <1>2, <2>1 DEF AskedLast, LastAnswered, AllOvertaken
<1>4. requests' \in [Resources -> Seq(Request)]
  <2> HIDE DEF new
  <2> QED BY <1>1, <1>2 DEF PageTypes
<1>5. \A r \in Resources : r \notin rs => requests'[r] = requests[r]
  <2> HIDE DEF new
  <2> QED BY <1>1
<1> QED BY <1>3, <1>4, <1>5

\* A request that overtakes others leaves them otherwise as they are.
LEMMA OvertakenIs ==
    ASSUME NEW s \in Seq(Request), NEW i \in 1..Len(s)
    PROVE  /\ Page!Overtaken(s, i) \in Seq(Request) /\ Len(Page!Overtaken(s, i)) = Len(s)
           /\ \A j \in 1..Len(s) : /\ Page!Overtaken(s, i)[j].answer = s[j].answer
                                   /\ Page!Overtaken(s, i)[j].overtaken = (j < i \/ s[j].overtaken)
<1>1. Len(s) \in Nat /\ DOMAIN s = 1..Len(s) /\ \A j \in 1..Len(s) : s[j] \in Request
  BY LenProperties, ElementOfSeq
<1>2. ASSUME NEW j \in 1..Len(s)
      PROVE  /\ [s[j] EXCEPT !.overtaken = TRUE] \in Request /\ [s[j] EXCEPT !.overtaken = TRUE].overtaken = TRUE
             /\ [s[j] EXCEPT !.overtaken = TRUE].answer = s[j].answer
  BY <1>1 DEF Request
<1> DEFINE new(j) == IF j < i THEN [s[j] EXCEPT !.overtaken = TRUE] ELSE s[j]
<1>3. Page!Overtaken(s, i) = [j \in 1..Len(s) |-> new(j)]
  BY <1>1 DEF Page!Overtaken
<1>4. \A j \in 1..Len(s) : new(j) \in Request /\ new(j).answer = s[j].answer /\ new(j).overtaken = (j < i \/ s[j].overtaken)
  <2> TAKE j \in 1..Len(s)
  <2>1. s[j].overtaken \in BOOLEAN
    BY <1>1 DEF Request
  <2>2. CASE j < i
    BY <1>2, <2>2
  <2>3. CASE ~(j < i)
    BY <1>1, <2>1, <2>3
  <2> QED BY <2>2, <2>3
<1> HIDE DEF new
<1>5. [j \in 1..Len(s) |-> new(j)] \in [1..Len(s) -> Request]
  BY <1>4
<1>6. [j \in 1..Len(s) |-> new(j)] \in Seq(Request) /\ Len([j \in 1..Len(s) |-> new(j)]) = Len(s)
  BY <1>1, <1>5
<1> QED BY <1>3, <1>4, <1>6

\* When one of the requests for the overview is answered, the others keep up.
LEMMA OneAnswered ==
    ASSUME NEW q \in Seq(Request), NEW i \in 1..Len(q), q[i].answer # None, AllOvertaken(q)
    PROVE  LET left == Page!RemoveAt(Page!Overtaken(q, i), i)
               answer == q[i].answer
           IN  /\ left \in Seq(Request) /\ AllOvertaken(left)
               /\ \A seen, had, late, now : AskedLast(q, seen, had, late, now)
                     => AskedLast(left, answer, had \cup {answer}, q[i].overtaken, now)
<1> DEFINE n == Len(q)
           marked == Page!Overtaken(q, i)
           left == Page!RemoveAt(marked, i)
<1>1. n \in Nat /\ DOMAIN q = 1..n /\ q # <<>> /\ i \in 1..n /\ n = Len(q)
  BY LenProperties
<1> HIDE DEF n
<1>2. /\ marked \in Seq(Request) /\ Len(marked) = n
      /\ \A j \in 1..n : marked[j].answer = q[j].answer /\ marked[j].overtaken = (j < i \/ q[j].overtaken)
  BY <1>1, OvertakenIs
<1> HIDE DEF marked
<1>3. /\ left \in Seq(Request) /\ Len(left) = n - 1
      /\ \A j \in 1..(n - 1) : left[j] = IF j < i THEN marked[j] ELSE marked[j + 1]
  <2>1. i \in 1..Len(marked)
    BY <1>1, <1>2
  <2> QED BY <1>2, <2>1, RemovedOne
<1> HIDE DEF left
<1>4. DOMAIN left = 1..(n - 1)
  BY <1>3, LenProperties
<1>5. \A j \in 1..n : q[j].overtaken \in BOOLEAN
  <2>1. \A j \in 1..n : q[j] \in Request
    BY <1>1, ElementOfSeq
  <2> QED BY <2>1 DEF Request
\* The last request was answered: the others had all been overtaken.
<1>6. ASSUME q[n].overtaken \/ i = n PROVE \A j \in 1..(n - 1) : left[j].overtaken
  <2> TAKE j \in 1..(n - 1)
  <2>1. j \in 1..n /\ j + 1 \in 1..n /\ (~(j < i) => i # n)
    <3>1. ASSUME NEW m \in Nat, NEW k \in 1..m, NEW l \in 1..(m - 1)
          PROVE  l \in 1..m /\ l + 1 \in 1..m /\ (~(l < k) => k # m)
      OBVIOUS
    <3> QED BY <1>1, <3>1
  <2>2. q[n].overtaken => q[j].overtaken /\ q[j + 1].overtaken
    BY <1>1, <2>1 DEF AllOvertaken
  <2>3. CASE j < i
    BY <1>2, <1>3, <2>1, <2>3
  <2>4. CASE ~(j < i)
    BY <1>2, <1>3, <1>6, <2>1, <2>2, <2>4
  <2> QED BY <2>3, <2>4
\* It is still under way.
<1>7. ASSUME ~q[n].overtaken, i # n
      PROVE  left # <<>> /\ left[Len(left)].answer = q[n].answer /\ left[Len(left)].overtaken = FALSE
  <2>1. n - 1 \in 1..(n - 1) /\ ~(n - 1 < i) /\ (n - 1) + 1 = n /\ n \in 1..n /\ ~(n < i)
    <3>1. ASSUME NEW m \in Nat, NEW k \in 1..m, k # m
          PROVE  m - 1 \in 1..(m - 1) /\ ~(m - 1 < k) /\ (m - 1) + 1 = m /\ m \in 1..m /\ ~(m < k)
      BY <3>1
    <3> QED BY <1>1, <1>7, <3>1
  <2>2. left[n - 1] = marked[n]
    BY <1>3, <2>1
  <2>3. marked[n].answer = q[n].answer /\ marked[n].overtaken = FALSE
    BY <1>2, <1>5, <1>7, <2>1
  <2>4. left # <<>>
    BY <1>3, <2>1
  <2> QED BY <1>3, <2>2, <2>3, <2>4
<1>8. CASE q[n].overtaken \/ i = n
  <2>1. AllOvertaken(left)
    BY <1>4, <1>6, <1>8 DEF AllOvertaken
  <2>2. LastAnswered(left)
    <3>1. CASE n = 1
      BY <1>3, <3>1, EmptySeq DEF LastAnswered
    <3>2. CASE n # 1
      <4>1. n - 1 \in 1..(n - 1)
        BY <1>1, <3>2
      <4> QED BY <1>3, <1>6, <1>8, <4>1 DEF LastAnswered
    <3> QED BY <3>1, <3>2
  <2>3. ASSUME NEW seen, NEW had, NEW late, NEW now, AskedLast(q, seen, had, late, now)
        PROVE  AskedLast(left, q[i].answer, had \cup {q[i].answer}, q[i].overtaken, now)
    <3>1. CASE q[n].overtaken
      <4>1. q[i].overtaken /\ now \in had
        BY <1>1, <2>3, <3>1 DEF AllOvertaken, AskedLast, LastAnswered
      <4> QED BY <2>2, <4>1 DEF AskedLast
    <3>2. CASE ~q[n].overtaken
      <4>1. i = n /\ q[n].answer \in {None, now}
        BY <1>1, <1>8, <2>3, <3>2 DEF AskedLast, LastAnswered
      <4> QED BY <2>2, <4>1 DEF AskedLast
    <3> QED BY <3>1, <3>2
  <2> QED BY <1>3, <2>1, <2>3 DEF left, marked
<1>9. CASE ~q[n].overtaken /\ i # n
  <2>1. AllOvertaken(left)
    BY <1>7, <1>9 DEF AllOvertaken
  <2>2. ASSUME NEW seen, NEW had, NEW late, NEW now, AskedLast(q, seen, had, late, now)
        PROVE  AskedLast(left, q[i].answer, had \cup {q[i].answer}, q[i].overtaken, now)
    BY <1>1, <1>7, <1>9, <2>2 DEF AskedLast, LastAnswered
  <2> QED BY <1>3, <2>1, <2>2 DEF left, marked
<1> QED BY <1>8, <1>9

LEMMA PageSteps ==
    ASSUME PageConstants, PageKeepsUp, [Page!Next]_(Page!vars)
    PROVE  PageKeepsUp'
<1> DEFINE o == "overview"
<1> USE DEF Page!server, Page!page, Page!history
<1>0. PageTypes /\ o \in Resources
  BY DEF PageKeepsUp, PageConstants
\* Requests that are not of the overview change nothing.
<1>a. ASSUME requests' \in [Resources -> Seq(Request)], requests'[o] = requests[o],
             UNCHANGED <<recorded, shown, given, outdated, failures, unsaved>>,
             stream' = stream, polling' = polling, Settled' => Settled
      PROVE  PageKeepsUp'
  BY <1>0, <1>a DEF PageKeepsUp, PageTypes
<1>b. ASSUME requests' \in [Resources -> Seq(Request)], UNCHANGED <<shown, failures, unsaved>>,
             recorded' \in Nat, stream' # "open" => polling', ~Settled' \/ failures # 0,
             failures = 0 => requests'[o] = requests[o]
      PROVE  PageKeepsUp'
  BY <1>0, <1>b DEF PageKeepsUp, PageTypes
<1>c. ASSUME Page!rereadFeature
      PROVE  requests' \in [Resources -> Seq(Request)] /\ requests'[o] = requests[o]
  <2>1. CASE UNCHANGED requests
    BY <1>0, <2>1 DEF PageTypes
  <2>2. CASE Page!Load({"feature"})
    <3>1. o \notin {"feature"}
      OBVIOUS
    <3> HIDE DEF o
    <3> QED BY <1>0, <2>2, <3>1, Asks
  <2> QED BY <1>c, <2>1, <2>2 DEF Page!rereadFeature
<1>d. ASSUME Page!Load(Resources), UNCHANGED <<recorded, shown, given, outdated, failures, unsaved>>,
             stream' # "open" => polling'
      PROVE  PageKeepsUp'
  <2>1. requests' \in [Resources -> Seq(Request)] /\ AllOvertaken(requests'[o])
        /\ AskedLast(requests'[o], shown[o], given, outdated, recorded)
    BY <1>0, <1>d, Asks
  <2> QED BY <1>0, <1>d, <2>1 DEF PageKeepsUp, PageTypes
<1>1. CASE Page!Record
  BY <1>1, <1>0, <1>b DEF Page!Record, Settled, PageKeepsUp, PageTypes
<1>2. CASE Page!EditProduct
  <2>1. unsaved' \in Nat /\ UNCHANGED <<recorded, requests, shown, given, outdated, failures, stream, polling, noticed, pending, event>>
    BY <1>2, <1>0 DEF Page!EditProduct, PageTypes
  <2> QED BY <1>0, <2>1 DEF PageKeepsUp, PageTypes, Settled
<1>3. CASE Page!Notice
  BY <1>3, <1>0, <1>b DEF Page!Notice, Settled, PageKeepsUp, PageTypes
<1>4. CASE Page!Flush
  <2>1. Settled' => FALSE
    BY <1>4 DEF Page!Flush, Settled
  <2> QED BY <1>4, <1>0, <1>b, <2>1 DEF Page!Flush, PageKeepsUp, PageTypes
<1>5. CASE Page!Hello
  BY <1>5, <1>d DEF Page!Hello
<1>6. CASE Page!OnChange
  BY <1>6, <1>d DEF Page!OnChange
<1>7. CASE Page!Settle
  BY <1>7, <1>a, <1>c DEF Page!Settle, Settled
<1>8. CASE Page!Reread \/ Page!Poll
  BY <1>8, <1>a, <1>c DEF Page!Reread, Page!Poll, Settled
<1>9. CASE Page!Error
  BY <1>9, <1>0, <1>b DEF Page!Error, Settled, PageTypes
<1>10. CASE Page!Connect
  BY <1>10, <1>0, <1>b DEF Page!Connect, Settled, PageTypes
<1>11. CASE Page!Hide
  BY <1>11, <1>0, <1>a DEF Page!Hide, Settled, PageTypes
<1>12. CASE Page!Show
  BY <1>12, <1>d DEF Page!Show, PageKeepsUp
<1>13. ASSUME NEW r \in Resources, NEW i \in 1..InFlight, Page!Read(r, i) PROVE PageKeepsUp'
  <2> DEFINE q == requests[r]
             new == [q EXCEPT ![i].answer = Page!Content(r)]
  <2>1. /\ q \in Seq(Request) /\ i \in DOMAIN q /\ Page!Content(r) \in Nat
        /\ (r = o => Page!Content(r) = recorded)
    BY <1>0, <1>13 DEF Page!Read, Page!UnderWay, Page!Content, PageTypes
  <2>2. Len(q) \in Nat /\ DOMAIN q = 1..Len(q)
    BY <2>1, LenProperties
  <2>3. requests' = [requests EXCEPT ![r] = new]
    BY <1>13 DEF Page!Read
  <2>4. /\ new \in Seq(Request) /\ Len(new) = Len(q)
        /\ \A j \in 1..Len(q) : /\ new[j].answer = IF j = i THEN Page!Content(r) ELSE q[j].answer
                                /\ new[j].overtaken = q[j].overtaken
    <3> DEFINE c == Page!Content(r)
    <3>1. \A j \in 1..Len(q) : q[j] \in Request
      BY <2>1, ElementOfSeq
    <3>2. /\ new = [j \in 1..Len(q) |-> IF j = i THEN [q[i] EXCEPT !.answer = c] ELSE q[j]]
      BY <2>1, <2>2
    <3>3. /\ [q[i] EXCEPT !.answer = c] \in Request /\ [q[i] EXCEPT !.answer = c].answer = c
          /\ [q[i] EXCEPT !.answer = c].overtaken = q[i].overtaken
      BY <2>1, <2>2, <3>1 DEF Request
    <3> HIDE DEF new, c, q
    <3>4. \A j \in 1..Len(q) : new[j] = IF j = i THEN [q[i] EXCEPT !.answer = c] ELSE q[j]
      BY <3>2
    <3>5. new \in [1..Len(q) -> Request]
      BY <3>1, <3>2, <3>3
    <3>6. new \in Seq(Request) /\ Len(new) = Len(q)
      BY <2>2, <3>5
    <3>7. \A j \in 1..Len(q) : new[j].answer = (IF j = i THEN c ELSE q[j].answer) /\ new[j].overtaken = q[j].overtaken
      BY <3>3, <3>4
    <3> QED BY <3>6, <3>7 DEF c
  <2> HIDE DEF new
  <2>5. requests' \in [Resources -> Seq(Request)]
    BY <1>0, <2>3, <2>4 DEF PageTypes
  <2>6. /\ AllOvertaken(requests[o]) => AllOvertaken(requests'[o])
        /\ AskedLast(requests[o], shown[o], given, outdated, recorded)
              => AskedLast(requests'[o], shown[o], given, outdated, recorded)
    <3>1. CASE r # o
      BY <1>0, <2>3, <3>1 DEF PageTypes
    <3>2. CASE r = o
      <4>1. requests'[o] = new /\ q = requests[o]
        BY <1>0, <2>3, <3>2 DEF PageTypes
      <4> HIDE DEF q
      <4>2. Len(q) \in 1..Len(q) /\ q # <<>> /\ new # <<>> /\ DOMAIN new = 1..Len(q)
        BY <2>1, <2>2, <2>4, LenProperties
      <4>3. new[Len(new)].overtaken = q[Len(q)].overtaken
        BY <2>4, <4>2
      <4>4. AllOvertaken(q) => AllOvertaken(new)
        BY <2>2, <2>4, <4>2, <4>3 DEF AllOvertaken
      <4>5. LastAnswered(new) <=> LastAnswered(q)
        BY <4>2, <4>3 DEF LastAnswered
      <4>6. q[Len(q)].answer \in {None, recorded} => new[Len(new)].answer \in {None, recorded}
        BY <2>1, <2>4, <3>2, <4>2
      <4>7. \A seen, had, late : AskedLast(q, seen, had, late, recorded) => AskedLast(new, seen, had, late, recorded)
        BY <4>5, <4>6 DEF AskedLast
      <4> QED BY <4>1, <4>4, <4>7
    <3> QED BY <3>1, <3>2
  <2> QED BY <1>0, <1>13, <2>5, <2>6 DEF Page!Read, PageKeepsUp, PageTypes, Settled
<1>14. ASSUME NEW r \in Resources, NEW i \in 1..InFlight, Page!Deliver(r, i) \/ Page!Fail(r, i)
       PROVE  PageKeepsUp'
  <2> DEFINE q == requests[r]
  <2>1. q \in Seq(Request) /\ i \in 1..Len(q) /\ q[i] \in Request
    <3>1. q \in Seq(Request) /\ i \in DOMAIN q
      BY <1>0, <1>14 DEF Page!Deliver, Page!Fail, Page!UnderWay, PageTypes
    <3> QED BY <3>1, LenProperties, ElementOfSeq
  <2>2. UNCHANGED <<recorded, unsaved, noticed, pending, event, stream, polling>>
    BY <1>14 DEF Page!Deliver, Page!Fail
  <2>3. CASE Page!Fail(r, i)
    <3>1. requests' = [requests EXCEPT ![r] = Page!RemoveAt(q, i)] /\ shown' = [shown EXCEPT ![r] = q[i].kept]
          /\ failures' = failures + 1
      BY <2>3 DEF Page!Fail
    <3>2. Page!RemoveAt(q, i) \in Seq(Request) /\ q[i].kept \in Nat
      BY <2>1, RemovedOne DEF Request
    <3>3. failures' # 0 /\ failures' \in Nat
      BY <1>0, <3>1 DEF PageTypes
    <3>4. PageTypes'
      BY <1>0, <2>2, <3>1, <3>2, <3>3 DEF PageTypes
    <3> QED BY <2>2, <3>3, <3>4 DEF PageKeepsUp
  <2>4. CASE Page!Deliver(r, i)
    <3>1. q[i].answer # None /\ shown' = [shown EXCEPT ![r] = q[i].answer] /\ failures' = failures
      BY <2>4 DEF Page!Deliver
    <3>2. q[i].answer \in Nat
      BY <2>1, <3>1 DEF Request
    <3>3. CASE r # o
      <4>1. requests' = [requests EXCEPT ![r] = Page!RemoveAt(q, i)] /\ UNCHANGED <<given, outdated>>
        BY <2>4, <3>3 DEF Page!Deliver
      <4>2. Page!RemoveAt(q, i) \in Seq(Request)
        BY <2>1, RemovedOne
      <4>3. PageTypes' /\ requests'[o] = requests[o] /\ shown'[o] = shown[o]
        BY <1>0, <2>2, <3>1, <3>2, <3>3, <4>1, <4>2 DEF PageTypes
      <4> QED BY <2>2, <3>1, <4>1, <4>3 DEF PageKeepsUp, Settled
    <3>4. CASE r = o
      <4> DEFINE left == Page!RemoveAt(Page!Overtaken(q, i), i)
      <4>1. requests' = [requests EXCEPT ![r] = left] /\ given' = given \cup {q[i].answer} /\ outdated' = q[i].overtaken
        BY <2>4, <3>4 DEF Page!Deliver
      <4>2. left \in Seq(Request)
        <5>1. Page!Overtaken(q, i) \in Seq(Request) /\ Len(Page!Overtaken(q, i)) = Len(q)
          BY <2>1, OvertakenIs
        <5>2. i \in 1..Len(Page!Overtaken(q, i))
          BY <2>1, <5>1
        <5> QED BY <5>1, <5>2, RemovedOne
      <4>3. AllOvertaken(q) => /\ AllOvertaken(left)
                               /\ \A seen, had, late, now : AskedLast(q, seen, had, late, now)
                                     => AskedLast(left, q[i].answer, had \cup {q[i].answer}, q[i].overtaken, now)
        BY <2>1, <3>1, OneAnswered
      <4> HIDE DEF left
      <4>4. PageTypes' /\ requests'[o] = left /\ shown'[o] = q[i].answer /\ q = requests[o]
        BY <1>0, <2>2, <3>1, <3>2, <3>4, <4>1, <4>2 DEF PageTypes
      <4>5. failures = 0 => AllOvertaken(left)
        BY <4>3, <4>4 DEF PageKeepsUp
      <4>6. Settled /\ failures = 0 => AskedLast(left, q[i].answer, given \cup {q[i].answer}, q[i].overtaken, recorded)
        BY <4>3, <4>4 DEF PageKeepsUp
      <4> QED BY <2>2, <3>1, <4>1, <4>4, <4>5, <4>6 DEF PageKeepsUp, Settled
    <3> QED BY <3>3, <3>4
  <2> QED BY <1>14, <2>3, <2>4
<1>15. CASE UNCHANGED Page!vars
  BY <1>15, <1>0, <1>a DEF Page!vars, Settled, PageTypes
<1> QED BY <1>1, <1>2, <1>3, <1>4, <1>5, <1>6, <1>7, <1>8, <1>9, <1>10, <1>11, <1>12, <1>13, <1>14,
           <1>15 DEF Page!Next

\* No change of the overview is missed: not between two batches, nor while the stream is down; in
\* whatever order requests are answered, the page was given it, and shows it unless an overtaken request
\* was answered last (resources.ts:34).  A page that lost its stream keeps asking (live.ts:22).
THEOREM PageMissesNothing == ASSUME PageConstants PROVE ProductSpec => []NothingMissed
<1>0. PageConstants
  OBVIOUS
<1>1. Page!Init => PageKeepsUp
  <2> SUFFICES ASSUME Page!Init PROVE PageKeepsUp
    OBVIOUS
  <2>1. PageTypes
    <3>1. <<>> \in Seq(Request) /\ 0 \in Nat
      BY EmptySeq
    <3> QED BY <3>1 DEF Page!Init, PageTypes
  <2>2. AllOvertaken(requests["overview"]) \/ "overview" \notin Resources
    BY DEF Page!Init, AllOvertaken
  <2> QED BY <1>0, <2>1, <2>2 DEF Page!Init, PageKeepsUp, Settled, PageConstants
<1>2. PageKeepsUp /\ [Page!Next]_(Page!vars) => PageKeepsUp'
  BY PageSteps
<1>3. PageKeepsUp => NothingMissed
  BY DEF PageKeepsUp, PageConstants, AskedLast, LastAnswered, Settled, NothingMissed, Page!NothingMissed, Page!Quiet
<1>4. ProductInit => Page!Init
  BY DEF ProductInit
<1>5. [InDisputes \/ InTester \/ InScopes \/ InRepairs \/ InPage]_
         <<part, vars, testerVars, findingVars, pageVars>>
      => [Page!Next]_(Page!vars)
  BY DEF InDisputes, InTester, InScopes, InRepairs, InPage, pageVars, Page!vars, Page!server, Page!page, Page!history
<1> QED BY <1>1, <1>2, <1>3, <1>4, <1>5, PTL DEF ProductSpec

-----------------------------------------------------------------------------
(* What reviews leave open, one after another *)

\* What some of the reviews leave open, as the fold defines it.
OpenOf(open, history, collisions, family) ==
    open = [d \in family |-> IF d = {} THEN <<>>
                             ELSE Scopes!AfterReview(open[d \ {Largest(d)}], history[Largest(d)], collisions)]

OpenTo(open, history, collisions, m) == OpenOf(open, history, collisions, SUBSET (1..m))

LeftOpen(history, collisions) ==
    Scopes!FoldLeft(LAMBDA left, review : Scopes!AfterReview(left, review, collisions), <<>>, history)

\* The recursive function behind the fold is what its definition says, by induction on size.
LEMMA OpenExists ==
    ASSUME NEW indices, IsFiniteSet(indices), NEW history, NEW collisions,
           \A d \in SUBSET indices : d # {} => Largest(d) \in d
    PROVE  \E open : OpenOf(open, history, collisions, SUBSET indices)
<1> DEFINE G == {n \in Nat : \E open : OpenOf(open, history, collisions, Few(indices, n))}
<1>1. 0 \in G
  <2> DEFINE none == [d \in Few(indices, 0) |-> <<>>]
  <2>1. \A d \in Few(indices, 0) : d = {}
    BY FS_Subset, FS_EmptySet, FS_CardinalityType DEF Few
  <2>2. OpenOf(none, history, collisions, Few(indices, 0))
    BY <2>1 DEF OpenOf
  <2> QED BY <2>2
<1>2. \A n \in G \cap Nat : n + 1 \in G
  <2> SUFFICES ASSUME NEW n \in Nat, n \in G PROVE n + 1 \in G
    OBVIOUS
  <2>1. PICK open : OpenOf(open, history, collisions, Few(indices, n))
    OBVIOUS
  <2> DEFINE more == [d \in Few(indices, n + 1) |->
                        IF d = {} THEN <<>>
                        ELSE Scopes!AfterReview(open[d \ {Largest(d)}], history[Largest(d)], collisions)]
  <2>2. ASSUME NEW d \in Few(indices, n + 1), d # {}
        PROVE  d \ {Largest(d)} \in Few(indices, n) /\ d \ {Largest(d)} \in Few(indices, n + 1)
    <3>1. IsFiniteSet(d) /\ Cardinality(d) \in Nat /\ d \in SUBSET indices
      BY FS_Subset, FS_CardinalityType DEF Few
    <3>2. Cardinality(d \ {Largest(d)}) = Cardinality(d) - 1
      BY <2>2, <3>1, FS_RemoveElement
    <3> QED BY <3>1, <3>2 DEF Few
  <2>3. \A d \in Few(indices, n) : more[d] = open[d]
    <3>1. \A d \in Few(indices, n) : d \in Few(indices, n + 1)
      BY FS_Subset, FS_CardinalityType DEF Few
    <3> QED BY <2>1, <3>1 DEF OpenOf
  <2>4. OpenOf(more, history, collisions, Few(indices, n + 1))
    BY <2>2, <2>3 DEF OpenOf
  <2>5. \E any : OpenOf(any, history, collisions, Few(indices, n + 1))
    BY <2>4
  <2> QED BY <2>5
<1>3. Nat \subseteq G
  <2> HIDE DEF G
  <2> QED BY <1>1, <1>2, SetInduction
<1>4. Cardinality(indices) \in Nat /\ Few(indices, Cardinality(indices)) = SUBSET indices
  BY FS_Subset, FS_CardinalityType DEF Few
<1>5. Cardinality(indices) \in G
  <2> HIDE DEF G
  <2> QED BY <1>3, <1>4
<1>6. \E open : OpenOf(open, history, collisions, Few(indices, Cardinality(indices)))
  BY <1>5
<1> QED BY <1>4, <1>6

\* What n + 1 reviews leave open is what the last of them makes of what the others did.
LEMMA NextOpen ==
    ASSUME NEW m \in Nat, NEW history, NEW collisions, NEW open, OpenTo(open, history, collisions, m)
    PROVE  /\ open[1..0] = <<>>
           /\ \A n \in 0..(m - 1) : open[1..(n + 1)] = Scopes!AfterReview(open[1..n], history[n + 1], collisions)
<1>1. 1..0 = {} /\ {} \in SUBSET (1..m)
  OBVIOUS
<1>2. open[1..0] = <<>>
  BY <1>1 DEF OpenTo, OpenOf
<1>3. ASSUME NEW n \in 0..(m - 1)
      PROVE  open[1..(n + 1)] = Scopes!AfterReview(open[1..n], history[n + 1], collisions)
  <2>0. n \in Nat /\ n + 1 <= m
    OBVIOUS
  <2>1. n \in Nat /\ 1..(n + 1) \in SUBSET (1..m) /\ 1..(n + 1) # {}
    <3>1. 1 \in 1..(n + 1)
      BY <2>0
    <3>2. \A i \in 1..(n + 1) : i \in 1..m
      BY <2>0
    <3> QED BY <2>0, <3>1, <3>2
  <2>2. Largest(1..(n + 1)) = n + 1 /\ 1..(n + 1) \ {n + 1} = 1..n
    BY <2>1, LargestOfInterval
  <2> DEFINE d == 1..(n + 1)
  <2>3. d \in SUBSET (1..m) /\ d # {} /\ Largest(d) = n + 1 /\ d \ {n + 1} = 1..n
    BY <2>1, <2>2
  <2> HIDE DEF d
  <2>4. open[d] = Scopes!AfterReview(open[d \ {Largest(d)}], history[Largest(d)], collisions)
    BY <2>3, Zenon DEF OpenTo, OpenOf
  <2>5. open[d] = Scopes!AfterReview(open[1..n], history[n + 1], collisions)
    BY <2>3, <2>4
  <2> QED BY <2>5 DEF d
<1> QED BY <1>2, <1>3

\* What one more review leaves open.
LEMMA NextOpenUpTo ==
    ASSUME NEW m \in Nat, NEW history, NEW collisions, NEW open, OpenTo(open, history, collisions, m + 1)
    PROVE  /\ open[1..0] = <<>>
           /\ \A n \in 0..m : open[1..(n + 1)] = Scopes!AfterReview(open[1..n], history[n + 1], collisions)
<1>1. PICK k \in Nat : k = m + 1
  OBVIOUS
<1>2. OpenTo(open, history, collisions, k)
  BY <1>1
<1>3. open[1..0] = <<>> /\ \A n \in 0..(k - 1) : open[1..(n + 1)] = Scopes!AfterReview(open[1..n], history[n + 1], collisions)
  BY <1>2, NextOpen
<1>4. 0..(k - 1) = 0..m
  BY <1>1
<1> QED BY <1>3, <1>4

\* What reviews leave open is the last of the partial results.
LEMMA OpenIs ==
    ASSUME NEW m \in Nat, NEW history, DOMAIN history = 1..m, NEW collisions
    PROVE  \E open : OpenTo(open, history, collisions, m) /\ LeftOpen(history, collisions) = open[1..m]
<1>0. IsFiniteSet(1..m)
  BY FS_Interval
<1>1. IsFiniteSet(1..m) /\ \A d \in SUBSET (1..m) : d # {} => Largest(d) \in d
  BY <1>0, LargestIn
<1> DEFINE the == CHOOSE open : OpenOf(open, history, collisions, SUBSET (1..m))
<1>2. OpenOf(the, history, collisions, SUBSET (1..m))
  <2>1. \E any : OpenOf(any, history, collisions, SUBSET (1..m))
    BY <1>1, OpenExists
  <2> QED BY <2>1
<1>3. LeftOpen(history, collisions) = the[1..m]
  BY DEF LeftOpen, Scopes!FoldLeft, Scopes!MapThenFoldSet, OpenOf, Largest, Scopes!Max
<1> QED BY <1>2, <1>3 DEF OpenTo

\* One more review changes what those before it left open.
LEMMA OneMoreReview ==
    ASSUME NEW A, NEW history \in Seq(A), NEW review \in A, NEW collisions
    PROVE  /\ LeftOpen(<<>>, collisions) = <<>>
           /\ LeftOpen(Append(history, review), collisions)
                 = Scopes!AfterReview(LeftOpen(history, collisions), review, collisions)
<1> DEFINE m == Len(history)
           t == Append(history, review)
<1>1. m \in Nat /\ DOMAIN history = 1..m /\ t \in Seq(A) /\ Len(t) = m + 1 /\ DOMAIN t = 1..(m + 1)
      /\ (\A i \in 1..m : t[i] = history[i]) /\ t[m + 1] = review /\ m + 1 \in Nat /\ m + 1 \in 1..(m + 1)
  BY AppendProperties, LenProperties
<1> HIDE DEF m, t
<1>2. PICK open : OpenTo(open, history, collisions, m) /\ LeftOpen(history, collisions) = open[1..m]
  BY <1>1, OpenIs
<1>3. PICK more : OpenTo(more, t, collisions, m + 1) /\ LeftOpen(t, collisions) = more[1..(m + 1)]
  BY <1>1, OpenIs
<1>a. open[1..0] = <<>>
      /\ \A n \in 0..(m - 1) : open[1..(n + 1)] = Scopes!AfterReview(open[1..n], history[n + 1], collisions)
  BY <1>1, <1>2, NextOpen
<1>b. more[1..0] = <<>>
      /\ \A n \in 0..m : more[1..(n + 1)] = Scopes!AfterReview(more[1..n], t[n + 1], collisions)
  BY <1>1, <1>3, NextOpenUpTo
<1> DEFINE G == {n \in Nat : n <= m => more[1..n] = open[1..n]}
<1>4. 0 \in G
  BY <1>a, <1>b
<1>5. \A n \in G \cap Nat : n + 1 \in G
  <2> SUFFICES ASSUME NEW n \in Nat, n + 1 <= m, more[1..n] = open[1..n] PROVE more[1..(n + 1)] = open[1..(n + 1)]
    BY <1>1
  <2>1. n \in 0..(m - 1) /\ n \in 0..m /\ n + 1 \in 1..m
    BY <1>1
  <2>2. /\ open[1..(n + 1)] = Scopes!AfterReview(open[1..n], history[n + 1], collisions)
        /\ more[1..(n + 1)] = Scopes!AfterReview(more[1..n], t[n + 1], collisions)
    BY <1>a, <1>b, <2>1
  <2> QED BY <1>1, <2>1, <2>2
<1>6. Nat \subseteq G
  <2> HIDE DEF G
  <2> QED BY <1>4, <1>5, SetInduction
<1>7. more[1..m] = open[1..m] /\ m \in 0..m
  BY <1>1, <1>6
<1>8. LeftOpen(t, collisions) = Scopes!AfterReview(LeftOpen(history, collisions), review, collisions)
  BY <1>1, <1>2, <1>3, <1>7, <1>b
<1>9. LeftOpen(<<>>, collisions) = <<>>
  <2>1. 0 \in Nat /\ DOMAIN <<>> = 1..0
    OBVIOUS
  <2>2. PICK none : OpenTo(none, <<>>, collisions, 0) /\ LeftOpen(<<>>, collisions) = none[1..0]
    BY <2>1, OpenIs
  <2> QED BY <2>1, <2>2, NextOpen
<1> QED BY <1>8, <1>9 DEF t

-----------------------------------------------------------------------------
(* What one review does to the open findings *)

Owners == {item1, item2, Feature}

\* The marker of an identity without a slice is no slice.
ScopesDiffer == Shared \notin Owners /\ item1 # item2

\* A review reports at most one problem.
ReviewIs(review) ==
    /\ review.task \in Owners
    /\ review.found = {} \/ \E f : review.found = {f} /\ f.problem = problem

\* Identities name the problem and, unless they are shared, who owns it.
OpenOK(open) ==
    \A id \in DOMAIN open :
        /\ open[id].problem = problem /\ open[id].task \in Owners
        /\ id = <<problem, Shared>> \/ id = <<problem, open[id].task>>

\* A report without an owner meets no finding of another slice.
Legal(open, review, collisions) ==
    \/ review.version = 2 \/ problem \in collisions
    \/ <<problem, Shared>> \in DOMAIN open => open[<<problem, Shared>>].task = review.task

OpenFor(open, of, task) ==
    \E id \in DOMAIN open : open[id].problem = of /\ open[id].task = task /\ open[id].required

\* The review closes what `task` owns.
ClosesFor(review, task) ==
    review.task \in {Feature, task} /\ \E r \in review.resolutions : Scopes!Closes(r) /\ Scopes!Names(r.id, problem, task)

\* An open finding is known by its identity.
LEMMA IdNames ==
    ASSUME NEW open, OpenOK(open), NEW id \in DOMAIN open PROVE Scopes!Names(id, problem, open[id].task)
<1>1. id = <<problem, Shared>> \/ id = <<problem, open[id].task>>
  BY DEF OpenOK
<1> QED BY <1>1 DEF Scopes!Names

\* A resolution takes away what it names, of its own task.
LEMMA Resolved ==
    ASSUME NEW open, OpenOK(open), NEW id, NEW task,
           NEW kept, kept = Scopes!ResolveHistoricalFinding(open, id, task)
    PROVE  /\ OpenOK(kept)
           /\ \A i \in DOMAIN kept : i \in DOMAIN open /\ kept[i] = open[i]
           /\ \A i \in DOMAIN open :
                 i \in DOMAIN kept \/ (task \in {Feature, open[i].task} /\ Scopes!Names(id, problem, open[i].task))
<1> DEFINE exact == id \in DOMAIN open /\ (task # Feature => open[id].task = task)
           aliases == {i \in DOMAIN open : /\ task # Feature
                                           /\ open[i].legacy /\ id = <<open[i].problem, Shared>>
                                           /\ open[i].task = task}
           closed == aliases \cup IF exact THEN {id} ELSE {}
<1>1. kept = [i \in DOMAIN open \ closed |-> open[i]]
  BY DEF Scopes!ResolveHistoricalFinding
<1>2. ASSUME NEW i \in DOMAIN open, i \in closed
      PROVE  task \in {Feature, open[i].task} /\ Scopes!Names(id, problem, open[i].task)
  <2>1. CASE i \in aliases
    <3>1. open[i].problem = problem /\ id = <<open[i].problem, Shared>> /\ open[i].task = task
      BY <2>1 DEF OpenOK
    <3> QED BY <3>1 DEF Scopes!Names
  <2>2. CASE exact /\ i = id
    BY <2>2, IdNames
  <2> QED BY <1>2, <2>1, <2>2
<1> HIDE DEF closed
<1>3. DOMAIN kept = DOMAIN open \ closed /\ \A i \in DOMAIN kept : kept[i] = open[i]
  BY <1>1
<1> QED BY <1>2, <1>3 DEF OpenOK

\* A report adds its problem, to its own task, and takes nothing required away.
LEMMA ReportAdds ==
    ASSUME ScopesDiffer, NEW open, OpenOK(open), NEW review, ReviewIs(review), NEW collisions,
           Legal(open, review, collisions), NEW after, after = Scopes!Reported(open, review, collisions)
    PROVE  /\ OpenOK(after)
           /\ \A i \in DOMAIN open : i \in DOMAIN after /\ (open[i].required => after[i] = open[i])
           /\ \A f \in review.found : f.required => OpenFor(after, f.problem, review.task)
<1> DEFINE id(f) == Scopes!FindingId(open, review, f.problem, f.problem \in collisions)
           ids == {id(f) : f \in review.found}
           new(i) == LET f == CHOOSE f \in review.found : id(f) = i
                     IN  Scopes!RetainedFinding(open, i, review, f, f.problem \in collisions)
<1>1. after = [i \in DOMAIN open \cup ids |-> IF i \in ids THEN new(i) ELSE open[i]]
  BY DEF Scopes!Reported
<1>2. CASE review.found = {}
  <2>1. ids = {}
    BY <1>2
  <2> HIDE DEF ids, new
  <2>2. DOMAIN after = DOMAIN open /\ \A i \in DOMAIN open : after[i] = open[i]
    BY <1>1, <2>1
  <2> QED BY <1>2, <2>2 DEF OpenOK
<1>3. ASSUME NEW f, review.found = {f}, f.problem = problem
      PROVE  /\ OpenOK(after)
             /\ \A i \in DOMAIN open : i \in DOMAIN after /\ (open[i].required => after[i] = open[i])
             /\ f.required => OpenFor(after, f.problem, review.task)
  <2> DEFINE i0 == id(f)
             unscoped == <<problem, Shared>>
             fresh == [problem |-> f.problem, required |-> f.required, evidence |-> f.evidence, task |-> review.task,
                       source |-> review.source, legacy |-> f.problem \in collisions]
  <2>1. ids = {i0}
    BY <1>3
  <2>2. (CHOOSE g \in review.found : id(g) = i0) = f
    BY <1>3
  <2>3. new(i0) = IF i0 \in DOMAIN open /\ open[i0].required THEN open[i0] ELSE fresh
    BY <2>2 DEF Scopes!RetainedFinding
  <2>4. \/ i0 = <<problem, review.task>>
        \/ i0 = unscoped /\ (unscoped \in DOMAIN open => open[unscoped].task = review.task)
    BY <1>3 DEF Scopes!FindingId, Legal
  <2>5. review.task \in Owners
    BY DEF ReviewIs
  <2>6. fresh.problem = problem /\ fresh.task = review.task /\ (f.required => fresh.required)
    BY <1>3
  <2> HIDE DEF i0, ids, new, fresh
  <2>7. DOMAIN after = DOMAIN open \cup {i0}
        /\ \A i \in DOMAIN after : after[i] = IF i = i0 THEN new(i0) ELSE open[i]
    BY <1>1, <2>1
  <2>8. i0 \in DOMAIN open => open[i0].task = review.task
    <3>1. CASE i0 = <<problem, review.task>>
      <4>1. SUFFICES ASSUME i0 \in DOMAIN open PROVE open[i0].task = review.task
        OBVIOUS
      <4>2. i0 # <<problem, Shared>>
        BY <2>5, <3>1 DEF ScopesDiffer
      <4>3. <<problem, review.task>> = <<problem, open[i0].task>>
        BY <3>1, <4>1, <4>2 DEF OpenOK
      <4> QED BY <4>3
    <3> QED BY <2>4, <3>1
  <2>9. /\ after[i0].problem = problem /\ after[i0].task = review.task
        /\ f.required => after[i0].required
    <3>1. CASE i0 \in DOMAIN open /\ open[i0].required
      BY <2>3, <2>7, <2>8, <3>1 DEF OpenOK
    <3>2. CASE ~(i0 \in DOMAIN open /\ open[i0].required)
      BY <2>3, <2>6, <2>7, <3>2
    <3> QED BY <3>1, <3>2
  <2>10. OpenOK(after)
    <3> SUFFICES ASSUME NEW i \in DOMAIN after
                 PROVE  /\ after[i].problem = problem /\ after[i].task \in Owners
                        /\ i = <<problem, Shared>> \/ i = <<problem, after[i].task>>
      BY DEF OpenOK
    <3>1. CASE i = i0
      BY <2>4, <2>5, <2>9, <3>1
    <3>2. CASE i # i0
      BY <2>7, <3>2 DEF OpenOK
    <3> QED BY <3>1, <3>2
  <2>11. \A i \in DOMAIN open : i \in DOMAIN after /\ (open[i].required => after[i] = open[i])
    BY <2>3, <2>7
  <2>12. f.required => OpenFor(after, f.problem, review.task)
    BY <1>3, <2>7, <2>9 DEF OpenFor
  <2> QED BY <2>10, <2>11, <2>12
<1> QED BY <1>2, <1>3 DEF ReviewIs

\* Both together.
LEMMA AfterOne ==
    ASSUME ScopesDiffer, NEW open, OpenOK(open), NEW review, ReviewIs(review), NEW collisions,
           Legal(open, review, collisions), NEW after, after = Scopes!AfterReview(open, review, collisions)
    PROVE  /\ OpenOK(after)
           /\ \A i \in DOMAIN open : \/ i \in DOMAIN after /\ (open[i].required => after[i] = open[i])
                                     \/ ClosesFor(review, open[i].task)
           /\ \A f \in review.found : f.required => OpenFor(after, f.problem, review.task)
<1> DEFINE closing == {r \in review.resolutions : Scopes!Closes(r)}
           r == CHOOSE r \in closing : TRUE
           kept == IF closing = {} THEN open ELSE Scopes!ResolveHistoricalFinding(open, r.id, review.task)
<1>1. after = Scopes!Reported(kept, review, collisions)
  BY DEF Scopes!AfterReview
<1>2. closing # {} => r \in review.resolutions /\ Scopes!Closes(r)
  OBVIOUS
<1> HIDE DEF closing, r
<1>3. /\ OpenOK(kept) /\ \A i \in DOMAIN kept : i \in DOMAIN open /\ kept[i] = open[i]
      /\ \A i \in DOMAIN open : i \in DOMAIN kept \/ ClosesFor(review, open[i].task)
  <2>1. CASE closing = {}
    BY <2>1
  <2>2. CASE closing # {}
    <3>1. kept = Scopes!ResolveHistoricalFinding(open, r.id, review.task)
      BY <2>2
    <3> HIDE DEF kept
    <3>2. /\ OpenOK(kept) /\ \A i \in DOMAIN kept : i \in DOMAIN open /\ kept[i] = open[i]
          /\ \A i \in DOMAIN open : \/ i \in DOMAIN kept
                                   \/ /\ review.task \in {Feature, open[i].task}
                                      /\ Scopes!Names(r.id, problem, open[i].task)
      BY <3>1, Resolved
    <3> QED BY <1>2, <2>2, <3>2 DEF ClosesFor
  <2> QED BY <2>1, <2>2
<1> HIDE DEF kept
<1>4. Legal(kept, review, collisions)
  BY <1>3 DEF Legal
<1>5. /\ OpenOK(after)
      /\ \A i \in DOMAIN kept : i \in DOMAIN after /\ (kept[i].required => after[i] = kept[i])
      /\ \A f \in review.found : f.required => OpenFor(after, f.problem, review.task)
  BY <1>1, <1>3, <1>4, ReportAdds
<1> QED BY <1>3, <1>5

-----------------------------------------------------------------------------
(* Histories of reviews *)

\* A required report is open, or closed since.
Standing(history, open) ==
    \A i \in DOMAIN history : \A f \in history[i].found :
        f.required => \/ OpenFor(open, f.problem, history[i].task)
                      \/ \E j \in DOMAIN history :
                            /\ j > i /\ history[j].task \in {Feature, history[i].task}
                            /\ \E r \in history[j].resolutions :
                                   Scopes!Closes(r) /\ Scopes!Names(r.id, f.problem, history[i].task)

HistoryOK(history, collisions) ==
    /\ \E A : history \in Seq(A)
    /\ \A i \in DOMAIN history : ReviewIs(history[i])
    /\ OpenOK(LeftOpen(history, collisions)) /\ Standing(history, LeftOpen(history, collisions))

\* A list of some values is one of more values.
LEMMA SeqOfMore == ASSUME NEW A, NEW s \in Seq(A), NEW x PROVE s \in Seq(A \cup {x})
<1>1. Len(s) \in Nat /\ DOMAIN s = 1..Len(s) /\ \A i \in 1..Len(s) : s[i] \in A \cup {x}
  BY LenProperties, ElementOfSeq
<1>2. s = [i \in 1..Len(s) |-> s[i]]
  OBVIOUS
<1> QED BY <1>1, <1>2

\* Without reviews nothing is open.
LEMMA NoReviews == ASSUME NEW collisions PROVE HistoryOK(<<>>, collisions)
<1>1. <<>> \in Seq({}) /\ DOMAIN <<>> = {}
  OBVIOUS
<1>2. LeftOpen(<<>>, collisions) = <<>>
  <2>1. <<>> \in Seq({1}) /\ 1 \in {1}
    OBVIOUS
  <2> QED BY <2>1, OneMoreReview
<1> QED BY <1>1, <1>2 DEF HistoryOK, OpenOK, Standing

\* One more review keeps that nothing required is missing.
LEMMA HistoryGrows ==
    ASSUME ScopesDiffer, NEW history, NEW collisions, HistoryOK(history, collisions),
           NEW review, ReviewIs(review), Legal(LeftOpen(history, collisions), review, collisions)
    PROVE  /\ HistoryOK(Append(history, review), collisions)
           /\ LeftOpen(Append(history, review), collisions)
                 = Scopes!AfterReview(LeftOpen(history, collisions), review, collisions)
<1> DEFINE t == Append(history, review)
           open == LeftOpen(history, collisions)
           after == LeftOpen(t, collisions)
           m == Len(history)
<1>1. PICK A : history \in Seq(A)
  BY DEF HistoryOK
<1>2. history \in Seq(A \cup {review}) /\ review \in A \cup {review}
  BY <1>1, SeqOfMore
<1>3. after = Scopes!AfterReview(open, review, collisions)
  BY <1>2, OneMoreReview
<1>4. /\ m \in Nat /\ DOMAIN history = 1..m /\ t \in Seq(A \cup {review}) /\ DOMAIN t = 1..(m + 1)
      /\ (\A i \in 1..m : t[i] = history[i]) /\ t[m + 1] = review
  BY <1>2, AppendProperties, LenProperties
<1>5. OpenOK(open) /\ Standing(history, open) /\ \A i \in 1..m : ReviewIs(history[i])
  BY <1>4 DEF HistoryOK
<1> HIDE DEF t, open, after, m
<1>6. /\ OpenOK(after)
      /\ \A i \in DOMAIN open : \/ i \in DOMAIN after /\ (open[i].required => after[i] = open[i])
                                \/ ClosesFor(review, open[i].task)
      /\ \A f \in review.found : f.required => OpenFor(after, f.problem, review.task)
  BY <1>3, <1>5, AfterOne DEF open
<1>7. \A i \in 1..(m + 1) : i \in 1..m \/ i = m + 1
  BY <1>4
<1>8. m + 1 \in 1..(m + 1) /\ \A i \in 1..m : i \in 1..(m + 1) /\ m + 1 > i
  BY <1>4
<1>9. ASSUME NEW i \in 1..m, NEW f \in history[i].found, f.required
      PROVE  \/ OpenFor(after, f.problem, history[i].task)
             \/ \E j \in 1..(m + 1) : /\ j > i /\ t[j].task \in {Feature, history[i].task}
                                      /\ \E r \in t[j].resolutions : Scopes!Closes(r) /\ Scopes!Names(r.id, f.problem, history[i].task)
  <2>1. CASE OpenFor(open, f.problem, history[i].task)
    <3>1. PICK id \in DOMAIN open : /\ open[id].problem = f.problem /\ open[id].task = history[i].task
                                    /\ open[id].required
      BY <2>1 DEF OpenFor
    <3>2. f.problem = problem
      BY <1>5, <3>1 DEF OpenOK
    <3>3. CASE id \in DOMAIN after /\ after[id] = open[id]
      BY <3>1, <3>3 DEF OpenFor
    <3>4. CASE ClosesFor(review, open[id].task)
      <4>1. t[m + 1].task \in {Feature, history[i].task}
            /\ \E r \in t[m + 1].resolutions : Scopes!Closes(r) /\ Scopes!Names(r.id, f.problem, history[i].task)
        BY <1>4, <3>1, <3>2, <3>4 DEF ClosesFor
      <4> QED BY <1>8, <4>1
    <3> QED BY <1>6, <3>1, <3>3, <3>4
  <2>2. ASSUME NEW j \in 1..m, j > i, history[j].task \in {Feature, history[i].task},
               \E r \in history[j].resolutions : Scopes!Closes(r) /\ Scopes!Names(r.id, f.problem, history[i].task)
        PROVE  \E k \in 1..(m + 1) : /\ k > i /\ t[k].task \in {Feature, history[i].task}
                                     /\ \E r \in t[k].resolutions : Scopes!Closes(r) /\ Scopes!Names(r.id, f.problem, history[i].task)
    BY <1>4, <1>8, <2>2
  <2>3. \/ OpenFor(open, f.problem, history[i].task)
        \/ \E j \in 1..m : /\ j > i /\ history[j].task \in {Feature, history[i].task}
                           /\ \E r \in history[j].resolutions : Scopes!Closes(r) /\ Scopes!Names(r.id, f.problem, history[i].task)
    BY <1>4, <1>5, <1>9 DEF Standing
  <2> QED BY <2>1, <2>2, <2>3
<1>10. Standing(t, after)
  <2> SUFFICES ASSUME NEW i \in 1..(m + 1), NEW f \in t[i].found, f.required
               PROVE  \/ OpenFor(after, f.problem, t[i].task)
                      \/ \E j \in 1..(m + 1) :
                            /\ j > i /\ t[j].task \in {Feature, t[i].task}
                            /\ \E r \in t[j].resolutions : Scopes!Closes(r) /\ Scopes!Names(r.id, f.problem, t[i].task)
    BY <1>4 DEF Standing
  <2>1. CASE i \in 1..m
    <3>1. t[i] = history[i]
      BY <1>4, <2>1
    <3> QED BY <1>9, <2>1, <3>1
  <2>2. CASE i = m + 1
    <3>1. t[i] = review
      BY <1>4, <2>2
    <3> QED BY <1>6, <3>1
  <2> QED BY <1>7, <2>1, <2>2
<1>11. \A i \in 1..(m + 1) : ReviewIs(t[i])
  BY <1>4, <1>5, <1>7
<1>12. \E B : t \in Seq(B)
  BY <1>4
<1>13. HistoryOK(t, collisions)
  BY <1>4, <1>6, <1>10, <1>11, <1>12 DEF HistoryOK, after
<1> QED BY <1>3, <1>13 DEF t, open, after

\* A review that names its owners causes no collision.
LEMMA NoCollision ==
    ASSUME NEW history, \E A : history \in Seq(A), NEW review, review.version = 2
    PROVE  Scopes!Collisions(Append(history, review)) = Scopes!Collisions(history)
<1> DEFINE t == Append(history, review)
           m == Len(history)
<1>1. PICK A : history \in Seq(A)
  OBVIOUS
<1>2. history \in Seq(A \cup {review}) /\ review \in A \cup {review}
  BY <1>1, SeqOfMore
<1>3. /\ m \in Nat /\ DOMAIN history = 1..m /\ DOMAIN t = 1..(m + 1)
      /\ (\A i \in 1..m : t[i] = history[i]) /\ t[m + 1] = review
  BY <1>2, AppendProperties, LenProperties
<1> HIDE DEF t, m
<1>4. \A i \in DOMAIN t : t[i].version = 1 => i \in DOMAIN history /\ t[i] = history[i]
  BY <1>3
<1>5. \A i \in DOMAIN history : i \in DOMAIN t /\ t[i] = history[i]
  BY <1>3
<1>6. Scopes!Collisions(t) = Scopes!Collisions(history)
  BY <1>4, <1>5 DEF Scopes!Collisions
<1> QED BY <1>6 DEF t

-----------------------------------------------------------------------------
(* What the two instances of reviews share *)

OpenNow == LeftOpen(reviews, Scopes!Collisions(reviews))

\* A resolution cites a run of the current product whose check passed, last, for its task.
OnLatestPass(r) ==
    \E n \in r.evidence :
        LET same == {m \in DOMAIN runs : /\ runs[m].source = found /\ runs[m].check = runs[n].check
                                         /\ runs[m].task = runs[n].task}
        IN  runs[n].passed /\ same # {} /\ runs[Repairs!Max(same)].passed

\* One more review.
Adds(review) ==
    /\ ReviewIs(review) /\ review.version = 2 /\ reviews' = Append(reviews, review)
    /\ \A r \in review.resolutions : Scopes!Closes(r) => OnLatestPass(r)

\* The findings of the model are those of the lemmas.
LEMMA Outstanding ==
    ASSUME NEW history
    PROVE  /\ Scopes!OutstandingFeedback(history) = LeftOpen(history, Scopes!Collisions(history))
           /\ Repairs!OutstandingFeedback(history) = LeftOpen(history, Scopes!Collisions(history))
<1>1. Scopes!OutstandingFeedback(history) = LeftOpen(history, Scopes!Collisions(history))
  BY DEF Scopes!OutstandingFeedback, LeftOpen
<1>2. Repairs!Collisions(history) = Scopes!Collisions(history)
  BY DEF Repairs!Collisions, Scopes!Collisions
<1>3. \A open, review, collisions :
        Repairs!AfterReview(open, review, collisions) = Scopes!AfterReview(open, review, collisions)
  BY DEF Repairs!AfterReview, Scopes!AfterReview, Repairs!Closes, Scopes!Closes,
         Repairs!ResolveHistoricalFinding, Scopes!ResolveHistoricalFinding, Repairs!Reported, Scopes!Reported,
         Repairs!FindingId, Scopes!FindingId, Repairs!RetainedFinding, Scopes!RetainedFinding
<1> DEFINE family == SUBSET DOMAIN history
           P(open) == open = [d \in family |-> IF d = {} THEN <<>>
                               ELSE Repairs!AfterReview(open[d \ {Largest(d)}], history[Largest(d)],
                                                        Repairs!Collisions(history))]
           Q(open) == open = [d \in family |-> IF d = {} THEN <<>>
                               ELSE Scopes!AfterReview(open[d \ {Largest(d)}], history[Largest(d)],
                                                       Scopes!Collisions(history))]
<1>4. \A open : P(open) <=> Q(open)
  BY <1>2, <1>3
<1>5. (CHOOSE open : P(open)) = (CHOOSE open : Q(open))
  <2> HIDE DEF P, Q
  <2> QED BY <1>4
<1>6. LeftOpen(history, Scopes!Collisions(history)) = (CHOOSE open : Q(open))[DOMAIN history]
  BY DEF LeftOpen, Scopes!FoldLeft, Scopes!MapThenFoldSet, Largest, Scopes!Max
<1>7. Repairs!OutstandingFeedback(history) = (CHOOSE open : P(open))[DOMAIN history]
  BY DEF Repairs!OutstandingFeedback, Repairs!FoldLeft, Repairs!MapThenFoldSet, Largest, Repairs!Max
<1> HIDE DEF P, Q
<1> QED BY <1>1, <1>5, <1>6, <1>7

\* Without checks of a slice nothing can be cited.
LEMMA ScopesAvailable ==
    ASSUME NEW n \in DOMAIN runs, NEW task, Scopes!Reference(n, task) = "available", NEW r, n \in r.evidence
    PROVE  OnLatestPass(r)
<1> DEFINE same == {m \in DOMAIN runs : /\ runs[m].source = found /\ runs[m].check = runs[n].check
                                        /\ runs[m].task = runs[n].task}
           family == {m \in DOMAIN runs : /\ runs[m].check = runs[n].check /\ runs[m].task = runs[n].task
                                          /\ runs[m].source = runs[n].source}
<1>1. runs[n].source = found /\ runs[n].passed /\ runs[Scopes!Max(family)].passed
  BY DEF Scopes!Reference
<1>2. family = same /\ n \in same
  BY <1>1
<1>3. Scopes!Max(family) = Repairs!Max(same)
  BY <1>2 DEF Scopes!Max, Repairs!Max
<1> QED BY <1>1, <1>2, <1>3 DEF OnLatestPass

\* What can be cited is a passing run with no later one that failed.
LEMMA RepairsAvailable ==
    ASSUME NEW n \in DOMAIN runs, NEW task, Repairs!Reference(n, task) = "available", NEW r, n \in r.evidence
    PROVE  OnLatestPass(r)
<1> DEFINE same == {m \in DOMAIN runs : /\ runs[m].source = found /\ runs[m].check = runs[n].check
                                        /\ runs[m].task = runs[n].task}
           family == {m \in DOMAIN runs : /\ runs[m].check = runs[n].check /\ runs[m].task = runs[n].task
                                          /\ runs[m].source = runs[n].source}
<1>1. runs[n].source = found /\ runs[n].passed /\ runs[Repairs!Max(family)].passed
  BY DEF Repairs!Reference
<1>2. family = same /\ n \in same
  BY <1>1
<1> QED BY <1>1, <1>2 DEF OnLatestPass

\* A review of several slices adds one that closes only what it may.
LEMMA ScopesReview ==
    ASSUME NEW task \in Owners, NEW by, NEW reports, NEW resolutions,
           reports = {} \/ \E f : reports = {f} /\ f.problem = problem,
           \A r \in resolutions : r.evidence \subseteq DOMAIN runs,
           Scopes!Review(task, by, reports, resolutions)
    PROVE  \E review : Adds(review)
<1> DEFINE accepted == {r \in resolutions : Scopes!ValidateResolution(r, by, task) = "accepted"}
           review == [task |-> task, source |-> found, version |-> 2, found |-> reports, resolutions |-> accepted]
<1>1. reviews' = Append(reviews, review)
  BY DEF Scopes!Review
<1>2. ReviewIs(review) /\ review.version = 2
  BY DEF ReviewIs
<1>3. ASSUME NEW r \in accepted, Scopes!Closes(r) PROVE OnLatestPass(r)
  <2> DEFINE finding == Scopes!OutstandingFeedback(reviews)[r.id]
  <2>1. Scopes!ClosingResolutionHolds(r, finding, by, task)
    BY <1>3 DEF Scopes!ValidateResolution
  <2> HIDE DEF finding
  <2>2. PICK n \in r.evidence : Scopes!Reference(n, task) = "available"
    BY <2>1 DEF Scopes!ClosingResolutionHolds
  <2>3. n \in DOMAIN runs
    OBVIOUS
  <2> QED BY <2>2, <2>3, ScopesAvailable
<1>4. review.resolutions = accepted
  OBVIOUS
<1> HIDE DEF accepted, review
<1>5. Adds(review)
  BY <1>1, <1>2, <1>3, <1>4 DEF Adds
<1> QED BY <1>5

\* So does one of several versions.
LEMMA RepairsReview ==
    ASSUME NEW task \in Owners, NEW by, NEW reports, NEW resolutions,
           reports = {} \/ \E f : reports = {f} /\ f.problem = problem,
           \A r \in resolutions : r.evidence \subseteq DOMAIN runs,
           Repairs!Review(task, by, reports, resolutions)
    PROVE  \E review : Adds(review)
<1> DEFINE accepted == {r \in resolutions : Repairs!ValidateResolution(r, by, task) = "accepted"}
           review == [task |-> task, source |-> found, version |-> 2, found |-> reports, resolutions |-> accepted]
<1>1. reviews' = Append(reviews, review)
  BY DEF Repairs!Review
<1>2. ReviewIs(review) /\ review.version = 2
  BY DEF ReviewIs
<1>3. ASSUME NEW r \in accepted, Scopes!Closes(r) PROVE OnLatestPass(r)
  <2> DEFINE finding == Repairs!OutstandingFeedback(reviews)[r.id]
  <2>0. Repairs!Closes(r)
    BY <1>3 DEF Scopes!Closes, Repairs!Closes
  <2>1. Repairs!ClosingResolutionHolds(r, finding, by, task)
    BY <2>0 DEF Repairs!ValidateResolution
  <2> HIDE DEF finding
  <2>2. PICK n \in r.evidence : Repairs!Reference(n, task) = "available"
    BY <2>1 DEF Repairs!ClosingResolutionHolds
  <2>3. n \in DOMAIN runs
    OBVIOUS
  <2> QED BY <2>2, <2>3, RepairsAvailable
<1>4. review.resolutions = accepted
  OBVIOUS
<1> HIDE DEF accepted, review
<1>5. Adds(review)
  BY <1>1, <1>2, <1>3, <1>4 DEF Adds
<1> QED BY <1>5

\* The reviews change only by such a review.
LEMMA ScopesSteps == ASSUME [Scopes!Next]_(Scopes!vars) PROVE reviews' = reviews \/ \E review : Adds(review)
<1>1. ASSUME NEW task \in Scopes!Tasks, NEW by, NEW f \in Scopes!ReportedFindings,
             Scopes!Review(task, by, f, {})
      PROVE  \E review : Adds(review)
  <2>1. task \in Owners
    BY DEF Scopes!Tasks, Owners
  <2>2. \E g : f = {g} /\ g.problem = problem
    <3>1. PICK p \in {problem}, required \in BOOLEAN, evidence \in Scopes!Citations :
                 f = {[problem |-> p, required |-> required, evidence |-> evidence]}
      BY DEF Scopes!ReportedFindings
    <3>2. [problem |-> p, required |-> required, evidence |-> evidence].problem = problem
      OBVIOUS
    <3> QED BY <3>1, <3>2
  <2> QED BY <1>1, <2>1, <2>2, ScopesReview
<1>2. ASSUME NEW task \in Scopes!Tasks, NEW by, NEW r \in Scopes!Resolutions,
             Scopes!Review(task, by, {}, {r})
      PROVE  \E review : Adds(review)
  <2>1. task \in Owners
    BY DEF Scopes!Tasks, Owners
  <2>2. r.evidence \subseteq DOMAIN runs
    <3>1. r.evidence \in Scopes!Citations
      BY DEF Scopes!Resolutions
    <3> QED BY <3>1 DEF Scopes!Citations
  <2> QED BY <1>2, <2>1, <2>2, ScopesReview
<1>3. ASSUME Scopes!Edit \/ UNCHANGED Scopes!vars PROVE reviews' = reviews
  BY <1>3 DEF Scopes!Edit, Scopes!vars
<1>4. ASSUME NEW task, NEW check, NEW passed, Scopes!Run(task, check, passed) PROVE reviews' = reviews
  BY <1>4 DEF Scopes!Run
<1>5. ASSUME NEW id, NEW n, Scopes!Reproduce(id, n) PROVE reviews' = reviews
  BY <1>5 DEF Scopes!Reproduce
<1> QED BY <1>1, <1>2, <1>3, <1>4, <1>5 DEF Scopes!Next

\* And so they do here.
LEMMA RepairsSteps == ASSUME [Repairs!Next]_(Repairs!vars) PROVE reviews' = reviews \/ \E review : Adds(review)
<1>1. ASSUME NEW task \in Repairs!Tasks, NEW by, NEW f \in Repairs!ReportedFindings,
             Repairs!Review(task, by, f, {})
      PROVE  \E review : Adds(review)
  <2>1. task \in Owners
    BY DEF Repairs!Tasks, Owners
  <2>2. \E g : f = {g} /\ g.problem = problem
    <3>1. PICK p \in {problem}, required \in BOOLEAN, evidence \in Repairs!Citations :
                 f = {[problem |-> p, required |-> required, evidence |-> evidence]}
      BY DEF Repairs!ReportedFindings
    <3>2. [problem |-> p, required |-> required, evidence |-> evidence].problem = problem
      OBVIOUS
    <3> QED BY <3>1, <3>2
  <2> QED BY <1>1, <2>1, <2>2, RepairsReview
<1>2. ASSUME NEW task \in Repairs!Tasks, NEW by, NEW r \in Repairs!Resolutions,
             Repairs!Review(task, by, {}, {r})
      PROVE  \E review : Adds(review)
  <2>1. task \in Owners
    BY DEF Repairs!Tasks, Owners
  <2>2. r.evidence \subseteq DOMAIN runs
    <3>1. r.evidence \in Repairs!Citations
      BY DEF Repairs!Resolutions
    <3> QED BY <3>1 DEF Repairs!Citations
  <2> QED BY <1>2, <2>1, <2>2, RepairsReview
<1>3. ASSUME Repairs!Edit \/ UNCHANGED Repairs!vars PROVE reviews' = reviews
  BY <1>3 DEF Repairs!Edit, Repairs!vars
<1>4. ASSUME NEW task, NEW check, NEW passed, Repairs!Run(task, check, passed) PROVE reviews' = reviews
  BY <1>4 DEF Repairs!Run
<1>5. ASSUME NEW id, NEW n, Repairs!Reproduce(id, n) PROVE reviews' = reviews
  BY <1>5 DEF Repairs!Reproduce
<1> QED BY <1>1, <1>2, <1>3, <1>4, <1>5 DEF Repairs!Next

FindingsOK == HistoryOK(reviews, Scopes!Collisions(reviews))

\* A required finding that is open and not any more was closed on a latest pass.
ClosedRightly ==
    \A id \in DOMAIN OpenNow :
        OpenNow[id].required /\ id \notin DOMAIN OpenNow' =>
            \E r \in Repairs!Last(reviews').resolutions : OnLatestPass(r)

\* Such a review keeps the invariant and closes on the latest pass.
LEMMA ReviewStep ==
    ASSUME ScopesDiffer, FindingsOK, NEW review, Adds(review) PROVE FindingsOK' /\ ClosedRightly
<1> DEFINE collisions == Scopes!Collisions(reviews)
<1>0. \E A : reviews \in Seq(A)
  BY DEF FindingsOK, HistoryOK
<1>1. Scopes!Collisions(reviews') = collisions
  BY <1>0, NoCollision DEF Adds
<1>2. Legal(OpenNow, review, collisions) /\ ReviewIs(review)
  BY DEF Legal, Adds
<1>3. HistoryOK(reviews, collisions)
  BY DEF FindingsOK
<1> HIDE DEF collisions
<1>4. LeftOpen(reviews, collisions) = OpenNow
  BY DEF OpenNow, collisions
<1>5. /\ HistoryOK(reviews', collisions)
      /\ LeftOpen(reviews', collisions) = Scopes!AfterReview(OpenNow, review, collisions)
  BY <1>2, <1>3, <1>4, HistoryGrows DEF Adds
<1>6. HistoryOK(reviews', Scopes!Collisions(reviews'))
  BY <1>1, <1>5
<1>7. OpenNow' = LeftOpen(reviews', Scopes!Collisions(reviews'))
  BY DEF OpenNow
<1>8. OpenNow' = Scopes!AfterReview(OpenNow, review, collisions)
  BY <1>1, <1>5, <1>7
<1>9. Repairs!Last(reviews') = review
  <2>1. PICK A : reviews \in Seq(A)
    BY <1>0
  <2>2. reviews \in Seq(A \cup {review}) /\ review \in A \cup {review}
    BY <2>1, SeqOfMore
  <2>3. Len(reviews') = Len(reviews) + 1 /\ reviews'[Len(reviews) + 1] = review
    BY <2>2, AppendProperties DEF Adds
  <2> QED BY <2>3 DEF Repairs!Last
<1>10. OpenOK(OpenNow)
  BY <1>3, <1>4 DEF HistoryOK
<1>11. ASSUME NEW id \in DOMAIN OpenNow, id \notin DOMAIN OpenNow'
       PROVE  \E r \in Repairs!Last(reviews').resolutions : OnLatestPass(r)
  <2>1. ClosesFor(review, OpenNow[id].task)
    BY <1>2, <1>8, <1>10, <1>11, AfterOne
  <2>2. PICK r \in review.resolutions : Scopes!Closes(r)
    BY <2>1 DEF ClosesFor
  <2> QED BY <1>9, <2>2 DEF Adds
<1>12. ClosedRightly
  BY <1>11 DEF ClosedRightly
<1>13. FindingsOK' = HistoryOK(reviews', Scopes!Collisions(reviews'))
  BY DEF FindingsOK
<1> QED BY <1>6, <1>12, <1>13

\* The reviews there at first are none, or an old one and a new one.
LEMMA FindingsStart == ASSUME ScopesDiffer, ProductInit PROVE FindingsOK
<1> DEFINE first == Report(item1, 1)
           second == Report(item2, 1)
           whole == Report(Feature, 2)
<1>1. reviews \in {<<first, second>>, <<first>>, <<whole>>}
  <2>1. reviews \in {<<first, second>>, <<first>>, <<whole>>} \/ reviews \in {<<whole>>}
    BY DEF ProductInit, Scopes!Init, Repairs!Init
  <2> QED BY <2>1
<1>2. ReviewIs(first) /\ ReviewIs(second) /\ ReviewIs(whole)
  <2> DEFINE f == [problem |-> problem, required |-> TRUE, evidence |-> {}]
  <2>1. first.found = {f} /\ second.found = {f} /\ whole.found = {f} /\ f.problem = problem
    BY DEF Report
  <2>2. first.task = item1 /\ second.task = item2 /\ whole.task = Feature
    BY DEF Report
  <2> HIDE DEF first, second, whole, f
  <2> QED BY <2>1, <2>2 DEF ReviewIs, Owners
<1>3. /\ first.version = 1 /\ second.version = 1 /\ first.task = item1 /\ second.task = item2
      /\ \E f \in first.found : f.problem = problem
      /\ \E f \in second.found : f.problem = problem
  BY DEF Report
<1> HIDE DEF first, second, whole
<1>4. ASSUME NEW review, ReviewIs(review), NEW collisions PROVE HistoryOK(<<review>>, collisions)
  <2>1. HistoryOK(<<>>, collisions)
    BY NoReviews
  <2>2. LeftOpen(<<>>, collisions) = <<>>
    <3>1. <<>> \in Seq({1}) /\ 1 \in {1}
      OBVIOUS
    <3> QED BY <3>1, OneMoreReview
  <2>3. Legal(LeftOpen(<<>>, collisions), review, collisions)
    BY <2>2 DEF Legal
  <2>4. Append(<<>>, review) = <<review>>
    OBVIOUS
  <2> QED BY <1>4, <2>1, <2>3, <2>4, HistoryGrows
<1>5. ASSUME reviews = <<first, second>> PROVE FindingsOK
  <2>1. problem \in Scopes!Collisions(reviews)
    <3>1. 1 \in DOMAIN reviews /\ 2 \in DOMAIN reviews /\ reviews[1] = first /\ reviews[2] = second
      <4>1. DOMAIN <<first, second>> = 1..2 /\ 1 \in 1..2 /\ 2 \in 1..2
        OBVIOUS
      <4>2. <<first, second>>[1] = first /\ <<first, second>>[2] = second
        OBVIOUS
      <4> QED BY <1>5, <4>1, <4>2
    <3>2. problem \in {problem}
      OBVIOUS
    <3> QED BY <1>3, <3>1, <3>2 DEF Scopes!Collisions, ScopesDiffer
  <2>2. HistoryOK(<<first>>, Scopes!Collisions(reviews))
    BY <1>2, <1>4
  <2>3. Legal(LeftOpen(<<first>>, Scopes!Collisions(reviews)), second, Scopes!Collisions(reviews))
    BY <2>1 DEF Legal
  <2>4. Append(<<first>>, second) = reviews
    <3> DEFINE both == <<first, second>>
               A == {first, second}
    <3>1. <<first>> \in Seq(A) /\ Len(<<first>>) = 1 /\ <<first>>[1] = first /\ second \in A
      OBVIOUS
    <3>2. /\ Append(<<first>>, second) \in Seq(A) /\ Len(Append(<<first>>, second)) = 2
          /\ Append(<<first>>, second)[1] = first /\ Append(<<first>>, second)[2] = second
      BY <3>1, AppendProperties
    <3>3. both \in Seq(A) /\ Len(both) = 2 /\ both[1] = first /\ both[2] = second
      OBVIOUS
    <3> HIDE DEF both, A
    <3>4. \A i \in 1..2 : Append(<<first>>, second)[i] = both[i]
      BY <3>2, <3>3
    <3>5. Append(<<first>>, second) = both
      BY <3>2, <3>3, <3>4, SeqEqual
    <3> QED BY <1>5, <3>5 DEF both
  <2>5. HistoryOK(Append(<<first>>, second), Scopes!Collisions(reviews))
    BY <1>2, <2>2, <2>3, HistoryGrows
  <2> QED BY <2>4, <2>5 DEF FindingsOK
<1> QED BY <1>1, <1>2, <1>4, <1>5 DEF FindingsOK

\* No required finding has vanished.
LEMMA FindingsFollow == ASSUME FindingsOK PROVE Scopes!NothingVanishes
<1>1. Scopes!OutstandingFeedback(reviews) = OpenNow
  BY Outstanding DEF OpenNow
<1>2. Standing(reviews, OpenNow)
  BY DEF FindingsOK, HistoryOK, OpenNow
<1> HIDE DEF OpenNow
<1>3. Standing(reviews, Scopes!OutstandingFeedback(reviews))
  BY <1>1, <1>2
<1> QED BY <1>3 DEF Standing, OpenFor, Scopes!NothingVanishes

\* A required finding that some review reported stays on the list until a review of its slice or of the
\* feature closes it, and a review takes it off only on a run of a check on the current product whose
\* last result is a pass (findings.ts:44-84, feedback.ts:400-520): whatever is reported, run, linked,
\* edited and judged, in any order, for old reviews that name no owner and new ones.
THEOREM FindingsAlwaysStand == ASSUME ScopesDiffer PROVE ProductSpec => FindingsStand
<1>1. ProductInit => FindingsOK
  BY FindingsStart
<1>2. [InDisputes \/ InTester \/ InScopes \/ InRepairs \/ InPage]_<<part, vars, testerVars, findingVars, pageVars>>
      => reviews' = reviews \/ \E review : Adds(review)
  <2>1. UNCHANGED findingVars => reviews' = reviews
    BY DEF findingVars
  <2>2. InScopes => reviews' = reviews \/ \E review : Adds(review)
    BY ScopesSteps DEF InScopes
  <2>3. InRepairs => reviews' = reviews \/ \E review : Adds(review)
    BY RepairsSteps DEF InRepairs
  <2> QED BY <2>1, <2>2, <2>3 DEF InDisputes, InTester, InPage
<1>3. ASSUME FindingsOK, reviews' = reviews PROVE FindingsOK'
  BY <1>3 DEF FindingsOK
<1>4. ASSUME FindingsOK, reviews' = reviews \/ \E review : Adds(review)
      PROVE  FindingsOK' /\ (reviews' # reviews => ClosedRightly)
  BY <1>3, <1>4, ReviewStep
<1>5. FindingsOK => Scopes!NothingVanishes
  BY FindingsFollow
<1>6. ASSUME reviews' # reviews => ClosedRightly
      PROVE  reviews' # reviews =>
               LET after == Repairs!OutstandingFeedback(reviews')
               IN  \A id \in {id \in DOMAIN Repairs!OutstandingFeedback(reviews) :
                                  Repairs!OutstandingFeedback(reviews)[id].required} :
                      id \notin DOMAIN after =>
                          \E r \in Repairs!Last(reviews').resolutions : \E n \in r.evidence :
                              LET same == {m \in DOMAIN runs : /\ runs[m].source = found
                                                               /\ runs[m].check = runs[n].check
                                                               /\ runs[m].task = runs[n].task}
                              IN  runs[n].passed /\ same # {} /\ runs[Repairs!Max(same)].passed
  <2>1. Repairs!OutstandingFeedback(reviews) = OpenNow
    BY Outstanding DEF OpenNow
  <2>2. OpenNow' = LeftOpen(reviews', Scopes!Collisions(reviews'))
    BY DEF OpenNow
  <2>3. Repairs!OutstandingFeedback(reviews') = OpenNow'
    BY <2>2, Outstanding
  <2> HIDE DEF OpenNow
  <2> QED BY <1>6, <2>1, <2>3 DEF ClosedRightly, OnLatestPass
<1> QED BY <1>1, <1>2, <1>4, <1>5, <1>6, PTL DEF ProductSpec, FindingsStand, Repairs!ClosedOnLatestPass
=============================================================================
