----------------------------- MODULE MCSettling -----------------------------
(***************************************************************************)
(* Three pieces of code that must come to an end, side by side: the        *)
(* initial state picks the one that runs, the others stay where they are.  *)
(* The lock, two writers in two processes of which one may die; file       *)
(* transactions with crashes and failures, and edits between updates; and  *)
(* a worker that follows `visp next`, through two slices, of which one may *)
(* depend on the other, with two reviews, or through one slice with three. *)
(***************************************************************************)
EXTENDS MCFileTransaction

CONSTANTS here, there    \* two processes

VARIABLES
    part,
    lockPc, round, lockDir, aged, temps, owner, recovery, recoveryAged, activeTokens, crashed,
    observed, names, remade, confirmed, result,
    status, active, works, runs, reviews, open, calls, failures, accepted, turn, answer, slips

lockVars == <<lockPc, round, lockDir, aged, temps, owner, recovery, recoveryAged, activeTokens,
              crashed, observed, names, remade, confirmed, result>>
adviceVars == <<status, active, works, runs, reviews, open, calls, failures, accepted, turn,
                answer, slips>>

\* Nobody else can tell whether the process of w1 lives; the one of w2 may die, and its file
\* operations may fail.
Lock == INSTANCE StateLock
    WITH pc <- lockPc, Processes <- {here, there}, ProcOf <- w1 :> here @@ w2 :> there,
         Sees <- {<<here, here>>, <<there, there>>, <<here, there>>},
         KnownNamespace <- TRUE, HardLinks <- FALSE, PromptPublish <- TRUE, PromptReclaim <- TRUE,
         AtomicClear <- TRUE, MaxRounds <- 2, Mortal <- {there}, Faulty <- {w2}

\* A finding of the feature's review names one slice's outcome or both; one of a slice's review that
\* outcome or the other's.
Named == [scope \in {"first", "second", "feature"} |->
            IF scope = "feature" THEN {<<"first">>, <<"second", "first">>}
            ELSE {<<"first">>, <<"second">>}]

TwoSlices == INSTANCE AdviceLoop
    WITH Brief <- <<"first", "second">>, Depends <- {}, Judgments <- {"satisfied", "failed", "unclear"},
         Reports <- Named, MaxCalls <- 2, MaxSlips <- 0, MaxVersions <- 12

\* The second slice depends on the first.
Ordered == INSTANCE AdviceLoop
    WITH Brief <- <<"first", "second">>, Depends <- {<<"second", "first">>},
         Judgments <- {"satisfied", "failed", "unclear"},
         Reports <- Named, MaxCalls <- 2, MaxSlips <- 1, MaxVersions <- 12

\* Here a finding names the outcome or nothing.
OneSlice == INSTANCE AdviceLoop
    WITH Brief <- <<"first">>, Depends <- {}, Judgments <- {"satisfied", "failed", "unclear"},
         Reports <- [scope \in {"first", "feature"} |->
                        IF scope = "feature" THEN {<<"first">>, <<>>} ELSE {}],
         MaxCalls <- 3, MaxSlips <- 0, MaxVersions <- 12

PartsInit ==
    /\ part \in {"lock", "transaction", "two slices", "ordered slices", "one slice"}
    /\ Lock!Init /\ Init
    /\ IF part = "one slice" THEN OneSlice!Init ELSE TwoSlices!Init

InLock == part = "lock" /\ UNCHANGED <<part, vars, adviceVars>>
InTransaction == part = "transaction" /\ UNCHANGED <<part, lockVars, adviceVars>>
InTwoSlices == part = "two slices" /\ UNCHANGED <<part, vars, lockVars>>
InOrdered == part = "ordered slices" /\ UNCHANGED <<part, vars, lockVars>>
InOneSlice == part = "one slice" /\ UNCHANGED <<part, vars, lockVars>>

LockNext == InLock /\ Lock!Next
TransactionNext == InTransaction /\ Next
TwoSlicesNext == InTwoSlices /\ TwoSlices!Next
OrderedNext == InOrdered /\ Ordered!Next
OneSliceNext == InOneSlice /\ OneSlice!Next

all == <<part, vars, lockVars, adviceVars>>

\* Each part under its own fairness.
PartsSpec ==
    /\ PartsInit /\ [][LockNext \/ TransactionNext \/ TwoSlicesNext \/ OrderedNext \/ OneSliceNext]_all
    /\ \A w \in Writers : WF_all(InLock /\ Lock!Progress(w)) /\ WF_all(InLock /\ Lock!Retry(w))
    /\ WF_all(InLock /\ Lock!AgeLockDir) /\ WF_all(InLock /\ Lock!AgeRecovery)
    /\ WF_all(InTransaction /\ OwnerStep)
    /\ WF_all(InTransaction /\ \E w \in Writers : Finish(w))
    /\ WF_all(InTransaction /\ \E w \in Writers : Begin(w))
    /\ WF_all(TwoSlicesNext \/ OrderedNext \/ OneSliceNext)

-----------------------------------------------------------------------------

\* No lock outlives its use: a token is active only inside its operation, and what a dead
\* process or a half-done publication left goes while somebody who can tell keeps trying
\* (state-lock.ts:247, :305, :384).
LockSettles ==
    []Lock!ActiveMeansHeld /\ Lock!DeadOwnerReclaimed /\ Lock!OwnerlessReclaimed

\* What next tells a worker to do, VISP does (status-next.ts against work.ts): it refuses only to work
\* on a slice that depends on one reopened since (work.ts:553), and on a closed slice that has a
\* finding which names none of its outcomes.
AdviceTaken ==
    /\ part = "two slices" => TwoSlices!RefusalsExplained
    /\ part = "ordered slices" => Ordered!RefusalsExplained
    /\ part = "one slice" => OneSlice!RefusalsExplained

EndsOrStalls ==
    CASE part = "two slices" -> turn = "stopped" \/ TwoSlices!Stalled
      [] part = "ordered slices" -> turn = "stopped" \/ Ordered!Stalled
      [] part = "one slice" -> turn = "stopped" \/ OneSlice!Stalled
      [] OTHER -> TRUE

\* A worker that follows next reaches an accepted feature or a handoff (README.md:56,
\* docs/critic.md:34) whatever the reviews say and however they fail, except that it may stop for
\* good at one of the two refusals of AdviceTaken or at an accept that repeats a review which left an
\* outcome unclear. It never runs in any other circle.
AdviceEnds == []<>EndsOrStalls
=============================================================================
