------------------------------ MODULE Processes ------------------------------
(***************************************************************************)
(* Five pieces of code that wait for others, side by side: the initial     *)
(* state picks the one that runs, the others stay where they are.  Nested  *)
(* calls of the lock, a feedback loop of the runner, a command, the starts *)
(* of a dashboard, and a browser journey.                                  *)
(*                                                                         *)
(* The instance of Processes.cfg has three callers with calls nested two   *)
(* deep, a loop of two rounds, three starts of a dashboard (one of them of *)
(* an older build and with a port), and a journey that waits for an        *)
(* element, sends input and waits.                                         *)
(***************************************************************************)
EXTENDS StateScopes, TLC

CONSTANTS
    MaxRounds, ActorMax, ReviewMax, MaxDuration, MaxUsd, Criteria, Exercises, Sources, Sessions,
    Costs(_), MaxEdits,                                         \* of the loop
    Codes, Alive, NotStarted, Failed, TimeLimit, Abortable,     \* of the command
    Starts, BuildOf, RootOf, SlowPings, WithPort,               \* of the dashboard
    Actions, MaxCaptures, Schemes, Commands                     \* of the journey

VARIABLES
    part,
    loopPhase, round, clock, charged, turn, source, subject, session, last, failedFirst,
    checks, status, diagnosed, accepted, aborted, spent, overrun, edits,
    root, descendants, signalled, timer, grace, timedOut, cut, exitCode, exitSeen, answer,
    start, found, lease, reopenable,
    listening, scheme, page, visp, caller, at, body, captures, written, errors, gap, fetching,
    signal, leader, helpers, profile, connected, server, closed, closing, stuck, returned

loopVars == <<loopPhase, round, clock, charged, turn, source, subject, session, last, failedFirst,
              checks, status, diagnosed, accepted, aborted, spent, overrun, edits>>
commandVars == <<root, descendants, signalled, timer, grace, timedOut, cut, exitCode, exitSeen,
                 answer>>
dashboardVars == <<start, found, lease, reopenable>>
journeyVars == <<listening, scheme, page, visp, caller, at, body, captures, written, errors, gap,
                 fetching, signal, leader, helpers, profile, connected, server, closed, closing,
                 stuck, returned>>

Loop == INSTANCE FeedbackLoop WITH phase <- loopPhase

Command == INSTANCE CommandRun WITH aborted <- cut

Dashboard == INSTANCE DashboardLease WITH phase <- start, before <- reopenable, Absent <- None

Journey == INSTANCE BrowserJourney WITH result <- returned

\* What is left open at the start matters only to the part that runs.
First(S) == CHOOSE one \in S : TRUE

PartsInit ==
    /\ part \in {"scopes", "loop", "command", "dashboard", "journey"}
    /\ Init /\ Loop!Init /\ Command!Init /\ Dashboard!Init /\ Journey!Init
    /\ part # "journey" => page = "fine" /\ scheme = "file" /\ listening = FALSE
    /\ part # "loop" => source = First(Sources) /\ session = None
    /\ part # "command" => root = Alive /\ descendants = FALSE

InScopes == part = "scopes" /\ UNCHANGED <<part, loopVars, commandVars, dashboardVars, journeyVars>>
InLoop == part = "loop" /\ UNCHANGED <<part, vars, commandVars, dashboardVars, journeyVars>>
InCommand == part = "command" /\ UNCHANGED <<part, vars, loopVars, dashboardVars, journeyVars>>
InDashboard == part = "dashboard" /\ UNCHANGED <<part, vars, loopVars, commandVars, journeyVars>>
InJourney == part = "journey" /\ UNCHANGED <<part, vars, loopVars, commandVars, dashboardVars>>

ScopesNext == InScopes /\ Next
LoopNext == InLoop /\ Loop!Next
CommandNext == InCommand /\ Command!Next
DashboardNext == InDashboard /\ Dashboard!Next
JourneyNext == InJourney /\ Journey!Next

\* What happens by itself: see the fairness of each module.
Progress ==
    \/ InScopes /\ \E call \in Calls : Step(call)
    \/ InLoop /\ Loop!Step
    \/ InCommand /\ Command!Callback
    \/ InDashboard /\ Dashboard!Step
    \/ InJourney /\ Journey!Step

all == <<part, vars, loopVars, commandVars, dashboardVars, journeyVars>>

PartsSpec ==
    /\ PartsInit /\ [][ScopesNext \/ LoopNext \/ CommandNext \/ DashboardNext \/ JourneyNext]_all
    /\ WF_all(Progress) /\ WF_all(InJourney /\ Journey!fulfill)

-----------------------------------------------------------------------------

Resting ==
    CASE part = "scopes" -> \A call \in Calls : phase[call] \in {"unmade", "done"}
      [] part = "loop" -> loopPhase = "finished"
      [] part = "command" -> Command!finished
      [] part = "journey" -> caller = "ended" \/ visp # "running"
      [] OTHER -> \A s \in Starts : start[s] \in {"new", "reused", "leased", "ended", "crashed"}

\* Nothing waits for ever: nested calls of the lock return, an attempt of the runner ends, a
\* command is answered whatever it does with its signals and output, a start of the dashboard
\* reopens or serves one, or stops, and a journey returns whatever Chrome and the page do.
NothingHangs == []<>Resting

\* A loop's phases share its budget of money and leave the review its time (feedback-loop.ts:89).
LoopSharesBudget == Loop!WithinBudget /\ Loop!ReviewTimeReserved

\* Whoever is done leaves no process of its group, no lease, no browser, profile or server behind
\* (exec.ts:32, ui.ts:69, browser-journey.ts:273).
NothingLeftBehind == Command!GroupReaped /\ Dashboard!StoppedLeavesNoLease /\ Journey!NothingLeft

\* Success is what a review, or an exit code, said of the candidate, or of the command, as it was
\* left to end, and an answer is only given credit for what it was asked about: a review for the
\* frozen candidate, a timeout for a command still running, a reopened dashboard for this
\* repository and build, a journey's result for what the page did before it was decided
\* (run.ts:140, exec.ts:76, ui.ts:21, browser-journey.ts:372).
CreditIsEarned ==
    /\ [](Loop!CompletedOnPass /\ Command!SuccessIsItsOwn /\ Journey!JourneyTellsTruth)
    /\ Loop!JudgesFrozenCandidate /\ Command!TimeoutNotAfterExit /\ Dashboard!ReopensListening
    /\ Journey!ResultSettled

-----------------------------------------------------------------------------
(* The instance that is checked *)

CONSTANTS
    outer, apart, hasty, inner1, inner2, inmost,    \* calls
    here, again, old                                \* starts of the dashboard

\* Two calls lie in the outer one, and one in the first of them.
WithinCalls ==
    outer :> None @@ apart :> None @@ hasty :> None @@ inner1 :> outer @@ inner2 :> outer
        @@ inmost :> inner1

\* A turn reports no cost, none of its allocation or one unit more.
Reports(usd) == {None, 0, usd + 1}

Build == [s \in {here, again, old} |-> IF s = old THEN 1 ELSE 2]

Root == [s \in {here, again, old} |-> "repository"]

\* As many captures as there may be: a failure before the last one has an image, one after it none.
Waiting ==
    <<[kind |-> "observe", capture |-> FALSE], [kind |-> "input", capture |-> FALSE],
      [kind |-> "wait", capture |-> TRUE]>>
===============================================================================
