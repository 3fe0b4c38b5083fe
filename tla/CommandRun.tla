------------------------------ MODULE CommandRun ------------------------------
(***************************************************************************)
(* Running one command without a shell (core/exec.ts): the process group   *)
(* it owns, the timeout, the caller's abort signal, the short grace in     *)
(* which output of a finished command drains, and the one answer the       *)
(* caller gets.  The command may ignore SIGTERM or answer it with any exit *)
(* code, and its descendants may keep its output open after it exits.      *)
(* Node's callbacks are the actions; they run in any order they may.       *)
(***************************************************************************)
EXTENDS Naturals

CONSTANTS
    Codes,      \* exit codes; 0 is success
    None,       \* no answer yet
    Alive, NotStarted, \* a command without an exit code
    Failed,     \* the answer when the command could not be started
    TimeLimit,  \* is there a timeout?
    Abortable   \* may the caller abort?

VARIABLES
    root,           \* the command itself: Alive, its exit code, or NotStarted
    descendants,    \* is another process of its group alive?
    signalled,      \* SIGTERM was sent while the command was alive
    timer, grace,   \* are the timers armed?
    timedOut, aborted, exitCode, exitSeen,
    answer          \* None until the promise is resolved

vars == <<root, descendants, signalled, timer, grace, timedOut, aborted, exitCode, exitSeen, answer>>

Init ==
    /\ root \in {Alive, NotStarted} /\ descendants \in BOOLEAN /\ (root = NotStarted => descendants = FALSE)
    /\ signalled = FALSE /\ timer = TimeLimit /\ grace = FALSE
    /\ timedOut = FALSE /\ aborted = FALSE /\ exitCode = 1 /\ exitSeen = FALSE /\ answer = None

finished == answer # None

\* The processes.

Exit ==
    /\ root = Alive
    /\ \E c \in Codes : root' = c
    /\ UNCHANGED <<descendants, signalled, timer, grace, timedOut, aborted, exitCode, exitSeen, answer>>

DescendantsEnd ==
    /\ descendants /\ descendants' = FALSE
    /\ UNCHANGED <<root, signalled, timer, grace, timedOut, aborted, exitCode, exitSeen, answer>>

\* Bug: stopping waits for the group to end by itself.
BugStop == signalled' = (signalled \/ root = Alive) /\ UNCHANGED grace

\* SIGTERM to the group; whoever ignores it has 200 ms.
stop == signalled' = (signalled \/ root = Alive) /\ grace' = TRUE

Reported(late, cut, code) == IF late \/ cut THEN 1 ELSE code

\* SIGKILL to whatever is left of the group, then the answer.
finish(a) ==
    /\ answer' = a /\ timer' = FALSE /\ grace' = FALSE
    /\ root' = (IF root = Alive THEN 1 ELSE root) /\ descendants' = FALSE
    /\ UNCHANGED <<signalled, timedOut, aborted, exitCode, exitSeen>>

Output == [code |-> Reported(timedOut, aborted, exitCode), timedOut |-> timedOut, aborted |-> aborted]

\* Callbacks.

OnExit ==
    /\ root \notin {Alive, NotStarted} /\ ~exitSeen /\ ~finished
    /\ exitSeen' = TRUE /\ exitCode' = root /\ timer' = FALSE /\ stop
    /\ UNCHANGED <<root, descendants, timedOut, aborted, answer>>

\* All output has been read.
OnClose == exitSeen /\ ~descendants /\ ~finished /\ finish(Output)

OnError == root = NotStarted /\ ~finished /\ finish(Failed)

OnTimeout ==
    /\ timer /\ root # NotStarted /\ timer' = FALSE /\ timedOut' = TRUE /\ stop
    /\ UNCHANGED <<root, descendants, aborted, exitCode, exitSeen, answer>>

OnAbort ==
    /\ Abortable /\ ~aborted /\ ~finished /\ root # NotStarted
    /\ aborted' = TRUE /\ stop
    /\ UNCHANGED <<root, descendants, timer, timedOut, exitCode, exitSeen, answer>>

OnGrace == grace /\ ~finished /\ finish(Output)

Next == Exit \/ DescendantsEnd \/ OnExit \/ OnClose \/ OnError \/ OnTimeout \/ OnAbort \/ OnGrace

Spec == Init /\ [][Next]_vars

\* Timers fire and events are delivered; neither the command nor its caller must do anything.
Callback == OnExit \/ OnClose \/ OnError \/ OnTimeout \/ OnGrace

FairSpec == Spec /\ WF_vars(Callback)

-----------------------------------------------------------------------------

\* One of the documented answers, and timers only while there is none.
TypeOK ==
    /\ root \in Codes \cup {Alive, NotStarted}
    /\ answer \in {None, Failed} \cup [code : Codes, timedOut : BOOLEAN, aborted : BOOLEAN]
    /\ finished => ~timer /\ ~grace

\* Success is reported only of a command that exited with 0 before anything told it to stop
\* for a timeout or an abort; one that answers SIGTERM with 0 has not passed.
SuccessIsItsOwn ==
    finished /\ answer # Failed /\ answer.code = 0 => root = 0 /\ ~signalled

\* A timeout is only reported of a command whose exit nobody had seen in time.
TimeoutNotAfterExit == [][timedOut' /\ ~timedOut => ~exitSeen]_vars

\* When the caller has its answer, nothing of the group runs any more (exec.ts:32, "owns the
\* process group").
GroupReaped == finished => root # Alive /\ ~descendants

\* With a timeout every run is answered, whatever the command does with its signals and output.
Answered == TimeLimit => <>finished
=============================================================================
