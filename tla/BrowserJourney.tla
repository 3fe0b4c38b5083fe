---------------------------- MODULE BrowserJourney ----------------------------
(***************************************************************************)
(* A browser journey (testing/browser-journey.ts) with its session, its    *)
(* transport and the Chrome it starts: the journey's steps, its deadline,  *)
(* the caller's abort signal, the failure image, and the closing of the    *)
(* session, the browser, its profile and the project server.  Chrome may   *)
(* crash or not answer, the page may throw, ask for files it may not have  *)
(* or never show what is waited for, and VISP itself may end at any        *)
(* moment.  The body of a journey goes on by itself when its caller has    *)
(* given up on it: a race abandons a promise, it does not stop it.         *)
(***************************************************************************)
EXTENDS Naturals, Sequences, FiniteSets

CONSTANTS
    Actions,        \* of the journey: [kind, capture], a kind one of "input", "observe", "wait"
    MaxCaptures,    \* six
    Schemes,        \* of its URL: "http", "project", "file"
    Commands,       \* does the command listen to the host's signals? (cli product.ts:204)
    None

\* An action is done, the page's health looked at, and an image taken if it says so.
TasksOf(action) ==
    <<action.kind, "assert">> \o (IF action.capture THEN <<"capture">> ELSE <<>>)

Through[n \in 0..Len(Actions)] ==
    IF n = 0 THEN <<"navigate", "capture", "assert">> ELSE Through[n - 1] \o TasksOf(Actions[n])

\* executeJourney: the tasks of its actions in order, and an image of how they left the page.
Tasks ==
    LET unseen == Actions # <<>> /\ ~Actions[Len(Actions)].capture
    IN  Through[Len(Actions)] \o (IF unseen THEN <<"capture">> ELSE <<>>) \o <<"assert">>

VARIABLES
    listening, scheme,
    page,       \* what the product is: "fine", "throws", "refused" by its server, "lacks" what is awaited
    visp,       \* "running", "ended", "signalled"
    caller,     \* "server", "launch", "connect", "running", "image", "closing", "ended"
    at,         \* the task the body is at
    body,       \* "off", "next", or what it waits for: "send", "again", "sleep", "write"
    captures,   \* in the result
    written,    \* image files of the journey's own directory
    errors, gap, fetching, \* exceptions seen, file requests refused, one being answered
    signal,     \* the caller's abort signal
    leader, helpers, profile, connected, \* Chrome, its other processes, its profile, the socket
    server,
    closed, closing, \* session.close: "no", "writes", "stop", "remove", "done"
    stuck,      \* stopping Chrome was given up
    result      \* None until the journey returns or throws

subject == <<listening, scheme, page>>
progress == <<at, body, captures, written>>
seen == <<errors, gap, fetching>>
chrome == <<leader, helpers, profile, connected>>
close == <<closed, closing, stuck>>
vars == <<subject, visp, caller, progress, seen, signal, chrome, server, close, result>>

Init ==
    /\ listening \in Commands /\ scheme \in Schemes
    /\ page \in {"fine", "throws", "refused", "lacks"}
    /\ visp = "running" /\ caller = "server" /\ at = 1 /\ body = "off" /\ captures = 0 /\ written = 0
    /\ errors = FALSE /\ gap = FALSE /\ fetching = FALSE /\ signal = FALSE
    /\ leader = FALSE /\ helpers = FALSE /\ profile = FALSE /\ connected = FALSE /\ server = FALSE
    /\ closed = FALSE /\ closing = "no" /\ stuck = FALSE /\ result = None

Behavior == [status |-> "failed", kind |-> "behavior"]
Environment(status) == [status |-> status, kind |-> "environment"]
Late == [status |-> "timed-out", kind |-> "deadline"]
Completed == [status |-> "completed", kind |-> "none"]
Thrown == [status |-> "thrown", kind |-> "none"]

\* VISP's callbacks and timers run when nothing that need not wait is left to run.
Idle == visp = "running" /\ body # "next"

\* session.close: nothing is recorded any more; what remains are the steps of Closing.
CloseSession == closed' = TRUE /\ closing' = (IF closing = "no" THEN "writes" ELSE closing)

\* The socket is gone; a file request being answered fails with it.
Disconnect == connected' = FALSE /\ fetching' = FALSE /\ gap' = (gap \/ fetching) /\ UNCHANGED errors

-----------------------------------------------------------------------------
(* Startup *)

startProjectServer ==
    /\ Idle /\ caller = "server"
    /\ \/ signal /\ result' = Environment("cancelled") /\ caller' = "ended" /\ UNCHANGED server
       \/ ~signal /\ server' = (scheme = "project") /\ caller' = "launch" /\ UNCHANGED result
    /\ UNCHANGED <<subject, visp, progress, seen, signal, chrome, close>>

\* The profile is made first; without a Chrome to start, closing begins at once.
launchChrome ==
    /\ Idle /\ caller = "launch" /\ profile' = TRUE
    /\ \/ /\ leader' = TRUE /\ helpers' \in BOOLEAN /\ caller' = "connect"
          /\ UNCHANGED <<close, result>>
       \/ /\ caller' = "closing" /\ result' = Thrown /\ closing' = "stop"
          /\ UNCHANGED <<leader, helpers, closed, stuck>>
    /\ UNCHANGED <<subject, visp, progress, seen, signal, connected, server>>

\* The endpoint, the socket and the first messages to the page, each with its own time limit.
connect ==
    /\ Idle /\ caller = "connect"
    /\ \/ /\ leader /\ connected' = TRUE /\ caller' = "running" /\ body' = "next"
          /\ UNCHANGED <<close, result>>
       \/ /\ caller' = "closing" /\ result' = Thrown /\ closing' = "stop"
          /\ UNCHANGED <<connected, body, closed, stuck>>
    /\ UNCHANGED <<subject, visp, at, captures, written, seen, signal, leader, helpers, profile, server>>

-----------------------------------------------------------------------------
(* How the body of a journey ends *)

Ends(outcome) == result' = outcome /\ caller' = "closing" /\ CloseSession

\* failedJourney, in the order it looks at the cause.
Failure(cause) ==
    IF cause = "behavior" THEN Behavior
    ELSE IF cause # "security" /\ signal THEN Environment("cancelled")
    ELSE IF cause \in {"failed", "timed-out"} THEN Environment(cause) ELSE Thrown

\* A behavior failure is first shown in an image, if there is room for one.  An abandoned body
\* changes nothing; an image that fails leaves the failure as it is.
Throws(cause) ==
    /\ \/ /\ caller = "running" /\ cause = "behavior" /\ captures < MaxCaptures
          /\ caller' = "image" /\ at' = Len(Tasks) + 1
          /\ body' = (IF closed \/ ~connected THEN "off" ELSE "send")
          /\ UNCHANGED <<result, closed, closing>>
       \/ /\ caller = "running" /\ (cause # "behavior" \/ captures >= MaxCaptures)
          /\ Ends(Failure(cause)) /\ body' = "off" /\ UNCHANGED at
       \/ /\ caller = "image"
          /\ Ends(IF cause = "security" THEN Thrown ELSE Behavior) /\ body' = "off" /\ UNCHANGED at
       \/ /\ caller \notin {"running", "image"}
          /\ body' = "off" /\ UNCHANGED <<at, caller, result, closed, closing>>
    /\ UNCHANGED <<subject, visp, captures, seen, signal, chrome, server, stuck>>

Stays == UNCHANGED <<subject, visp, caller, seen, signal, chrome, server, close, result>>

Waits(for) == body' = for /\ UNCHANGED <<at, captures>> /\ Stays

Proceeds == body' = "next" /\ at' = at + 1 /\ UNCHANGED captures /\ Stays

-----------------------------------------------------------------------------
(* The body *)

Task == IF at > Len(Tasks) THEN "capture" ELSE Tasks[at]

\* What runs without waiting, before each task: executeJourney and the entry of what it calls.
Begin ==
    /\ visp = "running" /\ body = "next" /\ UNCHANGED written
    /\ LET interrupted == Task \notin {"capture", "assert"} /\ (signal \/ caller # "running") IN
       \/ interrupted /\ Throws("aborted")
       \/ /\ ~interrupted /\ Task \in {"assert", "observe"} /\ errors /\ Throws("behavior")
       \/ /\ Task = "assert" /\ ~errors /\ at = Len(Tasks) /\ caller = "running"
          /\ Ends(Completed) /\ body' = "off"
          /\ UNCHANGED <<subject, visp, at, captures, seen, signal, chrome, server, stuck>>
       \/ Task = "assert" /\ ~errors /\ at < Len(Tasks) /\ Proceeds
       \/ /\ ~interrupted /\ Task = "wait" /\ Waits("sleep")
       \/ /\ ~interrupted /\ Task \in {"navigate", "input", "observe", "capture"}
          /\ Task = "observe" => ~errors
          /\ \/ closed /\ Throws("closed")
             \/ ~closed /\ Waits("send")

\* Bug: a capture does not look again whether its session is still open.
BugAfterWrite ==
    \/ gap /\ Throws("security")
    \/ ~gap /\ captures' = captures + 1 /\ body' = "next" /\ at' = at + 1 /\ Stays

\* What is captured counts if the session is still open and no file was refused meanwhile.
AfterWrite ==
    \/ closed /\ Throws("closed")
    \/ ~closed /\ gap /\ Throws("security")
    \/ /\ ~closed /\ ~gap /\ captures' = captures + 1
       /\ IF caller = "image"
          THEN Ends(Behavior) /\ body' = "off" /\ UNCHANGED <<subject, visp, at, seen, signal, chrome, server, stuck>>
          ELSE body' = "next" /\ at' = at + 1 /\ Stays

\* The page's answer to what was sent last.
Answered ==
    /\ Idle /\ body \in {"send", "again"} /\ connected /\ ~fetching /\ UNCHANGED written
    /\ \/ /\ Task = "navigate"
          /\ \/ closed /\ Throws("closed")
             \/ ~closed /\ gap /\ Throws("security")
             \/ ~closed /\ ~gap /\ page = "refused" /\ Throws("behavior")
             \/ ~closed /\ ~gap /\ page # "refused" /\ Proceeds
       \/ /\ Task = "input"
          /\ \/ closed /\ Throws("closed")
             \/ ~closed /\ Proceeds
       \/ /\ Task = "observe"
          /\ \/ errors /\ Throws("behavior")
             \/ ~errors /\ closed /\ Throws("closed")
             \/ ~errors /\ ~closed /\ page # "lacks" /\ Proceeds
             \/ ~errors /\ page = "lacks" /\ body = "send" /\ Waits("sleep")
             \/ ~errors /\ ~closed /\ page = "lacks" /\ body = "again" /\ Throws("behavior")
       \/ /\ Task = "capture"
          /\ \/ closed /\ Throws("closed")
             \/ ~closed /\ gap /\ Throws("security")
             \/ ~closed /\ ~gap /\ Waits("write")

\* An error in place of an answer, none in time, or no Chrome any more; a file refused meanwhile
\* is what is reported.
Unanswered ==
    /\ Idle /\ body \in {"send", "again"} /\ ~fetching /\ UNCHANGED written
    /\ \E cause \in IF connected THEN {"failed", "timed-out"} ELSE {"failed"} :
          Throws(IF gap THEN "security" ELSE cause)

WriteFile ==
    /\ Idle /\ body = "write" /\ ~fetching
    /\ \/ written' = written + 1 /\ AfterWrite
       \/ UNCHANGED written /\ Throws("error")

\* Between two looks at the page, or a wait: it is cut short by the signal.
Wakes ==
    /\ Idle /\ body = "sleep" /\ UNCHANGED written
    /\ \/ (signal \/ caller # "running") /\ Throws("aborted")
       \/ /\ ~signal /\ caller = "running"
          /\ \/ Task = "wait" /\ Proceeds
             \/ Task = "observe" /\ errors /\ Throws("behavior")
             \/ Task = "observe" /\ ~errors /\ Waits("again")

-----------------------------------------------------------------------------
(* The caller *)

Deadline ==
    /\ Idle /\ caller = "running" /\ body # "off"
    /\ Ends(IF signal THEN Environment("cancelled") ELSE Late)
    /\ UNCHANGED <<subject, visp, progress, seen, signal, chrome, server, stuck>>

\* The image of a failure has at most ten seconds, and needs an open session.
ImageTimesOut ==
    /\ Idle /\ caller = "image" /\ Ends(Behavior)
    /\ UNCHANGED <<subject, visp, progress, seen, signal, chrome, server, stuck>>

\* The images being written are awaited, then the socket is closed.
SettleWrites ==
    /\ Idle /\ closing = "writes" /\ body # "write"
    /\ closing' = "stop" /\ Disconnect
    /\ UNCHANGED <<subject, visp, caller, progress, signal, leader, helpers, profile, server, closed,
                   stuck, result>>

\* Bug: a Chrome that has already exited needs no stopping.
BugStopChild ==
    /\ Idle /\ closing = "stop" /\ closing' = "remove"
    /\ leader' = FALSE /\ helpers' = (helpers /\ ~leader)
    /\ stuck' \in IF leader THEN BOOLEAN ELSE {FALSE}
    /\ UNCHANGED <<subject, visp, caller, progress, seen, signal, profile, connected, server, closed, result>>

\* SIGTERM, then SIGKILL, to Chrome; SIGKILL to whatever is left of its group.  Its exit is
\* awaited two seconds.
stopChild ==
    /\ Idle /\ closing = "stop" /\ closing' = "remove"
    /\ leader' = FALSE /\ helpers' = FALSE
    /\ stuck' \in IF leader THEN BOOLEAN ELSE {FALSE}
    /\ UNCHANGED <<subject, visp, caller, progress, seen, signal, profile, connected, server, closed, result>>

RemoveProfile ==
    /\ Idle /\ closing = "remove" /\ closing' = "done" /\ profile' = FALSE
    /\ UNCHANGED <<subject, visp, caller, progress, seen, signal, leader, helpers, connected, server,
                   closed, stuck, result>>

\* A journey past its deadline looks at the signal once more when it has closed.
Return ==
    /\ Idle /\ caller = "closing" /\ closing = "done" /\ caller' = "ended" /\ server' = FALSE
    /\ result' = IF stuck THEN Thrown
                 ELSE IF result = Late /\ signal THEN Environment("cancelled") ELSE result
    /\ UNCHANGED <<subject, visp, progress, seen, signal, chrome, close>>

-----------------------------------------------------------------------------
(* The host, Chrome and the page *)

\* SIGINT or SIGTERM: the command's abort signal, or, for one that does not listen, the end of
\* VISP without its exit hooks.  Chrome is in a group of its own.
HostSignals ==
    /\ Idle /\ caller # "ended" /\ ~signal /\ signal' = TRUE
    /\ IF ~listening
       THEN visp' = "signalled" /\ UNCHANGED <<server, closed, closing>>
       ELSE /\ UNCHANGED visp
            /\ IF caller \in {"running", "image"} THEN CloseSession /\ server' = FALSE
               ELSE UNCHANGED <<server, closed, closing>>
    /\ UNCHANGED <<subject, caller, progress, seen, chrome, stuck, result>>

\* VISP exits, or an error nobody catches ends it: its exit hook kills each live Chrome's group.
VispExits ==
    /\ Idle /\ visp' = "ended" /\ leader' = FALSE /\ helpers' = (helpers /\ ~leader)
    /\ UNCHANGED <<subject, caller, progress, seen, signal, profile, connected, server, close, result>>

ChromeCrashes ==
    /\ leader /\ leader' = FALSE /\ Disconnect
    /\ UNCHANGED <<subject, visp, caller, progress, signal, helpers, profile, server, close, result>>

Talks == Idle /\ connected

\* Bug: exceptions still count when the session is closed, as when its server is gone.
BugApplicationException ==
    /\ Talks /\ ~errors /\ (page = "throws" \/ (scheme = "project" /\ ~server)) /\ errors' = TRUE
    /\ UNCHANGED <<subject, visp, caller, progress, gap, fetching, signal, chrome, server, close, result>>

\* An exception of the page, or of one whose server is gone; a closed session hears of none.
ApplicationException ==
    /\ Talks /\ ~errors /\ ~closed /\ (page = "throws" \/ (scheme = "project" /\ ~server)) /\ errors' = TRUE
    /\ UNCHANGED <<subject, visp, caller, progress, gap, fetching, signal, chrome, server, close, result>>

FileRequested ==
    /\ Talks /\ scheme = "file" /\ ~fetching /\ ~gap /\ ~closed /\ fetching' = TRUE
    /\ UNCHANGED <<subject, visp, caller, progress, errors, gap, signal, chrome, server, close, result>>

\* The file as it is, or a refusal.
fulfill ==
    /\ Talks /\ fetching /\ fetching' = FALSE /\ gap' \in BOOLEAN
    /\ UNCHANGED <<subject, visp, caller, progress, errors, signal, chrome, server, close, result>>

-----------------------------------------------------------------------------
\* Fair, whatever Chrome and the page do: answers have time limits, and files can be read and
\* written.  So is fulfill, by itself: a page may ask for files again and again.
Step ==
    \/ startProjectServer \/ launchChrome \/ connect
    \/ Begin \/ Answered \/ Unanswered \/ WriteFile \/ Wakes
    \/ Deadline \/ ImageTimesOut \/ SettleWrites \/ stopChild \/ RemoveProfile \/ Return

Next ==
    \/ Step \/ fulfill \/ HostSignals \/ VispExits \/ ChromeCrashes \/ ApplicationException \/ FileRequested

Spec == Init /\ [][Next]_vars

-----------------------------------------------------------------------------

\* Chrome is connected to only while it runs, and nothing is counted that was not written.
TypeOK ==
    /\ visp \in {"running", "ended", "signalled"} /\ (connected /\ visp = "running" => leader)
    /\ captures <= written /\ captures <= MaxCaptures /\ at \in 1..(Len(Tasks) + 1)

\* When a journey has returned, and when VISP has exited, no Chrome of it runs; a journey that
\* returned leaves no helper, profile, server or write either (browser-journey.ts:273,
\* chrome-transport.ts:134).
NothingLeft ==
    /\ visp = "ended" => ~leader
    /\ caller = "ended" => ~leader /\ ~helpers /\ ~profile /\ ~server /\ body # "write"

\* chrome-transport.ts:134: a detached browser does not receive the signal a host sends to VISP,
\* "so every browser still running when visp exits is killed with its group here".
NoBrowserOutlivesVisp == visp # "running" => ~leader

\* A completed journey took every capture, saw no exception and no refused file, and the server
\* had the page; and what ends a journey from outside is never reported as its behavior
\* (browser-journey.ts:372).
JourneyTellsTruth ==
    /\ result = Completed =>
          /\ captures = Cardinality({i \in DOMAIN Tasks : Tasks[i] = "capture"})
          /\ ~errors /\ ~gap /\ page # "refused"
          /\ page = "lacks" => \A i \in DOMAIN Tasks : Tasks[i] # "observe"
    /\ result = Behavior => page # "fine"

\* A body its caller has given up on adds nothing to what was returned.
ResultSettled == [][result # None => captures' = captures]_vars
=============================================================================
