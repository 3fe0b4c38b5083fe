---------------------------- MODULE DashboardPage ----------------------------
(***************************************************************************)
(* What the dashboard's page shows while the repository changes: the       *)
(* server watches .visp/ and batches what it sees (ui/watcher.ts), tells   *)
(* the page over an event stream (ui/server.ts), and the page fetches      *)
(* again, re-reads now and then, and reconnects (ui/src/live.ts,           *)
(* resources.ts).  Requests overlap: nothing ties their answers to the     *)
(* order in which they were made, and none is discarded.                   *)
(*                                                                         *)
(* The overview depends on .visp/ alone; the open feature also on the      *)
(* product's own files, which nobody watches.  Contents are counted.       *)
(***************************************************************************)
EXTENDS Naturals, Sequences, SequencesExt

CONSTANTS
    Resources,  \* what the page shows: "overview", "feature"
    MaxChanges, \* bound: changes of .visp/ and of product files
    MaxDrops,   \* bound: streams dropped
    MaxFailures, \* bound: requests without an answer
    InFlight,   \* bound: requests under way for one resource
    None

VARIABLES
    recorded, product,  \* versions of .visp/ and of the product's files
    noticed, pending,   \* a file event under way; a batch waiting for its timer
    stream,     \* "down", "opening" or "open"
    event,      \* a change event is on its way to the page
    polling, rereading, settling,   \* the page's timers
    visible,
    requests,   \* per resource, those under way: what was shown then, what the server read and, as
                \* history of those for the overview, did a later one overtake it?
    shown,
    given,      \* history: the overviews the page was given
    outdated,   \* history: was the request for one answered last an overtaken one?
    drops, failures

server == <<recorded, product, noticed, pending>>
page == <<polling, rereading, settling, visible>>
history == <<given, outdated>>
vars == <<server, stream, event, page, requests, shown, history, drops, failures>>

Content(r) == IF r = "overview" THEN recorded ELSE recorded + product

Init ==
    /\ recorded = 0 /\ product = 0 /\ noticed = FALSE /\ pending = FALSE
    /\ stream = "opening" /\ event = FALSE
    /\ polling = TRUE /\ rereading = FALSE /\ settling = FALSE /\ visible = TRUE
    /\ requests = [r \in Resources |-> <<>>] /\ shown = [r \in Resources |-> 0] /\ drops = 0 /\ failures = 0
    /\ given = {0} /\ outdated = FALSE

-----------------------------------------------------------------------------
(* The repository and the server *)

Record ==
    /\ recorded < MaxChanges /\ recorded' = recorded + 1 /\ noticed' = TRUE
    /\ UNCHANGED <<product, pending, stream, event, page, requests, shown, history, drops, failures>>

EditProduct ==
    /\ product < MaxChanges /\ product' = product + 1
    /\ UNCHANGED <<recorded, noticed, pending, stream, event, page, requests, shown, history, drops, failures>>

Notice ==
    /\ noticed /\ noticed' = FALSE /\ pending' = TRUE
    /\ UNCHANGED <<recorded, product, stream, event, page, requests, shown, history, drops, failures>>

\* The batch goes to the streams that are open.
Flush ==
    /\ pending /\ pending' = FALSE
    /\ event' = (event \/ stream = "open")
    /\ UNCHANGED <<recorded, product, noticed, stream, page, requests, shown, history, drops, failures>>

UnderWay(r, i) == r \in DOMAIN requests /\ i \in DOMAIN requests[r]

Read(r, i) ==
    /\ UnderWay(r, i) /\ requests[r][i].answer = None
    /\ requests' = [requests EXCEPT ![r][i].answer = Content(r)]
    /\ UNCHANGED <<server, stream, event, page, shown, history, drops, failures>>

-----------------------------------------------------------------------------
(* The page *)

Room(rs) == \A r \in rs \cap DOMAIN requests : Len(requests[r]) < InFlight

Load(rs) ==
    /\ Room(rs)
    /\ requests' = [r \in DOMAIN requests |->
          IF r \in rs THEN Append(requests[r], [kept |-> shown[r], answer |-> None, overtaken |-> FALSE])
          ELSE requests[r]]

\* Bug: a recovered connection does not make up for the events it missed.
BugHello ==
    /\ stream = "opening" /\ stream' = "open"
    /\ polling' = FALSE /\ rereading' = TRUE
    /\ UNCHANGED <<server, event, settling, visible, requests, shown, history, drops, failures>>

\* The stream is open: slower re-reads replace the polling, and everything is fetched once.
Hello ==
    /\ stream = "opening" /\ stream' = "open"
    /\ polling' = FALSE /\ rereading' = TRUE
    /\ Load(Resources)
    /\ UNCHANGED <<server, event, settling, visible, shown, history, drops, failures>>

OnChange ==
    /\ event /\ stream = "open" /\ event' = FALSE /\ settling' = TRUE
    /\ Load(Resources)
    /\ UNCHANGED <<server, stream, polling, rereading, visible, shown, history, drops, failures>>

rereadFeature == IF visible THEN Load({"feature"}) ELSE UNCHANGED requests

Settle ==
    /\ settling /\ settling' = FALSE /\ rereadFeature
    /\ UNCHANGED <<server, stream, event, polling, rereading, visible, shown, history, drops, failures>>

Reread ==
    /\ rereading /\ visible /\ rereadFeature
    /\ UNCHANGED <<server, stream, event, page, shown, history, drops, failures>>

Poll ==
    /\ polling /\ visible /\ rereadFeature
    /\ UNCHANGED <<server, stream, event, page, shown, history, drops, failures>>

Error ==
    /\ stream # "down" /\ drops < MaxDrops /\ drops' = drops + 1
    /\ stream' = "down" /\ event' = FALSE
    /\ rereading' = FALSE /\ settling' = FALSE /\ polling' = TRUE
    /\ UNCHANGED <<server, visible, requests, shown, history, failures>>

Connect ==
    /\ stream = "down" /\ stream' = "opening" /\ polling' = TRUE
    /\ UNCHANGED <<server, event, rereading, settling, visible, requests, shown, history, drops, failures>>

Hide ==
    /\ visible /\ visible' = FALSE
    /\ UNCHANGED <<server, stream, event, polling, rereading, settling, requests, shown, history, drops, failures>>

\* refreshVisible.
Show ==
    /\ ~visible /\ visible' = TRUE /\ Load(Resources)
    /\ UNCHANGED <<server, stream, event, polling, rereading, settling, shown, history, drops, failures>>

\* Requests under way, when the i-th overtakes those before it.
Overtaken(asked, i) ==
    [j \in DOMAIN asked |-> IF j < i THEN [asked[j] EXCEPT !.overtaken = TRUE] ELSE asked[j]]

\* fetchInto: whatever arrives is shown, in whatever order.
Deliver(r, i) ==
    /\ UnderWay(r, i) /\ requests[r][i].answer # None
    /\ shown' = [shown EXCEPT ![r] = requests[r][i].answer]
    /\ IF r = "overview"
       THEN /\ requests' = [requests EXCEPT ![r] = RemoveAt(Overtaken(@, i), i)]
            /\ given' = given \cup {requests[r][i].answer} /\ outdated' = requests[r][i].overtaken
       ELSE requests' = [requests EXCEPT ![r] = RemoveAt(@, i)] /\ UNCHANGED history
    /\ UNCHANGED <<server, stream, event, page, drops, failures>>

\* The server did not answer: the data of the moment of the request is kept.
Fail(r, i) ==
    /\ UnderWay(r, i) /\ failures < MaxFailures /\ failures' = failures + 1
    /\ shown' = [shown EXCEPT ![r] = requests[r][i].kept]
    /\ requests' = [requests EXCEPT ![r] = RemoveAt(@, i)]
    /\ UNCHANGED <<server, stream, event, page, history, drops>>

Next ==
    \/ Record \/ EditProduct \/ Notice \/ Flush
    \/ Hello \/ OnChange \/ Settle \/ Reread \/ Poll \/ Error \/ Connect \/ Hide \/ Show
    \/ \E r \in Resources, i \in 1..InFlight : Read(r, i) \/ Deliver(r, i) \/ Fail(r, i)

Spec == Init /\ [][Next]_vars

-----------------------------------------------------------------------------

\* Nothing is on its way to the page: no batch, no event, no request, no new connection.
Quiet ==
    /\ ~noticed /\ ~pending /\ ~event /\ stream = "open"
    /\ \A r \in Resources : requests[r] = <<>>

\* No change falls between two batches or into the time without a stream (live.ts:22-27): when
\* nothing is on its way, the page has been given the overview of what is recorded, whatever streams
\* dropped and whatever changed while they were down. It still shows it unless an answer came later
\* than that of a request made after its own. A page that lost its stream keeps asking.
NothingMissed ==
    /\ Quiet /\ failures = 0 =>
          /\ recorded \in given
          /\ shown["overview"] = recorded \/ outdated
    /\ stream # "open" => polling

\* "so checks, reviews and questions appear within a moment of being recorded"
\* (docs/dashboard.md:44). They do not if an older answer comes last and is shown (resources.ts:34-36).
ShowsLatest == Quiet /\ failures = 0 => shown["overview"] = recorded
=============================================================================
