---------------------------- MODULE DashboardLease ----------------------------
(***************************************************************************)
(* Starting and stopping dashboards (cli/commands/ui.ts, ui/lease.ts).  A  *)
(* dashboard records where it listens in a lease, one file per repository, *)
(* so that the next start reopens it.  Nothing locks that file: it is      *)
(* written by whoever serves and removed by whoever stops.                 *)
(***************************************************************************)
EXTENDS Naturals, FiniteSets

CONSTANTS
    Starts,     \* the starts of `visp ui`, each a process of its own
    RootOf, BuildOf,    \* the repository and the build of each
    SlowPings,  \* may a running dashboard fail to answer within a second?
    WithPort,   \* those that name a port, and so never look for a lease
    Absent

Roots == {RootOf[s] : s \in Starts}

VARIABLES
    phase,      \* "new", "reading", "pinging", "starting", "serving", "leased", "stopping",
                \* "removed", "ended" (on its own), "reused", "crashed"
    found,      \* the lease a start has read
    lease,      \* per repository: whose lease it is
    before      \* history: the dashboards a start could have reopened, while they run

vars == <<phase, found, lease, before>>

Init ==
    /\ phase = [s \in Starts |-> "new"] /\ found = [s \in Starts |-> Absent]
    /\ lease = [r \in Roots |-> Absent] /\ before = [s \in Starts |-> {}]

Goto(s, to) == phase' = [phase EXCEPT ![s] = to]

Running(s) == phase[s] \notin {"new", "ended", "reused", "crashed"}
Listening(s) == phase[s] \in {"serving", "leased", "stopping", "removed"}

Reopenable(s) ==
    {t \in Starts \ {s} : /\ phase[t] = "leased" /\ RootOf[t] = RootOf[s] /\ BuildOf[t] = BuildOf[s]}

\* `visp ui`: with a port it serves at once.
Start(s) ==
    /\ phase[s] = "new"
    /\ Goto(s, IF s \in WithPort THEN "starting" ELSE "reading")
    /\ before' = [before EXCEPT ![s] = Reopenable(s)]
    /\ UNCHANGED <<found, lease>>

Usable(s, l) == l # Absent /\ BuildOf[l] = BuildOf[s] /\ Running(l)

ReadLease(s) ==
    /\ phase[s] = "reading"
    /\ found' = [found EXCEPT ![s] = lease[RootOf[s]]]
    /\ Goto(s, IF Usable(s, lease[RootOf[s]]) THEN "pinging" ELSE "starting")
    /\ UNCHANGED <<lease, before>>

\* The address is asked which build answers there, within a second.
Ping(s) ==
    /\ phase[s] = "pinging"
    /\ \/ Listening(found[s]) /\ Goto(s, "reused")
       \/ (Listening(found[s]) => SlowPings) /\ Goto(s, "starting")
    /\ UNCHANGED <<found, lease, before>>

Listen(s) ==
    /\ phase[s] = "starting" /\ Goto(s, "serving") /\ UNCHANGED <<found, lease, before>>

WriteLease(s) ==
    /\ phase[s] = "serving" /\ Goto(s, "leased")
    /\ lease' = [lease EXCEPT ![RootOf[s]] = s] /\ UNCHANGED <<found, before>>

Gone(s) == [t \in Starts |-> before[t] \ {s}]

\* SIGINT or SIGTERM; the handler first awaits the writing of the lease.
Stop(s) ==
    /\ phase[s] = "leased" /\ Goto(s, "stopping") /\ before' = Gone(s) /\ UNCHANGED <<found, lease>>

\* Whoever's lease it is by now.
RemoveLease(s) ==
    /\ phase[s] = "stopping" /\ Goto(s, "removed")
    /\ lease' = [lease EXCEPT ![RootOf[s]] = Absent] /\ UNCHANGED <<found, before>>

\* Bug: the server is closed and its lease left to the next start.
BugClose(s) ==
    /\ phase[s] = "stopping" /\ Goto(s, "ended") /\ UNCHANGED <<found, lease, before>>

Close(s) ==
    /\ phase[s] = "removed" /\ Goto(s, "ended") /\ UNCHANGED <<found, lease, before>>

Crash(s) ==
    /\ Running(s) /\ Goto(s, "crashed") /\ before' = Gone(s) /\ UNCHANGED <<found, lease>>

Next ==
    \E s \in Starts :
        \/ Start(s) \/ ReadLease(s) \/ Ping(s) \/ Listen(s) \/ WriteLease(s)
        \/ Stop(s) \/ RemoveLease(s) \/ Close(s) \/ Crash(s)

Spec == Init /\ [][Next]_vars

\* What a dashboard does once started, or once told to stop.
Step ==
    \E s \in Starts :
        ReadLease(s) \/ Ping(s) \/ Listen(s) \/ WriteLease(s) \/ RemoveLease(s) \/ Close(s)

FairSpec == Spec /\ WF_vars(Step)

-----------------------------------------------------------------------------

\* Who pings has a lease to ask about; a lease is of its repository.
TypeOK ==
    /\ lease \in [Roots -> Starts \cup {Absent}] /\ found \in [Starts -> Starts \cup {Absent}]
    /\ before \in [Starts -> SUBSET Starts]
    /\ \A s \in Starts : phase[s] \in {"pinging", "reused"} => found[s] # Absent
    /\ \A r \in Roots : lease[r] # Absent => RootOf[lease[r]] = r

\* A start that reopens sends its user to a dashboard of this repository and build that was
\* listening when it was asked, even if it is stopping.
ReopensListening ==
    [][\A s \in Starts : phase'[s] = "reused" /\ phase[s] # "reused" =>
          /\ Listening(found[s])
          /\ RootOf[found[s]] = RootOf[s] /\ BuildOf[found[s]] = BuildOf[s]]_vars

\* A dashboard that stopped leaves no lease of its own behind, even when stopped before it was
\* announced (ui.ts:69-70, "without a handler that kills it with the lease left behind").
StoppedLeavesNoLease ==
    \A r \in Roots : lease[r] # Absent => phase[lease[r]] # "ended"

\* docs/dashboard.md:9: "Run `visp ui` again in the same repository to reopen the running dashboard
\* instead of starting a second one."
ReopensRunning ==
    \A s \in Starts \ WithPort : phase[s] = "leased" => before[s] = {}
=============================================================================
