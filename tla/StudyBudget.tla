----------------------------- MODULE StudyBudget -----------------------------
(***************************************************************************)
(* The ledger from which attempts of one study reserve their whole         *)
(* estimated cost before they start.  A reservation is never refunded.     *)
(* Its record is chained to the one before, copied into the directory of   *)
(* its run and summed up in a projection; all of them are checked before   *)
(* the next reservation or a report.  Files may get lost by hand.          *)
(*                                                                         *)
(* Amounts are in fractions of a micro-dollar, PerMicro of them in one; a  *)
(* record stands for its own hash.                                         *)
(***************************************************************************)
EXTENDS WorkspaceFiles, Sequences, FiniteSetsExt

CONSTANTS
    Requests,           \* [run, approval, maximum]: what attempts ask for
    Approvals,
    CeilingOf,          \* the approved amount of each approval
    PerMicro,
    MaxReservations,    \* 10000 in the code
    MaxLosses           \* bound: files lost by hand

Runs == {r.run : r \in Requests}

ASSUME BudgetConstants ==
    /\ Requests \subseteq [run : Runs, approval : Approvals, maximum : Nat]
    /\ CeilingOf \in [Approvals -> Nat]
    /\ PerMicro \in Nat \ {0} /\ MaxReservations \in Nat /\ MaxLosses \in Nat
    /\ Absent \notin Requests /\ Absent \notin Approvals /\ NoOne \notin Processes

VARIABLES
    request,    \* what each process is reserving
    granted,    \* the requests whose reservation took effect
    losses

vars == <<files, request, granted, losses>>

ApprovalFile == <<"approval", 0>>
Projection == <<"projection", 0>>
ReservationFile(n) == <<"reservation", n>>
Copy(run) == <<"copy", run>>
Sequence == 1..(MaxReservations + 1)
FileNames == {ApprovalFile, Projection} \cup {ReservationFile(n) : n \in Sequence}
                \cup {Copy(r) : r \in Runs}

Init ==
    /\ FilesInit([f \in FileNames |-> Absent])
    /\ request = [p \in Processes |-> Absent] /\ granted = {} /\ losses = 0

-----------------------------------------------------------------------------
(* Reading the ledger *)

\* Attempts are rounded up to whole micro-dollars, ceilings down.
BugRoundUp(amount) == amount \div PerMicro

RoundUp(amount) == (amount + PerMicro - 1) \div PerMicro
RoundDown(amount) == amount \div PerMicro

Names(d) == {n \in Sequence : d[ReservationFile(n)] # Absent}

\* Does record n continue the chain, and does its run hold the same record?
ReservationSound(d, n) ==
    LET record == d[ReservationFile(n)]
        before == IF n = 1 THEN [head |-> d[ApprovalFile], cumulative |-> 0]
                  ELSE [head |-> d[ReservationFile(n - 1)],
                        cumulative |-> d[ReservationFile(n - 1)].cumulative]
    IN  /\ record.sequence = n /\ n <= MaxReservations /\ record.previous = before.head
        /\ record.approval = d[ApprovalFile]
        /\ record.cumulative = before.cumulative + RoundUp(record.maximum)
        /\ \A m \in 1..(n - 1) : d[ReservationFile(m)].run # record.run
        /\ d[Copy(record.run)] = record

Ledger(d) ==
    IF d[ApprovalFile] = Absent /\ d[Projection] = Absent /\ Names(d) = {}
    THEN IF \E r \in Runs : d[Copy(r)] # Absent THEN "broken" ELSE "none"
    ELSE IF /\ d[ApprovalFile] # Absent /\ d[Projection] # Absent
            /\ Names(d) = 1..d[Projection].count
            /\ \A n \in Names(d) : ReservationSound(d, n)
            /\ d[Projection].head = d[ReservationFile(d[Projection].count)]
            /\ d[Projection].allocated = d[Projection].head.cumulative
            /\ d[Projection].allocated <= RoundDown(CeilingOf[d[ApprovalFile]])
         THEN "sound" ELSE "broken"

Allocated(d) == IF Ledger(d) = "none" THEN 0 ELSE d[Projection].allocated
Count(d) == IF Ledger(d) = "none" THEN 0 ELSE d[Projection].count

-----------------------------------------------------------------------------
(* Reserving and reporting *)

Ask(p) ==
    /\ request[p] = Absent
    /\ \E r \in Requests : request' = [request EXCEPT ![p] = r]
    /\ UNCHANGED <<files, granted, losses>>

Lock(p) == request[p] # Absent /\ Enter(p) /\ UNCHANGED <<request, granted, losses>>

AllocationAvailable(d, r) ==
    /\ Ledger(d) = "sound" => d[ApprovalFile] = r.approval
    /\ \A n \in Names(d) : d[ReservationFile(n)].run # r.run
    /\ Count(d) < MaxReservations
    /\ Allocated(d) + RoundUp(r.maximum) <= RoundDown(CeilingOf[r.approval])

Reservation(d, r) ==
    [run |-> r.run, approval |-> r.approval, maximum |-> r.maximum,
     sequence |-> Count(d) + 1, cumulative |-> Allocated(d) + RoundUp(r.maximum),
     previous |-> IF Ledger(d) = "none" THEN r.approval ELSE d[Projection].head]

Mutations(d, r) ==
    LET record == Reservation(d, r)
        changed == {ReservationFile(record.sequence), Copy(r.run), Projection} \cup
                   (IF Ledger(d) = "none" THEN {ApprovalFile} ELSE {})
    IN  [f \in changed |->
            IF f = ApprovalFile THEN r.approval
            ELSE IF f = Projection THEN [count |-> record.sequence, head |-> record,
                                         allocated |-> record.cumulative]
            ELSE record]

\* Everything but the projection must not exist yet.
Fresh(d, r) == \A f \in DOMAIN Mutations(d, r) \ {Projection} : d[f] = Absent

Reserve(p) ==
    /\ owner = p /\ journal = Absent
    /\ Ledger(disk) # "broken" /\ AllocationAvailable(disk, request[p]) /\ Fresh(disk, request[p])
    /\ Stage(p, Mutations(disk, request[p]))
    /\ UNCHANGED <<request, granted, losses>>

Refuse(p) ==
    /\ owner = p /\ journal = Absent
    /\ ~(/\ Ledger(disk) # "broken" /\ AllocationAvailable(disk, request[p])
         /\ Fresh(disk, request[p]))
    /\ Leave(p) /\ request' = [request EXCEPT ![p] = Absent] /\ UNCHANGED <<granted, losses>>

Write(p) == WriteFile(p) /\ UNCHANGED <<request, granted, losses>>

\* From here on the reservation counts, whether or not its attempt learns of it.
Grant(p) ==
    /\ MarkCommitted(p)
    /\ granted' = granted \cup {request[p]} /\ UNCHANGED <<request, losses>>

Answer(p) ==
    /\ journal # Absent /\ Leave(p)
    /\ request' = [request EXCEPT ![p] = Absent] /\ UNCHANGED <<granted, losses>>

Die(p) ==
    /\ Crash(p) /\ request' = [request EXCEPT ![p] = Absent]
    /\ UNCHANGED <<granted, losses>>

\* Somebody removes a file that no transaction is about to write or restore.
Lose ==
    /\ losses < MaxLosses /\ owner = NoOne /\ journal = Absent
    /\ \E f \in FileNames : disk[f] # Absent /\ disk' = [disk EXCEPT ![f] = Absent]
    /\ losses' = losses + 1 /\ UNCHANGED <<owner, journal, request, granted>>

Next ==
    \/ \E p \in Processes : \/ Ask(p) \/ Lock(p) \/ Reserve(p) \/ Refuse(p) \/ Write(p)
                            \/ Grant(p) \/ Answer(p) \/ Die(p)
    \/ Lose

Spec == Init /\ [][Next]_vars

-----------------------------------------------------------------------------

\* Requests are recorded once, by processes that asked; the ledger's files are records.
TypeOK ==
    /\ owner \in Processes \cup {NoOne} /\ DOMAIN disk = FileNames
    /\ request \in [Processes -> Requests \cup {Absent}]
    /\ granted \subseteq Requests /\ losses \in 0..MaxLosses
    /\ owner # NoOne => request[owner] # Absent

Cost(requests) == MapThenSumSet(LAMBDA r : r.maximum, requests)

\* The exact amounts granted, not their rounded sums, stay within what was approved, across
\* crashes and lost ledger files (budgets.ts:82, "Reserve the full attempt allocation once").
\* A study has one approval, and a run one reservation.
WithinCeiling ==
    /\ \A a \in Approvals : Cost({r \in granted : r.approval = a}) <= CeilingOf[a]
    /\ \A r, s \in granted : r.approval = s.approval /\ (r.run = s.run => r = s)

\* As long as nobody removes files, no crash leaves a ledger that is refused.
CrashKeepsLedger == losses = 0 => Ledger(Recovered) # "broken"

\* What a report may be made from (no update under way) names exactly the grants.
ReportsGrants ==
    journal = Absent /\ Ledger(disk) = "sound" =>
        granted = {[run |-> d.run, approval |-> d.approval, maximum |-> d.maximum] :
                        d \in {disk[ReservationFile(n)] : n \in Names(disk)}}
=============================================================================
