--------------------------- MODULE TelemetryJournal ---------------------------
(***************************************************************************)
(* The telemetry log (telemetry/journal.ts, telemetry/store.ts): a         *)
(* baseline taken from the older telemetry.json, one file per event, each  *)
(* naming the hash of the one before, a head that names the last, and      *)
(* telemetry.json itself, kept as a projection for older readers.  Usage   *)
(* receipts are imported once per run.  Files may get lost by hand.        *)
(*                                                                         *)
(* The hash of a record is the sequence of everything chained up to it,    *)
(* the baseline being its first element.                                   *)
(***************************************************************************)
EXTENDS WorkspaceFiles, Sequences

CONSTANTS
    Receipts,   \* [run, content]: usage receipts somebody imports
    Legacy,     \* telemetry.json as an older version left it, or Absent
    MaxEvents,  \* bound: events in the log
    MaxLosses   \* bound: files lost by hand

VARIABLES
    importing,  \* the receipt each process is importing
    recorded,   \* everything whose recording took effect, in order
    losses

vars == <<files, importing, recorded, losses>>

Baseline == <<"baseline", 0>>
HeadFile == <<"head", 0>>
Projection == <<"telemetry.json", 0>>
EventFile(n) == <<"event", n>>
Directory == {Baseline, HeadFile} \cup {EventFile(n) : n \in 1..MaxEvents}
FileNames == Directory \cup {Projection}

Current == IF Legacy = Absent THEN <<>> ELSE Legacy

Init ==
    /\ FilesInit([f \in FileNames |-> IF f = Projection THEN Legacy ELSE Absent])
    /\ importing = [p \in Processes |-> Absent] /\ recorded = Current /\ losses = 0

-----------------------------------------------------------------------------
(* Replay *)

Events(d) == {n \in 1..MaxEvents : d[EventFile(n)] # Absent}

Hash(record) == Append(record.previous, record.event)

\* What the log says once its baseline is there, event by event.
Replayed(d) == [current |-> d[Baseline] \o [n \in Events(d) |-> d[EventFile(n)].event],
                initialized |-> TRUE, sequence |-> d[HeadFile].sequence,
                hash |-> d[HeadFile].hash]

\* Sorted by name, the events count up from 1, each continues the hash, the head names the last.
Chained(d) ==
    /\ \A n \in Events(d) :
          /\ d[EventFile(n)].sequence = n
          /\ IF n = 1 THEN d[EventFile(n)].previous = <<d[Baseline]>>
             ELSE n - 1 \in Events(d) /\ d[EventFile(n)].previous = Hash(d[EventFile(n - 1)])
    /\ d[HeadFile] # Absent
    /\ \A n \in Events(d) : n <= d[HeadFile].sequence
    /\ IF d[HeadFile].sequence = 0 THEN d[HeadFile].hash = <<d[Baseline]>>
       ELSE d[HeadFile].sequence \in Events(d) /\ d[HeadFile].hash = Hash(d[EventFile(d[HeadFile].sequence)])

Readable(d) ==
    IF d[Baseline] = Absent THEN \A f \in Directory : d[f] = Absent
    ELSE Chained(d)

\* readJournal, of a readable log.
Journal(d) ==
    IF d[Baseline] # Absent THEN Replayed(d)
    ELSE LET old == IF d[Projection] = Absent THEN <<>> ELSE d[Projection]
         IN  [current |-> old, initialized |-> FALSE, sequence |-> 0, hash |-> <<old>>]

-----------------------------------------------------------------------------
(* Recording *)

Import(p) ==
    /\ importing[p] = Absent
    /\ \E r \in Receipts : importing' = [importing EXCEPT ![p] = r]
    /\ UNCHANGED <<files, recorded, losses>>

Lock(p) == importing[p] # Absent /\ Enter(p) /\ UNCHANGED <<importing, recorded, losses>>

\* The run was not imported before, from the same content (done) or another (an error).
New(current, receipt) == \A i \in DOMAIN current : current[i].run # receipt.run

Appended(j, event) ==
    LET n == j.sequence + 1
        record == [sequence |-> n, previous |-> j.hash, event |-> event]
        changed == {EventFile(n), HeadFile, Projection} \cup (IF j.initialized THEN {} ELSE {Baseline})
    IN  [f \in changed |->
            IF f = Baseline THEN j.current
            ELSE IF f = EventFile(n) THEN record
            ELSE IF f = HeadFile THEN [sequence |-> n, hash |-> Hash(record)]
            ELSE Append(j.current, event)]

Record(p) ==
    /\ owner = p /\ journal = Absent /\ Readable(disk)
    /\ New(Journal(disk).current, importing[p]) /\ Journal(disk).sequence < MaxEvents
    /\ Stage(p, Appended(Journal(disk), importing[p]))
    /\ UNCHANGED <<importing, recorded, losses>>

\* Imported before, from this content or another, or the log is refused.
Refuse(p) ==
    /\ owner = p /\ journal = Absent
    /\ Readable(disk) => ~New(Journal(disk).current, importing[p])
    /\ Leave(p) /\ importing' = [importing EXCEPT ![p] = Absent] /\ UNCHANGED <<recorded, losses>>

\* `visp usage rebuild`: telemetry.json written again from the log; nothing is imported.
Rebuild(p) ==
    /\ owner = NoOne /\ importing[p] = Absent
    /\ LET d == Recovered
       IN  /\ Readable(d)
           /\ disk' = [d EXCEPT ![Projection] = Journal(d).current]
    /\ journal' = Absent /\ UNCHANGED <<owner, importing, recorded, losses>>

Write(p) == WriteFile(p) /\ UNCHANGED <<importing, recorded, losses>>

Commit(p) ==
    /\ MarkCommitted(p)
    /\ recorded' = Append(recorded, importing[p]) /\ UNCHANGED <<importing, losses>>

Answer(p) ==
    /\ journal # Absent /\ Leave(p)
    /\ importing' = [importing EXCEPT ![p] = Absent] /\ UNCHANGED <<recorded, losses>>

Die(p) ==
    /\ Crash(p) /\ importing' = [importing EXCEPT ![p] = Absent]
    /\ UNCHANGED <<recorded, losses>>

\* Somebody removes a file of the log, or the projection of a log that is there.
Lose ==
    /\ losses < MaxLosses /\ owner = NoOne /\ journal = Absent /\ recorded # Current
    /\ \E f \in FileNames : disk[f] # Absent /\ disk' = [disk EXCEPT ![f] = Absent]
    /\ losses' = losses + 1 /\ UNCHANGED <<owner, journal, importing, recorded>>

Next ==
    \/ \E p \in Processes : \/ Import(p) \/ Lock(p) \/ Record(p) \/ Refuse(p) \/ Rebuild(p)
                            \/ Write(p) \/ Commit(p) \/ Answer(p) \/ Die(p)
    \/ Lose

Spec == Init /\ [][Next]_vars

-----------------------------------------------------------------------------

\* Nobody is inside without a receipt to record; the events are numbered without a gap while
\* nothing was lost.
TypeOK ==
    /\ owner \in Processes \cup {NoOne} /\ DOMAIN disk = FileNames
    /\ importing \in [Processes -> Receipts \cup {Absent}] /\ losses \in 0..MaxLosses
    /\ owner # NoOne => importing[owner] # Absent
    /\ losses = 0 => Events(Recovered) = 1..(Len(recorded) - Len(Current))

\* What a report is made from (refused while an update is unfinished) is the legacy content and
\* every event recorded since, in order: an interrupted or mutilated log is refused, never
\* reported short.
ReportsRecorded ==
    journal = Absent /\ Readable(disk) => Journal(disk).current = recorded

\* No crash leaves a log that is refused, nor a projection that differs from it.
CrashKeepsLog ==
    losses = 0 => /\ Readable(Recovered)
                  /\ recorded # <<>> => Recovered[Projection] = recorded

\* A run's usage is counted once, however often and from whatever file it is imported.
RunsCountedOnce ==
    \A i, j \in DOMAIN recorded : recorded[i].run = recorded[j].run => i = j
=============================================================================
