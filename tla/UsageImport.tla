------------------------------ MODULE UsageImport ------------------------------
(***************************************************************************)
(* Reading one Codex rollout (telemetry/codex.ts): rows with cumulative    *)
(* token counts become a receipt whose segments carry the differences,     *)
(* each under the model in force.  The counts are the total and, of those, *)
(* the cached ones; output and reasoning tokens are counted alike.         *)
(***************************************************************************)
EXTENDS Naturals, Sequences, FiniteSetsExt

CONSTANTS
    RunIds, Models,
    Counts,     \* [input, cached] in snapshots
    Times,      \* timestamps
    None,
    MaxRows     \* bound: rows of a rollout

VARIABLES
    rows,       \* how many were read
    times,      \* the first and the last timestamp
    runIds, sessionStartedAt, model, tokens, segments,
    refused

vars == <<rows, times, runIds, sessionStartedAt, model, tokens, segments, refused>>

Zero == [input |-> 0, cached |-> 0]

Init ==
    /\ rows = 0 /\ times = <<>> /\ runIds = {} /\ sessionStartedAt = None
    /\ model = None /\ tokens = None /\ segments = <<>> /\ refused = FALSE

Reading == rows < MaxRows /\ ~refused /\ rows' = rows + 1

\* Timestamps may be missing, never decrease.
Decreases(at) == at # None /\ times # <<>> /\ at < times[2]

Stamped(at) ==
    /\ ~Decreases(at) /\ refused' = FALSE
    /\ times' = IF at = None THEN times ELSE IF times = <<>> THEN <<at, at>> ELSE <<Head(times), at>>

Refuse ==
    /\ refused' = TRUE
    /\ UNCHANGED <<times, runIds, sessionStartedAt, model, tokens, segments>>

\* A row whose timestamp decreases.
Disordered == Reading /\ (\E at \in Times : Decreases(at)) /\ Refuse

\* session_meta: the run, and when the session started if it says so.
Session(id, at, startedAt) ==
    /\ Reading /\ Stamped(at)
    /\ runIds' = runIds \cup {id}
    /\ sessionStartedAt' = IF startedAt = None THEN sessionStartedAt ELSE startedAt
    /\ UNCHANGED <<model, tokens, segments>>

\* turn_context.
Context(m, at) ==
    /\ Reading /\ Stamped(at) /\ model' = m
    /\ UNCHANGED <<runIds, sessionStartedAt, tokens, segments>>

Previous == IF tokens = None THEN Zero ELSE tokens

\* Cumulative counts never decrease, and the difference has a cached part no larger than it.
Consistent(c) ==
    /\ c.cached <= c.input
    /\ c.input >= Previous.input /\ c.cached >= Previous.cached
    /\ c.cached - Previous.cached <= c.input - Previous.input

\* Bug: the difference is taken from the last snapshot that made a segment.
BugDelta(c) == c

Delta(c) == [input |-> c.input - Previous.input, cached |-> c.cached - Previous.cached]

\* token_count with cumulative totals.
Tokens(c, at) ==
    /\ Reading /\ Stamped(at) /\ at # None /\ Consistent(c)
    /\ tokens' = c
    /\ segments' = IF Delta(c) = Zero THEN segments
                   ELSE Append(segments, [at |-> at, model |-> model, delta |-> Delta(c)])
    /\ UNCHANGED <<runIds, sessionStartedAt, model>>

BadTokens(c, at) ==
    /\ Reading /\ ~Decreases(at) /\ (at # None => ~Consistent(c)) /\ Refuse

Stamps == Times \cup {None}

Next ==
    \/ Disordered
    \/ \E at \in Stamps :
          \/ \E id \in RunIds, startedAt \in Stamps : Session(id, at, startedAt)
          \/ \E m \in Models : Context(m, at)
          \/ \E c \in Counts : Tokens(c, at) \/ BadTokens(c, at)

Spec == Init /\ [][Next]_vars

-----------------------------------------------------------------------------
(* The receipt, if the rollout ended here *)

StartedAt == IF sessionStartedAt # None THEN sessionStartedAt ELSE Head(times)

Complete ==
    /\ ~refused /\ runIds # {} /\ Cardinality(runIds) <= 1 /\ tokens # None
    /\ times # <<>> /\ times[2] >= StartedAt

\* The model of a run that used one.
ModelOf ==
    LET used == {segments[i].model : i \in DOMAIN segments}
    IN  IF segments = <<>> THEN model
        ELSE IF Cardinality(used) = 1 THEN CHOOSE m \in used : TRUE ELSE None

Receipt == [runs |-> runIds, model |-> ModelOf, total |-> tokens, segments |-> segments]

\* What segments count together.
Sum(counts) == MapThenFoldSet(LAMBDA x, sum : sum + x, 0, LAMBDA i : counts[i], Max, DOMAIN counts)
Inputs(counted) == Sum([i \in DOMAIN counted |-> counted[i].delta.input])
Cached(counted) == Sum([i \in DOMAIN counted |-> counted[i].delta.cached])

TypeOK ==
    /\ rows \in 0..MaxRows /\ runIds \subseteq RunIds /\ refused \in BOOLEAN
    /\ tokens \in Counts \cup {None} /\ Len(times) \in {0, 2}
    /\ Complete => Cardinality(Receipt.runs) = 1

\* The segments of a receipt add up to its totals (schema.ts, "Usage segments do not reconcile with
\* cumulative totals"), so no tokens are counted twice or lost between snapshots.
Reconciles ==
    Complete =>
        /\ Inputs(Receipt.segments) = Receipt.total.input
        /\ Cached(Receipt.segments) = Receipt.total.cached

\* Segments are in the order of time, and within the run unless its session was started again.
Chronological ==
    /\ \A i, j \in DOMAIN segments : i < j => segments[i].at <= segments[j].at
    /\ \A i \in DOMAIN segments :
          /\ segments[i].at <= times[2]
          /\ segments[i].delta.cached <= segments[i].delta.input

\* A receipt names a model only if every token it counts was used under that model.
ModelCoversTokens ==
    Complete /\ Receipt.model # None =>
        \A i \in DOMAIN segments : segments[i].model = Receipt.model
=============================================================================
