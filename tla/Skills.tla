-------------------------------- MODULE Skills --------------------------------
(***************************************************************************)
(* The record of one learned skill (skills/): proposed from closed work or *)
(* brought in from outside, admitted by a person, evaluated, promoted,     *)
(* retired, rolled back, and given to workers (product/skills.ts).  Every  *)
(* command holds the writer lock and commits its files in one transaction. *)
(* People edit SKILL.md, and slices the skill cites are reopened, closed   *)
(* again or change their contract.                                         *)
(*                                                                         *)
(* A version is the hash of the content, the origin and the cited slices   *)
(* with their snapshots, so it is these three.                             *)
(***************************************************************************)
EXTENDS Naturals, FiniteSets, Sequences

CONSTANTS
    Contents,    \* texts of SKILL.md that a proposal may have
    Slices,      \* closed work a skill can be drawn from
    MinSupport,  \* config.skills.minSupport
    Nothing,     \* no file, no record
    MaxEvents,   \* bound: transitions of the skill
    MaxClosures  \* bound: how often a slice is closed

VARIABLES
    skill,       \* its entry of the index, or Nothing
    file,        \* SKILL.md, or Nothing
    revisions,   \* the immutable revisions on disk
    history,     \* the transitions on disk, in the order of their time
    evaluations, \* [version, decision]: evaluations on disk
    slice,       \* [closed, closure]: is the slice closed, and by which closure it last was
    draft        \* the brief of its feature has changes that were not revised yet

vars == <<skill, file, revisions, history, evaluations, slice, draft>>

Decisions == {"beneficial", "inconclusive", "harmful"}

Init ==
    /\ skill = Nothing /\ file = Nothing /\ revisions = {} /\ history = <<>> /\ evaluations = {}
    /\ slice = [s \in Slices |-> [closed |-> TRUE, closure |-> 1]] /\ draft = FALSE

Is(state) == skill # Nothing /\ skill.state = state

-----------------------------------------------------------------------------
(* Support *)

\* A closed slice supports a skill as long as its feature's brief can be read; the snapshot names
\* its latest closure.
Supports(s) == slice[s].closed /\ ~draft

Snapshot(cited) == [s \in cited |-> slice[s].closure]

StillSupported(version) ==
    {s \in DOMAIN version.support : Supports(s) /\ slice[s].closure = version.support[s]}

Supported(version) ==
    version.origin = "derived" =>
        /\ StillSupported(version) = DOMAIN version.support
        /\ Cardinality(StillSupported(version)) >= MinSupport

-----------------------------------------------------------------------------
(* Records and transitions *)

\* The transition and the index commit together, with the files of the command.
Persist(record) ==
    /\ Len(history) < MaxEvents
    /\ skill' = record /\ history' = Append(history, record)

Events(version) == {n \in DOMAIN history : history[n].version = version}
JudgedHarmful(version) == \E n \in Events(version) : history[n].usefulness = "harmful"

\* Bug: only the record itself is asked whether the revision was found harmful.
BugAdmissible(record, content) ==
    /\ content = record.version.content
    /\ Supported(record.version)
    /\ record.usefulness # "harmful"
\* An edited file, changed support, or a revision anybody found harmful is not admitted.
Admissible(record, content) ==
    /\ content = record.version.content
    /\ Supported(record.version)
    /\ record.usefulness # "harmful" /\ ~JudgedHarmful(record.version)

\* The revision is written once; afterwards it must match.
KeepRevision(version) == revisions' = revisions \cup {version}

Activate(record, content) ==
    /\ Persist([record EXCEPT !.state = "admitted"])
    /\ KeepRevision(record.version)
    /\ file' = content
    /\ UNCHANGED <<evaluations, slice, draft>>

\* `visp skill propose`, `import` and `seed`: anything but an admitted skill is replaced.
Propose(content, cited) ==
    /\ ~Is("admitted")
    /\ cited = {} \/ Cardinality(cited) >= MinSupport
    /\ \A s \in cited : Supports(s)
    /\ LET version == [content |-> content, support |-> Snapshot(cited),
                       origin |-> IF cited = {} THEN "seeded" ELSE "derived"]
       IN  /\ Persist([state |-> "proposed", version |-> version, usefulness |-> "unmeasured"])
           /\ KeepRevision(version)
    /\ file' = content
    /\ UNCHANGED <<evaluations, slice, draft>>

Admit ==
    /\ Is("proposed") \/ Is("orphaned")
    /\ file # Nothing /\ Admissible(skill, file)
    /\ Activate(skill, file)

Reject ==
    /\ Is("proposed")
    /\ Persist([skill EXCEPT !.state = "rejected"])
    /\ UNCHANGED <<file, revisions, evaluations, slice, draft>>

Retire ==
    /\ Is("admitted") \/ Is("orphaned")
    /\ Persist([skill EXCEPT !.state = "retired"])
    /\ UNCHANGED <<file, revisions, evaluations, slice, draft>>

\* Whatever the record is now, a revision that was admitted once comes back as it was then.
Rollback(version) ==
    LET admissions == {n \in Events(version) : history[n].state = "admitted"}
    IN  /\ skill # Nothing /\ version \in revisions /\ admissions # {}
        /\ LET last == CHOOSE n \in admissions : \A m \in admissions : m <= n
           IN  Admissible(history[last], version.content) /\ Activate(history[last], version.content)

-----------------------------------------------------------------------------
(* Evaluation *)

Assessed(decision) ==
    [skill EXCEPT !.usefulness = decision,
                  !.state = IF decision = "harmful" /\ @ = "admitted" THEN "retired" ELSE @]

\* `visp skill evaluate`: a reviewed study of the present revision.
RecordEvaluation(decision) ==
    /\ skill # Nothing /\ skill.version \in revisions
    /\ Persist(Assessed(decision))
    /\ evaluations' = evaluations \cup {[version |-> skill.version, decision |-> decision]}
    /\ UNCHANGED <<file, revisions, slice, draft>>

\* `visp skill list` suspends an admitted skill whose support changed.
Reconcile ==
    /\ Is("admitted") /\ ~Supported(skill.version)
    /\ Persist([skill EXCEPT !.state = "orphaned"])
    /\ UNCHANGED <<file, revisions, evaluations, slice, draft>>

-----------------------------------------------------------------------------
(* People and slices *)

Edit(content) ==
    /\ file \in Contents /\ content # file /\ file' = content
    /\ UNCHANGED <<skill, revisions, history, evaluations, slice, draft>>

\* A slice is reopened, or closed again; the brief is edited, and the edit taken back.
ChangeWork ==
    /\ \/ \E s \in Slices :
             /\ \/ slice[s].closed /\ slice' = [slice EXCEPT ![s].closed = FALSE]
                \/ /\ ~slice[s].closed /\ slice[s].closure < MaxClosures
                   /\ slice' = [slice EXCEPT ![s] = [closed |-> TRUE, closure |-> @.closure + 1]]
             /\ UNCHANGED draft
       \/ draft' = ~draft /\ UNCHANGED slice
    /\ UNCHANGED <<skill, file, revisions, history, evaluations>>

-----------------------------------------------------------------------------
(* What workers are given *)

\* A packet takes an admitted skill whose support is as cited now and whose file is the one admitted.
Given ==
    IF Is("admitted") /\ Supported(skill.version) /\ file = skill.version.content THEN file ELSE Nothing

Next ==
    \/ \E content \in Contents, cited \in SUBSET Slices : Propose(content, cited)
    \/ Admit \/ Reject \/ Retire \/ Reconcile
    \/ \E version \in revisions : Rollback(version)
    \/ \E decision \in Decisions : RecordEvaluation(decision)
    \/ \E content \in Contents : Edit(content)
    \/ ChangeWork

Spec == Init /\ [][Next]_vars

-----------------------------------------------------------------------------

\* No revision an evaluation found harmful is admitted, whatever was proposed, retired or rolled
\* back since (lifecycle.ts:83, rollback.ts:37).
HarmfulStaysOut ==
    Is("admitted") => [version |-> skill.version, decision |-> "harmful"] \notin evaluations

\* A worker is given only a text that was admitted, while every slice it was drawn from stands as
\* it was cited (lineage.ts:66, product/skill-context.ts:23).
GivenAsAdmitted ==
    Given # Nothing =>
        /\ \E n \in DOMAIN history : history[n].state = "admitted" /\ history[n].version.content = Given
        /\ \A s \in DOMAIN skill.version.support :
              ~draft /\ slice[s] = [closed |-> TRUE, closure |-> skill.version.support[s]]

=============================================================================
