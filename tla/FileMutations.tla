---------------------------- MODULE FileMutations ----------------------------
(***************************************************************************)
(* The data of src/core/file-transaction.ts: what a file can be, what a    *)
(* planned mutation asks for, and the journal entry made of it.  A body    *)
(* stands for the kind and the bytes of a file: the bytes of a regular     *)
(* file, or the target of a symbolic link.                                 *)
(***************************************************************************)
EXTENDS Naturals, Sequences, FiniteSets

CONSTANTS
    Paths,        \* targets, as normalised project-relative paths
    Bodies,       \* contents of regular files and targets of links
    Links,        \* the bodies that are link targets
    Modes,        \* file modes
    DefaultMode,  \* 0o644
    LinkMode,     \* 0o777, the mode a snapshot gives every link
    KeepMode,     \* a write that names no mode
    AnyMode,      \* a precondition that names no mode
    Absent,       \* a path where there is no file
    Anything,     \* a mutation without expectedBefore
    Plans         \* the mutation lists the callers of applyFileTransaction pass

FileState == {Absent} \cup [body : Bodies, mode : Modes]

Precondition == {Anything, Absent} \cup [body : Bodies, mode : Modes \cup {AnyMode}]

Mutation ==
    [kind : {"write"}, path : Paths, body : Bodies, mode : Modes \cup {KeepMode},
     expectedBefore : Precondition]
    \cup [kind : {"remove"}, path : Paths, expectedBefore : Precondition]
    \cup [kind : {"assert"}, path : Paths, expectedBefore : Precondition \ {Anything}]

Entry ==
    [kind : {"write", "remove", "assert"}, path : Paths, before : FileState, after : FileState]

\* A list that names a target twice is refused before anything happens, so none does.
DistinctTargets(plan) ==
    \A i, j \in DOMAIN plan : plan[i].path = plan[j].path => i = j

ASSUME MutationConstants ==
    /\ Links \subseteq Bodies /\ {DefaultMode, LinkMode} \subseteq Modes
    /\ KeepMode \notin Modes /\ AnyMode \notin Modes
    /\ Absent \notin [body : Bodies, mode : Modes \cup {AnyMode}]
    /\ Anything \notin {Absent} \cup [body : Bodies, mode : Modes \cup {AnyMode}]
    /\ Plans \subseteq Seq(Mutation) /\ \A plan \in Plans : DistinctTargets(plan)

IsLink(state) == state # Absent /\ state.body \in Links

SameBody(state, expected) ==
    IF expected = Absent \/ state = Absent THEN state = expected ELSE state.body = expected.body

Matches(state, expected) ==
    expected # Anything =>
        /\ SameBody(state, expected)
        /\ expected # Absent => expected.mode \in {AnyMode, state.mode}

\* What the target is to become; a write that names no mode keeps a regular file's.
After(m, before) ==
    CASE m.kind = "remove" -> Absent
      [] m.kind = "assert" -> before
      [] m.kind = "write" ->
          [body |-> m.body,
           mode |-> CASE m.body \in Links -> LinkMode
                      [] m.body \notin Links /\ m.mode # KeepMode -> m.mode
                      [] m.body \notin Links /\ m.mode = KeepMode ->
                            IF before = Absent \/ IsLink(before) THEN DefaultMode
                            ELSE before.mode]

\* prepareEntry accepts the file it finds: it is what the plan was made for, and a link
\* is changed only by a plan that expects a link.
Acceptable(m, before) ==
    /\ Matches(before, m.expectedBefore)
    /\ m.kind # "assert" /\ IsLink(before) =>
          m.expectedBefore \notin {Anything, Absent} /\ m.expectedBefore.body \in Links

EntryFor(m, before) ==
    [kind |-> m.kind, path |-> m.path, before |-> before, after |-> After(m, before)]

\* The paths a list of mutations or entries writes.
Targets(items) == {items[i].path : i \in {j \in DOMAIN items : items[j].kind # "assert"}}

\* The item of a list for one of its paths.
ItemFor(items, p) == items[CHOOSE i \in DOMAIN items : items[i].path = p]
=============================================================================
