---------------------------- MODULE FlipComparison ----------------------------
(***************************************************************************)
(* The second run of a passing check, on the old implementation with the   *)
(* new tests, which tells whether the check notices the change             *)
(* (src/workflow/product/flip and the check's own run around it). What the *)
(* check may overwrite is captured before it runs; after it passed, its    *)
(* sources are read again, an earlier comparison of the same sources is    *)
(* taken over, or a temporary tree is built from the capture, the old      *)
(* files and the tests as they are by then. A later `visp done` that takes *)
(* over a pass without running it compares without a capture.              *)
(*                                                                         *)
(* One file is implementation, one is a test; each has an old content 0    *)
(* and a new one 1. The world is what Git does not track: dependency       *)
(* directories, caches the project can rebuild, other ignored files. What  *)
(* the check answers is any function of both files, but for polluted       *)
(* dependencies or ignored data, on which it passes.                       *)
(***************************************************************************)
EXTENDS Naturals, Sequences

CONSTANTS None, MaxRuns, MaxEdits

VARIABLES
    files, world,   \* the working tree
    flipCheck,      \* the configuration asks for comparisons
    passing,        \* the files on which the check passes in a sound world
    run,            \* the run in progress, or None
    executions,     \* recorded runs: [source, passed, flip, calm]
    edits

flipVars == <<files, world, flipCheck, passing, run, executions, edits>>

Files == [impl : {0, 1}, test : {0, 1}]
Worlds == [deps : {"none", "clean", "polluted"}, ignored : SUBSET {"cache", "data"}]

\* The baseline of the grant, and the files of a comparison.
Baseline == [impl |-> 0, test |-> 0]
Reverted(tests) == [Baseline EXCEPT !.test = tests.test]

Passes(source, in) == in.deps = "polluted" \/ "data" \in in.ignored \/ source \in passing

-----------------------------------------------------------------------------
(* Whether and how to compare *)

\* With `auto`, a file that existed when the slice was granted must have changed.
FlipApplies(changes) == flipCheck /\ changes # {}
SourceChanges(source) == {f \in {"impl", "test"} : source[f] # Baseline[f]}

BugFlipIdentity(source) == source.impl

\* What a recorded verdict is about: the tests kept and the implementation reverted.
FlipIdentity(source) == <<source.impl, source.test>>

CachedFlip(source) ==
    LET same == {i \in DOMAIN executions :
                    executions[i].flip # None /\ executions[i].flip.key = FlipIdentity(source)}
        last == CHOOSE i \in same : \A j \in same : j <= i
    IN  IF same = {} THEN None ELSE executions[last].flip

\* Dependencies and caches as they are, unless something else is ignored: [reason] or [world].
CaptureFlipEnvironment ==
    [blocked |-> world.ignored \ {"cache"} # {}, world |-> world]

PrepareProductFlipEnvironment ==
    IF FlipApplies(SourceChanges(files)) /\ CachedFlip(files) = None
    THEN CaptureFlipEnvironment ELSE None

BugUnsnapshottedFlipState == world.ignored # {}

\* Without a capture nothing may be there that the comparison would lack.
UnsnapshottedFlipState == world.deps # "none" \/ world.ignored # {}

\* The comparison cannot start where the check did.
EnvironmentRefuses(capture) ==
    IF capture = None THEN UnsnapshottedFlipState
    ELSE capture.blocked \/ ~(world.ignored \subseteq capture.world.ignored)

\* A tree without a capture has nothing ignored.
ProvideFlipEnvironment(capture) ==
    IF capture = None THEN [deps |-> "none", ignored |-> {}] ELSE capture.world

-----------------------------------------------------------------------------

Init ==
    /\ files \in Files /\ passing \in {p \in SUBSET Files : Baseline \in p}
    /\ world \in {w \in Worlds : w.deps # "polluted"}
    /\ flipCheck \in BOOLEAN /\ run = None /\ executions = <<>> /\ edits = 0

Advance(phase) == run # None /\ run.phase = phase

\* A check of the batch begins: its source was read, what it may overwrite is captured.
Prepare ==
    /\ run = None /\ Len(executions) < MaxRuns
    /\ run' = [phase |-> "prepared", source |-> files, capture |-> PrepareProductFlipEnvironment,
               began |-> world, refresh |-> 0, calm |-> TRUE]
    /\ UNCHANGED <<files, world, flipCheck, passing, executions, edits>>

Record(flip) ==
    /\ executions' = IF run.refresh > 0
                     THEN IF flip = None THEN executions
                          ELSE [executions EXCEPT ![run.refresh].flip = flip, ![run.refresh].calm = run.calm]
                     ELSE Append(executions, [source |-> run.source, passed |-> TRUE, flip |-> flip,
                                              calm |-> run.calm])
    /\ run' = None
    /\ UNCHANGED <<files, world, flipCheck, passing, edits>>

Written == {w \in Worlds : w.deps \in {world.deps, "polluted"} /\ world.ignored \subseteq w.ignored}

\* The check runs and may leave anything; a failure is recorded without a comparison.
Execute ==
    /\ Advance("prepared")
    /\ world' \in Written
    /\ IF Passes(files, world)
       THEN run' = [run EXCEPT !.phase = "passed", !.began = world] /\ UNCHANGED executions
       ELSE /\ run' = None
            /\ executions' = Append(executions, [source |-> run.source, passed |-> FALSE,
                                                 flip |-> None, calm |-> run.calm])
    /\ UNCHANGED <<files, flipCheck, passing, edits>>

\* `visp done` takes over a pass of these sources, to refresh what is recorded of its comparison.
ReuseProductCheckFlip(i) ==
    /\ run = None /\ flipCheck /\ executions[i].passed /\ executions[i].source = files
    /\ ~(executions[i].flip # None /\ UnsnapshottedFlipState)
    /\ run' = [phase |-> "passed", source |-> files, capture |-> None, began |-> world,
               refresh |-> i, calm |-> TRUE]
    /\ UNCHANGED <<files, world, flipCheck, passing, executions, edits>>

Unchecked(source) ==
    [key |-> FlipIdentity(source), verdict |-> "unchecked", calm |-> run.calm, began |-> run.began,
     world |-> run.began, passed |-> run.source, refresh |-> run.refresh > 0]

\* The sources are read again: nothing to compare, a known answer, a refusal, or a comparison.
Judge ==
    /\ Advance("passed")
    /\ LET cached == CachedFlip(files)
           applies == FlipApplies(SourceChanges(files) \ {"test"})
       IN  \/ ~applies /\ Record(None)
           \/ applies /\ cached # None /\ Record(cached)
           \/ /\ applies /\ cached = None
              /\ run' = [phase |-> "judged", source |-> run.source, capture |-> run.capture,
                         began |-> run.began, refresh |-> run.refresh, calm |-> run.calm, read |-> files]
              /\ UNCHANGED <<files, world, flipCheck, passing, executions, edits>>

\* A file names the project, a baseline is lost, the tree cannot be made or its start be reproduced.
Decline == Advance("judged") /\ Record(Unchecked(run.read))

\* The old commit, the captured world, the old files and the tests as they now are.
PopulateFlipTree ==
    /\ Advance("judged") /\ ~EnvironmentRefuses(run.capture)
    /\ run' = [phase |-> "tree", source |-> run.source, began |-> run.began, refresh |-> run.refresh,
               calm |-> run.calm, read |-> run.read, tree |-> Reverted(files),
               world |-> ProvideFlipEnvironment(run.capture)]
    /\ UNCHANGED <<files, world, flipCheck, passing, executions, edits>>

\* The check runs in the tree; a failure counts if it is one of a test.
ClassifyFlip ==
    /\ Advance("tree")
    /\ \E verdict \in IF Passes(run.tree, run.world) THEN {"passes"} ELSE {"fails", "unchecked"} :
          Record([Unchecked(run.read) EXCEPT !.verdict = verdict, !.world = run.world])

\* Somebody edits a file, installs or removes dependencies, meanwhile or between runs.
Edit ==
    /\ edits < MaxEdits /\ edits' = edits + 1
    /\ \/ files' \in Files \ {files} /\ UNCHANGED world
       \/ \E deps \in {"none", "clean"} \ {world.deps} :
             world' = [world EXCEPT !.deps = deps] /\ UNCHANGED files
       \/ world.ignored # {} /\ world' = [world EXCEPT !.ignored = {}] /\ UNCHANGED files
    /\ run' = IF run = None THEN None ELSE [run EXCEPT !.calm = FALSE]
    /\ UNCHANGED <<flipCheck, passing, executions>>

\* A command goes by the configuration it loaded when it started.
Configure ==
    /\ run = None /\ edits < MaxEdits /\ edits' = edits + 1 /\ flipCheck' = ~flipCheck
    /\ UNCHANGED <<files, world, passing, run, executions>>

Next ==
    \/ Prepare \/ Execute \/ Judge \/ Decline \/ PopulateFlipTree \/ ClassifyFlip \/ Edit \/ Configure
    \/ \E i \in DOMAIN executions : ReuseProductCheckFlip(i)

-----------------------------------------------------------------------------

\* What is recorded of a comparison, unless somebody edited during it or during the check it is
\* recorded with: it started where the passing check had started, whatever that check left behind,
\* and its answer is that of the old implementation under the tests of that very run, also where it
\* was taken over from an earlier one (flip-check.ts:61, flip-environment.ts:131).
ComparesLikeWithLike ==
    \A i \in DOMAIN executions :
        LET flip == executions[i].flip
            comparable == IF flip = None THEN FALSE
                          ELSE executions[i].calm /\ flip.calm /\ flip.verdict # "unchecked"
        IN  comparable =>
                /\ flip.world = flip.began
                /\ ~flip.refresh => Passes(flip.passed, flip.began)
                /\ (flip.verdict = "passes") <=> Passes(Reverted(executions[i].source), flip.began)

===============================================================================
