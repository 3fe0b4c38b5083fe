----------------------------- MODULE RebaseScan -----------------------------
(***************************************************************************)
(* How a file is copied into a comparison tree: src/workflow/product/flip/ *)
(* flip-environment.ts reads it in steps and rewrites each spelling of the *)
(* project's root that stands at a path boundary, so that the copied check *)
(* reaches the copy and not the user's project. A spelling, or the byte    *)
(* that decides whether it is one, may lie across two steps.               *)
(*                                                                         *)
(* Bytes are numbers: NUL, the slash, letters of names and one byte that   *)
(* is none of them. A read returns as many bytes as it likes, up to a      *)
(* step. The spellings are the root as given and as the system resolves    *)
(* it, in UTF-8, and both byte orders of the first in UTF-16.              *)
(***************************************************************************)
EXTENDS Naturals, Sequences, FiniteSetsExt

CONSTANTS Files, Forms, MaxStep

NUL == 0
Slash == 1
NameBytes == {2, 3}

\* The root of the comparison tree, which replaces the project's.
Replacement == <<Slash, 3>>

VARIABLES
    source,      \* the file, as bytes
    forms,       \* the UTF-8 spellings of the project's root, as given and as resolved
    position,    \* bytes read so far
    carry,       \* read and not yet decided
    prior,       \* the bytes before the carry: none or one
    tail,        \* what the search for UTF-16 spellings keeps of the bytes read
    output,      \* written to the copy
    scan,        \* what was found: [binary, reference, wide]
    finished

rebaseVars == <<source, forms, position, carry, prior, tail, output, scan, finished>>

SpelledAt(needle, data, at) ==
    at + Len(needle) - 1 <= Len(data) /\ SubSeq(data, at, at + Len(needle) - 1) = needle

ContainsAny(data, needles) == \E needle \in needles, at \in 1..Len(data) : SpelledAt(needle, data, at)

Little(form) == [i \in 1..2 * Len(form) |-> IF i % 2 = 1 THEN form[(i + 1) \div 2] ELSE NUL]
Big(form) == [i \in 1..2 * Len(form) |-> IF i % 2 = 0 THEN form[i \div 2] ELSE NUL]
Wide == {Little(form) : form \in Range(forms)} \cup {Big(form) : form \in Range(forms)}

LongestOf(needles) == Max({Len(needle) : needle \in needles})

IsName(bytes) == bytes # <<>> /\ bytes[Len(bytes)] \in NameBytes

\* What of a step is decided: every spelling that starts before the cut, from left to right, is
\* replaced unless it is part of a longer name or of one replaced before.
RebaseWindow(data, cut, before) ==
    LET Spellings(at) == {i \in DOMAIN forms : SpelledAt(forms[i], data, at)}
        After(at) == at + Len(forms[Min(Spellings(at))])
        Beside(at) == \/ IsName(IF at > 1 THEN <<data[at - 1]>> ELSE before)
                      \/ After(at) <= Len(data) /\ data[After(at)] \in NameBytes
        Decide(at, done) ==
            IF at <= done.consumed \/ Spellings(at) = {} \/ Beside(at) THEN done
            ELSE [output |-> done.output \o SubSeq(data, done.consumed + 1, at - 1) \o Replacement,
                  consumed |-> After(at) - 1, reference |-> TRUE]
        end == MapThenFoldSet(Decide, [output |-> <<>>, consumed |-> 0, reference |-> FALSE],
                              LAMBDA at : at, Max, 1..cut)
    IN  [end EXCEPT !.output = @ \o SubSeq(data, end.consumed + 1, cut),
                    !.consumed = IF @ > cut THEN @ ELSE cut]

BugStepCut(length, eof) ==
    LET kept == LongestOf(Range(forms)) - 1 IN IF eof THEN length ELSE IF length > kept THEN length - kept ELSE 0

\* Where a step's decisions end: a spelling that starts before it ends, with its neighbours, inside.
StepCut(length, eof) ==
    LET kept == LongestOf(Range(forms)) + 1
    IN  IF eof THEN length ELSE IF length > kept THEN length - kept ELSE 0

-----------------------------------------------------------------------------

Init ==
    /\ source \in Files /\ forms \in Forms
    /\ position = 0 /\ carry = <<>> /\ prior = <<>> /\ tail = <<>> /\ output = <<>>
    /\ scan = [binary |-> FALSE, reference |-> FALSE, wide |-> FALSE]
    /\ finished = FALSE

\* Reads a step of `size` bytes, none at the end of the file, and decides what the cut allows.
ReadStep(size) ==
    LET raw == SubSeq(source, position + 1, position + size)
        data == carry \o raw
        window == RebaseWindow(data, StepCut(Len(data), size = 0), prior)
        probe == tail \o raw
        keep == LongestOf(Wide) - 1
        binary == scan.binary \/ NUL \in Range(raw)
    IN  /\ finished = FALSE
        /\ position + size <= Len(source)
        /\ size = 0 => position = Len(source)
        /\ scan' = [binary |-> binary,
                    reference |-> scan.reference \/ window.reference,
                    wide |-> scan.wide \/ ContainsAny(probe, Wide)]
        /\ output' = IF binary THEN output ELSE output \o window.output
        /\ prior' = IF window.consumed > 0 THEN <<data[window.consumed]>> ELSE prior
        /\ carry' = SubSeq(data, window.consumed + 1, Len(data))
        /\ tail' = SubSeq(probe, IF Len(probe) > keep THEN Len(probe) - keep + 1 ELSE 1, Len(probe))
        /\ position' = position + size
        /\ finished' = (size = 0)
        /\ UNCHANGED <<source, forms>>

Next == \E size \in 0..MaxStep : ReadStep(size)

-----------------------------------------------------------------------------

\* What the copy holds, or nothing when the comparison is refused.
CopyRelocatedFile ==
    CASE scan.wide \/ (scan.binary /\ scan.reference) -> {}
      [] scan.binary /\ ~scan.wide /\ ~scan.reference -> {source}
      [] OTHER -> {output}

\* The same for bytes already in memory, which an overlay writes.
RelocatedBytes(data) ==
    LET window == RebaseWindow(data, Len(data), <<>>)
    IN  CASE ContainsAny(data, Wide) \/ (NUL \in Range(data) /\ window.reference) -> {}
          [] NUL \in Range(data) /\ ~ContainsAny(data, Wide) /\ ~window.reference -> {data}
          [] OTHER -> {window.output}

\* The root stands at a path boundary somewhere in the data.
NamesProject(data) ==
    \E needle \in Range(forms), at \in 1..Len(data) :
        /\ SpelledAt(needle, data, at)
        /\ at > 1 => data[at - 1] \notin NameBytes
        /\ at + Len(needle) <= Len(data) => data[at + Len(needle)] \notin NameBytes

\* However the reads cut a file, its copy is what the whole file would give; a reference is found
\* exactly where one is, and no copied text names the user's project (flip-environment.ts:524:
\* "a match that straddles a step is found because each step keeps its tail").
CopyNamesNoProject ==
    finished =>
        /\ CopyRelocatedFile = RelocatedBytes(source)
        /\ scan.reference <=> NamesProject(source)
        /\ scan.wide <=> ContainsAny(source, Wide)
        /\ ~scan.binary => ~NamesProject(output)

=============================================================================
