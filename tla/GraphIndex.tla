----------------------------- MODULE GraphIndex -----------------------------
(***************************************************************************)
(* The repository index of src/graph: a walk hashes the worktree, the      *)
(* files that changed and those the change can matter to are parsed, their *)
(* facts are merged with the stored facts of the others, and the result is *)
(* published as a snapshot, in one SQLite transaction that also moves the  *)
(* head; a second transaction deletes every other snapshot.  Indexers run  *)
(* in any process (`visp index`, the MCP tool, `visp work`, doctor) under  *)
(* no lock, and files are edited at any moment.                            *)
(*                                                                         *)
(* A source is what it defines, imports, re-exports and calls; parsing     *)
(* succeeds.  A hash names a source, so the model compares sources.        *)
(***************************************************************************)
EXTENDS Naturals, Sequences

CONSTANTS
    Paths,              \* the files there may be
    SourcesOf(_),       \* what a file may contain:
                        \*   [defines, imports, exports, calls], see below
    CandidatesOf(_),    \* the files a specifier may name, in the order they are tried
    Modules,            \* specifiers that name a dependency when no file has that name
    Initial,            \* the worktrees there may be at first
    Indexers,           \* processes that index
    Absent, None,
    MaxEdits, MaxSnapshots  \* bounds

\* A source imports specifiers, re-exports names from specifiers and calls names bound by an
\* import: exports and calls are sets of [name, from].

VARIABLES
    tree,               \* the worktree
    snapshots,          \* the snapshots in the store, by number
    head,               \* the one that is published, or None
    pc, walked, base, draft,    \* each indexer: where it is, the files it walked, the snapshot it
                                \* goes by, what it found
    edits, issued,      \* edits and snapshots so far
    lost                \* history: the last snapshot that was pruned while the head named it

Files(t) == {p \in Paths : t[p] # Absent}

Init ==
    /\ tree \in Initial
    /\ snapshots = <<>> /\ head = None
    /\ pc = [i \in Indexers |-> "idle"]
    /\ walked = [i \in Indexers |-> <<>>] /\ base = [i \in Indexers |-> None]
    /\ draft = [i \in Indexers |-> None]
    /\ edits = 0 /\ issued = 0 /\ lost = None

-----------------------------------------------------------------------------
(* What one source says, given the files there are *)

File == "file"

Found(spec, files) == {k \in DOMAIN CandidatesOf(spec) : CandidatesOf(spec)[k] \in files}

Resolvable(spec, files) == Found(spec, files) # {}

\* The first candidate that was walked.
Resolved(spec, files) ==
    CandidatesOf(spec)[CHOOSE k \in Found(spec, files) : \A l \in Found(spec, files) : k <= l]

Fact(kind, path, target) == [kind |-> kind, path |-> path, target |-> target]

Entities(path, source) == {<<path, File>>} \cup {<<path, name>> : name \in source.defines}

Imports(path, source, files) ==
    {Fact("imports", path, <<Resolved(spec, files), File>>) :
        spec \in {s \in source.imports : Resolvable(s, files)}}
    \cup {Fact("external", path, <<spec>>) :
        spec \in {s \in source.imports \cap Modules : ~Resolvable(s, files)}}

\* A re-export goes with an import of the same file.
Reexports(path, source, files) ==
    {Fact("exports", path, <<Resolved(e.from, files), File>>) :
        e \in {x \in source.exports : Resolvable(x.from, files)}}

UnresolvedImports(path, source, files) ==
    {Fact("unresolved_import", path, <<spec>>) :
        spec \in {s \in source.imports \ Modules : ~Resolvable(s, files)}}

\* Through the import's file, or one re-export further; a re-export is only known of a file that
\* was parsed in this run.
CallTargets(call, sources, files, entities) ==
    LET m == Resolved(call.from, files)
        hops == IF m \in DOMAIN sources
                THEN {Resolved(e.from, files) :
                        e \in {x \in sources[m].exports : x.name = call.name /\ Resolvable(x.from, files)}}
                ELSE {}
    IN IF <<m, call.name>> \in entities THEN {<<m, call.name>>}
       ELSE {<<o, call.name>> : o \in {h \in hops : <<h, call.name>> \in entities}}

\* Calls into a dependency are neither a relation nor a gap.
CallFacts(path, sources, files, entities) ==
    UNION {LET targets == IF Resolvable(call.from, files)
                          THEN CallTargets(call, sources, files, entities) ELSE {}
           IN IF targets # {} THEN {Fact("calls", path, t) : t \in targets}
              ELSE IF call.from \in Modules /\ ~Resolvable(call.from, files) THEN {}
              ELSE {Fact("unresolved_call", path, <<call.from, call.name>>)} :
           call \in sources[path].calls}

\* What parsing these sources finds; known are entities of files that are not parsed.
Extracted(sources, files, known) ==
    LET entities == known \cup UNION {Entities(p, sources[p]) : p \in DOMAIN sources}
    IN [entities |-> entities,
        facts |-> UNION {Imports(p, sources[p], files) \cup Reexports(p, sources[p], files)
                         \cup UnresolvedImports(p, sources[p], files)
                         \cup CallFacts(p, sources, files, entities) : p \in DOMAIN sources}]

-----------------------------------------------------------------------------
(* Which files a refresh parses *)

Changed(now, before) ==
    {p \in Paths : now[p] # before.files[p]}

Added(now, before) == {p \in Files(now) : before.files[p] = Absent}

Edges(kind, snapshot) ==
    {<<f.path, f.target[1]>> : f \in {g \in snapshot.facts : g.kind = kind}}

\* Bug: an added file is parsed, and what might now refer to it is not.
BugSeeds(now, before) == Changed(now, before)

\* parseSet: an added file may be what an import named in vain, or took for a dependency.
Seeds(now, before) ==
    Changed(now, before)
    \cup (IF Added(now, before) = {} THEN {}
          ELSE {f.path : f \in {g \in before.facts :
                 \/ g.kind = "unresolved_import"
                 \/ g.kind = "external"
                    /\ \E k \in DOMAIN CandidatesOf(g.target[1]) :
                           CandidatesOf(g.target[1])[k] \in Added(now, before)}})

\* The files reached from these by a relation.
Reached(from, edges) ==
    LET reach[S \in SUBSET Paths] ==
            LET next == S \cup {e[2] : e \in {d \in edges : d[1] \in S}}
            IN IF next = S THEN S ELSE reach[next]
    IN reach[from]

\* Bug: only direct importers are parsed again, whatever they pass on.
BugCarried(seeds, before) == seeds

\* A changed name travels through the files that re-export it.
Carried(seeds, before) ==
    LET imports == Edges("imports", before)
        exports == Edges("exports", before)
    IN Reached(seeds, {<<e[2], e[1]>> : e \in imports \cap exports})

\* refreshDependencySet: the importers of what changed, and the re-exporters they in turn import.
Affected(seeds, before) ==
    LET imports == Edges("imports", before)
        barrels == {e[1] : e \in Edges("exports", before)}
        importers == {e[1] : e \in {d \in imports : d[2] \in Carried(seeds, before)}}
    IN Reached(seeds \cup importers, {e \in imports : e[2] \in barrels})

-----------------------------------------------------------------------------
(* runIndex *)

Rest(i) ==
    /\ pc' = [pc EXCEPT ![i] = "idle"]
    /\ walked' = [walked EXCEPT ![i] = <<>>]
    /\ base' = [base EXCEPT ![i] = None] /\ draft' = [draft EXCEPT ![i] = None]

Stay == UNCHANGED <<tree, snapshots, head, edits, issued, lost>>

Walk(i) ==
    /\ pc[i] = "idle" /\ issued < MaxSnapshots
    /\ walked' = [walked EXCEPT ![i] = tree] /\ pc' = [pc EXCEPT ![i] = "walked"]
    /\ Stay /\ UNCHANGED <<base, draft>>

\* A head whose snapshot is gone reads as none.
Published == IF head # None /\ head \in DOMAIN snapshots THEN snapshots[head] ELSE None

\* A refresh goes by what is published, and has nothing to do when no file changed; a full index
\* goes by nothing.
ReadHead(i) ==
    /\ pc[i] = "walked"
    /\ \E before \in {Published, None} :
          IF before # None /\ Changed(walked[i], before) = {}
          THEN Rest(i)
          ELSE /\ base' = [base EXCEPT ![i] = before] /\ pc' = [pc EXCEPT ![i] = "parse"]
               /\ UNCHANGED <<walked, draft>>
    /\ Stay

IsUnknown(f) == f.kind \in {"unresolved_import", "unresolved_call"}

IsLive(f, entities) == f.kind = "external" \/ f.target \in entities

\* mergeFacts: a relation to something that is gone becomes a gap of the file that has it.
Merged(found, kept, live) ==
    LET all == found.facts \cup kept
        dangling == {f \in all : ~IsUnknown(f) /\ ~IsLive(f, found.entities)}
    IN [found EXCEPT !.facts =
          (all \ dangling)
          \cup {Fact(IF f.kind = "calls" THEN "unresolved_call" ELSE "unresolved_import",
                     f.path, f.target) : f \in {d \in dangling : d.path \in live}}]

\* History: the files that, since their last parse, call through a re-exporter they did not import
\* before and that was not parsed with them.
Unseen(found, reused, before) ==
    IF before = None THEN {}
    ELSE (before.unseen \cap reused)
         \cup {e[1] : e \in {d \in Edges("imports", found) \ Edges("imports", before) :
                              d[2] \in reused /\ \E x \in Edges("exports", before) : x[1] = d[2]}}

\* History: what each file was read as, for the facts the snapshot has of it.
Read(parse, reused, before) ==
    [p \in Paths |->
        CASE p \in parse -> tree[p] [] p \in reused -> before.read[p] [] OTHER -> Absent]

\* History: the files whose last parse met a walked file that was gone.
Missed(parse, reused, before) ==
    (IF before = None THEN {} ELSE before.missed \cap reused)
    \cup (IF parse \subseteq Files(tree) THEN {} ELSE parse)

\* The files are read now, some time after they were walked; one that is gone is skipped.
Parse(i) ==
    /\ pc[i] = "parse" /\ pc' = [pc EXCEPT ![i] = "publish"]
    /\ LET files == Files(walked[i])
           parse == IF base[i] = None THEN files
                    ELSE Affected(Seeds(walked[i], base[i]), base[i]) \cap files
           reused == IF base[i] = None THEN {} ELSE files \ (parse \cup Changed(walked[i], base[i]))
           sources == [p \in parse \cap Files(tree) |-> tree[p]]
           known == IF base[i] = None THEN {}
                    ELSE {e \in base[i].entities : e[1] \in reused}
           kept == IF base[i] = None THEN {} ELSE {f \in base[i].facts : f.path \in reused}
           found == Merged(Extracted(sources, files, known), kept, files)
       IN /\ draft' = [draft EXCEPT ![i] = [files |-> walked[i], entities |-> found.entities,
                                            facts |-> found.facts,
                                            read |-> Read(parse, reused, base[i]),
                                            missed |-> Missed(parse, reused, base[i]),
                                            unseen |-> Unseen(found, reused, base[i])]]
    /\ Stay /\ UNCHANGED <<walked, base>>

Put(f, k, v) == [x \in DOMAIN f \cup {k} |-> IF x = k THEN v ELSE f[x]]

\* publishSnapshot: the rows, and as the last statement the head, in one transaction.
Publish(i) ==
    /\ pc[i] = "publish" /\ issued < MaxSnapshots /\ issued' = issued + 1
    /\ snapshots' = Put(snapshots, issued', draft[i])
    /\ head' = issued'
    /\ draft' = [draft EXCEPT ![i] = [number |-> issued']] /\ pc' = [pc EXCEPT ![i] = "prune"]
    /\ UNCHANGED <<tree, walked, base, edits, lost>>

\* pruneTo: every snapshot but its own, in a transaction that does not look at the head.
Prune(i) ==
    /\ pc[i] = "prune" /\ Rest(i)
    /\ LET number == draft[i].number
       IN /\ snapshots' = [n \in DOMAIN snapshots \cap {number} |-> snapshots[n]]
          /\ lost' = IF head = number THEN lost ELSE head
    /\ UNCHANGED <<tree, head, edits, issued>>

\* The store is busy, or the process ends: nothing of a transaction stays.
Stop(i) == pc[i] # "idle" /\ Rest(i) /\ Stay

Edit(p) ==
    /\ edits < MaxEdits /\ edits' = edits + 1
    /\ \E source \in SourcesOf(p) \cup {Absent} :
           source # tree[p] /\ tree' = [tree EXCEPT ![p] = source]
    /\ UNCHANGED <<snapshots, head, pc, walked, base, draft, issued, lost>>

Next ==
    \/ \E i \in Indexers : Walk(i) \/ ReadHead(i) \/ Parse(i) \/ Publish(i) \/ Prune(i) \/ Stop(i)
    \/ \E p \in Paths : Edit(p)

-----------------------------------------------------------------------------
(* "a reader sees the previous complete snapshot or the new complete         *)
(* snapshot" (store/store.ts:67): the code keeps this up to one loss.  An    *)
(* indexer that published before the head moved on deletes the snapshot the  *)
(* head names, and the index reads as none until the next publication.       *)
(* SnapshotReadable is the claim as it stands, which that race violates.     *)
HeadReadable == head # None /\ Published = None => lost = head

SnapshotReadable == head # None => Published # None

\* What a full index finds in the files of a snapshot, each with the content it was read with.
Truth(s) ==
    Merged(Extracted([p \in Files(s.read) |-> s.read[p]], Files(s.files), {}), {}, Files(s.files))

\* The files of a snapshot with a specifier that names two of its files, and those that import them.
Shadowed(s) ==
    LET named(p) == IF s.read[p] = Absent THEN {}
                    ELSE {Found(spec, Files(s.files)) : spec \in s.read[p].imports}
        direct == {p \in Paths : \E found \in named(p) : \E k, l \in found : k # l}
    IN  direct \cup {p \in Paths : s.read[p] # Absent /\
                        \E spec \in s.read[p].imports : \E k \in Found(spec, Files(s.files)) :
                            CandidatesOf(spec)[k] \in direct}

(* However a snapshot was refreshed, it knows what a full index of its files *)
(* would (refresh.ts:30), a file counting with the content it was read with: *)
(* the same entities, no relation between files and no call that is not      *)
(* there, the same files with gaps, and every relation and call; but for two *)
(* kinds, which are gaps until their file is parsed again: calls through a   *)
(* re-exporter that is new to the caller, and what was parsed with a walked  *)
(* file that was gone.  A refresh keeps the import it had when an added file *)
(* takes the specifier by preference, so files with such a specifier, and    *)
(* their importers, are left out.                                            *)
RefreshKeepsTruth ==
    Published # None =>
        LET s == Published
            truth == Truth(s)
            shadowed == Shadowed(s)
            between == {"imports", "exports", "external"}
            Facts(x, kinds) == {f \in x.facts : f.kind \in kinds /\ f.path \notin shadowed}
            Gaps(x, kind) == {f.path : f \in Facts(x, {kind})}
            lacking == Facts(truth, between \cup {"calls"}) \ s.facts
        IN /\ s.entities = truth.entities
           /\ Facts(s, between \cup {"calls"}) \subseteq truth.facts
           /\ Gaps(truth, "unresolved_import") \subseteq Gaps(s, "unresolved_import")
           /\ Gaps(s, "unresolved_import") \ s.missed \subseteq Gaps(truth, "unresolved_import")
           /\ \A f \in lacking :
                 IF f.kind = "calls"
                 THEN f.path \in (s.unseen \cup s.missed) \cap Gaps(s, "unresolved_call")
                 ELSE f.path \in s.missed \cap Gaps(s, "unresolved_import")
=============================================================================
