----------------------------- MODULE MCWorktree -----------------------------
(***************************************************************************)
(* Files that people edit while VISP writes or reads them, side by side:   *)
(* the initial state picks one.  A transaction and an editor (the plans of *)
(* MCFileTransaction), an installation, where people edit its generated    *)
(* files and the Git hook or, without a hook, its entries in files of the  *)
(* project, and the repository index with two indexers: a module, another  *)
(* the same specifier may name, a re-exporter and a caller.                *)
(***************************************************************************)
EXTENDS MCFileTransaction

CONSTANTS
    Harnesses, Profiles, AssetsOf(_, _), Script, SharedOf(_), KindOf(_),    \* of an installation
    HookOptions, EntryOptions,      \* what install is called with, in the one and the other part
    KeptBackups, MaxBuild,
    i1, i2,                         \* indexers
    MaxEdits                        \* bound: edits of an installation's files, or of the sources

VARIABLES
    part,
    generated, hook, local, tracked, shared, backups, beside, manifest, record, authorized, build,
    edits, mine, forced,
    tree, snapshots, head, indexer, walked, base, draft, saves, issued, lost

installVars == <<generated, hook, local, tracked, shared, backups, beside, manifest, record,
                 authorized, build, edits, mine, forced>>
graphVars == <<tree, snapshots, head, indexer, walked, base, draft, saves, issued, lost>>

GeneratedFiles(harness, profile) ==
    CASE profile = "minimal" -> {"guide"}
      [] harness = "claude-code" -> {"guide", "skill"}
      [] OTHER -> {"guide", "command"}
Registered(harness) ==
    IF harness = "claude-code" THEN {"CLAUDE.md", "settings", ".mcp.json"} ELSE {}
Kind(f) == CASE f = "settings" -> "settings" [] f = "CLAUDE.md" -> "activation" [] OTHER -> "mcp"
Option(harness, profile, hooks, force, replace, prune) ==
    [harness |-> harness, profile |-> profile, hooks |-> hooks, force |-> force,
     mcp |-> harness = "claude-code" /\ "git" \notin hooks, replaceRuntime |-> replace, prune |-> prune]

WithHook ==
    {Option("claude-code", "standard", {"git", "claude"}, force, TRUE, FALSE) : force \in BOOLEAN}
    \cup {Option("claude-code", "standard", {"git", "claude"}, FALSE, FALSE, FALSE),
          Option("claude-code", "minimal", {"git"}, FALSE, TRUE, FALSE),
          Option("opencode", "minimal", {"git"}, FALSE, TRUE, TRUE)}

WithEntries ==
    {Option("claude-code", "minimal", {"claude"}, FALSE, replace, FALSE) : replace \in BOOLEAN}
    \cup {Option("claude-code", "minimal", {"claude"}, TRUE, TRUE, FALSE),
          Option("opencode", "minimal", {}, FALSE, TRUE, TRUE)}

Installed == INSTANCE Installation
    WITH files <- generated, Options <- HookOptions \cup EntryOptions

\* Generated files, shared files and the hook are different files, and a text is not none.
ASSUME InstallationConstants ==
    /\ \A o \in HookOptions \cup EntryOptions : o.harness \in Harnesses /\ o.profile \in Profiles
    /\ Installed!Assets \cap Installed!Shared = {} /\ "git" \notin Installed!Assets \cup Installed!Shared
    /\ KeptBackups \in Nat /\ MaxBuild \in Nat \ {0}
    /\ Absent \notin [by : {"visp", "user"}, text : Nat]
    /\ Absent \notin [by : {"visp", "user", "edited"}, text : Nat, chained : BOOLEAN]
    /\ Absent \notin [part : {"none", "mine", "broken"}, entry : Nat]

Source(defines, imports, exports) ==
    [defines |-> defines, imports |-> imports, exports |-> exports, calls |-> {}]
Uses(spec) == [Source({}, {spec}, {}) EXCEPT !.calls = {[name |-> "n", from |-> spec]}]
Defines == Source({"n"}, {}, {})
Nothing == Source({}, {}, {})
Reexports == Source({}, {"./m"}, {[name |-> "n", from |-> "./m"]})

Sources(f) ==
    CASE f = "m" -> {Defines, Nothing}
      [] f = "alt" -> {Defines}
      [] f = "barrel" -> {Reexports, Nothing}
      [] OTHER -> {Uses("./m"), Uses("./barrel"), Uses("alt")}
Candidates(spec) ==
    CASE spec = "./m" -> <<"m", "alt">> [] spec = "alt" -> <<"alt">> [] OTHER -> <<"barrel">>
Tree(m, barrel, caller) ==
    [f \in {"m", "alt", "barrel", "caller"} |->
        CASE f = "m" -> m [] f = "alt" -> Absent [] f = "barrel" -> barrel [] OTHER -> caller]

Graph == INSTANCE GraphIndex
    WITH pc <- indexer, edits <- saves, Paths <- {"m", "alt", "barrel", "caller"},
         SourcesOf <- Sources, CandidatesOf <- Candidates, Modules <- {"alt"},
         Initial <- {Tree(Defines, Reexports, Uses("./barrel")), Tree(Absent, Reexports, Uses("./m")),
                     Tree(Defines, Reexports, Uses("alt"))},
         Indexers <- {i1, i2}, MaxSnapshots <- 2

WorktreeInit ==
    /\ part \in {"transaction", "files", "entries", "graph"}
    /\ Init /\ Graph!Init /\ Installed!Init
    /\ part # "graph" => tree = Tree(Defines, Reexports, Uses("./barrel"))
    /\ part # "files" => hook = Absent /\ ~tracked
    /\ part # "entries" => \A f \in DOMAIN shared : shared[f] = Absent

Uninstalls == \E h \in Harnesses, force \in BOOLEAN : Installed!Uninstall(h, force)

TransactionNext == part = "transaction" /\ Next /\ UNCHANGED <<part, installVars, graphVars>>
FilesNext ==
    /\ part = "files" /\ UNCHANGED <<part, vars, graphVars>>
    /\ \/ \E o \in HookOptions : Installed!Install(o)
       \/ Uninstalls \/ Installed!Upgrade \/ Installed!Authorize
       \/ Installed!EditAsset \/ Installed!EditHook
EntriesNext ==
    /\ part = "entries" /\ UNCHANGED <<part, vars, graphVars>>
    /\ \/ \E o \in EntryOptions : Installed!Install(o)
       \/ Uninstalls \/ Installed!Upgrade \/ Installed!EditShared
GraphNext == part = "graph" /\ Graph!Next /\ UNCHANGED <<part, vars, installVars>>

WorktreeSpec ==
    WorktreeInit /\ [][TransactionNext \/ FilesNext \/ EntriesNext \/ GraphNext]_
                        <<part, vars, installVars, graphVars>>

Indexing == Permutations({i1, i2})

-----------------------------------------------------------------------------

\* The project's hook runs after every install, upgrade and uninstall, and what nobody edited is
\* still known to be VISP's (install-plan.ts:520, uninstall.ts:150).
InstallationOwnsItsOwn == Installed!ProjectHookRuns /\ Installed!UntouchedIsOwned

\* No transaction loses an edit outside its check-to-write gap, and no install or uninstall loses
\* what people wrote, in generated files or in files it shares.
KeepsUserText == OverwritesOnlyWhatItSaw /\ [][Installed!CommandKeepsText]_installVars

\* The index is refreshed as if it had been made anew, whoever else indexes and whatever is edited,
\* also between the walk and the reading of a file; and it is lost only when an indexer that published
\* earlier deletes the snapshot the head names (store.ts:290), which store.ts:67 says it never is.
IndexTellsTruth == Graph!HeadReadable /\ Graph!RefreshKeepsTruth
=============================================================================
