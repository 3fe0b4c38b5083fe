----------------------------- MODULE Installation -----------------------------
(***************************************************************************)
(* visp install and visp uninstall (src/harness): generated files, the Git *)
(* pre-commit hook with the project's hook chained as pre-commit.local,    *)
(* VISP's part of files it shares with the project, the backups, the       *)
(* manifest of what VISP wrote and the record of the installation.         *)
(* Between commands people edit all of it and upgrade VISP.                *)
(*                                                                         *)
(* A command's plan is applied as one file transaction whose preconditions *)
(* refuse concurrent edits (module FileTransaction), so it is one step.    *)
(* Hosts have JSON configuration: Codex's TOML and Cursor's old file are   *)
(* not modelled, nor are a Claude hook for another host and a hook path    *)
(* outside the worktree.                                                   *)
(***************************************************************************)
EXTENDS Naturals, Sequences, FiniteSetsExt

CONSTANTS
    Harnesses, Profiles,
    AssetsOf(_, _),     \* files generated for a harness and profile
    Script,             \* the file of the Claude hook, generated when that hook is asked for
    SharedOf(_),        \* files of the project in which a harness has an entry of VISP's
    KindOf(_),          \* of a shared file: "activation", "settings" or "mcp"
    Options,            \* what install is called with
    KeptBackups,        \* copies kept of one file
    Absent,
    MaxBuild, MaxEdits  \* bounds: builds of VISP, edits by people

Assets == (UNION {AssetsOf(h, p) : h \in Harnesses, p \in Profiles}) \cup {Script}
Shared == UNION {SharedOf(h) : h \in Harnesses}

VARIABLES
    files,          \* the generated files, each Absent, VISP's or the user's
    hook, local,    \* pre-commit and pre-commit.local
    tracked,        \* is the project's hook tracked by Git?
    shared,         \* the shared files: the project's part and VISP's entry
    backups,        \* earlier texts of a shared file or of the hook, oldest first
    beside,         \* settings that could not be merged, saved beside the file
    manifest,       \* fingerprints of what VISP wrote
    record,         \* the installation
    authorized,     \* is a slice authorized?
    build,          \* of the VISP that is run
    edits,
    mine,           \* history: the hook the project wrote and left alone since
    forced          \* history: the last step was a command with --force

disk == <<files, hook, local, shared, backups, beside, manifest, record>>
vars == <<disk, tracked, authorized, build, edits, mine, forced>>

Generated(b) == [by |-> "visp", text |-> b]
Own == [by |-> "user", text |-> 0]
VispHook(b, chained) == [by |-> "visp", text |-> b, chained |-> chained]
Foreign(n) == [by |-> "user", text |-> n, chained |-> FALSE]
Edited == MaxBuild + 1      \* an entry of VISP's that people changed; 0 is none
Hooks == {"git"} \cup Assets

Init ==
    /\ files = [p \in Assets |-> Absent] /\ local = Absent /\ tracked \in BOOLEAN
    /\ hook \in {Absent, Foreign(0)} /\ mine = hook
    /\ \E parts \in {"none", "mine"} :
          shared = [f \in Shared |-> IF parts = "none" THEN Absent ELSE [part |-> parts, entry |-> 0]]
    /\ backups = [f \in Shared \cup {"git"} |-> <<>>] /\ beside = {}
    /\ manifest = [k \in Shared \cup Hooks |-> Absent] /\ record = Absent
    /\ authorized = FALSE /\ build = 1 /\ edits = 0 /\ forced = FALSE

-----------------------------------------------------------------------------
(* Install *)

\* What a shared file says of VISP.
EntryOf(f) == IF shared[f] = Absent THEN 0 ELSE shared[f].entry
Part(f) == IF shared[f] = Absent THEN "none" ELSE shared[f].part

\* Entries VISP takes for its own. An MCP entry names the executable of the build; the hook's
\* command is recognized in the forms earlier builds gave it, and so is the managed block.
McpRecognized(f) == EntryOf(f) = build
BlockRecognized(f) == EntryOf(f) \in 1..MaxBuild
HookRecognized(f) == EntryOf(f) \in 1..MaxBuild

Recognized(f) ==
    CASE KindOf(f) = "mcp" -> McpRecognized(f)
      [] KindOf(f) = "activation" -> BlockRecognized(f)
      [] OTHER -> HookRecognized(f)

Wanted(o) == AssetsOf(o.harness, o.profile) \cup (IF "claude" \in o.hooks THEN {Script} ELSE {})

Registers(o) ==
    {f \in SharedOf(o.harness) :
        CASE KindOf(f) = "settings" -> "claude" \in o.hooks
          [] KindOf(f) = "mcp" -> o.mcp
          [] OTHER -> TRUE}

HasForeignHook == hook # Absent /\ hook.by = "user"

HookBlocked(o) == HasForeignHook /\ (~o.force \/ tracked \/ local # Absent)

EditedEntry(f) == EntryOf(f) # 0 /\ ~Recognized(f)

McpBlocked(o, f) == Part(f) = "broken" \/ (EditedEntry(f) /\ ~o.force /\ ~o.replaceRuntime)
SettingsBlocked(o, f) == ~o.force /\ (Part(f) = "broken" \/ EditedEntry(f))
ActivationBlocked(o, f) == ~o.force /\ EditedEntry(f)

EntryBlocked(o, f) ==
    CASE KindOf(f) = "mcp" -> McpBlocked(o, f)
      [] KindOf(f) = "settings" -> SettingsBlocked(o, f)
      [] OTHER -> ActivationBlocked(o, f)

RuntimeBlocked(o) == record # Absent /\ record.build # build /\ ~o.replaceRuntime

AssetBlocked(o, p) == ~o.force /\ files[p] \notin {Absent, Generated(build), manifest[p]}

Blocked(o) ==
    \/ RuntimeBlocked(o)
    \/ \E p \in Wanted(o) : AssetBlocked(o, p)
    \/ \E f \in Registers(o) : EntryBlocked(o, f)
    \/ "git" \in o.hooks /\ HookBlocked(o)

Removable(p) == files[p] # Absent /\ manifest[p] = files[p]

\* Files of this harness's other profile.
OtherProfile(o) ==
    {p \in (UNION {AssetsOf(o.harness, profile) : profile \in Profiles}) \ Wanted(o) : Removable(p)}

\* Files of other harnesses, when they are to be pruned.
Residue(o) ==
    LET kept == UNION {AssetsOf(o.harness, profile) : profile \in Profiles}
        others == Assets \ (kept \cup (IF o.harness = "claude-code" THEN {Script} ELSE {}))
    IN  {p \in IF o.prune THEN others \ Wanted(o) ELSE {} : Removable(p)}

Pruned(o) == OtherProfile(o) \cup Residue(o)

Unregisters(o) ==
    IF o.prune THEN {f \in Shared \ SharedOf(o.harness) : Recognized(f)} ELSE {}

\* One copy per distinct text, and only the latest few; an empty file is not worth one.
Saved(copies, text) ==
    IF text = Absent \/ text \in Range(copies) \/ text = [part |-> "none", entry |-> 0] THEN copies
    ELSE Append(SubSeq(copies, Len(copies) + 2 - Min({KeptBackups, Len(copies) + 1}), Len(copies)),
                text)

\* The text without VISP's entry; the managed block's file goes when nothing is left of it.
Without(f, gone) == IF gone /\ Part(f) = "none" THEN Absent ELSE [shared[f] EXCEPT !.entry = 0]

\* Bug: the hook is chained only when it is set aside.
BugNextHook == VispHook(build, HasForeignHook)

NextHook == VispHook(build, HasForeignHook \/ local # Absent)

Empty(f) == shared[f] \in {Absent, [part |-> "none", entry |-> 0]}

Written(o) == {f \in Registers(o) : EntryOf(f) # build}

\* Settings that cannot be parsed are replaced under --force, and saved beside.
Discarded(o) == {f \in Written(o) : KindOf(f) = "settings" /\ Part(f) = "broken"}

\* Files that uninstall may remove because install made them.
Created(o) == {f \in Written(o) : KindOf(f) # "activation" /\ Empty(f)}

NextShared(o, f) ==
    CASE f \in Written(o) ->
            [part |-> IF f \in Discarded(o) THEN "none" ELSE Part(f), entry |-> build]
      [] f \in Unregisters(o) -> Without(f, KindOf(f) = "activation")
      [] OTHER -> shared[f]

NextManifest(o, k) ==
    CASE k \in Wanted(o) -> Generated(build)
      [] k \in Pruned(o) -> Absent
      [] k = "git" /\ "git" \in o.hooks -> NextHook
      [] k \in Created(o) -> NextShared(o, k)
      [] OTHER -> manifest[k]

Install(o) ==
    /\ ~Blocked(o)
    /\ LET git == "git" \in o.hooks
           copied == {f \in Written(o) \cup Unregisters(o) : KindOf(f) = "mcp"}
       IN  /\ files' = [p \in Assets |-> IF p \in Wanted(o) THEN Generated(build)
                                         ELSE IF p \in Pruned(o) THEN Absent ELSE files[p]]
           /\ local' = (IF git /\ HasForeignHook THEN hook ELSE local)
           /\ hook' = (IF git THEN NextHook ELSE hook)
           /\ shared' = [f \in Shared |-> NextShared(o, f)]
           /\ backups' = [f \in DOMAIN backups |->
                IF f \in copied THEN Saved(backups[f], shared[f]) ELSE backups[f]]
           /\ beside' = beside \cup {shared[f] : f \in Discarded(o)}
           /\ manifest' = [k \in DOMAIN manifest |-> NextManifest(o, k)]
           /\ record' = [harness |-> o.harness, build |-> build]
    /\ forced' = o.force
    /\ UNCHANGED <<tracked, authorized, build, edits, mine>>

-----------------------------------------------------------------------------
(* Uninstall *)

GeneratedFor(h) == (UNION {AssetsOf(h, p) : p \in Profiles}) \cup {Script}

OwnedHook == manifest["git"] = hook \/ hook = VispHook(build, hook.chained)

\* Edited hooks keep the marker and, unless the line was removed, the chained hook.
HasMarker == hook # Absent /\ hook.by # "user"

Restores == hook.chained /\ local # Absent

UninstallHook(force) ==
    IF HasMarker /\ (OwnedHook \/ force)
    THEN /\ hook' = (IF Restores THEN local ELSE Absent)
         /\ local' = (IF Restores THEN Absent ELSE local)
    ELSE UNCHANGED <<hook, local>>

\* Shared files that lose their entry: --force removes edited entries from the settings only.
Rewritten(h, force) ==
    {f \in SharedOf(h) \cup {g \in Shared : KindOf(g) = "settings"} :
        /\ EntryOf(f) # 0
        /\ Recognized(f) \/ (KindOf(f) = "settings" /\ force)}

\* A file goes when nothing else is left of it and install made it.
Goes(f) == KindOf(f) = "activation" \/ manifest[f] # Absent

Ready(h) == ~authorized /\ (record # Absent => record.harness = h)

RemovedAssets(h, force) ==
    {p \in GeneratedFor(h) :
        files[p] # Absent /\ (force \/ files[p] \in {manifest[p], Generated(build)})}

Uninstall(h, force) ==
    /\ Ready(h)
    /\ LET removed == RemovedAssets(h, force)
           rewritten == Rewritten(h, force)
           saved == {f \in rewritten : KindOf(f) # "activation"}
           savesHook == force /\ HasMarker /\ ~OwnedHook
       IN  /\ files' = [p \in Assets |-> IF p \in removed THEN Absent ELSE files[p]]
           /\ shared' = [f \in Shared |-> IF f \in rewritten THEN Without(f, Goes(f)) ELSE shared[f]]
           /\ backups' = [f \in DOMAIN backups |->
                CASE f \in saved -> Saved(backups[f], shared[f])
                  [] f = "git" /\ savesHook -> Saved(backups[f], hook)
                  [] OTHER -> backups[f]]
           /\ UninstallHook(force)
           /\ manifest' = [k \in DOMAIN manifest |->
                IF k \in removed \cup saved \/ (k = "git" /\ hook' # hook) THEN Absent
                ELSE manifest[k]]
    /\ record' = Absent /\ forced' = force
    /\ UNCHANGED <<beside, tracked, authorized, build, edits, mine>>

-----------------------------------------------------------------------------
(* People *)

Edit == edits < MaxEdits /\ edits' = edits + 1 /\ forced' = FALSE

EditAsset ==
    /\ Edit
    /\ \E p \in Assets : files[p] # Absent /\ \E text \in {Absent, Own} : files' = [files EXCEPT ![p] = text]
    /\ UNCHANGED <<hook, local, shared, backups, beside, manifest, record, tracked, authorized, build, mine>>

\* A hook of the project's own, or VISP's without its last line or without the chained hook.
EditHook ==
    /\ Edit
    /\ \/ hook' = Foreign(edits') /\ mine' = hook'
       \/ HasMarker /\ hook' = [hook EXCEPT !.by = "edited"] /\ mine' = Absent
       \/ HasMarker /\ hook' = [hook EXCEPT !.by = "edited", !.chained = FALSE] /\ mine' = Absent
       \/ hook # Absent /\ hook' = Absent /\ mine' = Absent
    /\ UNCHANGED <<files, local, shared, backups, beside, manifest, record, tracked, authorized, build>>

\* The project's part is written, broken or taken away, the entry edited, or the file deleted.
EditShared ==
    /\ Edit
    /\ \E f \in Shared :
          \/ \E part \in {"none", "mine"} :
                Part(f) # part /\ shared' = [shared EXCEPT ![f] = [part |-> part, entry |-> EntryOf(f)]]
          \/ Part(f) # "broken" /\ shared' = [shared EXCEPT ![f] = [part |-> "broken", entry |-> 0]]
          \/ EntryOf(f) # 0 /\ shared' = [shared EXCEPT ![f].entry = Edited]
          \/ shared[f] # Absent /\ shared' = [shared EXCEPT ![f] = Absent]
    /\ UNCHANGED <<files, hook, local, backups, beside, manifest, record, tracked, authorized, build, mine>>

Upgrade ==
    /\ build < MaxBuild /\ build' = build + 1 /\ forced' = FALSE
    /\ UNCHANGED <<disk, tracked, authorized, edits, mine>>

\* work authorizes a slice, done ends it.
Authorize ==
    /\ Edit /\ authorized' = ~authorized
    /\ UNCHANGED <<disk, tracked, build, mine>>

Next ==
    \/ \E o \in Options : Install(o)
    \/ \E h \in Harnesses, force \in BOOLEAN : Uninstall(h, force)
    \/ EditAsset \/ EditHook \/ EditShared \/ Upgrade \/ Authorize

Spec == Init /\ [][Next]_vars

-----------------------------------------------------------------------------

\* The hook the project wrote is run at every commit until somebody else changes it, through
\* installs, upgrades and uninstalls: it is the hook, or VISP's hook chains it.
ProjectHookRuns ==
    mine # Absent => hook = mine \/ (hook # Absent /\ hook.chained /\ local = mine)

\* What VISP wrote and nobody touched is recognized, so that it can be replaced and removed
\* without --force, whatever was installed since (uninstall.ts: "still recognizes as its own").
UntouchedIsOwned ==
    /\ \A p \in Assets : files[p] # Absent /\ files[p].by = "visp" =>
            files[p] \in {manifest[p], Generated(build)}
    /\ hook # Absent /\ hook.by = "visp" => OwnedHook

\* No command loses what people wrote: files and entries they edited are only replaced under
\* --force, or kept in a backup; their part of a shared file stays in it.
CommandKeepsText ==
    edits' = edits =>
        /\ ~forced' => \A p \in Assets : files[p] = Own => files'[p] = Own
        /\ \A f \in Shared : shared[f] # Absent /\ shared[f].part # "none" =>
              \/ shared'[f] # Absent /\ shared'[f].part = shared[f].part
              \/ shared[f] \in beside'
        /\ \A f \in Shared : EntryOf(f) = Edited /\ ~forced' =>
              shared'[f] = shared[f] \/ shared[f] \in Range(backups'[f])

KeepsUserText == [][CommandKeepsText]_vars
=============================================================================
