------------------------------ MODULE EditScope ------------------------------
(***************************************************************************)
(* Who may edit what, and what the closing command lets through            *)
(* (src/orchestrate, src/harness/scripts/pretooluse.script.mjs,            *)
(* src/workflow/product/scopes.ts and work.ts).                            *)
(*                                                                         *)
(* `visp work` grants one slice: it records the source, the commit, the    *)
(* blocked paths and the host session it was asked in. The edit hook and   *)
(* the pre-commit hook ask the guard about single changes, `visp done`     *)
(* judges everything that changed since the grant. Between the hook's      *)
(* answer and the edit, and between grants, other sessions, the shell,     *)
(* incoming commits, brief revisions and configuration edits take effect.  *)
(*                                                                         *)
(* A file's content is 0 or 1. EnvFile stands for the files Git ignores    *)
(* and VISP hashes itself. A commit is what HEAD holds of each file. A     *)
(* guard call reads the committed state at once; pending transactions,     *)
(* which make it refuse, are FileTransaction's.                            *)
(***************************************************************************)
EXTENDS FiniteSets, Naturals

CONSTANTS
    Sessions, Slices, Paths, EnvFile, NoOne,
    Scopes,       \* the scopes a brief may give each slice: [Slices -> SUBSET SUBSET Paths]
    Blockable,    \* what the configuration may block
    MaxChanges,   \* edits, commits and merges
    MaxTurns,     \* configuration edits, revisions, waivers and reviews
    MaxHooks,     \* shell commands and prompts recorded by the hooks
    MaxGrants

VARIABLES
    content,      \* the working tree
    head,         \* what HEAD holds of the files Git tracks
    scope,        \* the brief's allowed files of each slice
    closed,       \* the closed slices
    grant,        \* the retained authorization, or NoOne
    config,       \* the paths visp.yml blocks
    waived,       \* an override waives scope.allowed-files
    reviewing,    \* a review is pending
    hosts,        \* the sessions whose heartbeat is fresh
    latest,       \* the session the hooks recorded last, or NoOne
    hook,         \* per session: idle, recording its heartbeat, running a command
    answered,     \* per session: the path the guard allowed it to edit, or NoOne
    granter,      \* history: the session that asked for the grant
    since,        \* history: the first grant of the slice being worked
    slipped,      \* history: paths changed other than by an edit the grant allows
    changes, turns, records, grants

scopeVars == <<content, head, scope, closed, grant, config, waived, reviewing, hosts, latest, hook,
               answered, granter, since, slipped, changes, turns, records, grants>>

Tracked == Paths \ {EnvFile}

TypeOK ==
    /\ content \in [Paths -> {0, 1}] /\ head \in [Tracked -> {0, 1}]
    /\ scope \in [Slices -> SUBSET Paths] /\ closed \subseteq Slices
    /\ config \subseteq Paths /\ slipped \subseteq Paths
    /\ hosts \subseteq Sessions /\ latest \in Sessions \cup {NoOne}
    /\ hook \in [Sessions -> {"idle", "recording", "command"}]
    /\ answered \in [Sessions -> Paths \cup {NoOne}]

-----------------------------------------------------------------------------
(* The grant *)

\* The retained grant describes this contract, and its slice is open.
ProductAuthorization == grant # NoOne /\ grant.contract = scope[grant.task] /\ grant.task \notin closed

FromEarlierSession(asking) ==
    LET caller == IF asking # NoOne THEN asking ELSE latest
    IN  grant.session # NoOne /\ caller # NoOne /\ caller # grant.session

\* The slices in whose name this session may edit; with done, closed slices count too.
ProductScopes(asking, includeDone) ==
    (IF ProductAuthorization /\ ~FromEarlierSession(asking) THEN {grant.task} ELSE {})
        \cup (IF includeDone THEN closed ELSE {})

BugActiveBlockedPaths == config

\* Write-time blocks stay those of the configuration that granted the slice.
ActiveBlockedPaths == IF ProductAuthorization THEN grant.blocked ELSE config

BugCurrentHostSession == latest

\* With several active sessions and no caller identity, a grant is left unstamped.
CurrentHostSession == IF Cardinality(hosts) > 1 THEN NoOne ELSE latest

DecideScope(path, markers, blocked) ==
    /\ path \notin blocked
    /\ markers # {}
    /\ waived \/ \E slice \in markers : path \in scope[slice]

Allowed(session, path) ==
    /\ DecideScope(path, ProductScopes(session, FALSE), ActiveBlockedPaths)
    /\ ~reviewing

-----------------------------------------------------------------------------
(* What `visp done` judges *)

ChangedEnv(baseline) == {p \in {EnvFile} : content[p] # baseline[p]}

\* Changed by commits since, and locally as the last of them left it.
CommittedChangesSince(commit) == {p \in Tracked : head[p] # commit[p] /\ content[p] = head[p]}

ProductSourceChanges(baseline, excluded) == {p \in Tracked \ excluded : content[p] # baseline[p]}

ScopeChanges ==
    ProductSourceChanges(grant.baseline, CommittedChangesSince(grant.head)) \cup ChangedEnv(grant.baseline)

ScopeViolations == {p \in ScopeChanges : ~DecideScope(p, {grant.task}, grant.blocked)}

-----------------------------------------------------------------------------

Init ==
    /\ content \in [Paths -> {0, 1}] /\ head = [p \in Tracked |-> 0]
    /\ \A p \in Paths : content[p] = 1 => p \in Tracked
    /\ scope \in {s \in [Slices -> SUBSET Paths] : \A t \in Slices : s[t] \in Scopes[t]}
    /\ closed = {} /\ grant = NoOne /\ config \in SUBSET Blockable
    /\ waived = FALSE /\ reviewing = FALSE
    /\ hosts = {} /\ latest = NoOne /\ hook = [s \in Sessions |-> "idle"]
    /\ answered = [s \in Sessions |-> NoOne]
    /\ granter = NoOne /\ since = NoOne /\ slipped = {}
    /\ changes = 0 /\ turns = 0 /\ records = 0 /\ grants = 0

treeVars == <<content, head, slipped, changes>>
policyVars == <<scope, config, waived, reviewing, turns>>
hostVars == <<hosts, latest, hook, records>>
grantVars == <<closed, grant, granter, since, grants>>

Spend(counter, bound) == counter < bound /\ counter' = counter + 1

\* The hook asks the guard about an edit, naming the session that edits.
Ask(s, p) ==
    /\ answered[s] = NoOne /\ changes < MaxChanges
    /\ Allowed(s, p)
    /\ answered' = [answered EXCEPT ![s] = p]
    /\ UNCHANGED <<treeVars, policyVars, hostVars, grantVars>>

\* The edit follows the answer whenever the host gets to it; a waiver of today is no scope.
Edit(s) ==
    LET path == answered[s]
    IN  /\ path # NoOne /\ Spend(changes, MaxChanges)
        /\ content' = [content EXCEPT ![path] = 1 - @]
        /\ slipped' = IF Allowed(s, path) /\ ~waived THEN slipped ELSE slipped \cup {path}
        /\ answered' = [answered EXCEPT ![s] = NoOne]
        /\ UNCHANGED <<head, policyVars, hostVars, grantVars>>

\* A shell command or a person changes a file without asking.
ChangeUnasked(p) ==
    /\ Spend(changes, MaxChanges)
    /\ content' = [content EXCEPT ![p] = 1 - @]
    /\ slipped' = slipped \cup {p}
    /\ UNCHANGED <<head, answered, policyVars, hostVars, grantVars>>

\* The pre-commit hook: with no slice authorized for the current session only a review stops it.
Commit(p) ==
    LET active == ProductScopes(NoOne, FALSE)
        checked == {p} \cup (IF ProductAuthorization THEN ChangedEnv(grant.baseline) ELSE {})
    IN  /\ p \in Tracked /\ content[p] # head[p] /\ Spend(changes, MaxChanges)
        /\ ~reviewing
        /\ active # {} =>
              \A c \in checked : DecideScope(c, ProductScopes(NoOne, TRUE), ActiveBlockedPaths)
        /\ head' = [head EXCEPT ![p] = content[p]]
        /\ UNCHANGED <<content, slipped, answered, policyVars, hostVars, grantVars>>

\* A pull brings a committed change of a file that has no local edits.
Merge(p) ==
    /\ p \in Tracked /\ content[p] = head[p] /\ Spend(changes, MaxChanges)
    /\ content' = [content EXCEPT ![p] = 1 - @] /\ head' = [head EXCEPT ![p] = 1 - @]
    /\ slipped' = IF grant # NoOne /\ head'[p] = grant.head[p] THEN slipped \cup {p} ELSE slipped
    /\ UNCHANGED <<answered, policyVars, hostVars, grantVars>>

-----------------------------------------------------------------------------

\* A hook's heartbeat is two files: the session's own, then the one that names the latest.
RecordHost(s) ==
    /\ hook[s] = "idle" /\ Spend(records, MaxHooks)
    /\ hosts' = hosts \cup {s} /\ hook' = [hook EXCEPT ![s] = "recording"]
    /\ UNCHANGED <<latest, answered, treeVars, policyVars, grantVars>>

\* A prompt ends there; a shell hook lets its command run.
RecordSession(s) ==
    /\ hook[s] = "recording" /\ latest' = s
    /\ \E next \in {"idle", "command"} : hook' = [hook EXCEPT ![s] = next]
    /\ UNCHANGED <<hosts, records, answered, treeVars, policyVars, grantVars>>

\* An hour without a prompt or a shell command.
Expire(s) ==
    /\ s \in hosts /\ \A t \in Sessions : hook[t] = "idle"
    /\ hosts' = hosts \ {s}
    /\ UNCHANGED <<latest, hook, records, answered, treeVars, policyVars, grantVars>>

BugGrantAuthorization(task, session) ==
    [task |-> task, contract |-> scope[task], session |-> session,
     baseline |-> content, head |-> head, blocked |-> config]

\* Re-authorizing the same slice keeps its baseline, commit and blocks.
GrantAuthorization(task, session) ==
    LET kept == grant # NoOne /\ grant.task = task
    IN  [task |-> task, contract |-> scope[task], session |-> session,
         baseline |-> IF kept THEN grant.baseline ELSE content,
         head |-> IF kept THEN grant.head ELSE head,
         blocked |-> IF kept THEN grant.blocked ELSE config]

\* `visp work` run in a session's shell.
Work(s, task) ==
    LET kept == grant # NoOne /\ grant.task = task
    IN  /\ hook[s] = "command" /\ Spend(grants, MaxGrants)
        /\ task \notin closed /\ ~reviewing
        /\ grant' = GrantAuthorization(task, CurrentHostSession)
        /\ granter' = s
        /\ since' = IF kept THEN since ELSE [content |-> content, head |-> head, blocked |-> config]
        /\ slipped' = CASE ~kept -> {}
                        [] kept /\ ProductAuthorization -> slipped
                        [] OTHER -> slipped \cup {p \in Paths : content[p] # grant.baseline[p]}
        /\ hook' = [hook EXCEPT ![s] = "idle"]
        /\ UNCHANGED <<content, head, changes, closed, hosts, latest, records, answered, policyVars>>

\* Any other command; the shell is done.
Return(s) ==
    /\ hook[s] = "command" /\ hook' = [hook EXCEPT ![s] = "idle"]
    /\ UNCHANGED <<hosts, latest, records, answered, treeVars, policyVars, grantVars>>

\* `visp done`, its checks passing: the slice is closed and its grant withdrawn.
Done ==
    /\ ProductAuthorization /\ ~reviewing /\ ScopeViolations = {}
    /\ closed' = closed \cup {grant.task} /\ grant' = NoOne
    /\ UNCHANGED <<granter, since, grants, answered, treeVars, policyVars, hostVars>>

-----------------------------------------------------------------------------

Policy ==
    /\ Spend(turns, MaxTurns)
    /\ UNCHANGED <<answered, treeVars, hostVars, grantVars>>

Revise(task) ==
    /\ Policy /\ UNCHANGED <<config, waived, reviewing>>
    /\ \E allowed \in Scopes[task] \ {scope[task]} : scope' = [scope EXCEPT ![task] = allowed]

Configure ==
    /\ Policy /\ UNCHANGED <<scope, waived, reviewing>>
    /\ config' \in (SUBSET Blockable) \ {config}

Waive == Policy /\ waived' = ~waived /\ UNCHANGED <<scope, config, reviewing>>

Review == Policy /\ reviewing' = ~reviewing /\ UNCHANGED <<scope, config, waived>>

Next ==
    \/ \E s \in Sessions, p \in Paths : Ask(s, p)
    \/ \E s \in Sessions : Edit(s) \/ RecordHost(s) \/ RecordSession(s) \/ Expire(s) \/ Return(s)
    \/ \E p \in Paths : ChangeUnasked(p) \/ Commit(p) \/ Merge(p)
    \/ \E s \in Sessions, task \in Slices : Work(s, task)
    \/ Done
    \/ \E task \in Slices : Revise(task)
    \/ Configure \/ Waive \/ Review

-----------------------------------------------------------------------------

\* A grant that names a session names the one whose shell ran `visp work`, whichever session's
\* hooks run meanwhile (host-prompts.ts:132-163, pretooluse.script.mjs recordSession).
GrantNamesItsSession == grant # NoOne => grant.session \in {NoOne, granter}

\* What the hook allows under the standing grant, `visp done` does not refuse: the guard and the
\* closing command agree through configuration edits, commits and repeated grants.
AllowedEditsClose == ProductAuthorization /\ ~waived => ScopeViolations \subseteq slipped

\* A slice closes only on changes, since it was first granted, that lie in its scope and outside
\* the paths blocked then, or that came by commits and stand as committed (docs/workflow.md:118).
ClosesInScope ==
    closed' # closed =>
        \A p \in Paths :
            \/ content[p] = since.content[p]
            \/ p \in Tracked /\ head[p] # since.head[p] /\ content[p] = head[p]
            \/ p \notin since.blocked /\ (waived \/ p \in scope[grant.task])

=============================================================================
