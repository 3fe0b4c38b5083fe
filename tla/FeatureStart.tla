----------------------------- MODULE FeatureStart -----------------------------
(***************************************************************************)
(* visp feature (src/workflow/product/feature-create.ts): concurrent calls *)
(* take the user's recorded prompts, record what earlier features were     *)
(* asked for as memory, and create a feature.  Prompts, the earlier        *)
(* feature's duplicate and memory are read without the lock, since model   *)
(* and service calls take long; what they decide is checked again under    *)
(* the lock, by preconditions of the transaction that creates the feature. *)
(*                                                                         *)
(* A prompt is its number.  The request is one of them, or the worker's    *)
(* own words (0) when none is recorded; each prompt states a lasting rule. *)
(* A Codex session keeps every prompt, a host's hook only those no feature *)
(* took.  Git may be writable for a call or not, as in Codex's sandbox.    *)
(* Notes selected for a request, risk, goal, the foundation of a feature   *)
(* and the features in commits of other branches are left out; a failed    *)
(* step ends a call.                                                       *)
(***************************************************************************)
EXTENDS Integers, Sequences, FiniteSetsExt

CONSTANTS
    Processes, Worktrees,
    Short,                      \* requests of fewer than 20 characters
    Chunks,                     \* parts of a request, each recorded by a call of the service
    None,
    MaxPrompts, MaxFeatures,    \* bounds, as are the next two
    MaxCalls, MaxCrashes

VARIABLES
    home,       \* the worktree of each process
    service,    \* does an external service keep the memory? Otherwise VISP's own file does
    session,    \* does a Codex session show every prompt, taken or not?
    said,       \* per worktree: the last prompt said
    file,       \* the prompts in the hook's file
    hook,       \* what the hook has read and is about to write back
    rewritten,  \* history: prompts written back after a feature took them
    features,   \* per worktree, in order of creation; "claimed" and "heard" are history: is the
                \* ordinal reserved, and from which prompts were rules taken?
    refs,       \* ordinals reserved in Git, which the worktrees share
    lock,       \* per worktree
    rules,      \* in force
    removed,    \* history: rules the user removed, with the number of features then
    recorded,   \* per worktree: features whose requests are in the memory
    progress,   \* chunks the service has confirmed
    told,       \* history: chunks the service recorded
    call,       \* what each process is doing
    calls, crashes

prompts == <<file, hook, rewritten>>
setting == <<home, service, session>>
memory == <<recorded, progress, told>>
vars == <<setting, said, prompts, features, refs, lock, rules, removed, memory, call, calls, crashes>>

Idle == [at |-> "idle"]

\* One earlier feature, whose request is not in the memory yet.
Init ==
    /\ home \in [Processes -> Worktrees]
    /\ service \in BOOLEAN /\ session \in BOOLEAN
    /\ said = [w \in Worktrees |-> 0] /\ hook = [w \in Worktrees |-> None]
    /\ file = [w \in Worktrees |-> {}] /\ rewritten = file
    /\ features = [w \in Worktrees |->
            <<[id |-> 1, claimed |-> TRUE, request |-> 0, takes |-> {}, heard |-> {},
               branch |-> FALSE, recent |-> FALSE]>>]
    /\ refs = {1} /\ lock = [w \in Worktrees |-> None]
    /\ rules = [w \in Worktrees |-> {}] /\ removed = rules
    /\ recorded = [w \in Worktrees |-> <<>>] /\ progress = [w \in Worktrees |-> {}]
    /\ told = progress
    /\ call = [p \in Processes |-> Idle] /\ calls = 0 /\ crashes = 0

At(p, place) == call[p].at = place
Move(p, place) == call' = [call EXCEPT ![p].at = place]

\* Prompts of the hook's file; without any, those of the Codex session.
Prompts(w) == IF file[w] # {} \/ ~session THEN file[w] ELSE 1..said[w]

Taken(w) == UNION {features[w][i].takes : i \in DOMAIN features[w]}

\* A feature of the last ten minutes, not worked on, already records the request; a short one is
\* never asked for.
Duplicate(w, c) ==
    /\ ~c.branch /\ c.request \notin Short
    /\ \E i \in DOMAIN features[w] : features[w][i].recent /\ features[w][i].request = c.request

\* hostRequest: the latest prompt, or one the worker quotes; the file is to be removed as it was read.
Call(p) ==
    LET w == home[p] IN
    /\ At(p, "idle") /\ calls < MaxCalls /\ calls' = calls + 1
    /\ \E request \in IF Prompts(w) = {} THEN {0} ELSE Prompts(w), branch \in BOOLEAN :
          call' = [call EXCEPT ![p] =
              [at |-> "check", request |-> request, prompts |-> Prompts(w), branch |-> branch,
               removes |-> file[w] # {}, file |-> file[w],
               before |-> <<>>, seen |-> {}, todo |-> <<>>, added |-> <<>>, id |-> 0, claimed |-> FALSE]]
    /\ UNCHANGED <<setting, said, prompts, features, refs, lock, rules, removed, memory, crashes>>

\* A call ends with the feature another one made, or with an error.
End(p) == call' = [call EXCEPT ![p] = Idle]

Release(p) == lock' = [lock EXCEPT ![home[p]] = None]

\* The first look, without the lock.
Check(p) ==
    /\ At(p, "check")
    /\ IF Duplicate(home[p], call[p]) THEN End(p) ELSE Move(p, "memory")
    /\ UNCHANGED <<setting, said, prompts, features, refs, lock, rules, removed, memory, calls, crashes>>

Ids(w) == [i \in DOMAIN features[w] |-> features[w][i].id]

\* s without the elements of U.
Without(s, U) ==
    MapThenFoldSet(LAMBDA x, kept : IF x \in U THEN kept ELSE Append(kept, x), <<>>,
                   LAMBDA i : s[i], Max, DOMAIN s)

\* Chunks not confirmed yet, feature by feature.
Unconfirmed(w, earlier) ==
    LET chunks == [i \in 1..(Len(earlier) * Chunks) |->
                      <<earlier[((i - 1) \div Chunks) + 1], ((i - 1) % Chunks) + 1>>]
    IN  Without(chunks, progress[w])

\* Earlier features whose requests the memory does not hold.
Unrecorded(w) == Without(Ids(w), Range(recorded[w]))

ReadMemory(p) ==
    LET w == home[p]
        earlier == Unrecorded(w)
    IN
    /\ At(p, "memory")
    /\ call' = [call EXCEPT ![p] =
          [@ EXCEPT !.before = recorded[w], !.seen = progress[w], !.added = earlier,
                    !.todo = IF service THEN Unconfirmed(w, earlier) ELSE <<>>,
                    !.at = IF service THEN "tell" ELSE "create"]]
    /\ UNCHANGED <<setting, said, prompts, features, refs, lock, rules, removed, memory, calls, crashes>>

\* The service records a chunk.
Tell(p) ==
    LET w == home[p] IN
    /\ At(p, "tell") /\ call[p].todo # <<>>
    /\ told' = [told EXCEPT ![w] = @ \cup {Head(call[p].todo)}]
    /\ Move(p, "confirm")
    /\ UNCHANGED <<setting, said, prompts, features, refs, lock, rules, removed, recorded, progress, calls, crashes>>

\* Bug: a chunk that could not be recorded is passed over.
BugTellFails(p) ==
    /\ At(p, "tell") /\ call[p].todo # <<>>
    /\ call' = [call EXCEPT ![p].todo = Tail(@)]
    /\ UNCHANGED <<setting, said, prompts, features, refs, lock, rules, removed, memory, calls, crashes>>

\* It fails, or times out: the feature stays to be recorded, and its other chunks may be tried.
TellFails(p) ==
    /\ At(p, "tell") /\ call[p].todo # <<>>
    /\ LET failed == Head(call[p].todo)
           others == Without(call[p].todo, {failed[1]} \X (1..Chunks))
       IN  \E rest \in {Tail(call[p].todo), others} :
              call' = [call EXCEPT ![p] =
                  [@ EXCEPT !.todo = rest, !.added = Without(call[p].added, {failed[1]})]]
    /\ UNCHANGED <<setting, said, prompts, features, refs, lock, rules, removed, memory, calls, crashes>>

\* A transaction of its own, on the progress this call has seen.
Confirm(p) ==
    LET w == home[p]
        confirmed == call[p].seen \cup {Head(call[p].todo)}
    IN
    /\ At(p, "confirm") /\ lock[w] = None
    /\ IF progress[w] = call[p].seen
       THEN /\ progress' = [progress EXCEPT ![w] = confirmed]
            /\ call' = [call EXCEPT ![p] =
                  [@ EXCEPT !.seen = confirmed, !.todo = Tail(call[p].todo), !.at = "tell"]]
       ELSE End(p) /\ UNCHANGED progress
    /\ UNCHANGED <<setting, said, prompts, features, refs, lock, rules, removed, recorded, told, calls, crashes>>

AllTold(p) ==
    /\ At(p, "tell") /\ call[p].todo = <<>> /\ Move(p, "create")
    /\ UNCHANGED <<setting, said, prompts, features, refs, lock, rules, removed, memory, calls, crashes>>

-----------------------------------------------------------------------------
(* Under the lock *)

\* The authoritative look: the one before could not see a create in flight.
Lock(p) ==
    LET w == home[p] IN
    /\ At(p, "create") /\ lock[w] = None
    /\ IF Duplicate(w, call[p]) THEN End(p) /\ UNCHANGED lock
       ELSE lock' = [lock EXCEPT ![w] = p] /\ Move(p, "list")
    /\ UNCHANGED <<setting, said, prompts, features, refs, rules, removed, memory, calls, crashes>>

\* The next ordinal after those of this worktree and those reserved in Git.
ListRefs(p) ==
    /\ At(p, "list")
    /\ call' = [call EXCEPT ![p] =
          [@ EXCEPT !.id = 1 + Max(refs \cup Range(Ids(home[p]))), !.at = "claim"]]
    /\ UNCHANGED <<setting, said, prompts, features, refs, lock, rules, removed, memory, calls, crashes>>

\* update-ref creates the reference, or another worktree was first, or Git cannot be written: then
\* the ordinal is used without a reference.
Claim(p) ==
    /\ At(p, "claim")
    /\ \/ call[p].id \in refs /\ Move(p, "list") /\ UNCHANGED refs
       \/ /\ call[p].id \notin refs /\ refs' = refs \cup {call[p].id}
          /\ call' = [call EXCEPT ![p] = [@ EXCEPT !.claimed = TRUE, !.at = "save"]]
       \/ call[p].id \notin refs /\ Move(p, "save") /\ UNCHANGED refs
    /\ UNCHANGED <<setting, said, prompts, features, lock, rules, removed, memory, calls, crashes>>

\* Preconditions of the transaction: prompts and memory are as they were read.
Unchanged(w, c) ==
    /\ c.removes => file[w] = c.file
    /\ c.added # <<>> => recorded[w] = c.before

\* Rules are merged as they are now; only prompts can state them.
WithRules(w, c) == rules[w] \cup c.prompts

\* The feature, with the prompts it takes, their rules and the memory, in one transaction.
Save(p) ==
    LET w == home[p]
        c == call[p]
        feature == [id |-> c.id, claimed |-> c.claimed, request |-> c.request,
                    takes |-> IF c.removes THEN c.file ELSE {}, heard |-> c.prompts,
                    branch |-> c.branch, recent |-> TRUE]
    IN
    /\ At(p, "save") /\ Len(features[w]) < MaxFeatures
    /\ IF Unchanged(w, c)
       THEN /\ features' = [features EXCEPT ![w] = Append(@, feature)]
            /\ file' = [file EXCEPT ![w] = IF c.removes THEN {} ELSE @]
            /\ rules' = [rules EXCEPT ![w] = WithRules(w, c)]
            /\ recorded' = [recorded EXCEPT ![w] = IF c.added = <<>> THEN @ ELSE c.before \o c.added]
       ELSE UNCHANGED <<features, file, rules, recorded>>
    /\ End(p) /\ Release(p)
    /\ UNCHANGED <<setting, said, hook, rewritten, refs, removed, progress, told, calls, crashes>>

-----------------------------------------------------------------------------
(* Everything else *)

\* Any step may fail: the branch, the baseline, Git; an error ends the call.
Crash(p) ==
    /\ ~At(p, "idle") /\ crashes < MaxCrashes /\ crashes' = crashes + 1
    /\ End(p)
    /\ lock' = [w \in Worktrees |-> IF lock[w] = p THEN None ELSE lock[w]]
    /\ UNCHANGED <<setting, said, prompts, features, refs, rules, removed, memory, calls>>

\* The host's hook adds a prompt to its file: it reads it and writes it back, without the lock. One
\* prompt is said at a time; of more than twenty, which do not occur here, the oldest would go.
ReadPrompts(w) ==
    /\ hook[w] = None /\ said[w] < MaxPrompts
    /\ hook' = [hook EXCEPT ![w] = file[w]]
    /\ UNCHANGED <<setting, said, file, rewritten, features, refs, lock, rules, removed, memory, call, calls, crashes>>

WritePrompts(w) ==
    /\ hook[w] # None
    /\ said' = [said EXCEPT ![w] = @ + 1]
    /\ file' = [file EXCEPT ![w] = hook[w] \cup {said'[w]}]
    /\ rewritten' = [rewritten EXCEPT ![w] = @ \cup (hook[w] \cap Taken(w))]
    /\ hook' = [hook EXCEPT ![w] = None]
    /\ UNCHANGED <<setting, features, refs, lock, rules, removed, memory, call, calls, crashes>>

\* A feature is worked on, or ten minutes pass.
Outdate(w) ==
    /\ lock[w] = None
    /\ \E i \in DOMAIN features[w] :
          features[w][i].recent /\ features' = [features EXCEPT ![w][i].recent = FALSE]
    /\ UNCHANGED <<setting, said, prompts, refs, lock, rules, removed, memory, call, calls, crashes>>

RemoveProjectRule(w) ==
    /\ lock[w] = None
    /\ \E r \in rules[w] :
          /\ rules' = [rules EXCEPT ![w] = @ \ {r}]
          /\ removed' = [removed EXCEPT ![w] = @ \cup {<<r, Len(features[w])>>}]
    /\ UNCHANGED <<setting, said, prompts, features, refs, lock, memory, call, calls, crashes>>

Next ==
    \/ \E p \in Processes :
          \/ Call(p) \/ Check(p) \/ ReadMemory(p) \/ Tell(p) \/ TellFails(p) \/ Confirm(p)
          \/ AllTold(p) \/ Lock(p) \/ ListRefs(p) \/ Claim(p) \/ Save(p) \/ Crash(p)
    \/ \E w \in Worktrees : ReadPrompts(w) \/ WritePrompts(w) \/ Outdate(w) \/ RemoveProjectRule(w)

Spec == Init /\ [][Next]_vars

-----------------------------------------------------------------------------

\* Two calls for one request start one feature: no two untouched features of the last ten minutes
\* record the same request, unless it is short or the later one asked for a branch
\* (feature-request.ts:72-94).
OneFeaturePerRequest ==
    \A w \in Worktrees : \A i, j \in DOMAIN features[w] :
        (/\ i < j /\ features[w][i].recent /\ features[w][j].recent
         /\ ~features[w][j].branch /\ features[w][j].request \notin Short)
            => features[w][i].request # features[w][j].request

\* No prompt is dropped that was said while a feature took the others, and none is taken twice unless
\* the hook, which had read the file before, wrote it back.
PromptsTakenOnce ==
    \A w \in Worktrees :
        /\ 1..said[w] \subseteq file[w] \cup Taken(w)
        /\ \A i, j \in DOMAIN features[w] :
              i # j => features[w][i].takes \cap features[w][j].takes \subseteq rewritten[w]

\* A worktree never gives two features one number; nor do two worktrees, which share no lock, as
\* far as Git let them reserve theirs ("the reservation only guards linked worktrees, so fall back
\* to the local ordinal", feature-id.ts:51).
OrdinalsDiffer ==
    \A v, w \in Worktrees : \A i \in DOMAIN features[v], j \in DOMAIN features[w] :
        features[v][i].id = features[w][j].id =>
            \/ i = 1 /\ j = 1
            \/ v = w /\ i = j
            \/ v # w /\ ~(features[v][i].claimed /\ features[w][j].claimed)

\* A request counts as remembered, once, only when every part of it was recorded.
MemoryComplete ==
    \A w \in Worktrees :
        /\ IsInjective(recorded[w])
        /\ service => \A i \in Range(recorded[w]), c \in 1..Chunks : <<i, c>> \in told[w]

\* Rules the user removed at some time.
Gone(w) == {gone[1] : gone \in removed[w]}

\* Rules of the prompts a feature was started from are in force until the user removes them. One
\* that is in force in spite of that was stated again by a prompt of a feature started since: any
\* prompt of a Codex session, which shows all of them to every feature, but of a host's file only
\* one that its hook wrote back when a feature had already taken it.
RulesFollowPrompts ==
    \A w \in Worktrees :
        /\ \A i \in DOMAIN features[w] : features[w][i].heard \subseteq rules[w] \cup Gone(w)
        /\ \A gone \in removed[w] : gone[1] \in rules[w] =>
              \E i \in DOMAIN features[w] : i > gone[2] /\ gone[1] \in features[w][i].heard
        /\ ~session => rules[w] \cap Gone(w) \subseteq rewritten[w]

\* "a removed rule stops applying at once" (docs/configuration.md:114).
RemovedRulesStayRemoved == \A w \in Worktrees : rules[w] \cap Gone(w) = {}
=============================================================================
