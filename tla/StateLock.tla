------------------------------ MODULE StateLock ------------------------------
(***************************************************************************)
(* The worktree lock of src/core/state-lock.ts, one action per file system *)
(* operation, because independent CLI and MCP processes interleave between *)
(* any two of them.  The lock is the directory mutation.lock holding       *)
(* owner.json; a contender creates the directory, writes a temporary file  *)
(* in it and link()s it to owner.json.  A lock whose owner died, or a      *)
(* directory that never got an owner, is reclaimed by a contender that     *)
(* holds the recovery mutex, the directory mutation.lock.recovery.         *)
(*                                                                         *)
(* Abstractions: a token (a random UUID) is the pair of its writer and the *)
(* number of that writer's acquisition; an age is one bit per directory,   *)
(* "older than the limit"; processIdentity is the relation Sees.           *)
(***************************************************************************)
EXTENDS Naturals, FiniteSets

CONSTANTS
    Writers,         \* callers of withStateLock that reach acquire()
    Processes,       \* operating-system processes
    ProcOf,          \* the process each writer runs in
    Sees,            \* <<p, q>>: p can tell whether q runs (same host, pid namespace)
    KnownNamespace,  \* owner records carry a pid namespace (Linux)
    HardLinks,       \* the file system supports link()
    PromptPublish,   \* a live writer never leaves the directory ownerless for 30 s
    PromptReclaim,   \* a live reclaimer never holds the recovery mutex for 60 s
    AtomicClear,     \* nothing happens between the lstat and rmdir of a stale mutex
    MaxRounds,       \* bound: acquisitions per writer
    Mortal,          \* bound: the processes that may die
    Faulty,          \* bound: the writers whose file operations may fail
    None             \* no token, no holder

ASSUME LockConstants ==
    /\ ProcOf \in [Writers -> Processes]
    /\ Sees \subseteq Processes \X Processes
    /\ \A p \in Processes : <<p, p>> \in Sees
    /\ MaxRounds \in Nat /\ Mortal \subseteq Processes /\ Faulty \subseteq Writers
    /\ {KnownNamespace, HardLinks, PromptPublish, PromptReclaim, AtomicClear} \subseteq BOOLEAN
    /\ None \notin Writers \cup (Writers \X Nat)

VARIABLES
    pc,            \* where each writer is in acquire, release or reclaimAbandoned
    round,         \* the number of acquisitions each writer has started
    lockDir,       \* mutation.lock exists
    aged,          \* its last change is older than OWNERLESS_LOCK_MS
    temps,         \* writers whose temporary owner file is in it
    owner,         \* the token in its owner.json, or None
    recovery,      \* the writer whose mkdir made mutation.lock.recovery, or None
    recoveryAged,  \* the recovery mutex is older than STALE_RECOVERY_MS
    activeTokens,  \* the in-memory activeTokens sets of all live processes
    crashed,       \* dead processes
    observed,      \* the owner a reclaimer saw before taking the mutex; None: no owner
    names,         \* the leftovers removeOwnerlessLock has still to unlink
    remade,        \* mutation.lock was re-created since the reclaimer's snapshot
    confirmed,     \* the token `doctor --recover-lock` confirmed, None when acquiring
    result         \* what reclaimAbandoned is about to return

fileVars == <<lockDir, aged, temps, owner, recovery, recoveryAged>>
localVars == <<observed, names, remade, confirmed, result>>
vars == <<pc, round, fileVars, activeTokens, crashed, localVars>>

Tokens == Writers \X Nat

\* Bug: the token names the writer, not the acquisition.
BugTokenPerWriter(w) == w

Token(w) == <<w, round[w]>>

Live(w) == ProcOf[w] \notin crashed

Goto(w, label) == pc' = [pc EXCEPT ![w] = label]

At(w, label) == Live(w) /\ pc[w] = label

\* Every change of an entry of mutation.lock renews the directory's mtime.
Touch == aged' = FALSE

Init ==
    /\ pc = [w \in Writers |-> "idle"]
    /\ round = [w \in Writers |-> 0]
    /\ lockDir = FALSE /\ aged = FALSE /\ temps = {} /\ owner = None
    /\ recovery = None /\ recoveryAged = FALSE
    /\ activeTokens = {} /\ crashed = {}
    /\ observed = [w \in Writers |-> None]
    /\ names = [w \in Writers |-> {}]
    /\ remade = [w \in Writers |-> FALSE]
    /\ confirmed = [w \in Writers |-> None]
    /\ result = [w \in Writers |-> "busy"]

-----------------------------------------------------------------------------
(* acquire: createOwner and publishOwner *)

Start(w) ==
    /\ At(w, "idle") /\ round[w] < MaxRounds
    /\ round' = [round EXCEPT ![w] = @ + 1]
    /\ confirmed' = [confirmed EXCEPT ![w] = None]
    /\ Goto(w, "mkdir")
    /\ UNCHANGED <<fileVars, activeTokens, crashed, observed, names, remade, result>>

\* Bug: the token becomes active only when the acquisition returns.
BugMakeDirInactive(w) ==
    /\ At(w, "mkdir")
    /\ lockDir' = TRUE /\ aged' = (lockDir /\ aged)
    /\ remade' = IF lockDir THEN remade ELSE [v \in Writers |-> TRUE]
    /\ Goto(w, IF lockDir THEN "observe" ELSE "write")
    /\ UNCHANGED <<round, temps, owner, recovery, recoveryAged, activeTokens, crashed,
                   observed, names, confirmed, result>>

MakeDir(w) ==
    /\ At(w, "mkdir")
    /\ \/ /\ ~lockDir
          /\ lockDir' = TRUE /\ Touch
          /\ remade' = [v \in Writers |-> TRUE]
          /\ activeTokens' = activeTokens \cup {Token(w)}
          /\ Goto(w, "write")
       \/ /\ lockDir
          /\ Goto(w, "observe")
          /\ UNCHANGED <<lockDir, aged, remade, activeTokens>>
    /\ UNCHANGED <<round, temps, owner, recovery, recoveryAged, crashed,
                   observed, names, confirmed, result>>

\* The temporary file has a fresh random name, so no earlier listing names it.
WriteTemp(w) ==
    /\ At(w, "write")
    /\ \/ /\ lockDir
          /\ temps' = temps \cup {w} /\ Touch
          /\ names' = [v \in Writers |-> names[v] \ {w}]
          /\ Goto(w, "link")
       \/ /\ ~lockDir  \* ENOENT: reaped from under us
          /\ Goto(w, "retract")
          /\ UNCHANGED <<temps, aged, names>>
    /\ UNCHANGED <<round, lockDir, owner, recovery, recoveryAged, activeTokens, crashed,
                   observed, remade, confirmed, result>>

\* Bug: an owner.json that is already there is replaced.
BugLinkReplaces(w) ==
    /\ At(w, "link") /\ HardLinks
    /\ owner' = (IF w \in temps THEN Token(w) ELSE owner) /\ Touch
    /\ Goto(w, IF w \in temps THEN "published" ELSE "retract")
    /\ UNCHANGED <<round, lockDir, temps, recovery, recoveryAged, activeTokens, crashed,
                   localVars>>

Link(w) ==
    /\ At(w, "link") /\ HardLinks
    /\ \/ /\ w \in temps /\ owner = None
          /\ owner' = Token(w) /\ Touch
          /\ Goto(w, "published")
       \/ /\ w \notin temps \/ owner # None  \* ENOENT or EEXIST
          /\ Goto(w, "retract")
          /\ UNCHANGED <<owner, aged>>
    /\ UNCHANGED <<round, lockDir, temps, recovery, recoveryAged, activeTokens, crashed,
                   localVars>>

\* Without hard links owner.json is only looked for before the rename ...
LookBeforeRename(w) ==
    /\ At(w, "link") /\ ~HardLinks
    /\ Goto(w, IF owner = None THEN "rename" ELSE "retract")
    /\ UNCHANGED <<round, fileVars, activeTokens, crashed, localVars>>

\* ... which replaces one that appeared meanwhile.
Rename(w) ==
    /\ At(w, "rename")
    /\ \/ /\ w \in temps
          /\ owner' = Token(w) /\ temps' = temps \ {w} /\ Touch
          /\ Goto(w, "published")
       \/ /\ w \notin temps
          /\ Goto(w, "retract")
          /\ UNCHANGED <<owner, temps, aged>>
    /\ UNCHANGED <<round, lockDir, recovery, recoveryAged, activeTokens, crashed, localVars>>

\* The `finally` of publishOwner unlinks the temporary file, if it is still there.
UnlinkTemp(w) == temps' = temps \ {w} /\ aged' = (aged /\ w \notin temps)

Own(w) ==
    /\ At(w, "published")
    /\ UnlinkTemp(w) /\ Goto(w, "own")
    /\ UNCHANGED <<round, lockDir, owner, recovery, recoveryAged, activeTokens, crashed,
                   localVars>>

Retract(w) ==
    /\ At(w, "retract")
    /\ UnlinkTemp(w) /\ Goto(w, "observe")
    /\ activeTokens' = activeTokens \ {Token(w)}
    /\ UNCHANGED <<round, lockDir, owner, recovery, recoveryAged, crashed, localVars>>

\* Any other error while publishing: the temporary file, then the directory, are removed.
PublishError(w) ==
    /\ w \in Faulty /\ \E label \in {"write", "link", "rename"} : At(w, label)
    /\ UnlinkTemp(w) /\ Goto(w, "undo")
    /\ UNCHANGED <<round, lockDir, owner, recovery, recoveryAged, activeTokens, crashed,
                   localVars>>

\* rmdir removes an empty directory only.
Empty == temps = {} /\ owner = None

UndoDir(w) ==
    /\ At(w, "undo")
    /\ lockDir' = (lockDir /\ ~Empty)
    /\ activeTokens' = activeTokens \ {Token(w)}
    /\ Goto(w, "idle")
    /\ UNCHANGED <<round, aged, temps, owner, recovery, recoveryAged, crashed, localVars>>

\* The acquire loop sleeps and tries again, or reaches its deadline: STATE_BUSY.
Retry(w) ==
    /\ At(w, "wait") /\ Goto(w, "mkdir")
    /\ UNCHANGED <<round, fileVars, activeTokens, crashed, localVars>>

GiveUp(w) ==
    /\ At(w, "wait") /\ Goto(w, "idle")
    /\ UNCHANGED <<round, fileVars, activeTokens, crashed, localVars>>

-----------------------------------------------------------------------------
(* release *)

Leave(w) ==
    /\ At(w, "own") /\ Goto(w, "releasing")
    /\ UNCHANGED <<round, fileVars, activeTokens, crashed, localVars>>

CheckOwner(w) ==
    /\ At(w, "releasing")
    /\ \/ /\ owner = Token(w)
          /\ Goto(w, "unlinkOwn") /\ UNCHANGED activeTokens
       \/ /\ owner # Token(w)  \* "State mutation ownership changed before release"
          /\ Goto(w, "idle") /\ activeTokens' = activeTokens \ {Token(w)}
    /\ UNCHANGED <<round, fileVars, crashed, localVars>>

\* unlink removes whatever owner.json is there now.
UnlinkOwn(w) ==
    /\ At(w, "unlinkOwn")
    /\ owner' = None /\ aged' = (aged /\ owner = None)
    /\ Goto(w, "rmdirOwn")
    /\ UNCHANGED <<round, lockDir, temps, recovery, recoveryAged, activeTokens, crashed,
                   localVars>>

\* Bug: a failed release keeps its token active.
BugReleaseErrorKeepsToken(w) ==
    /\ w \in Faulty /\ At(w, "unlinkOwn") /\ Goto(w, "idle")
    /\ UNCHANGED <<round, fileVars, activeTokens, crashed, localVars>>

\* An owner.json that cannot be removed stays behind, and its token is forgotten.
ReleaseError(w) ==
    /\ w \in Faulty /\ At(w, "unlinkOwn")
    /\ activeTokens' = activeTokens \ {Token(w)}
    /\ Goto(w, "idle")
    /\ UNCHANGED <<round, fileVars, crashed, localVars>>

RmdirOwn(w) ==
    /\ At(w, "rmdirOwn")
    /\ lockDir' = (lockDir /\ ~Empty)
    /\ activeTokens' = activeTokens \ {Token(w)}
    /\ Goto(w, "idle")
    /\ UNCHANGED <<round, aged, temps, owner, recovery, recoveryAged, crashed, localVars>>

-----------------------------------------------------------------------------
(* reclaimAbandoned *)

OwnerState(p, t) ==
    LET itsProcess == ProcOf[t[1]] IN
    CASE <<p, itsProcess>> \notin Sees -> "ambiguous"
      [] p = itsProcess /\ t \notin activeTokens ->
            IF KnownNamespace THEN "abandoned" ELSE "ambiguous"
      [] itsProcess \in crashed -> "abandoned"
      [] OTHER -> "active"

Recoverable(w, t) ==
    LET state == OwnerState(ProcOf[w], t) IN
    state = "abandoned" \/ (state = "ambiguous" /\ t = confirmed[w])

\* Bug: an interrupted write left in the directory keeps it from being abandoned.
BugOwnerlessEmpty == lockDir /\ owner = None /\ temps = {} /\ aged

OwnerlessAbandoned == lockDir /\ owner = None /\ aged

\* Where a writer goes when reclaimAbandoned returns r: the doctor is done, the
\* acquire loop tries again at once, sleeps, or fails.
After(w, r) ==
    IF confirmed[w] # None \/ r = "error" THEN "idle"
    ELSE IF r = "reclaimed" THEN "mkdir" ELSE "wait"

\* `doctor --fix --recover-lock <token>`, run once a person has established that
\* the owner stopped; a token that is no longer in owner.json is refused.
Stopped(t) == ProcOf[t[1]] \in crashed \/ t \notin activeTokens

BeginRecover(w) ==
    /\ At(w, "idle")
    /\ owner # None /\ Stopped(owner) /\ OwnerState(ProcOf[w], owner) # "active"
    /\ confirmed' = [confirmed EXCEPT ![w] = owner]
    /\ Goto(w, "observe")
    /\ UNCHANGED <<round, fileVars, activeTokens, crashed, observed, names, remade, result>>

Observe(w) ==
    /\ At(w, "observe")
    /\ observed' = [observed EXCEPT ![w] = owner]
    /\ Goto(w, "judge")
    /\ UNCHANGED <<round, fileVars, activeTokens, crashed, names, remade, confirmed, result>>

\* What was read is judged later: only its process and the directory are looked at now.
Abandoned(w) ==
    IF observed[w] # None THEN Recoverable(w, observed[w]) ELSE OwnerlessAbandoned

Judge(w) ==
    /\ At(w, "judge")
    /\ Goto(w, IF Abandoned(w) THEN "mutex" ELSE After(w, "busy"))
    /\ UNCHANGED <<round, fileVars, activeTokens, crashed, localVars>>

\* Bug: the recovery directory is made as ensureDir does, whoever has it.
BugTakeMutexShared(w) ==
    /\ At(w, "mutex")
    /\ recovery' = w /\ recoveryAged' = FALSE
    /\ Goto(w, "recheck")
    /\ UNCHANGED <<round, lockDir, aged, temps, owner, activeTokens, crashed, localVars>>

TakeMutex(w) ==
    /\ At(w, "mutex")
    /\ \/ /\ recovery = None
          /\ recovery' = w /\ recoveryAged' = FALSE
          /\ Goto(w, "recheck")
       \/ /\ recovery # None /\ recoveryAged
          /\ Goto(w, "clear") /\ UNCHANGED <<recovery, recoveryAged>>
       \/ /\ recovery # None /\ ~recoveryAged
          /\ Goto(w, After(w, "busy")) /\ UNCHANGED <<recovery, recoveryAged>>
    /\ UNCHANGED <<round, lockDir, aged, temps, owner, activeTokens, crashed, localVars>>

\* Bug: a stale mutex is left alone.
BugKeepStaleMutex(w) ==
    /\ At(w, "clear") /\ Goto(w, After(w, "busy"))
    /\ UNCHANGED <<round, fileVars, activeTokens, crashed, localVars>>

\* The second lstat must show the same directory; the rmdir follows it.
ClearStaleMutex(w) ==
    /\ At(w, "clear")
    /\ recovery' = IF AtomicClear /\ ~recoveryAged THEN recovery ELSE None
    /\ recoveryAged' = FALSE
    /\ Goto(w, After(w, "busy"))
    /\ UNCHANGED <<round, lockDir, aged, temps, owner, activeTokens, crashed, localVars>>

\* Under the mutex the owner is read again ...
Recheck(w) ==
    /\ At(w, "recheck")
    /\ \/ /\ owner = observed[w]
          /\ Goto(w, "rejudge") /\ UNCHANGED result
       \/ /\ owner # observed[w]
          /\ result' = [result EXCEPT ![w] = "busy"] /\ Goto(w, "unmutex")
    /\ UNCHANGED <<round, fileVars, activeTokens, crashed, observed, names, remade, confirmed>>

\* ... and judged again; an ownerless directory is listed.
Rejudge(w) ==
    /\ At(w, "rejudge")
    /\ \/ /\ Abandoned(w) /\ observed[w] # None
          /\ Goto(w, "unlinkOwner") /\ UNCHANGED <<names, remade, result>>
       \/ /\ Abandoned(w) /\ observed[w] = None
          /\ names' = [names EXCEPT ![w] = temps]
          /\ remade' = [remade EXCEPT ![w] = FALSE]
          /\ Goto(w, "unlinkTemps") /\ UNCHANGED result
       \/ /\ ~Abandoned(w)
          /\ result' = [result EXCEPT ![w] = "busy"]
          /\ Goto(w, "unmutex") /\ UNCHANGED <<names, remade>>
    /\ UNCHANGED <<round, fileVars, activeTokens, crashed, observed, confirmed>>

UnlinkOwner(w) ==
    /\ At(w, "unlinkOwner")
    /\ owner' = None /\ aged' = (aged /\ owner = None)
    /\ Goto(w, "rmdirLock")
    /\ UNCHANGED <<round, lockDir, temps, recovery, recoveryAged, activeTokens, crashed,
                   localVars>>

\* A leftover temporary file keeps the directory: the reclaim fails, and the
\* directory is ownerless from now on.
RmdirLock(w) ==
    /\ At(w, "rmdirLock")
    /\ lockDir' = (lockDir /\ ~Empty)
    /\ result' = [result EXCEPT ![w] = IF lockDir' THEN "error" ELSE "reclaimed"]
    /\ Goto(w, "unmutex")
    /\ UNCHANGED <<round, aged, temps, owner, recovery, recoveryAged, activeTokens, crashed,
                   observed, names, remade, confirmed>>

\* Bug: the directory is emptied of what it holds now, an owner.json included.
BugUnlinkEverything(w, v) ==
    /\ At(w, "unlinkTemps") /\ v \in names[w]
    /\ names' = [names EXCEPT ![w] = {}]
    /\ temps' = {} /\ owner' = None /\ Touch
    /\ UNCHANGED <<pc, round, lockDir, recovery, recoveryAged, activeTokens, crashed,
                   observed, remade, confirmed, result>>

\* removeOwnerlessLock unlinks only the leftovers it listed, one by one.
UnlinkLeftover(w, v) ==
    /\ At(w, "unlinkTemps") /\ v \in names[w]
    /\ names' = [names EXCEPT ![w] = @ \ {v}]
    /\ temps' = temps \ {v} /\ aged' = (aged /\ v \notin temps)
    /\ UNCHANGED <<pc, round, lockDir, owner, recovery, recoveryAged, activeTokens, crashed,
                   observed, remade, confirmed, result>>

\* The inode must still be the listed one; a re-created directory may reuse it.
RmdirOwnerless(w) ==
    /\ At(w, "unlinkTemps") /\ names[w] = {}
    /\ \E sameInode \in IF remade[w] THEN BOOLEAN ELSE {TRUE} :
         LET removes == lockDir /\ sameInode /\ Empty IN
         /\ lockDir' = (lockDir /\ ~removes)
         /\ result' = [result EXCEPT ![w] = IF removes THEN "reclaimed" ELSE "busy"]
    /\ Goto(w, "unmutex")
    /\ UNCHANGED <<round, aged, temps, owner, recovery, recoveryAged, activeTokens, crashed,
                   observed, names, remade, confirmed>>

\* The `finally` removes the recovery directory, whoever made it.
ReleaseMutex(w) ==
    /\ At(w, "unmutex")
    /\ recovery' = None /\ recoveryAged' = FALSE
    /\ Goto(w, After(w, result[w]))
    /\ UNCHANGED <<round, lockDir, aged, temps, owner, activeTokens, crashed, localVars>>

-----------------------------------------------------------------------------
(* The environment: process death and time *)

Crash(p) ==
    /\ p \in Mortal \ crashed
    /\ crashed' = crashed \cup {p}
    /\ activeTokens' = {t \in activeTokens : ProcOf[t[1]] # p}
    /\ UNCHANGED <<pc, round, fileVars, localVars>>

\* Where a writer has made or emptied the directory and is about to fill or remove it.
Ownerless == {"write", "link", "rename", "undo", "rmdirOwn", "rmdirLock"}

AgeLockDir ==
    /\ lockDir /\ ~aged
    /\ PromptPublish => \A w \in Writers : Live(w) => pc[w] \notin Ownerless
    /\ aged' = TRUE
    /\ UNCHANGED <<pc, round, lockDir, temps, owner, recovery, recoveryAged, activeTokens,
                   crashed, localVars>>

AgeRecovery ==
    /\ recovery # None /\ ~recoveryAged
    /\ PromptReclaim => ~Live(recovery)
    /\ recoveryAged' = TRUE
    /\ UNCHANGED <<pc, round, lockDir, aged, temps, owner, recovery, activeTokens, crashed,
                   localVars>>

-----------------------------------------------------------------------------
\* The steps a running writer takes by itself, as opposed to choices and failures.
Progress(w) ==
    \/ MakeDir(w) \/ WriteTemp(w) \/ Link(w) \/ LookBeforeRename(w) \/ Rename(w)
    \/ Own(w) \/ Retract(w) \/ UndoDir(w) \/ Leave(w) \/ CheckOwner(w)
    \/ UnlinkOwn(w) \/ RmdirOwn(w) \/ Observe(w) \/ Judge(w) \/ TakeMutex(w)
    \/ ClearStaleMutex(w) \/ Recheck(w) \/ Rejudge(w) \/ UnlinkOwner(w) \/ RmdirLock(w)
    \/ (\E v \in Writers : UnlinkLeftover(w, v)) \/ RmdirOwnerless(w) \/ ReleaseMutex(w)

WriterStep(w) ==
    \/ Progress(w) \/ Start(w) \/ Retry(w) \/ GiveUp(w)
    \/ PublishError(w) \/ ReleaseError(w) \/ BeginRecover(w)

Next ==
    \/ \E w \in Writers : WriterStep(w)
    \/ \E p \in Processes : Crash(p)
    \/ AgeLockDir \/ AgeRecovery

Spec == Init /\ [][Next]_vars

\* A live process runs, its sleeping contenders wake up, and time passes.
Fairness ==
    /\ \A w \in Writers : WF_vars(Progress(w)) /\ WF_vars(Retry(w))
    /\ WF_vars(AgeLockDir) /\ WF_vars(AgeRecovery)

FairSpec == Spec /\ Fairness

-----------------------------------------------------------------------------
Labels == {"idle", "mkdir", "write", "link", "rename", "published", "retract", "undo", "own",
           "releasing", "unlinkOwn", "rmdirOwn", "observe", "judge", "mutex", "clear", "recheck",
           "rejudge", "unlinkOwner", "rmdirLock", "unlinkTemps", "unmutex", "wait"}

(* Every variable keeps its type: tokens in owner.json and in memory are     *)
(* tokens of real acquisitions, and a missing directory holds nothing.       *)
TypeOK ==
    /\ pc \in [Writers -> Labels]
    /\ round \in [Writers -> Nat]
    /\ lockDir \in BOOLEAN /\ aged \in BOOLEAN
    /\ temps \subseteq Writers /\ owner \in Tokens \cup {None}
    /\ ~lockDir => Empty
    /\ recovery \in Writers \cup {None} /\ recoveryAged \in BOOLEAN
    /\ activeTokens \subseteq Tokens /\ crashed \subseteq Processes
    /\ observed \in [Writers -> Tokens \cup {None}]
    /\ names \in [Writers -> SUBSET Writers]
    /\ remade \in [Writers -> BOOLEAN]
    /\ confirmed \in [Writers -> Tokens \cup {None}]
    /\ result \in [Writers -> {"reclaimed", "busy", "error"}]

\* From the publication of its owner.json to its removal a live writer owns the lock.
Holding(w) == Live(w) /\ pc[w] \in {"published", "own", "releasing", "unlinkOwn"}

(* state-lock.ts:48, docs/internals.md "State ownership": two writers never  *)
(* own the worktree at once, whatever contends, dies, ages or is reclaimed.  *)
MutualExclusion == \A v, w \in Writers : Holding(v) /\ Holding(w) => v = w

(* A writer that reaches release still finds its own token: the refusal      *)
(* "State mutation ownership changed before release" reports an intrusion    *)
(* from outside, never another VISP process.                                 *)
OwnerNamesHolder == \A w \in Writers : Holding(w) => owner = Token(w)

(* An owner.json whose token its live process still calls active belongs to  *)
(* a writer that is really inside its operation, so "active" never outlives  *)
(* the operation and blocks the worktree for the rest of the process's life. *)
ActiveMeansHeld ==
    \A t \in activeTokens :
        owner = t => Holding(t[1]) /\ t = Token(t[1])

(* A process never publishes into a lock it was robbed of: what the live     *)
(* reclaimer under the mutex is about to unlink is a token nobody holds, the *)
(* one it judged (state-lock.ts:346).                                        *)
ReclaimsOnlyStopped ==
    \A w \in Writers :
        At(w, "unlinkOwner") => owner = observed[w] /\ owner # None /\ Stopped(owner)

(* docs/internals.md:43 says exited owners are reclaimed.  An owner that died *)
(* between link and the unlink of its temporary file is not: the reclaim     *)
(* removes owner.json, fails on the directory and fails its caller.          *)
ReclaimCompletes == \A w \in Writers : At(w, "unmutex") => result[w] # "error"

Contending(w) ==
    Live(w) /\ confirmed[w] = None
        /\ pc[w] \in {"mkdir", "write", "link", "rename", "retract", "observe", "judge",
                      "mutex", "clear", "recheck", "rejudge", "unlinkOwner", "rmdirLock", "unlinkTemps",
                      "unmutex", "wait"}

(* The lock of a dead process does not last: it goes while a contender that  *)
(* can see the death keeps trying, even when earlier reclaimers died holding *)
(* the recovery mutex.                                                       *)
DeadOwnerReclaimed ==
    \A w \in Writers : \A p \in Mortal \ {ProcOf[w]} :
        (/\ Contending(w) /\ <<ProcOf[w], p>> \in Sees
         /\ owner # None /\ p \in crashed /\ owner \in {t \in Tokens : ProcOf[t[1]] = p})
        ~> (owner = None \/ ~Contending(w) \/ ProcOf[owner[1]] # p)

(* A directory left without an owner by a writer that died while publishing, *)
(* or by a reclaim that failed half-way, is not a permanent lock either.     *)
OwnerlessReclaimed ==
    \A w \in Writers :
        (Contending(w) /\ lockDir /\ owner = None) ~> (owner # None \/ ~lockDir \/ ~Contending(w))

-----------------------------------------------------------------------------
\* The lock implements exclusive ownership of the worktree.
Holders == {w \in Writers : Holding(w)}

LockHolder == IF Holders = {} THEN None ELSE CHOOSE w \in Holders : TRUE

Exclusive == INSTANCE ExclusiveOwner WITH holder <- LockHolder

(* Every behaviour of the lock files is one of the abstract exclusive lock. *)
ImplementsExclusiveOwner == Exclusive!Spec
=============================================================================
