--------------------------- MODULE FileTransaction ---------------------------
(***************************************************************************)
(* The file transactions of src/core/file-transaction.ts: recover what an  *)
(* earlier process left, snapshot the targets, write the journal, change   *)
(* the targets one by one, verify them all, mark the journal committed,    *)
(* remove it.  A process may die between any two file operations, any file *)
(* operation may fail, and an editor that knows nothing of the worktree    *)
(* lock may change a file at any moment.                                   *)
(*                                                                         *)
(* Transactions run under the worktree lock; of it only ExclusiveOwner is  *)
(* used, so the state of an operation is the state of the one owner.  The  *)
(* owner recovers every journal it finds before it writes its own, so at   *)
(* most one is ever on disk.  Reads of several files are one step: they    *)
(* commute with edits of the others.                                       *)
(***************************************************************************)
EXTENDS FileMutations

CONSTANTS
    Writers,    \* operations that ask for the worktree lock
    None,       \* no owner, no journal
    Initial,    \* the files the project starts with
    Editor,     \* what an editor may save
    EditsAnytime, \* whether it saves during an update too, or only between them
    MaxFaults   \* bound: crashes, failed operations and edits together

ASSUME TransactionConstants ==
    /\ None \notin Writers /\ None \notin [state : {"prepared", "committed"}, entries : Seq(Entry)]
    /\ Initial \in [Paths -> FileState] /\ Editor \subseteq FileState /\ EditsAnytime \in BOOLEAN
    /\ MaxFaults \in Nat

VARIABLES
    files,      \* the project's files
    journal,    \* the journal on disk, or None
    holder,     \* the owner of the worktree lock
    pc,         \* where the owner is
    plan,       \* the mutations it was asked for
    entries,    \* the journal it has in memory, its own or a recovered one
    index,      \* the entry being applied
    pending,    \* the entries still to restore, as positions in that journal
    failed,     \* it will return an error
    committed,  \* its journal was marked committed
    raced,      \* files edited between the owner's check of them and its next step
    faults      \* faults so far

diskVars == <<files, journal>>
ownVars == <<plan, entries, index, pending, failed, committed>>
vars == <<diskVars, holder, pc, ownVars, raced, faults>>

Owner == INSTANCE ExclusiveOwner

Init ==
    /\ files = Initial /\ journal = None /\ Owner!Init /\ pc = "idle"
    /\ plan = <<>> /\ entries = <<>> /\ index = 1 /\ pending = {}
    /\ failed = FALSE /\ committed = FALSE /\ raced = {} /\ faults = 0

Fault == faults < MaxFaults /\ faults' = faults + 1

\* The operation ends with an error; the journal stays as it is.
Abort == failed' = TRUE /\ pc' = "finish"

-----------------------------------------------------------------------------
(* withStateMutation and applyFileTransaction: take the lock, then recover *)

Begin(w) ==
    /\ pc = "idle" /\ Owner!Acquire(w)
    /\ plan' \in Plans
    /\ pc' = "recover"
    /\ UNCHANGED <<diskVars, entries, index, pending, failed, committed, raced, faults>>

\* Bug: a committed journal is rolled back too.
BugReadJournalsAlike ==
    /\ pc = "recover"
    /\ \/ /\ journal = None /\ pc' = "prepare" /\ UNCHANGED entries
       \/ /\ journal # None /\ entries' = journal.entries /\ pc' = "classify"
    /\ UNCHANGED <<diskVars, holder, plan, index, pending, failed, committed, raced, faults>>

ReadJournals ==
    /\ pc = "recover"
    /\ \/ /\ journal = None /\ pc' = "prepare" /\ UNCHANGED entries
       \/ /\ journal # None /\ journal.state = "prepared"
          /\ entries' = journal.entries /\ pc' = "classify"
       \/ /\ journal # None /\ journal.state = "committed"
          /\ pc' = "drop" /\ UNCHANGED entries
    /\ UNCHANGED <<diskVars, holder, plan, index, pending, failed, committed, raced, faults>>

-----------------------------------------------------------------------------
(* restoreJournal, for recovery and for a failed transaction *)

Restored(e) == Matches(files[e.path], e.before)

\* Modes are ignored: a restrictive umask or a chmod is not a third state.
Applied(e) == ~Restored(e) /\ (SameBody(files[e.path], e.after) \/ SameBody(files[e.path], e.before))

Divergent(e) == ~Restored(e) /\ ~Applied(e)

OwnsWrites(e) == e.kind # "assert"

ToRestore == {i \in DOMAIN entries : OwnsWrites(entries[i]) /\ Applied(entries[i])}

\* Bug: a divergent file is skipped and the others are rolled back.
BugClassifySkips ==
    /\ pc = "classify" /\ raced' = {}
    /\ pending' = ToRestore /\ pc' = "restore"
    /\ UNCHANGED <<diskVars, holder, plan, entries, index, failed, committed, faults>>

\* The entire journal is classified before anything is touched.
Classify ==
    /\ pc = "classify" /\ raced' = {}
    /\ \/ /\ \E i \in DOMAIN entries : OwnsWrites(entries[i]) /\ Divergent(entries[i])
          /\ Abort /\ UNCHANGED pending
       \/ /\ \A i \in DOMAIN entries : OwnsWrites(entries[i]) => ~Divergent(entries[i])
          /\ pending' = ToRestore /\ pc' = "restore" /\ UNCHANGED failed
    /\ UNCHANGED <<diskVars, holder, plan, entries, index, committed, faults>>

\* The last entry first.
RestoreEntry ==
    /\ pc = "restore"
    /\ \E i \in pending :
        /\ \A j \in pending : j <= i
        /\ \/ /\ files' = [files EXCEPT ![entries[i].path] = entries[i].before]
              /\ pending' = pending \ {i} /\ UNCHANGED <<pc, failed, faults>>
           \/ /\ Fault /\ Abort /\ UNCHANGED <<files, pending>>
    /\ UNCHANGED <<journal, holder, plan, entries, index, committed, raced>>

EndRestore ==
    /\ pc = "restore" /\ pending = {} /\ pc' = "drop"
    /\ UNCHANGED <<diskVars, holder, ownVars, raced, faults>>

\* Bug: a rollback leaves its journal behind.
BugDropNothing ==
    /\ pc = "drop" /\ pc' = (IF failed THEN "finish" ELSE "prepare")
    /\ UNCHANGED <<diskVars, holder, ownVars, raced, faults>>

\* The journal goes; a recovering owner turns to its own mutations.
DropJournal ==
    /\ pc = "drop"
    /\ \/ /\ journal' = None /\ pc' = (IF failed THEN "finish" ELSE "prepare")
          /\ UNCHANGED <<failed, faults>>
       \/ /\ Fault /\ Abort /\ UNCHANGED journal
    /\ UNCHANGED <<files, holder, plan, entries, index, pending, committed, raced>>

-----------------------------------------------------------------------------
(* applyLocked *)

Prepare ==
    /\ pc = "prepare"
    /\ \/ /\ plan = <<>> /\ pc' = "finish" /\ UNCHANGED <<entries, failed>>
       \/ /\ \E i \in DOMAIN plan : ~Acceptable(plan[i], files[plan[i].path])
          /\ Abort /\ UNCHANGED entries
       \/ /\ plan # <<>>
          /\ \A i \in DOMAIN plan : Acceptable(plan[i], files[plan[i].path])
          /\ entries' = [i \in DOMAIN plan |-> EntryFor(plan[i], files[plan[i].path])]
          /\ pc' = "record" /\ UNCHANGED failed
    /\ UNCHANGED <<diskVars, holder, plan, index, pending, committed, raced, faults>>

\* A failed write leaves no journal: files are replaced by rename.
Record ==
    /\ pc = "record"
    /\ \/ /\ journal' = [state |-> "prepared", entries |-> entries]
          /\ index' = 1 /\ pc' = "check" /\ UNCHANGED <<failed, faults>>
       \/ /\ Fault /\ Abort /\ UNCHANGED <<journal, index>>
    /\ UNCHANGED <<files, holder, plan, entries, pending, committed, raced>>

Current == entries[index]

\* handleApplyFailure rolls back with the journal in memory.
RollBack == failed' = TRUE /\ pc' = "classify"

\* Bug: a target is written without another look at it.
BugCheckNothing ==
    /\ pc = "check" /\ index <= Len(entries)
    /\ pc' = (IF OwnsWrites(Current) THEN "write" ELSE "check")
    /\ index' = (IF OwnsWrites(Current) THEN index ELSE index + 1)
    /\ UNCHANGED <<diskVars, holder, plan, entries, pending, failed, committed, raced, faults>>

CheckTarget ==
    /\ pc = "check" /\ index <= Len(entries)
    /\ \/ /\ ~OwnsWrites(Current)
          /\ index' = index + 1 /\ UNCHANGED <<pc, failed, raced>>
       \/ /\ OwnsWrites(Current) /\ Restored(Current)
          /\ pc' = "write" /\ raced' = {} /\ UNCHANGED <<index, failed>>
       \/ /\ OwnsWrites(Current) /\ ~Restored(Current)
          /\ RollBack /\ UNCHANGED <<index, raced>>
    /\ UNCHANGED <<diskVars, holder, plan, entries, pending, committed, faults>>

\* Bug: a file is written in place, so a failed write leaves part of it.
BugWriteInPlace ==
    /\ pc = "write"
    /\ \/ /\ files' = [files EXCEPT ![Current.path] = Current.after]
          /\ pc' = "confirm" /\ UNCHANGED <<failed, faults>>
       \/ /\ \E part \in FileState : files' = [files EXCEPT ![Current.path] = part]
          /\ Fault /\ RollBack
    /\ UNCHANGED <<journal, holder, plan, entries, index, pending, committed, raced>>

\* A target that already is what it is to become is not rewritten.
WriteTarget ==
    /\ pc = "write"
    /\ \/ /\ files' = (IF Current.before = Current.after THEN files
                       ELSE [files EXCEPT ![Current.path] = Current.after])
          /\ pc' = "confirm" /\ UNCHANGED <<failed, faults>>
       \/ /\ Current.before # Current.after
          /\ Fault /\ RollBack /\ UNCHANGED files
    /\ UNCHANGED <<journal, holder, plan, entries, index, pending, committed, raced>>

\* matchesAfter: an assertion still holds, a write is there with its mode.
InPlace(e) == Matches(files[e.path], e.after)

ConfirmTarget ==
    /\ pc = "confirm"
    /\ \/ /\ InPlace(Current)
          /\ index' = index + 1 /\ pc' = "check" /\ UNCHANGED failed
       \/ /\ ~InPlace(Current) /\ RollBack /\ UNCHANGED index
    /\ UNCHANGED <<diskVars, holder, plan, entries, pending, committed, raced, faults>>

\* Bug: assertions are observed in planning only.
BugVerifyWrites ==
    /\ pc = "check" /\ index > Len(entries) /\ raced' = {}
    /\ \/ /\ \A i \in DOMAIN entries : OwnsWrites(entries[i]) => InPlace(entries[i])
          /\ pc' = "mark" /\ UNCHANGED failed
       \/ /\ \E i \in DOMAIN entries : OwnsWrites(entries[i]) /\ ~InPlace(entries[i])
          /\ RollBack
    /\ UNCHANGED <<diskVars, holder, plan, entries, index, pending, committed, faults>>

VerifyAll ==
    /\ pc = "check" /\ index > Len(entries) /\ raced' = {}
    /\ \/ /\ \A i \in DOMAIN entries : InPlace(entries[i])
          /\ pc' = "mark" /\ UNCHANGED failed
       \/ /\ \E i \in DOMAIN entries : ~InPlace(entries[i])
          /\ RollBack
    /\ UNCHANGED <<diskVars, holder, plan, entries, index, pending, committed, faults>>

MarkCommitted ==
    /\ pc = "mark"
    /\ \/ /\ journal' = [journal EXCEPT !.state = "committed"]
          /\ committed' = TRUE /\ pc' = "clean" /\ UNCHANGED <<failed, faults>>
       \/ /\ Fault /\ RollBack /\ UNCHANGED <<journal, committed>>
    /\ UNCHANGED <<files, holder, plan, entries, index, pending, raced>>

RemoveCommitted ==
    /\ pc = "clean"
    /\ \/ /\ journal' = None /\ pc' = "finish" /\ UNCHANGED <<failed, faults>>
       \/ /\ Fault /\ Abort /\ UNCHANGED journal
    /\ UNCHANGED <<files, holder, plan, entries, index, pending, committed, raced>>

\* A file that cannot be read ends a recovery or a plan, and rolls an update back.
ReadError ==
    /\ Fault
    /\ \/ pc \in {"recover", "classify", "prepare"} /\ Abort
       \/ pc \in {"check", "confirm"} /\ RollBack
    /\ UNCHANGED <<diskVars, holder, plan, entries, index, pending, committed, raced>>

\* The operation is over, or its process is: what it had in memory is gone.
Forget ==
    /\ pc' = "idle" /\ plan' = <<>> /\ entries' = <<>> /\ index' = 1 /\ pending' = {}
    /\ failed' = FALSE /\ committed' = FALSE /\ raced' = {}

Finish(w) ==
    /\ pc = "finish" /\ Owner!Relinquish(w) /\ Forget
    /\ UNCHANGED <<diskVars, faults>>

-----------------------------------------------------------------------------
(* The environment *)

Crash(w) ==
    /\ Owner!Relinquish(w) /\ Fault /\ Forget
    /\ UNCHANGED diskVars

Edit(p) ==
    /\ (EditsAnytime \/ (pc = "idle" /\ journal = None)) /\ Fault
    /\ \E saved \in Editor : saved # files[p] /\ files' = [files EXCEPT ![p] = saved]
    /\ raced' = IF pc \in {"write", "restore", "drop", "mark"} THEN raced \cup {p} ELSE raced
    /\ UNCHANGED <<journal, holder, pc, ownVars>>

-----------------------------------------------------------------------------
OwnerStep ==
    \/ ReadJournals \/ Classify \/ RestoreEntry \/ EndRestore \/ DropJournal
    \/ Prepare \/ Record \/ CheckTarget \/ WriteTarget \/ ConfirmTarget
    \/ VerifyAll \/ MarkCommitted \/ RemoveCommitted

Next ==
    \/ OwnerStep \/ ReadError
    \/ \E w \in Writers : Begin(w) \/ Finish(w) \/ Crash(w)
    \/ \E p \in Paths : Edit(p)

Spec == Init /\ [][Next]_vars

\* A running operation goes on, and commands keep coming.
FairSpec ==
    /\ Spec
    /\ WF_vars(OwnerStep) /\ WF_vars(\E w \in Writers : Finish(w))
    /\ WF_vars(\E w \in Writers : Begin(w))

-----------------------------------------------------------------------------
Labels == {"idle", "recover", "classify", "restore", "drop", "prepare", "record", "check",
           "write", "confirm", "mark", "clean", "finish"}

(* Every variable keeps its type; a journal on disk is never empty, which    *)
(* parseJournal would refuse (file-transaction.ts:672).                      *)
TypeOK ==
    /\ files \in [Paths -> FileState]
    /\ journal = None \/ (/\ journal.state \in {"prepared", "committed"}
                          /\ journal.entries \in Seq(Entry) \ {<<>>})
    /\ Owner!HolderOK /\ pc \in Labels /\ (pc = "idle" <=> holder = None)
    /\ plan \in Seq(Mutation) /\ entries \in Seq(Entry) /\ pending \subseteq DOMAIN entries
    /\ index \in Nat \ {0} /\ faults \in 0..MaxFaults
    /\ failed \in BOOLEAN /\ committed \in BOOLEAN /\ raced \subseteq Paths

Prepared == journal # None /\ journal.state = "prepared"

(* No interruption or I/O error alone makes a journal unrecoverable: while   *)
(* nobody else edits, each target is what it was or what it was to become,   *)
(* so recovery never asks for a manual reconciliation.                       *)
AlwaysRecoverable ==
    Prepared => \A i \in DOMAIN journal.entries :
                    OwnsWrites(journal.entries[i]) => ~Divergent(journal.entries[i])

(* What VISP overwrites is what it last saw there: an edit is lost only if   *)
(* it lands between the check of its file and the write that follows.        *)
OverwritesOnlyWhatItSaw ==
    [][\A p \in Paths :
          (pc \in {"write", "restore"} /\ OwnerStep /\ files'[p] # files[p]) =>
             \/ p \in raced
             \/ LET e == ItemFor(entries, p) IN
                IF pc = "write" THEN Restored(e) ELSE Applied(e)]_vars

(* A transaction commits only with every target in place and every assertion *)
(* true: a file that is not was edited after the final verification.         *)
CommitsOnlyVerified ==
    [][(pc = "mark" /\ pc' = "clean") =>
          \A i \in DOMAIN entries : InPlace(entries[i]) \/ entries[i].path \in raced]_vars

(* file-transaction.ts:524: a rollback restores everything or, when one file *)
(* has a third state, nothing.  A journal is dropped uncommitted only when   *)
(* all its targets are back.                                                 *)
RollbackComplete ==
    [][(Prepared /\ journal' = None) =>
          \A i \in DOMAIN journal.entries :
              LET e == journal.entries[i] IN
              OwnsWrites(e) => Restored(e) \/ e.path \in raced]_vars

(* file-transaction.ts:182 says a normal error rolls back immediately.  One  *)
(* does not: a failure to remove the committed journal is an error of an     *)
(* update that stays.                                                        *)
ErrorRolledBack == pc = "finish" /\ failed => ~committed

(* An interrupted transaction does not stay half-done while commands come.   *)
JournalSettles == journal # None ~> journal = None

-----------------------------------------------------------------------------
\* Until its journal is marked committed, an update has not happened: its targets count
\* for what they were.
Store ==
    [p \in Paths |->
        IF Prepared /\ p \in Targets(journal.entries)
        THEN ItemFor(journal.entries, p).before ELSE files[p]]

Atomic == INSTANCE AtomicUpdate WITH store <- Store

(* Crashes and errors included, the files change as if every update happened *)
(* at one instant, against the files its plan was made for, whatever an       *)
(* editor saves between them.                                                *)
ImplementsAtomicUpdate == Atomic!Spec
=============================================================================
