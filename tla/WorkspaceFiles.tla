---------------------------- MODULE WorkspaceFiles ----------------------------
(***************************************************************************)
(* What the lock and the file transactions give their clients: an update   *)
(* of several files, written one after another by the process that owns    *)
(* the workspace, that a crash may cut off anywhere and that the next      *)
(* owner rolls back unless its journal is marked committed.  StateLock and *)
(* FileTransaction model how this comes about; the modules of the ledgers  *)
(* and stores that rely on it use these steps and supply the contents.     *)
(***************************************************************************)
EXTENDS Naturals

CONSTANTS
    Processes,
    NoOne,      \* nobody owns the workspace
    Absent      \* a file that does not exist

VARIABLES
    owner,      \* the process inside withStateMutation
    disk,       \* what each file holds
    journal     \* Absent, or the update under way

files == <<owner, disk, journal>>

\* The files once an interrupted update has been rolled back.
Recovered ==
    IF journal # Absent => journal.committed THEN disk
    ELSE [f \in DOMAIN disk |-> IF f \in DOMAIN journal.before THEN journal.before[f] ELSE disk[f]]

FilesInit(contents) == owner = NoOne /\ disk = contents /\ journal = Absent

\* The lock is taken and an interrupted update recovered before the operation runs.
Enter(p) ==
    /\ owner = NoOne
    /\ owner' = p /\ disk' = Recovered /\ journal' = Absent

\* The journal with the contents before is on disk before any target is touched.
Stage(p, after) ==
    /\ owner = p /\ journal = Absent
    /\ journal' = [before |-> [f \in DOMAIN after |-> disk[f]], after |-> after, committed |-> FALSE]
    /\ UNCHANGED <<owner, disk>>

\* Any order: the properties hold whichever file is written first.
WriteFile(p) ==
    /\ owner = p /\ journal # Absent /\ ~journal.committed
    /\ \E f \in DOMAIN journal.after :
          disk[f] # journal.after[f] /\ disk' = [disk EXCEPT ![f] = journal.after[f]]
    /\ UNCHANGED <<owner, journal>>

Written == \A f \in DOMAIN journal.after : disk[f] = journal.after[f]

MarkCommitted(p) ==
    /\ owner = p /\ journal # Absent /\ ~journal.committed /\ Written
    /\ journal' = [journal EXCEPT !.committed = TRUE]
    /\ UNCHANGED <<owner, disk>>

\* The journal is removed, the lock released and the caller answered.
Leave(p) ==
    /\ owner = p /\ (journal # Absent => journal.committed)
    /\ owner' = NoOne /\ journal' = Absent /\ UNCHANGED disk

\* The process dies; the lock is reclaimed from it later.
Crash(p) == owner = p /\ owner' = NoOne /\ UNCHANGED <<disk, journal>>
=============================================================================
