--------------------------- MODULE ExclusiveOwner ---------------------------
(***************************************************************************)
(* What `withStateLock` promises to the operations it runs: at any moment  *)
(* at most one writer owns the worktree.  An ownership ends when its       *)
(* writer releases it or when the writer's process dies.  The detailed     *)
(* lock (StateLock) implements this, and the modules that run under the    *)
(* lock (FileTransaction) rely on nothing else.                            *)
(***************************************************************************)
CONSTANTS
    Writers,  \* the callers of withStateLock
    None      \* nobody, not a writer

VARIABLE holder  \* the writer that owns the worktree, or None

HolderOK == holder \in Writers \cup {None}

Init == holder = None

Acquire(w) == holder = None /\ holder' = w

\* A release, or the death of the owner.
Relinquish(w) == holder = w /\ holder' = None

Next == \E w \in Writers : Acquire(w) \/ Relinquish(w)

Spec == Init /\ [][Next]_holder
=============================================================================
