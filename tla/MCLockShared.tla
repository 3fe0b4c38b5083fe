---------------------------- MODULE MCLockShared ----------------------------
(***************************************************************************)
(* Two callers in one process and one in another compete for the lock, on  *)
(* a file system with hard links or on one without: the initial state      *)
(* says which.  Without them the caller of the other process may fail to   *)
(* write, and at most one of the two others asks for the lock.             *)
(***************************************************************************)
EXTENDS StateLock, TLC

CONSTANTS a, b, c, p, q

\* Two callers in one process, as two MCP requests are, and one in another.
Shared == a :> p @@ b :> p @@ c :> q

\* Every process is visible to the others.
SeesAll == Processes \X Processes

\* The two callers of Shared are alike.
ABAlike == Permutations({a, b})

VARIABLE linkless

Renaming ==
    INSTANCE StateLock WITH HardLinks <- FALSE, PromptPublish <- TRUE, Faulty <- {c}

SharedInit == Init /\ linkless \in BOOLEAN

LinkingNext == ~linkless /\ Next /\ UNCHANGED linkless

RenamingNext ==
    /\ linkless /\ Renaming!Next /\ UNCHANGED linkless
    /\ round'[a] = 0 \/ round'[b] = 0

SharedSpec == SharedInit /\ [][LinkingNext \/ RenamingNext]_<<vars, linkless>>
=============================================================================
