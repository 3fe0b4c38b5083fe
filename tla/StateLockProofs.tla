--------------------------- MODULE StateLockProofs ---------------------------
(***************************************************************************)
(* The lock of StateLock is exclusive for any number of writers, processes *)
(* and acquisitions, given hard links, a live reclaimer that does not hold *)
(* the recovery mutex for a minute, and no gap between the last lstat and  *)
(* the rmdir of a stale mutex.  No assumption is made on how long a writer *)
(* takes to publish.                                                       *)
(***************************************************************************)
EXTENDS StateLock, TLAPS

\* The acquisition a writer is in, or was in last, cannot publish any more.
PastLink(w) ==
    \/ pc[w] \in {"idle", "published", "own", "releasing", "unlinkOwn", "rmdirOwn"}
    \/ confirmed[w] # None

\* The acquisition of this token has been published or is over: it is never made again.
Used(t) == t[2] < round[t[1]] \/ (t[2] = round[t[1]] /\ PastLink(t[1]))

\* Every token read from owner.json is used, and a confirmed one is stopped.
TokensUsed ==
    /\ owner # None => Used(owner)
    /\ \A w \in Writers :
        /\ observed[w] # None => Used(observed[w])
        /\ confirmed[w] # None => Used(confirmed[w]) /\ Stopped(confirmed[w])

\* The doctor acquires nothing, and with hard links nobody renames.
Paths ==
    \A w \in Writers :
        /\ pc[w] \in {"mkdir", "write", "link", "retract", "undo", "wait"} => confirmed[w] = None
        /\ pc[w] # "rename"

\* A live writer that publishes or owns is active, and its token is in owner.json.
Ownership ==
    \A w \in Writers :
        /\ At(w, "write") \/ At(w, "link") => Token(w) \in activeTokens
        /\ Holding(w) => Token(w) \in activeTokens /\ owner = Token(w)

Judged == {"mutex", "clear", "recheck", "rejudge", "unlinkOwner"}

\* A reclaimer that has judged an owner abandoned is right from then on.
Judgement ==
    \A w \in Writers : pc[w] \in Judged /\ observed[w] # None => Stopped(observed[w])

UnderMutex == {"recheck", "rejudge", "unlinkOwner", "rmdirLock", "unlinkTemps", "unmutex"}

\* The mutex is held by the live reclaimer past it, and only a dead one's grows old.
Mutex ==
    /\ \A w \in Writers : Live(w) /\ pc[w] \in UnderMutex => recovery = w
    /\ recoveryAged => recovery \in Writers /\ ~Live(recovery)

\* Under the mutex, what was read again stays what it was until it is unlinked.
Rereading ==
    \A w \in Writers :
        /\ At(w, "rejudge") => owner = observed[w] \/ observed[w] = None
        /\ At(w, "unlinkOwner") => owner = observed[w] /\ observed[w] # None

IInv ==
    /\ TypeOK /\ TokensUsed /\ Paths /\ Ownership
    /\ Judgement /\ Mutex /\ Rereading /\ ActiveMeansHeld

-----------------------------------------------------------------------------
(* The type invariant *)

\* The initial lock files and process memories have their types.
LEMMA InitType == ASSUME Init PROVE TypeOK
<1>1. /\ pc \in [Writers -> Labels]
      /\ round \in [Writers -> Nat]
      /\ names \in [Writers -> SUBSET Writers]
      /\ remade \in [Writers -> BOOLEAN]
  BY DEF Init, Labels
<1>2. /\ observed \in [Writers -> Tokens \cup {None}]
      /\ confirmed \in [Writers -> Tokens \cup {None}]
      /\ result \in [Writers -> {"reclaimed", "busy", "error"}]
  BY DEF Init
<1> QED BY <1>1, <1>2 DEF Init, TypeOK, Empty

FilesType ==
    /\ lockDir \in BOOLEAN /\ aged \in BOOLEAN
    /\ temps \subseteq Writers /\ owner \in Tokens \cup {None}
    /\ ~lockDir => Empty
    /\ recovery \in Writers \cup {None} /\ recoveryAged \in BOOLEAN

\* Every operation on the lock files keeps them.
LEMMA TypeStep == ASSUME TypeOK, [Next]_vars PROVE TypeOK'
<1> USE LockConstants DEF TypeOK, Empty, Labels, Tokens, Token, At, Goto, fileVars, localVars
<1>1. CASE UNCHANGED vars
  BY <1>1 DEF vars
<1>2. ASSUME NEW w \in Writers, WriterStep(w) PROVE TypeOK'
  <2>1. CASE Start(w)
    BY <2>1 DEF Start
  <2>2. CASE MakeDir(w)
    <3>1. pc' \in [Writers -> Labels] BY <2>2 DEF MakeDir
    <3>2. FilesType'
      <4>1. lockDir' BY <2>2 DEF MakeDir
      <4> QED BY <4>1, <2>2 DEF MakeDir, Touch, FilesType
    <3>3. activeTokens' \subseteq Tokens BY <2>2 DEF MakeDir
    <3>4. remade' \in [Writers -> BOOLEAN] BY <2>2 DEF MakeDir
    <3> QED BY <2>2, <3>1, <3>2, <3>3, <3>4 DEF MakeDir, FilesType
  <2>3. CASE WriteTemp(w)
    <3>1. pc' \in [Writers -> Labels] BY <2>3 DEF WriteTemp
    <3>2. FilesType' BY <2>3 DEF WriteTemp, Touch, FilesType
    <3>3. names' \in [Writers -> SUBSET Writers] BY <2>3 DEF WriteTemp
    <3> QED BY <2>3, <3>1, <3>2, <3>3 DEF WriteTemp, FilesType
  <2>4. CASE Link(w)
    <3>1. pc' \in [Writers -> Labels] BY <2>4 DEF Link
    <3>2. owner' \in Tokens \cup {None} BY <2>4 DEF Link
    <3> QED BY <2>4, <3>1, <3>2 DEF Link, Touch
  <2>5. CASE LookBeforeRename(w)
    BY <2>5 DEF LookBeforeRename
  <2>6. CASE Rename(w)
    <3>1. pc' \in [Writers -> Labels] BY <2>6 DEF Rename
    <3>2. owner' \in Tokens \cup {None} BY <2>6 DEF Rename
    <3> QED BY <2>6, <3>1, <3>2 DEF Rename, Touch
  <2>7. CASE Own(w)
    BY <2>7 DEF Own, UnlinkTemp
  <2>8. CASE Retract(w)
    BY <2>8 DEF Retract, UnlinkTemp
  <2>9. CASE PublishError(w)
    BY <2>9 DEF PublishError, UnlinkTemp
  <2>10. CASE UndoDir(w)
    BY <2>10 DEF UndoDir, Empty
  <2>11. CASE Retry(w)
    BY <2>11 DEF Retry
  <2>12. CASE GiveUp(w)
    BY <2>12 DEF GiveUp
  <2>13. CASE Leave(w)
    BY <2>13 DEF Leave
  <2>14. CASE CheckOwner(w)
    BY <2>14 DEF CheckOwner
  <2>15. CASE UnlinkOwn(w)
    BY <2>15 DEF UnlinkOwn
  <2>16. CASE ReleaseError(w)
    BY <2>16 DEF ReleaseError
  <2>17. CASE RmdirOwn(w)
    BY <2>17 DEF RmdirOwn, Empty
  <2>18. CASE BeginRecover(w)
    BY <2>18 DEF BeginRecover
  <2>19. CASE Observe(w)
    BY <2>19 DEF Observe
  <2>20. CASE Judge(w)
    BY <2>20 DEF Judge, After
  <2>21. CASE TakeMutex(w)
    BY <2>21 DEF TakeMutex, After
  <2>22. CASE ClearStaleMutex(w)
    BY <2>22 DEF ClearStaleMutex, After
  <2>23. CASE Recheck(w)
    BY <2>23 DEF Recheck
  <2>24. CASE Rejudge(w)
    <3>1. pc' \in [Writers -> Labels] BY <2>24 DEF Rejudge
    <3>2. /\ names' \in [Writers -> SUBSET Writers]
          /\ remade' \in [Writers -> BOOLEAN]
      BY <2>24 DEF Rejudge
    <3>3. result' \in [Writers -> {"reclaimed", "busy", "error"}] BY <2>24 DEF Rejudge
    <3> QED BY <2>24, <3>1, <3>2, <3>3 DEF Rejudge
  <2>25. CASE UnlinkOwner(w)
    BY <2>25 DEF UnlinkOwner
  <2>26. CASE RmdirLock(w)
    BY <2>26 DEF RmdirLock, Empty
  <2>27. CASE \E v \in Writers : UnlinkLeftover(w, v)
    BY <2>27 DEF UnlinkLeftover
  <2>28. CASE RmdirOwnerless(w)
    BY <2>28 DEF RmdirOwnerless, Empty
  <2>29. CASE ReleaseMutex(w)
    BY <2>29 DEF ReleaseMutex, After
  <2> QED BY <1>2, <2>1, <2>2, <2>3, <2>4, <2>5, <2>6, <2>7, <2>8, <2>9, <2>10, <2>11,
         <2>12, <2>13, <2>14, <2>15, <2>16, <2>17, <2>18, <2>19, <2>20, <2>21, <2>22,
         <2>23, <2>24, <2>25, <2>26, <2>27, <2>28, <2>29 DEF WriterStep, Progress
<1>3. ASSUME NEW p \in Processes, Crash(p) PROVE TypeOK'
  BY <1>3 DEF Crash
<1>4. CASE AgeLockDir
  BY <1>4 DEF AgeLockDir
<1>5. CASE AgeRecovery
  BY <1>5 DEF AgeRecovery
<1> QED BY <1>1, <1>2, <1>3, <1>4, <1>5 DEF Next

(* Every variable keeps its type, however the lock files are used. *)
THEOREM LockTypes == Spec => []TypeOK
<1>1. TypeOK /\ [Next]_vars => TypeOK'
  BY TypeStep
<1> QED BY InitType, <1>1, PTL DEF Spec

-----------------------------------------------------------------------------
(* The inductive invariant *)

\* A worktree nobody has locked satisfies the invariant.
LEMMA InitInv == Init => IInv
<1> SUFFICES ASSUME Init PROVE IInv
  OBVIOUS
<1>1. TypeOK /\ TokensUsed /\ Paths /\ Mutex
  BY InitType, LockConstants DEF Init, TokensUsed, Paths, Mutex, UnderMutex
<1>2. Ownership /\ Judgement /\ Rereading /\ ActiveMeansHeld
  BY DEF Init, Ownership, Judgement, Judged, Rereading, ActiveMeansHeld, At, Holding
<1> QED BY <1>1, <1>2 DEF IInv

\* Two holders would both have their own token in the one owner.json.
LEMMA OneHolder == ASSUME TypeOK, Ownership PROVE MutualExclusion
<1> SUFFICES ASSUME NEW v \in Writers, NEW w \in Writers, Holding(v), Holding(w)
             PROVE  v = w
  BY DEF MutualExclusion
<1>1. Token(v) = Token(w)
  BY DEF Ownership
<1> QED BY <1>1 DEF Token

\* A holder's token is in owner.json, active, and its process lives.
LEMMA HolderNotStopped ==
  ASSUME TypeOK, Ownership, NEW w \in Writers, Holding(w)
  PROVE  owner = Token(w) /\ owner # None /\ ~Stopped(owner)
<1>1. owner = Token(w) /\ Token(w) \in activeTokens
  BY DEF Ownership
<1>2. ProcOf[Token(w)[1]] \notin crashed
  BY DEF Holding, Live, Token
<1>3. Token(w) # None
  BY LockConstants DEF TypeOK, Token
<1> QED BY <1>1, <1>2, <1>3 DEF Stopped

\* Every file operation, death and ageing keeps the invariant.
LEMMA InvStep ==
  ASSUME HardLinks, PromptReclaim, AtomicClear, IInv, [Next]_vars
  PROVE  IInv'
<1>0. TypeOK'
  BY TypeStep DEF IInv
<1> USE LockConstants, <1>0
    DEF IInv, TypeOK, Tokens, Token, Live, At, Goto, Holding, Stopped, Used, PastLink,
        TokensUsed, Paths, Ownership, Judgement, Judged, Mutex, UnderMutex, Rereading,
        ActiveMeansHeld, fileVars, localVars
<1>1. CASE UNCHANGED vars
  BY <1>1 DEF vars
<1>2. ASSUME NEW w \in Writers, WriterStep(w) PROVE IInv'
  <2>1. CASE Start(w)
    <3>1. (TokensUsed /\ Paths)' BY <2>1 DEF Start
    <3>2. (Ownership /\ ActiveMeansHeld)' BY <2>1 DEF Start
    <3>3. (Judgement /\ Mutex /\ Rereading)' BY <2>1 DEF Start
    <3> QED BY <3>1, <3>2, <3>3
  <2>2. CASE MakeDir(w)
    <3>1. (TokensUsed /\ Paths)' BY <2>2 DEF MakeDir, Touch
    <3>2. (Ownership /\ ActiveMeansHeld)' BY <2>2 DEF MakeDir, Touch
    <3>3. (Judgement /\ Mutex /\ Rereading)' BY <2>2 DEF MakeDir, Touch
    <3> QED BY <3>1, <3>2, <3>3
  <2>3. CASE WriteTemp(w)
    <3>1. (TokensUsed /\ Paths)' BY <2>3 DEF WriteTemp, Touch
    <3>2. (Ownership /\ ActiveMeansHeld)' BY <2>3 DEF WriteTemp, Touch
    <3>3. (Judgement /\ Mutex /\ Rereading)' BY <2>3 DEF WriteTemp, Touch
    <3> QED BY <3>1, <3>2, <3>3
  <2>4. CASE Link(w)
    <3>1. (TokensUsed /\ Paths)' BY <2>4 DEF Link, Touch
    <3>2. (Ownership /\ ActiveMeansHeld)' BY <2>4 DEF Link, Touch
    <3>3. (Judgement /\ Mutex /\ Rereading)' BY <2>4 DEF Link, Touch
    <3> QED BY <3>1, <3>2, <3>3
  <2>5. CASE LookBeforeRename(w)
    <3>1. (TokensUsed /\ Paths)' BY <2>5 DEF LookBeforeRename
    <3>2. (Ownership /\ ActiveMeansHeld)' BY <2>5 DEF LookBeforeRename
    <3>3. (Judgement /\ Mutex /\ Rereading)' BY <2>5 DEF LookBeforeRename
    <3> QED BY <3>1, <3>2, <3>3
  <2>6. CASE Rename(w)
    <3>1. (TokensUsed /\ Paths)' BY <2>6 DEF Rename, Touch
    <3>2. (Ownership /\ ActiveMeansHeld)' BY <2>6 DEF Rename, Touch
    <3>3. (Judgement /\ Mutex /\ Rereading)' BY <2>6 DEF Rename, Touch
    <3> QED BY <3>1, <3>2, <3>3
  <2>7. CASE Own(w)
    <3>1. (TokensUsed /\ Paths)' BY <2>7 DEF Own, UnlinkTemp
    <3>2. (Ownership /\ ActiveMeansHeld)' BY <2>7 DEF Own, UnlinkTemp
    <3>3. (Judgement /\ Mutex /\ Rereading)' BY <2>7 DEF Own, UnlinkTemp
    <3> QED BY <3>1, <3>2, <3>3
  <2>8. CASE Retract(w)
    <3>1. (TokensUsed /\ Paths)' BY <2>8 DEF Retract, UnlinkTemp
    <3>2. (Ownership /\ ActiveMeansHeld)' BY <2>8 DEF Retract, UnlinkTemp
    <3>3. (Judgement /\ Mutex /\ Rereading)' BY <2>8 DEF Retract, UnlinkTemp
    <3> QED BY <3>1, <3>2, <3>3
  <2>9. CASE PublishError(w)
    <3>1. (TokensUsed /\ Paths)' BY <2>9 DEF PublishError, UnlinkTemp
    <3>2. (Ownership /\ ActiveMeansHeld)' BY <2>9 DEF PublishError, UnlinkTemp
    <3>3. (Judgement /\ Mutex /\ Rereading)' BY <2>9 DEF PublishError, UnlinkTemp
    <3> QED BY <3>1, <3>2, <3>3
  <2>10. CASE UndoDir(w)
    <3>1. (TokensUsed /\ Paths)' BY <2>10 DEF UndoDir, Empty
    <3>2. (Ownership /\ ActiveMeansHeld)' BY <2>10 DEF UndoDir, Empty
    <3>3. (Judgement /\ Mutex /\ Rereading)' BY <2>10 DEF UndoDir, Empty
    <3> QED BY <3>1, <3>2, <3>3
  <2>11. CASE Retry(w)
    <3>1. (TokensUsed /\ Paths)' BY <2>11 DEF Retry
    <3>2. (Ownership /\ ActiveMeansHeld)' BY <2>11 DEF Retry
    <3>3. (Judgement /\ Mutex /\ Rereading)' BY <2>11 DEF Retry
    <3> QED BY <3>1, <3>2, <3>3
  <2>12. CASE GiveUp(w)
    <3>1. (TokensUsed /\ Paths)' BY <2>12 DEF GiveUp
    <3>2. (Ownership /\ ActiveMeansHeld)' BY <2>12 DEF GiveUp
    <3>3. (Judgement /\ Mutex /\ Rereading)' BY <2>12 DEF GiveUp
    <3> QED BY <3>1, <3>2, <3>3
  <2>13. CASE Leave(w)
    <3>1. (TokensUsed /\ Paths)' BY <2>13 DEF Leave
    <3>2. (Ownership /\ ActiveMeansHeld)' BY <2>13 DEF Leave
    <3>3. (Judgement /\ Mutex /\ Rereading)' BY <2>13 DEF Leave
    <3> QED BY <3>1, <3>2, <3>3
  <2>14. CASE CheckOwner(w)
    <3>1. (TokensUsed /\ Paths)' BY <2>14 DEF CheckOwner
    <3>2. (Ownership /\ ActiveMeansHeld)' BY <2>14 DEF CheckOwner
    <3>3. (Judgement /\ Mutex /\ Rereading)' BY <2>14 DEF CheckOwner
    <3> QED BY <3>1, <3>2, <3>3
  <2>15. CASE UnlinkOwn(w)
    <3>1. owner = Token(w) /\ ~Stopped(owner)
      BY <2>15, HolderNotStopped DEF UnlinkOwn
    <3>2. \A v \in Writers : Holding(v) => v = w
      BY <2>15, OneHolder DEF UnlinkOwn, MutualExclusion
    <3>3. (TokensUsed /\ Paths)' BY <2>15 DEF UnlinkOwn
    <3>4. (Ownership /\ ActiveMeansHeld)' BY <2>15, <3>2 DEF UnlinkOwn
    <3>5. (Judgement /\ Mutex)' BY <2>15 DEF UnlinkOwn
    <3>6. Rereading' BY <2>15, <3>1 DEF UnlinkOwn
    <3> QED BY <3>3, <3>4, <3>5, <3>6
  <2>16. CASE ReleaseError(w)
    <3>1. (TokensUsed /\ Paths)' BY <2>16 DEF ReleaseError
    <3>2. (Ownership /\ ActiveMeansHeld)' BY <2>16 DEF ReleaseError
    <3>3. (Judgement /\ Mutex /\ Rereading)' BY <2>16 DEF ReleaseError
    <3> QED BY <3>1, <3>2, <3>3
  <2>17. CASE RmdirOwn(w)
    <3>1. (TokensUsed /\ Paths)' BY <2>17 DEF RmdirOwn, Empty
    <3>2. (Ownership /\ ActiveMeansHeld)' BY <2>17 DEF RmdirOwn, Empty
    <3>3. (Judgement /\ Mutex /\ Rereading)' BY <2>17 DEF RmdirOwn, Empty
    <3> QED BY <3>1, <3>2, <3>3
  <2>18. CASE BeginRecover(w)
    <3>1. (TokensUsed /\ Paths)' BY <2>18 DEF BeginRecover
    <3>2. (Ownership /\ ActiveMeansHeld)' BY <2>18 DEF BeginRecover
    <3>3. (Judgement /\ Mutex /\ Rereading)' BY <2>18 DEF BeginRecover
    <3> QED BY <3>1, <3>2, <3>3
  <2>19. CASE Observe(w)
    <3>1. (TokensUsed /\ Paths)' BY <2>19 DEF Observe
    <3>2. (Ownership /\ ActiveMeansHeld)' BY <2>19 DEF Observe
    <3>3. (Judgement /\ Mutex /\ Rereading)' BY <2>19 DEF Observe
    <3> QED BY <3>1, <3>2, <3>3
  <2>20. CASE Judge(w)
    <3>1. (TokensUsed /\ Paths)' BY <2>20 DEF Judge, After, Abandoned, Recoverable, OwnerState
    <3>2. (Ownership /\ ActiveMeansHeld)' BY <2>20 DEF Judge, After, Abandoned, Recoverable, OwnerState
    <3>3. (Judgement /\ Mutex /\ Rereading)' BY <2>20 DEF Judge, After, Abandoned, Recoverable, OwnerState
    <3> QED BY <3>1, <3>2, <3>3
  <2>21. CASE TakeMutex(w)
    <3>1. (TokensUsed /\ Paths)' BY <2>21 DEF TakeMutex, After
    <3>2. (Ownership /\ ActiveMeansHeld)' BY <2>21 DEF TakeMutex, After
    <3>3. (Judgement /\ Mutex /\ Rereading)' BY <2>21 DEF TakeMutex, After
    <3> QED BY <3>1, <3>2, <3>3
  <2>22. CASE ClearStaleMutex(w)
    <3>1. (TokensUsed /\ Paths)' BY <2>22 DEF ClearStaleMutex, After
    <3>2. (Ownership /\ ActiveMeansHeld)' BY <2>22 DEF ClearStaleMutex, After
    <3>3. (Judgement /\ Mutex /\ Rereading)' BY <2>22 DEF ClearStaleMutex, After
    <3> QED BY <3>1, <3>2, <3>3
  <2>23. CASE Recheck(w)
    <3>1. (TokensUsed /\ Paths)' BY <2>23 DEF Recheck
    <3>2. (Ownership /\ ActiveMeansHeld)' BY <2>23 DEF Recheck
    <3>3. (Judgement /\ Mutex /\ Rereading)' BY <2>23 DEF Recheck
    <3> QED BY <3>1, <3>2, <3>3
  <2>24. CASE Rejudge(w)
    <3>1. (TokensUsed /\ Paths)' BY <2>24 DEF Rejudge, Abandoned
    <3>2. (Ownership /\ ActiveMeansHeld)' BY <2>24 DEF Rejudge, Abandoned
    <3>3. (Judgement /\ Mutex /\ Rereading)' BY <2>24 DEF Rejudge, Abandoned
    <3> QED BY <3>1, <3>2, <3>3
  <2>25. CASE UnlinkOwner(w)
    <3>1. owner = observed[w] /\ Stopped(owner) BY <2>25 DEF UnlinkOwner
    <3>2. \A v \in Writers : ~Holding(v) BY <3>1, HolderNotStopped
    <3>3. (TokensUsed /\ Paths)' BY <2>25 DEF UnlinkOwner
    <3>4. (Ownership /\ ActiveMeansHeld)' BY <2>25, <3>2 DEF UnlinkOwner
    <3>5. (Judgement /\ Mutex /\ Rereading)' BY <2>25 DEF UnlinkOwner
    <3> QED BY <3>3, <3>4, <3>5
  <2>26. CASE RmdirLock(w)
    <3>1. (TokensUsed /\ Paths)' BY <2>26 DEF RmdirLock, Empty
    <3>2. (Ownership /\ ActiveMeansHeld)' BY <2>26 DEF RmdirLock, Empty
    <3>3. (Judgement /\ Mutex /\ Rereading)' BY <2>26 DEF RmdirLock, Empty
    <3> QED BY <3>1, <3>2, <3>3
  <2>27. ASSUME NEW v \in Writers, UnlinkLeftover(w, v) PROVE IInv'
    <3>1. (TokensUsed /\ Paths)' BY <2>27 DEF UnlinkLeftover
    <3>2. (Ownership /\ ActiveMeansHeld)' BY <2>27 DEF UnlinkLeftover
    <3>3. (Judgement /\ Mutex /\ Rereading)' BY <2>27 DEF UnlinkLeftover
    <3> QED BY <3>1, <3>2, <3>3
  <2>28. CASE RmdirOwnerless(w)
    <3>1. (TokensUsed /\ Paths)' BY <2>28 DEF RmdirOwnerless, Empty
    <3>2. (Ownership /\ ActiveMeansHeld)' BY <2>28 DEF RmdirOwnerless, Empty
    <3>3. (Judgement /\ Mutex /\ Rereading)' BY <2>28 DEF RmdirOwnerless, Empty
    <3> QED BY <3>1, <3>2, <3>3
  <2>29. CASE ReleaseMutex(w)
    <3>1. (TokensUsed /\ Paths)' BY <2>29 DEF ReleaseMutex, After
    <3>2. (Ownership /\ ActiveMeansHeld)' BY <2>29 DEF ReleaseMutex, After
    <3>3. (Judgement /\ Mutex /\ Rereading)' BY <2>29 DEF ReleaseMutex, After
    <3> QED BY <3>1, <3>2, <3>3
  <2> QED BY <1>2, <2>1, <2>2, <2>3, <2>4, <2>5, <2>6, <2>7, <2>8, <2>9, <2>10, <2>11,
         <2>12, <2>13, <2>14, <2>15, <2>16, <2>17, <2>18, <2>19, <2>20, <2>21, <2>22,
         <2>23, <2>24, <2>25, <2>26, <2>27, <2>28, <2>29 DEF WriterStep, Progress
<1>3. ASSUME NEW p \in Processes, Crash(p) PROVE IInv'
  <2>1. (TokensUsed /\ Paths)' BY <1>3 DEF Crash
  <2>2. (Ownership /\ ActiveMeansHeld)' BY <1>3 DEF Crash
  <2>3. (Judgement /\ Mutex /\ Rereading)' BY <1>3 DEF Crash
  <2> QED BY <2>1, <2>2, <2>3
<1>4. CASE AgeLockDir
  BY <1>4 DEF AgeLockDir
<1>5. CASE AgeRecovery
  BY <1>5 DEF AgeRecovery
<1> QED BY <1>1, <1>2, <1>3, <1>4, <1>5 DEF Next

(* What every reachable state of the lock files satisfies. *)
THEOREM Invariant ==
  ASSUME HardLinks, PromptReclaim, AtomicClear
  PROVE  Spec => []IInv
<1>1. IInv /\ [Next]_vars => IInv'
  BY InvStep
<1> QED BY InitInv, <1>1, PTL DEF Spec

(* Two writers never own the worktree at once (state-lock.ts:48). *)
THEOREM Exclusion ==
  ASSUME HardLinks, PromptReclaim, AtomicClear
  PROVE  Spec => []MutualExclusion
<1>1. IInv => MutualExclusion
  BY OneHolder DEF IInv
<1> QED BY Invariant, <1>1, PTL

(* A writer that is releasing still finds its own token in owner.json. *)
THEOREM HolderKeepsOwner ==
  ASSUME HardLinks, PromptReclaim, AtomicClear
  PROVE  Spec => []OwnerNamesHolder
<1>1. IInv => OwnerNamesHolder
  BY DEF IInv, Ownership, OwnerNamesHolder
<1> QED BY Invariant, <1>1, PTL

(* What a reclaimer unlinks under the mutex is the stopped owner it judged. *)
THEOREM ReclaimSafety ==
  ASSUME HardLinks, PromptReclaim, AtomicClear
  PROVE  Spec => []ReclaimsOnlyStopped
<1>1. IInv => ReclaimsOnlyStopped
  BY DEF IInv, Judgement, Judged, Rereading, ReclaimsOnlyStopped, At
<1> QED BY Invariant, <1>1, PTL

-----------------------------------------------------------------------------
(* Refinement of ExclusiveOwner *)

\* With one holder at most, a step leaves it, acquires a free lock or ends an ownership.
HolderStep ==
    \/ Holders' = Holders
    \/ \E w \in Writers : Holders = {} /\ Holders' = {w}
    \/ \E w \in Writers : Holders = {w} /\ Holders' = {}

\* Only link takes the lock; only unlink, a failed release and death end an ownership.
LEMMA HolderStepLemma ==
  ASSUME HardLinks, IInv, [Next]_vars
  PROVE  HolderStep
<1> USE DEF Holders, Holding, Live, At, Goto, IInv, TypeOK, fileVars, localVars
<1>0. \A w \in Writers : Holding(w) => Holders = {w}
  BY OneHolder DEF MutualExclusion
<1>1. CASE UNCHANGED vars
  BY <1>1 DEF vars, HolderStep
<1>2. ASSUME NEW w \in Writers, WriterStep(w) PROVE HolderStep
  <2>1. CASE Start(w)
    <3>1. Holders' = Holders BY <2>1 DEF Start
    <3> QED BY <3>1 DEF HolderStep
  <2>2. CASE MakeDir(w)
    <3>1. Holders' = Holders BY <2>2 DEF MakeDir
    <3> QED BY <3>1 DEF HolderStep
  <2>3. CASE WriteTemp(w)
    <3>1. Holders' = Holders BY <2>3 DEF WriteTemp
    <3> QED BY <3>1 DEF HolderStep
  <2>4. CASE Link(w)
    <3>1. CASE w \in temps /\ owner = None
      <4>1. Holders = {} BY <3>1, HolderNotStopped
      <4>2. Holders' = {w} BY <2>4, <3>1, <4>1 DEF Link
      <4> QED BY <4>1, <4>2 DEF HolderStep
    <3>2. CASE w \notin temps \/ owner # None
      <4>1. Holders' = Holders BY <2>4, <3>2 DEF Link
      <4> QED BY <4>1 DEF HolderStep
    <3> QED BY <3>1, <3>2
  <2>5. CASE LookBeforeRename(w)
    <3>1. Holders' = Holders BY <2>5 DEF LookBeforeRename
    <3> QED BY <3>1 DEF HolderStep
  <2>6. CASE Rename(w)
    BY <2>6 DEF Rename, Paths
  <2>7. CASE Own(w)
    <3>1. Holders' = Holders BY <2>7 DEF Own
    <3> QED BY <3>1 DEF HolderStep
  <2>8. CASE Retract(w)
    <3>1. Holders' = Holders BY <2>8 DEF Retract
    <3> QED BY <3>1 DEF HolderStep
  <2>9. CASE PublishError(w)
    <3>1. Holders' = Holders BY <2>9 DEF PublishError
    <3> QED BY <3>1 DEF HolderStep
  <2>10. CASE UndoDir(w)
    <3>1. Holders' = Holders BY <2>10 DEF UndoDir
    <3> QED BY <3>1 DEF HolderStep
  <2>11. CASE Retry(w)
    <3>1. Holders' = Holders BY <2>11 DEF Retry
    <3> QED BY <3>1 DEF HolderStep
  <2>12. CASE GiveUp(w)
    <3>1. Holders' = Holders BY <2>12 DEF GiveUp
    <3> QED BY <3>1 DEF HolderStep
  <2>13. CASE Leave(w)
    <3>1. Holders' = Holders BY <2>13 DEF Leave
    <3> QED BY <3>1 DEF HolderStep
  <2>14. CASE CheckOwner(w)
    <3>1. owner = Token(w) BY <2>14 DEF CheckOwner, Ownership
    <3>2. Holders' = Holders BY <2>14, <3>1 DEF CheckOwner
    <3> QED BY <3>2 DEF HolderStep
  <2>15. CASE UnlinkOwn(w)
    <3>1. Holders = {w} BY <2>15, <1>0 DEF UnlinkOwn
    <3>2. Holders' = {} BY <2>15, <3>1 DEF UnlinkOwn
    <3> QED BY <3>1, <3>2 DEF HolderStep
  <2>16. CASE ReleaseError(w)
    <3>1. Holders = {w} BY <2>16, <1>0 DEF ReleaseError
    <3>2. Holders' = {} BY <2>16, <3>1 DEF ReleaseError
    <3> QED BY <3>1, <3>2 DEF HolderStep
  <2>17. CASE RmdirOwn(w)
    <3>1. Holders' = Holders BY <2>17 DEF RmdirOwn
    <3> QED BY <3>1 DEF HolderStep
  <2>18. CASE BeginRecover(w)
    <3>1. Holders' = Holders BY <2>18 DEF BeginRecover
    <3> QED BY <3>1 DEF HolderStep
  <2>19. CASE Observe(w)
    <3>1. Holders' = Holders BY <2>19 DEF Observe
    <3> QED BY <3>1 DEF HolderStep
  <2>20. CASE Judge(w)
    <3>1. Holders' = Holders BY <2>20 DEF Judge, After
    <3> QED BY <3>1 DEF HolderStep
  <2>21. CASE TakeMutex(w)
    <3>1. Holders' = Holders BY <2>21 DEF TakeMutex, After
    <3> QED BY <3>1 DEF HolderStep
  <2>22. CASE ClearStaleMutex(w)
    <3>1. Holders' = Holders BY <2>22 DEF ClearStaleMutex, After
    <3> QED BY <3>1 DEF HolderStep
  <2>23. CASE Recheck(w)
    <3>1. Holders' = Holders BY <2>23 DEF Recheck
    <3> QED BY <3>1 DEF HolderStep
  <2>24. CASE Rejudge(w)
    <3>1. Holders' = Holders BY <2>24 DEF Rejudge
    <3> QED BY <3>1 DEF HolderStep
  <2>25. CASE UnlinkOwner(w)
    <3>1. Holders' = Holders BY <2>25 DEF UnlinkOwner
    <3> QED BY <3>1 DEF HolderStep
  <2>26. CASE RmdirLock(w)
    <3>1. Holders' = Holders BY <2>26 DEF RmdirLock
    <3> QED BY <3>1 DEF HolderStep
  <2>27. CASE \E v \in Writers : UnlinkLeftover(w, v)
    <3>1. Holders' = Holders BY <2>27 DEF UnlinkLeftover
    <3> QED BY <3>1 DEF HolderStep
  <2>28. CASE RmdirOwnerless(w)
    <3>1. Holders' = Holders BY <2>28 DEF RmdirOwnerless
    <3> QED BY <3>1 DEF HolderStep
  <2>29. CASE ReleaseMutex(w)
    <3>1. Holders' = Holders BY <2>29 DEF ReleaseMutex, After
    <3> QED BY <3>1 DEF HolderStep
  <2> QED BY <1>2, <2>1, <2>2, <2>3, <2>4, <2>5, <2>6, <2>7, <2>8, <2>9, <2>10, <2>11,
         <2>12, <2>13, <2>14, <2>15, <2>16, <2>17, <2>18, <2>19, <2>20, <2>21, <2>22,
         <2>23, <2>24, <2>25, <2>26, <2>27, <2>28, <2>29 DEF WriterStep, Progress
<1>3. ASSUME NEW p \in Processes, Crash(p) PROVE HolderStep
  <2>1. Holders' \subseteq Holders BY <1>3 DEF Crash
  <2>2. Holders = {} \/ \E w \in Writers : Holders = {w} BY <1>0
  <2> QED BY <2>1, <2>2 DEF HolderStep
<1>4. CASE AgeLockDir
  BY <1>4 DEF AgeLockDir, HolderStep
<1>5. CASE AgeRecovery
  BY <1>5 DEF AgeRecovery, HolderStep
<1> QED BY <1>1, <1>2, <1>3, <1>4, <1>5 DEF Next

(* Every behaviour of the lock files is one of the abstract exclusive lock.  *)
THEOREM Refinement ==
  ASSUME HardLinks, PromptReclaim, AtomicClear
  PROVE  Spec => ImplementsExclusiveOwner
<1>1. Init => Exclusive!Init
  <2> SUFFICES ASSUME Init PROVE LockHolder = None
    BY DEF Exclusive!Init
  <2> QED BY DEF Init, LockHolder, Holders, Holding
<1>2. IInv /\ [Next]_vars => [Exclusive!Next]_LockHolder
  <2> SUFFICES ASSUME IInv, [Next]_vars PROVE [Exclusive!Next]_LockHolder
    OBVIOUS
  <2> USE DEF LockHolder, Exclusive!Next, Exclusive!Acquire, Exclusive!Relinquish
  <2>1. CASE Holders' = Holders
    BY <2>1
  <2>2. ASSUME NEW w \in Writers, Holders = {}, Holders' = {w} PROVE Exclusive!Next
    BY <2>2
  <2>3. ASSUME NEW w \in Writers, Holders = {w}, Holders' = {} PROVE Exclusive!Next
    BY <2>3
  <2> QED BY <2>1, <2>2, <2>3, HolderStepLemma DEF HolderStep
<1> QED BY Invariant, <1>1, <1>2, PTL DEF Spec, ImplementsExclusiveOwner, Exclusive!Spec
=============================================================================
