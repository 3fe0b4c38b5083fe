------------------------------ MODULE StateScopes ------------------------------
(***************************************************************************)
(* withStateLock inside one process (src/core/state-lock.ts:48-156): which *)
(* calls queue, which nest and when the worktree lock may be released.  A  *)
(* call made in the asynchronous context of another call's operation joins *)
(* the innermost scope of that context which is still active; any other    *)
(* call waits in the process's queue and then takes the lock of StateLock, *)
(* which is the variable holder here.                                      *)
(*                                                                         *)
(* An action is what runs between two awaits.  A call and the promises it  *)
(* makes (its turn in the queue, its turn among its siblings) have the     *)
(* same name; a promise is settled when its call is "done".                *)
(***************************************************************************)
EXTENDS Naturals, FiniteSets

CONSTANTS
    Calls,    \* calls of withStateLock for one worktree
    Within,   \* the call in whose operation each call is made, or None
    Hasty,    \* calls with the timeoutMs option, which skip the queue
    Other,    \* another process
    None

ASSUME ScopeConstants ==
    /\ Within \in [Calls -> Calls \cup {None}] /\ Hasty \subseteq Calls
    /\ None \notin Calls /\ Other \notin Calls \cup {None}

VARIABLES
    phase,     \* how far each call is
    parent,    \* the scope a call joined, None for an owner of the lock
    previous,  \* the call whose promise it awaits before its turn, or None
    tail,      \* writers.get(canonical): the last call in the queue, or None
    children,  \* the last call in each scope's chain of children, or None
    pending,   \* the link of that chain a finished operation awaits
    awaited,   \* calls whose result the operation that made them waits for
    holder     \* the call, or Other, that holds mutation.lock, or None

vars == <<phase, parent, previous, tail, children, pending, awaited, holder>>

Phases == {"unmade", "queued", "acquiring", "turn", "running", "draining", "closed",
           "releasing", "done"}

Init ==
    /\ phase = [c \in Calls |-> "unmade"]
    /\ parent = [c \in Calls |-> None] /\ previous = [c \in Calls |-> None]
    /\ tail = None
    /\ children = [c \in Calls |-> None] /\ pending = [c \in Calls |-> None]
    /\ awaited = {} /\ holder = None

Goto(c, label) == phase' = [phase EXCEPT ![c] = label]

Settled(c) == c \in {None} \cup {d \in Calls : phase[d] = "done"}

\* frame.active: from the creation of the scope until its children have settled.
Active(c) == phase[c] \in {"running", "draining"}

\* The innermost active scope of the context of c.
Innermost(c) ==
    LET active[f \in Calls \cup {None}] ==
            IF f = None \/ Active(f) THEN f ELSE active[parent[f]]
    IN  active[Within[c]]

\* The call that owns the lease of a scope.
Owner(c) ==
    LET up[f \in Calls] == IF parent[f] = None THEN f ELSE up[parent[f]] IN up[c]

LeaseActive(c) == phase[Owner(c)] \in {"running", "draining", "closed"}

Nests(c) == Innermost(c) # None /\ LeaseActive(Innermost(c))

\* An operation that has started makes a call, or a task it left behind does.
Make(c) ==
    /\ phase[c] = "unmade"
    /\ Within[c] # None =>
         phase[Within[c]] \in {"running", "draining", "closed", "releasing", "done"}
    /\ \/ UNCHANGED awaited
       \/ Within[c] # None /\ phase[Within[c]] = "running" /\ awaited' = awaited \cup {c}

EnqueueChild(c) ==
    /\ Make(c) /\ Nests(c)
    /\ parent' = [parent EXCEPT ![c] = Innermost(c)]
    /\ previous' = [previous EXCEPT ![c] = children[Innermost(c)]]
    /\ children' = [children EXCEPT ![Innermost(c)] = c]
    /\ Goto(c, "turn")
    /\ UNCHANGED <<tail, pending, holder>>

Enqueue(c) ==
    /\ Make(c) /\ ~Nests(c) /\ c \notin Hasty
    /\ previous' = [previous EXCEPT ![c] = tail] /\ tail' = c
    /\ Goto(c, "queued")
    /\ UNCHANGED <<parent, children, pending, holder>>

SkipQueue(c) ==
    /\ Make(c) /\ ~Nests(c) /\ c \in Hasty
    /\ Goto(c, "acquiring")
    /\ UNCHANGED <<parent, previous, tail, children, pending, holder>>

\* `await previous`
Proceed(c) ==
    /\ Settled(previous[c])
    /\ \/ phase[c] = "queued" /\ Goto(c, "acquiring")
       \/ phase[c] = "turn" /\ Goto(c, "running")
    /\ UNCHANGED <<parent, previous, tail, children, pending, awaited, holder>>

Acquire(c) ==
    /\ phase[c] = "acquiring" /\ holder = None
    /\ holder' = c /\ Goto(c, "running")
    /\ UNCHANGED <<parent, previous, tail, children, pending, awaited>>

\* The `finally` of withStateLock.
LeaveQueue(c) == tail' = IF tail = c THEN None ELSE tail

\* STATE_BUSY, or an I/O error.
Refuse(c) ==
    /\ phase[c] = "acquiring"
    /\ LeaveQueue(c) /\ Goto(c, "done")
    /\ UNCHANGED <<parent, previous, children, pending, awaited, holder>>

\* The operation returns or throws; then its scope waits for its children.
Return(c) ==
    /\ phase[c] = "running"
    /\ \A d \in awaited : Within[d] = c => phase[d] = "done"
    /\ pending' = [pending EXCEPT ![c] = children[c]]
    /\ Goto(c, "draining")
    /\ UNCHANGED <<parent, previous, tail, children, awaited, holder>>

\* Bug: only the chain as it was when the operation returned is awaited.
BugDrainOnce(c) ==
    /\ phase[c] = "draining" /\ Settled(pending[c])
    /\ Goto(c, "closed")
    /\ UNCHANGED <<parent, previous, tail, children, pending, awaited, holder>>

\* Until the chain has not grown meanwhile.
Drain(c) ==
    /\ phase[c] = "draining" /\ Settled(pending[c])
    /\ \/ /\ pending[c] = children[c]
          /\ Goto(c, "closed") /\ UNCHANGED pending
       \/ /\ pending[c] # children[c]
          /\ pending' = [pending EXCEPT ![c] = children[c]] /\ UNCHANGED phase
    /\ UNCHANGED <<parent, previous, tail, children, awaited, holder>>

EndChild(c) ==
    /\ phase[c] = "closed" /\ parent[c] # None
    /\ Goto(c, "done")
    /\ UNCHANGED <<parent, previous, tail, children, pending, awaited, holder>>

EndLease(c) ==
    /\ phase[c] = "closed" /\ parent[c] = None
    /\ Goto(c, "releasing")
    /\ UNCHANGED <<parent, previous, tail, children, pending, awaited, holder>>

Release(c) ==
    /\ phase[c] = "releasing"
    /\ holder' = None /\ LeaveQueue(c) /\ Goto(c, "done")
    /\ UNCHANGED <<parent, previous, children, pending, awaited>>

OtherProcess ==
    /\ holder \in {None, Other}
    /\ holder' = IF holder = None THEN Other ELSE None
    /\ UNCHANGED <<phase, parent, previous, tail, children, pending, awaited>>

Step(c) ==
    \/ Proceed(c) \/ Acquire(c) \/ Refuse(c) \/ Return(c) \/ Drain(c)
    \/ EndChild(c) \/ EndLease(c) \/ Release(c)

Next ==
    \/ \E c \in Calls : EnqueueChild(c) \/ Enqueue(c) \/ SkipQueue(c) \/ Step(c)
    \/ OtherProcess

Spec == Init /\ [][Next]_vars

\* The event loop runs what is ready, an acquisition ends by its deadline, and an
\* operation ends once the calls it awaits have.
FairSpec == Spec /\ \A c \in Calls : WF_vars(Step(c))

-----------------------------------------------------------------------------
(* Every variable keeps its type, and a nested call never queues for, tries *)
(* for or releases the lock of its owner.                                    *)
TypeOK ==
    /\ \A c \in Calls : parent[c] # None => phase[c] \notin {"queued", "acquiring", "releasing"}
    /\ phase \in [Calls -> Phases]
    /\ parent \in [Calls -> Calls \cup {None}]
    /\ previous \in [Calls -> Calls \cup {None}]
    /\ tail \in Calls \cup {None}
    /\ children \in [Calls -> Calls \cup {None}]
    /\ pending \in [Calls -> Calls \cup {None}]
    /\ awaited \subseteq Calls
    /\ holder \in Calls \cup {Other, None}

Above(c) ==
    LET up[f \in Calls] == IF parent[f] = None THEN {} ELSE {parent[f]} \cup up[parent[f]]
    IN  up[c]

(* "nested operations are reentrant and concurrent ones serialize"           *)
(* (docs/internals.md:41): a nested operation never runs after the release   *)
(* of the lock it relies on, even one started by a task nobody awaits        *)
(* (state-lock.ts:147-155); two scopes are open at once only if one is       *)
(* inside the other.  The queue spares a process from contending with itself *)
(* for mutation.lock: of the calls without a timeout at most one tries for   *)
(* the lock or has it.                                                       *)
NestingSound ==
    /\ \A c \in Calls : Active(c) => holder = Owner(c)
    /\ \A c, d \in Calls :
          Active(c) /\ Active(d) => c = d \/ c \in Above(d) \/ d \in Above(c)
    /\ \A c, d \in Calls \ Hasty :
          (/\ {parent[c], parent[d]} = {None}
           /\ {phase[c], phase[d]} \cap {"unmade", "queued", "done"} = {}) => c = d
=============================================================================
