-------------------------- MODULE ProcessesProofs --------------------------
(***************************************************************************)
(* What one process does by itself, for any instance.                      *)
(*                                                                         *)
(* Nested calls of withStateLock, made anywhere: a nested operation runs   *)
(* only under the lock of its owner, scopes that are open together lie     *)
(* inside each other, and the process does not contend with itself.        *)
(* Calls wait in lines: those in the process's queue, and the children of  *)
(* each scope.  A line is its members, whom each of them waits for, and    *)
(* the rear one.                                                           *)
(*                                                                         *)
(* An attempt of the runner with a feedback loop, a command and its        *)
(* process group, the starts of a dashboard, a browser journey: budgets,   *)
(* answers, leases and what is left behind; and all of them side by side.  *)
(***************************************************************************)
EXTENDS Processes, NaturalFacts, SequenceTheorems

\* With a member, S contains those that wait for it.
Closed(members, waits, S) ==
    S \subseteq members /\ \A c \in S, d \in members : waits[d] = c => d \in S

\* Everybody is followed by others up to the last, and nobody by two.
Line(members, waits, rear) ==
    /\ \A S \in SUBSET members : S # {} /\ Closed(members, waits, S) => rear \in S
    /\ \A S, T \in SUBSET members :
          Closed(members, waits, S) /\ Closed(members, waits, T) => S \subseteq T \/ T \subseteq S

\* The calls without a timeout that own the lock of this process or want to.
Queue == {c \in Calls \ Hasty : parent[c] = None /\ phase[c] \notin {"unmade", "done"}}

Children(p) == {c \in Calls : parent[c] = p}

Types ==
    /\ phase \in [Calls -> Phases]
    /\ parent \in [Calls -> Calls \cup {None}]
    /\ previous \in [Calls -> Calls \cup {None}]
    /\ tail \in Calls \cup {None}
    /\ children \in [Calls -> Calls \cup {None}]
    /\ pending \in [Calls -> Calls \cup {None}]
    /\ awaited \subseteq Calls
    /\ holder \in Calls \cup {Other, None}

\* What a call is before it is made, and where nested and other calls never are.
Stages ==
    /\ \A c \in Calls : phase[c] = "unmade" =>
          parent[c] = None /\ previous[c] = None /\ children[c] = None
    /\ \A c \in Calls : parent[c] # None =>
          /\ phase[c] \notin {"queued", "acquiring", "releasing"}
          /\ phase[parent[c]] \notin {"unmade", "queued", "acquiring", "turn"}
    /\ \A c \in Calls : phase[c] = "turn" => parent[c] # None

\* No circle of scopes inside each other.
Rooted == \A S \in SUBSET Calls : S # {} => \E c \in S : parent[c] \notin S

\* So what is defined along the scopes around a call is defined.
Defined ==
    /\ \E up : up = [f \in Calls |-> IF parent[f] = None THEN f ELSE up[parent[f]]]
    /\ \E up : up = [f \in Calls |-> IF parent[f] = None THEN {}
                                     ELSE {parent[f]} \cup up[parent[f]]]
    /\ \A A \in SUBSET Calls : \E up :
          up = [f \in Calls \cup {None} |-> IF f = None \/ f \in A THEN f ELSE up[parent[f]]]

\* A call goes on only when the one before it is done.
Turns ==
    \A c \in Calls : phase[c] \notin {"queued", "turn"} =>
        previous[c] = None \/ phase[previous[c]] = "done"

Lines ==
    /\ Line(Queue, previous, tail)
    /\ tail # None => tail \in Queue
    /\ \A p \in Calls : Line(Children(p), previous, children[p])

\* A scope is active until its children are done.
LiveParents ==
    \A c \in Calls : parent[c] # None /\ phase[c] # "done" => Active(parent[c])

\* A call that is not nested has the lock from its acquisition to its release.
Holds ==
    \A c \in Calls :
        parent[c] = None /\ phase[c] \in {"running", "draining", "closed", "releasing"} => holder = c

IInv == Types /\ Stages /\ Rooted /\ Defined /\ Turns /\ Lines /\ LiveParents /\ Holds

-----------------------------------------------------------------------------
(* Lines *)

\* Nobody waits in an empty line.
LEMMA EmptyLine == \A waits, rear : Line({}, waits, rear)
  BY DEF Line, Closed

\* A line is a matter of whom its members wait for.
LEMMA SameLine ==
    ASSUME NEW members, NEW waits, NEW waits2, NEW rear, Line(members, waits, rear),
           \A d \in members : waits2[d] = waits[d]
    PROVE  Line(members, waits2, rear)
<1>1. \A S : Closed(members, waits2, S) <=> Closed(members, waits, S)
  BY DEF Closed
<1> QED BY <1>1, Zenon DEF Line

\* Who joins a line waits for the last one and is the last one then.
LEMMA Joins ==
    ASSUME NEW members, NEW waits, NEW waits2, NEW rear, Line(members, waits, rear),
           NEW c, c \notin members, waits2[c] = rear,
           \A d \in members : waits2[d] = waits[d]
    PROVE  Line(members \cup {c}, waits2, c)
<1> DEFINE more == members \cup {c}
<1>1. ASSUME NEW S \in SUBSET more, Closed(more, waits2, S)
      PROVE  /\ S \ {c} \in SUBSET members /\ Closed(members, waits, S \ {c})
             /\ S # {} => c \in S
  <2>1. S \ {c} \in SUBSET members /\ Closed(members, waits, S \ {c})
    BY <1>1 DEF Closed
  <2>2. ASSUME S # {}, c \notin S PROVE FALSE
    <3>1. rear \in S
      BY <2>1, <2>2 DEF Line
    <3> QED BY <1>1, <2>2, <3>1 DEF Closed
  <2> QED BY <2>1, <2>2
<1>2. ASSUME NEW S \in SUBSET more, NEW T \in SUBSET more,
             Closed(more, waits2, S), Closed(more, waits2, T)
      PROVE  S \subseteq T \/ T \subseteq S
  <2>1. S \ {c} \subseteq T \ {c} \/ T \ {c} \subseteq S \ {c}
    BY <1>1, <1>2 DEF Line
  <2>2. (S # {} => c \in S) /\ (T # {} => c \in T)
    BY <1>1, <1>2
  <2> QED BY <2>1, <2>2
<1> HIDE DEF more
<1>3. Line(more, waits2, c)
  BY <1>1, <1>2 DEF Line
<1> QED BY <1>3 DEF more

\* Who waits for nobody in a line may leave it.
LEMMA Leaves ==
    ASSUME NEW members, NEW waits, NEW rear, Line(members, waits, rear),
           NEW c \in members, waits[c] \notin members, NEW none
    PROVE  Line(members \ {c}, waits, IF rear = c THEN none ELSE rear)
<1> DEFINE fewer == members \ {c}
<1>1. ASSUME NEW S \in SUBSET fewer, Closed(fewer, waits, S)
      PROVE  S \in SUBSET members /\ Closed(members, waits, S) /\ c \notin S
  BY <1>1 DEF Closed
<1>2. ASSUME NEW S \in SUBSET fewer, Closed(fewer, waits, S), S # {}
      PROVE  (IF rear = c THEN none ELSE rear) \in S
  BY <1>1, <1>2 DEF Line
<1>3. ASSUME NEW S \in SUBSET fewer, NEW T \in SUBSET fewer,
             Closed(fewer, waits, S), Closed(fewer, waits, T)
      PROVE  S \subseteq T \/ T \subseteq S
  BY <1>1, <1>3 DEF Line
<1> HIDE DEF fewer
<1>4. Line(fewer, waits, IF rear = c THEN none ELSE rear)
  BY <1>2, <1>3 DEF Line
<1> QED BY <1>4 DEF fewer

\* When whoever waits for one that is not done waits still, at most one is served, and the last
\* one is done last.
LEMMA OneServed ==
    ASSUME NEW members, NEW waits, NEW rear, Line(members, waits, rear),
           NEW undone \in SUBSET members, NEW waiting \in SUBSET undone,
           \A d \in members : waits[d] \in undone => d \in waiting
    PROVE  /\ \A c, d \in undone \ waiting : c = d
           /\ undone # {} => rear \in undone
<1>1. undone # {} => rear \in undone
  <2>1. Closed(members, waits, undone)
    BY DEF Closed
  <2> QED BY <2>1 DEF Line
<1>2. ASSUME NEW c \in undone \ waiting PROVE Closed(members, waits, waiting \cup {c})
  BY DEF Closed
<1>3. ASSUME NEW c \in undone \ waiting, NEW d \in undone \ waiting PROVE c = d
  <2>1. waiting \cup {c} \in SUBSET members /\ waiting \cup {d} \in SUBSET members
    OBVIOUS
  <2>2. waiting \cup {c} \subseteq waiting \cup {d} \/ waiting \cup {d} \subseteq waiting \cup {c}
    BY <1>2, <2>1 DEF Line
  <2> QED BY <2>2
<1> QED BY <1>1, <1>3

-----------------------------------------------------------------------------
(* Scopes around a call *)

\* What holds of the roots, and of every call if of the scope around it, holds of all calls.
LEMMA AlongScopes ==
    ASSUME Types, Rooted, NEW Good,
           \A c \in Calls : parent[c] = None \/ parent[c] \in Good => c \in Good
    PROVE  Calls \subseteq Good
<1> SUFFICES ASSUME Calls \ Good # {} PROVE FALSE
  OBVIOUS
<1>1. PICK c \in Calls \ Good : parent[c] \notin Calls \ Good
  BY DEF Rooted
<1> QED BY <1>1 DEF Types

\* The owner of a call without a parent is itself, of any other that of its parent.
LEMMA OwnerIs ==
    ASSUME Types, Defined, NEW c \in Calls
    PROVE  Owner(c) = IF parent[c] = None THEN c ELSE Owner(parent[c])
<1> DEFINE Up(up) == up = [f \in Calls |-> IF parent[f] = None THEN f ELSE up[parent[f]]]
           owner == CHOOSE up : Up(up)
<1>1. Up(owner)
  <2>1. \E up : Up(up)
    BY DEF Defined
  <2> QED BY <2>1, Zenon
<1>2. \A d \in Calls : Owner(d) = owner[d]
  BY DEF Owner
<1> HIDE DEF owner
<1> QED BY <1>1, <1>2 DEF Types

\* Above a call are its parent and what is above it.
LEMMA AboveIs ==
    ASSUME Types, Defined, NEW c \in Calls
    PROVE  Above(c) = IF parent[c] = None THEN {} ELSE {parent[c]} \cup Above(parent[c])
<1> DEFINE Up(up) == up = [f \in Calls |-> IF parent[f] = None THEN {}
                                           ELSE {parent[f]} \cup up[parent[f]]]
           above == CHOOSE up : Up(up)
<1>1. Up(above)
  <2>1. \E up : Up(up)
    BY DEF Defined
  <2> QED BY <2>1, Zenon
<1>2. \A d \in Calls : Above(d) = above[d]
  BY DEF Above
<1> HIDE DEF above
<1> QED BY <1>1, <1>2 DEF Types

\* A call joins an active scope or none.
LEMMA InnermostIs ==
    ASSUME Types, Rooted, Defined, NEW c \in Calls
    PROVE  Innermost(c) = None \/ (Innermost(c) \in Calls /\ Active(Innermost(c)))
<1> DEFINE actives == {f \in Calls : Active(f)}
           Up(up) == up = [f \in Calls \cup {None} |-> IF f = None \/ Active(f) THEN f
                                                       ELSE up[parent[f]]]
           active == CHOOSE up : Up(up)
<1>1. Up(active)
  <2>a. \A A \in SUBSET Calls : \E up :
          up = [f \in Calls \cup {None} |-> IF f = None \/ f \in A THEN f ELSE up[parent[f]]]
    BY DEF Defined
  <2>b. actives \in SUBSET Calls
    OBVIOUS
  <2>1. PICK up : up = [f \in Calls \cup {None} |-> IF f = None \/ f \in actives THEN f
                                                    ELSE up[parent[f]]]
    <3> HIDE DEF actives, Up
    <3> QED BY <2>a, <2>b, Zenon
  <2>2. \A f \in Calls \cup {None} :
            (IF f = None \/ f \in actives THEN f ELSE up[parent[f]])
            = IF f = None \/ Active(f) THEN f ELSE up[parent[f]]
    OBVIOUS
  <2>3. Up(up)
    BY <2>1, <2>2
  <2> QED BY <2>3, Zenon
<1>2. Innermost(c) = active[Within[c]]
  BY DEF Innermost
<1> HIDE DEF active
<1>3. \A f \in Calls \cup {None} : active[f] = IF f = None \/ Active(f) THEN f ELSE active[parent[f]]
  BY <1>1
<1> DEFINE Good == {f \in Calls : active[f] = None \/ active[f] \in actives}
<1>4. \A f \in Calls : parent[f] = None \/ parent[f] \in Good => f \in Good
  BY <1>3 DEF Types
<1>5. Calls \subseteq Good
  <2> HIDE DEF Good
  <2> QED BY <1>4, AlongScopes
<1>6. Within[c] \in Calls \cup {None}
  BY ScopeConstants
<1>7. active[Within[c]] = None \/ active[Within[c]] \in actives
  BY <1>3, <1>5, <1>6
<1> QED BY <1>2, <1>7

\* A call and the scopes around it.
Around(c) == {c} \cup Above(c)

\* The scopes around a call lead up to its owner; they are active if it is.
LeadsUp(c) ==
    /\ Owner(c) \in Around(c) /\ Around(c) \subseteq Calls /\ parent[Owner(c)] = None
    /\ Active(c) => \A f \in Around(c) : Active(f)
    /\ \A f \in Around(c) : IF parent[f] = None THEN f = Owner(c) ELSE parent[f] \in Above(c)
    /\ \A f \in Above(c) : \E g \in Around(c) : parent[g] = f

LEMMA AroundACall == ASSUME IInv PROVE \A c \in Calls : LeadsUp(c)
<1> DEFINE Good == {c \in Calls : LeadsUp(c)}
<1>1. ASSUME NEW c \in Calls, parent[c] = None PROVE LeadsUp(c)
  <2>1. Owner(c) = c /\ Above(c) = {}
    BY <1>1, OwnerIs, AboveIs DEF IInv
  <2> QED BY <1>1, <2>1 DEF LeadsUp, Around
<1>2. ASSUME NEW c \in Calls, parent[c] # None, LeadsUp(parent[c]) PROVE LeadsUp(c)
  <2>1. parent[c] \in Calls
    BY <1>2 DEF IInv, Types
  <2>2. Owner(c) = Owner(parent[c]) /\ Above(c) = Around(parent[c])
    BY <1>2, OwnerIs, AboveIs DEF IInv, Around
  <2>3. Active(c) => Active(parent[c])
    BY <1>2 DEF IInv, LiveParents, Active
  <2>4. /\ Owner(c) \in Above(c) /\ Above(c) \subseteq Calls /\ parent[Owner(c)] = None
        /\ Active(c) => \A f \in Above(c) : Active(f)
        /\ \A f \in Above(c) : IF parent[f] = None THEN f = Owner(c) ELSE parent[f] \in Above(c)
        /\ \A f \in Above(c) : f = parent[c] \/ \E g \in Above(c) : parent[g] = f
    <3>1. /\ Owner(c) \in Above(c) /\ Above(c) \subseteq Calls /\ parent[Owner(c)] = None
          /\ Active(c) => \A f \in Above(c) : Active(f)
      BY <1>2, <2>2, <2>3 DEF LeadsUp
    <3>2. \A f \in Above(c) : IF parent[f] = None THEN f = Owner(c) ELSE parent[f] \in Above(c)
      BY <1>2, <2>2 DEF LeadsUp, Around
    <3>3. \A f \in Above(c) : f = parent[c] \/ \E g \in Above(c) : parent[g] = f
      BY <1>2, <2>2 DEF LeadsUp, Around
    <3> QED BY <3>1, <3>2, <3>3
  <2>5. parent[c] \in Above(c)
    BY <2>2 DEF Around
  <2> QED BY <1>2, <2>4, <2>5 DEF LeadsUp, Around
<1>3. \A c \in Calls : parent[c] = None \/ parent[c] \in Good => c \in Good
  BY <1>1, <1>2
<1>4. Calls \subseteq Good
  <2> HIDE DEF Good
  <2> QED BY <1>3, AlongScopes DEF IInv
<1> QED BY <1>4

\* Of the children of a scope one runs at a time, and the last one is done last.
LEMMA ChildrenInTurn ==
    ASSUME IInv, NEW p \in Calls
    PROVE  /\ \A c, d \in Children(p) : phase[c] \notin {"turn", "done"}
                                        /\ phase[d] \notin {"turn", "done"} => c = d
           /\ (\E c \in Children(p) : phase[c] # "done") =>
                  children[p] # None /\ phase[children[p]] # "done"
<1> DEFINE undone == {c \in Children(p) : phase[c] # "done"}
           waiting == {c \in Children(p) : phase[c] = "turn"}
<1>1. \A d \in Children(p) : d \in Calls /\ parent[d] # None
  BY ScopeConstants DEF Children
<1>2. \A d \in Children(p) : previous[d] \in undone => d \in waiting
  <2> TAKE d \in Children(p)
  <2> HAVE previous[d] \in undone
  <2>1. previous[d] # None /\ phase[previous[d]] # "done"
    BY ScopeConstants DEF Children
  <2>2. phase[d] \in {"queued", "turn"}
    BY <1>1, <2>1 DEF IInv, Turns
  <2> QED BY <1>1, <2>2 DEF IInv, Stages
<1>3. Line(Children(p), previous, children[p])
  BY DEF IInv, Lines
<1>4. waiting \in SUBSET undone /\ undone \in SUBSET Children(p)
  OBVIOUS
<1>5. /\ \A c, d \in undone \ waiting : c = d
      /\ undone # {} => children[p] \in undone
  <2> HIDE DEF undone, waiting
  <2> QED BY <1>2, <1>3, <1>4, OneServed
<1> QED BY <1>5, ScopeConstants DEF Children

\* The property follows from the invariant.
LEMMA NestingFollows == ASSUME IInv PROVE NestingSound
<1>1. ASSUME NEW c \in Calls, Active(c) PROVE holder = Owner(c)
  <2>1. Owner(c) \in Calls /\ Active(Owner(c)) /\ parent[Owner(c)] = None
    BY <1>1, AroundACall DEF LeadsUp
  <2> QED BY <2>1 DEF IInv, Holds, Active
<1>2. ASSUME NEW c \in Calls, NEW d \in Calls, Active(c), Active(d),
             c # d, c \notin Above(d), d \notin Above(c)
      PROVE  FALSE
  <2>1. LeadsUp(c) /\ LeadsUp(d) /\ Owner(c) = Owner(d)
    BY <1>1, <1>2, AroundACall
  <2>2. c \in Around(c) \ Around(d) /\ Around(c) \ Around(d) \in SUBSET Calls
    BY <1>2, <2>1 DEF LeadsUp, Around
  <2>3. PICK f \in Around(c) \ Around(d) : parent[f] \notin Around(c) \ Around(d)
    BY <2>2 DEF IInv, Rooted
  <2>4. parent[f] # None
    BY <2>1, <2>3 DEF LeadsUp
  <2>5. parent[f] \in Above(c) /\ parent[f] \in Around(d)
    BY <2>1, <2>3, <2>4 DEF LeadsUp, Around
  <2>6. parent[f] \in Above(d)
    BY <1>2, <2>5 DEF Around
  <2>7. PICK g \in Around(d) : parent[g] = parent[f]
    BY <2>1, <2>6 DEF LeadsUp
  <2>8. f \in Calls /\ g \in Calls /\ Active(f) /\ Active(g)
    BY <1>2, <2>1, <2>3, <2>7 DEF LeadsUp
  <2>9. parent[f] \in Calls /\ f \in Children(parent[f]) /\ g \in Children(parent[f])
    BY <2>4, <2>7, <2>8 DEF IInv, Types, Children
  <2>10. f = g
    BY <2>8, <2>9, ChildrenInTurn DEF Active
  <2> QED BY <2>3, <2>7, <2>10
<1>3. ASSUME NEW c \in Calls \ Hasty, NEW d \in Calls \ Hasty,
             {parent[c], parent[d]} = {None},
             {phase[c], phase[d]} \cap {"unmade", "queued", "done"} = {}
      PROVE  c = d
  <2> DEFINE waiting == {e \in Queue : phase[e] = "queued"}
  <2>1. c \in Queue \ waiting /\ d \in Queue \ waiting
    BY <1>3 DEF Queue
  <2>2. \A e \in Queue : previous[e] \in Queue => e \in waiting
    <3> TAKE e \in Queue
    <3> HAVE previous[e] \in Queue
    <3>1. e \in Calls /\ parent[e] = None /\ previous[e] # None /\ phase[previous[e]] # "done"
      BY ScopeConstants DEF Queue
    <3>2. phase[e] \in {"queued", "turn"} /\ phase[e] # "turn"
      BY <3>1 DEF IInv, Turns, Stages
    <3> QED BY <3>2
  <2>3. Line(Queue, previous, tail) /\ waiting \in SUBSET Queue
    BY DEF IInv, Lines
  <2> HIDE DEF waiting
  <2> QED BY <2>1, <2>2, <2>3, OneServed
<1> QED BY <1>1, <1>2, <1>3, Zenon DEF NestingSound

-----------------------------------------------------------------------------
(* Steps *)

\* Before any call is made, nobody waits and nothing is around anything.
LEMMA ScopesStart == ASSUME Init PROVE IInv
<1>1. Types
  BY DEF Init, Types, Phases
<1>2. Stages /\ Turns /\ LiveParents /\ Holds
  BY DEF Init, Stages, Turns, LiveParents, Holds
<1>3. Rooted
  BY ScopeConstants DEF Init, Rooted
<1>4. Defined
  <2>1. \A c \in Calls : parent[c] = None
    BY DEF Init
  <2>2. [f \in Calls |-> f] = [f \in Calls |-> IF parent[f] = None THEN f ELSE [e \in Calls |-> e][parent[f]]]
    BY <2>1
  <2>3. [f \in Calls |-> {}] = [f \in Calls |-> IF parent[f] = None THEN {}
                                 ELSE {parent[f]} \cup [e \in Calls |-> {}][parent[f]]]
    BY <2>1
  <2>4. ASSUME NEW A \in SUBSET Calls
        PROVE  \E up : up = [f \in Calls \cup {None} |-> IF f = None \/ f \in A THEN f ELSE up[parent[f]]]
    <3> DEFINE up == [f \in Calls \cup {None} |-> IF f = None \/ f \in A THEN f ELSE None]
    <3>1. \A f \in Calls \cup {None} :
            up[f] = IF f = None \/ f \in A THEN f ELSE up[parent[f]]
      BY <2>1
    <3>2. up = [f \in Calls \cup {None} |-> IF f = None \/ f \in A THEN f ELSE up[parent[f]]]
      BY <3>1
    <3> HIDE DEF up
    <3> QED BY <3>2
  <2> QED BY <2>2, <2>3, <2>4 DEF Defined
<1>5. Lines
  <2>1. Queue = {} /\ \A p \in Calls : Children(p) = {}
    BY ScopeConstants DEF Init, Queue, Children
  <2>2. tail = None
    BY DEF Init
  <2> QED BY <2>1, <2>2, EmptyLine DEF Lines
<1> QED BY <1>1, <1>2, <1>3, <1>4, <1>5 DEF IInv

\* The ways in which calls go on.
Goes(c, from, to) == phase[c] = from /\ phase' = [phase EXCEPT ![c] = to]

Nested(c, p) ==
    /\ Goes(c, "unmade", "turn") /\ Active(p) /\ c # p
    /\ parent' = [parent EXCEPT ![c] = p]
    /\ previous' = [previous EXCEPT ![c] = children[p]]
    /\ children' = [children EXCEPT ![p] = c]
    /\ UNCHANGED <<tail, holder>>

Queued(c) ==
    /\ Goes(c, "unmade", "queued") /\ c \notin Hasty
    /\ previous' = [previous EXCEPT ![c] = tail] /\ tail' = c
    /\ UNCHANGED <<parent, children, holder>>

Done(c) == c = None \/ phase[c] = "done"

Moved(c) ==
    /\ UNCHANGED <<parent, previous, children, tail>>
    /\ \/ Goes(c, "unmade", "acquiring") /\ c \in Hasty /\ UNCHANGED holder
       \/ Goes(c, "queued", "acquiring") /\ Done(previous[c]) /\ UNCHANGED holder
       \/ Goes(c, "turn", "running") /\ Done(previous[c]) /\ UNCHANGED holder
       \/ Goes(c, "acquiring", "running") /\ holder = None /\ holder' = c
       \/ Goes(c, "running", "draining") /\ UNCHANGED holder
       \/ Goes(c, "draining", "closed") /\ Done(children[c]) /\ UNCHANGED holder
       \/ Goes(c, "closed", "done") /\ parent[c] # None /\ UNCHANGED holder
       \/ Goes(c, "closed", "releasing") /\ parent[c] = None /\ UNCHANGED holder

Left(c) ==
    /\ UNCHANGED <<parent, previous, children>>
    /\ tail' = IF tail = c THEN None ELSE tail
    /\ \/ Goes(c, "acquiring", "done") /\ UNCHANGED holder
       \/ Goes(c, "releasing", "done") /\ holder' = None

Rests ==
    /\ UNCHANGED <<phase, parent, previous, children, tail>>
    /\ holder' # holder => holder \in {None, Other}

\* Every step is one of them.
LEMMA StepKinds ==
    ASSUME IInv, [Next]_vars
    PROVE  \/ \E c, p \in Calls : Nested(c, p)
           \/ \E c \in Calls : Queued(c) \/ Moved(c) \/ Left(c)
           \/ Rests
<1>a. \A c \in {None} \cup Calls : Settled(c) => Done(c)
  BY DEF Settled, Done
<1>b. Types
  BY DEF IInv
<1>1. ASSUME NEW c \in Calls, EnqueueChild(c) PROVE \E p \in Calls : Nested(c, p)
  <2> DEFINE p == Innermost(c)
  <2>1. p \in Calls /\ Active(p)
    BY <1>1, InnermostIs DEF EnqueueChild, Nests, IInv
  <2> HIDE DEF p
  <2>2. /\ phase[c] = "unmade" /\ phase' = [phase EXCEPT ![c] = "turn"]
        /\ parent' = [parent EXCEPT ![c] = p]
        /\ previous' = [previous EXCEPT ![c] = children[p]]
        /\ children' = [children EXCEPT ![p] = c]
        /\ UNCHANGED <<tail, holder>>
    BY <1>1 DEF EnqueueChild, Make, Goto, p
  <2>3. c # p
    BY <2>1, <2>2 DEF Active
  <2>4. Nested(c, p)
    BY <2>1, <2>2, <2>3 DEF Nested, Goes
  <2> QED BY <2>1, <2>4
<1>2. ASSUME NEW c \in Calls, Enqueue(c) PROVE Queued(c)
  BY <1>2 DEF Enqueue, Make, Goto, Queued, Goes
<1>3. ASSUME NEW c \in Calls, SkipQueue(c) PROVE Moved(c)
  BY <1>3 DEF SkipQueue, Make, Goto, Moved, Goes
<1>4. ASSUME NEW c \in Calls, Proceed(c) PROVE Moved(c)
  <2>1. Done(previous[c])
    BY <1>4, <1>a, <1>b DEF Proceed, Types
  <2> QED BY <1>4, <2>1 DEF Proceed, Goto, Moved, Goes
<1>5. ASSUME NEW c \in Calls, Acquire(c) PROVE Moved(c)
  BY <1>5 DEF Acquire, Goto, Moved, Goes
<1>6. ASSUME NEW c \in Calls, Refuse(c) \/ Release(c) PROVE Left(c)
  BY <1>6 DEF Refuse, Release, LeaveQueue, Goto, Left, Goes
<1>7. ASSUME NEW c \in Calls, Return(c) PROVE Moved(c)
  BY <1>7 DEF Return, Goto, Moved, Goes
<1>8. ASSUME NEW c \in Calls, Drain(c) PROVE Moved(c) \/ Rests
  <2>1. pending[c] = children[c] => Done(children[c])
    BY <1>8, <1>a, <1>b DEF Drain, Types
  <2> QED BY <1>8, <2>1 DEF Drain, Goto, Moved, Goes, Rests
<1>9. ASSUME NEW c \in Calls, EndChild(c) \/ EndLease(c) PROVE Moved(c)
  BY <1>9 DEF EndChild, EndLease, Goto, Moved, Goes
<1>10. ASSUME OtherProcess \/ UNCHANGED vars PROVE Rests
  BY <1>10 DEF OtherProcess, vars, Rests
<1> QED BY <1>1, <1>2, <1>3, <1>4, <1>5, <1>6, <1>7, <1>8, <1>9, <1>10, Zenon DEF Next, Step

\* Types are kept.
LEMMA TypesStep == ASSUME IInv, [Next]_vars PROVE Types'
<1> USE DEF Phases
<1>a. Types
  BY DEF IInv
<1>1. ASSUME NEW c \in Calls, EnqueueChild(c) PROVE Types'
  <2>1. Innermost(c) \in Calls
    BY <1>1, InnermostIs DEF EnqueueChild, Nests, IInv
  <2> QED BY <1>1, <1>a, <2>1 DEF EnqueueChild, Make, Goto, Types
<1>2. ASSUME NEW c \in Calls, Enqueue(c) \/ SkipQueue(c) PROVE Types'
  BY <1>2, <1>a DEF Enqueue, SkipQueue, Make, Goto, Types
<1>3. ASSUME NEW c \in Calls, Proceed(c) \/ Acquire(c) \/ Refuse(c) PROVE Types'
  BY <1>3, <1>a DEF Proceed, Acquire, Refuse, LeaveQueue, Goto, Types
<1>4. ASSUME NEW c \in Calls, Return(c) \/ Drain(c) PROVE Types'
  BY <1>4, <1>a DEF Return, Drain, Goto, Types
<1>5. ASSUME NEW c \in Calls, EndChild(c) \/ EndLease(c) \/ Release(c) PROVE Types'
  BY <1>5, <1>a DEF EndChild, EndLease, Release, LeaveQueue, Goto, Types
<1>6. ASSUME OtherProcess \/ UNCHANGED vars PROVE Types'
  BY <1>6, <1>a DEF OtherProcess, vars, Types
<1> QED BY <1>1, <1>2, <1>3, <1>4, <1>5, <1>6 DEF Next, Step

\* The scopes around calls stay free of circles, and what is defined along them stays defined.
LEMMA ScopesStep == ASSUME IInv, [Next]_vars PROVE Rooted' /\ Defined'
<1>a. Types /\ Rooted /\ Defined
  BY DEF IInv
<1>1. CASE UNCHANGED parent
  BY <1>1, <1>a DEF Rooted, Defined
<1>2. ASSUME NEW c \in Calls, NEW p \in Calls, Nested(c, p) PROVE Rooted' /\ Defined'
  <2>1. /\ parent' = [parent EXCEPT ![c] = p] /\ p # c /\ p # None
        /\ parent[c] = None /\ \A d \in Calls : parent[d] # c
    BY <1>2, ScopeConstants DEF Nested, Goes, IInv, Stages
  <2>2. \A d \in Calls : parent'[d] = IF d = c THEN p ELSE parent[d]
    BY <1>a, <2>1 DEF Types
  <2>3. Rooted'
    <3> SUFFICES ASSUME NEW S \in SUBSET Calls, S # {} PROVE \E d \in S : parent'[d] \notin S
      BY DEF Rooted
    <3>1. CASE S \subseteq {c}
      BY <2>1, <2>2, <3>1
    <3>2. CASE S \ {c} # {}
      <4>1. PICK d \in S \ {c} : parent[d] \notin S \ {c}
        BY <1>a, <3>2 DEF Rooted
      <4> QED BY <2>1, <2>2, <4>1
    <3> QED BY <3>1, <3>2
  <2>4. \E up : up = [f \in Calls |-> IF parent'[f] = None THEN f ELSE up[parent'[f]]]
    <3>1. PICK up : up = [f \in Calls |-> IF parent[f] = None THEN f ELSE up[parent[f]]]
      BY <1>a DEF Defined
    <3> DEFINE more == [f \in Calls |-> IF f = c THEN up[p] ELSE up[f]]
    <3>2. \A f \in Calls : more[f] = IF parent'[f] = None THEN f ELSE more[parent'[f]]
      BY <1>a, <2>1, <2>2, <3>1 DEF Types
    <3>3. more = [f \in Calls |-> IF parent'[f] = None THEN f ELSE more[parent'[f]]]
      BY <3>2
    <3> HIDE DEF more
    <3> QED BY <3>3
  <2>5. \E up : up = [f \in Calls |-> IF parent'[f] = None THEN {}
                                      ELSE {parent'[f]} \cup up[parent'[f]]]
    <3>1. PICK up : up = [f \in Calls |-> IF parent[f] = None THEN {}
                                          ELSE {parent[f]} \cup up[parent[f]]]
      BY <1>a DEF Defined
    <3> DEFINE more == [f \in Calls |-> IF f = c THEN {p} \cup up[p] ELSE up[f]]
    <3>2. \A f \in Calls : more[f] = IF parent'[f] = None THEN {}
                                     ELSE {parent'[f]} \cup more[parent'[f]]
      BY <1>a, <2>1, <2>2, <3>1 DEF Types
    <3>3. more = [f \in Calls |-> IF parent'[f] = None THEN {}
                                  ELSE {parent'[f]} \cup more[parent'[f]]]
      BY <3>2
    <3> HIDE DEF more
    <3> QED BY <3>3
  <2>6. ASSUME NEW A \in SUBSET Calls
        PROVE  \E up : up = [f \in Calls \cup {None} |->
                                IF f = None \/ f \in A THEN f ELSE up[parent'[f]]]
    <3>1. PICK up : up = [f \in Calls \cup {None} |->
                             IF f = None \/ f \in A THEN f ELSE up[parent[f]]]
      BY <1>a DEF Defined
    <3> DEFINE more == [f \in Calls \cup {None} |-> IF f = c THEN IF c \in A THEN c ELSE up[p]
                                                    ELSE up[f]]
    <3>2. \A f \in Calls \cup {None} :
            more[f] = IF f = None \/ f \in A THEN f ELSE more[parent'[f]]
      <4>1. \A f \in Calls : parent[f] \in Calls \cup {None} /\ parent[f] # c
        BY <1>a, <2>1 DEF Types
      <4>2. c # None /\ p \in Calls \cup {None} /\ p # c
        BY <2>1, ScopeConstants
      <4>3. more[None] = None
        BY <3>1, <4>2
      <4>4. more[c] = IF c = None \/ c \in A THEN c ELSE more[parent'[c]]
        BY <2>2, <4>2
      <4>5. ASSUME NEW f \in Calls, f # c
            PROVE  more[f] = IF f = None \/ f \in A THEN f ELSE more[parent'[f]]
        <5>1. more[f] = IF f = None \/ f \in A THEN f ELSE up[parent[f]]
          BY <3>1, <4>5
        <5>2. more[parent'[f]] = up[parent[f]]
          BY <2>2, <4>1, <4>5
        <5> QED BY <5>1, <5>2
      <4> QED BY <4>3, <4>4, <4>5
    <3>3. more = [f \in Calls \cup {None} |->
                     IF f = None \/ f \in A THEN f ELSE more[parent'[f]]]
      BY <3>2
    <3> HIDE DEF more
    <3> QED BY <3>3
  <2> QED BY <2>3, <2>4, <2>5, <2>6 DEF Defined
<1> QED BY <1>1, <1>2, StepKinds DEF Queued, Moved, Left, Rests

\* Calls go through their stages, each in its turn.
LEMMA StagesStep == ASSUME IInv, [Next]_vars PROVE Stages' /\ Turns'
<1>a. Types /\ Stages /\ Turns
  BY DEF IInv
<1> USE ScopeConstants
<1>1. ASSUME NEW c \in Calls, NEW p \in Calls, Nested(c, p) PROVE Stages' /\ Turns'
  <2>1. \A d \in Calls : /\ phase'[d] = IF d = c THEN "turn" ELSE phase[d]
                         /\ parent'[d] = IF d = c THEN p ELSE parent[d]
                         /\ previous'[d] = IF d = c THEN children[p] ELSE previous[d]
                         /\ children'[d] = IF d = p THEN c ELSE children[d]
    BY <1>1, <1>a DEF Nested, Goes, Types
  <2>2. phase[c] = "unmade" /\ p # c /\ phase[p] \in {"running", "draining"}
    BY <1>1 DEF Nested, Goes, Active
  <2>3. Stages'
    BY <1>a, <2>1, <2>2 DEF Stages, Types
  <2>4. Turns'
    BY <1>a, <2>1, <2>2 DEF Turns, Types
  <2> QED BY <2>3, <2>4
<1>2. ASSUME NEW c \in Calls, Queued(c) PROVE Stages' /\ Turns'
  <2>1. \A d \in Calls : /\ phase'[d] = IF d = c THEN "queued" ELSE phase[d]
                         /\ previous'[d] = IF d = c THEN tail ELSE previous[d]
    BY <1>2, <1>a DEF Queued, Goes, Types
  <2>2. phase[c] = "unmade" /\ UNCHANGED <<parent, children>>
    BY <1>2 DEF Queued, Goes
  <2>3. Stages'
    BY <1>a, <2>1, <2>2 DEF Stages, Types
  <2>4. Turns'
    BY <1>a, <2>1, <2>2 DEF Turns, Types
  <2> QED BY <2>3, <2>4
<1>3. ASSUME NEW c \in Calls, Moved(c) PROVE Stages' /\ Turns'
  <2>1. UNCHANGED <<parent, previous, children>>
    BY <1>3 DEF Moved
  <2>2. PICK to \in {"acquiring", "running", "draining", "closed", "done", "releasing"} :
          /\ \A d \in Calls : phase'[d] = IF d = c THEN to ELSE phase[d]
          /\ phase[c] \notin {"done"}
          /\ to \in {"acquiring", "releasing"} => parent[c] = None
          /\ to = "acquiring" => phase[c] \in {"unmade", "queued"}
          /\ phase[c] \in {"queued", "turn"} => Done(previous[c])
    BY <1>3, <1>a DEF Moved, Goes, Types, Stages
  <2>3. Stages'
    BY <1>a, <2>1, <2>2 DEF Stages, Types
  <2>4. Turns'
    BY <1>a, <2>1, <2>2 DEF Turns, Types, Done
  <2> QED BY <2>3, <2>4
<1>4. ASSUME NEW c \in Calls, Left(c) PROVE Stages' /\ Turns'
  <2>1. UNCHANGED <<parent, previous, children>>
    BY <1>4 DEF Left
  <2>2. /\ \A d \in Calls : phase'[d] = IF d = c THEN "done" ELSE phase[d]
        /\ phase[c] \in {"acquiring", "releasing"}
    BY <1>4, <1>a DEF Left, Goes, Types
  <2>3. Stages'
    BY <1>a, <2>1, <2>2 DEF Stages, Types
  <2>4. Turns'
    BY <1>a, <2>1, <2>2 DEF Turns, Types
  <2> QED BY <2>3, <2>4
<1>5. CASE Rests
  BY <1>5, <1>a DEF Rests, Stages, Turns
<1> QED BY <1>1, <1>2, <1>3, <1>4, <1>5, StepKinds

\* Lines stay lines.
LEMMA LinesStep == ASSUME IInv, [Next]_vars PROVE Lines'
<1>a. Types /\ Stages /\ Turns /\ Lines
  BY DEF IInv
<1> USE ScopeConstants
<1>1. ASSUME NEW c \in Calls, NEW p \in Calls, Nested(c, p) PROVE Lines'
  <2>1. \A d \in Calls : /\ phase'[d] = IF d = c THEN "turn" ELSE phase[d]
                         /\ parent'[d] = IF d = c THEN p ELSE parent[d]
                         /\ previous'[d] = IF d = c THEN children[p] ELSE previous[d]
                         /\ children'[d] = IF d = p THEN c ELSE children[d]
    BY <1>1, <1>a DEF Nested, Goes, Types
  <2>2. phase[c] = "unmade" /\ parent[c] = None /\ p # None /\ UNCHANGED tail
    BY <1>1, <1>a DEF Nested, Goes, Stages
  <2>3. Queue' = Queue /\ c \notin Queue /\ Queue \subseteq Calls
    BY <2>1, <2>2 DEF Queue
  <2>4. Line(Queue, previous', tail)
    <3>1. Line(Queue, previous, tail) /\ \A d \in Queue : previous'[d] = previous[d]
      BY <1>a, <2>1, <2>3 DEF Lines
    <3> QED BY <3>1, SameLine
  <2>5. ASSUME NEW q \in Calls PROVE Line(Children(q)', previous', children'[q])
    <3>1. c \notin Children(q) /\ Children(q) \subseteq Calls /\ Line(Children(q), previous, children[q])
      BY <1>a, <2>2 DEF Children, Lines
    <3>2. \A d \in Children(q) : previous'[d] = previous[d]
      BY <2>1, <3>1
    <3>3. CASE q = p
      <4>1. Children(q)' = Children(q) \cup {c} /\ previous'[c] = children[q] /\ children'[q] = c
        BY <2>1, <2>2, <3>3 DEF Children
      <4> QED BY <3>1, <3>2, <4>1, Joins
    <3>4. CASE q # p
      <4>1. Children(q)' = Children(q) /\ children'[q] = children[q]
        BY <2>1, <2>2, <3>4 DEF Children
      <4> QED BY <3>1, <3>2, <4>1, SameLine
    <3> QED BY <3>3, <3>4
  <2> QED BY <1>a, <2>2, <2>3, <2>4, <2>5 DEF Lines
<1>2. ASSUME NEW c \in Calls, Queued(c) PROVE Lines'
  <2>1. \A d \in Calls : /\ phase'[d] = IF d = c THEN "queued" ELSE phase[d]
                         /\ previous'[d] = IF d = c THEN tail ELSE previous[d]
    BY <1>2, <1>a DEF Queued, Goes, Types
  <2>2. /\ phase[c] = "unmade" /\ parent[c] = None /\ UNCHANGED <<parent, children>> /\ tail' = c
        /\ c \notin Hasty
    BY <1>2, <1>a DEF Queued, Goes, Stages
  <2>3. Queue' = Queue \cup {c} /\ c \notin Queue /\ Queue \subseteq Calls
    BY <2>1, <2>2 DEF Queue
  <2>4. Line(Queue \cup {c}, previous', c)
    <3>1. Line(Queue, previous, tail) /\ \A d \in Queue : previous'[d] = previous[d]
      BY <1>a, <2>1, <2>3 DEF Lines
    <3>2. previous'[c] = tail
      BY <2>1
    <3> QED BY <2>3, <3>1, <3>2, Joins
  <2>5. ASSUME NEW q \in Calls PROVE Line(Children(q)', previous', children'[q])
    <3>1. c \notin Children(q) /\ Children(q) \subseteq Calls /\ Line(Children(q), previous, children[q])
      BY <1>a, <2>2 DEF Children, Lines
    <3>2. \A d \in Children(q) : previous'[d] = previous[d]
      BY <2>1, <3>1
    <3>3. Children(q)' = Children(q) /\ children'[q] = children[q]
      BY <2>2 DEF Children
    <3> QED BY <3>1, <3>2, <3>3, SameLine
  <2> QED BY <2>2, <2>3, <2>4, <2>5 DEF Lines
<1>b. ASSUME UNCHANGED <<parent, previous, children>>, NEW members, members = Queue', 
             Line(members, previous, tail'), tail' # None => tail' \in members
      PROVE  Lines'
  BY <1>a, <1>b DEF Lines, Children
<1>3. ASSUME NEW c \in Calls, Moved(c) PROVE Lines'
  <2>1. UNCHANGED <<parent, previous, children, tail>>
    BY <1>3 DEF Moved
  <2>2. PICK to \in {"acquiring", "running", "draining", "closed", "done", "releasing"} :
          /\ \A d \in Calls : phase'[d] = IF d = c THEN to ELSE phase[d]
          /\ phase[c] # "done"
          /\ to = "done" => parent[c] # None
          /\ phase[c] = "unmade" => c \in Hasty
    BY <1>3, <1>a DEF Moved, Goes, Types
  <2>3. Queue' = Queue
    BY <2>1, <2>2 DEF Queue
  <2> QED BY <1>a, <1>b, <2>1, <2>3 DEF Lines
<1>4. ASSUME NEW c \in Calls, Left(c) PROVE Lines'
  <2>1. UNCHANGED <<parent, previous, children>> /\ tail' = IF tail = c THEN None ELSE tail
    BY <1>4 DEF Left
  <2>2. /\ \A d \in Calls : phase'[d] = IF d = c THEN "done" ELSE phase[d]
        /\ phase[c] \in {"acquiring", "releasing"}
    BY <1>4, <1>a DEF Left, Goes, Types
  <2>3. parent[c] = None /\ (previous[c] = None \/ phase[previous[c]] = "done")
    BY <1>a, <2>2 DEF Stages, Turns
  <2>4. Queue' = Queue \ {c} /\ (c \notin Hasty => c \in Queue)
    BY <2>1, <2>2, <2>3 DEF Queue
  <2>5. Line(Queue, previous, tail) /\ (tail # None => tail \in Queue)
    BY <1>a DEF Lines
  <2>6. previous[c] \notin Queue /\ None \notin Queue
    BY <2>3 DEF Queue
  <2>7. CASE c \in Queue
    <3>1. Line(Queue \ {c}, previous, IF tail = c THEN None ELSE tail)
      BY <2>5, <2>6, <2>7, Leaves
    <3> QED BY <1>b, <2>1, <2>4, <2>5, <3>1
  <2>8. CASE c \notin Queue
    <3>1. Queue' = Queue /\ tail' = tail
      BY <2>1, <2>4, <2>5, <2>8
    <3> QED BY <1>b, <2>1, <2>5, <3>1
  <2> QED BY <2>7, <2>8
<1>5. CASE Rests
  BY <1>5, <1>a DEF Rests, Lines, Queue, Children
<1> QED BY <1>1, <1>2, <1>3, <1>4, <1>5, StepKinds

\* A scope closes after its children, and gives the lock up after that.
LEMMA LeasesStep == ASSUME IInv, [Next]_vars PROVE LiveParents' /\ Holds'
<1>a. Types /\ Stages /\ LiveParents /\ Holds
  BY DEF IInv
<1> USE ScopeConstants
<1>1. ASSUME NEW c \in Calls, NEW p \in Calls, Nested(c, p) PROVE LiveParents' /\ Holds'
  <2>1. \A d \in Calls : /\ phase'[d] = IF d = c THEN "turn" ELSE phase[d]
                         /\ parent'[d] = IF d = c THEN p ELSE parent[d]
    BY <1>1, <1>a DEF Nested, Goes, Types
  <2>2. phase[c] = "unmade" /\ p # c /\ Active(p) /\ UNCHANGED holder
    BY <1>1 DEF Nested, Goes
  <2>3. LiveParents'
    BY <1>a, <2>1, <2>2 DEF LiveParents, Active, Types
  <2>4. Holds'
    BY <1>a, <2>1, <2>2 DEF Holds
  <2> QED BY <2>3, <2>4
<1>2. ASSUME NEW c \in Calls, Queued(c) PROVE LiveParents' /\ Holds'
  <2>1. \A d \in Calls : phase'[d] = IF d = c THEN "queued" ELSE phase[d]
    BY <1>2, <1>a DEF Queued, Goes, Types
  <2>2. phase[c] = "unmade" /\ UNCHANGED <<parent, holder>>
    BY <1>2 DEF Queued, Goes
  <2>3. LiveParents'
    BY <1>a, <2>1, <2>2 DEF LiveParents, Active, Types
  <2>4. Holds'
    BY <1>a, <2>1, <2>2 DEF Holds
  <2> QED BY <2>3, <2>4
<1>3. ASSUME NEW c \in Calls, Moved(c) PROVE LiveParents' /\ Holds'
  <2>1. UNCHANGED <<parent, previous, children, tail>>
    BY <1>3 DEF Moved
  <2>2. PICK to \in {"acquiring", "running", "draining", "closed", "done", "releasing"} :
          /\ \A d \in Calls : phase'[d] = IF d = c THEN to ELSE phase[d]
          /\ phase[c] \notin {"done", "releasing"}
          /\ to \in {"running", "draining"} \/ ~Active(c) \/ (Active(c) /\ Done(children[c]))
          /\ to \in {"draining", "closed", "releasing"} =>
                UNCHANGED holder /\ phase[c] \in {"running", "draining", "closed"}
          /\ to = "running" => \/ phase[c] = "turn" /\ UNCHANGED holder
                               \/ phase[c] = "acquiring" /\ holder = None /\ holder' = c
          /\ to \in {"acquiring", "done"} => UNCHANGED holder
    BY <1>3, <1>a DEF Moved, Goes, Types, Active
  <2>3. LiveParents'
    <3> SUFFICES ASSUME NEW d \in Calls, parent[d] # None, phase'[d] # "done" PROVE Active(parent[d])'
      BY <2>1 DEF LiveParents
    <3>1. parent[d] \in Calls /\ phase[d] # "done" /\ Active(parent[d])
      BY <1>a, <2>2 DEF LiveParents, Types
    <3>2. CASE parent[d] # c
      BY <2>1, <2>2, <3>1, <3>2 DEF Active
    <3>3. CASE parent[d] = c
      <4>1. d \in Children(c)
        BY <3>3 DEF Children
      <4>2. ~Done(children[c])
        BY <3>1, <4>1, ChildrenInTurn DEF Done
      <4> QED BY <2>1, <2>2, <3>1, <3>3, <4>2 DEF Active
    <3> QED BY <3>2, <3>3
  <2>4. Holds'
    BY <1>a, <2>1, <2>2 DEF Holds, Stages
  <2> QED BY <2>3, <2>4
<1>4. ASSUME NEW c \in Calls, Left(c) PROVE LiveParents' /\ Holds'
  <2>1. UNCHANGED parent
    BY <1>4 DEF Left
  <2>2. /\ \A d \in Calls : phase'[d] = IF d = c THEN "done" ELSE phase[d]
        /\ \/ phase[c] = "acquiring" /\ UNCHANGED holder
           \/ phase[c] = "releasing" /\ holder' = None
    BY <1>4, <1>a DEF Left, Goes, Types
  <2>3. LiveParents'
    BY <1>a, <2>1, <2>2 DEF LiveParents, Active, Types
  <2>4. Holds'
    BY <1>a, <2>1, <2>2 DEF Holds, Stages
  <2> QED BY <2>3, <2>4
<1>5. CASE Rests
  BY <1>5, <1>a DEF Rests, LiveParents, Active, Holds
<1> QED BY <1>1, <1>2, <1>3, <1>4, <1>5, StepKinds

-----------------------------------------------------------------------------

\* In every reachable state variables have their types, lines are lines and scopes are closed from
\* the inside out.
LEMMA Invariance == Spec => []IInv
<1>1. IInv /\ [Next]_vars => IInv'
  BY TypesStep, ScopesStep, StagesStep, LinesStep, LeasesStep DEF IInv
<1> QED BY <1>1, ScopesStart, PTL DEF Spec

\* Calls and promises keep their types, and a nested call never queues for, tries for or releases
\* the lock of its owner.
THEOREM TypeCorrect == Spec => []TypeOK
<1>1. IInv => TypeOK
  BY DEF IInv, Types, Stages, TypeOK
<1> QED BY <1>1, Invariance, PTL

\* "nested operations are reentrant and concurrent ones serialize" (docs/internals.md:41): whatever
\* calls are made, in whatever operations and tasks, a nested one runs only while its owner has the
\* lock, two open scopes lie inside each other, and at most one call without a timeout is past the
\* queue.
THEOREM NestingIsSound == Spec => []NestingSound
<1> QED BY Invariance, NestingFollows, PTL


-----------------------------------------------------------------------------
(* One attempt with a feedback loop *)

\* Amounts are numbers, and a host reports a cost or none.
Amounts ==
    /\ MaxRounds \in Nat \ {0} /\ {ActorMax, ReviewMax, MaxDuration, MaxUsd} \subseteq Nat
    /\ None \notin Nat \cup Loop!Outcomes /\ \A usd \in Nat : Costs(usd) \subseteq Nat \cup {None}

\* The turn under way fits what is left of the money, and of the time but for the review.
Shares ==
    /\ round \in 1..MaxRounds /\ clock \in Nat /\ charged \in Nat /\ overrun \in Nat
    /\ turn \in [time : Nat, usd : Nat]
    /\ spent = charged /\ charged <= MaxUsd + overrun
    /\ loopPhase \in {"acting", "reviewing"} => charged + turn.usd <= MaxUsd
    /\ loopPhase = "acting" => clock + turn.time + ReviewMax <= MaxDuration
    /\ loopPhase \in {"freeze", "review"} => clock + ReviewMax <= MaxDuration
    /\ loopPhase = "reviewing" => turn.time = ReviewMax

\* What the last review passed, by whatever checks.
Passed ==
    /\ last.decision = "pass" /\ last = [decision |-> last.decision, subject |-> last.subject]
    /\ \A c \in Criteria : /\ checks[c].status = "passed" /\ checks[c].evidence
                           /\ failedFirst[c] \in {None, checks[c].exercise}

\* Only a pass completes the loop, and only with the candidate it was about.
Judged ==
    /\ accepted \in BOOLEAN
    /\ accepted => loopPhase \in {"ended", "finished"} /\ Passed
    /\ status = "completed" => loopPhase \in {"ended", "finished"} /\ accepted
    /\ status = "completed" /\ loopPhase = "finished" => last.subject = source
    /\ loopPhase \in {"review", "reviewing"} /\ last.decision = "evidence" => subject = last.subject

LoopTypes ==
    /\ source \in Sources /\ subject \in Sources \cup {None} /\ session \in Sessions \cup {None}
    /\ failedFirst = [c \in Criteria |-> failedFirst[c]]
    /\ \A c \in Criteria : failedFirst[c] \in Exercises \cup {None}
    /\ status \in Loop!Outcomes
    /\ loopPhase \in {"act", "acting", "freeze", "review", "reviewing", "ended", "finished"}

\* A share of what is left is at most what is left.
LEMMA ShareFits ==
    ASSUME NEW left \in Int, NEW n \in Nat \ {0}
    PROVE  /\ left \div n \in Int
           /\ left \div n >= 1 => left \div n <= left
<1> DEFINE q == left \div n
<1>1. q \in Int /\ n * q <= left
  OBVIOUS
<1> HIDE DEF q
<1>2. ASSUME q >= 1 PROVE q <= n * q
  <2>1. n - 1 >= 0 /\ n - 1 \in Int
    OBVIOUS
  <2>2. (n - 1) * q >= 0
    BY <1>1, <1>2, <2>1
  <2>3. n * q = (n - 1) * q + q
    BY <1>1
  <2> QED BY <1>1, <2>1, <2>2, <2>3
<1>3. n * q \in Int
  BY <1>1
<1>4. q \in Int /\ (q >= 1 => q <= left)
  BY <1>1, <1>2, <1>3
<1> QED BY <1>4 DEF q

\* Only money and time that are left let a phase start.
LEMMA NoObstacle ==
    ASSUME Amounts, NEW duration \in Int, Loop!Obstacle(duration) = None, charged \in Nat
    PROVE  MaxUsd - charged > 0 /\ duration >= 1
<1>1. None # "cancelled" /\ None # "budget-exceeded" /\ None # "timed-out"
  BY DEF Amounts, Loop!Outcomes
<1>2. ~(MaxUsd - charged <= 0) /\ ~(duration < 1)
  BY <1>1 DEF Loop!Obstacle, Loop!RemainingUsd
<1> QED BY <1>2 DEF Amounts

\* Whatever a host reports, only what passes its allocation can pass the budget.
LEMMA TurnEnds ==
    ASSUME Amounts, Shares, loopPhase \in {"acting", "reviewing"},
           NEW t \in {0, turn.time}, NEW usd \in Costs(turn.usd), NEW outcome, NEW sess,
           Loop!HostTurn(t, usd, outcome, sess)
    PROVE  /\ clock' \in Nat /\ clock' <= clock + turn.time
           /\ charged' \in Nat /\ overrun' \in Nat /\ spent' = charged'
           /\ charged' <= MaxUsd + overrun' /\ turn' = [time |-> 0, usd |-> 0]
<1>1. /\ turn.time \in Nat /\ turn.usd \in Nat /\ charged \in Nat /\ overrun \in Nat /\ clock \in Nat
      /\ charged + turn.usd <= MaxUsd /\ charged <= MaxUsd + overrun /\ spent = charged
      /\ MaxUsd \in Nat
  BY DEF Shares, Amounts
<1>2. /\ clock' = clock + t /\ charged' = charged + (IF usd = None THEN turn.usd ELSE usd)
      /\ spent' = spent + (IF usd = None THEN turn.usd ELSE usd)
      /\ overrun' = overrun + (IF usd = None \/ usd <= turn.usd THEN 0 ELSE usd - turn.usd)
      /\ turn' = [time |-> 0, usd |-> 0]
  BY DEF Loop!HostTurn, Loop!Charge, Loop!NoTurn
<1>3. usd \in Nat \cup {None}
  BY <1>1 DEF Amounts
<1>4. clock' \in Nat /\ clock' <= clock + turn.time
  BY <1>1, <1>2
<1>5. CASE usd = None
  BY <1>1, <1>2, <1>4, <1>5
<1>6. CASE usd # None
  BY <1>1, <1>2, <1>3, <1>4, <1>6
<1> QED BY <1>5, <1>6

\* The shares add up to the budget.
LEMMA SharesStep ==
    ASSUME Amounts, Shares, [Loop!Next]_(Loop!vars)
    PROVE  Shares'
<1>a. /\ round \in 1..MaxRounds /\ clock \in Nat /\ charged \in Nat /\ overrun \in Nat
      /\ {MaxRounds, ActorMax, ReviewMax, MaxDuration, MaxUsd} \subseteq Nat
  BY DEF Shares, Amounts
<1>b. ASSUME NEW left \in Int, left > 0 PROVE left \div 2 \in Nat /\ left \div 2 <= left
  BY <1>b
<1>c. ASSUME NEW x \in Int, NEW y \in Int
      PROVE  Loop!Smaller(x, y) \in Int /\ Loop!Smaller(x, y) <= x /\ Loop!Smaller(x, y) <= y
             /\ Loop!Smaller(x, y) \in {x, y}
  BY <1>c DEF Loop!Smaller
<1>1. ASSUME Loop!StartActor PROVE Shares'
  <2>1. UNCHANGED <<round, clock, charged, spent, overrun>>
    BY <1>1 DEF Loop!StartActor
  <2>2. CASE loopPhase' = "ended" /\ turn' = turn
    BY <2>1, <2>2 DEF Shares
  <2>3. CASE ~(loopPhase' = "ended" /\ turn' = turn)
    <3> DEFINE left == MaxDuration - clock - ReviewMax
               n == MaxRounds - round + 1
               duration == Loop!ActorDuration
    <3>1. loopPhase' = "acting" /\ turn' = [time |-> duration, usd |-> (MaxUsd - charged) \div 2]
          /\ Loop!Obstacle(duration) = None
      BY <1>1, <2>3 DEF Loop!StartActor, Loop!EndWith, Loop!RemainingUsd
    <3>2. left \in Int /\ n \in Nat \ {0} /\ duration = Loop!Smaller(ActorMax, left \div n)
      BY <1>a DEF Loop!ActorDuration, Loop!RemainingTime
    <3>3. left \div n \in Int /\ (left \div n >= 1 => left \div n <= left)
      BY <3>2, ShareFits
    <3>4. duration \in Int /\ duration <= left \div n
      BY <1>a, <1>c, <3>2, <3>3
    <3> HIDE DEF duration
    <3>5. MaxUsd - charged > 0 /\ duration >= 1
      BY <1>a, <3>1, <3>4, NoObstacle
    <3>6. duration \in Nat /\ duration <= left
      BY <3>2, <3>3, <3>4, <3>5
    <3>7. clock + duration + ReviewMax <= MaxDuration
      BY <1>a, <3>6
    <3>8. (MaxUsd - charged) \div 2 \in Nat /\ charged + (MaxUsd - charged) \div 2 <= MaxUsd
      BY <1>a, <1>b, <3>5
    <3> HIDE DEF left, n
    <3> QED BY <2>1, <3>1, <3>6, <3>7, <3>8 DEF Shares
  <2> QED BY <2>2, <2>3
<1>2. ASSUME Loop!ActorEnds PROVE Shares'
  <2>1. PICK t \in {0, turn.time}, usd \in Costs(turn.usd), outcome \in Loop!Outcomes,
             sess \in Sessions \cup {None} :
             /\ Loop!HostTurn(t, usd, outcome, sess)
             /\ loopPhase' = (IF outcome \in {"completed", "timed-out"} THEN "freeze" ELSE "ended")
    BY <1>2 DEF Loop!ActorEnds
  <2>2. loopPhase = "acting" /\ round' = round
    BY <1>2 DEF Loop!ActorEnds
  <2>3. /\ clock' \in Nat /\ clock' <= clock + turn.time
        /\ charged' \in Nat /\ overrun' \in Nat /\ spent' = charged'
        /\ charged' <= MaxUsd + overrun' /\ turn' = [time |-> 0, usd |-> 0]
    BY <2>1, <2>2, TurnEnds
  <2>4. clock + turn.time + ReviewMax <= MaxDuration /\ turn.time \in Nat
    BY <2>2 DEF Shares
  <2>5. clock' + ReviewMax <= MaxDuration
    BY <1>a, <2>3, <2>4
  <2> QED BY <1>a, <2>1, <2>2, <2>3, <2>5 DEF Shares
<1>3. ASSUME Loop!Freeze PROVE Shares'
  BY <1>3 DEF Loop!Freeze, Shares
<1>4. ASSUME Loop!StartReview PROVE Shares'
  <2>1. loopPhase = "review" /\ UNCHANGED <<round, clock, charged, spent, overrun>>
    BY <1>4 DEF Loop!StartReview
  <2>2. CASE loopPhase' = "ended" /\ turn' = turn
    BY <2>1, <2>2 DEF Shares
  <2>3. CASE ~(loopPhase' = "ended" /\ turn' = turn)
    <3> DEFINE duration == Loop!Smaller(ReviewMax, MaxDuration - clock)
    <3>1. loopPhase' = "reviewing" /\ turn' = [time |-> duration, usd |-> (MaxUsd - charged) \div 2]
          /\ Loop!Obstacle(duration) = None
      BY <1>4, <2>3 DEF Loop!StartReview, Loop!EndWith, Loop!RemainingUsd, Loop!RemainingTime
    <3>2. clock + ReviewMax <= MaxDuration
      BY <2>1 DEF Shares
    <3>3. duration = ReviewMax
      BY <1>a, <3>2 DEF Loop!Smaller
    <3> HIDE DEF duration
    <3>4. MaxUsd - charged > 0
      BY <1>a, <3>1, <3>3, NoObstacle
    <3>5. (MaxUsd - charged) \div 2 \in Nat /\ charged + (MaxUsd - charged) \div 2 <= MaxUsd
      BY <1>a, <1>b, <3>4
    <3> QED BY <1>a, <2>1, <3>1, <3>3, <3>5 DEF Shares
  <2> QED BY <2>2, <2>3
<1>5. ASSUME Loop!ReviewFails PROVE Shares'
  <2>1. PICK t \in {0, turn.time}, usd \in Costs(turn.usd), outcome \in Loop!Outcomes,
             sess \in Sessions \cup {None} : Loop!HostTurn(t, usd, outcome, sess)
    BY <1>5 DEF Loop!ReviewFails
  <2>2. loopPhase = "reviewing" /\ loopPhase' = "ended" /\ round' = round
    BY <1>5 DEF Loop!ReviewFails, Loop!EndWith
  <2>3. /\ clock' \in Nat /\ clock' <= clock + turn.time
        /\ charged' \in Nat /\ overrun' \in Nat /\ spent' = charged'
        /\ charged' <= MaxUsd + overrun' /\ turn' = [time |-> 0, usd |-> 0]
    BY <2>1, <2>2, TurnEnds
  <2> QED BY <1>a, <2>2, <2>3 DEF Shares
<1>6. ASSUME Loop!ReviewReturns PROVE Shares'
  <2>1. PICK t \in {0, turn.time}, usd \in Costs(turn.usd), sess \in Sessions :
             Loop!HostTurn(t, usd, "completed", sess)
    BY <1>6 DEF Loop!ReviewReturns
  <2>2. loopPhase = "reviewing" /\ \E r \in Loop!Review : Loop!AfterReview(r)
    BY <1>6 DEF Loop!ReviewReturns
  <2>3. /\ clock' \in Nat /\ clock' <= clock + turn.time
        /\ charged' \in Nat /\ overrun' \in Nat /\ spent' = charged'
        /\ charged' <= MaxUsd + overrun' /\ turn' = [time |-> 0, usd |-> 0]
    BY <2>1, <2>2, TurnEnds
  <2>4. round' \in 1..MaxRounds /\ loopPhase' \in {"act", "ended"}
    BY <1>a, <2>2 DEF Loop!AfterReview, Loop!EndWith
  <2> QED BY <1>a, <2>3, <2>4 DEF Shares
<1>7. ASSUME Loop!Finish \/ Loop!Abort \/ Loop!Edit \/ UNCHANGED Loop!vars PROVE Shares'
  BY <1>7 DEF Loop!Finish, Loop!Abort, Loop!Edit, Loop!vars, Shares
<1> QED BY <1>1, <1>2, <1>3, <1>4, <1>5, <1>6, <1>7 DEF Loop!Next, Loop!Step

\* A review that is recorded passes every criterion by the check that failed before, if it passes.
LEMMA PassPasses ==
    ASSUME LoopTypes, NEW r \in Loop!Review, Loop!Valid(r), r.decision = "pass",
           last' = [decision |-> r.decision, subject |-> subject], checks' = r.checks,
           failedFirst' = [c \in Criteria |->
                IF failedFirst[c] = None /\ r.checks[c].status = "failed"
                THEN r.checks[c].exercise ELSE failedFirst[c]]
    PROVE  Passed'
<1>1. \A c \in Criteria : r.checks[c].status = "passed"
  BY DEF Loop!Valid, Loop!DecisionHolds
<1>2. ASSUME NEW c \in Criteria
      PROVE  /\ checks'[c].status = "passed" /\ checks'[c].evidence
             /\ failedFirst'[c] \in {None, checks'[c].exercise}
  <2>1. r.checks[c].status = "passed" /\ r.checks[c].status # "unverified"
        /\ r.checks[c].status # "failed"
    BY <1>1
  <2>2. failedFirst'[c] = failedFirst[c]
    BY <2>1
  <2>3. r.checks[c].evidence
    BY <2>1 DEF Loop!Valid
  <2>4. failedFirst[c] # None => r.checks[c].exercise = failedFirst[c]
    BY <2>1 DEF Loop!Valid, Loop!Replays
  <2> QED BY <2>1, <2>2, <2>3, <2>4
<1> QED BY <1>2 DEF Passed

\* Only a pass of the frozen candidate is a success.
LEMMA JudgedStep ==
    ASSUME LoopTypes, Judged, [Loop!Next]_(Loop!vars)
    PROVE  Judged'
<1>1. ASSUME Loop!StartActor \/ Loop!StartReview PROVE Judged'
  <2>1. /\ UNCHANGED <<last, failedFirst, checks, accepted, subject, source>>
        /\ loopPhase \in {"act", "review"} /\ ~accepted /\ status # "completed"
    BY <1>1 DEF Loop!StartActor, Loop!StartReview, Loop!reviewed, Judged
  <2>2. \/ loopPhase' = "ended" /\ status' \in {"cancelled", "budget-exceeded", "timed-out", None}
           /\ status' # None
        \/ loopPhase' = "acting" /\ status' = status
        \/ loopPhase = "review" /\ loopPhase' = "reviewing" /\ status' = status
    BY <1>1 DEF Loop!StartActor, Loop!StartReview, Loop!EndWith, Loop!Obstacle
  <2> QED BY <2>1, <2>2 DEF Judged, Passed
<1>2. ASSUME Loop!ActorEnds \/ Loop!ReviewFails PROVE Judged'
  <2>1. /\ UNCHANGED <<last, failedFirst, checks, accepted>>
        /\ loopPhase \in {"acting", "reviewing"} /\ ~accepted /\ loopPhase' \in {"freeze", "ended"}
    BY <1>2 DEF Loop!ActorEnds, Loop!ReviewFails, Loop!EndWith, Loop!reviewed, Judged
  <2>2. status' # "completed"
    BY <1>2 DEF Loop!ActorEnds, Loop!ReviewFails, Loop!EndWith, Loop!Outcomes
  <2> QED BY <2>1, <2>2 DEF Judged, Passed
<1>3. ASSUME Loop!Freeze PROVE Judged'
  <2>1. /\ UNCHANGED <<last, failedFirst, checks, accepted, status, source>>
        /\ loopPhase = "freeze" /\ ~accepted /\ status # "completed"
    BY <1>3 DEF Loop!Freeze, Loop!reviewed, Judged
  <2>2. \/ loopPhase' = "ended"
        \/ loopPhase' = "review" /\ subject' = source /\ (last.decision = "evidence" => last.subject = source)
    BY <1>3 DEF Loop!Freeze
  <2> QED BY <2>1, <2>2 DEF Judged, Passed
<1>4. ASSUME Loop!ReviewReturns PROVE Judged'
  <2>1. PICK r \in Loop!Review :
          /\ Loop!Valid(r)
          /\ last' = [decision |-> r.decision, subject |-> subject] /\ checks' = r.checks
          /\ failedFirst' = [c \in Criteria |->
                IF failedFirst[c] = None /\ r.checks[c].status = "failed"
                THEN r.checks[c].exercise ELSE failedFirst[c]]
          /\ Loop!AfterReview(r)
    BY <1>4 DEF Loop!ReviewReturns
  <2>2. ~accepted /\ loopPhase = "reviewing"
    BY <1>4 DEF Loop!ReviewReturns, Judged
  <2>3. CASE r.decision = "pass" /\ loopPhase' = "ended" /\ status' = "completed" /\ accepted' = TRUE
    <3>1. Passed'
      BY <2>1, <2>3, PassPasses
    <3> QED BY <2>3, <3>1 DEF Judged
  <2>4. CASE loopPhase' \in {"act", "ended"} /\ status' # "completed" /\ accepted' = accepted
    BY <2>2, <2>4 DEF Judged
  <2> QED BY <2>1, <2>3, <2>4 DEF Loop!AfterReview, Loop!EndWith
<1>5. ASSUME Loop!Finish PROVE Judged'
  <2>1. /\ UNCHANGED <<last, failedFirst, checks, accepted, source>>
        /\ loopPhase = "ended" /\ loopPhase' = "finished"
        /\ diagnosed' = (diagnosed \/ ~accepted \/ last.subject # source)
        /\ status' = (IF status = "completed" /\ diagnosed' THEN "failed" ELSE status)
    BY <1>5 DEF Loop!Finish, Loop!reviewed
  <2>2. status' = "completed" => status = "completed" /\ accepted /\ last.subject = source
    BY <2>1
  <2> QED BY <2>1, <2>2 DEF Judged, Passed
<1>6. ASSUME Loop!Abort \/ Loop!Edit PROVE Judged'
  <2>1. UNCHANGED <<last, failedFirst, checks, accepted, subject, loopPhase, status>>
        /\ loopPhase # "finished"
    BY <1>6 DEF Loop!Abort, Loop!Edit, Loop!reviewed
  <2> QED BY <2>1 DEF Judged, Passed
<1>7. ASSUME UNCHANGED Loop!vars PROVE Judged'
  BY <1>7 DEF Loop!vars, Loop!reviewed, Judged, Passed
<1> QED BY <1>1, <1>2, <1>3, <1>4, <1>5, <1>6, <1>7 DEF Loop!Next, Loop!Step

\* Candidates, sessions and statuses keep their types.
LEMMA LoopTypesStep ==
    ASSUME Amounts, LoopTypes, [Loop!Next]_(Loop!vars)
    PROVE  LoopTypes'
<1>1. ASSUME Loop!StartActor \/ Loop!StartReview PROVE LoopTypes'
  <2>1. UNCHANGED <<source, subject, session, failedFirst>>
    BY <1>1 DEF Loop!StartActor, Loop!StartReview, Loop!reviewed
  <2>2. /\ loopPhase' \in {"acting", "reviewing", "ended"}
        /\ status' \in Loop!Outcomes
    BY <1>1 DEF Loop!StartActor, Loop!StartReview, Loop!EndWith, Loop!Obstacle, Loop!Outcomes, LoopTypes
  <2> QED BY <2>1, <2>2 DEF LoopTypes
<1>2. ASSUME Loop!ActorEnds \/ Loop!ReviewFails PROVE LoopTypes'
  <2>1. UNCHANGED <<subject, failedFirst>> /\ source' \in Sources
        /\ session' \in Sessions \cup {None} /\ loopPhase' \in {"freeze", "ended"}
        /\ status' \in Loop!Outcomes
    BY <1>2 DEF Loop!ActorEnds, Loop!ReviewFails, Loop!EndWith, Loop!reviewed, Loop!Outcomes, LoopTypes
  <2> QED BY <2>1 DEF LoopTypes
<1>3. ASSUME Loop!Freeze PROVE LoopTypes'
  BY <1>3 DEF Loop!Freeze, Loop!reviewed, LoopTypes
<1>4. ASSUME Loop!ReviewReturns PROVE LoopTypes'
  <2>1. UNCHANGED <<subject, session>> /\ source' \in Sources
    BY <1>4 DEF Loop!ReviewReturns
  <2>2. PICK r \in Loop!Review :
          /\ Loop!Valid(r) /\ Loop!AfterReview(r)
          /\ failedFirst' = [c \in Criteria |->
                IF failedFirst[c] = None /\ r.checks[c].status = "failed"
                THEN r.checks[c].exercise ELSE failedFirst[c]]
    BY <1>4 DEF Loop!ReviewReturns
  <2>3. loopPhase' \in {"act", "ended"} /\ status' \in Loop!Outcomes
    BY <2>2 DEF Loop!AfterReview, Loop!EndWith, Loop!Outcomes
  <2>4. ASSUME NEW c \in Criteria PROVE failedFirst'[c] \in Exercises \cup {None}
    <3>1. r.checks[c].exercise \in Exercises \cup {None}
      BY DEF Loop!Review, Loop!Check
    <3> QED BY <2>2, <3>1 DEF LoopTypes
  <2> QED BY <2>1, <2>2, <2>3, <2>4 DEF LoopTypes
<1>5. ASSUME Loop!Finish \/ Loop!Abort \/ Loop!Edit \/ UNCHANGED Loop!vars PROVE LoopTypes'
  BY <1>5 DEF Loop!Finish, Loop!Abort, Loop!Edit, Loop!vars, Loop!reviewed, Loop!Outcomes, LoopTypes
<1> QED BY <1>1, <1>2, <1>3, <1>4, <1>5 DEF Loop!Next, Loop!Step

\* The invariant of an attempt.
LoopRuns == LoopTypes /\ Shares /\ Judged

LEMMA LoopInvariance == ASSUME Amounts PROVE Loop!Spec => []LoopRuns
<1>1. Loop!Init => LoopRuns
  <2> SUFFICES ASSUME Loop!Init PROVE LoopRuns
    OBVIOUS
  <2>1. LoopTypes
    BY DEF Loop!Init, LoopTypes, Loop!Outcomes
  <2>2. Shares
    BY DEF Loop!Init, Shares, Loop!NoTurn, Amounts
  <2>3. Judged
    BY DEF Loop!Init, Judged
  <2> QED BY <2>1, <2>2, <2>3 DEF LoopRuns
<1>2. LoopRuns /\ [Loop!Next]_(Loop!vars) => LoopRuns'
  BY LoopTypesStep, SharesStep, JudgedStep DEF LoopRuns
<1> QED BY <1>1, <1>2, PTL DEF Loop!Spec

\* The loop's counters and records keep the shape the result is built from.
THEOREM LoopTypeCorrect == ASSUME Amounts PROVE Loop!Spec => []Loop!TypeOK
<1>1. LoopRuns => Loop!TypeOK
  BY DEF LoopRuns, LoopTypes, Shares, Loop!TypeOK
<1> QED BY <1>1, LoopInvariance, PTL

\* Actor and reviewer share one budget: it is exceeded by at most what hosts report beyond their
\* allocations (feedback-loop.ts:89).
THEOREM LoopWithinBudget == ASSUME Amounts PROVE Loop!Spec => []Loop!WithinBudget
<1>1. LoopRuns => Loop!WithinBudget
  BY DEF LoopRuns, Shares, Loop!WithinBudget
<1> QED BY <1>1, LoopInvariance, PTL

\* However long the actors take, a review that starts has its full time (feedback-loop.ts:57).
THEOREM ReviewKeepsItsTime == ASSUME Amounts PROVE Loop!Spec => []Loop!ReviewTimeReserved
<1>1. LoopRuns => Loop!ReviewTimeReserved
  BY DEF LoopRuns, Shares, Loop!ReviewTimeReserved
<1> QED BY <1>1, LoopInvariance, PTL

\* A completed attempt ends with the candidate that a review passed, each criterion with evidence
\* and by the exercise it failed before (run.ts:140).
THEOREM CompletionIsEarned == ASSUME Amounts PROVE Loop!Spec => []Loop!CompletedOnPass
<1>1. LoopRuns => Loop!CompletedOnPass
  BY DEF LoopRuns, Judged, Passed, Loop!CompletedOnPass
<1> QED BY <1>1, LoopInvariance, PTL

\* A review counts for the frozen candidate only, and one that answers a request for evidence for
\* the candidate of the request.
THEOREM FrozenIsJudged == ASSUME Amounts PROVE Loop!Spec => Loop!JudgesFrozenCandidate
<1>1. ASSUME LoopRuns, [Loop!Next]_(Loop!vars)
      PROVE  last' # last => /\ last'.subject = subject /\ source' = subject
                             /\ last.decision = "evidence" => last'.subject = last.subject
  <2>1. CASE Loop!ReviewReturns
    <3>1. loopPhase = "reviewing" /\ last'.subject = subject /\ source' = subject
      BY <2>1 DEF Loop!ReviewReturns, Loop!HandoffValid
    <3> QED BY <1>1, <3>1 DEF LoopRuns, Judged
  <2>2. CASE ~Loop!ReviewReturns
    BY <1>1, <2>2 DEF Loop!Next, Loop!Step, Loop!StartActor, Loop!ActorEnds, Loop!Freeze,
                      Loop!StartReview, Loop!ReviewFails, Loop!Finish, Loop!Abort, Loop!Edit,
                      Loop!vars, Loop!reviewed
  <2> QED BY <2>1, <2>2
<1>2. LoopRuns /\ [Loop!Next]_(Loop!vars)
        => [last' # last => /\ last'.subject = subject /\ source' = subject
                            /\ last.decision = "evidence" => last'.subject = last.subject]_(Loop!vars)
  BY <1>1
<1> QED BY <1>2, LoopInvariance, PTL DEF Loop!Spec, Loop!JudgesFrozenCandidate


-----------------------------------------------------------------------------
(* One command *)

\* A process is alive, was not started, or has an exit code.
ExitCodes ==
    /\ {0, 1} \subseteq Codes /\ {Alive, NotStarted} \cap Codes = {}
    /\ Alive # NotStarted /\ TimeLimit \in BOOLEAN

\* What is known of a command until its answer, and what its answer may say.
CommandRuns ==
    /\ root \in Codes \cup {Alive, NotStarted}
    /\ descendants \in BOOLEAN /\ signalled \in BOOLEAN /\ timedOut \in BOOLEAN /\ cut \in BOOLEAN
    /\ timer \in BOOLEAN /\ grace \in BOOLEAN /\ exitSeen \in BOOLEAN
    /\ exitCode = IF exitSeen THEN root ELSE 1
    /\ exitSeen => root \in Codes /\ ~timer
    /\ signalled => timedOut \/ cut
    /\ Command!finished => root # Alive /\ ~descendants /\ ~timer /\ ~grace
    /\ answer \in {None, Failed} \cup [code : Codes, timedOut : BOOLEAN, aborted : BOOLEAN]
    /\ Command!SuccessIsItsOwn

\* An answer ends the command, and is success only of its own exit.
LEMMA AnswerEnds ==
    ASSUME ExitCodes, CommandRuns, ~Command!finished,
           Command!finish(Command!Output) \/ Command!finish(Failed)
    PROVE  CommandRuns'
<1>1. /\ timer' = FALSE /\ grace' = FALSE /\ descendants' = FALSE
      /\ root' = (IF root = Alive THEN 1 ELSE root)
      /\ UNCHANGED <<signalled, timedOut, cut, exitCode, exitSeen>>
      /\ answer' \in {Command!Output, Failed}
  BY DEF Command!finish
<1>2. root' \in Codes \cup {NotStarted} /\ (exitSeen => root' = root)
  BY <1>1 DEF CommandRuns, ExitCodes
<1>3. Command!Output \in [code : Codes, timedOut : BOOLEAN, aborted : BOOLEAN]
  BY DEF Command!Output, Command!Reported, CommandRuns, ExitCodes
<1>4. ASSUME answer' = Command!Output, answer'.code = 0 PROVE root' = 0 /\ ~signalled'
  <2>1. ~timedOut /\ ~cut /\ exitCode = 0
    BY <1>4 DEF Command!Output, Command!Reported, CommandRuns
  <2>2. exitSeen
    BY <2>1 DEF CommandRuns
  <2> QED BY <1>1, <1>2, <2>1, <2>2 DEF CommandRuns
<1>5. Command!SuccessIsItsOwn'
  BY <1>1, <1>4 DEF Command!SuccessIsItsOwn
<1> QED BY <1>1, <1>2, <1>3, <1>5 DEF CommandRuns, ExitCodes, Command!finished

\* Every callback and whatever processes do keep this.
LEMMA CommandStep ==
    ASSUME ExitCodes, CommandRuns, [Command!Next]_(Command!vars)
    PROVE  CommandRuns'
<1>a. Command!finished => Command!SuccessIsItsOwn
  BY DEF CommandRuns
<1>1. ASSUME Command!Exit \/ Command!DescendantsEnd PROVE CommandRuns'
  <2>1. ~Command!finished \/ root' = root
    BY <1>1 DEF CommandRuns, Command!Exit, Command!DescendantsEnd
  <2>2. /\ UNCHANGED <<signalled, timer, grace, timedOut, cut, exitCode, exitSeen, answer>>
        /\ root' \in Codes \cup {root} /\ (root' # root => root = Alive /\ UNCHANGED descendants)
        /\ descendants' \in {descendants, FALSE}
    BY <1>1 DEF Command!Exit, Command!DescendantsEnd
  <2>3. exitSeen => root' = root
    BY <2>2 DEF CommandRuns, ExitCodes
  <2>4. Command!SuccessIsItsOwn'
    BY <2>1, <2>2 DEF CommandRuns, Command!SuccessIsItsOwn, Command!finished
  <2>5. Command!finished' => root' # Alive /\ ~descendants'
    BY <2>1, <2>2 DEF CommandRuns, Command!finished
  <2> QED BY <2>2, <2>3, <2>4, <2>5 DEF CommandRuns, Command!finished
<1>2. ASSUME Command!OnExit \/ Command!OnTimeout \/ Command!OnAbort PROVE CommandRuns'
  <2>1. ~Command!finished
    BY <1>2 DEF Command!OnExit, Command!OnTimeout, Command!OnAbort, CommandRuns
  <2>2. UNCHANGED <<root, descendants, answer>> /\ grace' = TRUE
        /\ signalled' = (signalled \/ root = Alive)
    BY <1>2 DEF Command!OnExit, Command!OnTimeout, Command!OnAbort, Command!stop
  <2>3. \/ /\ root \notin {Alive, NotStarted} /\ exitSeen' = TRUE /\ exitCode' = root /\ timer' = FALSE
           /\ UNCHANGED <<timedOut, cut>>
        \/ timer' = FALSE /\ timedOut' = TRUE /\ UNCHANGED <<cut, exitCode, exitSeen>>
        \/ cut' = TRUE /\ UNCHANGED <<timer, timedOut, exitCode, exitSeen>>
    BY <1>2 DEF Command!OnExit, Command!OnTimeout, Command!OnAbort
  <2>4. ~Command!finished' /\ Command!SuccessIsItsOwn'
    BY <2>1, <2>2 DEF Command!finished, Command!SuccessIsItsOwn
  <2>5. signalled' \in BOOLEAN /\ (signalled' => timedOut' \/ cut')
    BY <2>2, <2>3 DEF CommandRuns
  <2>6. root \notin {Alive, NotStarted} => root \in Codes
    BY DEF CommandRuns
  <2>7. /\ timedOut' \in BOOLEAN /\ cut' \in BOOLEAN /\ timer' \in BOOLEAN /\ exitSeen' \in BOOLEAN
        /\ exitCode' = (IF exitSeen' THEN root' ELSE 1)
        /\ exitSeen' => root' \in Codes /\ ~timer'
    <3>1. CASE /\ root \notin {Alive, NotStarted} /\ exitSeen' = TRUE /\ exitCode' = root
               /\ timer' = FALSE /\ UNCHANGED <<timedOut, cut>>
      BY <2>2, <2>6, <3>1 DEF CommandRuns
    <3>2. CASE timer' = FALSE /\ timedOut' = TRUE /\ UNCHANGED <<cut, exitCode, exitSeen>>
      BY <2>2, <3>2 DEF CommandRuns
    <3>3. CASE cut' = TRUE /\ UNCHANGED <<timer, timedOut, exitCode, exitSeen>>
      BY <2>2, <3>3 DEF CommandRuns
    <3> QED BY <2>3, <3>1, <3>2, <3>3
  <2> QED BY <2>2, <2>4, <2>5, <2>7 DEF CommandRuns
<1>3. ASSUME Command!OnClose \/ Command!OnError \/ Command!OnGrace PROVE CommandRuns'
  BY <1>3, AnswerEnds DEF Command!OnClose, Command!OnError, Command!OnGrace
<1>4. ASSUME UNCHANGED Command!vars PROVE CommandRuns'
  BY <1>4 DEF Command!vars, CommandRuns, Command!finished, Command!SuccessIsItsOwn
<1> QED BY <1>1, <1>2, <1>3, <1>4 DEF Command!Next

\* The invariant of a command.
LEMMA CommandInvariance == ASSUME ExitCodes PROVE Command!Spec => []CommandRuns
<1>1. Command!Init => CommandRuns
  BY DEF Command!Init, CommandRuns, ExitCodes, Command!finished, Command!SuccessIsItsOwn
<1>2. CommandRuns /\ [Command!Next]_(Command!vars) => CommandRuns'
  BY CommandStep
<1> QED BY <1>1, <1>2, PTL DEF Command!Spec

\* Whoever gets the answer of a command finds nothing of its group running (exec.ts:32).
THEOREM GroupIsReaped == ASSUME ExitCodes PROVE Command!Spec => []Command!GroupReaped
<1>1. CommandRuns => Command!GroupReaped
  BY DEF CommandRuns, Command!GroupReaped
<1> QED BY <1>1, CommandInvariance, PTL

\* Success is the command's own exit with 0, before anything told it to stop (exec.ts:76).
THEOREM SuccessIsEarned == ASSUME ExitCodes PROVE Command!Spec => []Command!SuccessIsItsOwn
<1>1. CommandRuns => Command!SuccessIsItsOwn
  BY DEF CommandRuns
<1> QED BY <1>1, CommandInvariance, PTL

\* A timeout is reported only of a command whose exit nobody had seen.
THEOREM TimeoutBeforeExit == ASSUME ExitCodes PROVE Command!Spec => Command!TimeoutNotAfterExit
<1>1. CommandRuns /\ [Command!Next]_(Command!vars) => [timedOut' /\ ~timedOut => ~exitSeen]_(Command!vars)
  BY DEF CommandRuns, Command!Next, Command!Exit, Command!DescendantsEnd, Command!OnExit, Command!OnClose,
         Command!OnError, Command!OnTimeout, Command!OnAbort, Command!OnGrace, Command!finish, Command!stop
<1> QED BY <1>1, CommandInvariance, PTL DEF Command!Spec, Command!TimeoutNotAfterExit


-----------------------------------------------------------------------------
(* Starts of a dashboard *)

DashboardPhases == {"new", "reading", "pinging", "starting", "serving", "leased", "stopping",
                    "removed", "ended", "reused", "crashed"}

\* Who may ask has the lease of a dashboard of this repository and build; a lease is there while
\* its dashboard has not removed it.
LeaseFiles ==
    /\ start \in [Starts -> DashboardPhases]
    /\ lease \in [Dashboard!Roots -> Starts \cup {None}]
    /\ found \in [Starts -> Starts \cup {None}]
    /\ reopenable \in [Starts -> SUBSET Starts]
    /\ \A r \in Dashboard!Roots : lease[r] # None =>
          RootOf[lease[r]] = r /\ start[lease[r]] \in {"leased", "stopping", "crashed"}
    /\ \A s \in Starts : start[s] \in {"pinging", "reused"} =>
          /\ found[s] # None
          /\ RootOf[found[s]] = RootOf[s] /\ BuildOf[found[s]] = BuildOf[s]

\* A dashboard that goes on, but not past its lease, leaves the leases right.
LEMMA GoesTo ==
    ASSUME LeaseFiles, None \notin Starts, NEW s \in Starts, NEW to \in DashboardPhases,
           start' = [start EXCEPT ![s] = to], lease' = lease, found' = found,
           reopenable' \in [Starts -> SUBSET Starts],
           start[s] \in {"leased", "stopping", "crashed"} => to \in {"stopping", "crashed"},
           to \in {"pinging", "reused"} => start[s] = "pinging"
    PROVE  LeaseFiles'
<1>1. start' \in [Starts -> DashboardPhases]
  BY DEF LeaseFiles
<1>2. ASSUME NEW r \in Dashboard!Roots, lease[r] # None
      PROVE  RootOf[lease[r]] = r /\ start'[lease[r]] \in {"leased", "stopping", "crashed"}
  BY <1>2 DEF LeaseFiles
<1>3. ASSUME NEW t \in Starts, start'[t] \in {"pinging", "reused"}
      PROVE  /\ found[t] # None
             /\ RootOf[found[t]] = RootOf[t] /\ BuildOf[found[t]] = BuildOf[t]
  BY <1>3 DEF LeaseFiles
<1> QED BY <1>1, <1>2, <1>3 DEF LeaseFiles

\* Only the dashboard itself can remove the lease of its repository before it ends.
LEMMA LeaseFilesStep ==
    ASSUME LeaseFiles, None \notin Starts, [Dashboard!Next]_(Dashboard!vars)
    PROVE  LeaseFiles'
<1>a. \A s \in Starts : RootOf[s] \in Dashboard!Roots
  BY DEF Dashboard!Roots
<1>1. ASSUME NEW s \in Starts, Dashboard!Start(s) PROVE LeaseFiles'
  <2>1. PICK to \in {"starting", "reading"} : start' = [start EXCEPT ![s] = to]
    BY <1>1 DEF Dashboard!Start, Dashboard!Goto
  <2>2. start[s] = "new" /\ UNCHANGED <<found, lease>>
        /\ reopenable' \in [Starts -> SUBSET Starts]
    BY <1>1 DEF Dashboard!Start, Dashboard!Reopenable, LeaseFiles
  <2> QED BY <2>1, <2>2, GoesTo DEF DashboardPhases
<1>2. ASSUME NEW s \in Starts, Dashboard!ReadLease(s) PROVE LeaseFiles'
  <2> DEFINE l == lease[RootOf[s]]
  <2>1. /\ start[s] = "reading" /\ UNCHANGED <<lease, reopenable>>
        /\ found' = [found EXCEPT ![s] = l]
        /\ start' = [start EXCEPT ![s] = IF Dashboard!Usable(s, l) THEN "pinging" ELSE "starting"]
    BY <1>2 DEF Dashboard!ReadLease, Dashboard!Goto
  <2>2. l \in Starts \cup {None} /\ (l # None => RootOf[l] = RootOf[s])
    BY <1>a DEF LeaseFiles
  <2>3. ASSUME NEW t \in Starts, start'[t] \in {"pinging", "reused"}
        PROVE  /\ found'[t] # None
               /\ RootOf[found'[t]] = RootOf[t] /\ BuildOf[found'[t]] = BuildOf[t]
    <3>1. CASE t = s
      <4>1. Dashboard!Usable(s, l) /\ found'[s] = l
        BY <2>1, <2>3, <3>1 DEF LeaseFiles
      <4> QED BY <2>2, <3>1, <4>1 DEF Dashboard!Usable
    <3>2. CASE t # s
      BY <2>1, <2>3, <3>2 DEF LeaseFiles
    <3> QED BY <3>1, <3>2
  <2>4. ASSUME NEW r \in Dashboard!Roots, lease[r] # None
        PROVE  RootOf[lease[r]] = r /\ start'[lease[r]] \in {"leased", "stopping", "crashed"}
    BY <2>1, <2>4 DEF LeaseFiles
  <2>5. start' \in [Starts -> DashboardPhases] /\ found' \in [Starts -> Starts \cup {None}]
    BY <2>1, <2>2 DEF LeaseFiles, DashboardPhases
  <2> HIDE DEF l
  <2> QED BY <2>1, <2>3, <2>4, <2>5 DEF LeaseFiles
<1>3. ASSUME NEW s \in Starts, Dashboard!Ping(s) PROVE LeaseFiles'
  <2>1. PICK to \in {"reused", "starting"} : start' = [start EXCEPT ![s] = to]
    BY <1>3 DEF Dashboard!Ping, Dashboard!Goto
  <2>2. start[s] = "pinging" /\ UNCHANGED <<found, lease, reopenable>>
    BY <1>3 DEF Dashboard!Ping
  <2> QED BY <2>1, <2>2, GoesTo DEF DashboardPhases, LeaseFiles
<1>4. ASSUME NEW s \in Starts, Dashboard!Listen(s) \/ Dashboard!Close(s) PROVE LeaseFiles'
  <2>1. PICK to \in {"serving", "ended"} : start' = [start EXCEPT ![s] = to]
    BY <1>4 DEF Dashboard!Listen, Dashboard!Close, Dashboard!Goto
  <2>2. start[s] \in {"starting", "removed"} /\ UNCHANGED <<found, lease, reopenable>>
    BY <1>4 DEF Dashboard!Listen, Dashboard!Close
  <2> QED BY <2>1, <2>2, GoesTo DEF DashboardPhases, LeaseFiles
<1>5. ASSUME NEW s \in Starts, Dashboard!WriteLease(s) PROVE LeaseFiles'
  <2>1. /\ start[s] = "serving" /\ start' = [start EXCEPT ![s] = "leased"]
        /\ lease' = [lease EXCEPT ![RootOf[s]] = s] /\ UNCHANGED <<found, reopenable>>
    BY <1>5 DEF Dashboard!WriteLease, Dashboard!Goto
  <2>2. ASSUME NEW r \in Dashboard!Roots, lease'[r] # None
        PROVE  RootOf[lease'[r]] = r /\ start'[lease'[r]] \in {"leased", "stopping", "crashed"}
    BY <1>a, <2>1, <2>2 DEF LeaseFiles
  <2>3. start' \in [Starts -> DashboardPhases] /\ lease' \in [Dashboard!Roots -> Starts \cup {None}]
    BY <2>1 DEF LeaseFiles, DashboardPhases
  <2>4. \A t \in Starts : start'[t] \in {"pinging", "reused"} => start[t] \in {"pinging", "reused"}
    BY <2>1 DEF LeaseFiles
  <2> QED BY <2>1, <2>2, <2>3, <2>4 DEF LeaseFiles
<1>6. ASSUME NEW s \in Starts, Dashboard!Stop(s) \/ Dashboard!Crash(s) PROVE LeaseFiles'
  <2>1. PICK to \in {"stopping", "crashed"} : start' = [start EXCEPT ![s] = to]
    BY <1>6 DEF Dashboard!Stop, Dashboard!Crash, Dashboard!Goto
  <2>2. UNCHANGED <<found, lease>> /\ reopenable' \in [Starts -> SUBSET Starts]
    BY <1>6 DEF Dashboard!Stop, Dashboard!Crash, Dashboard!Gone, LeaseFiles
  <2> QED BY <2>1, <2>2, GoesTo DEF DashboardPhases
<1>7. ASSUME NEW s \in Starts, Dashboard!RemoveLease(s) PROVE LeaseFiles'
  <2>1. /\ start[s] = "stopping" /\ start' = [start EXCEPT ![s] = "removed"]
        /\ lease' = [lease EXCEPT ![RootOf[s]] = None] /\ UNCHANGED <<found, reopenable>>
    BY <1>7 DEF Dashboard!RemoveLease, Dashboard!Goto
  <2>2. ASSUME NEW r \in Dashboard!Roots, lease'[r] # None
        PROVE  RootOf[lease'[r]] = r /\ start'[lease'[r]] \in {"leased", "stopping", "crashed"}
    <3>1. r # RootOf[s] /\ lease'[r] = lease[r]
      BY <1>a, <2>1, <2>2 DEF LeaseFiles
    <3>2. RootOf[lease[r]] = r /\ lease[r] # s
      BY <2>2, <3>1 DEF LeaseFiles
    <3> QED BY <2>1, <2>2, <3>1, <3>2 DEF LeaseFiles
  <2>3. start' \in [Starts -> DashboardPhases] /\ lease' \in [Dashboard!Roots -> Starts \cup {None}]
    BY <2>1 DEF LeaseFiles, DashboardPhases
  <2>4. \A t \in Starts : start'[t] \in {"pinging", "reused"} => start[t] \in {"pinging", "reused"}
    BY <2>1 DEF LeaseFiles
  <2> QED BY <2>1, <2>2, <2>3, <2>4 DEF LeaseFiles
<1>8. ASSUME UNCHANGED Dashboard!vars PROVE LeaseFiles'
  BY <1>8 DEF Dashboard!vars, LeaseFiles
<1> QED BY <1>1, <1>2, <1>3, <1>4, <1>5, <1>6, <1>7, <1>8 DEF Dashboard!Next

\* The invariant of the starts.
LEMMA LeaseFilesInvariance == ASSUME None \notin Starts PROVE Dashboard!Spec => []LeaseFiles
<1>1. Dashboard!Init => LeaseFiles
  BY DEF Dashboard!Init, LeaseFiles, DashboardPhases
<1>2. LeaseFiles /\ [Dashboard!Next]_(Dashboard!vars) => LeaseFiles'
  BY LeaseFilesStep
<1> QED BY <1>1, <1>2, PTL DEF Dashboard!Spec

\* No dashboard that stopped leaves its lease behind, whenever it is stopped (ui.ts:69).
THEOREM StoppedTakesItsLease ==
    ASSUME None \notin Starts PROVE Dashboard!Spec => []Dashboard!StoppedLeavesNoLease
<1>1. LeaseFiles => Dashboard!StoppedLeavesNoLease
  BY DEF LeaseFiles, Dashboard!StoppedLeavesNoLease
<1> QED BY <1>1, LeaseFilesInvariance, PTL

\* Who reopens a dashboard is sent to one of this repository and build that was listening when it
\* was asked (ui.ts:21).
THEOREM ReopenedListens ==
    ASSUME None \notin Starts PROVE Dashboard!Spec => Dashboard!ReopensListening
<1>1. ASSUME LeaseFiles, Dashboard!Next, NEW t \in Starts, start'[t] = "reused", start[t] # "reused"
      PROVE  /\ Dashboard!Listening(found[t])
             /\ RootOf[found[t]] = RootOf[t] /\ BuildOf[found[t]] = BuildOf[t]
  <2>1. PICK s \in Starts :
          \/ Dashboard!Ping(s)
          \/ \E to : to # "reused" /\ start' = [start EXCEPT ![s] = to]
    BY <1>1 DEF Dashboard!Next, Dashboard!Start, Dashboard!ReadLease, Dashboard!Listen,
                Dashboard!WriteLease, Dashboard!Stop, Dashboard!RemoveLease, Dashboard!Close,
                Dashboard!Crash, Dashboard!Goto
  <2>2. CASE Dashboard!Ping(s)
    <3>1. s = t /\ start[s] = "pinging" /\ Dashboard!Listening(found[s])
      BY <1>1, <2>2 DEF Dashboard!Ping, Dashboard!Goto, LeaseFiles
    <3> QED BY <1>1, <3>1 DEF LeaseFiles
  <2>3. CASE \E to : to # "reused" /\ start' = [start EXCEPT ![s] = to]
    BY <1>1, <2>3 DEF LeaseFiles
  <2> QED BY <2>1, <2>2, <2>3
<1>2. LeaseFiles /\ [Dashboard!Next]_(Dashboard!vars)
        => [\A s \in Starts : (start')[s] = "reused" /\ start[s] # "reused" =>
              /\ Dashboard!Listening(found[s])
              /\ RootOf[found[s]] = RootOf[s] /\ BuildOf[found[s]] = BuildOf[s]]_(Dashboard!vars)
  BY <1>1
<1> QED BY <1>2, LeaseFilesInvariance, PTL DEF Dashboard!Spec, Dashboard!ReopensListening

-----------------------------------------------------------------------------
(* A browser journey *)

Kinds == {"navigate", "capture", "assert", "input", "observe", "wait"}

\* The actions of a journey.
ActionList == Actions \in Seq([kind : {"input", "observe", "wait"}, capture : BOOLEAN])

\* The tasks of the first n actions, for every n up to the end.
TaskLists(lists, end) ==
    lists = [n \in 0..end |->
                IF n = 0 THEN <<"navigate", "capture", "assert">>
                ELSE lists[n - 1] \o Journey!TasksOf(Actions[n])]

\* The recursive function is what its definition says.
LEMMA ListsExist == ASSUME NEW end \in Nat PROVE \E lists : TaskLists(lists, end)
<1> DEFINE G == {n \in Nat : \E lists : TaskLists(lists, n)}
<1>1. 0 \in G
  <2>1. TaskLists([n \in 0..0 |-> <<"navigate", "capture", "assert">>], 0)
    <3>1. \A n \in 0..0 : n = 0
      OBVIOUS
    <3> QED BY <3>1 DEF TaskLists
  <2> QED BY <2>1
<1>2. \A n \in G \cap Nat : n + 1 \in G
  <2> SUFFICES ASSUME NEW n \in Nat, n \in G PROVE n + 1 \in G
    OBVIOUS
  <2>1. PICK lists : TaskLists(lists, n)
    OBVIOUS
  <2> DEFINE more == [m \in 0..(n + 1) |->
                        IF m = 0 THEN <<"navigate", "capture", "assert">>
                        ELSE lists[m - 1] \o Journey!TasksOf(Actions[m])]
  <2>2. \A m \in 0..n : more[m] = lists[m]
    <3> SUFFICES ASSUME NEW m \in 0..n PROVE more[m] = lists[m]
      OBVIOUS
    <3>1. m \in 0..(n + 1)
      OBVIOUS
    <3> QED BY <2>1, <3>1 DEF TaskLists
  <2>3. \A m \in 0..(n + 1) : m # 0 => m - 1 \in 0..n
    OBVIOUS
  <2>4. TaskLists(more, n + 1)
    BY <2>2, <2>3 DEF TaskLists
  <2>5. n + 1 \in Nat /\ \E lists1 : TaskLists(lists1, n + 1)
    BY <2>4
  <2> QED BY <2>5
<1>3. Nat \subseteq G
  <2> HIDE DEF G
  <2> QED BY <1>1, <1>2, SetInduction
<1> QED BY <1>3

LEMMA ThroughIs ==
    ASSUME ActionList
    PROVE  /\ Journey!Through[0] = <<"navigate", "capture", "assert">>
           /\ \A n \in 1..Len(Actions) :
                 Journey!Through[n] = Journey!Through[n - 1] \o Journey!TasksOf(Actions[n])
<1>1. Len(Actions) \in Nat
  BY LenProperties DEF ActionList
<1>2. \E lists : lists = [n \in 0..Len(Actions) |->
                             IF n = 0 THEN <<"navigate", "capture", "assert">>
                             ELSE lists[n - 1] \o Journey!TasksOf(Actions[n])]
  BY <1>1, ListsExist DEF TaskLists
<1>3. Journey!Through = [n \in 0..Len(Actions) |->
                            IF n = 0 THEN <<"navigate", "capture", "assert">>
                            ELSE Journey!Through[n - 1] \o Journey!TasksOf(Actions[n])]
  BY <1>2, Zenon DEF Journey!Through
<1>4. 0 \in 0..Len(Actions) /\ \A n \in 1..Len(Actions) : n \in 0..Len(Actions) /\ n # 0
  BY <1>1
<1>5. Journey!Through[0] = <<"navigate", "capture", "assert">>
  BY <1>3, <1>4, Zenon
<1>6. ASSUME NEW n \in 1..Len(Actions)
      PROVE  Journey!Through[n] = Journey!Through[n - 1] \o Journey!TasksOf(Actions[n])
  <2>1. n \in 0..Len(Actions) /\ n # 0
    BY <1>4
  <2> QED BY <1>3, <2>1, Zenon
<1> QED BY <1>5, <1>6

\* Nothing but looks at the page after the last capture.
Shown(s) == \E k \in 1..Len(s) : s[k] = "capture" /\ \A j \in (k + 1)..Len(s) : s[j] = "assert"

\* A list of tasks that begins with the page.
TaskList(s) == s \in Seq(Kinds) /\ Len(s) >= 1 /\ s[1] = "navigate"

LEMMA TaskListGrows ==
    ASSUME NEW s, TaskList(s), NEW more \in Seq(Kinds)
    PROVE  TaskList(s \o more)
<1>1. Len(s) \in Nat /\ Len(more) \in Nat
  BY LenProperties DEF TaskList
<1>2. /\ s \o more \in Seq(Kinds) /\ Len(s \o more) = Len(s) + Len(more)
      /\ \A i \in 1..Len(s) + Len(more) : (s \o more)[i] = IF i <= Len(s) THEN s[i] ELSE more[i - Len(s)]
  BY ConcatProperties DEF TaskList
<1>3. 1 \in 1..Len(s) + Len(more) /\ 1 <= Len(s)
  BY <1>1 DEF TaskList
<1> QED BY <1>1, <1>2, <1>3 DEF TaskList

\* What is appended shows the page, or it was shown before.
LEMMA ShownAfter ==
    ASSUME NEW s, TaskList(s), NEW more \in Seq(Kinds),
           Shown(more) \/ (Shown(s) /\ \A i \in 1..Len(more) : more[i] = "assert")
    PROVE  Shown(s \o more)
<1>1. Len(s) \in Nat /\ Len(more) \in Nat
  BY LenProperties DEF TaskList
<1>2. /\ Len(s \o more) = Len(s) + Len(more)
      /\ \A i \in 1..Len(s) + Len(more) : (s \o more)[i] = IF i <= Len(s) THEN s[i] ELSE more[i - Len(s)]
  BY ConcatProperties DEF TaskList
<1>3. CASE Shown(more)
  <2>1. PICK k \in 1..Len(more) : more[k] = "capture" /\ \A j \in (k + 1)..Len(more) : more[j] = "assert"
    BY <1>3 DEF Shown
  <2>2. Len(s) + k \in 1..Len(s) + Len(more) /\ ~(Len(s) + k <= Len(s)) /\ (Len(s) + k) - Len(s) = k
    BY <1>1
  <2>3. (s \o more)[Len(s) + k] = "capture"
    BY <1>2, <2>1, <2>2
  <2>4. ASSUME NEW j \in (Len(s) + k + 1)..(Len(s) + Len(more)) PROVE (s \o more)[j] = "assert"
    <3>1. j \in 1..Len(s) + Len(more) /\ ~(j <= Len(s)) /\ j - Len(s) \in (k + 1)..Len(more)
      BY <1>1
    <3> QED BY <1>2, <2>1, <3>1
  <2> QED BY <1>2, <2>2, <2>3, <2>4 DEF Shown
<1>4. CASE Shown(s) /\ \A i \in 1..Len(more) : more[i] = "assert"
  <2>1. PICK k \in 1..Len(s) : s[k] = "capture" /\ \A j \in (k + 1)..Len(s) : s[j] = "assert"
    BY <1>4 DEF Shown
  <2>2. k \in 1..Len(s) + Len(more) /\ (s \o more)[k] = "capture"
    BY <1>1, <1>2, <2>1
  <2>3. ASSUME NEW j \in (k + 1)..(Len(s) + Len(more)) PROVE (s \o more)[j] = "assert"
    <3>1. j \in 1..Len(s) + Len(more) /\ (j <= Len(s) => j \in (k + 1)..Len(s))
          /\ (~(j <= Len(s)) => j - Len(s) \in 1..Len(more))
      BY <1>1
    <3> QED BY <1>2, <1>4, <2>1, <3>1
  <2> QED BY <1>2, <2>2, <2>3 DEF Shown
<1> QED BY <1>3, <1>4

\* Short lists.
LEMMA ShortLists ==
    /\ <<"assert">> \in Seq(Kinds) /\ Len(<<"assert">>) = 1 /\ <<"assert">>[1] = "assert"
    /\ <<"capture">> \in Seq(Kinds) /\ Shown(<<"capture">>)
    /\ <<>> \in Seq(Kinds) /\ Len(<<>>) = 0
    /\ TaskList(<<"navigate", "capture", "assert">>) /\ Shown(<<"navigate", "capture", "assert">>)
    /\ \A kind \in {"input", "observe", "wait"} : <<kind, "assert">> \in Seq(Kinds)
<1> DEFINE opening == <<"navigate", "capture", "assert">>
<1>1. opening \in Seq(Kinds) /\ Len(opening) = 3 /\ opening[1] = "navigate" /\ opening[2] = "capture"
      /\ opening[3] = "assert"
  BY DEF Kinds
<1>2. Shown(opening)
  <2>1. 2 \in 1..3 /\ \A j \in (2 + 1)..3 : j = 3
    OBVIOUS
  <2> HIDE DEF opening
  <2>2. opening[2] = "capture" /\ \A j \in (2 + 1)..Len(opening) : opening[j] = "assert"
    BY <1>1, <2>1
  <2> QED BY <1>1, <2>1, <2>2 DEF Shown
<1>3. Shown(<<"capture">>)
  <2> DEFINE one == <<"capture">>
  <2>1. Len(one) = 1 /\ one[1] = "capture"
    OBVIOUS
  <2>2. 1 \in 1..1 /\ \A j \in (1 + 1)..1 : FALSE
    OBVIOUS
  <2> HIDE DEF one
  <2>3. Shown(one)
    BY <2>1, <2>2 DEF Shown
  <2> QED BY <2>3 DEF one
<1>4. /\ <<"assert">> \in Seq(Kinds) /\ Len(<<"assert">>) = 1 /\ <<"assert">>[1] = "assert"
      /\ <<"capture">> \in Seq(Kinds)
      /\ <<>> \in Seq(Kinds) /\ Len(<<>>) = 0
      /\ \A kind \in {"input", "observe", "wait"} : <<kind, "assert">> \in Seq(Kinds)
  BY DEF Kinds
<1>5. TaskList(opening)
  <2> HIDE DEF opening
  <2> QED BY <1>1 DEF TaskList
<1> QED BY <1>2, <1>3, <1>4, <1>5

\* The tasks of an action.
LEMMA ActionTasks ==
    ASSUME ActionList, NEW n \in 1..Len(Actions)
    PROVE  /\ Journey!TasksOf(Actions[n]) \in Seq(Kinds)
           /\ Actions[n].capture => Shown(Journey!TasksOf(Actions[n]))
<1>1. Actions[n].kind \in {"input", "observe", "wait"} /\ Actions[n].capture \in BOOLEAN
  <2>1. Actions[n] \in [kind : {"input", "observe", "wait"}, capture : BOOLEAN]
    BY ElementOfSeq DEF ActionList
  <2> QED BY <2>1
<1> DEFINE first == <<Actions[n].kind, "assert">>
<1>2. first \in Seq(Kinds)
  BY <1>1, ShortLists
<1>3. Journey!TasksOf(Actions[n]) = first \o (IF Actions[n].capture THEN <<"capture">> ELSE <<>>)
  BY DEF Journey!TasksOf
<1> HIDE DEF first
<1>4. CASE Actions[n].capture
  <2>1. Journey!TasksOf(Actions[n]) = first \o <<"capture">>
    BY <1>3, <1>4
  <2>2. first \o <<"capture">> \in Seq(Kinds) /\ Shown(first \o <<"capture">>)
    <3>1. Len(first) \in Nat /\ <<"capture">> \in Seq(Kinds) /\ Len(<<"capture">>) = 1
          /\ <<"capture">>[1] = "capture"
      BY <1>2, ShortLists, LenProperties
    <3>2. /\ first \o <<"capture">> \in Seq(Kinds) /\ Len(first \o <<"capture">>) = Len(first) + 1
          /\ \A i \in 1..Len(first) + 1 :
                (first \o <<"capture">>)[i] = IF i <= Len(first) THEN first[i]
                                              ELSE <<"capture">>[i - Len(first)]
      BY <1>2, <3>1, ConcatProperties
    <3>3. Len(first) + 1 \in 1..Len(first) + 1 /\ ~(Len(first) + 1 <= Len(first))
          /\ (Len(first) + 1) - Len(first) = 1 /\ \A j \in (Len(first) + 1 + 1)..(Len(first) + 1) : FALSE
      BY <3>1
    <3>4. (first \o <<"capture">>)[Len(first) + 1] = "capture"
      BY <3>1, <3>2, <3>3
    <3> QED BY <3>2, <3>3, <3>4 DEF Shown
  <2> QED BY <2>1, <2>2
<1>5. CASE ~Actions[n].capture
  <2>1. Journey!TasksOf(Actions[n]) = first \o <<>>
    BY <1>3, <1>5
  <2>2. first \o <<>> \in Seq(Kinds)
    BY <1>2, ShortLists, ConcatProperties
  <2> QED BY <1>5, <2>1, <2>2
<1> QED BY <1>4, <1>5

LEMMA ThroughList ==
    ASSUME ActionList
    PROVE  \A n \in 0..Len(Actions) :
              /\ TaskList(Journey!Through[n])
              /\ n = 0 \/ Actions[n].capture => Shown(Journey!Through[n])
<1>1. Len(Actions) \in Nat
  BY LenProperties DEF ActionList
<1> DEFINE Right(n) == /\ TaskList(Journey!Through[n])
                       /\ n = 0 \/ Actions[n].capture => Shown(Journey!Through[n])
           G == {n \in Nat : n <= Len(Actions) => Right(n)}
<1>2. 0 \in G
  <2>1. Right(0)
    BY ThroughIs, ShortLists
  <2> HIDE DEF Right
  <2> QED BY <2>1
<1>3. \A n \in G \cap Nat : n + 1 \in G
  <2> SUFFICES ASSUME NEW n \in Nat, n \in G, n + 1 <= Len(Actions) PROVE Right(n + 1)
    <3> HIDE DEF Right
    <3> QED OBVIOUS
  <2>1. n + 1 \in 1..Len(Actions) /\ n <= Len(Actions) /\ (n + 1) - 1 = n /\ n + 1 # 0
    BY <1>1
  <2>2. TaskList(Journey!Through[n])
    BY <2>1
  <2>3. Journey!Through[n + 1] = Journey!Through[n] \o Journey!TasksOf(Actions[n + 1])
    BY <2>1, ThroughIs
  <2>4. /\ Journey!TasksOf(Actions[n + 1]) \in Seq(Kinds)
        /\ Actions[n + 1].capture => Shown(Journey!TasksOf(Actions[n + 1]))
    BY <2>1, ActionTasks
  <2>5. TaskList(Journey!Through[n + 1])
    BY <2>2, <2>3, <2>4, TaskListGrows
  <2>6. ASSUME Actions[n + 1].capture PROVE Shown(Journey!Through[n + 1])
    <3> DEFINE s == Journey!Through[n]
               more == Journey!TasksOf(Actions[n + 1])
    <3>1. TaskList(s) /\ more \in Seq(Kinds) /\ Shown(more)
      BY <2>2, <2>4, <2>6
    <3> HIDE DEF s, more
    <3>2. Shown(s \o more)
      BY <3>1, ShownAfter
    <3> QED BY <2>3, <3>2 DEF s, more
  <2> QED BY <2>1, <2>5, <2>6
<1> HIDE DEF Right
<1>4. Nat \subseteq G
  <2> HIDE DEF G
  <2> QED BY <1>2, <1>3, SetInduction
<1>5. \A n \in 0..Len(Actions) : Right(n)
  BY <1>1, <1>4
<1> QED BY <1>5 DEF Right

\* A journey begins with the page, and ends with a look at it after an image of it.
LEMMA TasksAre ==
    ASSUME ActionList
    PROVE  /\ TaskList(Journey!Tasks) /\ Shown(Journey!Tasks)
           /\ Len(Journey!Tasks) \in Nat \ {0} /\ Journey!Tasks[Len(Journey!Tasks)] = "assert"
<1> DEFINE end == Len(Actions)
           list == Journey!Through[end]
           unseen == Actions # <<>> /\ ~Actions[end].capture
           middle == list \o (IF unseen THEN <<"capture">> ELSE <<>>)
<1>1. end \in Nat /\ end \in 0..end /\ (end = 0 <=> Actions = <<>>)
  BY LenProperties, EmptySeq DEF ActionList
<1>2. TaskList(list) /\ (end = 0 \/ Actions[end].capture => Shown(list))
  BY <1>1, ThroughList
<1>3. Journey!Tasks = middle \o <<"assert">>
  BY DEF Journey!Tasks
<1>4. TaskList(middle) /\ Shown(middle)
  <2>1. CASE unseen
    <3>1. middle = list \o <<"capture">>
      BY <2>1
    <3>2. TaskList(list \o <<"capture">>) /\ Shown(list \o <<"capture">>)
      <4> HIDE DEF list
      <4> DEFINE more == <<"capture">>
      <4>1. TaskList(list) /\ more \in Seq(Kinds) /\ Shown(more)
        BY <1>2, ShortLists
      <4> HIDE DEF more
      <4>2. TaskList(list \o more) /\ Shown(list \o more)
        BY <4>1, TaskListGrows, ShownAfter
      <4> QED BY <4>2 DEF more
    <3> QED BY <3>1, <3>2
  <2>2. CASE ~unseen
    <3>1. middle = list \o <<>>
      BY <2>2
    <3>2. Shown(list)
      BY <1>1, <1>2, <2>2
    <3>3. TaskList(list \o <<>>) /\ Shown(list \o <<>>)
      <4> HIDE DEF list
      <4>1. \A i \in 1..Len(<<>>) : <<>>[i] = "assert"
        BY ShortLists
      <4> QED BY <1>2, <3>2, <4>1, ShortLists, TaskListGrows, ShownAfter
    <3> QED BY <3>1, <3>3
  <2> QED BY <2>1, <2>2
<1> HIDE DEF middle
<1>5. TaskList(middle \o <<"assert">>) /\ Shown(middle \o <<"assert">>)
  <2>1. \A i \in 1..Len(<<"assert">>) : <<"assert">>[i] = "assert"
    BY ShortLists
  <2> QED BY <1>4, <2>1, ShortLists, TaskListGrows, ShownAfter
<1>6. Len(middle \o <<"assert">>) \in Nat \ {0}
      /\ (middle \o <<"assert">>)[Len(middle \o <<"assert">>)] = "assert"
  <2>1. Len(middle) \in Nat
    BY <1>4, LenProperties DEF TaskList
  <2>2. /\ Len(middle \o <<"assert">>) = Len(middle) + 1
        /\ \A i \in 1..Len(middle) + 1 :
              (middle \o <<"assert">>)[i] = IF i <= Len(middle) THEN middle[i]
                                            ELSE <<"assert">>[i - Len(middle)]
    BY <1>4, ShortLists, ConcatProperties DEF TaskList
  <2>3. Len(middle) + 1 \in 1..Len(middle) + 1 /\ ~(Len(middle) + 1 <= Len(middle))
        /\ (Len(middle) + 1) - Len(middle) = 1 /\ Len(middle) + 1 \in Nat \ {0}
    BY <2>1
  <2> QED BY <2>2, <2>3, ShortLists
<1> QED BY <1>3, <1>5, <1>6

\* A journey that has not returned has no result yet.
NoResult == None \notin [status : {"failed", "cancelled", "timed-out", "completed", "thrown"},
                         kind : {"behavior", "environment", "deadline", "none"}]

\* Chrome is started once, and stopped once nothing is written any more; what was started is
\* closed in order.
Orderly ==
    /\ visp = "ended" => ~leader
    /\ caller \in {"server", "launch"} => ~leader /\ ~helpers /\ ~profile
    /\ caller \in {"server", "launch", "connect"} =>
          body = "off" /\ closing = "no" /\ ~connected /\ ~closed
    /\ caller = "server" => ~server
    /\ closing # "no" => closed \/ (body = "off" /\ caller \in {"closing", "ended"} /\ ~connected)
    /\ closing \in {"stop", "remove", "done"} => body # "write"
    /\ closing \in {"remove", "done"} => ~leader /\ ~helpers
    /\ closing = "done" => ~profile
    /\ caller \in {"closing", "ended"} => closed \/ (body = "off" /\ ~connected)
    /\ caller = "ended" =>
          /\ ~server
          /\ closing = "done" \/ (~leader /\ ~helpers /\ ~profile /\ body = "off")

\* The body of a journey goes on, waits, or ends with an error.
BodyStep ==
    /\ visp = "running" /\ body # "off" /\ caller \notin {"server", "launch", "connect"}
    /\ UNCHANGED <<listening, scheme, page, visp, errors, gap, fetching, signal, leader, helpers,
                   profile, connected, server, stuck>>
    /\ body' = "write" => body \in {"send", "again"} /\ ~closed
    /\ \/ UNCHANGED <<caller, closed, closing, returned>>
       \/ /\ caller = "running" /\ caller' = "image" /\ UNCHANGED <<closed, closing, returned>>
       \/ /\ caller \in {"running", "image"} /\ caller' = "closing" /\ closed' = TRUE
          /\ closing' = (IF closing = "no" THEN "writes" ELSE closing) /\ body' = "off"

LEMMA BodySteps ==
    ASSUME Orderly,
           Journey!Begin \/ Journey!Answered \/ Journey!Unanswered \/ Journey!WriteFile \/ Journey!Wakes
    PROVE  BodyStep
<1>a. ASSUME body # "off" PROVE caller \notin {"server", "launch", "connect"}
  BY <1>a DEF Orderly
<1>b. ASSUME NEW cause, Journey!Throws(cause), visp = "running", body # "off" PROVE BodyStep
  BY <1>a, <1>b DEF Journey!Throws, Journey!Ends, Journey!CloseSession, Journey!subject, Journey!seen,
                    Journey!chrome, BodyStep
<1>c. ASSUME Journey!Stays, visp = "running", body # "off",
             body' = "write" => body \in {"send", "again"} /\ ~closed
      PROVE  BodyStep
  BY <1>a, <1>c DEF Journey!Stays, Journey!subject, Journey!seen, Journey!chrome, Journey!close, BodyStep
<1>1. CASE Journey!Begin
  BY <1>1, <1>a, <1>b, <1>c DEF Journey!Begin, Journey!Ends, Journey!CloseSession, Journey!Proceeds,
     Journey!Waits, Journey!subject, Journey!seen, Journey!chrome, BodyStep
<1>2. CASE Journey!Answered
  BY <1>2, <1>a, <1>b, <1>c DEF Journey!Answered, Journey!Idle, Journey!Proceeds, Journey!Waits
<1>3. CASE Journey!Unanswered
  BY <1>3, <1>a, <1>b, <1>c DEF Journey!Unanswered, Journey!Idle
<1>4. CASE Journey!WriteFile
  BY <1>4, <1>a, <1>b, <1>c DEF Journey!WriteFile, Journey!AfterWrite, Journey!Idle, Journey!Ends,
     Journey!CloseSession, Journey!subject, Journey!seen, Journey!chrome, BodyStep
<1>5. CASE Journey!Wakes
  BY <1>5, <1>a, <1>b, <1>c DEF Journey!Wakes, Journey!Idle, Journey!Proceeds, Journey!Waits
<1> QED BY <1>1, <1>2, <1>3, <1>4, <1>5

LEMMA OrderlyStep == ASSUME Orderly, [Journey!Next]_(Journey!vars) PROVE Orderly'
<1> USE DEF Journey!Idle, Journey!CloseSession, Journey!Disconnect, Journey!Ends, Journey!subject,
            Journey!progress, Journey!seen, Journey!chrome, Journey!close
<1>1. CASE Journey!startProjectServer
  BY <1>1 DEF Orderly, Journey!startProjectServer
<1>2. CASE Journey!launchChrome
  BY <1>2 DEF Orderly, Journey!launchChrome
<1>3. CASE Journey!connect
  BY <1>3 DEF Orderly, Journey!connect
<1>4. ASSUME BodyStep PROVE Orderly'
  BY <1>4 DEF Orderly, BodyStep
<1>5. CASE Journey!Deadline \/ Journey!ImageTimesOut
  BY <1>5 DEF Orderly, Journey!Deadline, Journey!ImageTimesOut
<1>6. CASE Journey!SettleWrites
  BY <1>6 DEF Orderly, Journey!SettleWrites
<1>7. CASE Journey!stopChild
  BY <1>7 DEF Orderly, Journey!stopChild
<1>8. CASE Journey!RemoveProfile
  BY <1>8 DEF Orderly, Journey!RemoveProfile
<1>9. CASE Journey!Return
  BY <1>9 DEF Orderly, Journey!Return
<1>10. CASE Journey!HostSignals
  BY <1>10 DEF Orderly, Journey!HostSignals
<1>11. CASE Journey!VispExits
  BY <1>11 DEF Orderly, Journey!VispExits
<1>12. CASE Journey!ChromeCrashes
  BY <1>12 DEF Orderly, Journey!ChromeCrashes
<1>13. CASE Journey!ApplicationException \/ Journey!FileRequested \/ Journey!fulfill
  BY <1>13 DEF Orderly, Journey!ApplicationException, Journey!FileRequested, Journey!fulfill, Journey!Talks
<1>14. CASE UNCHANGED Journey!vars
  BY <1>14 DEF Orderly, Journey!vars
<1> QED BY <1>1, <1>2, <1>3, <1>4, <1>5, <1>6, <1>7, <1>8, <1>9, <1>10, <1>11, <1>12, <1>13, <1>14,
           BodySteps DEF Journey!Next, Journey!Step

\* What a journey that did not complete returns.
Mishaps == {Journey!Behavior, Journey!Late, Journey!Thrown, Journey!Environment("cancelled"),
            Journey!Environment("failed"), Journey!Environment("timed-out")}

LEMMA MishapsDiffer ==
    ASSUME NoResult
    PROVE  /\ None \notin Mishaps /\ Journey!Completed \notin Mishaps /\ None # Journey!Completed
           /\ Journey!Behavior \notin {Journey!Late, Journey!Thrown, Journey!Completed, None}
           /\ \A how \in {"cancelled", "failed", "timed-out"} :
                 Journey!Environment(how) # Journey!Behavior
<1> DEFINE R == [status : {"failed", "cancelled", "timed-out", "completed", "thrown"},
                 kind : {"behavior", "environment", "deadline", "none"}]
<1>1. ASSUME NEW how \in {"failed", "cancelled", "timed-out", "completed", "thrown"},
             NEW kind \in {"behavior", "environment", "deadline", "none"}
      PROVE  [status |-> how, kind |-> kind] # None
  BY DEF NoResult
<1>2. /\ Journey!Behavior # None /\ Journey!Late # None /\ Journey!Thrown # None
      /\ Journey!Environment("cancelled") # None /\ Journey!Environment("failed") # None
      /\ Journey!Environment("timed-out") # None /\ Journey!Completed # None
  BY <1>1, Zenon DEF Journey!Behavior, Journey!Late, Journey!Thrown, Journey!Environment,
                     Journey!Completed
<1>3. /\ Journey!Behavior.kind = "behavior" /\ Journey!Late.kind = "deadline"
      /\ Journey!Completed.status = "completed" /\ Journey!Completed.kind = "none"
      /\ Journey!Behavior.status = "failed" /\ Journey!Late.status = "timed-out"
      /\ Journey!Thrown.status = "thrown" /\ Journey!Thrown.kind = "none"
      /\ \A how : Journey!Environment(how).kind = "environment"
  BY DEF Journey!Behavior, Journey!Late, Journey!Thrown, Journey!Environment, Journey!Completed
<1> QED BY <1>2, <1>3 DEF Mishaps

\* What the body of a journey does in a step: it fails, finds the page as it should be, takes the
\* image of a failure or of a step, waits, or goes on to its next task.
BodyFails ==
    /\ captures' = captures /\ at' \in {at, Len(Journey!Tasks) + 1}
    /\ \/ caller \notin {"running", "image"} /\ UNCHANGED <<caller, returned, closed>>
       \/ /\ caller = "running" /\ caller' = "image" /\ page # "fine" /\ UNCHANGED <<returned, closed>>
       \/ /\ caller \in {"running", "image"} /\ caller' = "closing" /\ closed' = TRUE
          /\ returned' \in Mishaps /\ (returned' = Journey!Behavior => page # "fine")

BodyCompletes ==
    /\ body = "next" /\ Journey!Task = "assert" /\ ~errors /\ at = Len(Journey!Tasks)
    /\ caller = "running" /\ caller' = "closing" /\ closed' = TRUE /\ returned' = Journey!Completed
    /\ UNCHANGED <<captures, at>>

BodyCaptures ==
    /\ body = "write" /\ ~closed /\ ~gap /\ ~fetching /\ captures' = captures + 1
    /\ \/ /\ caller = "image" /\ caller' = "closing" /\ closed' = TRUE /\ returned' = Journey!Behavior
          /\ at' = at
       \/ /\ caller # "image" /\ at' = at + 1 /\ body' = "next" /\ UNCHANGED <<caller, returned, closed>>

BodyWaits ==
    /\ UNCHANGED <<at, captures, caller, returned, closed>> /\ body' # "next"
    /\ body' = "write" => Journey!Task = "capture"

BodyProceeds ==
    /\ body' = "next" /\ at' = at + 1 /\ UNCHANGED <<captures, caller, returned, closed>>
    /\ \/ body = "next" /\ Journey!Task = "assert" /\ at < Len(Journey!Tasks)
       \/ Journey!Task = "navigate" /\ page # "refused"
       \/ Journey!Task = "observe" /\ page # "lacks"
       \/ Journey!Task \in {"input", "wait"}

BodyMove == BodyFails \/ BodyCompletes \/ BodyCaptures \/ BodyWaits \/ BodyProceeds

LEMMA BodyMoves ==
    ASSUME errors => page = "throws", caller = "image" => page # "fine", NoResult,
           Journey!Begin \/ Journey!Answered \/ Journey!Unanswered \/ Journey!WriteFile \/ Journey!Wakes
    PROVE  BodyMove
<1>a. ASSUME NEW cause, Journey!Throws(cause), cause = "behavior" => page # "fine" PROVE BodyFails
  <2>1. CASE caller = "running" /\ cause = "behavior" /\ caller' = "image"
                /\ at' = Len(Journey!Tasks) + 1
                /\ UNCHANGED <<returned, closed, captures>>
    BY <2>1, <1>a DEF BodyFails
  <2>2. CASE caller = "running" /\ (cause # "behavior" \/ captures >= MaxCaptures)
                /\ Journey!Ends(Journey!Failure(cause)) /\ captures' = captures /\ at' = at
    <3>1. returned' = Journey!Failure(cause) /\ caller' = "closing" /\ closed' = TRUE
      BY <2>2 DEF Journey!Ends, Journey!CloseSession
    <3>2. Journey!Failure(cause) \in Mishaps
      BY DEF Mishaps, Journey!Failure
    <3>3. Journey!Failure(cause) = Journey!Behavior => cause = "behavior"
      BY MishapsDiffer DEF Journey!Failure
    <3> QED BY <1>a, <2>2, <3>1, <3>2, <3>3 DEF BodyFails
  <2>3. CASE caller = "image" /\ captures' = captures /\ at' = at
                /\ Journey!Ends(IF cause = "security" THEN Journey!Thrown ELSE Journey!Behavior)
    BY <2>3 DEF Journey!Ends, Journey!CloseSession, Mishaps, BodyFails
  <2>4. CASE caller \notin {"running", "image"}
    BY <2>4, <1>a DEF Journey!Throws, BodyFails
  <2> QED BY <1>a, <2>1, <2>2, <2>3, <2>4 DEF Journey!Throws
<1>b. ASSUME NEW for \in {"send", "again", "sleep", "write"}, Journey!Waits(for),
             for = "write" => Journey!Task = "capture"
      PROVE  BodyWaits
  BY <1>b DEF Journey!Waits, Journey!Stays, Journey!close, BodyWaits
<1>1. CASE Journey!Begin
  <2> DEFINE interrupted == Journey!Task \notin {"capture", "assert"} /\ (signal \/ caller # "running")
  <2>1. CASE Journey!Throws("aborted") \/ Journey!Throws("closed")
    BY <2>1, <1>a DEF BodyMove
  <2>2. CASE errors /\ Journey!Throws("behavior")
    BY <2>2, <1>a DEF BodyMove
  <2>3. CASE /\ body = "next" /\ Journey!Task = "assert" /\ ~errors /\ at = Len(Journey!Tasks)
             /\ caller = "running" /\ Journey!Ends(Journey!Completed) /\ UNCHANGED <<at, captures>>
    BY <2>3 DEF Journey!Ends, Journey!CloseSession, BodyCompletes, BodyMove
  <2>4. CASE /\ body = "next" /\ Journey!Task = "assert" /\ ~errors /\ at < Len(Journey!Tasks)
             /\ Journey!Proceeds
    BY <2>4 DEF Journey!Proceeds, Journey!Stays, Journey!close, BodyProceeds, BodyMove
  <2>5. CASE Journey!Waits("sleep") \/ Journey!Waits("send")
    BY <2>5, <1>b DEF BodyMove
  <2> QED BY <1>1, <2>1, <2>2, <2>3, <2>4, <2>5 DEF Journey!Begin
<1>2. CASE Journey!Answered
  <2>1. CASE Journey!Throws("closed") \/ Journey!Throws("security")
    BY <2>1, <1>a DEF BodyMove
  <2>2. CASE page \in {"refused", "lacks"} /\ Journey!Throws("behavior")
    BY <2>2, <1>a DEF BodyMove
  <2>3. CASE errors /\ Journey!Throws("behavior")
    BY <2>3, <1>a DEF BodyMove
  <2>4. CASE Journey!Proceeds /\ \/ Journey!Task = "navigate" /\ page # "refused"
                                 \/ Journey!Task = "input"
                                 \/ Journey!Task = "observe" /\ page # "lacks"
    BY <2>4 DEF Journey!Proceeds, Journey!Stays, Journey!close, BodyProceeds, BodyMove
  <2>5. CASE Journey!Waits("sleep") \/ (Journey!Task = "capture" /\ Journey!Waits("write"))
    BY <2>5, <1>b DEF BodyMove
  <2> QED BY <1>2, <2>1, <2>2, <2>3, <2>4, <2>5 DEF Journey!Answered
<1>3. CASE Journey!Unanswered
  BY <1>3, <1>a DEF Journey!Unanswered, BodyMove
<1>4. CASE Journey!WriteFile
  <2>1. CASE Journey!Throws("closed") \/ Journey!Throws("security") \/ Journey!Throws("error")
    BY <2>1, <1>a DEF BodyMove
  <2>2. CASE /\ body = "write" /\ ~fetching /\ ~closed /\ ~gap /\ captures' = captures + 1
             /\ caller = "image" /\ at' = at /\ Journey!Ends(Journey!Behavior)
    BY <2>2 DEF Journey!Ends, Journey!CloseSession, BodyCaptures, BodyMove
  <2>3. CASE /\ body = "write" /\ ~fetching /\ ~closed /\ ~gap /\ captures' = captures + 1
             /\ caller # "image" /\ body' = "next" /\ at' = at + 1 /\ Journey!Stays
    BY <2>3 DEF Journey!Stays, Journey!close, BodyCaptures, BodyMove
  <2> QED BY <1>4, <2>1, <2>2, <2>3 DEF Journey!WriteFile, Journey!AfterWrite
<1>5. CASE Journey!Wakes
  <2>1. CASE Journey!Throws("aborted")
    BY <2>1, <1>a DEF BodyMove
  <2>2. CASE errors /\ Journey!Throws("behavior")
    BY <2>2, <1>a DEF BodyMove
  <2>3. CASE Journey!Task = "wait" /\ Journey!Proceeds
    BY <2>3 DEF Journey!Proceeds, Journey!Stays, Journey!close, BodyProceeds, BodyMove
  <2>4. CASE Journey!Waits("again")
    BY <2>4, <1>b DEF BodyMove
  <2> QED BY <1>5, <2>1, <2>2, <2>3, <2>4 DEF Journey!Wakes
<1> QED BY <1>1, <1>2, <1>3, <1>4, <1>5

\* The captures among the tasks before n.
CapturesBefore(n) == {i \in 1..(n - 1) : Journey!Tasks[i] = "capture"}

\* Before n, nothing but looks at the page after the last capture.
ShownBefore(n) ==
    \E k \in 1..(n - 1) :
        Journey!Tasks[k] = "capture" /\ \A j \in (k + 1)..(n - 1) : Journey!Tasks[j] = "assert"

LEMMA NextTask ==
    ASSUME NEW n \in Nat, n >= 1
    PROVE  /\ IsFiniteSet(CapturesBefore(n)) /\ Cardinality(CapturesBefore(n)) \in Nat
           /\ Cardinality(CapturesBefore(n + 1)) =
                 Cardinality(CapturesBefore(n)) + (IF Journey!Tasks[n] = "capture" THEN 1 ELSE 0)
           /\ ShownBefore(n + 1) =>
                 Journey!Tasks[n] = "capture" \/ (Journey!Tasks[n] = "assert" /\ ShownBefore(n))
<1>1. IsFiniteSet(CapturesBefore(n)) /\ Cardinality(CapturesBefore(n)) \in Nat
  <2>1. IsFiniteSet(1..(n - 1))
    BY FS_Interval
  <2>2. IsFiniteSet(CapturesBefore(n))
    BY <2>1, FS_Subset DEF CapturesBefore
  <2> QED BY <2>2, FS_CardinalityType
<1>2. CASE Journey!Tasks[n] = "capture"
  <2>1. n \notin CapturesBefore(n) /\ CapturesBefore(n + 1) = CapturesBefore(n) \cup {n}
    <3>1. \A i : i \in 1..((n + 1) - 1) <=> i \in 1..(n - 1) \/ i = n
      OBVIOUS
    <3>2. n \notin 1..(n - 1)
      OBVIOUS
    <3> QED BY <1>2, <3>1, <3>2 DEF CapturesBefore
  <2>2. Cardinality(CapturesBefore(n) \cup {n}) = Cardinality(CapturesBefore(n)) + 1
    BY <1>1, <2>1, FS_AddElement
  <2> QED BY <1>1, <1>2, <2>1, <2>2
<1>3. CASE Journey!Tasks[n] # "capture"
  <2>1. CapturesBefore(n + 1) = CapturesBefore(n)
    <3>1. \A i : i \in 1..((n + 1) - 1) <=> i \in 1..(n - 1) \/ i = n
      OBVIOUS
    <3> QED BY <1>3, <3>1 DEF CapturesBefore
  <2>2. ASSUME ShownBefore(n + 1) PROVE Journey!Tasks[n] = "assert" /\ ShownBefore(n)
    <3>1. PICK k \in 1..n :
             Journey!Tasks[k] = "capture" /\ \A j \in (k + 1)..n : Journey!Tasks[j] = "assert"
      BY <2>2 DEF ShownBefore
    <3>2. k # n
      BY <1>3, <3>1
    <3>3. k \in 1..(n - 1) /\ n \in (k + 1)..n /\ \A j \in (k + 1)..(n - 1) : j \in (k + 1)..n
      BY <3>2
    <3> QED BY <3>1, <3>3 DEF ShownBefore
  <2>3. Cardinality(CapturesBefore(n)) + 0 = Cardinality(CapturesBefore(n))
    BY <1>1
  <2> QED BY <1>1, <1>3, <2>1, <2>2, <2>3
<1> QED BY <1>2, <1>3

\* What a page is blamed for is its own; the server of a project's page is there while a session
\* is open.
Blames ==
    /\ page \in {"fine", "throws", "refused", "lacks"}
    /\ caller \in {"server", "launch", "connect", "running", "image", "closing", "ended"}
    /\ scheme = "project" /\ ~closed /\ caller \in {"launch", "connect", "running", "image"} => server
    /\ errors => page = "throws"
    /\ caller = "image" => page # "fine"
    /\ returned = Journey!Behavior => page # "fine"
    /\ caller \notin {"closing", "ended"} => returned = None

\* How far the body of a journey is, while the caller waits for it.
Place ==
    /\ at \in Nat /\ captures \in Nat
    /\ caller \in {"server", "launch", "connect"} => at = 1
    /\ caller \in {"server", "launch", "connect", "running"} =>
          /\ at \in 1..Len(Journey!Tasks)
          /\ captures = Cardinality(CapturesBefore(at))
          /\ at > 1 => page # "refused"
          /\ page = "lacks" => \A i \in 1..(at - 1) : Journey!Tasks[i] # "observe"
    /\ caller = "running" /\ body = "write" => Journey!Tasks[at] = "capture"
    /\ caller = "running" /\ body = "next" /\ ShownBefore(at) => ~gap /\ ~fetching

\* A completed journey stays as it was when it completed.
Complete ==
    returned = Journey!Completed =>
        /\ body = "off" /\ closed /\ ~errors /\ ~gap /\ ~fetching /\ page # "refused"
        /\ captures = Cardinality({i \in DOMAIN Journey!Tasks : Journey!Tasks[i] = "capture"})
        /\ page = "lacks" => \A i \in DOMAIN Journey!Tasks : Journey!Tasks[i] # "observe"

Truth == Orderly /\ Blames /\ Place /\ Complete

LEMMA JourneyStarts == ASSUME Journey!Init, ActionList, NoResult PROVE Truth
<1>1. Orderly
  BY DEF Journey!Init, Orderly
<1>2. Blames
  BY MishapsDiffer DEF Journey!Init, Blames
<1>3. Place
  <2>1. CapturesBefore(1) = {} /\ ~ShownBefore(1)
    <3>1. \A i : i \notin 1..(1 - 1)
      OBVIOUS
    <3> QED BY <3>1 DEF CapturesBefore, ShownBefore
  <2>2. Cardinality(CapturesBefore(1)) = 0
    BY <2>1, FS_EmptySet
  <2>3. 1 \in 1..Len(Journey!Tasks) /\ \A i : i \notin 1..(1 - 1)
    BY TasksAre
  <2>4. at = 1 /\ captures = 0 /\ body = "off" /\ caller = "server"
    BY DEF Journey!Init
  <2> QED BY <2>1, <2>2, <2>3, <2>4 DEF Place
<1>4. Complete
  BY MishapsDiffer DEF Journey!Init, Complete
<1> QED BY <1>1, <1>2, <1>3, <1>4 DEF Truth

LEMMA BlamesStep ==
    ASSUME Orderly, Blames, NoResult, [Journey!Next]_(Journey!vars)
    PROVE  Blames'
<1> USE DEF Journey!Idle, Journey!CloseSession, Journey!Disconnect, Journey!Ends, Journey!subject,
            Journey!progress, Journey!seen, Journey!chrome, Journey!close
<1>a. \A how \in {"cancelled", "failed", "timed-out"} : Journey!Environment(how) # Journey!Behavior
  BY MishapsDiffer
<1>b. Journey!Thrown # Journey!Behavior /\ Journey!Late # Journey!Behavior
  BY MishapsDiffer
<1>1. CASE Journey!startProjectServer
  BY <1>1, <1>a DEF Blames, Orderly, Journey!startProjectServer
<1>2. CASE Journey!launchChrome
  BY <1>2, <1>b DEF Blames, Orderly, Journey!launchChrome
<1>3. CASE Journey!connect
  BY <1>3, <1>b DEF Blames, Orderly, Journey!connect
<1>4. ASSUME BodyStep, BodyMove PROVE Blames'
  <2>1. /\ UNCHANGED <<page, scheme, errors, server>>
        /\ \/ UNCHANGED <<caller, closed>>
           \/ caller = "running" /\ caller' = "image" /\ UNCHANGED closed
           \/ caller \in {"running", "image"} /\ caller' = "closing" /\ closed' = TRUE
    BY <1>4 DEF BodyStep
  <2>2. CASE BodyFails
    BY <2>1, <2>2 DEF Blames, BodyFails
  <2>3. CASE BodyCompletes
    BY <2>1, <2>3, MishapsDiffer DEF Blames, BodyCompletes
  <2>4. CASE BodyCaptures
    BY <2>1, <2>4 DEF Blames, BodyCaptures
  <2>5. CASE BodyWaits \/ BodyProceeds
    BY <2>1, <2>5 DEF Blames, BodyWaits, BodyProceeds
  <2> QED BY <1>4, <2>2, <2>3, <2>4, <2>5 DEF BodyMove
<1>5. CASE Journey!Deadline
  BY <1>5, <1>a, <1>b DEF Blames, Journey!Deadline
<1>6. CASE Journey!ImageTimesOut
  BY <1>6 DEF Blames, Journey!ImageTimesOut
<1>7. CASE Journey!SettleWrites
  BY <1>7 DEF Blames, Journey!SettleWrites
<1>8. CASE Journey!stopChild \/ Journey!RemoveProfile
  <2>1. UNCHANGED <<scheme, page, caller, server, closed, errors, returned>>
    BY <1>8 DEF Journey!stopChild, Journey!RemoveProfile
  <2> QED BY <2>1 DEF Blames
<1>9. CASE Journey!Return
  BY <1>9, <1>a, <1>b DEF Blames, Journey!Return
<1>10. CASE Journey!HostSignals
  BY <1>10 DEF Blames, Journey!HostSignals
<1>11. CASE Journey!VispExits \/ Journey!ChromeCrashes
  BY <1>11 DEF Blames, Journey!VispExits, Journey!ChromeCrashes
<1>12. CASE Journey!ApplicationException
  BY <1>12 DEF Blames, Orderly, Journey!ApplicationException, Journey!Talks
<1>13. CASE Journey!FileRequested \/ Journey!fulfill
  BY <1>13 DEF Blames, Journey!FileRequested, Journey!fulfill
<1>14. CASE UNCHANGED Journey!vars
  BY <1>14 DEF Blames, Journey!vars
<1>15. errors => page = "throws"
  BY DEF Blames
<1>16. caller = "image" => page # "fine"
  BY DEF Blames
<1> QED BY <1>1, <1>2, <1>3, <1>4, <1>5, <1>6, <1>7, <1>8, <1>9, <1>10, <1>11, <1>12, <1>13, <1>14,
           <1>15, <1>16, BodySteps, BodyMoves DEF Journey!Next, Journey!Step

LEMMA PlaceStep ==
    ASSUME Orderly, Blames, Place, ActionList, NoResult, [Journey!Next]_(Journey!vars)
    PROVE  Place'
<1> DEFINE Reached(n, shot) ==
              /\ n \in 1..Len(Journey!Tasks) /\ shot = Cardinality(CapturesBefore(n))
              /\ n > 1 => page # "refused"
              /\ page = "lacks" => \A i \in 1..(n - 1) : Journey!Tasks[i] # "observe"
<1>0. /\ Len(Journey!Tasks) \in Nat \ {0} /\ Journey!Tasks[Len(Journey!Tasks)] = "assert"
      /\ Journey!Tasks[1] = "navigate"
  BY TasksAre DEF TaskList
<1>1. ASSUME UNCHANGED <<page, at, captures>>, caller' = "closing" PROVE Place'
  BY <1>1 DEF Place
<1>2. ASSUME UNCHANGED <<page, at, captures, caller, body>>,
             body = "next" /\ ~gap /\ ~fetching => ~gap' /\ ~fetching'
      PROVE  Place'
  BY <1>2 DEF Place
<1>3. CASE Journey!startProjectServer
  BY <1>3 DEF Place, Journey!startProjectServer, Journey!subject, Journey!progress, Journey!seen
<1>4. CASE Journey!launchChrome
  BY <1>4, <1>1 DEF Place, Journey!launchChrome, Journey!subject, Journey!progress, Journey!seen
<1>5. CASE Journey!connect
  <2>1. /\ UNCHANGED <<page, at, captures>> /\ at = 1 /\ Reached(at, captures)
        /\ caller' = "closing" \/ (caller' = "running" /\ body' = "next")
    BY <1>5 DEF Place, Journey!connect, Journey!subject
  <2>2. ~ShownBefore(1)
    <3>1. \A i : i \notin 1..(1 - 1)
      OBVIOUS
    <3> QED BY <3>1 DEF ShownBefore
  <2> QED BY <2>1, <2>2 DEF Place
<1>6. ASSUME BodyStep, BodyMove PROVE Place'
  <2>0. UNCHANGED <<page, gap, fetching>> /\ caller \notin {"server", "launch", "connect"}
        /\ (caller' = "running" => caller = "running") /\ caller' \notin {"server", "launch", "connect"}
    BY <1>6 DEF BodyStep
  <2>1. at \in Nat /\ captures \in Nat
    BY DEF Place
  <2>2. CASE caller' # "running"
    <3>1. at' \in Nat /\ captures' \in Nat
      <4>1. CASE BodyFails
        BY <4>1, <2>1, <1>0 DEF BodyFails
      <4>2. CASE BodyCompletes
        BY <4>2, <2>1 DEF BodyCompletes
      <4>3. CASE BodyCaptures
        <5>1. at' \in {at, at + 1} /\ captures' = captures + 1
          BY <4>3 DEF BodyCaptures
        <5> QED BY <2>1, <5>1
      <4>4. CASE BodyWaits \/ BodyProceeds
        BY <4>4, <2>1 DEF BodyWaits, BodyProceeds
      <4> QED BY <1>6, <4>1, <4>2, <4>3, <4>4 DEF BodyMove
    <3> QED BY <2>0, <2>2, <3>1 DEF Place
  <2>3. CASE caller' = "running"
    <3>1. caller = "running" /\ Reached(at, captures)
      BY <2>0, <2>3 DEF Place
    <3>2. Journey!Task = Journey!Tasks[at]
      BY <3>1, <1>0 DEF Journey!Task
    <3>3. CASE BodyWaits
      <4>1. /\ at' = at /\ captures' = captures /\ body' # "next"
            /\ body' = "write" => Journey!Tasks[at] = "capture"
        BY <3>2, <3>3 DEF BodyWaits
      <4> QED BY <2>0, <2>1, <2>3, <3>1, <4>1 DEF Place
    <3>4. ASSUME at' = at + 1, body' = "next", Journey!Tasks[at] # "assert" \/ at < Len(Journey!Tasks),
                 captures' = captures + (IF Journey!Tasks[at] = "capture" THEN 1 ELSE 0),
                 Journey!Tasks[at] = "navigate" => page # "refused",
                 Journey!Tasks[at] = "observe" => page # "lacks",
                 ShownBefore(at + 1) => ~gap /\ ~fetching
          PROVE  Place'
      <4>1. at + 1 \in 1..Len(Journey!Tasks)
        BY <1>0, <3>1, <3>4
      <4>2. captures' = Cardinality(CapturesBefore(at + 1))
        BY <2>1, <3>1, <3>4, NextTask
      <4>3. page # "refused"
        BY <1>0, <3>1, <3>4
      <4>4. page = "lacks" => \A i \in 1..((at + 1) - 1) : Journey!Tasks[i] # "observe"
        <5>1. \A i \in 1..((at + 1) - 1) : i \in 1..(at - 1) \/ i = at
          BY <2>1
        <5> QED BY <3>1, <3>4, <5>1
      <4>5. captures' \in Nat /\ at + 1 \in Nat
        BY <2>1, <3>4
      <4> HIDE DEF Reached
      <4> QED BY <2>0, <2>3, <3>4, <4>1, <4>2, <4>3, <4>4, <4>5 DEF Place
    <3>5. CASE BodyCaptures
      <4>1. /\ body = "write" /\ ~gap /\ ~fetching
            /\ captures' = captures + 1 /\ at' = at + 1 /\ body' = "next"
        BY <2>3, <3>1, <3>5 DEF BodyCaptures
      <4>2. Journey!Tasks[at] = "capture"
        BY <3>1, <4>1 DEF Place
      <4> QED BY <3>4, <4>1, <4>2
    <3>6. CASE BodyProceeds
      <4>1. body' = "next" /\ at' = at + 1 /\ captures' = captures
        BY <3>6 DEF BodyProceeds
      <4>2. \/ body = "next" /\ Journey!Tasks[at] = "assert" /\ at < Len(Journey!Tasks)
            \/ Journey!Tasks[at] = "navigate" /\ page # "refused"
            \/ Journey!Tasks[at] = "observe" /\ page # "lacks"
            \/ Journey!Tasks[at] \in {"input", "wait"}
        BY <3>2, <3>6 DEF BodyProceeds
      <4>3. ShownBefore(at + 1) => Journey!Tasks[at] = "assert" /\ ShownBefore(at)
        <5>1. Journey!Tasks[at] # "capture" /\ at >= 1
          BY <3>1, <4>2
        <5> QED BY <2>1, <5>1, NextTask
      <4>4. ShownBefore(at + 1) => ~gap /\ ~fetching
        BY <3>1, <4>2, <4>3 DEF Place
      <4>5. captures' = captures + (IF Journey!Tasks[at] = "capture" THEN 1 ELSE 0)
        BY <2>1, <4>1, <4>2
      <4>6. /\ Journey!Tasks[at] # "assert" \/ at < Len(Journey!Tasks)
            /\ Journey!Tasks[at] = "navigate" => page # "refused"
            /\ Journey!Tasks[at] = "observe" => page # "lacks"
        BY <4>2
      <4> QED BY <3>4, <4>1, <4>4, <4>5, <4>6
    <3>7. ~BodyFails /\ ~BodyCompletes
      BY <1>6, <2>3, <3>1 DEF BodyFails, BodyCompletes
    <3> QED BY <1>6, <3>3, <3>5, <3>6, <3>7 DEF BodyMove
  <2> QED BY <2>2, <2>3
<1>7. CASE Journey!Deadline \/ Journey!ImageTimesOut
  BY <1>7, <1>1 DEF Journey!Deadline, Journey!ImageTimesOut, Journey!Ends, Journey!subject,
                    Journey!progress
<1>8. CASE Journey!SettleWrites
  BY <1>8, <1>2 DEF Journey!SettleWrites, Journey!subject, Journey!progress, Journey!Idle
<1>9. CASE Journey!stopChild \/ Journey!RemoveProfile \/ Journey!HostSignals \/ Journey!VispExits
  <2>1. UNCHANGED <<page, at, captures, caller, body, gap, fetching>>
    BY <1>9 DEF Journey!stopChild, Journey!RemoveProfile, Journey!HostSignals, Journey!VispExits,
       Journey!subject, Journey!progress, Journey!seen
  <2> QED BY <1>2, <2>1
<1>10. CASE Journey!Return
  BY <1>10 DEF Place, Journey!Return, Journey!subject, Journey!progress, Journey!seen
<1>11. CASE Journey!ChromeCrashes
  BY <1>11, <1>2 DEF Journey!ChromeCrashes, Journey!Disconnect, Journey!subject, Journey!progress
<1>12. CASE Journey!ApplicationException \/ Journey!FileRequested \/ Journey!fulfill
  BY <1>12, <1>2 DEF Journey!ApplicationException, Journey!FileRequested, Journey!fulfill,
     Journey!Talks, Journey!Idle, Journey!subject, Journey!progress
<1>13. CASE UNCHANGED Journey!vars
  BY <1>13, <1>2 DEF Journey!vars, Journey!subject, Journey!progress, Journey!seen
<1>14. (errors => page = "throws") /\ (caller = "image" => page # "fine")
  BY DEF Blames
<1> QED BY <1>3, <1>4, <1>5, <1>6, <1>7, <1>8, <1>9, <1>10, <1>11, <1>12, <1>13, <1>14,
           BodySteps, BodyMoves DEF Journey!Next, Journey!Step

LEMMA CompleteStep ==
    ASSUME Orderly, Blames, Place, Complete, ActionList, NoResult, [Journey!Next]_(Journey!vars)
    PROVE  Complete'
<1> USE DEF Journey!Idle, Journey!subject, Journey!progress, Journey!seen, Journey!chrome, Journey!close
<1>a. /\ Journey!Completed \notin Mishaps /\ Journey!Completed # None
      /\ Journey!Behavior # Journey!Completed
  BY MishapsDiffer
<1>b. /\ Journey!Thrown \in Mishaps /\ Journey!Late \in Mishaps /\ Journey!Behavior \in Mishaps
      /\ Journey!Environment("cancelled") \in Mishaps
  BY DEF Mishaps
\* What was returned stays, or is a mishap.
<1>c. ASSUME returned' = Journey!Completed => returned = Journey!Completed,
             UNCHANGED <<page, at, captures, body, errors>>, closed => closed',
             ~gap /\ ~fetching => ~gap' /\ ~fetching'
      PROVE  Complete'
  BY <1>c DEF Complete
<1>1. CASE Journey!startProjectServer
  <2>1. returned' # Journey!Completed \/ returned' = returned
    BY <1>1, <1>a, <1>b DEF Journey!startProjectServer
  <2> QED BY <1>1, <1>c, <2>1 DEF Journey!startProjectServer
<1>2. CASE Journey!launchChrome
  <2>1. caller = "launch" /\ returned = None
    BY <1>2 DEF Journey!launchChrome, Blames
  <2>2. returned' # Journey!Completed
    BY <1>2, <2>1, <1>a, <1>b DEF Journey!launchChrome
  <2> QED BY <2>2 DEF Complete
<1>3. CASE Journey!connect
  <2>1. caller = "connect" /\ returned = None
    BY <1>3 DEF Journey!connect, Blames
  <2>2. returned' # Journey!Completed
    BY <1>3, <2>1, <1>a, <1>b DEF Journey!connect
  <2> QED BY <2>2 DEF Complete
<1>4. ASSUME BodyStep, BodyMove PROVE Complete'
  <2>1. UNCHANGED <<page, errors, gap, fetching>> /\ body # "off"
        /\ (caller' = "closing" /\ caller # "closing" => body' = "off")
    BY <1>4 DEF BodyStep
  <2>2. returned # Journey!Completed
    BY <2>1 DEF Complete
  <2>3. CASE BodyFails \/ BodyWaits \/ BodyProceeds \/ BodyCaptures
    <3>1. returned' # Journey!Completed
      <4>1. CASE BodyFails
        BY <4>1, <2>2, <1>a DEF BodyFails
      <4>2. CASE BodyCaptures
        BY <4>2, <2>2, <1>a DEF BodyCaptures
      <4>3. CASE BodyWaits \/ BodyProceeds
        BY <4>3, <2>2 DEF BodyWaits, BodyProceeds
      <4> QED BY <2>3, <4>1, <4>2, <4>3
    <3> QED BY <3>1 DEF Complete
  <2>4. CASE BodyCompletes
    <3> DEFINE T == Journey!Tasks
    <3>1. /\ body = "next" /\ ~errors /\ at = Len(T) /\ caller = "running" /\ closed' = TRUE
          /\ body' = "off" /\ captures' = captures
      BY <2>1, <2>4 DEF BodyCompletes
    <3>2. /\ T \in Seq(Kinds) /\ Len(T) \in Nat \ {0} /\ T[1] = "navigate" /\ T[Len(T)] = "assert"
          /\ Shown(T)
      BY TasksAre DEF TaskList
    <3>3. PICK k \in 1..Len(T) : T[k] = "capture" /\ \A j \in (k + 1)..Len(T) : T[j] = "assert"
      BY <3>2 DEF Shown
    <3>4. k # Len(T)
      BY <3>2, <3>3
    <3>5. k \in 1..(Len(T) - 1) /\ \A j \in (k + 1)..(Len(T) - 1) : j \in (k + 1)..Len(T)
      BY <3>2, <3>3, <3>4
    <3>6. ShownBefore(Len(T))
      BY <3>3, <3>5 DEF ShownBefore
    <3>7. ~gap /\ ~fetching
      BY <3>1, <3>6 DEF Place
    <3>8. Len(T) > 1
      BY <3>2
    <3>9. page # "refused"
      BY <3>1, <3>8 DEF Place
    <3>10. DOMAIN T = 1..Len(T)
      BY <3>2
    <3>11. \A i \in 1..Len(T) : i \in 1..(Len(T) - 1) \/ i = Len(T)
      BY <3>2
    <3>12. CapturesBefore(Len(T)) = {i \in DOMAIN T : T[i] = "capture"}
      <4>1. \A i \in 1..(Len(T) - 1) : i \in 1..Len(T)
        BY <3>2
      <4> QED BY <3>2, <3>10, <3>11, <4>1 DEF CapturesBefore
    <3>13. captures = Cardinality(CapturesBefore(Len(T)))
      BY <3>1 DEF Place
    <3>14. page = "lacks" => \A i \in DOMAIN T : T[i] # "observe"
      <4>1. page = "lacks" => \A i \in 1..(Len(T) - 1) : T[i] # "observe"
        BY <3>1 DEF Place
      <4> QED BY <3>2, <3>10, <3>11, <4>1
    <3> QED BY <2>1, <3>1, <3>7, <3>9, <3>12, <3>13, <3>14 DEF Complete
  <2> QED BY <1>4, <2>3, <2>4 DEF BodyMove
<1>5. CASE Journey!Deadline \/ Journey!ImageTimesOut
  <2>1. returned' # Journey!Completed
    BY <1>5, <1>a, <1>b DEF Journey!Deadline, Journey!ImageTimesOut, Journey!Ends
  <2> QED BY <2>1 DEF Complete
<1>6. CASE Journey!SettleWrites
  BY <1>6, <1>c DEF Journey!SettleWrites, Journey!Disconnect
<1>7. CASE Journey!stopChild \/ Journey!RemoveProfile \/ Journey!VispExits
  <2>1. UNCHANGED <<page, at, captures, body, errors, closed, gap, fetching, returned>>
    BY <1>7 DEF Journey!stopChild, Journey!RemoveProfile, Journey!VispExits
  <2> QED BY <1>c, <2>1
<1>8. CASE Journey!Return
  <2>1. UNCHANGED <<page, at, captures, body, errors, closed, gap, fetching>>
    BY <1>8 DEF Journey!Return
  <2>2. returned' = Journey!Completed => returned = Journey!Completed
    BY <1>8, <1>a, <1>b DEF Journey!Return
  <2> QED BY <1>c, <2>1, <2>2
<1>9. CASE Journey!HostSignals
  <2>1. UNCHANGED <<page, at, captures, body, errors, gap, fetching, returned>> /\ (closed => closed')
    BY <1>9 DEF Journey!HostSignals, Journey!CloseSession
  <2> QED BY <1>c, <2>1
<1>10. CASE Journey!ChromeCrashes
  BY <1>10, <1>c DEF Journey!ChromeCrashes, Journey!Disconnect
<1>11. CASE Journey!ApplicationException \/ Journey!FileRequested
  <2>1. ~closed /\ returned' = returned
    BY <1>11 DEF Journey!ApplicationException, Journey!FileRequested
  <2> QED BY <2>1 DEF Complete
<1>12. CASE Journey!fulfill
  BY <1>12, <1>c DEF Journey!fulfill
<1>13. CASE UNCHANGED Journey!vars
  BY <1>13, <1>c DEF Journey!vars
<1>14. (errors => page = "throws") /\ (caller = "image" => page # "fine")
  BY DEF Blames
<1> QED BY <1>1, <1>2, <1>3, <1>4, <1>5, <1>6, <1>7, <1>8, <1>9, <1>10, <1>11, <1>12, <1>13, <1>14,
           BodySteps, BodyMoves DEF Journey!Next, Journey!Step

LEMMA CapturesSettle ==
    ASSUME Orderly, Blames, NoResult, [Journey!Next]_(Journey!vars)
    PROVE  returned # None => captures' = captures
<1> USE DEF Journey!subject, Journey!progress
<1>1. ASSUME BodyStep, BodyMove, returned # None PROVE captures' = captures
  <2>1. closed
    BY <1>1 DEF BodyStep, Blames, Orderly
  <2> QED BY <1>1, <2>1 DEF BodyMove, BodyFails, BodyCompletes, BodyCaptures, BodyWaits, BodyProceeds
<1>2. CASE \/ Journey!startProjectServer \/ Journey!launchChrome \/ Journey!connect \/ Journey!Deadline
           \/ Journey!ImageTimesOut
  BY <1>2 DEF Journey!startProjectServer, Journey!launchChrome, Journey!connect, Journey!Deadline,
     Journey!ImageTimesOut
<1>3. CASE \/ Journey!SettleWrites \/ Journey!stopChild \/ Journey!RemoveProfile \/ Journey!Return
           \/ Journey!HostSignals
  BY <1>3 DEF Journey!SettleWrites, Journey!stopChild, Journey!RemoveProfile, Journey!Return,
     Journey!HostSignals
<1>4. CASE \/ Journey!VispExits \/ Journey!ChromeCrashes \/ Journey!ApplicationException
           \/ Journey!FileRequested \/ Journey!fulfill
  BY <1>4 DEF Journey!VispExits, Journey!ChromeCrashes, Journey!ApplicationException,
     Journey!FileRequested, Journey!fulfill
<1>5. CASE UNCHANGED Journey!vars
  BY <1>5 DEF Journey!vars
<1>6. (errors => page = "throws") /\ (caller = "image" => page # "fine")
  BY DEF Blames
<1> QED BY <1>1, <1>2, <1>3, <1>4, <1>5, <1>6, BodySteps, BodyMoves DEF Journey!Next, Journey!Step

LEMMA TruthStep ==
    ASSUME Truth, ActionList, NoResult, [Journey!Next]_(Journey!vars) PROVE Truth'
  BY OrderlyStep, BlamesStep, PlaceStep, CompleteStep DEF Truth

LEMMA JourneyInvariant == ASSUME ActionList, NoResult PROVE Journey!Spec => []Truth
<1>1. Journey!Init => Truth
  BY JourneyStarts
<1>2. Truth /\ [Journey!Next]_(Journey!vars) => Truth'
  BY TruthStep
<1> QED BY <1>1, <1>2, PTL DEF Journey!Spec

\* A journey that has returned, and VISP when it has exited, leave no Chrome, and a returned one no
\* helper, profile, server or write either (browser-journey.ts:273, chrome-transport.ts:134).
THEOREM JourneyLeavesNothing ==
    ASSUME ActionList, NoResult PROVE Journey!Spec => []Journey!NothingLeft
<1>1. Truth => Journey!NothingLeft
  BY DEF Truth, Orderly, Journey!NothingLeft
<1> QED BY <1>1, JourneyInvariant, PTL

\* A completed journey took every capture and saw what it awaited, no exception and no refusal; a
\* behavior failure is the page's own (browser-journey.ts:372).
THEOREM JourneyTellsTheTruth ==
    ASSUME ActionList, NoResult PROVE Journey!Spec => []Journey!JourneyTellsTruth
<1>1. ASSUME Truth PROVE Journey!JourneyTellsTruth
  <2>1. returned = Journey!Behavior => page # "fine"
    BY <1>1 DEF Truth, Blames
  <2>2. Complete
    BY <1>1 DEF Truth
  <2> DEFINE taken == {i \in DOMAIN Journey!Tasks : Journey!Tasks[i] = "capture"}
  <2>3. Journey!Cardinality(taken) = Cardinality(taken)
    <3> HIDE DEF taken
    <3> QED BY DEF Journey!Cardinality, Cardinality
  <2> QED BY <2>1, <2>2, <2>3, Zenon DEF Complete, Journey!JourneyTellsTruth
<1> QED BY <1>1, JourneyInvariant, PTL

\* A body its caller has given up on adds nothing to what was returned (browser-journey.ts:273).
THEOREM JourneyResultSettled ==
    ASSUME ActionList, NoResult PROVE Journey!Spec => Journey!ResultSettled
<1>1. Truth /\ [Journey!Next]_(Journey!vars) => [returned # None => captures' = captures]_(Journey!vars)
  BY CapturesSettle DEF Truth
<1> QED BY <1>1, JourneyInvariant, PTL DEF Journey!Spec, Journey!ResultSettled

-----------------------------------------------------------------------------
(* The parts side by side: a step of one leaves the others where they are. *)

LEMMA PartsAre ==
    PartsSpec => Loop!Spec /\ Command!Spec /\ Dashboard!Spec /\ Journey!Spec
<1>1. PartsInit => Loop!Init /\ Command!Init /\ Dashboard!Init /\ Journey!Init
  BY DEF PartsInit
<1> DEFINE N == ScopesNext \/ LoopNext \/ CommandNext \/ DashboardNext \/ JourneyNext
<1>a. UNCHANGED loopVars => UNCHANGED Loop!vars
  BY DEF loopVars, Loop!vars, Loop!reviewed
<1>b. UNCHANGED commandVars => UNCHANGED Command!vars
  BY DEF commandVars, Command!vars
<1>c. UNCHANGED dashboardVars => UNCHANGED Dashboard!vars
  BY DEF dashboardVars, Dashboard!vars
<1>d. UNCHANGED journeyVars => UNCHANGED Journey!vars
  BY DEF journeyVars, Journey!vars, Journey!subject, Journey!progress, Journey!seen, Journey!chrome,
         Journey!close
<1>2. [N]_all => [Loop!Next]_(Loop!vars)
  BY <1>a DEF all, ScopesNext, LoopNext, CommandNext, DashboardNext, JourneyNext, InScopes, InLoop,
              InCommand, InDashboard, InJourney
<1>3. [N]_all => [Command!Next]_(Command!vars)
  BY <1>b DEF all, ScopesNext, LoopNext, CommandNext, DashboardNext, JourneyNext, InScopes, InLoop,
              InCommand, InDashboard, InJourney
<1>4. [N]_all => [Dashboard!Next]_(Dashboard!vars)
  BY <1>c DEF all, ScopesNext, LoopNext, CommandNext, DashboardNext, JourneyNext, InScopes, InLoop,
              InCommand, InDashboard, InJourney
<1>5. [N]_all => [Journey!Next]_(Journey!vars)
  BY <1>d DEF all, ScopesNext, LoopNext, CommandNext, DashboardNext, JourneyNext, InScopes, InLoop,
              InCommand, InDashboard, InJourney
<1> QED BY <1>1, <1>2, <1>3, <1>4, <1>5, PTL
        DEF PartsSpec, Loop!Spec, Command!Spec, Dashboard!Spec, Journey!Spec

\* The phases of a loop share its budget of money, exceeded by at most what hosts report beyond
\* their allocations, and leave the review its time (feedback-loop.ts:89, 57).
THEOREM LoopKeepsBudget == ASSUME Amounts PROVE PartsSpec => []LoopSharesBudget
<1>1. Loop!WithinBudget /\ Loop!ReviewTimeReserved => LoopSharesBudget
  BY DEF LoopSharesBudget
<1> QED BY <1>1, PartsAre, LoopWithinBudget, ReviewKeepsItsTime, PTL

\* Whoever is done leaves nothing behind: a command no process of its group, a dashboard no lease,
\* a journey no browser, profile or server (exec.ts:32, ui.ts:69, browser-journey.ts:273).
THEOREM NothingIsLeftBehind ==
    ASSUME ExitCodes, None \notin Starts, ActionList, NoResult PROVE PartsSpec => []NothingLeftBehind
<1>1. Command!GroupReaped /\ Dashboard!StoppedLeavesNoLease /\ Journey!NothingLeft => NothingLeftBehind
  BY DEF NothingLeftBehind
<1> QED BY <1>1, PartsAre, GroupIsReaped, StoppedTakesItsLease, JourneyLeavesNothing, PTL

\* Credit is given for what was asked about, and before it was decided: completion for a passed
\* review of the frozen candidate, success for a command's own exit, a reopened dashboard for this
\* repository and build, a journey's result for what its page did (run.ts:140, exec.ts:76,
\* ui.ts:21, browser-journey.ts:372).
THEOREM CreditEarned ==
    ASSUME Amounts, ExitCodes, None \notin Starts, ActionList, NoResult PROVE PartsSpec => CreditIsEarned
<1> QED BY PartsAre, CompletionIsEarned, SuccessIsEarned, JourneyTellsTheTruth, FrozenIsJudged,
           TimeoutBeforeExit, ReopenedListens, JourneyResultSettled, PTL DEF CreditIsEarned
=============================================================================
