------------------------- MODULE CheckExecutionProofs -------------------------
(***************************************************************************)
(* Closing and acceptance, for any slices, processes, versions of the      *)
(* source and revisions of the brief: every variable keeps its type,       *)
(* history only grows, closing and acceptance wait for reviews, go by      *)
(* everybody's latest receipts, and rest on recorded passes.               *)
(***************************************************************************)
EXTENDS CheckExecution, NaturalFacts, SequenceTheorems

Receipts == [check : Checks, owner : Owners, subject : Sources, contract : Contracts,
             status : Statuses, ran : Sources, flip : Flips \cup {None}]

Results == [status : Statuses, ran : Sources] \cup {None}

Running == [mode : Modes, slice : Owners, batch : Batches, next : Nat \ {0}, result : Results,
            failed : BOOLEAN, passes : SUBSET [receipt : Nat, flip : Flips \cup {None}]]

\* A command runs at least the checks of what it closes or accepts.
Covers(c) ==
    /\ c.next <= Len(c.batch.checks) + 1
    /\ c.mode = "accept" => c.slice = None
    /\ c.mode = "done" => c.slice \in Slices
    /\ ChecksFor(c.slice) \subseteq ToSet(c.batch.checks)
    /\ c.slice = None => Pinned \in ToSet(c.batch.checks)

Product ==
    /\ source \in Sources /\ brief \in Briefs
    /\ slices \in [Slices -> {"pending", "in-progress", "closed"}]
    /\ reviewing \in BOOLEAN

Acceptance ==
    /\ status \in {"active", "accepted"}
    /\ acceptedSubject \in Sources \cup {None} /\ acceptedContract \in Contracts \cup {None}
    /\ (status = "accepted") <=> (acceptedSubject # None)
    /\ status = "accepted" => acceptedContract = Contract(None)

History ==
    /\ executions \in Seq(Receipts)
    /\ pendingVerification \in Batches \cup {None}
    /\ authorization \in [task : Slices, contract : Contracts] \cup {None}

CommandsOK ==
    /\ command \in [Commands -> Running \cup {Idle}]
    /\ \A p \in Commands : command[p] # Idle => Covers(command[p])

\* What a command may reuse is still in the history where it was, a pass of the slice it closes
\* or of the feature.
Reusable(c) ==
    \A pass \in c.passes :
        /\ pass.receipt \in DOMAIN executions
        /\ executions[pass.receipt].status = "passed"
        /\ executions[pass.receipt].owner = Owner(executions[pass.receipt].check, c.slice)

PassesKept == \A p \in Commands : command[p] # Idle => Reusable(command[p])

Types == Product /\ Acceptance /\ History /\ CommandsOK /\ PassesKept

-----------------------------------------------------------------------------
(* Operators *)

\* What is assumed of the constants.
LEMMA Constants ==
    /\ Order \in Seq(Slices) /\ Order # <<>>
    /\ Pinned \notin Owners /\ None \notin Slices /\ None \notin Sources
    /\ None \notin Flips
    /\ Modes \subseteq {"verify", "done", "accept"}
    /\ \A b, c \in Briefs : ContractOf[b][None] = ContractOf[c][None]
                                => \A s \in Slices : ContractOf[b][s] = ContractOf[c][s]
  BY CheckConstants

\* Contracts of the documents.
LEMMA ContractType ==
    ASSUME NEW b \in Briefs, NEW o \in Owners
    PROVE  ContractOf[b][o] \in Contracts
  BY DEF Contracts

\* f holds what is picked from the first k elements.
PickedUpTo(f, list, S, k) ==
    f = [n \in 0..k |-> IF n = 0 THEN <<>>
                        ELSE IF list[n] \in S THEN Append(f[n - 1], list[n]) ELSE f[n - 1]]

\* There is such an f for every list.
LEMMA PickedExists ==
    ASSUME NEW T, NEW list \in Seq(T), NEW S
    PROVE  \E f : PickedUpTo(f, list, S, Len(list))
<1> DEFINE Good == {k \in Nat : k <= Len(list) => \E f : PickedUpTo(f, list, S, k)}
<1>1. 0 \in Good
  <2>1. PickedUpTo([n \in 0..0 |-> <<>>], list, S, 0)
    BY DEF PickedUpTo
  <2> QED BY <2>1
<1>2. ASSUME NEW k \in Good \cap Nat PROVE k + 1 \in Good
  <2> SUFFICES ASSUME k + 1 <= Len(list) PROVE \E f : PickedUpTo(f, list, S, k + 1)
    OBVIOUS
  <2>1. PICK f : PickedUpTo(f, list, S, k)
    BY <1>2
  <2> DEFINE last == IF list[k + 1] \in S THEN Append(f[k], list[k + 1]) ELSE f[k]
             g == [n \in 0..(k + 1) |-> IF n = k + 1 THEN last ELSE f[n]]
             step(n, before) == IF list[n] \in S THEN Append(before, list[n]) ELSE before
  <2>2. \A n \in 0..k : g[n] = f[n] /\ f[n] = IF n = 0 THEN <<>> ELSE step(n, f[n - 1])
    <3>1. \A n \in 0..k : n \in 0..(k + 1) /\ n # k + 1
      OBVIOUS
    <3>2. \A n \in 0..k : g[n] = f[n]
      BY <3>1, Zenon
    <3>3. f = [n \in 0..k |-> IF n = 0 THEN <<>> ELSE step(n, f[n - 1])]
      BY <2>1 DEF PickedUpTo
    <3> HIDE DEF g, step
    <3> QED BY <3>2, <3>3
  <2>3. g[k + 1] = step(k + 1, f[k])
    OBVIOUS
  <2>4. k \in Nat /\ k + 1 # 0 /\ (k + 1) - 1 = k /\ k \in 0..k /\ 0 \in 0..k
    OBVIOUS
  <2>5. ASSUME NEW n \in 0..(k + 1) PROVE g[n] = IF n = 0 THEN <<>> ELSE step(n, g[n - 1])
    <3> HIDE DEF g, step
    <3>1. CASE n = k + 1
      <4>1. g[n - 1] = f[k]
        BY <2>2, <2>4, <3>1
      <4> QED BY <2>3, <2>4, <3>1, <4>1
    <3>2. CASE n = 0
      BY <2>2, <2>4, <3>2
    <3>3. CASE n # k + 1 /\ n # 0
      <4>1. n \in 0..k /\ n - 1 \in 0..k
        BY <3>3
      <4>2. g[n] = step(n, f[n - 1]) /\ g[n - 1] = f[n - 1]
        BY <2>2, <3>3, <4>1
      <4> QED BY <3>3, <4>2
    <3> QED BY <3>1, <3>2, <3>3
  <2>6. g = [n \in 0..(k + 1) |-> IF n = 0 THEN <<>> ELSE step(n, g[n - 1])]
    <3> HIDE DEF step
    <3> QED BY <2>5
  <2>7. PickedUpTo(g, list, S, k + 1)
    <3> HIDE DEF g
    <3> QED BY <2>6 DEF PickedUpTo
  <2> QED BY <2>7
<1> HIDE DEF Good
<1>3. Nat \subseteq Good
  BY <1>1, <1>2, SetInduction
<1>4. Len(list) \in Good
  BY <1>3
<1> QED BY <1>4 DEF Good

\* Picked keeps every element of S, and adds none.
LEMMA PickedKeeps ==
    ASSUME NEW T, NEW list \in Seq(T), NEW S
    PROVE  /\ Picked(list, S) \in Seq(T)
           /\ \A n \in 1..Len(list) : list[n] \in S => list[n] \in ToSet(Picked(list, S))
<1>1. \E f : PickedUpTo(f, list, S, Len(list)) /\ Picked(list, S) = f[Len(list)]
  <2> DEFINE f == CHOOSE f : PickedUpTo(f, list, S, Len(list))
  <2>1. PickedUpTo(f, list, S, Len(list))
    BY PickedExists, Zenon
  <2>2. Picked(list, S) = f[Len(list)]
    BY Zenon DEF Picked, PickedUpTo
  <2> QED BY <2>1, <2>2
<1> PICK f : PickedUpTo(f, list, S, Len(list)) /\ Picked(list, S) = f[Len(list)]
  BY <1>1
<1> DEFINE Holds(k) == /\ f[k] \in Seq(T)
                       /\ \A n \in 1..k : list[n] \in S => list[n] \in ToSet(f[k])
           Good == {k \in Nat : k <= Len(list) => Holds(k)}
<1>2. 0 \in Good
  BY DEF PickedUpTo
<1>3. ASSUME NEW k \in Good \cap Nat PROVE k + 1 \in Good
  <2> SUFFICES ASSUME k + 1 <= Len(list) PROVE Holds(k + 1)
    OBVIOUS
  <2>1. k \in Nat /\ Holds(k)
    OBVIOUS
  <2>2. f[k + 1] = IF list[k + 1] \in S THEN Append(f[k], list[k + 1]) ELSE f[k]
    <3>1. k + 1 \in 0..Len(list) /\ k + 1 # 0 /\ (k + 1) - 1 = k
      BY <2>1
    <3> QED BY <3>1 DEF PickedUpTo
  <2>3. list[k + 1] \in T
    BY <2>1
  <2>4. f[k + 1] \in Seq(T) /\ ToSet(f[k]) \subseteq ToSet(f[k + 1])
    BY <2>1, <2>2, <2>3 DEF ToSet
  <2>5. list[k + 1] \in S => list[k + 1] \in ToSet(f[k + 1])
    <3> SUFFICES ASSUME list[k + 1] \in S PROVE list[k + 1] \in ToSet(f[k + 1])
      OBVIOUS
    <3>1. /\ DOMAIN f[k + 1] = 1..(Len(f[k]) + 1) /\ Len(f[k]) \in Nat
          /\ f[k + 1][Len(f[k]) + 1] = list[k + 1]
      BY <2>1, <2>2, <2>3
    <3>2. Len(f[k]) + 1 \in DOMAIN f[k + 1]
      BY <3>1
    <3> QED BY <3>1, <3>2 DEF ToSet
  <2>6. \A n \in 1..(k + 1) : n \in 1..k \/ n = k + 1
    BY <2>1
  <2> QED BY <2>1, <2>4, <2>5, <2>6
<1> HIDE DEF Good
<1>4. Nat \subseteq Good
  BY <1>2, <1>3, SetInduction
<1>5. Len(list) \in Good /\ Len(list) \in Nat
  BY <1>4
<1> QED BY <1>5 DEF Good

\* What is run covers what is closed or accepted.
LEMMA CommandsCover ==
    ASSUME NEW s \in Owners, NEW mode
    PROVE  /\ ExecutionCommands(s, mode) \in Seq(Checks)
           /\ ChecksFor(s) \subseteq ToSet(ExecutionCommands(s, mode))
           /\ s = None => Pinned \in ToSet(ExecutionCommands(s, mode))
<1> DEFINE list == Append(Order, Pinned)
<1>1. \E S : /\ ExecutionCommands(s, mode) = Picked(list, S)
             /\ ChecksFor(s) \subseteq S /\ (s = None => Pinned \in S)
  <2> DEFINE completing == mode = "done" /\ ReviewerRules /\ LastOpenSlice(s)
             S == UNION {IF completing THEN Slices ELSE ChecksFor(s),
                         IF s = None THEN {} ELSE CorrectionChecks(s),
                         IF s = None \/ LastOpenSlice(s) THEN {Pinned} ELSE {}}
  <2>1. ExecutionCommands(s, mode) = Picked(list, S)
    BY DEF ExecutionCommands
  <2>2. ChecksFor(s) \subseteq Slices
    BY DEF ChecksFor, Owners
  <2>3. ChecksFor(s) \subseteq S
    BY <2>2
  <2>4. s = None => Pinned \in S
    OBVIOUS
  <2> QED BY <2>1, <2>3, <2>4
<1>2. PICK S : /\ ExecutionCommands(s, mode) = Picked(list, S)
               /\ ChecksFor(s) \subseteq S /\ (s = None => Pinned \in S)
  BY <1>1
<1>3. /\ list \in Seq(Checks) /\ Len(list) = Len(Order) + 1 /\ Len(Order) \in Nat
      /\ list[Len(list)] = Pinned /\ \A n \in 1..Len(Order) : list[n] = Order[n]
  <2>1. Order \in Seq(Checks) /\ Pinned \in Checks
    BY Constants DEF Checks
  <2> QED BY <2>1
<1>4. \A c \in Checks : \E n \in 1..Len(list) : list[n] = c
  <2>1. \A c \in Slices : \E n \in 1..Len(Order) : Order[n] = c
    BY Constants DEF Slices, Range
  <2> HIDE DEF list
  <2> QED BY <1>3, <2>1 DEF Checks
<1> HIDE DEF list
<1>5. ChecksFor(s) \subseteq Checks /\ Pinned \in Checks
  BY DEF ChecksFor, Checks, Owners
<1> QED BY <1>2, <1>3, <1>4, <1>5, PickedKeeps

\* A verdict that is a pass rests on a receipt.
LEMMA PassIsRecorded ==
    ASSUME Types, NEW c, NEW o, Verdict(c, o) = "passed"
    PROVE  HasPass(c, o, source)
<1> DEFINE S == Applicable(executions, brief, source)
           own == {i \in S : executions[i].check = c /\ executions[i].owner = o}
<1>1. DOMAIN executions = 1..Len(executions) /\ Len(executions) \in Nat
  BY DEF Types, History
<1>2. own # {} /\ executions[CHOOSE i \in own : \A j \in own : j <= i].status = "passed"
  BY DEF Verdict, Latest
<1>3. own \subseteq DOMAIN executions
  BY DEF Applicable
<1>4. \A i \in own : /\ executions[i].check = c /\ executions[i].owner = o
                     /\ executions[i].subject = source
                     /\ executions[i].contract = ContractOf[brief][executions[i].owner]
  BY DEF Applicable
<1> HIDE DEF own
<1>5. own \in SUBSET Nat /\ \A i \in own : i <= Len(executions)
  BY <1>1, <1>3
<1>6. \E i \in own : \A j \in own : j <= i
  BY <1>1, <1>2, <1>5, GreatestElement
<1>7. (CHOOSE i \in own : \A j \in own : j <= i) \in own
  BY <1>6, Zenon
<1> QED BY <1>2, <1>3, <1>4, <1>7 DEF HasPass, Contract

-----------------------------------------------------------------------------
(* Commands *)

\* One command changes.
LEMMA OneCommand ==
    ASSUME CommandsOK, NEW p \in Commands, NEW c \in Running \cup {Idle}, c # Idle => Covers(c),
           command' = [command EXCEPT ![p] = c]
    PROVE  CommandsOK'
  BY DEF CommandsOK

\* A command that has its next check behind it.
LEMMA OneCheckMore ==
    ASSUME NEW c \in Running, Covers(c), c.next <= Len(c.batch.checks), NEW failed \in BOOLEAN
    PROVE  /\ [c EXCEPT !.next = c.next + 1] \in Running
           /\ Covers([c EXCEPT !.next = c.next + 1])
           /\ [c EXCEPT !.next = c.next + 1, !.result = None, !.failed = failed] \in Running
           /\ Covers([c EXCEPT !.next = c.next + 1, !.result = None, !.failed = failed])
<1>1. c.next + 1 \in Nat \ {0} /\ None \in Results /\ Len(c.batch.checks) \in Nat
  BY DEF Running, Results, Batches
<1>2. /\ [c EXCEPT !.next = c.next + 1] \in Running
      /\ [c EXCEPT !.next = c.next + 1, !.result = None, !.failed = failed] \in Running
  BY <1>1 DEF Running
<1> QED BY <1>1, <1>2 DEF Covers, Running

\* A command that knows how its check ended.
LEMMA CheckEnded ==
    ASSUME NEW c \in Running, Covers(c), NEW result \in Results
    PROVE  [c EXCEPT !.result = result] \in Running /\ Covers([c EXCEPT !.result = result])
  BY DEF Running, Covers

\* Running commands stay running commands.
LEMMA CommandsStep == ASSUME Types, [Next]_vars PROVE CommandsOK'
<1>a. CommandsOK /\ source \in Sources /\ brief \in Briefs
  BY DEF Types, Product
<1>b. ASSUME NEW p \in Commands, command[p] # Idle
      PROVE  command[p] \in Running /\ Covers(command[p])
  BY <1>a, <1>b DEF CommandsOK
<1>1. ASSUME NEW p \in Commands, NEW mode \in Modes, NEW s \in Owners, NEW again \in BOOLEAN,
             Prepare(p, mode, s, again)
      PROVE  CommandsOK'
  <2> DEFINE commands == ExecutionCommands(s, mode)
             batch == [source |-> source, brief |-> brief, checks |-> commands, task |-> s,
                       mode |-> mode]
             reuse == mode = "done" \/ again \/ pendingVerification = batch
             found == {i \in LatestReceipts : /\ reuse /\ executions[i].status = "passed"
                                              /\ executions[i].check \in ToSet(commands)
                                              /\ executions[i].owner = Owner(executions[i].check, s)}
             passes == {[receipt |-> i, flip |-> executions[i].flip] : i \in found}
             c == [mode |-> mode, slice |-> s, batch |-> batch, next |-> 1, result |-> None,
                   failed |-> FALSE, passes |-> passes]
  <2>1. /\ command' = [command EXCEPT ![p] = c]
        /\ mode = "done" => s # None
        /\ mode = "accept" => s = None
    BY <1>1 DEF Prepare
  <2>2. /\ commands \in Seq(Checks) /\ ChecksFor(s) \subseteq ToSet(commands)
        /\ s = None => Pinned \in ToSet(commands)
    BY CommandsCover
  <2>3. found \subseteq DOMAIN executions
    BY DEF LatestReceipts, Applicable
  <2>4. passes \in SUBSET [receipt : Nat, flip : Flips \cup {None}]
    <3>1. executions \in Seq(Receipts)
      BY DEF Types, History
    <3>2. \A i \in DOMAIN executions : i \in Nat /\ executions[i] \in Receipts
      BY <3>1
    <3>3. \A i \in DOMAIN executions : i \in Nat /\ executions[i].flip \in Flips \cup {None}
      BY <3>2, Zenon DEF Receipts
    <3> HIDE DEF found
    <3> QED BY <2>3, <3>3
  <2> HIDE DEF commands, found, passes
  <2>5. batch \in Batches
    BY <1>a, <2>2 DEF Batches
  <2>6. batch.checks = commands /\ Len(commands) \in Nat
    BY <2>2
  <2> HIDE DEF batch
  <2>7. c \in Running
    BY <2>4, <2>5 DEF Running, Results
  <2>8. Covers(c)
    <3>1. c.mode = mode /\ c.slice = s /\ c.batch = batch /\ c.next = 1
      OBVIOUS
    <3>2. s # None => s \in Slices
      BY DEF Owners
    <3> HIDE DEF c
    <3> QED BY <2>1, <2>2, <2>6, <3>1, <3>2 DEF Covers
  <2> HIDE DEF c
  <2> QED BY <1>a, <2>1, <2>7, <2>8, OneCommand
<1>2. ASSUME NEW p \in Commands, Reuse(p) PROVE CommandsOK'
  <2> DEFINE c == [command[p] EXCEPT !.next = command[p].next + 1]
  <2>1. command' = [command EXCEPT ![p] = c]
    BY <1>2 DEF Reuse
  <2>2. command[p] \in Running /\ Covers(command[p]) /\ command[p].next <= Len(command[p].batch.checks)
    BY <1>2, <1>b DEF Reuse, Remaining
  <2>3. c \in Running /\ Covers(c)
    BY <2>2, OneCheckMore
  <2> HIDE DEF c
  <2> QED BY <1>a, <2>1, <2>3, OneCommand
<1>3. ASSUME NEW p \in Commands, NEW result \in Statuses, Run(p, result) PROVE CommandsOK'
  <2> DEFINE ended == [status |-> result, ran |-> source]
             c == [command[p] EXCEPT !.result = ended]
  <2>1. command' = [command EXCEPT ![p] = c]
    BY <1>3 DEF Run
  <2>2. command[p] \in Running /\ Covers(command[p])
    BY <1>3, <1>b DEF Run, Remaining
  <2>3. ended \in Results
    BY <1>a DEF Results
  <2> HIDE DEF ended
  <2>4. c \in Running /\ Covers(c)
    BY <2>2, <2>3, CheckEnded
  <2> HIDE DEF c
  <2> QED BY <1>a, <2>1, <2>4, OneCommand
<1>4. ASSUME NEW p \in Commands, NEW flip, Publish(p, flip) PROVE CommandsOK'
  <2> DEFINE failed == command[p].failed \/ command[p].result.status # "passed"
             c == [command[p] EXCEPT !.next = command[p].next + 1, !.result = None, !.failed = failed]
  <2>1. command' = [command EXCEPT ![p] = c]
    BY <1>4, <1>a DEF Publish, CommandsOK
  <2>2. command[p] \in Running /\ Covers(command[p]) /\ command[p].next <= Len(command[p].batch.checks)
    BY <1>4, <1>b DEF Publish, Remaining
  <2>3. failed \in BOOLEAN
    BY <2>2 DEF Running
  <2> HIDE DEF failed
  <2>4. c \in Running /\ Covers(c)
    BY <2>2, <2>3, OneCheckMore
  <2> HIDE DEF c
  <2> QED BY <1>a, <2>1, <2>4, OneCommand
<1>5. ASSUME NEW p \in Commands, NEW gaps, Finish(p, gaps) \/ Refuse(p) \/ Cancel(p)
      PROVE  CommandsOK'
  <2>1. command' = [command EXCEPT ![p] = Idle]
    BY <1>5 DEF Finish, Refuse, Cancel
  <2> QED BY <1>a, <2>1, OneCommand
<1>6. CASE UNCHANGED command
  BY <1>6, <1>a DEF CommandsOK
<1>7. ASSUME \/ \E s \in Slices : Work(s)
             \/ \E b \in Briefs : Revise(b)
             \/ \E v \in Sources : Edit(v)
             \/ Review
             \/ UNCHANGED vars
      PROVE  UNCHANGED command
  BY <1>7 DEF Work, Revise, Edit, Review, vars
<1> QED BY <1>1, <1>2, <1>3, <1>4, <1>5, <1>6, <1>7 DEF Next

-----------------------------------------------------------------------------
(* Types *)

\* A finished command, and what it changes.
LEMMA Finishes ==
    ASSUME Types, NEW p \in Commands, NEW gaps, Finish(p, gaps)
    PROVE  /\ command[p] \in Running /\ Covers(command[p]) /\ Available(command[p].mode)
           /\ \/ UNCHANGED slices
              \/ /\ command[p].mode = "done" /\ ~Unresolved(command[p].slice) /\ ~NoPass(p)
                 /\ slices' = [slices EXCEPT ![command[p].slice] = "closed"]
           /\ \/ UNCHANGED <<status, acceptedSubject, acceptedContract>>
              \/ command[p].mode = "accept" /\ Accept(FALSE)
              \/ /\ command[p].mode = "accept" /\ Accept(TRUE)
                 /\ ~Unresolved(None) /\ ~NoPass(p)
           /\ pendingVerification' = None
           /\ UNCHANGED <<source, brief, executions, authorization, reviewing>>
<1>1. command[p] \in Running /\ Covers(command[p])
  BY DEF Types, CommandsOK, Finish, Done
<1>2. command[p].mode = "accept" => command[p].slice = None
  BY <1>1 DEF Covers
<1>3. CASE command[p].mode = "accept"
  BY <1>1, <1>2, <1>3 DEF Finish, Accept
<1>4. CASE command[p].mode # "accept"
  BY <1>1, <1>4 DEF Finish
<1> QED BY <1>3, <1>4

\* The product, its slices and their reviews keep their types.
LEMMA ProductStep == ASSUME Types, [Next]_vars PROVE Product'
<1>a. Product
  BY DEF Types
<1>1. ASSUME NEW p \in Commands, NEW gaps, Finish(p, gaps) PROVE Product'
  <2>1. \/ UNCHANGED slices
        \/ /\ command[p].slice \in Slices
           /\ slices' = [slices EXCEPT ![command[p].slice] = "closed"]
    BY <1>1, Finishes DEF Covers
  <2>2. UNCHANGED <<source, brief, reviewing>>
    BY <1>1 DEF Finish
  <2> QED BY <1>a, <2>1, <2>2 DEF Product
<1>2. ASSUME NEW s \in Slices, Work(s) PROVE Product'
  BY <1>a, <1>2 DEF Work, Working, Product
<1>3. ASSUME NEW b \in Briefs, Revise(b) PROVE Product'
  BY <1>a, <1>3 DEF Revise, SlicesAfter, Product
<1>4. ASSUME NEW v \in Sources, Edit(v) PROVE Product'
  BY <1>a, <1>4 DEF Edit, record, Product
<1>5. CASE Review
  BY <1>a, <1>5 DEF Review, record, Product
<1>6. CASE UNCHANGED <<source, record, reviewing>>
  BY <1>a, <1>6 DEF record, Product
<1>7. ASSUME NEW p \in Commands,
             \/ \E mode \in Modes, s \in Owners, again \in BOOLEAN : Prepare(p, mode, s, again)
             \/ (\E result \in Statuses : Run(p, result)) \/ Refuse(p) \/ Cancel(p)
      PROVE  UNCHANGED <<source, record, reviewing>>
  BY <1>7 DEF Prepare, Run, Refuse, Cancel
<1>8. ASSUME NEW p \in Commands, Reuse(p) \/ \E flip \in Flips \cup {None} : Publish(p, flip)
      PROVE  Product'
  BY <1>a, <1>8 DEF Reuse, Publish, Product
<1> QED BY <1>1, <1>2, <1>3, <1>4, <1>5, <1>6, <1>7, <1>8 DEF Next, vars

\* The record names an accepted version exactly while the feature is accepted, under the contract
\* in force: a revision that keeps the acceptance keeps every contract.
LEMMA AcceptanceStep == ASSUME Types, [Next]_vars PROVE Acceptance'
<1>a. Acceptance /\ Product
  BY DEF Types
<1>1. ASSUME NEW p \in Commands, NEW gaps, Finish(p, gaps) PROVE Acceptance'
  <2>1. Contract(None) \in Contracts
    BY <1>a, ContractType DEF Contract, Product, Owners
  <2>2. UNCHANGED <<status, acceptedSubject, acceptedContract>> \/ Accept(FALSE) \/ Accept(TRUE)
    BY <1>1, Finishes
  <2>3. source \in Sources /\ source # None
    BY <1>a, Constants DEF Product
  <2>4. UNCHANGED brief
    BY <1>1 DEF Finish
  <2> QED BY <1>a, <2>1, <2>2, <2>3, <2>4 DEF Accept, Acceptance, Contract
<1>2. ASSUME NEW s \in Slices, Work(s) PROVE Acceptance'
  BY <1>a, <1>2 DEF Work, Working, Acceptance, Contract
<1>3. ASSUME NEW b \in Briefs, Revise(b) PROVE Acceptance'
  <2>1. UNCHANGED acceptedContract
    BY <1>3 DEF Revise
  <2>2. status = "accepted" /\ AcceptanceApplies(b) =>
           /\ \A s \in Slices : ContractOf[b][s] = Contract(s)
           /\ acceptedContract = ContractOf[b][None]
    BY <1>a, <1>3, Constants DEF Acceptance, AcceptanceApplies, Contract, Product
  <2>3. /\ status' = IF status = "accepted" /\ AcceptanceApplies(b) THEN "accepted" ELSE "active"
        /\ acceptedSubject' = IF AcceptanceApplies(b) THEN acceptedSubject ELSE None
        /\ brief' = b
    BY <1>3, <2>2 DEF Revise
  <2> QED BY <1>a, <2>1, <2>2, <2>3 DEF Acceptance, Contract
<1>6. CASE UNCHANGED <<brief, status, acceptedSubject, acceptedContract>>
  BY <1>a, <1>6 DEF Acceptance, Contract
<1>7. ASSUME NEW p \in Commands,
             \/ \E mode \in Modes, s \in Owners, again \in BOOLEAN : Prepare(p, mode, s, again)
             \/ Reuse(p) \/ (\E result \in Statuses : Run(p, result)) \/ Refuse(p) \/ Cancel(p)
             \/ \E flip \in Flips \cup {None} : Publish(p, flip)
      PROVE  UNCHANGED <<brief, status, acceptedSubject, acceptedContract>>
  BY <1>7 DEF Prepare, Reuse, Run, Refuse, Cancel, Publish, record
<1>8. ASSUME (\E v \in Sources : Edit(v)) \/ Review \/ UNCHANGED vars
      PROVE  UNCHANGED <<brief, status, acceptedSubject, acceptedContract>>
  BY <1>8 DEF Edit, Review, record, vars
<1> QED BY <1>1, <1>2, <1>3, <1>6, <1>7, <1>8 DEF Next

\* Receipts are receipts.
LEMMA ReceiptType ==
    ASSUME Types, NEW p \in Commands, NEW flip \in Flips \cup {None}, Publish(p, flip)
    PROVE  Receipt(p, flip) \in Receipts /\ command[p].batch \in Batches
<1>1. /\ command[p] \in Running /\ command[p].next <= Len(command[p].batch.checks)
      /\ command[p].result # None
  BY DEF Types, CommandsOK, Publish, Remaining
<1>2. command[p].batch \in Batches /\ command[p].slice \in Owners
  BY <1>1 DEF Running
<1>3. Check(p) \in Checks
  BY <1>1, <1>2 DEF Check, Running, Batches
<1>4. Owner(Check(p), command[p].slice) \in Owners
  BY <1>2 DEF Owner, Owners
<1>5. command[p].result \in [status : Statuses, ran : Sources]
  BY <1>1 DEF Running, Results
<1>6. /\ command[p].batch.source \in Sources
      /\ ContractOf[command[p].batch.brief][Owner(Check(p), command[p].slice)] \in Contracts
  BY <1>2, <1>4, ContractType DEF Batches
<1> QED BY <1>2, <1>3, <1>4, <1>5, <1>6 DEF Receipt, Receipts

\* A receipt is published after those there are, or new advice put on a pass of the slice's own
\* check; nothing else changes them.
LEMMA HistoryStep ==
    ASSUME Types, [Next]_vars
    PROVE  /\ History'
           /\ \/ executions' = executions
              \/ \E e \in Receipts : executions' = Append(executions, e)
              \/ \E at \in DOMAIN executions, flip \in Flips :
                    /\ executions[at].status = "passed"
                    /\ executions[at].check = executions[at].owner
                    /\ executions' = Advised(at, flip)
<1>a. History /\ Product
  BY DEF Types
<1>1. ASSUME NEW p \in Commands, NEW flip \in Flips \cup {None}, Publish(p, flip)
      PROVE  History' /\ \E e \in Receipts : executions' = Append(executions, e)
  <2>1. Receipt(p, flip) \in Receipts /\ command[p].batch \in Batches
    BY <1>1, ReceiptType
  <2>2. /\ executions' = Append(executions, Receipt(p, flip))
        /\ pendingVerification' = command[p].batch /\ UNCHANGED authorization
    BY <1>1 DEF Publish, Recorded
  <2> QED BY <1>a, <2>1, <2>2 DEF History
<1>2. ASSUME NEW p \in Commands, NEW gaps, Finish(p, gaps)
      PROVE  History' /\ UNCHANGED executions
  BY <1>a, <1>2 DEF Finish, History
<1>3. ASSUME NEW s \in Slices, Work(s) PROVE History' /\ UNCHANGED executions
  <2>1. Grant(s) \in [task : Slices, contract : Contracts]
    BY <1>a, ContractType DEF Grant, Contract, Product, Owners
  <2> QED BY <1>a, <1>3, <2>1 DEF Work, History
<1>4. CASE UNCHANGED <<executions, pendingVerification, authorization>>
  BY <1>a, <1>4 DEF History
<1>5. ASSUME NEW p \in Commands,
             \/ \E mode \in Modes, s \in Owners, again \in BOOLEAN : Prepare(p, mode, s, again)
             \/ (\E result \in Statuses : Run(p, result)) \/ Refuse(p) \/ Cancel(p)
      PROVE  UNCHANGED <<executions, pendingVerification, authorization>>
  BY <1>5 DEF Prepare, Run, Refuse, Cancel, record
<1>6. ASSUME (\E b \in Briefs : Revise(b)) \/ (\E v \in Sources : Edit(v)) \/ Review
             \/ UNCHANGED vars
      PROVE  UNCHANGED <<executions, pendingVerification, authorization>>
  BY <1>6 DEF Revise, Edit, Review, record, vars
<1>7. ASSUME NEW p \in Commands, Reuse(p), executions' # executions
      PROVE  /\ History'
             /\ \E at \in DOMAIN executions, flip \in Flips :
                    /\ executions[at].status = "passed"
                    /\ executions[at].check = executions[at].owner
                    /\ executions' = Advised(at, flip)
  <2>1. PICK pass \in command[p].passes, flip \in Flips :
            /\ executions[pass.receipt].check = Check(p) /\ Check(p) = command[p].slice
            /\ executions' = Advised(pass.receipt, flip)
    BY <1>7 DEF Reuse
  <2>2. command[p] # Idle /\ UNCHANGED <<pendingVerification, authorization>>
    BY <1>7 DEF Reuse, Remaining
  <2> DEFINE at == pass.receipt
  <2>3. /\ at \in DOMAIN executions /\ executions[at].status = "passed"
        /\ executions[at].owner = Owner(executions[at].check, command[p].slice)
    BY <2>1, <2>2 DEF Types, PassesKept, Reusable
  <2>4. executions[at].check = executions[at].owner
    BY <2>1, <2>3 DEF Owner
  <2>5. executions' \in Seq(Receipts)
    <3>1. executions \in Seq(Receipts)
      BY <1>a DEF History
    <3>2. executions[at] \in Receipts
      BY <2>3, <3>1
    <3>3. [executions[at] EXCEPT !.flip = flip] \in Receipts
      BY <3>2 DEF Receipts
    <3>4. executions' = [executions EXCEPT ![at] = [executions[at] EXCEPT !.flip = flip]]
      BY <2>1 DEF Advised
    <3> HIDE DEF at
    <3> QED BY <2>3, <3>1, <3>3, <3>4
  <2>6. History'
    BY <1>a, <2>2, <2>5 DEF History
  <2> QED BY <2>1, <2>3, <2>4, <2>6
<1>8. ASSUME NEW p \in Commands, Reuse(p), executions' = executions PROVE History'
  BY <1>a, <1>8 DEF Reuse, History
<1> QED BY <1>1, <1>2, <1>3, <1>4, <1>5, <1>6, <1>7, <1>8 DEF Next

\* What was recorded stays in its place; at most the advice of a pass of a slice's own check is
\* another.
LEMMA HistoryKept ==
    ASSUME Types, [Next]_vars
    PROVE  /\ Len(executions) <= Len(executions')
           /\ DOMAIN executions \subseteq DOMAIN executions'
           /\ \A i \in DOMAIN executions :
                /\ executions[i] \in Receipts /\ executions'[i] \in Receipts
                /\ \/ executions'[i] = executions[i]
                   \/ /\ executions[i].status = "passed" /\ executions[i].check = executions[i].owner
                      /\ \E flip \in Flips : executions'[i] = [executions[i] EXCEPT !.flip = flip]
<1>1. executions \in Seq(Receipts) /\ executions' \in Seq(Receipts)
  BY HistoryStep DEF Types, History
<1>2. CASE executions' = executions
  BY <1>1, <1>2
<1>3. ASSUME NEW e \in Receipts, executions' = Append(executions, e)
      PROVE  /\ Len(executions) <= Len(executions')
             /\ DOMAIN executions \subseteq DOMAIN executions'
             /\ \A i \in DOMAIN executions : executions'[i] = executions[i]
  BY <1>1, <1>3
<1>4. ASSUME NEW at \in DOMAIN executions, NEW flip \in Flips, executions' = Advised(at, flip)
      PROVE  /\ Len(executions) = Len(executions') /\ DOMAIN executions' = DOMAIN executions
             /\ executions'[at] = [executions[at] EXCEPT !.flip = flip]
             /\ \A i \in DOMAIN executions : i # at => executions'[i] = executions[i]
  <2>1. executions' = [executions EXCEPT ![at] = [executions[at] EXCEPT !.flip = flip]]
    BY <1>4 DEF Advised
  <2> QED BY <1>1, <2>1
<1>5. /\ DOMAIN executions = 1..Len(executions) /\ DOMAIN executions' = 1..Len(executions')
      /\ Len(executions) \in Nat /\ Len(executions') \in Nat
  BY <1>1
<1>6. /\ Len(executions) <= Len(executions')
      /\ DOMAIN executions \subseteq DOMAIN executions'
      /\ \A i \in DOMAIN executions :
           \/ executions'[i] = executions[i]
           \/ /\ executions[i].status = "passed" /\ executions[i].check = executions[i].owner
              /\ \E flip \in Flips : executions'[i] = [executions[i] EXCEPT !.flip = flip]
  <2>1. CASE executions' = executions
    BY <1>5, <2>1
  <2>2. CASE \E e \in Receipts : executions' = Append(executions, e)
    BY <1>3, <2>2
  <2>3. CASE \E at \in DOMAIN executions, flip \in Flips :
                /\ executions[at].status = "passed"
                /\ executions[at].check = executions[at].owner
                /\ executions' = Advised(at, flip)
    <3>1. PICK at \in DOMAIN executions, flip \in Flips :
                /\ executions[at].status = "passed"
                /\ executions[at].check = executions[at].owner
                /\ executions' = Advised(at, flip)
      BY <2>3
    <3>2. /\ Len(executions) = Len(executions') /\ DOMAIN executions' = DOMAIN executions
          /\ executions'[at] = [executions[at] EXCEPT !.flip = flip]
          /\ \A i \in DOMAIN executions : i # at => executions'[i] = executions[i]
      BY <1>4, <3>1
    <3> QED BY <1>5, <3>1, <3>2
  <2> QED BY <2>1, <2>2, <2>3, HistoryStep
<1> QED BY <1>1, <1>6

\* A receipt that kept its place says what it said.
LEMMA SameSaid ==
    ASSUME NEW e \in Receipts, NEW f, f = e \/ \E flip : f = [e EXCEPT !.flip = flip]
    PROVE  /\ f.check = e.check /\ f.owner = e.owner /\ f.subject = e.subject
           /\ f.contract = e.contract /\ f.status = e.status /\ f.ran = e.ran
           /\ Fixed(f) = Fixed(e)
  BY DEF Receipts, Fixed

\* What a command starts with: passes of the record.
Started(c) ==
    \A pass \in c.passes :
        \E i \in DOMAIN executions :
            /\ executions[i].status = "passed"
            /\ executions[i].owner = Owner(executions[i].check, c.slice)
            /\ pass = [receipt |-> i, flip |-> executions[i].flip]

\* A command keeps its slice and the passes it started with.
LEMMA CommandChanges ==
    ASSUME Types, [Next]_vars, NEW p \in Commands, command'[p] # Idle
    PROVE  \/ /\ command[p] # Idle
              /\ command'[p].passes = command[p].passes /\ command'[p].slice = command[p].slice
           \/ UNCHANGED executions /\ Started(command'[p])
<1>a. command \in [Commands -> Running \cup {Idle}]
  BY DEF Types, CommandsOK
<1>b. ASSUME command[p] # Idle
      PROVE  /\ command[p] \in Running
             /\ \A n : /\ [command[p] EXCEPT !.next = n].passes = command[p].passes
                       /\ [command[p] EXCEPT !.next = n].slice = command[p].slice
             /\ \A r : /\ [command[p] EXCEPT !.result = r].passes = command[p].passes
                       /\ [command[p] EXCEPT !.result = r].slice = command[p].slice
             /\ \A n, r, f : LET c == [command[p] EXCEPT !.next = n, !.result = r, !.failed = f]
                             IN  c.passes = command[p].passes /\ c.slice = command[p].slice
  BY <1>a, <1>b DEF Running
<1> DEFINE Kept == /\ command[p] # Idle
                   /\ command'[p].passes = command[p].passes /\ command'[p].slice = command[p].slice
<1>1. CASE UNCHANGED command
  BY <1>1
<1>2. ASSUME NEW q \in Commands, Reuse(q) PROVE Kept
  BY <1>a, <1>b, <1>2 DEF Reuse, Remaining
<1>3. ASSUME NEW q \in Commands, NEW result \in Statuses, Run(q, result) PROVE Kept
  BY <1>a, <1>b, <1>3 DEF Run, Remaining
<1>4. ASSUME NEW q \in Commands, NEW flip, Publish(q, flip) PROVE Kept
  BY <1>a, <1>b, <1>4 DEF Publish, Remaining
<1>5. ASSUME NEW q \in Commands, NEW gaps, Finish(q, gaps) \/ Refuse(q) \/ Cancel(q) PROVE Kept
  <2>1. command' = [command EXCEPT ![q] = Idle]
    BY <1>5 DEF Finish, Refuse, Cancel
  <2> QED BY <1>a, <2>1
<1>6. ASSUME \/ \E s \in Slices : Work(s)
             \/ \E b \in Briefs : Revise(b)
             \/ \E v \in Sources : Edit(v)
             \/ Review
             \/ UNCHANGED vars
      PROVE  UNCHANGED command
  BY <1>6 DEF Work, Revise, Edit, Review, vars
<1>7. ASSUME NEW q \in Commands, NEW mode \in Modes, NEW s \in Owners, NEW again \in BOOLEAN,
             Prepare(q, mode, s, again), q # p
      PROVE  Kept
  BY <1>a, <1>7 DEF Prepare
<1>8. ASSUME NEW mode \in Modes, NEW s \in Owners, NEW again \in BOOLEAN,
             Prepare(p, mode, s, again)
      PROVE  UNCHANGED executions /\ Started(command'[p])
  <2> DEFINE commands == ExecutionCommands(s, mode)
             batch == [source |-> source, brief |-> brief, checks |-> commands, task |-> s,
                       mode |-> mode]
             reuse == mode = "done" \/ again \/ pendingVerification = batch
             found == {i \in LatestReceipts : /\ reuse /\ executions[i].status = "passed"
                                              /\ executions[i].check \in ToSet(commands)
                                              /\ executions[i].owner = Owner(executions[i].check, s)}
             passes == {[receipt |-> i, flip |-> executions[i].flip] : i \in found}
             c == [mode |-> mode, slice |-> s, batch |-> batch, next |-> 1, result |-> None,
                   failed |-> FALSE, passes |-> passes]
  <2>1. command' = [command EXCEPT ![p] = c] /\ UNCHANGED executions
    BY <1>8 DEF Prepare, record
  <2>2. \A i \in found : /\ i \in DOMAIN executions /\ executions[i].status = "passed"
                         /\ executions[i].owner = Owner(executions[i].check, s)
    BY DEF LatestReceipts, Applicable
  <2>3. c.passes = passes /\ c.slice = s
    OBVIOUS
  <2>4. \A pass \in passes : \E i \in found : pass = [receipt |-> i, flip |-> executions[i].flip]
    OBVIOUS
  <2> HIDE DEF found, passes, c
  <2>5. command'[p] = c
    BY <1>a, <2>1
  <2> QED BY <2>1, <2>2, <2>3, <2>4, <2>5 DEF Started
<1> QED BY <1>1, <1>2, <1>3, <1>4, <1>5, <1>6, <1>7, <1>8 DEF Next

\* What a command may reuse stays what it was.
LEMMA PassesStep == ASSUME Types, [Next]_vars PROVE PassesKept'
<1>1. ASSUME NEW p \in Commands, command[p] # Idle,
             command'[p].passes = command[p].passes, command'[p].slice = command[p].slice,
             NEW pass \in command'[p].passes
      PROVE  /\ pass.receipt \in DOMAIN executions'
             /\ executions'[pass.receipt].status = "passed"
             /\ executions'[pass.receipt].owner
                    = Owner(executions'[pass.receipt].check, command'[p].slice)
  <2> DEFINE at == pass.receipt
  <2>1. /\ at \in DOMAIN executions /\ executions[at].status = "passed"
        /\ executions[at].owner = Owner(executions[at].check, command[p].slice)
    BY <1>1 DEF Types, PassesKept, Reusable
  <2>2. /\ at \in DOMAIN executions' /\ executions[at] \in Receipts
        /\ \/ executions'[at] = executions[at]
           \/ \E flip : executions'[at] = [executions[at] EXCEPT !.flip = flip]
    BY <2>1, HistoryKept
  <2>3. /\ executions'[at].status = executions[at].status
        /\ executions'[at].owner = executions[at].owner
        /\ executions'[at].check = executions[at].check
    BY <2>2, SameSaid
  <2> QED BY <1>1, <2>1, <2>2, <2>3
<1>2. ASSUME NEW p \in Commands, UNCHANGED executions, Started(command'[p]),
             NEW pass \in command'[p].passes
      PROVE  /\ pass.receipt \in DOMAIN executions'
             /\ executions'[pass.receipt].status = "passed"
             /\ executions'[pass.receipt].owner
                    = Owner(executions'[pass.receipt].check, command'[p].slice)
  BY <1>2 DEF Started
<1>3. ASSUME NEW p \in Commands, command'[p] # Idle PROVE Reusable(command[p])'
  BY <1>1, <1>2, <1>3, CommandChanges DEF Reusable, Owner
<1> QED BY <1>3 DEF PassesKept

\* All of it.
LEMMA TypesInvariant == Spec => []Types
<1>1. Init => Types
  <2>1. Init => Product /\ Acceptance
    BY DEF Init, Product, Acceptance
  <2>2. Init => History
    BY DEF Init, History
  <2>3. Init => CommandsOK /\ PassesKept
    BY DEF Init, CommandsOK, PassesKept
  <2> QED BY <2>1, <2>2, <2>3 DEF Types
<1>2. Types /\ [Next]_vars => Types'
  BY ProductStep, AcceptanceStep, HistoryStep, CommandsStep, PassesStep DEF Types
<1> QED BY <1>1, <1>2, PTL DEF Spec

\* Every variable keeps its type, and what the record says of the acceptance agrees: there is an
\* accepted version exactly while the feature is accepted.
THEOREM TypeCorrect == Spec => []TypeOK
<1>1. Types => TypeOK
  <2> SUFFICES ASSUME Types PROVE TypeOK
    OBVIOUS
  <2>1. Product /\ Acceptance /\ History
    BY DEF Types
  <2>2. ASSUME NEW p \in Commands, command[p] # Idle
        PROVE  /\ command[p].batch \in Batches
               /\ command[p].next \in 1..(Len(command[p].batch.checks) + 1)
               /\ command[p].mode = "accept" => command[p].slice = None
    <3>1. command[p] \in Running /\ Covers(command[p])
      BY <2>2 DEF Types, CommandsOK
    <3> QED BY <3>1 DEF Running, Covers, Batches
  <2> QED BY <2>1, <2>2 DEF TypeOK, Product, Acceptance, History, Receipts
<1> QED BY <1>1, TypesInvariant, PTL

-----------------------------------------------------------------------------
(* History, reviews and verdicts *)

\* Commands that publish or reuse passes side by side lose no receipt and change none, the advice
\* of a reused pass of a slice's own check excepted, which may only be replaced.
THEOREM HistoryAppends == Spec => HistoryGrows
<1>1. ASSUME Types, [Next]_vars
      PROVE  /\ Len(executions) <= Len(executions')
             /\ \A i \in DOMAIN executions :
                    /\ Fixed(executions'[i]) = Fixed(executions[i])
                    /\ executions'[i] # executions[i] =>
                           /\ executions[i].status = "passed"
                           /\ executions[i].check = executions[i].owner
                           /\ executions'[i].flip # None
  <2>1. Len(executions) <= Len(executions')
    BY <1>1, HistoryKept
  <2>2. ASSUME NEW i \in DOMAIN executions
        PROVE  /\ Fixed(executions'[i]) = Fixed(executions[i])
               /\ executions'[i] # executions[i] =>
                      /\ executions[i].status = "passed"
                      /\ executions[i].check = executions[i].owner
                      /\ executions'[i].flip # None
    <3>1. /\ executions[i] \in Receipts
          /\ \/ executions'[i] = executions[i]
             \/ /\ executions[i].status = "passed" /\ executions[i].check = executions[i].owner
                /\ \E flip \in Flips : executions'[i] = [executions[i] EXCEPT !.flip = flip]
      BY <1>1, HistoryKept
    <3>2. Fixed(executions'[i]) = Fixed(executions[i])
      <4>1. executions'[i] = executions[i] \/ \E flip : executions'[i] = [executions[i] EXCEPT !.flip = flip]
        BY <3>1
      <4> QED BY <3>1, <4>1, SameSaid
    <3>3. ASSUME NEW flip \in Flips, executions'[i] = [executions[i] EXCEPT !.flip = flip]
          PROVE  executions'[i].flip # None
      <4>1. executions'[i].flip = flip
        BY <3>1, <3>3 DEF Receipts
      <4> QED BY <4>1, Constants
    <3> QED BY <3>1, <3>2, <3>3
  <2> QED BY <2>1, <2>2
<1>2. Types /\ [Next]_vars =>
         (/\ Len(executions) <= Len(executions')
          /\ \A i \in DOMAIN executions :
               LET old == executions[i]  new == executions'[i]
               IN  /\ Fixed(new) = Fixed(old)
                   /\ new # old => /\ old.status = "passed" /\ old.check = old.owner
                                   /\ new.flip # None)
  BY <1>1, Zenon
<1> QED BY <1>2, TypesInvariant, PTL DEF Spec, HistoryGrows

\* While a review is pending, no slice is closed or reopened and nothing is accepted, a review
\* that began while the checks ran included.
THEOREM ReviewIsAwaited == Spec => WaitsForReview
<1>1. ASSUME Types, [Next]_vars, reviewing
      PROVE  /\ \A s \in Slices : slices'[s] \in {"closed", "in-progress"} => slices'[s] = slices[s]
             /\ status' = "accepted" => status = "accepted"
  <2>1. ASSUME NEW p \in Commands, NEW gaps, Finish(p, gaps) PROVE UNCHANGED <<slices, status>>
    <3>1. command[p].mode = "verify"
      BY <1>1, <2>1 DEF Finish, Available
    <3> QED BY <1>1, <2>1, <3>1 DEF Finish
  <2>2. ASSUME NEW s \in Slices PROVE ~Work(s)
    BY <1>1 DEF Work
  <2>3. ASSUME NEW b \in Briefs, Revise(b)
        PROVE  /\ \A s \in Slices : slices'[s] \in {slices[s], "pending"}
               /\ status' = "accepted" => status = "accepted"
    BY <2>3 DEF Revise, SlicesAfter
  <2>4. ASSUME NEW p \in Commands,
               \/ \E mode \in Modes, s \in Owners, again \in BOOLEAN : Prepare(p, mode, s, again)
               \/ Reuse(p) \/ (\E result \in Statuses : Run(p, result)) \/ Refuse(p) \/ Cancel(p)
               \/ \E flip \in Flips \cup {None} : Publish(p, flip)
        PROVE  UNCHANGED <<slices, status>>
    BY <2>4 DEF Prepare, Reuse, Run, Refuse, Cancel, Publish, record
  <2>5. ASSUME (\E v \in Sources : Edit(v)) \/ Review \/ UNCHANGED vars
        PROVE  UNCHANGED <<slices, status>>
    BY <2>5 DEF Edit, Review, record, vars
  <2> QED BY <1>1, <2>1, <2>2, <2>3, <2>4, <2>5 DEF Next
<1>2. Types /\ [Next]_vars =>
        (reviewing =>
           /\ \A s \in Slices : slices'[s] \in {"closed", "in-progress"} => slices'[s] = slices[s]
           /\ status' = "accepted" => status = "accepted")
  BY <1>1
<1> QED BY <1>2, TypesInvariant, PTL DEF Spec, WaitsForReview

\* What is closed or accepted after a step was so before, under the same contracts.
Keeps ==
    /\ \A s \in Slices : slices'[s] = "closed" =>
           slices[s] = "closed" /\ ContractOf[brief'][s] = Contract(s)
    /\ status' = "accepted" =>
           /\ status = "accepted" /\ acceptedSubject' = acceptedSubject
           /\ ContractOf[brief'][None] = Contract(None)

\* Only a command that finishes closes a slice or accepts the feature.
LEMMA OnlyFinishCloses ==
    ASSUME Types, [Next]_vars
    PROVE  Keeps \/ \E p \in Commands, gaps \in BOOLEAN : Finish(p, gaps)
<1>a. Product /\ Acceptance
  BY DEF Types
<1>1. ASSUME NEW s \in Slices, Work(s) PROVE Keeps
  BY <1>a, <1>1 DEF Keeps, Work, Working, Product, Contract
<1>2. ASSUME NEW b \in Briefs, Revise(b) PROVE Keeps
  <2>1. \A s \in Slices : slices'[s] = IF ContractOf[b][s] = Contract(s) THEN slices[s] ELSE "pending"
    BY <1>2 DEF Revise, SlicesAfter
  <2>2. status' = "accepted" => status = "accepted" /\ AcceptanceApplies(b)
    BY <1>2 DEF Revise
  <2>3. /\ AcceptanceApplies(b) => acceptedSubject' = acceptedSubject
        /\ brief' = b
    BY <1>2 DEF Revise
  <2>4. status = "accepted" /\ AcceptanceApplies(b) => ContractOf[b][None] = Contract(None)
    BY <1>a DEF Acceptance, AcceptanceApplies
  <2> QED BY <2>1, <2>2, <2>3, <2>4 DEF Keeps
<1>3. CASE UNCHANGED <<slices, status, acceptedSubject, brief>>
  BY <1>3 DEF Keeps, Contract
<1>4. ASSUME NEW p \in Commands,
             \/ \E mode \in Modes, s \in Owners, again \in BOOLEAN : Prepare(p, mode, s, again)
             \/ Reuse(p) \/ (\E result \in Statuses : Run(p, result)) \/ Refuse(p) \/ Cancel(p)
             \/ \E flip \in Flips \cup {None} : Publish(p, flip)
      PROVE  UNCHANGED <<slices, status, acceptedSubject, brief>>
  BY <1>4 DEF Prepare, Reuse, Run, Refuse, Cancel, Publish, record
<1>5. ASSUME (\E v \in Sources : Edit(v)) \/ Review \/ UNCHANGED vars
      PROVE  UNCHANGED <<slices, status, acceptedSubject, brief>>
  BY <1>5 DEF Edit, Review, record, vars
<1> QED BY <1>1, <1>2, <1>3, <1>4, <1>5 DEF Next

\* What the command that closes a slice finds.
LEMMA ClosingFinds ==
    ASSUME Types, NEW p \in Commands, NEW gaps, Finish(p, gaps),
           NEW s \in Slices, slices[s] # "closed", slices'[s] = "closed"
    PROVE  Verdict(s, s) = "passed" /\ Verdict(s, None) \in {"passed", "none"}
<1>1. /\ command[p].slice = s /\ ~Unresolved(s) /\ ~NoPass(p)
      /\ s \in ToSet(command[p].batch.checks)
  <2>1. Product /\ s # None
    BY Constants DEF Types
  <2>2. /\ Covers(command[p]) /\ command[p].mode = "done"
        /\ ~Unresolved(command[p].slice) /\ ~NoPass(p)
        /\ slices' = [slices EXCEPT ![command[p].slice] = "closed"]
    BY Finishes
  <2>3. command[p].slice = s
    BY <2>1, <2>2 DEF Product
  <2>4. s \in ChecksFor(s)
    BY DEF ChecksFor
  <2> QED BY <2>2, <2>3, <2>4 DEF Covers
<1>2. Verdict(s, s) = "passed"
  BY <1>1 DEF NoPass, Owner
<1>3. Verdict(s, None) \in {"passed", "none"}
  <2>1. s \in ChecksFor(s) /\ s # None
    BY Constants DEF ChecksFor
  <2> QED BY <1>1, <2>1 DEF Unresolved
<1> QED BY <1>2, <1>3

\* What the command that accepts finds.
LEMMA AcceptingFinds ==
    ASSUME Types, NEW p \in Commands, NEW gaps, Finish(p, gaps),
           status' = "accepted", ~UNCHANGED <<status, acceptedSubject, acceptedContract>>
    PROVE  /\ acceptedSubject' = source /\ brief' = brief
           /\ \A c \in Checks : Verdict(c, None) = "passed"
           /\ \A c \in Slices, o \in Owners : Verdict(c, o) \in {"passed", "none"}
<1>1. /\ Covers(command[p]) /\ command[p].slice = None
      /\ Accept(TRUE) /\ ~Unresolved(None) /\ ~NoPass(p) /\ brief' = brief
  BY Finishes DEF Accept, Covers
<1>2. Checks \subseteq ToSet(command[p].batch.checks)
  BY <1>1 DEF Covers, ChecksFor, Checks
<1>3. ASSUME NEW c \in Checks PROVE Verdict(c, None) = "passed"
  BY <1>1, <1>2 DEF NoPass, Owner
<1>4. ASSUME NEW c \in Slices, NEW o \in Owners PROVE Verdict(c, o) \in {"passed", "none"}
  BY <1>1 DEF Unresolved, ChecksFor
<1> QED BY <1>1, <1>3, <1>4 DEF Accept

\* A command that closes or accepts goes by the latest receipts of everybody, not by those of
\* its own batch.
THEOREM LatestJudged == Spec => JudgesLatest
<1>1. ASSUME Types, [Next]_vars
      PROVE  /\ \A s \in Slices : slices[s] # "closed" /\ slices'[s] = "closed" =>
                    Verdict(s, s) = "passed" /\ Verdict(s, None) \in {"passed", "none"}
             /\ status # "accepted" /\ status' = "accepted" =>
                    \A c \in Slices, o \in Owners : Verdict(c, o) \in {"passed", "none"}
  BY <1>1, OnlyFinishCloses, ClosingFinds, AcceptingFinds DEF Keeps
<1>2. Types /\ [Next]_vars =>
        /\ \A s \in Slices : slices[s] # "closed" /\ slices'[s] = "closed" =>
              Verdict(s, s) = "passed" /\ Verdict(s, None) \in {"passed", "none"}
        /\ status # "accepted" /\ status' = "accepted" =>
              \A c \in Slices, o \in Owners : Verdict(c, o) \in {"passed", "none"}
  BY <1>1
<1> QED BY <1>2, TypesInvariant, PTL DEF Spec, JudgesLatest

-----------------------------------------------------------------------------
(* Passes *)

\* A pass stays recorded while the contract is the same.
LEMMA PassStays ==
    ASSUME Types, [Next]_vars, NEW c, NEW o, NEW subject,
           HasPass(c, o, subject), ContractOf[brief'][o] = Contract(o)
    PROVE  HasPass(c, o, subject)'
<1>1. executions \in Seq(Receipts)
  BY DEF Types, History
<1>2. PICK i \in DOMAIN executions :
        /\ executions[i].check = c /\ executions[i].owner = o
        /\ executions[i].subject = subject /\ executions[i].contract = Contract(o)
        /\ executions[i].status = "passed"
  BY DEF HasPass
<1>3. /\ i \in DOMAIN executions'
      /\ executions'[i].check = executions[i].check /\ executions'[i].owner = executions[i].owner
      /\ executions'[i].subject = executions[i].subject
      /\ executions'[i].contract = executions[i].contract
      /\ executions'[i].status = executions[i].status
  <2>1. /\ i \in DOMAIN executions' /\ executions[i] \in Receipts
        /\ \/ executions'[i] = executions[i]
           \/ \E flip : executions'[i] = [executions[i] EXCEPT !.flip = flip]
    BY HistoryKept
  <2> QED BY <2>1, SameSaid
<1> QED BY <1>2, <1>3 DEF HasPass, Contract

\* What is closed or accepted rests on recorded passes, whatever is edited, revised, restored or
\* published afterwards.
THEOREM PassesBehindTheEnd == Spec => []EndsOnPasses
<1>1. Init => EndsOnPasses
  BY DEF Init, EndsOnPasses
<1>2. EndsOnPasses /\ Types /\ [Next]_vars => EndsOnPasses'
  <2> SUFFICES ASSUME EndsOnPasses, Types, [Next]_vars PROVE EndsOnPasses'
    OBVIOUS
  <2>1. source \in Sources /\ Acceptance /\ Product
    BY DEF Types, Product
  <2>2. ASSUME status' = "accepted", NEW c \in Checks PROVE HasPass(c, None, acceptedSubject)'
    <3>1. PICK v : v = acceptedSubject'
      OBVIOUS
    <3>2. HasPass(c, None, v) /\ ContractOf[brief'][None] = Contract(None)
      <4>1. CASE Keeps
        BY <2>2, <3>1, <4>1 DEF Keeps, EndsOnPasses
      <4>2. ASSUME NEW p \in Commands, NEW gaps, Finish(p, gaps)
            PROVE  HasPass(c, None, v) /\ ContractOf[brief'][None] = Contract(None)
        <5>1. brief' = brief
          BY <4>2, Finishes
        <5>2. CASE UNCHANGED <<status, acceptedSubject, acceptedContract>>
          BY <2>2, <3>1, <5>1, <5>2 DEF EndsOnPasses, Contract
        <5>3. CASE ~UNCHANGED <<status, acceptedSubject, acceptedContract>>
          <6>1. v = source /\ Verdict(c, None) = "passed"
            BY <2>2, <3>1, <4>2, <5>3, AcceptingFinds
          <6> QED BY <5>1, <6>1, PassIsRecorded DEF Contract
        <5> QED BY <5>2, <5>3
      <4> QED BY <2>2, <4>1, <4>2, OnlyFinishCloses
    <3>3. HasPass(c, None, v)'
      BY <3>2, PassStays
    <3> QED BY <3>1, <3>3 DEF HasPass
  <2>3. ASSUME NEW s \in Slices, slices'[s] = "closed" PROVE \E v \in Sources : HasPass(s, s, v)'
    <3>1. \E v \in Sources : HasPass(s, s, v) /\ ContractOf[brief'][s] = Contract(s)
      <4>1. CASE Keeps
        BY <2>3, <4>1 DEF Keeps, EndsOnPasses
      <4>2. ASSUME NEW p \in Commands, NEW gaps, Finish(p, gaps)
            PROVE  \E v \in Sources : HasPass(s, s, v) /\ ContractOf[brief'][s] = Contract(s)
        <5>1. ContractOf[brief'][s] = Contract(s)
          BY <4>2, Finishes DEF Contract
        <5>2. CASE slices[s] = "closed"
          BY <5>1, <5>2 DEF EndsOnPasses
        <5>3. CASE slices[s] # "closed"
          <6>1. Verdict(s, s) = "passed"
            BY <2>3, <4>2, <5>3, ClosingFinds
          <6> QED BY <2>1, <5>1, <6>1, PassIsRecorded
        <5> QED BY <5>2, <5>3
      <4> QED BY <2>3, <4>1, <4>2, OnlyFinishCloses
    <3> QED BY <3>1, PassStays
  <2> QED BY <2>2, <2>3 DEF EndsOnPasses
<1> QED BY <1>1, <1>2, TypesInvariant, PTL DEF Spec
=============================================================================
