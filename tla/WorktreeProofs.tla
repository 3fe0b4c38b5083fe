---------------------------- MODULE WorktreeProofs ----------------------------
(***************************************************************************)
(* The files that people edit while VISP writes them.                      *)
(*                                                                         *)
(* File transactions, for any project, any plans, any number of writers    *)
(* and faults: what they overwrite, what they commit, what a rollback      *)
(* restores, and, when nobody edits during an update, that every journal   *)
(* can be rolled back and that the files change as if each update happened *)
(* at one instant.                                                         *)
(*                                                                         *)
(* Installations, for any harnesses, profiles, files and options: what     *)
(* VISP knows to be its own, that the project's hook runs, and that        *)
(* commands keep what people wrote.                                        *)
(***************************************************************************)
EXTENDS MCWorktree, SequenceTheorems, TLAPS

Journals == [state : {"prepared", "committed"}, entries : Seq(Entry) \ {<<>>}]

Control ==
    /\ holder \in Writers \cup {None} /\ pc \in Labels /\ (pc = "idle" <=> holder = None)
    /\ raced \subseteq Paths

Counters == index \in Nat \ {0} /\ faults \in 0..MaxFaults

Flags == failed \in BOOLEAN /\ committed \in BOOLEAN

Data ==
    /\ files \in [Paths -> FileState]
    /\ journal \in Journals \cup {None}
    /\ plan \in Seq(Mutation) /\ entries \in Seq(Entry)

Types == Control /\ Counters /\ Flags /\ Data

\* No list names a target twice.
Distinct ==
    /\ DistinctTargets(plan)
    /\ pc = "record" => DistinctTargets(entries) /\ entries # <<>>
    /\ journal # None => DistinctTargets(journal.entries)

\* From its write to its removal, the journal on disk is the one the owner has in memory.
OwnJournal ==
    /\ pc \in {"check", "write", "confirm", "mark", "classify", "restore"} =>
          Prepared /\ journal.entries = entries
    /\ pc = "drop" /\ Prepared => journal.entries = entries
    /\ pc \in {"prepare", "record"} => journal = None
    /\ pc = "clean" => ~Prepared
    /\ pc \in {"write", "confirm"} => index \in DOMAIN entries /\ OwnsWrites(Current)

\* A restored entry is back, one to restore still is what the update made of it, unless an
\* editor came in between.
Restoring ==
    /\ pending \subseteq {i \in DOMAIN entries : OwnsWrites(entries[i])}
    /\ pc \notin {"restore", "finish"} => pending = {}
    /\ pc = "restore" => \A i \in DOMAIN entries : OwnsWrites(entries[i]) =>
          \/ entries[i].path \in raced
          \/ IF i \in pending THEN Applied(entries[i]) ELSE Restored(entries[i])
    /\ pc = "drop" /\ Prepared => \A i \in DOMAIN entries : OwnsWrites(entries[i]) =>
          Restored(entries[i]) \/ entries[i].path \in raced

\* What the owner looked at before it writes or commits still is so, unless an editor came in
\* between.
Checked ==
    /\ pc = "write" => Restored(Current) \/ Current.path \in raced
    /\ pc = "mark" => \A i \in DOMAIN entries : InPlace(entries[i]) \/ entries[i].path \in raced

IInv == Types /\ Distinct /\ OwnJournal /\ Restoring /\ Checked

-----------------------------------------------------------------------------
(* Files, mutations and entries *)

\* The state a mutation plans for its target is a file state.
LEMMA AfterType ==
    ASSUME NEW m \in Mutation, NEW before \in FileState
    PROVE  EntryFor(m, before) \in Entry
<1> USE MutationConstants DEF Mutation, FileState, Entry, EntryFor, After
<1>1. CASE m.kind = "remove"
  BY <1>1
<1>2. CASE m.kind = "assert"
  BY <1>2
<1>3. CASE m.kind = "write"
  <2>1. m.body \in Bodies /\ m.mode \in Modes \cup {KeepMode} /\ m.path \in Paths
    BY <1>3
  <2>2. ~IsLink(before) /\ before # Absent => before.mode \in Modes
    BY DEF IsLink
  <2>3. After(m, before) \in [body : Bodies, mode : Modes]
    <3>1. CASE m.body \in Links
      BY <1>3, <2>1, <3>1
    <3>2. CASE m.body \notin Links /\ m.mode # KeepMode
      BY <1>3, <2>1, <3>2
    <3>3. CASE m.body \notin Links /\ m.mode = KeepMode
      BY <1>3, <2>1, <2>2, <3>3
    <3> QED BY <3>1, <3>2, <3>3
  <2> QED BY <1>3, <2>1, <2>3
<1> QED BY <1>1, <1>2, <1>3

\* A file that matches a complete snapshot is that snapshot.
LEMMA MatchIsExact ==
    ASSUME NEW state \in FileState, NEW expected \in FileState
    PROVE  Matches(state, expected) <=> state = expected
  BY MutationConstants DEF Matches, SameBody, FileState

\* Two entries of a journal are about two files.
LEMMA OneEntry ==
    ASSUME NEW items, DistinctTargets(items), NEW i \in DOMAIN items
    PROVE  ItemFor(items, items[i].path) = items[i]
  BY DEF DistinctTargets, ItemFor

\* The journal made of a plan is one for the same targets.
LEMMA PreparedEntries ==
    ASSUME Types, Distinct,
           NEW list, list = [i \in DOMAIN plan |-> EntryFor(plan[i], files[plan[i].path])]
    PROVE  /\ list \in Seq(Entry) /\ DOMAIN list = DOMAIN plan
           /\ DistinctTargets(list) /\ (plan # <<>> => list # <<>>)
<1>1. /\ plan \in Seq(Mutation) /\ files \in [Paths -> FileState]
      /\ DOMAIN plan = 1..Len(plan) /\ Len(plan) \in Nat
  BY DEF Types, Data
<1>2. \A i \in DOMAIN plan : plan[i] \in Mutation /\ plan[i].path \in Paths
  BY <1>1 DEF Mutation
<1>3. \A i \in DOMAIN plan : list[i] \in Entry /\ list[i].path = plan[i].path
  <2> TAKE i \in DOMAIN plan
  <2>1. files[plan[i].path] \in FileState
    BY <1>1, <1>2
  <2> QED BY <1>2, <2>1, AfterType DEF EntryFor
<1>4. list \in [1..Len(plan) -> Entry]
  BY <1>1, <1>3
<1>5. list \in Seq(Entry) /\ DOMAIN list = DOMAIN plan
  BY <1>1, <1>4, IsASeq
<1>6. DistinctTargets(list)
  BY <1>3, <1>5 DEF Distinct, DistinctTargets
<1>7. plan # <<>> => list # <<>>
  BY <1>1, <1>4, <1>5
<1> QED BY <1>5, <1>6, <1>7

\* What is assumed of the constants.
LEMMA Constants ==
    /\ None \notin Writers /\ MaxFaults \in Nat
    /\ Initial \in [Paths -> FileState] /\ Editor \subseteq FileState
    /\ Plans \subseteq Seq(Mutation) /\ \A list \in Plans : DistinctTargets(list)
  BY MutationConstants, TransactionConstants

\* What is on disk can be told from no journal.
LEMMA JournalFields ==
    /\ None \notin Journals
    /\ \A j \in Journals :
        /\ j.state \in {"prepared", "committed"} /\ j.entries \in Seq(Entry) /\ j.entries # <<>>
        /\ [j EXCEPT !.state = "committed"] \in Journals
        /\ [j EXCEPT !.state = "committed"].entries = j.entries
        /\ [j EXCEPT !.state = "committed"].state = "committed"
<1>1. \A list : list \in Seq(Entry) \ {<<>>} => list \in Seq(Entry)
  OBVIOUS
<1>2. None \notin Journals
  BY TransactionConstants DEF Journals
<1> QED BY <1>2 DEF Journals

\* An entry's files.
LEMMA EntryFields ==
    \A e \in Entry : e.path \in Paths /\ e.before \in FileState /\ e.after \in FileState
  BY DEF Entry

-----------------------------------------------------------------------------
(* The inductive invariant *)

\* Initially nothing is under way.
LEMMA InitIInv == ASSUME Init PROVE IInv
<1> USE DEF Init, Owner!Init
<1>1. Types
  <2>1. Control
    BY Constants DEF Control, Labels
  <2>2. Counters
    BY Constants DEF Counters
  <2>3. Flags
    BY DEF Flags
  <2>4. Data
    BY Constants DEF Data
  <2> QED BY <2>1, <2>2, <2>3, <2>4 DEF Types
<1>2. Distinct
  BY Constants, TransactionConstants DEF Distinct, DistinctTargets
<1>3. OwnJournal /\ Restoring /\ Checked
  BY DEF OwnJournal, Restoring, Checked
<1> QED BY <1>1, <1>2, <1>3 DEF IInv

\* The lock is held from the start of an operation to its end.
LEMMA ControlStep == ASSUME Control, [Next]_vars PROVE Control'
<1> USE Constants DEF Control, Labels, Fault, Abort, RollBack, Forget, Owner!Acquire,
       Owner!Relinquish, diskVars, ownVars
<1>1. CASE ReadJournals \/ Classify \/ RestoreEntry \/ EndRestore
  BY <1>1 DEF ReadJournals, Classify, RestoreEntry, EndRestore
<1>2. CASE DropJournal \/ Prepare \/ Record
  BY <1>2 DEF DropJournal, Prepare, Record
<1>3. CASE CheckTarget \/ WriteTarget \/ ConfirmTarget
  BY <1>3 DEF CheckTarget, WriteTarget, ConfirmTarget
<1>4. CASE VerifyAll \/ MarkCommitted \/ RemoveCommitted \/ ReadError
  BY <1>4 DEF VerifyAll, MarkCommitted, RemoveCommitted, ReadError
<1>5. ASSUME NEW w \in Writers, Begin(w) \/ Finish(w) \/ Crash(w) PROVE Control'
  BY <1>5 DEF Begin, Finish, Crash
<1>6. ASSUME NEW p \in Paths, Edit(p) PROVE Control'
  BY <1>6 DEF Edit
<1>7. CASE UNCHANGED vars
  BY <1>7 DEF vars
<1> QED BY <1>1, <1>2, <1>3, <1>4, <1>5, <1>6, <1>7 DEF Next, OwnerStep

\* Positions and faults are counted.
LEMMA CountersStep == ASSUME Counters, [Next]_vars PROVE Counters'
<1> USE Constants DEF Counters, Fault, Forget, diskVars, ownVars
<1>1. CASE ReadJournals \/ Classify \/ RestoreEntry \/ EndRestore
  BY <1>1 DEF ReadJournals, Classify, RestoreEntry, EndRestore
<1>2. CASE DropJournal \/ Prepare \/ Record
  BY <1>2 DEF DropJournal, Prepare, Record
<1>3. CASE CheckTarget \/ WriteTarget \/ ConfirmTarget
  BY <1>3 DEF CheckTarget, WriteTarget, ConfirmTarget
<1>4. CASE VerifyAll \/ MarkCommitted \/ RemoveCommitted \/ ReadError
  BY <1>4 DEF VerifyAll, MarkCommitted, RemoveCommitted, ReadError
<1>5. ASSUME NEW w \in Writers, Begin(w) \/ Finish(w) \/ Crash(w) PROVE Counters'
  BY <1>5 DEF Begin, Finish, Crash
<1>6. ASSUME NEW p \in Paths, Edit(p) PROVE Counters'
  BY <1>6 DEF Edit
<1>7. CASE UNCHANGED vars
  BY <1>7 DEF vars
<1> QED BY <1>1, <1>2, <1>3, <1>4, <1>5, <1>6, <1>7 DEF Next, OwnerStep

\* The outcome of an operation is told by two flags.
LEMMA FlagsStep == ASSUME Flags, [Next]_vars PROVE Flags'
<1> USE DEF Flags, Abort, RollBack, Forget, diskVars, ownVars
<1>1. CASE ReadJournals \/ Classify \/ RestoreEntry \/ EndRestore
  BY <1>1 DEF ReadJournals, Classify, RestoreEntry, EndRestore
<1>2. CASE DropJournal \/ Prepare \/ Record
  BY <1>2 DEF DropJournal, Prepare, Record
<1>3. CASE CheckTarget \/ WriteTarget \/ ConfirmTarget
  BY <1>3 DEF CheckTarget, WriteTarget, ConfirmTarget
<1>4. CASE VerifyAll \/ MarkCommitted \/ RemoveCommitted \/ ReadError
  BY <1>4 DEF VerifyAll, MarkCommitted, RemoveCommitted, ReadError
<1>5. ASSUME NEW w \in Writers, Begin(w) \/ Finish(w) \/ Crash(w) PROVE Flags'
  BY <1>5 DEF Begin, Finish, Crash
<1>6. ASSUME NEW p \in Paths, Edit(p) PROVE Flags'
  BY <1>6 DEF Edit
<1>7. CASE UNCHANGED vars
  BY <1>7 DEF vars
<1> QED BY <1>1, <1>2, <1>3, <1>4, <1>5, <1>6, <1>7 DEF Next, OwnerStep

\* Every file is in a state a project can be in, every journal is one that can be read back.
LEMMA DataStep == ASSUME IInv, [Next]_vars PROVE Data'
<1> USE DEF Data, diskVars, ownVars, Abort, RollBack
<1>t. Data /\ Counters /\ OwnJournal /\ pending \subseteq DOMAIN entries
  BY DEF IInv, Types, Restoring
<1>j. journal # None => journal.entries \in Seq(Entry) /\ journal \in Journals
  BY <1>t, JournalFields
<1>e. \A i \in DOMAIN entries : entries[i] \in Entry
  BY <1>t
<1>1. CASE ReadJournals \/ Classify \/ EndRestore \/ CheckTarget \/ ConfirmTarget \/ VerifyAll \/ ReadError
  BY <1>1, <1>t, <1>j
     DEF ReadJournals, Classify, EndRestore, CheckTarget, ConfirmTarget, VerifyAll, ReadError
<1>2. CASE RestoreEntry
  <2>1. /\ UNCHANGED <<journal, plan, entries>>
        /\ \/ UNCHANGED files
           \/ \E i \in pending : files' = [files EXCEPT ![entries[i].path] = entries[i].before]
    BY <1>2 DEF RestoreEntry
  <2> QED BY <2>1, <1>t, <1>e, EntryFields
<1>3. CASE DropJournal \/ RemoveCommitted
  BY <1>3, <1>t DEF DropJournal, RemoveCommitted
<1>4. CASE Prepare
  <2>1. /\ UNCHANGED <<files, journal, plan>>
        /\ \/ UNCHANGED entries
           \/ entries' = [i \in DOMAIN plan |-> EntryFor(plan[i], files[plan[i].path])]
    BY <1>4 DEF Prepare
  <2>2. entries' \in Seq(Entry)
    BY <2>1, <1>t, PreparedEntries DEF IInv
  <2> QED BY <2>1, <2>2, <1>t
<1>5. CASE Record
  <2>1. /\ UNCHANGED <<files, plan, entries>> /\ entries # <<>>
        /\ UNCHANGED journal \/ journal' = [state |-> "prepared", entries |-> entries]
    BY <1>5 DEF Record, IInv, Distinct
  <2>2. entries \in Seq(Entry) \ {<<>>}
    BY <2>1, <1>t
  <2>3. [state |-> "prepared", entries |-> entries] \in Journals
    BY <2>2 DEF Journals
  <2> QED BY <2>1, <2>3, <1>t
<1>6. CASE WriteTarget
  <2>1. /\ UNCHANGED <<journal, plan, entries>>
        /\ UNCHANGED files \/ files' = [files EXCEPT ![Current.path] = Current.after]
        /\ index \in DOMAIN entries
    BY <1>6, <1>t DEF WriteTarget, OwnJournal
  <2> QED BY <2>1, <1>t, <1>e, EntryFields DEF Current
<1>7. CASE MarkCommitted
  <2>1. /\ UNCHANGED <<files, plan, entries>> /\ journal # None
        /\ UNCHANGED journal \/ journal' = [journal EXCEPT !.state = "committed"]
    BY <1>7, <1>t DEF MarkCommitted, OwnJournal, Prepared
  <2> QED BY <2>1, <1>t, <1>j, JournalFields
<1>8. ASSUME NEW w \in Writers, Begin(w) \/ Finish(w) \/ Crash(w) PROVE Data'
  <2>1. UNCHANGED <<files, journal>>
    BY <1>8 DEF Begin, Finish, Crash
  <2>2. \/ plan' \in Plans /\ entries' = entries
        \/ plan' = <<>> /\ entries' = <<>>
    BY <1>8 DEF Begin, Finish, Crash, Forget
  <2>3. plan' \in Seq(Mutation) /\ entries' \in Seq(Entry)
    <3>1. CASE plan' \in Plans /\ entries' = entries
      BY <3>1, <1>t, Constants
    <3>2. CASE plan' = <<>> /\ entries' = <<>>
      BY <3>2
    <3> QED BY <2>2, <3>1, <3>2
  <2> QED BY <2>1, <2>3, <1>t
<1>9. ASSUME NEW p \in Paths, Edit(p) PROVE Data'
  BY <1>9, <1>t, Constants DEF Edit
<1>10. CASE UNCHANGED vars
  BY <1>10, <1>t DEF vars
<1> QED BY <1>1, <1>2, <1>3, <1>4, <1>5, <1>6, <1>7, <1>8, <1>9, <1>10 DEF Next, OwnerStep

\* A plan and a journal name each target once.
LEMMA DistinctStep == ASSUME IInv, [Next]_vars PROVE Distinct'
<1> USE DEF Distinct, diskVars, ownVars, Abort, RollBack
<1>t. Types /\ Distinct /\ OwnJournal
  BY DEF IInv
<1>1. CASE ReadJournals \/ Classify \/ RestoreEntry \/ EndRestore \/ DropJournal \/ RemoveCommitted
  BY <1>1, <1>t DEF ReadJournals, Classify, RestoreEntry, EndRestore, DropJournal, RemoveCommitted
<1>2. CASE CheckTarget \/ WriteTarget \/ ConfirmTarget \/ VerifyAll \/ ReadError
  BY <1>2, <1>t DEF CheckTarget, WriteTarget, ConfirmTarget, VerifyAll, ReadError
<1>3. CASE Prepare
  <2>1. /\ UNCHANGED <<files, journal, plan>>
        /\ \/ pc' # "record"
           \/ /\ entries' = [i \in DOMAIN plan |-> EntryFor(plan[i], files[plan[i].path])]
              /\ plan # <<>>
    BY <1>3 DEF Prepare
  <2>2. pc' = "record" => DistinctTargets(entries') /\ entries' # <<>>
    BY <2>1, <1>t, PreparedEntries
  <2> QED BY <2>1, <2>2, <1>t DEF DistinctTargets
<1>4. CASE Record
  <2>1. /\ UNCHANGED <<files, plan, entries>> /\ DistinctTargets(entries) /\ pc' # "record"
        /\ UNCHANGED journal \/ journal'.entries = entries
    BY <1>4, <1>t DEF Record
  <2> QED BY <2>1, <1>t DEF DistinctTargets
<1>5. CASE MarkCommitted
  <2>1. /\ UNCHANGED <<files, plan, entries>> /\ journal # None /\ pc' # "record"
        /\ UNCHANGED journal \/ journal' = [journal EXCEPT !.state = "committed"]
    BY <1>5, <1>t DEF MarkCommitted, OwnJournal, Prepared
  <2>2. journal'.entries = journal.entries
    BY <2>1, <1>t, JournalFields DEF Types, Data
  <2> QED BY <2>1, <2>2, <1>t DEF DistinctTargets
<1>6. ASSUME NEW w \in Writers, Begin(w) PROVE Distinct'
  <2>1. plan' \in Plans /\ UNCHANGED <<journal, entries>> /\ pc' = "recover"
    BY <1>6 DEF Begin
  <2> QED BY <2>1, <1>t, Constants
<1>7. ASSUME NEW w \in Writers, Finish(w) \/ Crash(w) PROVE Distinct'
  <2>1. plan' = <<>> /\ UNCHANGED journal /\ pc' = "idle"
    BY <1>7 DEF Finish, Crash, Forget
  <2> QED BY <2>1, <1>t DEF DistinctTargets
<1>8. ASSUME NEW p \in Paths, Edit(p) PROVE Distinct'
  BY <1>8, <1>t DEF Edit
<1>9. CASE UNCHANGED vars
  BY <1>9, <1>t DEF vars
<1> QED BY <1>1, <1>2, <1>3, <1>4, <1>5, <1>6, <1>7, <1>8, <1>9 DEF Next, OwnerStep

\* The owner's journal is on disk while it may have changed a file.
LEMMA OwnJournalStep == ASSUME IInv, [Next]_vars PROVE OwnJournal'
<1> USE DEF OwnJournal, Prepared, Current, diskVars, ownVars, Abort, RollBack, Forget
<1>t. Types /\ OwnJournal
  BY JournalFields DEF IInv
<1>1. CASE ReadJournals \/ Classify \/ EndRestore \/ DropJournal
  BY <1>1, <1>t DEF ReadJournals, Classify, EndRestore, DropJournal
<1>2. CASE RestoreEntry
  BY <1>2, <1>t DEF RestoreEntry
<1>3. CASE Prepare
  BY <1>3, <1>t DEF Prepare
<1>11. CASE Record
  <2>1. entries \in Seq(Entry) \ {<<>>}
    BY <1>11, <1>t DEF Record, IInv, Distinct, Types, Data
  <2>2. [state |-> "prepared", entries |-> entries] \in Journals
    BY <2>1 DEF Journals
  <2> QED BY <1>11, <2>2, <1>t, JournalFields DEF Record
<1>4. CASE CheckTarget
  BY <1>4, <1>t DEF CheckTarget, Types, Data, Counters
<1>5. CASE WriteTarget \/ ConfirmTarget \/ VerifyAll
  BY <1>5, <1>t DEF WriteTarget, ConfirmTarget, VerifyAll
<1>6. CASE MarkCommitted
  <2>1. CASE pc' = "classify" /\ UNCHANGED <<journal, entries>>
    BY <1>6, <2>1, <1>t DEF MarkCommitted
  <2>2. CASE pc' = "clean" /\ journal' = [journal EXCEPT !.state = "committed"]
    <3>1. journal \in Journals
      BY <1>6, <1>t DEF MarkCommitted, Types, Data
    <3> QED BY <3>1, <2>2, JournalFields
  <2> QED BY <1>6, <2>1, <2>2 DEF MarkCommitted
<1>7. CASE RemoveCommitted \/ ReadError
  BY <1>7, <1>t DEF RemoveCommitted, ReadError
<1>8. ASSUME NEW w \in Writers, Begin(w) \/ Finish(w) \/ Crash(w) PROVE OwnJournal'
  BY <1>8 DEF Begin, Finish, Crash
<1>9. ASSUME NEW p \in Paths, Edit(p) PROVE OwnJournal'
  BY <1>9, <1>t DEF Edit
<1>10. CASE UNCHANGED vars
  BY <1>10, <1>t DEF vars
<1> QED BY <1>1, <1>2, <1>3, <1>4, <1>5, <1>6, <1>7, <1>8, <1>9, <1>10, <1>11
       DEF Next, OwnerStep

\* A rollback misses no file: a classified entry stays classified until it is restored, because
\* no other entry is about its file and an editor's save is remembered.
LEMMA RestoringStep == ASSUME IInv, [Next]_vars PROVE Restoring'
<1> USE DEF Restoring, Prepared, diskVars, ownVars, Abort, RollBack, Forget, Restored, Applied,
            OwnsWrites
<1>t. Types /\ OwnJournal /\ Restoring
  BY DEF IInv
<1>1. CASE ReadJournals \/ Prepare \/ Record
  BY <1>1, <1>t DEF ReadJournals, Prepare, Record
<1>2. CASE Classify
  <2>1. CASE pc' = "finish" /\ UNCHANGED pending
    BY <1>2, <2>1, <1>t DEF Classify
  <2>2. CASE /\ \A i \in DOMAIN entries : OwnsWrites(entries[i]) => ~Divergent(entries[i])
             /\ pending' = ToRestore /\ pc' = "restore"
    BY <1>2, <2>2 DEF Classify, ToRestore, Divergent
  <2> QED BY <1>2, <2>1, <2>2 DEF Classify
<1>3. CASE RestoreEntry
  <2>1. PICK i \in pending :
          \/ /\ files' = [files EXCEPT ![entries[i].path] = entries[i].before]
             /\ pending' = pending \ {i} /\ pc' = pc
          \/ pc' = "finish" /\ pending' = pending
    BY <1>3 DEF RestoreEntry
  <2>2. pc = "restore" /\ UNCHANGED <<entries, raced>>
    BY <1>3 DEF RestoreEntry
  <2>3. CASE pc' = "finish" /\ pending' = pending
    BY <2>2, <2>3, <1>t
  <2>4. CASE /\ files' = [files EXCEPT ![entries[i].path] = entries[i].before]
             /\ pending' = pending \ {i} /\ pc' = pc
    <3>1. /\ i \in DOMAIN entries /\ files \in [Paths -> FileState]
          /\ entries[i].path \in Paths /\ entries[i].before \in FileState
      BY <1>t, EntryFields DEF Types, Data
    <3>2. DistinctTargets(entries)
      BY <2>2, <1>t DEF IInv, OwnJournal, Distinct
    <3>3. Matches(files'[entries[i].path], entries[i].before)
      BY <3>1, <2>4, MatchIsExact
    <3>4. \A k \in DOMAIN entries \ {i} : files'[entries[k].path] = files[entries[k].path]
      BY <3>1, <3>2, <2>4 DEF DistinctTargets
    <3> QED BY <3>1, <3>3, <3>4, <2>2, <2>4, <1>t
  <2> QED BY <2>1, <2>3, <2>4
<1>4. CASE EndRestore
  BY <1>4, <1>t DEF EndRestore, OwnJournal
<1>5. CASE DropJournal \/ CheckTarget \/ ConfirmTarget
  BY <1>5, <1>t DEF DropJournal, CheckTarget, ConfirmTarget
<1>6. CASE WriteTarget \/ VerifyAll \/ MarkCommitted \/ RemoveCommitted \/ ReadError
  BY <1>6, <1>t DEF WriteTarget, VerifyAll, MarkCommitted, RemoveCommitted, ReadError
<1>7. ASSUME NEW w \in Writers, Begin(w) \/ Finish(w) \/ Crash(w) PROVE Restoring'
  BY <1>7, <1>t DEF Begin, Finish, Crash
<1>8. ASSUME NEW p \in Paths, Edit(p) PROVE Restoring'
  <2>1. /\ UNCHANGED <<journal, pc, entries, pending>>
        /\ \A q \in Paths : q # p => files'[q] = files[q]
        /\ raced \subseteq raced' /\ (pc \in {"restore", "drop"} => p \in raced')
    BY <1>8, <1>t DEF Edit, Types, Data
  <2>2. \A i \in DOMAIN entries :
          entries[i].path = p \/ files'[entries[i].path] = files[entries[i].path]
    BY <2>1, <1>t, EntryFields DEF Types, Data
  <2> QED BY <2>1, <2>2, <1>t
<1>9. CASE UNCHANGED vars
  BY <1>9, <1>t DEF vars
<1> QED BY <1>1, <1>2, <1>3, <1>4, <1>5, <1>6, <1>7, <1>8, <1>9 DEF Next, OwnerStep

\* What was looked at is what is written or committed.
LEMMA CheckedStep == ASSUME IInv, [Next]_vars PROVE Checked'
<1> USE DEF Checked, diskVars, ownVars, Abort, RollBack, Forget, Restored, InPlace, Current
<1>t. Types /\ OwnJournal /\ Checked
  BY DEF IInv
<1>1. CASE ReadJournals \/ Classify \/ RestoreEntry \/ EndRestore \/ DropJournal
  BY <1>1, <1>t DEF ReadJournals, Classify, RestoreEntry, EndRestore, DropJournal
<1>2. CASE Prepare \/ Record \/ WriteTarget \/ ConfirmTarget
  BY <1>2, <1>t DEF Prepare, Record, WriteTarget, ConfirmTarget
<1>3. CASE CheckTarget
  BY <1>3, <1>t DEF CheckTarget
<1>4. CASE VerifyAll
  BY <1>4, <1>t DEF VerifyAll
<1>5. CASE MarkCommitted \/ RemoveCommitted \/ ReadError
  BY <1>5, <1>t DEF MarkCommitted, RemoveCommitted, ReadError
<1>6. ASSUME NEW w \in Writers, Begin(w) \/ Finish(w) \/ Crash(w) PROVE Checked'
  BY <1>6 DEF Begin, Finish, Crash
<1>7. ASSUME NEW p \in Paths, Edit(p) PROVE Checked'
  <2>1. /\ UNCHANGED <<pc, entries, index>>
        /\ \A q \in Paths : q # p => files'[q] = files[q]
        /\ raced \subseteq raced' /\ (pc \in {"write", "mark"} => p \in raced')
    BY <1>7, <1>t DEF Edit, Types, Data
  <2>2. \A i \in DOMAIN entries :
          entries[i].path = p \/ files'[entries[i].path] = files[entries[i].path]
    BY <2>1, <1>t, EntryFields DEF Types, Data
  <2>3. pc = "write" => index \in DOMAIN entries
    BY <1>t DEF OwnJournal
  <2> QED BY <2>1, <2>2, <2>3, <1>t
<1>8. CASE UNCHANGED vars
  BY <1>8, <1>t DEF vars
<1> QED BY <1>1, <1>2, <1>3, <1>4, <1>5, <1>6, <1>7, <1>8 DEF Next, OwnerStep

\* The invariant holds in every state.
LEMMA Invariance == Spec => []IInv
<1>1. Init => IInv
  BY InitIInv
<1>2. IInv /\ [Next]_vars => IInv'
  <2> SUFFICES ASSUME IInv, [Next]_vars PROVE IInv'
    OBVIOUS
  <2>1. Control' /\ Counters' /\ Flags'
    BY ControlStep, CountersStep, FlagsStep DEF IInv, Types
  <2> QED BY <2>1, DataStep, DistinctStep, OwnJournalStep, RestoringStep, CheckedStep DEF IInv, Types
<1> QED BY <1>1, <1>2, PTL DEF Spec

-----------------------------------------------------------------------------
(* What the transactions promise *)

\* Every variable keeps its type, whatever crashes, fails or is edited.
THEOREM TypeCorrect == Spec => []TypeOK
<1>1. IInv => TypeOK
  <2> SUFFICES ASSUME IInv PROVE TypeOK
    OBVIOUS
  <2> USE DEF IInv, Types
  <2>1. /\ files \in [Paths -> FileState] /\ plan \in Seq(Mutation) /\ entries \in Seq(Entry)
        /\ journal = None \/ (/\ journal.state \in {"prepared", "committed"}
                              /\ journal.entries \in Seq(Entry) \ {<<>>})
    BY JournalFields DEF Data
  <2>2. Owner!HolderOK /\ pc \in Labels /\ (pc = "idle" <=> holder = None) /\ raced \subseteq Paths
    BY DEF Control, Owner!HolderOK
  <2>3. pending \subseteq DOMAIN entries
    BY DEF Restoring
  <2>4. index \in Nat \ {0} /\ faults \in 0..MaxFaults
    BY DEF Counters
  <2>5. failed \in BOOLEAN /\ committed \in BOOLEAN
    BY DEF Flags
  <2> QED BY <2>1, <2>2, <2>3, <2>4, <2>5, Zenon DEF TypeOK
<1> QED BY <1>1, Invariance, PTL

\* When the journal is marked committed, every target is in place and every assertion holds, an
\* edit after the final verification excepted (file-transaction.ts:222).
THEOREM CommitIsVerified == Spec => CommitsOnlyVerified
<1>1. IInv /\ [Next]_vars =>
        (pc = "mark" /\ pc' = "clean" =>
           \A i \in DOMAIN entries : InPlace(entries[i]) \/ entries[i].path \in raced)
  BY DEF IInv, Checked
<1> QED BY <1>1, Invariance, PTL DEF Spec, CommitsOnlyVerified

\* A journal that was not committed is dropped only when each of its files is back, unless an
\* editor came in between: a rollback that fails, is interrupted or finds a file in a third
\* state keeps its journal (file-transaction.ts:524).
THEOREM RollbackRestores == Spec => RollbackComplete
<1> DEFINE Back ==
      \A i \in DOMAIN journal.entries :
          OwnsWrites(journal.entries[i]) =>
              Restored(journal.entries[i]) \/ journal.entries[i].path \in raced
<1>1. ASSUME IInv, [Next]_vars, Prepared, journal' = None PROVE Back
  <2> USE <1>1 DEF IInv, OwnJournal, Prepared, diskVars, vars
  <2>1. CASE DropJournal
    BY <2>1 DEF DropJournal, Restoring
  <2>2. CASE RemoveCommitted
    BY <2>2 DEF RemoveCommitted
  <2>3. CASE Record \/ MarkCommitted
    <3>1. journal' # None \/ UNCHANGED journal
      <4>1. CASE Record
        BY <4>1 DEF Record
      <4>2. CASE MarkCommitted
        <5>1. journal \in Journals
          BY DEF Types, Data
        <5> QED BY <4>2, <5>1, JournalFields DEF MarkCommitted
      <4> QED BY <2>3, <4>1, <4>2
    <3> QED BY <3>1
  <2>4. CASE ReadJournals \/ Classify \/ RestoreEntry \/ EndRestore \/ Prepare
    BY <2>4 DEF ReadJournals, Classify, RestoreEntry, EndRestore, Prepare
  <2>5. CASE CheckTarget \/ WriteTarget \/ ConfirmTarget \/ VerifyAll \/ ReadError
    BY <2>5 DEF CheckTarget, WriteTarget, ConfirmTarget, VerifyAll, ReadError
  <2>6. ASSUME NEW w \in Writers, Begin(w) \/ Finish(w) \/ Crash(w) PROVE Back
    BY <2>6 DEF Begin, Finish, Crash
  <2>7. ASSUME NEW p \in Paths, Edit(p) PROVE Back
    BY <2>7 DEF Edit
  <2>8. CASE UNCHANGED vars
    BY <2>8
  <2> QED BY <2>1, <2>2, <2>3, <2>4, <2>5, <2>6, <2>7, <2>8 DEF Next, OwnerStep
<1>2. IInv /\ [Next]_vars => (Prepared /\ journal' = None => Back)
  BY <1>1
<1>3. (Prepared /\ journal' = None => Back) =>
        (Prepared /\ journal' = None =>
          \A i \in DOMAIN journal.entries :
              LET e == journal.entries[i] IN
              OwnsWrites(e) => Restored(e) \/ e.path \in raced)
  OBVIOUS
<1> QED BY <1>2, <1>3, Invariance, PTL DEF Spec, RollbackComplete

\* A file is overwritten only if it is what the owner last saw there, unless an editor came
\* between that look and the write (file-transaction.ts:393, :539).
THEOREM OverwritesSeen == Spec => OverwritesOnlyWhatItSaw
<1> DEFINE Seen(p) ==
      \/ p \in raced
      \/ LET e == ItemFor(entries, p) IN IF pc = "write" THEN Restored(e) ELSE Applied(e)
<1>1. ASSUME IInv, NEW p \in Paths, pc \in {"write", "restore"}, OwnerStep, files'[p] # files[p]
      PROVE  Seen(p)
  <2> USE <1>1 DEF diskVars
  <2>1. files \in [Paths -> FileState] /\ DistinctTargets(entries)
    BY DEF IInv, Types, Data, OwnJournal, Distinct, Prepared
  <2>2. CASE pc = "write"
    <3>1. files' = [files EXCEPT ![Current.path] = Current.after]
      BY <2>2 DEF OwnerStep, ReadJournals, Classify, RestoreEntry, EndRestore, DropJournal, Prepare,
                  Record, CheckTarget, WriteTarget, ConfirmTarget, VerifyAll, MarkCommitted,
                  RemoveCommitted
    <3>2. p = Current.path
      BY <3>1, <2>1
    <3>3. index \in DOMAIN entries
      BY <2>2 DEF IInv, OwnJournal
    <3>4. ItemFor(entries, p) = Current
      BY <3>2, <3>3, <2>1, OneEntry DEF Current
    <3>5. Restored(Current) \/ Current.path \in raced
      BY <2>2 DEF IInv, Checked
    <3>6. p \in raced \/ Restored(ItemFor(entries, p))
      BY <3>2, <3>4, <3>5 DEF Restored
    <3> QED BY <3>6, <2>2
  <2>3. CASE pc = "restore"
    <3>1. PICK i \in pending : files' = [files EXCEPT ![entries[i].path] = entries[i].before]
      BY <2>3 DEF OwnerStep, ReadJournals, Classify, RestoreEntry, EndRestore, DropJournal, Prepare,
                  Record, CheckTarget, WriteTarget, ConfirmTarget, VerifyAll, MarkCommitted,
                  RemoveCommitted
    <3>2. p = entries[i].path
      BY <3>1, <2>1
    <3>3. i \in DOMAIN entries /\ (Applied(entries[i]) \/ entries[i].path \in raced)
      BY <2>3 DEF IInv, Restoring
    <3>4. ItemFor(entries, p) = entries[i]
      BY <3>2, <3>3, <2>1, OneEntry
    <3> QED BY <3>2, <3>3, <3>4, <2>3
  <2> QED BY <2>2, <2>3
<1>2. IInv => (\A p \in Paths :
          (pc \in {"write", "restore"} /\ OwnerStep /\ files'[p] # files[p]) => Seen(p))
  BY <1>1
<1> QED BY <1>2, Invariance, PTL DEF Spec, OverwritesOnlyWhatItSaw

-----------------------------------------------------------------------------
(* Without editors during an update *)

\* The entries in memory were made of the plan, on files it accepts.
FromPlan ==
    /\ plan \in Plans /\ DOMAIN entries = DOMAIN plan
    /\ \A i \in DOMAIN plan :
          /\ Acceptable(plan[i], entries[i].before)
          /\ entries[i] = EntryFor(plan[i], entries[i].before)

\* Each target is exactly what it was or what it was to become.
Undisturbed ==
    /\ raced = {}
    /\ pc \notin {"idle", "finish"} => plan \in Plans
    /\ pc = "record" => \A i \in DOMAIN entries : files[entries[i].path] = entries[i].before
    /\ pc \in {"record", "check", "write", "confirm", "mark"} => FromPlan
    /\ Prepared => \A i \in DOMAIN journal.entries : OwnsWrites(journal.entries[i]) =>
          files[journal.entries[i].path] \in {journal.entries[i].before, journal.entries[i].after}

\* Nobody writes a file during an update but the owner of the lock.
LEMMA UndisturbedStep ==
    ASSUME ~EditsAnytime, IInv, Undisturbed, [Next]_vars
    PROVE  Undisturbed'
<1> USE DEF Undisturbed, FromPlan, Prepared, diskVars, ownVars, Abort, RollBack, Forget
<1>t. Types /\ OwnJournal /\ Restoring
  BY DEF IInv
<1>1. CASE ReadJournals \/ EndRestore
  BY <1>1 DEF ReadJournals, EndRestore
<1>2. CASE Classify
  BY <1>2 DEF Classify
<1>3. CASE RestoreEntry
  <2>1. PICK i \in pending :
          \/ files' = [files EXCEPT ![entries[i].path] = entries[i].before]
          \/ UNCHANGED files
    BY <1>3 DEF RestoreEntry
  <2>2. /\ Prepared /\ journal.entries = entries /\ i \in DOMAIN entries
        /\ pc' \in {"restore", "finish"} /\ UNCHANGED <<journal, plan, entries, raced>>
    BY <1>3, <1>t DEF RestoreEntry, OwnJournal, Restoring
  <2>3. files \in [Paths -> FileState] /\ \A k \in DOMAIN entries : entries[k].path \in Paths
    BY <1>t, EntryFields DEF Types, Data
  <2>4. DistinctTargets(entries)
    BY <2>2 DEF IInv, Distinct
  <2>5. \A k \in DOMAIN entries :
          files'[entries[k].path] \in {files[entries[k].path], entries[k].before}
    BY <2>1, <2>2, <2>3, <2>4 DEF DistinctTargets
  <2> QED BY <2>2, <2>5, <1>3 DEF RestoreEntry
<1>4. CASE DropJournal \/ RemoveCommitted
  BY <1>4 DEF DropJournal, RemoveCommitted
<1>5. CASE Prepare
  BY <1>5, <1>t, PreparedEntries DEF Prepare, IInv, OwnJournal, EntryFor
<1>6. CASE Record
  BY <1>6, <1>t DEF Record, OwnJournal
<1>7. CASE CheckTarget \/ ConfirmTarget \/ VerifyAll \/ ReadError
  BY <1>7 DEF CheckTarget, ConfirmTarget, VerifyAll, ReadError
<1>8. CASE WriteTarget
  <2>1. /\ Prepared /\ journal.entries = entries /\ index \in DOMAIN entries
        /\ UNCHANGED <<journal, plan, entries, raced>> /\ pc' # "record"
        /\ pc = "write" /\ pc' \in {"confirm", "classify"}
    BY <1>8, <1>t DEF WriteTarget, OwnJournal
  <2>2. files' = [files EXCEPT ![Current.path] = Current.after] \/ UNCHANGED files
    BY <1>8 DEF WriteTarget
  <2>3. files \in [Paths -> FileState] /\ \A k \in DOMAIN entries : entries[k].path \in Paths
    BY <1>t, EntryFields DEF Types, Data
  <2>4. DistinctTargets(entries)
    BY <2>1 DEF IInv, Distinct
  <2>5. \A k \in DOMAIN entries :
          files'[entries[k].path] \in {files[entries[k].path], entries[k].after}
    BY <2>1, <2>2, <2>3, <2>4 DEF DistinctTargets, Current
  <2> QED BY <2>1, <2>5
<1>9. CASE MarkCommitted
  <2>1. journal \in Journals
    BY <1>9, <1>t DEF MarkCommitted, OwnJournal, Types, Data
  <2> QED BY <1>9, <2>1, JournalFields DEF MarkCommitted
<1>10. ASSUME NEW w \in Writers, Begin(w) \/ Finish(w) \/ Crash(w) PROVE Undisturbed'
  BY <1>10 DEF Begin, Finish, Crash
<1>11. ASSUME NEW p \in Paths, Edit(p) PROVE Undisturbed'
  BY <1>11 DEF Edit
<1>12. CASE UNCHANGED vars
  BY <1>12 DEF vars
<1> QED
  BY <1>1, <1>2, <1>3, <1>4, <1>5, <1>6, <1>7, <1>8, <1>9, <1>10, <1>11, <1>12
     DEF Next, OwnerStep

\* So it is of every state.
LEMMA UndisturbedInvariance == ASSUME ~EditsAnytime PROVE Spec => []Undisturbed
<1>1. Init => Undisturbed
  BY DEF Init, Undisturbed, Prepared
<1>2. IInv /\ Undisturbed /\ [Next]_vars => Undisturbed'
  BY UndisturbedStep
<1> QED BY <1>1, <1>2, Invariance, PTL DEF Spec

\* Without editors no crash and no I/O error makes a journal unrecoverable: recovery never finds
\* a third state (file-transaction.ts:551).
THEOREM Recoverable == ASSUME ~EditsAnytime PROVE Spec => []AlwaysRecoverable
<1>1. Undisturbed => AlwaysRecoverable
  BY DEF Undisturbed, AlwaysRecoverable, Divergent, Applied, Restored, SameBody
<1> QED BY <1>1, UndisturbedInvariance, PTL

-----------------------------------------------------------------------------
(* The updates are atomic *)

\* What the instance calls its own operators are the module's.
LEMMA SameOperators ==
    /\ \A m, before : Atomic!Acceptable(m, before) = Acceptable(m, before)
    /\ \A m, before : Atomic!After(m, before) = After(m, before)
    /\ \A list : Atomic!Targets(list) = Targets(list)
    /\ \A list, p : Atomic!ItemFor(list, p) = ItemFor(list, p)
<1>1. ASSUME NEW m, NEW before PROVE Atomic!Acceptable(m, before) = Acceptable(m, before)
  BY DEF Acceptable, Atomic!Acceptable, Matches, Atomic!Matches, SameBody, Atomic!SameBody,
         IsLink, Atomic!IsLink
<1>2. ASSUME NEW m, NEW before PROVE Atomic!After(m, before) = After(m, before)
  BY DEF After, Atomic!After, IsLink, Atomic!IsLink
<1>3. ASSUME NEW list PROVE Atomic!Targets(list) = Targets(list)
  BY DEF Targets, Atomic!Targets
<1>4. ASSUME NEW list, NEW p PROVE Atomic!ItemFor(list, p) = ItemFor(list, p)
  BY DEF ItemFor, Atomic!ItemFor
<1> QED BY <1>1, <1>2, <1>3, <1>4

\* What the store is made of.
LEMMA StoreOf ==
    ASSUME IInv
    PROVE  /\ DOMAIN Store = Paths /\ files \in [Paths -> FileState]
           /\ ~Prepared => Store = files
           /\ Prepared => \A p \in Paths : p \notin Targets(journal.entries) => Store[p] = files[p]
           /\ Prepared => \A i \in DOMAIN journal.entries :
                 LET e == journal.entries[i] IN
                 /\ e \in Entry
                 /\ Store[e.path] = IF OwnsWrites(e) THEN e.before ELSE files[e.path]
<1>1. files \in [Paths -> FileState]
  BY DEF IInv, Types, Data
<1>2. ~Prepared => Store = files
  BY <1>1 DEF Store
<1>3. ASSUME Prepared, NEW i \in DOMAIN journal.entries
      PROVE  LET e == journal.entries[i] IN
             /\ e \in Entry
             /\ Store[e.path] = IF OwnsWrites(e) THEN e.before ELSE files[e.path]
  <2> DEFINE e == journal.entries[i]
  <2>1. journal \in Journals /\ DistinctTargets(journal.entries)
    BY <1>3 DEF IInv, Types, Data, Distinct, Prepared
  <2>2. e \in Entry /\ e.path \in Paths
    <3>1. journal.entries \in Seq(Entry)
      BY <2>1, JournalFields
    <3>2. e \in Entry
      BY <1>3, <3>1
    <3> QED BY <3>2, EntryFields
  <2>3. ItemFor(journal.entries, e.path) = e
    BY <2>1, OneEntry
  <2>4. e.path \in Targets(journal.entries) <=> OwnsWrites(e)
    BY <2>1 DEF Targets, DistinctTargets, OwnsWrites
  <2> QED BY <1>3, <2>2, <2>3, <2>4 DEF Store
<1> QED BY <1>1, <1>2, <1>3 DEF Store

\* A step that keeps the journal and changes no file but its targets is no update.
LEMMA StoreKept ==
    ASSUME IInv, UNCHANGED journal,
           \/ UNCHANGED files
           \/ /\ Prepared
              /\ \E i \in DOMAIN journal.entries, state \in FileState :
                    /\ OwnsWrites(journal.entries[i])
                    /\ files' = [files EXCEPT ![journal.entries[i].path] = state]
    PROVE  Store' = Store
<1>1. CASE UNCHANGED files
  BY <1>1 DEF Store, Prepared
<1>2. CASE /\ Prepared
           /\ \E i \in DOMAIN journal.entries, state \in FileState :
                 /\ OwnsWrites(journal.entries[i])
                 /\ files' = [files EXCEPT ![journal.entries[i].path] = state]
  <2>1. PICK i \in DOMAIN journal.entries, state \in FileState :
          /\ OwnsWrites(journal.entries[i])
          /\ files' = [files EXCEPT ![journal.entries[i].path] = state]
    BY <1>2
  <2>2. journal.entries[i].path \in Targets(journal.entries)
    BY <2>1 DEF Targets, OwnsWrites
  <2>3. \A p \in Paths : p \notin Targets(journal.entries) => files'[p] = files[p]
    BY <2>1, <2>2 DEF IInv, Types, Data
  <2> QED BY <1>2, <2>3 DEF Store, Prepared
<1> QED BY <1>1, <1>2

\* Marking the journal committed is the update.
LEMMA CommitUpdates ==
    ASSUME IInv, Undisturbed, pc = "mark", UNCHANGED files,
           journal' = [journal EXCEPT !.state = "committed"]
    PROVE  Atomic!Update(plan)
<1>1. /\ Prepared /\ journal.entries = entries /\ FromPlan /\ journal \in Journals
      /\ \A i \in DOMAIN entries : InPlace(entries[i])
  BY DEF IInv, OwnJournal, Checked, Undisturbed, Types, Data, Prepared
<1>2. \A i \in DOMAIN entries :
        /\ entries[i] \in Entry
        /\ Store[entries[i].path] =
              IF OwnsWrites(entries[i]) THEN entries[i].before ELSE files[entries[i].path]
  BY <1>1, StoreOf
<1>3. Store' = files
  <2>1. ~Prepared'
    BY <1>1, JournalFields DEF Prepared
  <2> QED BY <2>1, StoreOf DEF Store
<1>4. ASSUME NEW i \in DOMAIN plan
      PROVE  /\ entries[i].path = plan[i].path /\ entries[i].kind = plan[i].kind
             /\ i \in DOMAIN entries
             /\ files[plan[i].path] = After(plan[i], entries[i].before)
             /\ Store[plan[i].path] = entries[i].before
             /\ Acceptable(plan[i], Store[plan[i].path])
  <2>1. /\ i \in DOMAIN entries /\ entries[i] = EntryFor(plan[i], entries[i].before)
        /\ Acceptable(plan[i], entries[i].before)
    BY <1>1 DEF FromPlan
  <2>2. /\ entries[i].path = plan[i].path /\ entries[i].kind = plan[i].kind
        /\ entries[i].after = After(plan[i], entries[i].before)
    BY <2>1 DEF EntryFor
  <2>3. files[entries[i].path] = entries[i].after
    BY <1>1, <1>2, <2>1, MatchIsExact, EntryFields, StoreOf DEF InPlace
  <2>4. ~OwnsWrites(entries[i]) => entries[i].after = entries[i].before
    BY <2>2 DEF OwnsWrites, After
  <2> QED BY <1>2, <2>1, <2>2, <2>3, <2>4
<1>5. Targets(plan) = Targets(entries)
  BY <1>1, <1>4 DEF Targets, FromPlan
<1>6. ASSUME NEW p \in Paths
      PROVE  files[p] = IF p \in Targets(plan) THEN After(ItemFor(plan, p), Store[p]) ELSE Store[p]
  <2>1. CASE p \in Targets(plan)
    <3>1. PICK i \in DOMAIN plan : plan[i].path = p
      BY <2>1 DEF Targets
    <3>2. ItemFor(plan, p) = plan[i]
      BY <3>1, OneEntry DEF IInv, Distinct
    <3> QED BY <2>1, <3>1, <3>2, <1>4
  <2>2. CASE p \notin Targets(plan)
    BY <2>2, <1>1, <1>5, StoreOf
  <2> QED BY <2>1, <2>2
<1>7. files = [p \in Paths |->
                 IF p \in Targets(plan) THEN After(ItemFor(plan, p), Store[p]) ELSE Store[p]]
  BY <1>6, StoreOf
<1> QED BY <1>3, <1>4, <1>7, SameOperators DEF Atomic!Update

\* Writing the journal, a rollback and the removal of a journal are no updates.
LEMMA JournalStores ==
    ASSUME IInv, Undisturbed, [Next]_vars, journal' # journal, pc # "mark"
    PROVE  Store' = Store
<1> USE DEF diskVars, ownVars, Abort
<1>f. files \in [Paths -> FileState]
  BY DEF IInv, Types, Data
<1>1. CASE Record
  <2>1. /\ journal = None /\ FromPlan /\ UNCHANGED files
        /\ journal' = [state |-> "prepared", entries |-> entries]
        /\ DistinctTargets(entries)
        /\ \A i \in DOMAIN entries : files[entries[i].path] = entries[i].before
    BY <1>1 DEF Record, IInv, OwnJournal, Distinct, Undisturbed
  <2>2. Store = files
    BY <2>1, StoreOf DEF Prepared
  <2>3. \A p \in Targets(entries) : ItemFor(entries, p).before = files[p]
    BY <2>1, OneEntry DEF Targets
  <2> QED BY <2>1, <2>2, <2>3, <1>f DEF Store, Prepared
<1>2. CASE DropJournal
  <2>1. journal' = None /\ UNCHANGED files
    BY <1>2 DEF DropJournal
  <2>2. Store' = files
    BY <2>1, <1>f DEF Store, Prepared
  <2>3. CASE Prepared
    <3>1. /\ journal.entries = entries
          /\ \A i \in DOMAIN entries : OwnsWrites(entries[i]) => Restored(entries[i])
      BY <1>2, <2>3 DEF DropJournal, IInv, OwnJournal, Restoring, Undisturbed
    <3>2. \A i \in DOMAIN entries :
            entries[i] \in Entry /\ (OwnsWrites(entries[i]) => files[entries[i].path] = entries[i].before)
      BY <3>1, <2>3, <1>f, StoreOf, EntryFields, MatchIsExact DEF Restored
    <3>3. \A p \in Paths : Store[p] = files[p]
      <4> TAKE p \in Paths
      <4>1. CASE p \in Targets(entries)
        BY <4>1, <3>1, <3>2, <2>3, StoreOf DEF Targets, OwnsWrites
      <4>2. CASE p \notin Targets(entries)
        BY <4>2, <3>1, <2>3, StoreOf
      <4> QED BY <4>1, <4>2
    <3> QED BY <3>3, <2>2, <1>f DEF Store
  <2>4. CASE ~Prepared
    BY <2>2, <2>4, StoreOf
  <2> QED BY <2>3, <2>4
<1>3. CASE RemoveCommitted
  <2>1. journal' = None /\ UNCHANGED files /\ ~Prepared
    BY <1>3 DEF RemoveCommitted, IInv, OwnJournal
  <2> QED BY <2>1, <1>f, StoreOf DEF Store, Prepared
<1>4. CASE ReadJournals \/ Classify \/ RestoreEntry \/ EndRestore \/ Prepare \/ CheckTarget
  BY <1>4 DEF ReadJournals, Classify, RestoreEntry, EndRestore, Prepare, CheckTarget
<1>5. CASE WriteTarget \/ ConfirmTarget \/ VerifyAll \/ MarkCommitted \/ ReadError
  BY <1>5 DEF WriteTarget, ConfirmTarget, VerifyAll, MarkCommitted, ReadError
<1>6. ASSUME NEW w \in Writers, Begin(w) \/ Finish(w) \/ Crash(w) PROVE FALSE
  BY <1>6 DEF Begin, Finish, Crash
<1>7. ASSUME NEW p \in Paths, Edit(p) PROVE FALSE
  BY <1>7 DEF Edit
<1>8. CASE UNCHANGED vars
  BY <1>8 DEF vars
<1> QED BY <1>1, <1>2, <1>3, <1>4, <1>5, <1>6, <1>7, <1>8 DEF Next, OwnerStep

\* Every step is an update, an editor's save between two updates, or no step of the store.
LEMMA AtomicStep ==
    ASSUME ~EditsAnytime, IInv, Undisturbed, [Next]_vars
    PROVE  [Atomic!Next]_Store
<1> USE DEF diskVars, ownVars, Abort, RollBack
<1>1. CASE journal' # journal /\ pc # "mark"
  BY <1>1, JournalStores
<1>2. CASE journal' # journal /\ pc = "mark"
  <2>1. UNCHANGED files /\ journal' = [journal EXCEPT !.state = "committed"]
    <3>1. CASE OwnerStep \/ ReadError
      BY <1>2, <3>1 DEF OwnerStep, ReadJournals, Classify, RestoreEntry, EndRestore, DropJournal,
             Prepare, Record, CheckTarget, WriteTarget, ConfirmTarget, VerifyAll, MarkCommitted,
             RemoveCommitted, ReadError
    <3>2. ASSUME NEW w \in Writers, Begin(w) \/ Finish(w) \/ Crash(w) PROVE FALSE
      BY <1>2, <3>2 DEF Begin, Finish, Crash
    <3>3. ASSUME NEW p \in Paths, Edit(p) PROVE FALSE
      BY <1>2, <3>3 DEF Edit
    <3>4. CASE UNCHANGED vars
      BY <1>2, <3>4 DEF vars
    <3> QED BY <3>1, <3>2, <3>3, <3>4 DEF Next
  <2>2. plan \in Plans
    BY <1>2 DEF Undisturbed
  <2> QED BY <1>2, <2>1, <2>2, CommitUpdates DEF Atomic!Next
<1>3. CASE UNCHANGED journal
  <2>e. \A i \in DOMAIN entries :
          entries[i] \in Entry /\ entries[i].before \in FileState /\ entries[i].after \in FileState
    BY EntryFields DEF IInv, Types, Data
  <2>1. CASE RestoreEntry
    <3>1. PICK i \in pending :
            UNCHANGED files \/ files' = [files EXCEPT ![entries[i].path] = entries[i].before]
      BY <2>1 DEF RestoreEntry
    <3>2. /\ Prepared /\ journal.entries = entries /\ i \in DOMAIN entries
          /\ OwnsWrites(entries[i])
      BY <2>1, <3>1 DEF RestoreEntry, IInv, OwnJournal, Restoring
    <3> QED BY <1>3, <2>e, <3>1, <3>2, StoreKept
  <2>2. CASE WriteTarget
    <3>1. /\ UNCHANGED files \/ files' = [files EXCEPT ![Current.path] = Current.after]
          /\ Prepared /\ journal.entries = entries
          /\ index \in DOMAIN entries /\ OwnsWrites(Current)
      BY <2>2 DEF WriteTarget, IInv, OwnJournal
    <3> QED BY <1>3, <2>e, <3>1, StoreKept DEF Current
  <2>3. ASSUME NEW p \in Paths, Edit(p) PROVE Atomic!Edit(p)
    <3>1. journal = None /\ journal' = None
      BY <2>3 DEF Edit
    <3>2. Store = files /\ Store' = files'
      <4>1. files \in [Paths -> FileState] /\ files' \in [Paths -> FileState]
        BY <2>3, Constants DEF Edit, IInv, Types, Data
      <4> QED BY <3>1, <4>1 DEF Store, Prepared
    <3> QED BY <2>3, <3>2 DEF Edit, Atomic!Edit
  <2>4. CASE \/ ReadJournals \/ Classify \/ EndRestore \/ DropJournal \/ Prepare \/ Record
             \/ CheckTarget \/ ConfirmTarget \/ VerifyAll \/ MarkCommitted \/ RemoveCommitted
             \/ ReadError
    <3>1. UNCHANGED files
      BY <2>4 DEF ReadJournals, Classify, EndRestore, DropJournal, Prepare, Record, CheckTarget,
             ConfirmTarget, VerifyAll, MarkCommitted, RemoveCommitted, ReadError
    <3> QED BY <1>3, <3>1, StoreKept
  <2>5. ASSUME NEW w \in Writers, Begin(w) \/ Finish(w) \/ Crash(w) PROVE Store' = Store
    <3>1. UNCHANGED files
      BY <2>5 DEF Begin, Finish, Crash
    <3> QED BY <1>3, <3>1, StoreKept
  <2>6. CASE UNCHANGED vars
    <3>1. UNCHANGED files
      BY <2>6 DEF vars
    <3> QED BY <1>3, <3>1, StoreKept
  <2> QED BY <2>1, <2>2, <2>3, <2>4, <2>5, <2>6 DEF Next, OwnerStep, Atomic!Next
<1> QED BY <1>1, <1>2, <1>3

\* Crashes, I/O errors and rollbacks included, the project's files change as if each update
\* happened to all of them at once, on files its plan accepts, or not at all (applyFileTransaction).
THEOREM UpdatesAreAtomic == ASSUME ~EditsAnytime PROVE Spec => ImplementsAtomicUpdate
<1>1. Init => Atomic!Init
  BY Constants DEF Init, Atomic!Init, Store, Prepared
<1>2. IInv /\ Undisturbed /\ [Next]_vars => [Atomic!Next]_Store
  BY AtomicStep
<1> QED BY <1>1, <1>2, Invariance, UndisturbedInvariance, PTL
        DEF Spec, ImplementsAtomicUpdate, Atomic!Spec

-----------------------------------------------------------------------------
(* Installations *)

\* What files, hooks and shared files may hold.
AssetTexts == [by : {"visp", "user"}, text : Nat]
HookTexts == [by : {"visp", "user", "edited"}, text : Nat, chained : BOOLEAN]
EntryTexts == [part : {"none", "mine", "broken"}, entry : Nat]
Options == HookOptions \cup EntryOptions
Assets == Installed!Assets
Shared == Installed!Shared

InstalledTypes ==
    /\ build \in 1..MaxBuild /\ edits \in Nat
    /\ generated \in [Assets -> AssetTexts \cup {Absent}]
    /\ hook \in HookTexts \cup {Absent} /\ local \in HookTexts \cup {Absent}
    /\ shared \in [Shared -> EntryTexts \cup {Absent}]
    /\ backups \in [Shared \cup {"git"} -> Seq(EntryTexts \cup HookTexts)]
    /\ DOMAIN manifest = Shared \cup Assets \cup {"git"}

\* What VISP wrote and nobody touched is in the manifest, which people's texts are not.
InManifest ==
    /\ \A p \in Assets :
          /\ generated[p] \in {Absent, Installed!Own, manifest[p]}
          /\ manifest[p] # Absent => manifest[p] \in AssetTexts /\ manifest[p].by = "visp"
    /\ hook # Absent /\ hook.by = "visp" => manifest["git"] = hook

\* Only VISP's hooks chain another, which is the project's.
Chained ==
    /\ local # Absent => local.by = "user" /\ ~local.chained
    /\ hook # Absent /\ hook.by = "user" => ~hook.chained
    /\ mine # Absent =>
          /\ mine \in HookTexts /\ mine.by = "user"
          /\ hook = mine \/ (hook # Absent /\ hook.chained /\ local = mine)

InstalledInv == InstalledTypes /\ InManifest /\ Chained

LEMMA ConstantFacts ==
    /\ \A o \in Options : o.harness \in Harnesses /\ o.profile \in Profiles
    /\ Assets \cap Shared = {} /\ "git" \notin Assets /\ "git" \notin Shared
    /\ KeptBackups \in Nat /\ MaxBuild \in Nat /\ MaxBuild >= 1
    /\ Absent \notin AssetTexts /\ Absent \notin HookTexts /\ Absent \notin EntryTexts
    /\ Installed!Own \in AssetTexts /\ Installed!Own.by = "user"
BY InstallationConstants DEF Options, Assets, Shared, AssetTexts, HookTexts, EntryTexts, Installed!Own

\* What install writes or removes are generated files and shared files.
LEMMA InstallTargets ==
    ASSUME NEW o \in Options
    PROVE  /\ Installed!Wanted(o) \subseteq Assets /\ Installed!Pruned(o) \subseteq Assets
           /\ Installed!Wanted(o) \cap Installed!Pruned(o) = {}
           /\ Installed!Registers(o) \subseteq Shared /\ Installed!Unregisters(o) \subseteq Shared
           /\ Installed!Written(o) \subseteq Shared /\ Installed!Created(o) \subseteq Shared
           /\ Installed!Discarded(o) \subseteq Shared
<1>1. o.harness \in Harnesses /\ o.profile \in Profiles
  BY ConstantFacts
<1>2. Installed!Wanted(o) \subseteq Assets
  <2>1. AssetsOf(o.harness, o.profile) \in {AssetsOf(h, p) : h \in Harnesses, p \in Profiles}
    BY <1>1
  <2> QED BY <2>1 DEF Installed!Wanted, Installed!Assets, Assets
<1>3. Installed!OtherProfile(o) \subseteq Assets
  BY <1>1 DEF Installed!OtherProfile, Installed!Assets, Assets
<1>4. Installed!Residue(o) \subseteq Assets
  BY DEF Installed!Residue, Assets
<1>5. Installed!Registers(o) \subseteq Shared
  BY <1>1 DEF Installed!Registers, Installed!Shared, Shared
<1>6. Installed!Unregisters(o) \subseteq Shared
  BY DEF Installed!Unregisters, Shared
<1>7. /\ Installed!Written(o) \subseteq Shared /\ Installed!Created(o) \subseteq Shared
      /\ Installed!Discarded(o) \subseteq Shared
  BY <1>5 DEF Installed!Written, Installed!Created, Installed!Discarded
<1>8. Installed!Wanted(o) \cap Installed!Pruned(o) = {}
  BY DEF Installed!Pruned, Installed!OtherProfile, Installed!Residue
<1> QED BY <1>2, <1>3, <1>4, <1>5, <1>6, <1>7, <1>8 DEF Installed!Pruned

\* And so are what uninstall removes and rewrites.
LEMMA UninstallTargets ==
    ASSUME NEW h \in Harnesses, NEW force \in BOOLEAN
    PROVE  Installed!RemovedAssets(h, force) \subseteq Assets /\ Installed!Rewritten(h, force) \subseteq Shared
<1>1. Installed!GeneratedFor(h) \subseteq Assets /\ SharedOf(h) \subseteq Shared
  BY DEF Installed!GeneratedFor, Installed!Assets, Assets, Shared, Installed!Shared
<1> QED BY <1>1 DEF Installed!RemovedAssets, Installed!Rewritten, Shared

\* A copy that is worth one is kept, with the latest ones before it.
LEMMA SavedCopies ==
    ASSUME NEW Texts, NEW copies \in Seq(Texts), NEW text, text # Absent => text \in Texts
    PROVE  /\ Installed!Saved(copies, text) \in Seq(Texts)
           /\ text # Absent /\ text # [part |-> "none", entry |-> 0] =>
                text \in Installed!Range(Installed!Saved(copies, text))
<1> DEFINE L == Len(copies)
           m == Installed!Min({KeptBackups, L + 1})
           rest == SubSeq(copies, L + 2 - m, L)
<1>1. L \in Nat /\ m \in 0..(L + 1)
  <2>1. L \in Nat /\ KeptBackups \in Nat
    BY LenProperties, ConstantFacts
  <2>2. \E n \in {KeptBackups, L + 1} : \A k \in {KeptBackups, L + 1} : n <= k
    BY <2>1
  <2>3. m \in {KeptBackups, L + 1} /\ \A k \in {KeptBackups, L + 1} : m <= k
    BY <2>2 DEF Installed!Min
  <2> HIDE DEF m, L
  <2> QED BY <2>1, <2>3
<1>2. rest \in Seq(Texts)
  <2> HIDE DEF m
  <2> QED BY <1>1, SubSeqProperties
<1>3. CASE text = Absent \/ text \in Installed!Range(copies) \/ text = [part |-> "none", entry |-> 0]
  <2>1. Installed!Saved(copies, text) = copies
    BY <1>3 DEF Installed!Saved
  <2> QED BY <1>3, <2>1
<1>4. CASE ~(text = Absent \/ text \in Installed!Range(copies) \/ text = [part |-> "none", entry |-> 0])
  <2>1. Installed!Saved(copies, text) = Append(rest, text)
    BY <1>4 DEF Installed!Saved
  <2> HIDE DEF rest
  <2>2. Append(rest, text) \in Seq(Texts) /\ Len(Append(rest, text)) = Len(rest) + 1
        /\ Append(rest, text)[Len(rest) + 1] = text
    BY <1>2, <1>4, AppendProperties
  <2>3. Len(rest) + 1 \in DOMAIN Append(rest, text)
    BY <1>2, <2>2, LenProperties
  <2>4. text \in Installed!Range(Append(rest, text))
    BY <2>2, <2>3 DEF Installed!Range
  <2> QED BY <2>1, <2>2, <2>4
<1> QED BY <1>3, <1>4

\* Before anything is installed.
LEMMA InstalledInit == ASSUME Installed!Init PROVE InstalledInv
<1>1. /\ generated = [p \in Assets |-> Absent] /\ local = Absent /\ mine = hook
      /\ hook \in {Absent, Installed!Foreign(0)} /\ edits = 0 /\ build = 1
      /\ backups = [f \in Shared \cup {"git"} |-> <<>>]
      /\ manifest = [k \in Shared \cup ({"git"} \cup Assets) |-> Absent]
  BY DEF Installed!Init, Assets, Shared, Installed!Hooks
<1>2. shared \in [Shared -> EntryTexts \cup {Absent}]
  <2>1. PICK parts \in {"none", "mine"} :
          shared = [f \in Shared |-> IF parts = "none" THEN Absent ELSE [part |-> parts, entry |-> 0]]
    BY DEF Installed!Init, Shared
  <2> QED BY <2>1 DEF EntryTexts
<1>3. Installed!Foreign(0) \in HookTexts /\ Installed!Foreign(0).by = "user" /\ ~Installed!Foreign(0).chained
  BY DEF Installed!Foreign, HookTexts
<1>4. InstalledTypes
  BY <1>1, <1>2, <1>3, ConstantFacts, EmptySeq DEF InstalledTypes
<1>5. InManifest
  BY <1>1, <1>3, ConstantFacts DEF InManifest
<1>6. Chained
  BY <1>1, <1>3 DEF Chained
<1> QED BY <1>4, <1>5, <1>6 DEF InstalledInv

\* A text without VISP's entry is a text or none.
LEMMA WithoutType ==
    ASSUME InstalledInv, NEW f \in Shared, Installed!EntryOf(f) # 0, NEW gone
    PROVE  Installed!Without(f, gone) \in EntryTexts \cup {Absent}
  BY DEF InstalledInv, InstalledTypes, EntryTexts, Installed!EntryOf, Installed!Without

\* What VISP recognizes is an entry, and not one that people edited.
LEMMA RecognizedEntry ==
    ASSUME InstalledInv, NEW f \in Shared, Installed!Recognized(f)
    PROVE  Installed!EntryOf(f) # 0 /\ Installed!EntryOf(f) # Installed!Edited
  BY ConstantFacts
     DEF InstalledInv, InstalledTypes, Installed!Recognized, Installed!McpRecognized,
         Installed!BlockRecognized, Installed!HookRecognized, Installed!Edited

\* Install keeps the invariant.
LEMMA InstallKeeps == ASSUME InstalledInv, NEW o \in Options, Installed!Install(o) PROVE InstalledInv'
<1> DEFINE git == "git" \in o.hooks
           next == Installed!NextHook
<1>0. InstalledTypes /\ InManifest /\ Chained
  BY DEF InstalledInv
<1>1. /\ ~Installed!Blocked(o)
      /\ generated' = [p \in Assets |-> IF p \in Installed!Wanted(o) THEN Installed!Generated(build)
                                        ELSE IF p \in Installed!Pruned(o) THEN Absent ELSE generated[p]]
      /\ local' = (IF git /\ Installed!HasForeignHook THEN hook ELSE local)
      /\ hook' = (IF git THEN next ELSE hook)
      /\ shared' = [f \in Shared |-> Installed!NextShared(o, f)]
      /\ manifest' = [k \in DOMAIN manifest |-> Installed!NextManifest(o, k)]
      /\ build' = build /\ edits' = edits /\ mine' = mine
  BY DEF Installed!Install, Assets, Shared
<1>2. /\ Installed!Wanted(o) \subseteq Assets /\ Installed!Pruned(o) \subseteq Assets
      /\ Installed!Wanted(o) \cap Installed!Pruned(o) = {}
      /\ Installed!Registers(o) \subseteq Shared /\ Installed!Unregisters(o) \subseteq Shared
      /\ Installed!Written(o) \subseteq Shared /\ Installed!Created(o) \subseteq Shared
  BY InstallTargets
<1>3. build \in Nat /\ Installed!Generated(build) \in AssetTexts /\ Installed!Generated(build).by = "visp"
  BY <1>0, ConstantFacts DEF InstalledTypes, Installed!Generated, AssetTexts
<1>4. /\ next \in HookTexts /\ next.by = "visp"
      /\ next.chained <=> (Installed!HasForeignHook \/ local # Absent)
  BY <1>3 DEF Installed!NextHook, Installed!VispHook, HookTexts, Installed!HasForeignHook
<1>5. \A f \in Shared : Installed!NextShared(o, f) \in EntryTexts \cup {Absent}
  <2> SUFFICES ASSUME NEW f \in Shared PROVE Installed!NextShared(o, f) \in EntryTexts \cup {Absent}
    OBVIOUS
  <2>1. Installed!Part(f) \in {"none", "mine", "broken"} /\ shared[f] \in EntryTexts \cup {Absent}
    BY <1>0 DEF Installed!Part, InstalledTypes, EntryTexts
  <2>2. f \in Installed!Unregisters(o) => Installed!EntryOf(f) # 0
    BY RecognizedEntry DEF Installed!Unregisters
  <2>3. f \in Installed!Unregisters(o) =>
          Installed!Without(f, KindOf(f) = "activation") \in EntryTexts \cup {Absent}
    BY <2>2, WithoutType
  <2> QED BY <1>3, <2>1, <2>3 DEF Installed!NextShared, EntryTexts
<1>6. \A f \in Shared \cup {"git"} : backups'[f] \in Seq(EntryTexts \cup HookTexts)
  <2> SUFFICES ASSUME NEW f \in Shared \cup {"git"} PROVE backups'[f] \in Seq(EntryTexts \cup HookTexts)
    OBVIOUS
  <2>1. /\ backups[f] \in Seq(EntryTexts \cup HookTexts) /\ DOMAIN backups = Shared \cup {"git"}
        /\ f \in Shared => shared[f] \in EntryTexts \cup {Absent}
    BY <1>0 DEF InstalledTypes
  <2>2. f \in Shared => Installed!Saved(backups[f], shared[f]) \in Seq(EntryTexts \cup HookTexts)
    <3> DEFINE Texts == EntryTexts \cup HookTexts
    <3>1. f \in Shared => (shared[f] # Absent => shared[f] \in Texts)
      BY <2>1
    <3> HIDE DEF Texts
    <3>2. backups[f] \in Seq(Texts)
      BY <2>1 DEF Texts
    <3>3. f \in Shared => Installed!Saved(backups[f], shared[f]) \in Seq(Texts)
      BY <3>1, <3>2, SavedCopies
    <3> QED BY <3>3 DEF Texts
  <2>3. \/ backups'[f] = backups[f]
        \/ f \in Shared /\ backups'[f] = Installed!Saved(backups[f], shared[f])
    BY <2>1, <1>2 DEF Installed!Install
  <2> QED BY <2>1, <2>2, <2>3
<1>7. backups' \in [Shared \cup {"git"} -> Seq(EntryTexts \cup HookTexts)]
  <2>1. DOMAIN backups = Shared \cup {"git"}
    BY <1>0 DEF InstalledTypes
  <2>2. backups' = [f \in Shared \cup {"git"} |-> backups'[f]]
    BY <2>1 DEF Installed!Install
  <2> QED BY <1>6, <2>2
<1>8. InstalledTypes'
  BY <1>0, <1>1, <1>3, <1>4, <1>5, <1>7 DEF InstalledTypes
<1>9. InManifest'
  <2>1. ASSUME NEW p \in Assets
        PROVE  /\ generated'[p] \in {Absent, Installed!Own, manifest'[p]}
               /\ manifest'[p] # Absent => manifest'[p] \in AssetTexts /\ manifest'[p].by = "visp"
    <3>1. p \in DOMAIN manifest /\ p \notin Shared /\ p # "git"
      BY <1>0, ConstantFacts DEF InstalledTypes
    <3>2. manifest'[p] = IF p \in Installed!Wanted(o) THEN Installed!Generated(build)
                         ELSE IF p \in Installed!Pruned(o) THEN Absent ELSE manifest[p]
      <4>1. p \notin Installed!Created(o)
        BY <1>2, <3>1
      <4>2. manifest'[p] = Installed!NextManifest(o, p)
        BY <1>1, <3>1
      <4> QED BY <1>2, <3>1, <4>1, <4>2 DEF Installed!NextManifest
    <3> QED BY <1>0, <1>1, <1>3, <3>2 DEF InManifest
  <2>2. manifest'["git"] = IF git THEN next ELSE manifest["git"]
    <3>1. /\ "git" \in DOMAIN manifest /\ "git" \notin Installed!Wanted(o)
          /\ "git" \notin Installed!Pruned(o) /\ "git" \notin Installed!Created(o)
      BY <1>0, <1>2, ConstantFacts DEF InstalledTypes
    <3> QED BY <1>1, <3>1 DEF Installed!NextManifest
  <2>3. hook' # Absent /\ hook'.by = "visp" => manifest'["git"] = hook'
    BY <1>0, <1>1, <2>2 DEF InManifest
  <2>4. \A p \in Assets :
          /\ generated'[p] \in {Absent, Installed!Own', manifest'[p]}
          /\ manifest'[p] # Absent => manifest'[p] \in AssetTexts /\ manifest'[p].by = "visp"
    BY <2>1 DEF Installed!Own
  <2> QED BY <2>3, <2>4 DEF InManifest
<1>10. Chained'
  <2>1. CASE ~git
    BY <1>0, <1>1, <2>1 DEF Chained
  <2>2. CASE git /\ Installed!HasForeignHook
    <3>1. local = Absent /\ hook # Absent /\ hook.by = "user" /\ ~hook.chained
      BY <1>0, <1>1, <2>2 DEF Installed!Blocked, Installed!HookBlocked, Installed!HasForeignHook, Chained
    <3>2. local' = hook /\ hook' = next /\ next # Absent /\ next.chained /\ next.by = "visp"
      BY <1>1, <1>4, <2>2, ConstantFacts
    <3>3. mine # Absent => mine \in HookTexts /\ mine.by = "user" /\ hook = mine
      BY <1>0, <3>1 DEF Chained
    <3> QED BY <1>1, <3>1, <3>2, <3>3 DEF Chained
  <2>3. CASE git /\ ~Installed!HasForeignHook
    <3>1. local' = local /\ hook' = next /\ next # Absent /\ next.by = "visp"
      BY <1>1, <1>4, <2>3, ConstantFacts
    <3>2. mine # Absent => mine \in HookTexts /\ mine.by = "user" /\ local = mine
      BY <1>0, <2>3 DEF Chained, Installed!HasForeignHook
    <3> QED BY <1>0, <1>1, <1>4, <3>1, <3>2 DEF Chained
  <2> QED BY <2>1, <2>2, <2>3
<1> QED BY <1>8, <1>9, <1>10 DEF InstalledInv

\* So does uninstall.
LEMMA UninstallKeeps ==
    ASSUME InstalledInv, NEW h \in Harnesses, NEW force \in BOOLEAN, Installed!Uninstall(h, force)
    PROVE  InstalledInv'
<1> DEFINE removed == Installed!RemovedAssets(h, force)
           rewritten == Installed!Rewritten(h, force)
           saved == {f \in rewritten : KindOf(f) # "activation"}
<1>0. InstalledTypes /\ InManifest /\ Chained
  BY DEF InstalledInv
<1>1. /\ generated' = [p \in Assets |-> IF p \in removed THEN Absent ELSE generated[p]]
      /\ shared' = [f \in Shared |-> IF f \in rewritten THEN Installed!Without(f, Installed!Goes(f))
                                     ELSE shared[f]]
      /\ manifest' = [k \in DOMAIN manifest |->
            IF k \in removed \cup saved \/ (k = "git" /\ hook' # hook) THEN Absent ELSE manifest[k]]
      /\ build' = build /\ edits' = edits /\ mine' = mine
  BY DEF Installed!Uninstall, Assets, Shared
<1>2. removed \subseteq Assets /\ rewritten \subseteq Shared /\ saved \subseteq Shared
  BY UninstallTargets
<1>3. \/ hook' = hook /\ local' = local
      \/ /\ hook # Absent /\ hook.by # "user"
         /\ \/ hook.chained /\ local # Absent /\ hook' = local /\ local' = Absent
            \/ ~(hook.chained /\ local # Absent) /\ hook' = Absent /\ local' = local
  BY DEF Installed!Uninstall, Installed!UninstallHook, Installed!HasMarker, Installed!Restores
<1>4. \A f \in Shared : shared'[f] \in EntryTexts \cup {Absent}
  <2>1. \A f \in rewritten : Installed!EntryOf(f) # 0
    BY DEF Installed!Rewritten
  <2>2. \A f \in rewritten : Installed!Without(f, Installed!Goes(f)) \in EntryTexts \cup {Absent}
    BY <1>2, <2>1, WithoutType
  <2> QED BY <1>0, <1>1, <2>2 DEF InstalledTypes
<1>5. backups' \in [Shared \cup {"git"} -> Seq(EntryTexts \cup HookTexts)]
  <2> DEFINE Texts == EntryTexts \cup HookTexts
  <2>1. DOMAIN backups = Shared \cup {"git"} /\ \A f \in Shared \cup {"git"} : backups[f] \in Seq(Texts)
    BY <1>0 DEF InstalledTypes
  <2>2. /\ hook # Absent => hook \in Texts
        /\ \A f \in Shared : shared[f] # Absent => shared[f] \in Texts
    BY <1>0 DEF InstalledTypes
  <2> HIDE DEF Texts
  <2>3. Installed!Saved(backups["git"], hook) \in Seq(Texts)
    BY <2>1, <2>2, SavedCopies
  <2>4. \A f \in Shared : Installed!Saved(backups[f], shared[f]) \in Seq(Texts)
    BY <2>1, <2>2, SavedCopies
  <2>5. backups' = [f \in Shared \cup {"git"} |->
            CASE f \in saved -> Installed!Saved(backups[f], shared[f])
              [] f = "git" /\ force /\ Installed!HasMarker /\ ~Installed!OwnedHook ->
                   Installed!Saved(backups[f], hook)
              [] OTHER -> backups[f]]
    BY <2>1 DEF Installed!Uninstall
  <2>6. "git" \notin saved
    BY <1>2, ConstantFacts
  <2> HIDE DEF saved
  <2>7. \A f \in Shared \cup {"git"} : backups'[f] \in Seq(Texts)
    BY <1>2, <2>1, <2>3, <2>4, <2>5, <2>6
  <2>8. backups' \in [Shared \cup {"git"} -> Seq(Texts)]
    BY <2>5, <2>7
  <2> QED BY <2>8 DEF Texts
<1>6. InstalledTypes'
  <2>1. hook' \in HookTexts \cup {Absent} /\ local' \in HookTexts \cup {Absent}
    BY <1>0, <1>3 DEF InstalledTypes
  <2>2. /\ generated' \in [Assets -> AssetTexts \cup {Absent}]
        /\ DOMAIN manifest' = Shared \cup Assets \cup {"git"}
    BY <1>0, <1>1 DEF InstalledTypes
  <2>3. shared' \in [Shared -> EntryTexts \cup {Absent}]
    BY <1>1, <1>4
  <2> QED BY <1>0, <1>1, <1>5, <2>1, <2>2, <2>3 DEF InstalledTypes
<1>7. InManifest'
  <2>1. ASSUME NEW p \in Assets
        PROVE  /\ generated'[p] \in {Absent, Installed!Own, manifest'[p]}
               /\ manifest'[p] # Absent => manifest'[p] \in AssetTexts /\ manifest'[p].by = "visp"
    <3>1. p \in DOMAIN manifest /\ p # "git" /\ p \notin saved
      BY <1>0, <1>2, ConstantFacts DEF InstalledTypes
    <3> HIDE DEF saved
    <3>2. manifest'[p] = IF p \in removed THEN Absent ELSE manifest[p]
      BY <1>1, <3>1
    <3> QED BY <1>0, <1>1, <3>2 DEF InManifest
  <2>2. hook' = hook => manifest'["git"] = manifest["git"]
    <3>1. "git" \in DOMAIN manifest /\ "git" \notin removed \cup saved
      BY <1>0, <1>2, ConstantFacts DEF InstalledTypes
    <3> HIDE DEF saved, removed
    <3> QED BY <1>1, <3>1
  <2>3. hook' # Absent /\ hook'.by = "visp" => manifest'["git"] = hook'
    BY <1>0, <1>3, <2>2 DEF InManifest, Chained
  <2>4. \A p \in Assets :
          /\ generated'[p] \in {Absent, Installed!Own', manifest'[p]}
          /\ manifest'[p] # Absent => manifest'[p] \in AssetTexts /\ manifest'[p].by = "visp"
    BY <2>1 DEF Installed!Own
  <2> QED BY <2>3, <2>4 DEF InManifest
<1>8. Chained'
  BY <1>0, <1>1, <1>3 DEF Chained
<1> QED BY <1>6, <1>7, <1>8 DEF InstalledInv

\* And so does what people do.
LEMMA PeopleKeep ==
    ASSUME InstalledInv,
           \/ Installed!EditAsset \/ Installed!EditHook \/ Installed!EditShared
           \/ Installed!Upgrade \/ Installed!Authorize
    PROVE  InstalledInv'
<1>0. InstalledTypes /\ InManifest /\ Chained
  BY DEF InstalledInv
<1>1. CASE Installed!EditAsset
  <2>1. PICK p \in Assets, text \in {Absent, Installed!Own} : generated' = [generated EXCEPT ![p] = text]
    BY <1>1 DEF Installed!EditAsset, Assets
  <2>2. /\ edits' = edits + 1
        /\ UNCHANGED <<hook, local, shared, backups, manifest, build, mine>>
    BY <1>1 DEF Installed!EditAsset, Installed!Edit
  <2>3. InstalledTypes'
    BY <1>0, <2>1, <2>2, ConstantFacts DEF InstalledTypes
  <2>4. \A q \in Assets : generated'[q] \in {Absent, Installed!Own, manifest'[q]}
    BY <1>0, <2>1, <2>2 DEF InstalledTypes, InManifest
  <2>5. InManifest'
    BY <1>0, <2>2, <2>4 DEF InManifest, Installed!Own
  <2> QED BY <1>0, <2>2, <2>3, <2>5 DEF Chained, InstalledInv
<1>2. CASE Installed!EditHook
  <2>1. /\ edits' = edits + 1
        /\ UNCHANGED <<generated, local, shared, backups, manifest, build>>
    BY <1>2 DEF Installed!EditHook, Installed!Edit
  <2>2. \/ hook' = Installed!Foreign(edits') /\ mine' = hook'
        \/ /\ hook # Absent /\ mine' = Absent
           /\ hook' \in {[hook EXCEPT !.by = "edited"], [hook EXCEPT !.by = "edited", !.chained = FALSE], Absent}
    BY <1>2 DEF Installed!EditHook, Installed!HasMarker
  <2>3. /\ Installed!Foreign(edits') \in HookTexts /\ Installed!Foreign(edits').by = "user"
        /\ ~Installed!Foreign(edits').chained
    BY <1>0, <2>1 DEF Installed!Foreign, HookTexts, InstalledTypes
  <2>4. hook # Absent =>
          \A text \in {[hook EXCEPT !.by = "edited"], [hook EXCEPT !.by = "edited", !.chained = FALSE]} :
              text \in HookTexts /\ text.by = "edited"
    BY <1>0 DEF InstalledTypes, HookTexts
  <2>5. hook' \in HookTexts \cup {Absent}
    BY <2>2, <2>3, <2>4
  <2>6. InstalledTypes'
    BY <1>0, <2>1, <2>5 DEF InstalledTypes
  <2>7. hook' # Absent => hook'.by \in {"user", "edited"} /\ (hook'.by = "user" => ~hook'.chained)
    BY <2>2, <2>3, <2>4
  <2>8. InManifest'
    BY <1>0, <2>1, <2>7 DEF InManifest, Installed!Own
  <2>9. Chained'
    BY <1>0, <2>1, <2>2, <2>3, <2>7 DEF Chained
  <2> QED BY <2>6, <2>8, <2>9 DEF InstalledInv
<1>3. CASE Installed!EditShared
  <2>1. /\ edits' = edits + 1
        /\ UNCHANGED <<generated, hook, local, backups, manifest, build, mine>>
    BY <1>3 DEF Installed!EditShared, Installed!Edit
  <2>2. PICK f \in Shared : \E text \in EntryTexts \cup {Absent} : shared' = [shared EXCEPT ![f] = text]
    <3>1. PICK f \in Shared :
          \/ \E rest \in {"none", "mine"} :
                shared' = [shared EXCEPT ![f] = [part |-> rest, entry |-> Installed!EntryOf(f)]]
          \/ shared' = [shared EXCEPT ![f] = [part |-> "broken", entry |-> 0]]
          \/ Installed!EntryOf(f) # 0 /\ shared' = [shared EXCEPT ![f].entry = Installed!Edited]
          \/ shared' = [shared EXCEPT ![f] = Absent]
      BY <1>3 DEF Installed!EditShared, Shared
    <3>2. Installed!EntryOf(f) \in Nat /\ Installed!Edited \in Nat
      BY <1>0, ConstantFacts DEF InstalledTypes, Installed!EntryOf, Installed!Edited, EntryTexts
    <3>3. Installed!EntryOf(f) # 0 =>
            /\ [shared[f] EXCEPT !.entry = Installed!Edited] \in EntryTexts
            /\ [shared EXCEPT ![f].entry = Installed!Edited]
                = [shared EXCEPT ![f] = [shared[f] EXCEPT !.entry = Installed!Edited]]
      BY <1>0, <3>2 DEF InstalledTypes, Installed!EntryOf, EntryTexts
    <3>4. /\ \A rest \in {"none", "mine"} : [part |-> rest, entry |-> Installed!EntryOf(f)] \in EntryTexts
          /\ [part |-> "broken", entry |-> 0] \in EntryTexts
      BY <3>2 DEF EntryTexts
    <3> QED BY <3>1, <3>3, <3>4
  <2>3. shared' \in [Shared -> EntryTexts \cup {Absent}]
    BY <1>0, <2>2 DEF InstalledTypes
  <2>4. InstalledTypes'
    BY <1>0, <2>1, <2>3 DEF InstalledTypes
  <2> QED BY <1>0, <2>1, <2>4 DEF InManifest, Chained, InstalledInv, Installed!Own
<1>4. CASE Installed!Upgrade
  <2>1. /\ build < MaxBuild /\ build' = build + 1 /\ edits' = edits
        /\ UNCHANGED <<generated, hook, local, shared, backups, manifest, mine>>
    BY <1>4 DEF Installed!Upgrade, Installed!disk
  <2>2. InstalledTypes'
    BY <1>0, <2>1, ConstantFacts DEF InstalledTypes
  <2> QED BY <1>0, <2>1, <2>2 DEF InManifest, Chained, InstalledInv, Installed!Own
<1>5. CASE Installed!Authorize
  <2>1. /\ edits' = edits + 1
        /\ UNCHANGED <<generated, hook, local, shared, backups, manifest, build, mine>>
    BY <1>5 DEF Installed!Authorize, Installed!Edit, Installed!disk
  <2>2. InstalledTypes'
    BY <1>0, <2>1 DEF InstalledTypes
  <2> QED BY <1>0, <2>1, <2>2 DEF InManifest, Chained, InstalledInv, Installed!Own
<1> QED BY <1>1, <1>2, <1>3, <1>4, <1>5

-----------------------------------------------------------------------------
(* What people wrote *)

\* What any step is to the installation.
LEMMA WorktreeSteps ==
    ASSUME TransactionNext \/ FilesNext \/ EntriesNext \/ GraphNext \/
           UNCHANGED <<part, vars, installVars, graphVars>>
    PROVE  /\ [Next]_vars
           /\ \/ \E o \in Options : Installed!Install(o)
              \/ \E h \in Harnesses, force \in BOOLEAN : Installed!Uninstall(h, force)
              \/ Installed!EditAsset \/ Installed!EditHook \/ Installed!EditShared
              \/ Installed!Upgrade \/ Installed!Authorize \/ UNCHANGED installVars
  BY DEF TransactionNext, FilesNext, EntriesNext, GraphNext, Uninstalls, Options

\* The invariant holds in every state.
LEMMA InstalledInvariance == WorktreeSpec => []InstalledInv
<1> DEFINE Step == TransactionNext \/ FilesNext \/ EntriesNext \/ GraphNext
<1>1. WorktreeInit => InstalledInv
  BY InstalledInit DEF WorktreeInit
<1>2. ASSUME InstalledInv, [Step]_<<part, vars, installVars, graphVars>> PROVE InstalledInv'
  <2>1. CASE \/ Installed!EditAsset \/ Installed!EditHook \/ Installed!EditShared
             \/ Installed!Upgrade \/ Installed!Authorize
    BY <1>2, <2>1, PeopleKeep
  <2>2. CASE UNCHANGED installVars
    BY <1>2, <2>2 DEF installVars, InstalledInv, InstalledTypes, InManifest, Chained, Installed!Own
  <2>3. CASE \E o \in Options : Installed!Install(o)
    BY <1>2, <2>3, InstallKeeps
  <2>4. CASE \E h \in Harnesses, force \in BOOLEAN : Installed!Uninstall(h, force)
    BY <1>2, <2>4, UninstallKeeps
  <2> QED BY <1>2, <2>1, <2>2, <2>3, <2>4, WorktreeSteps
<1>3. InstalledInv /\ [Step]_<<part, vars, installVars, graphVars>> => InstalledInv'
  BY <1>2
<1> QED BY <1>1, <1>3, PTL DEF WorktreeSpec

\* The project's hook runs after every install, upgrade and uninstall, and what VISP wrote and
\* nobody touched is known to be VISP's (install-plan.ts:520, uninstall.ts:150).
THEOREM HookAndOwnFiles == WorktreeSpec => []InstallationOwnsItsOwn
<1>1. ASSUME InstalledInv PROVE InstallationOwnsItsOwn
  <2>1. Installed!ProjectHookRuns
    BY <1>1 DEF InstalledInv, Chained, Installed!ProjectHookRuns
  <2>2. ASSUME NEW p \in Assets, generated[p] # Absent, generated[p].by = "visp"
        PROVE  generated[p] = manifest[p]
    <3>1. generated[p] # Installed!Own
      BY <2>2, ConstantFacts
    <3> QED BY <1>1, <2>2, <3>1 DEF InstalledInv, InManifest
  <2>3. hook # Absent /\ hook.by = "visp" => Installed!OwnedHook
    BY <1>1 DEF InstalledInv, InManifest, Installed!OwnedHook
  <2>4. Installed!UntouchedIsOwned
    BY <2>2, <2>3 DEF Installed!UntouchedIsOwned, Assets
  <2> QED BY <2>1, <2>4 DEF InstallationOwnsItsOwn
<1>2. InstalledInv => InstallationOwnsItsOwn
  BY <1>1
<1> QED BY <1>2, InstalledInvariance, PTL

\* Generated files of the user's are left alone without --force.
LEMMA KeepsOwnFiles ==
    ASSUME InstalledInv, NEW p \in Assets, generated[p] = Installed!Own,
           \/ \E o \in Options : Installed!Install(o) /\ ~o.force
           \/ \E h \in Harnesses, force \in BOOLEAN : Installed!Uninstall(h, force) /\ ~force
    PROVE  generated'[p] = Installed!Own
<1>1. generated[p] # Absent /\ generated[p] # manifest[p] /\ generated[p] # Installed!Generated(build)
  BY ConstantFacts DEF InstalledInv, InManifest, Installed!Own, Installed!Generated
<1>2. CASE \E o \in Options : Installed!Install(o) /\ ~o.force
  <2>1. PICK o \in Options : Installed!Install(o) /\ ~o.force
    BY <1>2
  <2>2. p \notin Installed!Wanted(o)
    BY <1>1, <2>1 DEF Installed!Install, Installed!Blocked, Installed!AssetBlocked
  <2>3. p \notin Installed!Pruned(o)
    BY <1>1 DEF Installed!Pruned, Installed!OtherProfile, Installed!Residue, Installed!Removable
  <2> QED BY <2>1, <2>2, <2>3 DEF Installed!Install, Assets
<1>3. CASE \E h \in Harnesses, force \in BOOLEAN : Installed!Uninstall(h, force) /\ ~force
  <2>1. PICK h \in Harnesses, force \in BOOLEAN : Installed!Uninstall(h, force) /\ ~force
    BY <1>3
  <2>2. p \notin Installed!RemovedAssets(h, force)
    BY <1>1, <2>1 DEF Installed!RemovedAssets
  <2> QED BY <2>1, <2>2 DEF Installed!Uninstall, Assets
<1> QED BY <1>2, <1>3

\* Install leaves the project's part of a shared file in it, or saves the file beside it, and an
\* edited entry in the file or in a backup.
LEMMA InstallKeepsText ==
    ASSUME InstalledInv, NEW o \in Options, Installed!Install(o), NEW f \in Shared, shared[f] # Absent
    PROVE  /\ shared[f].part # "none" =>
                 \/ shared'[f] # Absent /\ shared'[f].part = shared[f].part
                 \/ shared[f] \in beside'
           /\ Installed!EntryOf(f) = Installed!Edited /\ ~o.force =>
                 shared'[f] = shared[f] \/ shared[f] \in Installed!Range(backups'[f])
<1> DEFINE text == shared[f]
<1>1. /\ text \in EntryTexts /\ Installed!Part(f) = text.part /\ Installed!EntryOf(f) = text.entry
      /\ backups[f] \in Seq(EntryTexts \cup HookTexts) /\ f \in DOMAIN backups /\ build \in Nat
      /\ build # Installed!Edited /\ Installed!Edited # 0
  BY ConstantFacts
     DEF InstalledInv, InstalledTypes, Installed!Part, Installed!EntryOf, Installed!Edited
<1>2. shared'[f] = Installed!NextShared(o, f)
  BY DEF Installed!Install, Shared
<1>3. f \in Installed!Written(o) => f \notin Installed!Unregisters(o)
  BY DEF Installed!Written, Installed!Registers, Installed!Unregisters
<1>4. CASE f \in Installed!Written(o)
  <2>1. shared'[f] = [part |-> IF f \in Installed!Discarded(o) THEN "none" ELSE text.part, entry |-> build]
    BY <1>1, <1>2, <1>3, <1>4 DEF Installed!NextShared
  <2>2. f \in Installed!Discarded(o) => shared[f] \in beside'
    BY DEF Installed!Install
  <2>3. [part |-> text.part, entry |-> build] \in EntryTexts
    BY <1>1 DEF EntryTexts
  <2>4. f \notin Installed!Discarded(o) => shared'[f] # Absent /\ shared'[f].part = shared[f].part
    BY <2>1, <2>3, ConstantFacts
  <2>5. ASSUME Installed!EntryOf(f) = Installed!Edited, ~o.force
        PROVE  shared[f] \in Installed!Range(backups'[f])
    <3>1. ~Installed!Recognized(f)
      BY <2>5, RecognizedEntry
    <3>2. Installed!EditedEntry(f) /\ f \in Installed!Registers(o)
      BY <1>1, <1>4, <2>5, <3>1 DEF Installed!EditedEntry, Installed!Written
    <3>3. KindOf(f) = "mcp"
      BY <2>5, <3>2
         DEF Installed!Install, Installed!Blocked, Installed!EntryBlocked, Installed!SettingsBlocked,
             Installed!ActivationBlocked
    <3>4. backups'[f] = Installed!Saved(backups[f], shared[f])
      BY <1>1, <1>4, <3>3 DEF Installed!Install
    <3>5. text # [part |-> "none", entry |-> 0]
      <4>1. text.entry # 0
        BY <1>1, <2>5
      <4>2. [part |-> "none", entry |-> 0].entry = 0
        OBVIOUS
      <4> HIDE DEF text
      <4> QED BY <4>1, <4>2
    <3> DEFINE Texts == EntryTexts \cup HookTexts
    <3>6. backups[f] \in Seq(Texts) /\ text \in Texts
      BY <1>1
    <3> HIDE DEF Texts
    <3> QED BY <3>4, <3>5, <3>6, SavedCopies
  <2> QED BY <2>2, <2>4, <2>5
<1>5. CASE f \notin Installed!Written(o) /\ f \in Installed!Unregisters(o)
  <2>1. shared'[f] = Installed!Without(f, KindOf(f) = "activation")
    BY <1>2, <1>5 DEF Installed!NextShared
  <2>2. Installed!EntryOf(f) # Installed!Edited
    BY <1>5, RecognizedEntry DEF Installed!Unregisters
  <2>3. text.part # "none" => shared'[f] = [text EXCEPT !.entry = 0]
    BY <1>1, <2>1 DEF Installed!Without
  <2>4. [text EXCEPT !.entry = 0] \in EntryTexts /\ [text EXCEPT !.entry = 0].part = text.part
    BY <1>1 DEF EntryTexts
  <2> QED BY <2>2, <2>3, <2>4, ConstantFacts
<1>6. CASE f \notin Installed!Written(o) /\ f \notin Installed!Unregisters(o)
  <2>1. shared'[f] = shared[f]
    BY <1>2, <1>6 DEF Installed!NextShared
  <2> QED BY <2>1
<1> QED BY <1>4, <1>5, <1>6

\* And so does uninstall.
LEMMA UninstallKeepsText ==
    ASSUME InstalledInv, NEW h \in Harnesses, NEW force \in BOOLEAN, Installed!Uninstall(h, force),
           NEW f \in Shared, shared[f] # Absent
    PROVE  /\ shared[f].part # "none" => shared'[f] # Absent /\ shared'[f].part = shared[f].part
           /\ Installed!EntryOf(f) = Installed!Edited /\ ~force => shared'[f] = shared[f]
<1> DEFINE text == shared[f]
<1>1. text \in EntryTexts /\ Installed!Part(f) = text.part
  BY DEF InstalledInv, InstalledTypes, Installed!Part
<1>2. shared'[f] = IF f \in Installed!Rewritten(h, force) THEN Installed!Without(f, Installed!Goes(f))
                   ELSE shared[f]
  BY DEF Installed!Uninstall, Shared
<1>3. CASE f \in Installed!Rewritten(h, force)
  <2>1. ~force => Installed!EntryOf(f) # Installed!Edited
    BY <1>3, RecognizedEntry DEF Installed!Rewritten
  <2>2. text.part # "none" => shared'[f] = [text EXCEPT !.entry = 0]
    BY <1>1, <1>2, <1>3 DEF Installed!Without
  <2>3. [text EXCEPT !.entry = 0] \in EntryTexts /\ [text EXCEPT !.entry = 0].part = text.part
    BY <1>1 DEF EntryTexts
  <2> QED BY <2>1, <2>2, <2>3, ConstantFacts
<1>4. CASE f \notin Installed!Rewritten(h, force)
  BY <1>2, <1>4
<1> QED BY <1>3, <1>4

\* No step of the installation loses what people wrote.
LEMMA CommandsKeepText ==
    ASSUME InstalledInv, TransactionNext \/ FilesNext \/ EntriesNext \/ GraphNext \/
                           UNCHANGED <<part, vars, installVars, graphVars>>
    PROVE  [Installed!CommandKeepsText]_installVars
<1> SUFFICES ASSUME edits' = edits, installVars' # installVars
             PROVE  /\ ~forced' => \A p \in Assets :
                          generated[p] = Installed!Own => generated'[p] = Installed!Own
                    /\ \A f \in Shared : shared[f] # Absent /\ shared[f].part # "none" =>
                          \/ shared'[f] # Absent /\ shared'[f].part = shared[f].part
                          \/ shared[f] \in beside'
                    /\ \A f \in Shared : Installed!EntryOf(f) = Installed!Edited /\ ~forced' =>
                          shared'[f] = shared[f] \/ shared[f] \in Installed!Range(backups'[f])
  BY DEF Installed!CommandKeepsText, Installed!Own, Assets, Shared
<1>1. \A f \in Shared : Installed!EntryOf(f) = Installed!Edited => shared[f] # Absent
  BY ConstantFacts DEF Installed!EntryOf, Installed!Edited
<1>2. CASE \E o \in Options : Installed!Install(o)
  <2>1. PICK o \in Options : Installed!Install(o)
    BY <1>2
  <2>2. forced' = o.force
    BY <2>1 DEF Installed!Install
  <2> QED BY <1>1, <2>1, <2>2, KeepsOwnFiles, InstallKeepsText
<1>3. CASE \E h \in Harnesses, force \in BOOLEAN : Installed!Uninstall(h, force)
  <2>1. PICK h \in Harnesses, force \in BOOLEAN : Installed!Uninstall(h, force)
    BY <1>3
  <2>2. forced' = force
    BY <2>1 DEF Installed!Uninstall
  <2> QED BY <1>1, <2>1, <2>2, KeepsOwnFiles, UninstallKeepsText
<1>4. CASE Installed!Upgrade
  BY <1>4 DEF Installed!Upgrade, Installed!disk
<1>5. ~(Installed!EditAsset \/ Installed!EditHook \/ Installed!EditShared \/ Installed!Authorize)
  <2>1. edits \in Nat
    BY DEF InstalledInv, InstalledTypes
  <2> QED BY <2>1 DEF Installed!EditAsset, Installed!EditHook, Installed!EditShared,
                      Installed!Authorize, Installed!Edit
<1> QED BY <1>2, <1>3, <1>4, <1>5, WorktreeSteps

\* No transaction overwrites an edit outside its check-to-write gap, and no install, upgrade or
\* uninstall loses what people wrote: generated files they edited and edited entries without
\* --force, their part of a shared file, which is in it or saved beside it (install-plan.ts,
\* uninstall.ts).
THEOREM UserTextIsKept == WorktreeSpec => KeepsUserText
<1> DEFINE Step == TransactionNext \/ FilesNext \/ EntriesNext \/ GraphNext
<1>1. WorktreeInit => Init
  BY DEF WorktreeInit
<1>2. [Step]_<<part, vars, installVars, graphVars>> => [Next]_vars
  BY WorktreeSteps
<1>3. WorktreeSpec => Spec
  BY <1>1, <1>2, PTL DEF WorktreeSpec, Spec
<1>4. InstalledInv /\ [Step]_<<part, vars, installVars, graphVars>> =>
        [Installed!CommandKeepsText]_installVars
  BY CommandsKeepText
<1> QED BY <1>3, <1>4, InstalledInvariance, OverwritesSeen, PTL DEF WorktreeSpec, KeepsUserText
=============================================================================
