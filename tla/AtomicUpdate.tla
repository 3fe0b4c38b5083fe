---------------------------- MODULE AtomicUpdate ----------------------------
(***************************************************************************)
(* What applyFileTransaction promises: the planned changes happen to all   *)
(* their files at one instant, when every file still is what its mutation  *)
(* expects, or do not happen at all.  An interruption is no step of it; an *)
(* editor may save a file between updates.                                 *)
(***************************************************************************)
EXTENDS FileMutations

CONSTANTS
    Initial,  \* the files the project starts with
    Editor    \* what an editor may save

VARIABLE store    \* what each path holds

Init == store = Initial

Update(plan) ==
    /\ \A i \in DOMAIN plan : Acceptable(plan[i], store[plan[i].path])
    /\ store' = [p \in Paths |->
                    IF p \in Targets(plan) THEN After(ItemFor(plan, p), store[p]) ELSE store[p]]

Edit(p) == \E saved \in Editor : store' = [store EXCEPT ![p] = saved]

Next == (\E plan \in Plans : Update(plan)) \/ (\E p \in Paths : Edit(p))

Spec == Init /\ [][Next]_store
=============================================================================
