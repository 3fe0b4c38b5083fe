-------------------------- MODULE MCFileTransaction --------------------------
(***************************************************************************)
(* A small project for file transactions: two or three files, two regular  *)
(* bodies and a link, two modes, and plans that create, rewrite, remove,   *)
(* relink, chmod and assert, some made for a state another plan replaces.  *)
(***************************************************************************)
EXTENDS FileTransaction, TLC

CONSTANTS a, b, c, x, y, link, m644, m755, w1, w2

Regular(body) == [body |-> body, mode |-> m644]

Program(body) == [body |-> body, mode |-> m755]

LinkState == [body |-> link, mode |-> m755]

Write(p, body, mode, expected) ==
    [kind |-> "write", path |-> p, body |-> body, mode |-> mode, expectedBefore |-> expected]

Remove(p, expected) == [kind |-> "remove", path |-> p, expectedBefore |-> expected]

Witness(p, expected) == [kind |-> "assert", path |-> p, expectedBefore |-> expected]

\* a holds x, nothing else is there.
Start == [p \in Paths |-> IF p = a THEN Regular(x) ELSE Absent]

\* Made for Start: rewrite a and create b.
Create == <<Write(a, y, KeepMode, Regular(x)), Write(b, x, m755, Absent)>>

\* Made for what Create leaves, with a as a witness: remove b, relink c.
Replace == <<Witness(a, [body |-> y, mode |-> AnyMode]), Remove(b, Program(x)),
             Write(c, link, KeepMode, Absent)>>

\* Whatever is there: back to x, with no expectations, and b untouched if absent.
Reset == <<Write(a, x, m644, Anything), Remove(b, Anything), Remove(c, LinkState)>>

\* A mode alone changes.
Chmod == <<Write(a, x, m755, Regular(x)), Witness(b, Absent)>>

AllPlans == {<<>>, Create, Replace, Reset, Chmod}

\* An editor saves y with either mode, or deletes.
SomeEdits == {Absent, Regular(y), Program(y)}
==============================================================================
