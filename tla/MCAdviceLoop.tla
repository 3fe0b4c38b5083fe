---------------------------- MODULE MCAdviceLoop ----------------------------
(***************************************************************************)
(* Small briefs for AdviceLoop: one slice, or two of which the second may  *)
(* depend on the first, and the findings their reviews may report.         *)
(***************************************************************************)
EXTENDS AdviceLoop

TwoSlices == <<"first", "second">>

OneSlice == <<"first">>

Independent == {}

\* The second slice depends on the first.
Ordered == {<<"second", "first">>}

\* A finding of the feature's review names one slice's outcome or both, one of a slice's
\* review its own.
SomeReports ==
    [scope \in Scopes |-> IF scope = Feature THEN {<<"first">>, <<"second", "first">>} ELSE {<<scope>>}]

\* A finding of the feature's review names the outcome or nothing.
OneReports == [scope \in Scopes |-> IF scope = Feature THEN {<<"first">>, <<>>} ELSE {}]
=============================================================================
