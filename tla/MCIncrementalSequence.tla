---- MODULE MCIncrementalSequence ----
(***************************************************************************)
(* Two processes: one in fast mode with two concurrent callers, one in     *)
(* standard mode.  After a lapse or a rewind nothing is promised, so the   *)
(* search stops there.                                                     *)
(***************************************************************************)
EXTENDS IncrementalSequence, TLC

CONSTANTS c1, c2, c3, p1, p2

Callers == {c1, c2, c3}
Processes == {p1, p2}
FastProcesses == {p1}
CallerHome == (c1 :> p1) @@ (c2 :> p1) @@ (c3 :> p2)

Symmetry == Permutations(Token) \cup Permutations({c1, c2})

StillPromised == ~lapsed /\ ~rewound
====
