------------------------------ MODULE MCSupport ------------------------------
(* Support on small sets of processes.                                     *)
EXTENDS Support, TLC

CONSTANTS test, shell, p1, p2

SomePrograms == {p1, p2}
OneProgram   == {p1}
OnePage      == {0}
TwoPages     == {0, 1}

(* Where the terminal is not the question.                                 *)
NoTerminalCalls == \A u \in UProcs : pc[u] \notin {"writeHold", "readHold"}

(* Programs differ in nothing but their name.                              *)
ProgramSymmetry == Permutations(SomePrograms)
=============================================================================
