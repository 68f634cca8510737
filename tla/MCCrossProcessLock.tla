------------------------- MODULE MCCrossProcessLock -------------------------
(* CrossProcessLock on small sets of processes. *)
EXTENDS CrossProcessLock, TLC

CONSTANTS A, B, C

TwoProcs == {A, B}
ThreeProcs == {A, B, C}
SymmetryOfProc == Permutations(Proc)
=============================================================================
