------------------------------- MODULE MCHeap -------------------------------
(* Instances of Heap small enough for TLC.                                 *)
EXTENDS Heap, TLC

CONSTANTS p1, p2, p3, va, zero, junk

MCSlots == {p1, p2, p3}
MCSizes == {0, 4, 13}
MCIncrements == {0, 3}
MCValues == {va}
Perms == Permutations(MCSlots)
=============================================================================
