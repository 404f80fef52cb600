---------------------------- MODULE MCPosixLocks ----------------------------
(* Two owners with a thread each, which stands for its owner too; with       *)
(* SharedOwner the two threads serve one owner.                              *)
EXTENDS PosixLocks, TLC

CONSTANTS t1, t2

EachItsOwn == [t \in Threads |-> t]
SharedOwner == [t \in Threads |-> t1]
Symmetry == Permutations(Threads)
=============================================================================
