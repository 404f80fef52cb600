---------------------------- MODULE MCSessionLoop ----------------------------
(* Instances of SessionLoop for TLC: few workers and a low MaxAvail, so    *)
(* that the pool runs out of threads, shrinks and is stopped half way.     *)
EXTENDS SessionLoop, TLC

WorkerSymmetry == Permutations(Workers)
=============================================================================
