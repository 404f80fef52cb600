----------------------------- MODULE MCFuseFiles -----------------------------
(* Instances of FuseFiles for TLC.  The identities of threads, nodes, names,*)
(* files and handles are interchangeable.                                   *)
EXTENDS FuseFiles, TLC

Symmetry ==
  Permutations(Threads) \cup Permutations(Nodes) \cup Permutations(Names)
    \cup Permutations(HiddenNames) \cup Permutations(Files) \cup Permutations(Handles)
=============================================================================
