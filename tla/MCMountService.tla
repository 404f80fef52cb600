---------------------------- MODULE MCMountService ----------------------------
(* Instances of MountService for TLC: two directories of the same name      *)
(* share a mount point, a third has one of its own.                         *)
EXTENDS MountService, TLC

CONSTANTS p1, p2, x, y, z

MCPointOf == x :> p1 @@ y :> p1 @@ z :> p2
=============================================================================
