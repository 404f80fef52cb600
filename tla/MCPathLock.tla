----------------------------- MODULE MCPathLock -----------------------------
(* Instances of PathLock for TLC.  The tree the kernel has looked up:      *)
(* root/x = d, d/x = a, d/y = b, and a spare node e.                       *)
EXTENDS PathLock

CONSTANTS root, d, a, b, e, x, y

TreeParent == [n \in Nodes |-> CASE n = d -> root [] n = a -> d [] n = b -> d [] OTHER -> NoNode]
TreeName   == [n \in Nodes |-> CASE n \in {d, a} -> x [] n = b -> y [] OTHER -> NoName]
TreeLookup == [n \in Nodes |-> IF n = e THEN 0 ELSE 1]

(* Another tree, root/x = d, d/x = a, root/y = b: the entry root/x may     *)
(* vanish from the backing directory while d is still in the tree.         *)
VanishParent == [n \in Nodes |-> CASE n \in {d, b} -> root [] n = a -> d [] OTHER -> NoNode]
VanishOps == {"open", "rename", "forget"}

AllOps == {"getattr", "open", "lookup", "create", "unlink", "rename", "link", "forget"}
PairOps == {"getattr", "rename"}
LiveOps == {"open", "rename", "forget"}
OneOp == {"open"}

(* Stands for INT_MIN: any value below the counts of this instance.        *)
Offset == -1000
=============================================================================
