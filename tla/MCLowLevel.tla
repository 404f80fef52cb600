----------------------------- MODULE MCLowLevel -----------------------------
(* Instances of LowLevel for TLC.                                          *)
EXTENDS LowLevel, TLC

(* Every operation of the interface but those that stand in for another,   *)
(* and the operations of lib/fuse.c.                                       *)
Plainest == Opcodes \ {"NOTIFY_REPLY", "BATCH_FORGET", "SETLKW"}
HighLevel == (Plainest \ {"WRITE"}) \cup {"WRITE_BUF", "FORGET_MULTI", "FLOCK"}

Common == [ops |-> HighLevel, kernels |-> {}, allowRoot |-> FALSE, with |-> {},
           without |-> {"POSIX_LOCKS"}, word |-> 8, maxWrite |-> 2^30,
           background |-> 0, threshold |-> 0, bufsize |-> 135168,
           oom |-> FALSE]

(* The file system of lib/fuse.c on a 64-bit machine, with every version   *)
(* that changed a message; a full low-level file system, also on a 32-bit  *)
(* machine with its options at their limits and little memory; a file      *)
(* system without operations.                                              *)
Daemons ==
  {[Common EXCEPT !.kernels = {3, 4, 6, 7, 8, 9, 11, 12, 13, 14, 15, 16, 18, 23}],
   [Common EXCEPT !.kernels = {8, 16}, !.ops = Plainest, !.without = {}],
   [Common EXCEPT !.kernels = {23}, !.ops = Plainest, !.allowRoot = TRUE, !.word = 4,
                  !.with = Splice \cup {"BIG_WRITES"}, !.without = {"SPLICE_READ"},
                  !.maxWrite = 4096, !.background = 2^16,
                  !.threshold = 2^16 + 1, !.bufsize = 8192, !.oom = TRUE],
   [Common EXCEPT !.kernels = {12}, !.ops = {}]}

Symmetry == Permutations(Workers) \cup Permutations(Uniques)
=============================================================================
