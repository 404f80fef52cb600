------------------------------- MODULE Protocol -------------------------------
(***************************************************************************)
(* The messages of the FUSE kernel interface as include/fuse_kernel.h      *)
(* declares them: which requests a kernel of protocol version 7.minor      *)
(* sends, the sizes in bytes of the structures in front of names and data, *)
(* and the sizes of the structures it expects in an answer.                *)
(***************************************************************************)
EXTENDS Integers

(* FUSE_KERNEL_VERSION and FUSE_KERNEL_MINOR_VERSION: what the library     *)
(* speaks.                                                                 *)
Major == 7
Minor == 19

NameOps == {"LOOKUP", "UNLINK", "RMDIR", "SYMLINK", "REMOVEXATTR"}
LockOps == {"GETLK", "SETLK", "SETLKW"}
ForgetOps == {"FORGET", "BATCH_FORGET"}

(* enum fuse_opcode, INTERRUPT excepted (it has a module of its own).      *)
Opcodes ==
  NameOps \cup LockOps \cup ForgetOps \cup
  {"GETATTR", "SETATTR", "READLINK", "MKNOD", "MKDIR", "RENAME", "LINK", "OPEN", "READ",
   "WRITE", "STATFS", "RELEASE", "FSYNC", "SETXATTR", "GETXATTR", "LISTXATTR", "FLUSH",
   "INIT", "OPENDIR", "READDIR", "RELEASEDIR", "FSYNCDIR", "ACCESS", "CREATE", "BMAP",
   "DESTROY", "IOCTL", "POLL", "NOTIFY_REPLY", "FALLOCATE"}

(* The protocol changelog: the version a request appeared in.              *)
Since(op) ==
  IF op \in {"IOCTL", "POLL"} THEN 11 ELSE
  IF op = "NOTIFY_REPLY" THEN 15 ELSE
  IF op = "BATCH_FORGET" THEN 16 ELSE
  IF op = "FALLOCATE" THEN 19 ELSE 0

Sends(minor) == {op \in Opcodes : Since(op) <= minor}

Unanswered == ForgetOps \cup {"NOTIFY_REPLY"}

(* enum fuse_notify_code, and the version a notification appeared in.      *)
Codes == {"POLL", "INVAL_INODE", "INVAL_ENTRY", "DELETE", "STORE", "RETRIEVE"}
KnownSince(code) ==
  IF code = "POLL" THEN 11 ELSE
  IF code \in {"INVAL_INODE", "INVAL_ENTRY"} THEN 12 ELSE
  IF code = "DELETE" THEN 18 ELSE 15

-----------------------------------------------------------------------------
(* The structures in front of the names and data of a request: *_in.       *)

HeaderIn == 40                                        (* fuse_in_header     *)
HeaderOut == 16                                       (* fuse_out_header    *)

(* fuse_open_in, fuse_mkdir_in, fuse_rename_in, fuse_link_in, ...: two     *)
(* 32-bit words or one 64-bit word.                                        *)
WordOps == {"FORGET", "BATCH_FORGET", "MKDIR", "RENAME", "LINK", "OPEN", "OPENDIR", "SETXATTR",
            "GETXATTR", "LISTXATTR", "ACCESS"}
FsyncOps == {"FSYNC", "FSYNCDIR", "BMAP"}
ReadOps == {"READ", "READDIR"}
ReleaseOps == {"RELEASE", "RELEASEDIR"}

(* What a version added: getattr_in, lock_owner and flags in read_in and   *)
(* write_in, lk_flags in lk_in (7.9), umask in mknod_in and create_in      *)
(* (7.12).                                                                 *)
InSize(op, minor) ==
  CASE op \in WordOps       -> 8
    [] op = "GETATTR"       -> IF minor < 9 THEN 0 ELSE 4 + 4 + 8
    [] op = "SETATTR"       -> 4 + 4 + 6 * 8 + 8 * 4
    [] op = "MKNOD"         -> IF minor < 12 THEN 8 ELSE 4 * 4
    [] op = "CREATE"        -> IF minor < 12 THEN 8 ELSE 4 * 4
    [] op \in ReadOps       -> IF minor < 9 THEN 24 ELSE 2 * 8 + 2 * 4 + 8 + 2 * 4
    [] op = "WRITE"         -> IF minor < 9 THEN 24 ELSE 2 * 8 + 2 * 4 + 8 + 2 * 4
    [] op \in ReleaseOps    -> IF minor < 8 THEN 16 ELSE 8 + 2 * 4 + 8
    [] op = "FLUSH"         -> IF minor < 7 THEN 16 ELSE 8 + 2 * 4 + 8
    [] op \in FsyncOps      -> 8 + 2 * 4
    [] op \in LockOps       -> IF minor < 9 THEN 2 * 8 + 24 ELSE 2 * 8 + 24 + 2 * 4
    [] op = "INIT"          -> IF minor < 6 THEN 2 * 4 ELSE 4 * 4
    [] op = "IOCTL"         -> 8 + 2 * 4 + 8 + 2 * 4
    [] op = "POLL"          -> 2 * 8 + 2 * 4
    [] op = "FALLOCATE"     -> 3 * 8 + 2 * 4
    [] op = "NOTIFY_REPLY"  -> 2 * 8 + 2 * 4 + 2 * 8
    [] OTHER                -> 0

-----------------------------------------------------------------------------
(* The structures of an answer: *_out.                                     *)

(* fuse_attr: 7.9 added blksize.                                           *)
Attr(minor) == 6 * 8 + 8 * 4 + (IF minor < 9 THEN 0 ELSE 2 * 4)
EntryOut(minor) == 4 * 8 + 2 * 4 + Attr(minor)
AttrOut(minor) == 8 + 2 * 4 + Attr(minor)
OpenOut == 8 + 2 * 4
KStatfs(minor) == IF minor < 4 THEN 48 ELSE 5 * 8 + 4 * 4 + 6 * 4
InitOut(minor) == IF minor < 5 THEN 2 * 4 ELSE 4 * 4 + 2 * 2 + 4

EntryOps == {"LOOKUP", "MKNOD", "MKDIR", "SYMLINK", "LINK"}
DataOps == {"READ", "READDIR", "READLINK", "GETXATTR", "LISTXATTR", "IOCTL"}

(* The structure in a successful answer to op.                             *)
OutSize(op, minor) ==
  CASE op \in EntryOps                -> EntryOut(minor)
    [] op = "CREATE"                  -> EntryOut(minor) + OpenOut
    [] op \in {"GETATTR", "SETATTR"}  -> AttrOut(minor)
    [] op \in {"OPEN", "OPENDIR"}     -> OpenOut
    [] op \in {"WRITE", "BMAP", "POLL"} -> 8
    [] op = "STATFS"                  -> KStatfs(minor)
    [] op = "GETLK"                   -> 2 * 8 + 2 * 4
    [] op = "IOCTL"                   -> 4 * 4
    [] op = "INIT"                    -> InitOut(minor)
    [] OTHER                          -> 0
=============================================================================
