------------------------------- MODULE LowLevel -------------------------------
(***************************************************************************)
(* The session of lib/fuse_lowlevel.c as seen from the channel: the        *)
(* negotiation of INIT, the gate every request passes, the dispatch to the *)
(* operations of the file system, the answers, DESTROY, and the            *)
(* notifications with which the file system asks the kernel for data.      *)
(* Several workers read the channel.  INTERRUPT is in module Interrupts,   *)
(* names and data are known by their sizes only.                           *)
(***************************************************************************)
EXTENDS Protocol, FiniteSetsExt

CONSTANTS
  Workers,        (* threads that read the channel                         *)
  Uniques,        (* numbers of the requests the kernel sends              *)
  MaxRetrieves,   (* bound on the retrieve notifications                   *)
  KernelMajors,   (* major versions the kernel may start with              *)
  Settings,       (* daemons: [ops, kernels, allowRoot, with, without,     *)
                  (* maxWrite, background, threshold, word, bufsize, oom]: *)
                  (* operations of the file system, minor versions it may  *)
                  (* meet, options (with and without a capability), the    *)
                  (* size of a pointer and of the channel's buffer,        *)
                  (* whether memory may run out                            *)
  Racing,         (* requests the kernel sends while others are served     *)
  Nothing         (* no request                                            *)

ASSUME LowLevelAssumption ==
  /\ IsFiniteSet(Workers) /\ IsFiniteSet(Uniques) /\ Uniques \cap Nat = {}
  /\ MaxRetrieves \in Nat /\ KernelMajors \subseteq Nat
  /\ Nothing \notin Uniques \cup Nat

VARIABLES
  kernel,      (* the kernel's end: [phase, major, minor, flags]           *)
  inbox,       (* requests written to the channel and not read             *)
  waiting,     (* numbers of the requests that wait for their answer       *)
  sent,        (* numbers used                                             *)
  confused,    (* whether it got a message it could not make sense of      *)
  gotInit,     (* f->got_init                                              *)
  gotDestroy,  (* f->got_destroy                                           *)
  conn,        (* f->conn: [minor, want, maxWrite, background, threshold]  *)
  list,        (* f->list: numbers of the requests that have an object     *)
  notifyCtr,   (* f->notify_ctr, less one                                  *)
  notifyList,  (* f->notify_list                                           *)
  pc,          (* what each worker is doing                                *)
  req,         (* the request it serves: [unique, op, uid, flags, count]   *)
  sender,      (* the thread that notifies                                 *)
  fs,          (* calls of the file system: [inits, destroys]              *)
  forgotten,   (* references given back: [sent, done]                      *)
  settings

kernelVars == <<kernel, inbox, waiting, sent, confused>>
llVars == <<gotInit, gotDestroy, conn, list, notifyCtr, notifyList>>
workerVars == <<pc, req>>
vars == <<kernelVars, llVars, workerVars, sender, fs, forgotten, settings>>

Phases == {"new", "negotiating", "up", "refused", "destroying", "gone"}
PCs == {"idle", "gate", "dispatch", "call", "opinit", "opdestroy", "retrieved"}
Uids == {"owner", "root", "other"}
Flags == {"FLOCK", "DIR", "32BIT", "SCHEDULE_NOTIFY"}
Caps == {"ASYNC_READ", "POSIX_LOCKS", "ATOMIC_O_TRUNC", "EXPORT_SUPPORT", "BIG_WRITES",
         "DONT_MASK", "FLOCK_LOCKS", "SPLICE_WRITE", "SPLICE_MOVE", "SPLICE_READ", "IOCTL_DIR"}

(* Versions and tunables are unsigned; with sets flags of enum fuse_cap.   *)
ASSUME SettingsAssumption ==
  \A s \in Settings :
    /\ s.kernels \subseteq Nat /\ s.with \subseteq Caps
    /\ s.maxWrite \in Nat /\ s.background \in Nat /\ s.threshold \in Nat /\ s.bufsize \in Nat

Serves(w) == pc[w] # "idle"
Served == {req[w] : w \in {v \in Workers : Serves(v)}}

Numbers == Uniques \cup 1..MaxRetrieves

NoMessage == [unique |-> Nothing, op |-> "none", uid |-> "root", flags |-> {}, count |-> 0]

(* fuse_lowlevel_new_common, with the options parsed.                      *)
Init ==
  /\ settings \in Settings
  /\ kernel \in [phase : {"new"}, major : KernelMajors, minor : settings.kernels, flags : {{}}]
  /\ inbox = {} /\ waiting = {} /\ sent = {} /\ confused = FALSE
  /\ gotInit = FALSE /\ gotDestroy = FALSE
  /\ conn = [minor |-> 0, want |-> {}, maxWrite |-> settings.maxWrite,
             background |-> settings.background, threshold |-> settings.threshold]
  /\ list = {} /\ notifyCtr = 0 /\ notifyList = {}
  /\ pc = [w \in Workers |-> "idle"] /\ req = [w \in Workers |-> NoMessage]
  /\ sender = "idle"
  /\ fs = [inits |-> 0, destroys |-> 0]
  /\ forgotten = [sent |-> 0, done |-> 0]

-----------------------------------------------------------------------------
(* The kernel.                                                             *)

Version == IF kernel.minor < Minor THEN kernel.minor ELSE Minor

Send(op, uid, flags, count) ==
  /\ \E u \in Uniques \ sent :
       /\ sent' = sent \cup {u}
       /\ inbox' = inbox \cup {[unique |-> u, op |-> op, uid |-> uid, flags |-> flags, count |-> count]}
       /\ waiting' = IF op \in Unanswered THEN waiting ELSE waiting \cup {u}
  /\ UNCHANGED <<confused, llVars, workerVars, sender, fs, settings>>

(* INIT comes first and alone.                                             *)
SendInit ==
  /\ kernel.phase = "new"
  /\ Send("INIT", "root", {}, 0)
  /\ kernel' = [kernel EXCEPT !.phase = "negotiating"]
  /\ UNCHANGED forgotten

(* Flags that come with a request of this version.                         *)
MayFlag(op) ==
  CASE op \in {"SETLK", "SETLKW"} -> IF "FLOCK_LOCKS" \in kernel.flags THEN {"FLOCK"} ELSE {}
    [] op = "IOCTL" -> {f \in {"DIR", "32BIT"} : Version >= IF f = "DIR" THEN 18 ELSE 16}
    [] op = "POLL"  -> {"SCHEDULE_NOTIFY"}
    [] OTHER        -> {}

(* Who asks matters with allow_root only.                                  *)
Senders == IF settings.allowRoot THEN Uids ELSE {"owner"}

SendRequest ==
  /\ kernel.phase = "up"
  /\ \E op \in Sends(Version) \ (Unanswered \cup {"INIT", "DESTROY"}), uid \in Senders :
       /\ op \in Racing \/ inbox \cup Served = {}
       /\ \E flags \in SUBSET MayFlag(op) :
            /\ op \in LockOps =>
                 (IF "FLOCK" \in flags THEN "FLOCK_LOCKS" ELSE "POSIX_LOCKS") \in kernel.flags
            /\ Send(op, uid, flags, 0)
  /\ UNCHANGED <<kernel, forgotten>>

(* References are given back one by one, or two at once.                   *)
SendForget ==
  /\ kernel.phase = "up"
  /\ \E op \in ForgetOps \cap Sends(Version) :
       LET count == IF op = "FORGET" THEN 1 ELSE 2
       IN  /\ Send(op, "root", {}, count)
           /\ forgotten' = [forgotten EXCEPT !.sent = @ + count]
  /\ UNCHANGED kernel

(* The last request, when nothing is waiting; some kernels leave it out.   *)
SendDestroy ==
  /\ kernel.phase = "up" /\ waiting = {}
  /\ Send("DESTROY", "root", {}, 0)
  /\ kernel' = [kernel EXCEPT !.phase = "destroying"]
  /\ UNCHANGED forgotten

-----------------------------------------------------------------------------
(* Answers.  The worker writes one and frees the request: fuse_free_req.   *)

Answer(error, size, data) == [error |-> error, size |-> size, data |-> data]

(* What the kernel accepts: an error number alone, or the structure of the *)
(* version agreed on, with data behind it where it asked for data.         *)
Fits(op, a) ==
  \/ a.error \notin {"0", "bad"} /\ a.size = 0 /\ ~a.data
  \/ /\ a.error = "0"
     /\ \/ op = "INIT"
        \/ a.size = OutSize(op, Version) /\ (a.data => op \in DataOps)
        \/ a.size = 8 /\ op \in {"GETXATTR", "LISTXATTR"} /\ ~a.data

Done(w) ==
  /\ pc' = [pc EXCEPT ![w] = "idle"]
  /\ req' = [req EXCEPT ![w] = NoMessage]
  /\ list' = list \ {req[w].unique}
  /\ UNCHANGED <<inbox, sent, gotDestroy, notifyCtr, sender, settings>>

Writes(w, a) ==
  /\ Done(w)
  /\ waiting' = waiting \ {req[w].unique}
  /\ confused' = (confused \/ ~Fits(req[w].op, a))

ReplyErrDropped(w, error) ==
  IF error = "bad" THEN Done(w) /\ UNCHANGED <<waiting, confused>>
  ELSE Writes(w, Answer(error, 0, FALSE))

(* fuse_send_reply_iov_nofree: what is no error number becomes ERANGE.     *)
ReplyErr(w, error) == Writes(w, Answer(IF error = "bad" THEN "ERANGE" ELSE error, 0, FALSE))

(* fuse_reply_none: nothing reaches the kernel.                            *)
ReplyNone(w) == Done(w) /\ UNCHANGED <<waiting, confused>>

(* fuse_reply_entry and fuse_reply_create, fuse_reply_attr,                *)
(* fuse_reply_statfs: the structure shrinks with the version.              *)
EntrySizeOld == IF conn.minor < 8 THEN 120 ELSE 4 * 8 + 2 * 4 + Attr(9)
EntrySize == IF conn.minor < 9 THEN 120 ELSE 4 * 8 + 2 * 4 + Attr(9)
AttrSize == IF conn.minor < 9 THEN 96 ELSE 8 + 2 * 4 + Attr(9)
StatfsSize == IF conn.minor < 4 THEN 48 ELSE KStatfs(4)

(* fuse_reply_xattr and fuse_reply_lock.                                   *)
XattrSize == 8
LockSize == 24

(* The answers a file system gives with fuse_reply_*, by request.  A       *)
(* negative entry was an error before 7.4.                                 *)
Successes(op) ==
  CASE op \in EntryOps ->
         {Answer("0", EntrySize, FALSE)} \cup
         (IF op # "LOOKUP" THEN {} ELSE
            {IF conn.minor < 4 THEN Answer("ENOENT", 0, FALSE) ELSE Answer("0", EntrySize, FALSE)})
    [] op = "CREATE" -> {Answer("0", EntrySize + OpenOut, FALSE)}
    [] op \in {"GETATTR", "SETATTR"} -> {Answer("0", AttrSize, FALSE)}
    [] op \in {"OPEN", "OPENDIR"} -> {Answer("0", OpenOut, FALSE)}
    [] op \in {"READ", "READDIR", "READLINK"} -> {Answer("0", 0, TRUE)}
    [] op \in {"GETXATTR", "LISTXATTR"} -> {Answer("0", XattrSize, FALSE), Answer("0", 0, TRUE)}
    [] op \in {"WRITE", "BMAP", "POLL"} -> {Answer("0", 8, FALSE)}
    [] op = "STATFS" -> {Answer("0", StatfsSize, FALSE)}
    [] op = "GETLK" -> {Answer("0", LockSize, FALSE)}
    [] OTHER -> {Answer("0", 0, FALSE)}

(* fuse_reply_ioctl, fuse_reply_ioctl_iov, fuse_reply_ioctl_retry: a 32-bit*)
(* daemon cannot describe buffers of a 64-bit caller, and old kernels take *)
(* the daemon's own struct iovec.                                          *)
Ioctl64(m) == settings.word = 4 /\ conn.minor >= 16 /\ "32BIT" \notin m.flags
IoctlAnswers(m) ==
  {Answer("0", 16, FALSE), Answer("0", 16, TRUE)} \cup
  (IF Ioctl64(m) THEN {Answer("EINVAL", 0, FALSE)} ELSE {}) \cup
  (IF settings.oom THEN {Answer("ENOMEM", 0, FALSE)} ELSE {})

FsAnswers(m) == IF m.op = "IOCTL" THEN IoctlAnswers(m) ELSE Successes(m.op)

-----------------------------------------------------------------------------
(* A worker.                                                               *)

Goes(w, from, to) == pc[w] = from /\ pc' = [pc EXCEPT ![w] = to]

Read(w) ==
  /\ Goes(w, "idle", "gate")
  /\ \E m \in inbox : inbox' = inbox \ {m} /\ req' = [req EXCEPT ![w] = m]
  /\ UNCHANGED <<kernel, waiting, sent, confused, llVars, sender, fs, forgotten, settings>>

(* The requests that allow_root lets pass for every user.                  *)
EveryUser == {"INIT", "READ", "WRITE", "FSYNC", "RELEASE", "READDIR", "FSYNCDIR", "RELEASEDIR",
              "NOTIFY_REPLY"}

(* Before INIT nothing but INIT, and INIT only once; with allow_root the   *)
(* owner and root only.                                                    *)
GateError(m) ==
  IF (m.op = "INIT") = gotInit THEN "EIO" ELSE
  IF settings.allowRoot /\ m.uid = "other" /\ m.op \notin EveryUser THEN "EACCES" ELSE "0"

(* What fuse_ll_process_buf does with a buffer in memory. A pipe (splice)  *)
(* has ways out of its own, without an answer, which are not here.         *)
Refuse(w) ==
  /\ pc[w] = "gate"
  /\ \/ settings.oom /\ ReplyErr(w, "ENOMEM")
     \/ GateError(req[w]) # "0" /\ ReplyErr(w, GateError(req[w]))
  /\ kernel' = IF req[w].op = "INIT" THEN [kernel EXCEPT !.phase = "refused"] ELSE kernel
  /\ UNCHANGED <<gotInit, conn, notifyList, fs, forgotten>>

Admit(w) ==
  /\ GateError(req[w]) = "0"
  /\ Goes(w, "gate", "dispatch")
  /\ list' = list \cup {req[w].unique}
  /\ UNCHANGED <<kernelVars, gotInit, gotDestroy, conn, notifyCtr, notifyList, req,
                 sender, fs, forgotten, settings>>

-----------------------------------------------------------------------------
(* What the handlers do_* make of the structures of a request.             *)

(* Where the name or the data begins that follows the structure.           *)
DataAt(op) ==
  CASE op = "MKNOD" -> IF conn.minor >= 12 THEN 16 ELSE 8
    [] op = "CREATE" -> IF conn.minor >= 12 THEN 16 ELSE 8
    [] op = "WRITE" -> IF conn.minor < 9 THEN 24 ELSE 40
    [] op \in {"MKDIR", "RENAME", "LINK", "SETXATTR", "GETXATTR", "BATCH_FORGET"} -> 8
    [] op \in NameOps -> 0
    [] op = "IOCTL" -> 32
    [] OTHER -> 40

HasData(op) == op \in NameOps \cup {"MKNOD", "CREATE", "WRITE", "MKDIR", "RENAME", "LINK", "SETXATTR",
                                   "GETXATTR", "BATCH_FORGET", "IOCTL", "NOTIFY_REPLY"}

(* How far the handlers read into the structure: of requests about a node, *)
(* an open file, an open directory, a lock, and the rest.                  *)
ReadsOfNode(op) ==
  CASE op = "GETATTR" -> IF conn.minor >= 9 THEN 16 ELSE 0
    [] op = "SETATTR" -> 84
    [] op \in {"MKNOD", "CREATE"} -> IF conn.minor >= 12 THEN 12 ELSE 8
    [] op = "MKDIR" -> IF conn.minor >= 12 THEN 8 ELSE 4
    [] op \in {"FORGET", "RENAME", "LINK", "SETXATTR"} -> 8
    [] op \in {"ACCESS", "BATCH_FORGET", "GETXATTR", "LISTXATTR"} -> 4
    [] OTHER -> 0

ReadsOfFile(op) ==
  CASE op = "OPEN" -> 4
    [] op = "READ" -> IF conn.minor >= 9 THEN 36 ELSE 20
    [] op = "WRITE" -> IF conn.minor >= 9 THEN 36 ELSE 24
    [] op = "FLUSH" -> IF conn.minor >= 7 THEN 24 ELSE 8
    [] op = "RELEASE" -> IF conn.minor >= 8 THEN 24 ELSE 16
    [] op = "FSYNC" -> 12
    [] OTHER -> 0

ReadsOfDirectory(op) ==
  CASE op = "OPENDIR" -> 4
    [] op = "READDIR" -> 20
    [] op \in {"RELEASEDIR", "FSYNCDIR"} -> 12
    [] OTHER -> 0

ReadsOfLock(op) == IF op = "GETLK" THEN 40 ELSE IF op \in LockOps THEN 44 ELSE 0

ReadsOfOther(op) ==
  CASE op = "BMAP" -> 12
    [] op = "IOCTL" -> 32
    [] op = "POLL" -> 20
    [] op = "FALLOCATE" -> 28
    [] op = "NOTIFY_REPLY" -> 20
    [] OTHER -> 0

(* One of them concerns op.                                                *)
ReadsTo(op) == ReadsOfNode(op) + ReadsOfFile(op) + ReadsOfDirectory(op) + ReadsOfLock(op)
                 + ReadsOfOther(op)

CalleeNoLoop(m) ==
  CASE m.op = "WRITE" -> IF "WRITE_BUF" \in settings.ops THEN "WRITE_BUF" ELSE "WRITE"
    [] m.op \in {"SETLK", "SETLKW"} -> IF "FLOCK" \in m.flags THEN "FLOCK" ELSE "SETLK"
    [] m.op = "BATCH_FORGET" -> "FORGET_MULTI"
    [] OTHER -> m.op

(* The operation of the file system that serves a request.                 *)
Callee(m) ==
  CASE m.op = "WRITE" -> IF "WRITE_BUF" \in settings.ops THEN "WRITE_BUF" ELSE "WRITE"
    [] m.op \in {"SETLK", "SETLKW"} -> IF "FLOCK" \in m.flags THEN "FLOCK" ELSE "SETLK"
    [] m.op = "BATCH_FORGET" -> IF "FORGET_MULTI" \in settings.ops THEN "FORGET_MULTI" ELSE "FORGET"
    [] OTHER -> m.op

(* The answer when the file system leaves the operation out.               *)
Missing(op) ==
  CASE op \in {"OPEN", "OPENDIR"} -> Answer("0", OpenOut, FALSE)
    [] op \in {"RELEASE", "RELEASEDIR"} -> Answer("0", 0, FALSE)
    [] op = "STATFS" -> Answer("0", StatfsSize, FALSE)
    [] OTHER -> Answer("ENOSYS", 0, FALSE)

Plain(m) == m.op \notin Unanswered \cup {"INIT", "DESTROY"}

(* do_ioctl refuses directories unless the file system wants them.         *)
NoDirectory(m) == m.op = "IOCTL" /\ "DIR" \in m.flags /\ "IOCTL_DIR" \notin conn.want

LeftOut(w) ==
  LET m == req[w]
  IN  /\ pc[w] = "dispatch" /\ Plain(m)
      /\ \/ NoDirectory(m) /\ ReplyErr(w, "ENOTTY")
         \/ ~NoDirectory(m) /\ Callee(m) \notin settings.ops /\ Writes(w, Missing(m.op))
         \/ /\ settings.oom /\ m.op = "POLL" /\ m.flags # {} /\ "POLL" \in settings.ops
            /\ ReplyErr(w, "ENOMEM")
      /\ UNCHANGED <<kernel, gotInit, conn, notifyList, fs, forgotten>>

Call(w) ==
  LET m == req[w]
  IN  /\ Plain(m) /\ ~NoDirectory(m) /\ Callee(m) \in settings.ops
      /\ Goes(w, "dispatch", "call")
      /\ UNCHANGED <<kernelVars, llVars, req, sender, fs, forgotten, settings>>

FsReplies(w) ==
  /\ pc[w] = "call"
  /\ \/ \E a \in FsAnswers(req[w]) : Writes(w, a)
     \/ \E error \in {"bad", "ENOENT"} : ReplyErr(w, error)
  /\ UNCHANGED <<kernel, gotInit, conn, notifyList, fs, forgotten>>

(* do_forget and do_batch_forget.  Without forget_multi each reference     *)
(* takes a request object of its own; the loop ends when there is none.    *)
Forget(w) ==
  LET m == req[w]
      all == IF Callee(m) \in settings.ops THEN m.count ELSE 0
  IN  /\ pc[w] = "dispatch" /\ m.op \in ForgetOps
      /\ ReplyNone(w)
      /\ \E done \in 0..all :
           /\ done < all => settings.oom /\ m.op = "BATCH_FORGET" /\ Callee(m) = "FORGET"
           /\ forgotten' = [forgotten EXCEPT !.done = @ + done]
      /\ UNCHANGED <<kernel, gotInit, conn, notifyList, fs>>

-----------------------------------------------------------------------------
(* INIT and DESTROY.                                                       *)

Splice == {"SPLICE_WRITE", "SPLICE_MOVE", "SPLICE_READ"}

(* What options ask for, and what the operations of the file system imply. *)
Wanted(minor) ==
  (settings.with \ (IF minor >= 14 THEN {} ELSE Splice)) \cup
  (((IF {"GETLK", "SETLK"} \subseteq settings.ops THEN {"POSIX_LOCKS"} ELSE {})
    \cup (IF "FLOCK" \in settings.ops THEN {"FLOCK_LOCKS"} ELSE {})) \ settings.without)

(* op.init may want more or less, but no splice against the options.       *)
MayWant ==
  {want \ (settings.without \cap Splice) :
     want \in IF "INIT" \in settings.ops THEN {conn.want, {}, Caps} ELSE {conn.want}}

(* FUSE_MIN_READ_BUFFER, and room for the header of a write.               *)
MaxWrite ==
  LET room == (IF settings.bufsize < 8192 THEN 8192 ELSE settings.bufsize) - 4096
  IN  IF room < conn.maxWrite THEN room ELSE conn.maxWrite

BackgroundUpTo(minor) ==
  IF minor >= 13 /\ conn.background > 2^16 THEN 2^16 - 1 ELSE conn.background

(* Both go out as 16-bit numbers.                                          *)
Background(minor) ==
  IF minor >= 13 /\ conn.background >= 2^16 THEN 2^16 - 1 ELSE conn.background
Threshold(minor) ==
  IF minor < 13 THEN conn.threshold ELSE
  IF conn.threshold > Background(minor) THEN Background(minor) ELSE
  IF conn.threshold = 0 THEN (Background(minor) * 3) \div 4 ELSE conn.threshold

(* What the kernel makes of the answer to INIT.                            *)
KernelLearns(a, flags) ==
  kernel' \in
    IF a.error # "0" \/ a.size # (IF kernel.major > 7 THEN InitOut(Minor) ELSE InitOut(Version))
    THEN {[kernel EXCEPT !.phase = "refused"]} ELSE
    IF kernel.major > 7 THEN [phase : {"new"}, major : {7}, minor : settings.kernels, flags : {{}}]
    ELSE {[kernel EXCEPT !.phase = "up", !.flags = flags]}

(* do_init up to the call of op.init.  A version above 7 is answered with  *)
(* our own, and the kernel starts again.                                   *)
OtherMajor(w) ==
  /\ pc[w] = "dispatch" /\ req[w].op = "INIT"
  /\ conn' = [conn EXCEPT !.minor = kernel.minor, !.want = {}]
  /\ \/ /\ kernel.major < 7
        /\ ReplyErr(w, "EPROTO")
        /\ KernelLearns(Answer("EPROTO", 0, FALSE), {})
     \/ /\ kernel.major > 7
        /\ Writes(w, Answer("0", 24, FALSE))
        /\ KernelLearns(Answer("0", 24, FALSE), {})
  /\ UNCHANGED <<gotInit, notifyList, fs, forgotten>>

Negotiate(w) ==
  /\ req[w].op = "INIT" /\ kernel.major = 7
  /\ Goes(w, "dispatch", "opinit")
  /\ gotInit' = TRUE
  /\ conn' = [minor |-> kernel.minor, want |-> Wanted(kernel.minor),
              maxWrite |-> MaxWrite, background |-> conn.background, threshold |-> conn.threshold]
  /\ UNCHANGED <<kernelVars, gotDestroy, list, notifyCtr, notifyList, req, sender, fs,
                 forgotten, settings>>

InitAnswer == Answer("0", IF conn.minor < 5 THEN 8 ELSE 24, FALSE)

(* op.init returns, and the answer goes out.                               *)
InitReplies(w) ==
  /\ pc[w] = "opinit"
  /\ fs' = [fs EXCEPT !.inits = @ + (IF "INIT" \in settings.ops THEN 1 ELSE 0)]
  /\ \E want \in MayWant :
       /\ conn' = [conn EXCEPT !.want = want, !.background = Background(conn.minor),
                               !.threshold = Threshold(conn.minor)]
       /\ KernelLearns(InitAnswer, want \ (Splice \cup {"IOCTL_DIR"}))
  /\ Writes(w, InitAnswer)
  /\ UNCHANGED <<gotInit, notifyList, forgotten>>

Destroy(w) ==
  /\ req[w].op = "DESTROY"
  /\ Goes(w, "dispatch", "opdestroy")
  /\ gotDestroy' = TRUE
  /\ UNCHANGED <<kernelVars, gotInit, conn, list, notifyCtr, notifyList, req, sender, fs,
                 forgotten, settings>>

DestroyOnce == [fs EXCEPT !.destroys = @ + (IF "DESTROY" \in settings.ops THEN 1 ELSE 0)]

DestroyReplies(w) ==
  /\ pc[w] = "opdestroy"
  /\ fs' = DestroyOnce
  /\ Writes(w, Answer("0", 0, FALSE))
  /\ UNCHANGED <<kernel, gotInit, conn, notifyList, forgotten>>

(* fuse_ll_destroy calls op.destroy if DESTROY did not.                    *)
DestroyAnyway == gotInit
DestroyDue == gotInit /\ ~gotDestroy

(* The loop has ended, for whatever reason: fuse_session_destroy.  The     *)
(* kernel gives up what still waits.                                       *)
EndSession ==
  /\ kernel.phase # "gone" /\ sender = "idle" /\ \A w \in Workers : pc[w] = "idle"
  /\ kernel' = [kernel EXCEPT !.phase = "gone"]
  /\ inbox' = {} /\ waiting' = {}
  /\ fs' = IF DestroyDue THEN DestroyOnce ELSE fs
  /\ UNCHANGED <<sent, confused, llVars, workerVars, sender, forgotten, settings>>

-----------------------------------------------------------------------------
(* Notifications, sent by a thread of the file system.                     *)

(* The versions that know a notification, as the code asks for them.       *)
NotifySince(code) ==
  IF code = "DELETE" THEN 18 ELSE IF code \in {"STORE", "RETRIEVE"} THEN 15 ELSE 0

(* What a kernel on the other side understands. The code asks for no       *)
(* version before it sends POLL, INVAL_INODE and INVAL_ENTRY, which an     *)
(* older kernel refuses.                                                   *)
Unchecked == {"POLL", "INVAL_INODE", "INVAL_ENTRY"}
Understands(code) ==
  kernel.phase = "up" => Version >= KnownSince(code) \/ code \in Unchecked

(* fuse_lowlevel_notify_*: all but STORE go through send_notify_iov.       *)
Notify(code) ==
  /\ sender = "idle" /\ kernel.phase # "gone" /\ code # "RETRIEVE"
  /\ conn.minor >= NotifySince(code)
  /\ gotInit \/ code = "STORE"
  /\ confused' = (confused \/ ~Understands(code))
  /\ UNCHANGED <<kernel, inbox, waiting, sent, llVars, workerVars, sender, fs, forgotten, settings>>

(* The request for data gets a number and is listed before it is sent.     *)
Retrieve ==
  /\ sender = "idle" /\ kernel.phase # "gone" /\ notifyCtr < MaxRetrieves
  /\ conn.minor >= NotifySince("RETRIEVE")
  /\ notifyCtr' = notifyCtr + 1
  /\ notifyList' = notifyList \cup {notifyCtr + 1}
  /\ sender' = "listed"
  /\ UNCHANGED <<kernelVars, gotInit, gotDestroy, conn, list, workerVars, fs, forgotten, settings>>

(* The kernel knows the code and the inode and answers with a request, or  *)
(* refuses: after a second INIT the version may be an older one.           *)
SendRetrieve ==
  /\ sender = "listed"
  /\ \/ /\ gotInit /\ kernel.phase = "up" /\ Understands("RETRIEVE")
        /\ inbox' = inbox \cup {[unique |-> notifyCtr, op |-> "NOTIFY_REPLY", uid |-> "root",
                                 flags |-> {}, count |-> 0]}
        /\ sender' = "idle"
     \/ sender' = "failed" /\ UNCHANGED inbox
  /\ UNCHANGED <<kernel, waiting, sent, confused, llVars, workerVars, fs, forgotten, settings>>

UndoNothing ==
  /\ sender = "failed"
  /\ sender' = "idle"
  /\ UNCHANGED <<kernelVars, llVars, workerVars, fs, forgotten, settings>>

UndoRetrieve ==
  /\ sender = "failed"
  /\ sender' = "idle"
  /\ notifyList' = notifyList \ {notifyCtr}
  /\ UNCHANGED <<kernelVars, gotInit, gotDestroy, conn, list, notifyCtr, workerVars, fs,
                 forgotten, settings>>

(* do_notify_reply: a reply that finds its request takes it off the list;  *)
(* one that does not is dropped, and stays on f->list.                     *)
NotifyReply(w) ==
  LET u == req[w].unique
  IN  /\ req[w].op = "NOTIFY_REPLY"
      /\ Goes(w, "dispatch", IF u \in notifyList THEN "retrieved" ELSE "idle")
      /\ notifyList' = notifyList \ {u}
      /\ req' = IF u \in notifyList THEN req ELSE [req EXCEPT ![w] = NoMessage]
      /\ UNCHANGED <<kernelVars, gotInit, gotDestroy, conn, list, notifyCtr, sender,
                     fs, forgotten, settings>>

(* fuse_ll_retrieve_reply and the file system's retrieve_reply.            *)
Retrieved(w) ==
  /\ pc[w] = "retrieved"
  /\ ReplyNone(w)
  /\ UNCHANGED <<kernel, gotInit, conn, notifyList, fs, forgotten>>

-----------------------------------------------------------------------------
KernelStep == SendInit \/ SendRequest \/ SendForget \/ SendDestroy

WorkerStep(w) ==
  \/ Read(w) \/ Refuse(w) \/ Admit(w) \/ LeftOut(w) \/ Call(w) \/ FsReplies(w) \/ Forget(w)
  \/ OtherMajor(w) \/ Negotiate(w) \/ InitReplies(w) \/ Destroy(w) \/ DestroyReplies(w)
  \/ NotifyReply(w) \/ Retrieved(w)

NotifyStep ==
  \/ \E code \in Codes : Notify(code)
  \/ Retrieve \/ SendRetrieve \/ UndoRetrieve

Next == KernelStep \/ (\E w \in Workers : WorkerStep(w)) \/ NotifyStep \/ EndSession

Spec == Init /\ [][Next]_vars

-----------------------------------------------------------------------------
(* Properties.                                                             *)

TypeOK ==
  /\ kernel \in [phase : Phases, major : Nat, minor : Nat, flags : SUBSET Caps]
  /\ inbox \subseteq [unique : Numbers, op : Opcodes, uid : Uids, flags : SUBSET Flags, count : 0..2]
  /\ waiting \subseteq sent /\ sent \subseteq Uniques
  /\ gotInit \in BOOLEAN /\ gotDestroy \in BOOLEAN /\ confused \in BOOLEAN
  /\ conn \in [minor : Nat, want : SUBSET Caps, maxWrite : Nat, background : Nat, threshold : Nat]
  /\ list \subseteq Numbers /\ notifyCtr \in 0..MaxRetrieves /\ notifyList \subseteq 1..notifyCtr
  /\ pc \in [Workers -> PCs]
  /\ \A w \in Workers : pc[w] # "idle" => req[w].unique \in Numbers
  /\ sender \in {"idle", "listed", "failed"}
  /\ fs.inits \in Nat /\ fs.destroys \in Nat

UniquesOf(ms) == {m.unique : m \in ms}
Answerable(ms) == {m \in ms : m.op \notin Unanswered}

(* Every request that waits for its answer is in exactly one place, the    *)
(* channel or a worker: none that is read into memory is dropped by a      *)
(* handler or an error path without an answer, none is answered twice; and *)
(* a request that no worker serves is not left on f->list.                 *)
OneAnswer ==
  /\ waiting = UniquesOf(Answerable(inbox \cup Served))
  /\ UniquesOf(inbox) \cap UniquesOf(Served) = {}
  /\ \A m1, m2 \in inbox : m1.unique = m2.unique => m1 = m2
  /\ \A v, w \in Workers : Serves(v) /\ Serves(w) /\ req[v].unique = req[w].unique => v = w
  /\ list = {req[w].unique : w \in {v \in Workers : Serves(v) /\ pc[v] # "gate"}}

(* References the kernel gives back reach a file system that has forget,   *)
(* one for one, in single and in batched forgets.                          *)
Counted(ms) == MapThenSumSet(LAMBDA m : m.count, ms)
ForgetsArrive ==
  kernel.phase # "gone" /\ ~settings.oom /\ "FORGET" \in settings.ops =>
    forgotten.sent = forgotten.done + Counted(inbox \cup Served)

(* lk_flags was added in 7.9; do_setlk_common reads them for all versions. *)
ReadsBeyond(op) == op \in {"SETLK", "SETLKW"} /\ Version < 9

(* Both sides lay out a message of the version agreed on in the same way:  *)
(* the handler finds names and data where the kernel puts them, reads no   *)
(* further than the structure the kernel sends, and answers and notifies   *)
(* with what the kernel expects; the guards of the notifications ask for   *)
(* the versions of the header's changelog, where they ask.                 *)
SpeaksVersion ==
  /\ ~confused
  /\ \A w \in Workers :
       LET op == req[w].op
       IN  pc[w] = "dispatch" /\ op # "INIT" =>
             /\ HasData(op) => DataAt(op) = InSize(op, Version)
             /\ ReadsTo(op) <= InSize(op, Version) \/ ReadsBeyond(op)

(* fuse_kernel.h has the library fall back to an older major version of    *)
(* the kernel; do_init refuses it.                                         *)
Older == kernel.major < Major

(* A negotiation succeeds, in one round or two, unless memory runs out;    *)
(* then both sides use the same version, a write fits into the buffer of   *)
(* the channel, and the tunables fit into their 16 bits. The one exception *)
(* is an older major version, which the header's rules would have succeed: *)
(* it is refused, and no session starts with it.                           *)
Agreed ==
  /\ kernel.phase = "refused" => Older \/ settings.oom
  /\ Older => ~gotInit /\ kernel.phase \notin {"up", "destroying"}
  /\ kernel.phase \in {"up", "destroying"} =>
       /\ gotInit /\ kernel.major = Major /\ conn.minor = kernel.minor
       /\ settings.bufsize >= 8192 =>
            conn.maxWrite + HeaderIn + InSize("WRITE", Version) <= settings.bufsize
       /\ Version >= 13 => conn.background < 2^16 /\ conn.threshold <= conn.background
       /\ conn.want \cap settings.without \cap Splice = {}
       /\ Version < 14 => conn.want \cap Splice = {} \/ "INIT" \in settings.ops

(* The operations the kernel does not wait for: forget, forget_multi and   *)
(* retrieve_reply, called or about to be.                                  *)
CallsUnanswered(w) == pc[w] = "retrieved" \/ (pc[w] = "dispatch" /\ req[w].op \in ForgetOps)

(* The file system lives between one op.init and one op.destroy: no        *)
(* operation is called before op.init has returned, none that is answered  *)
(* after op.destroy has begun, and a session that got INIT calls destroy   *)
(* exactly once, whether the kernel sends DESTROY or not. The kernel sends *)
(* DESTROY while forgets and replies to retrieves may be on their way, and *)
(* with a second worker these operations do come after op.destroy.         *)
FsLifetime ==
  /\ fs.inits <= 1 /\ fs.destroys <= 1
  /\ \A w \in Workers :
       /\ pc[w] = "call" \/ CallsUnanswered(w) => gotInit /\ \A v \in Workers : pc[v] # "opinit"
       /\ pc[w] = "call" => ~gotDestroy
       /\ pc[w] = "opinit" => fs.inits = 0
  /\ kernel.phase = "up" /\ "INIT" \in settings.ops => fs.inits = 1
  /\ kernel.phase = "gone" =>
       fs.destroys = IF gotInit /\ "DESTROY" \in settings.ops THEN 1 ELSE 0

(* A reply to a retrieve notification always finds the request it is for:  *)
(* that is listed before the notification is sent and taken off by one     *)
(* reply, or by the failed sender, never by both.  None stays on the list, *)
(* unless process_buf had no memory for the reply.                         *)
Replies == {m \in inbox \cup {req[w] : w \in {v \in Workers : pc[v] \in {"gate", "dispatch"}}} :
              m.op = "NOTIFY_REPLY"}
Expected == UniquesOf(Replies) \cup (IF sender = "idle" THEN {} ELSE {notifyCtr})
RetrieveMatched ==
  kernel.phase # "gone" =>
    /\ Expected \subseteq notifyList
    /\ notifyList \subseteq Expected \/ settings.oom
    /\ sender # "idle" => notifyCtr \notin UniquesOf(Replies)
=============================================================================
