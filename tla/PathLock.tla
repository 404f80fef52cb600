------------------------------ MODULE PathLock ------------------------------
(***************************************************************************)
(* The tree lock of lib/fuse.c: node->treelock, the queue fuse->lockq of   *)
(* requests that could not lock their path, and the requests that use them *)
(* while others rename, remove, create and forget nodes of the same tree.  *)
(*                                                                         *)
(* Every action is one critical section of fuse->lock, except the pass of  *)
(* wake_up_queued over the queue, which is one action per element: scan is *)
(* the position of the pass, and while it is not 0 the mutex is taken.     *)
(***************************************************************************)
EXTENDS NodeTree, SequencesExt

CONSTANTS
  Threads,       (* worker threads, each serving one request at a time     *)
  WaitOffset,    (* TREELOCK_WAIT_OFFSET, INT_MIN in the code              *)
  Ops,           (* the kinds of request the kernel sends                  *)
  Requested,     (* the nodes the kernel names in its requests             *)
  Directories,   (* those of them that have entries                        *)
  OutOfMemory,   (* those for which add_name can run out of memory         *)
  BackingChanges,(* whether entries can vanish behind the mount's back, so *)
                 (* that the kernel finds no entry where a node still is   *)
  InitParent, InitName, InitLookup   (* the tree earlier lookups left      *)

TREELOCK_WRITE == -1

PathOps    == {"getattr", "open"}            (* lock the path of a node    *)
NameOps    == {"lookup", "create", "unlink"} (* lock the path of an entry  *)
PathPairOps == {"rename", "link"}            (* lock two paths             *)
WriteOnUnlink == {"unlink"}
WriteOps   == {"unlink", "rename"}           (* lock the entry's own node  *)
EarlyReply == {"open", "create"}             (* answer before free_path    *)

ASSUME PathLockAssumption ==
  /\ IsFiniteSet(Threads)
  /\ WaitOffset \in Int
  /\ WaitOffset + 2 * Cardinality(Threads) < TREELOCK_WRITE
  /\ Ops \subseteq PathOps \cup NameOps \cup PathPairOps \cup {"forget"}
  /\ Requested \subseteq Nodes /\ Directories \subseteq Requested
  /\ OutOfMemory \subseteq Ops /\ BackingChanges \in BOOLEAN

(* A tree that lookups can leave behind: no cycle, the root looked up and  *)
(* at the top, one node per entry, and nothing that is not looked up.      *)
ASSUME InitTreeAssumption ==
  /\ InitParent \in [Nodes -> Nodes \cup {NoNode}]
  /\ InitName \in [Nodes -> Names \cup {NoName}]
  /\ InitLookup \in [Nodes -> Nat]
  /\ \A S \in SUBSET Nodes :
       S # {} /\ (\A n \in S : InitParent[n] # NoNode => InitParent[n] \in S)
         => \E n \in S : InitParent[n] = NoNode
  /\ InitParent[Root] = NoNode /\ InitLookup[Root] > 0
  /\ \A n \in Nodes : InitLookup[n] = 0 \/ InitName[n] = NoName => InitParent[n] = NoNode
  /\ \A m, n \in Nodes :
       InitParent[m] # NoNode /\ InitParent[m] = InitParent[n] /\ InitName[m] = InitName[n]
         => m = n

VARIABLES
  treelock,  (* node->treelock: readers, TREELOCK_WRITE, or readers with   *)
             (* WaitOffset added while a writer waits for them to go       *)
  lockq,     (* fuse->lockq, the threads whose element is queued, in order *)
  scan,      (* position of the running wake_up_queued pass, 0 if none     *)
  pc,        (* what each thread is doing with its request                 *)
  req,       (* the request each thread serves                             *)
  hold,      (* <<t, i>>: is path i of t's request locked                  *)
  wnode,     (* <<t, i>>: the node write-locked with it, *wnodep           *)
  path,      (* <<t, i>>: the path string handed to the file system        *)
  done,      (* element of t: done, or a forget waiter's signal            *)
  err        (* element of t: err                                          *)

lockVars == <<treelock, lockq, scan, hold, wnode, path, done, err>>
vars == <<treeVars, lockVars, pc, req>>

Handles == Threads \X {1, 2}

Request ==
  [op : Ops \cup {"none"}, ino1 : Nodes \cup {NoNode}, name1 : Names \cup {NoName},
   ino2 : Nodes \cup {NoNode}, name2 : Names \cup {NoName}, count : Nat]

NoRequest == [op |-> "none", ino1 |-> NoNode, name1 |-> NoName,
              ino2 |-> NoNode, name2 |-> NoName, count |-> 0]

NoPath == [m \in {} |-> NoName]

Init ==
  /\ parent = InitParent /\ name = InitName /\ nlookup = InitLookup
  /\ treelock = [n \in Nodes |-> 0]
  /\ lockq = << >> /\ scan = 0
  /\ pc = [t \in Threads |-> "idle"]
  /\ req = [t \in Threads |-> NoRequest]
  /\ hold = [h \in Handles |-> FALSE]
  /\ wnode = [h \in Handles |-> NoNode]
  /\ path = [h \in Handles |-> NoPath]
  /\ done = [t \in Threads |-> FALSE]
  /\ err = [t \in Threads |-> "ok"]

-----------------------------------------------------------------------------
(* Locking and unlocking one path.  tl stands for node->treelock, so that  *)
(* a handler can lock or unlock several paths in one critical section.     *)

(* A count that returns to WaitOffset has no reader left: the node is free *)
(* for the writer that waits for it.                                       *)
DecKeepsOffset(k) == k - 1

Dec(k) == IF k - 1 = WaitOffset THEN 0 ELSE k - 1

UnlockPath(tl, n, w) ==
  LET walk == Path(n)
  IN  [m \in Nodes |-> CASE m = w -> 0
                         [] m # w /\ m \in walk -> Dec(tl[m])
                         [] OTHER -> tl[m]]

LockPath(tl, n, w) ==
  LET walk == Path(n)
  IN  [m \in Nodes |-> CASE m = w -> TREELOCK_WRITE
                         [] m # w /\ m \in walk -> tl[m] + 1
                         [] OTHER -> tl[m]]

(* try_get_path with need_lock.  When it fails its unlock_path takes back  *)
(* every lock it took on the way, so a failure changes at most the entry's *)
(* own node, where the writer announces itself to the readers.             *)
AnnounceNothing(tl, w) == tl

Announce(tl, w) == [tl EXCEPT ![w] = IF @ > 0 THEN @ + WaitOffset ELSE @]

BusyUnlessRead(tl, w) == w # NoNode /\ tl[w] < 0

Busy(tl, w) == w # NoNode /\ tl[w] # 0

(* A node without a name ends the walk before its lock is looked at.       *)
Blocked(tl, n) == \E m \in Path(n) : parent[m] # NoNode /\ tl[m] < 0

Failure(e, tl) == [err |-> e, tl |-> tl, w |-> NoNode, p |-> NoPath]

TryGetPath(tl, n, nm, write) ==
  LET w == IF write THEN LookupNode(n, nm) ELSE NoNode
  IN  {CASE Busy(tl, w) -> Failure("EAGAIN", Announce(tl, w))
         [] ~Busy(tl, w) /\ Blocked(tl, n) -> Failure("EAGAIN", tl)
         [] ~Busy(tl, w) /\ ~Blocked(tl, n) /\ ~Attached(n) -> Failure("ENOENT", tl)
         [] OTHER -> [err |-> "ok", tl |-> LockPath(tl, n, w), w |-> w, p |-> PathNames(n)]}

(* The two paths of request r; a request with one path has no ino2.        *)
HasSecond(r) == r.ino2 # NoNode
Ino(r, i) == IF i = 1 THEN r.ino1 ELSE r.ino2
Entry(r, i) == IF i = 1 THEN r.name1 ELSE r.name2

TryPath(tl, r, i) ==
  TryGetPath(tl, Ino(r, i), Entry(r, i), r.op \in WriteOps)
    \cup (IF r.op \in OutOfMemory THEN {Failure("ENOMEM", tl)} ELSE {})

(* What a thread keeps of outcome o of path i: its lock, node and string.  *)
NotHeld == [err |-> "none", tl |-> << >>, w |-> NoNode, p |-> NoPath]

SetHandles(t, o1, o2) ==
  /\ hold' = [hold EXCEPT ![<<t, 1>>] = (o1.err = "ok"), ![<<t, 2>>] = (o2.err = "ok")]
  /\ wnode' = [wnode EXCEPT ![<<t, 1>>] = o1.w, ![<<t, 2>>] = o2.w]
  /\ path' = [path EXCEPT ![<<t, 1>>] = o1.p, ![<<t, 2>>] = o2.p]

Held(t, i) == [err |-> IF hold[<<t, i>>] THEN "ok" ELSE "none", tl |-> treelock,
               w |-> wnode[<<t, i>>], p |-> path[<<t, i>>]]

Undo(tl, r, i, o) == IF o.err = "ok" THEN UnlockPath(tl, Ino(r, i), o.w) ELSE tl

-----------------------------------------------------------------------------
(* get_path_common and get_path2: try, and queue the request on EAGAIN.    *)

Grant(t, r, o1, o2, tl) ==
  /\ treelock' = tl
  /\ SetHandles(t, o1, o2)
  /\ pc' = [pc EXCEPT ![t] = "locked"]
  /\ req' = [req EXCEPT ![t] = r]
  /\ UNCHANGED <<lockq, done, err>>

(* queue_path, then wait_path blocks on the element's condition.           *)
QueuePath(t, r, tl) ==
  /\ treelock' = tl
  /\ lockq' = Append(lockq, t)
  /\ done' = [done EXCEPT ![t] = FALSE]
  /\ err' = [err EXCEPT ![t] = "ok"]
  /\ pc' = [pc EXCEPT ![t] = "waiting"]
  /\ req' = [req EXCEPT ![t] = r]
  /\ UNCHANGED <<hold, wnode, path>>

(* The request is answered with the error and nothing is locked.           *)
Refuse(t, tl) ==
  /\ treelock' = tl
  /\ UNCHANGED <<lockq, hold, wnode, path, done, err, pc, req>>

GetPath(t, r) ==
  \E o1 \in TryPath(treelock, r, 1) :
    \/ o1.err \notin {"ok", "EAGAIN"} /\ Refuse(t, o1.tl)
    \/ o1.err = "EAGAIN" /\ QueuePath(t, r, o1.tl)
    \/ o1.err = "ok" /\ Grant(t, r, o1, NotHeld, o1.tl)

GetPath2(t, r) ==
  \E o1 \in TryPath(treelock, r, 1) :
    \/ o1.err \notin {"ok", "EAGAIN"} /\ Refuse(t, o1.tl)
    \/ o1.err = "EAGAIN" /\ QueuePath(t, r, o1.tl)
    \/ /\ o1.err = "ok"
       /\ \E o2 \in TryPath(o1.tl, r, 2) :
            \/ o2.err \notin {"ok", "EAGAIN"} /\ Refuse(t, Undo(o2.tl, r, 1, o1))
            \/ o2.err = "EAGAIN" /\ QueuePath(t, r, Undo(o2.tl, r, 1, o1))
            \/ o2.err = "ok" /\ Grant(t, r, o1, o2, o2.tl)

-----------------------------------------------------------------------------
(* queue_element_wakeup for the element at position scan of the queue.     *)

TryElement(tl, t, i) ==
  IF hold[<<t, i>>]
  THEN {[Held(t, i) EXCEPT !.tl = tl]}
  ELSE TryPath(tl, req[t], i)

TrySecond(tl, t) == IF HasSecond(req[t]) THEN TryElement(tl, t, 2)
                    ELSE {[NotHeld EXCEPT !.tl = tl]}

(* done: the element is answered with e.                                   *)
Answer(t, e) ==
  /\ done' = [done EXCEPT ![t] = TRUE]
  /\ err' = [err EXCEPT ![t] = e]

KeepPartial(t, o1, o2, tl) ==
  /\ UNCHANGED <<done, err>>
  /\ treelock' = tl
  /\ SetHandles(t, o1, o2)

KeepNothing(t, o1, o2, tl) ==
  /\ UNCHANGED <<done, err>>
  /\ treelock' = Undo(Undo(tl, req[t], 1, o1), req[t], 2, o2)
  /\ SetHandles(t, NotHeld, NotHeld)

(* Only the first element may keep one path locked while it waits for the  *)
(* other.                                                                  *)
KeepTrying(t, o1, o2, tl) ==
  IF t = lockq[1] THEN KeepPartial(t, o1, o2, tl) ELSE KeepNothing(t, o1, o2, tl)

GiveUp(t, o1, o2, tl, e) ==
  /\ treelock' = Undo(Undo(tl, req[t], 1, o1), req[t], 2, o2)
  /\ SetHandles(t, NotHeld, NotHeld)
  /\ Answer(t, e)

WakePath(t) ==
  \E o1 \in TryElement(treelock, t, 1) :
    \/ /\ o1.err \notin {"ok", "EAGAIN"}
       /\ GiveUp(t, o1, Held(t, 2), o1.tl, o1.err)
    \/ /\ o1.err \in {"ok", "EAGAIN"}
       /\ \E o2 \in TrySecond(o1.tl, t) :
            \/ o2.err \notin {"ok", "EAGAIN", "none"} /\ GiveUp(t, o1, o2, o2.tl, o2.err)
            \/ /\ o1.err = "ok" /\ o2.err \in {"ok", "none"}
               /\ treelock' = o2.tl
               /\ SetHandles(t, o1, o2)
               /\ Answer(t, "ok")
            \/ /\ "EAGAIN" \in {o1.err, o2.err} /\ o2.err \in {"ok", "EAGAIN", "none"}
               /\ KeepTrying(t, o1, o2, o2.tl)

(* A forget_node waiter is only told when its node is unlocked.            *)
WakeForget(t) ==
  /\ done' = [done EXCEPT ![t] = @ \/ treelock[req[t].ino1] = 0]
  /\ UNCHANGED <<treelock, hold, wnode, path, err>>

NextElementPastEnd == scan + 1

NextElement == IF scan = Len(lockq) THEN 0 ELSE scan + 1

WakeElement ==
  /\ scan # 0
  /\ LET t == lockq[scan]
     IN  IF req[t].op = "forget" THEN WakeForget(t) ELSE WakePath(t)
  /\ scan' = NextElement
  /\ UNCHANGED <<treeVars, lockq, pc, req>>

-----------------------------------------------------------------------------
(* The thread whose element is done leaves the queue (wait_path).          *)

DequeuePath(t) == \E i \in DOMAIN lockq : lockq[i] = t /\ lockq' = RemoveAt(lockq, i)

Idle(t) ==
  /\ pc' = [pc EXCEPT ![t] = "idle"]
  /\ req' = [req EXCEPT ![t] = NoRequest]

Resume(t) ==
  /\ scan = 0 /\ pc[t] = "waiting" /\ req[t].op # "forget" /\ done[t]
  /\ DequeuePath(t)
  /\ done' = [done EXCEPT ![t] = FALSE]
  /\ err' = [err EXCEPT ![t] = "ok"]
  /\ \/ /\ err[t] = "ok"
        /\ pc' = [pc EXCEPT ![t] = "locked"]
        /\ UNCHANGED <<hold, wnode, path, req>>
     \/ /\ err[t] # "ok"
        /\ Idle(t)
        /\ SetHandles(t, NotHeld, NotHeld)
  /\ UNCHANGED <<treeVars, treelock, scan>>

-----------------------------------------------------------------------------
(* free_path, free_path_wrlock, free_path2: unlock and run the queue.      *)

MayRelease(t) ==
  IF req[t].op \in EarlyReply THEN pc[t] = "replied" ELSE pc[t] \in {"locked", "acted"}

FirstElementSkipped == IF Len(lockq) < 2 THEN 0 ELSE 2

FirstElement == IF lockq = << >> THEN 0 ELSE 1

FreePath(t) ==
  /\ scan = 0 /\ MayRelease(t)
  /\ treelock' = Undo(Undo(treelock, req[t], 1, Held(t, 1)), req[t], 2, Held(t, 2))
  /\ SetHandles(t, NotHeld, NotHeld)
  /\ scan' = FirstElement
  /\ Idle(t)
  /\ UNCHANGED <<treeVars, lockq, done, err>>

-----------------------------------------------------------------------------
(* What the kernel may send (external).  It names nodes it has looked up   *)
(* and not forgotten, keeps every node of an unanswered request, holds the *)
(* mutex of each directory whose entries a request changes, and moves a    *)
(* directory neither below itself nor onto one of its ancestors.           *)

Unanswered == {t \in Threads : pc[t] \in {"waiting", "locked", "acted"}}

Forgetting(n) ==
  {t \in Threads : pc[t] = "waiting" /\ req[t].op = "forget" /\ req[t].ino1 = n}

KernelKnows(n) ==
  \/ n = Root
  \/ nlookup[n] > 0 /\ \A t \in Forgetting(n) : nlookup[n] > req[t].count

(* The node an entry of the request leads to.                              *)
Victim(r, i) == IF Entry(r, i) = NoName THEN NoNode ELSE LookupNode(Ino(r, i), Entry(r, i))

Pins(r) == IF r.op = "forget" THEN {}
           ELSE {r.ino1, r.ino2, Victim(r, 1), Victim(r, 2)} \ {NoNode}

DirMutexes(r) ==
  CASE r.op \in {"lookup", "create"} -> {r.ino1}
    [] r.op = "unlink" -> {r.ino1, Victim(r, 1)}
    [] r.op = "rename" -> {r.ino1, r.ino2, Victim(r, 2)}
    [] r.op = "link" -> {r.ino2}
    [] OTHER -> {}

CrossRename(r) == r.op = "rename" /\ r.ino1 # r.ino2

KernelMaySend(r) ==
  /\ r.op \in Ops
  /\ \A n \in {r.ino1, r.ino2} \ {NoNode} : n \in Requested /\ KernelKnows(n)
  /\ r.name1 # NoName => r.ino1 \in Directories
  /\ r.name2 # NoName => r.ino2 \in Directories
  /\ r.op \in WriteOps => Victim(r, 1) # NoNode /\ KernelKnows(Victim(r, 1))
  /\ r.op = "rename" =>
       /\ <<r.ino1, r.name1>> # <<r.ino2, r.name2>>
       /\ Victim(r, 1) \notin Chain(r.ino2)
       /\ Victim(r, 2) \notin Chain(r.ino1)
       /\ Victim(r, 2) # NoNode /\ ~BackingChanges => KernelKnows(Victim(r, 2))
  /\ \A u \in Unanswered :
       /\ (DirMutexes(req[u]) \cap DirMutexes(r)) \subseteq {NoNode}
       /\ ~(CrossRename(r) /\ CrossRename(req[u]))

-----------------------------------------------------------------------------
(* The handlers, up to the point where they hold their path.               *)

Receive(t, r) ==
  /\ scan = 0 /\ pc[t] = "idle" /\ KernelMaySend(r)
  /\ IF HasSecond(r) THEN GetPath2(t, r) ELSE GetPath(t, r)
  /\ UNCHANGED <<treeVars, scan>>

(* get_path: getattr and the other handlers of one node; open, opendir.    *)
ReceiveNode(t) ==
  \E op \in PathOps, n \in Nodes :
    Receive(t, [NoRequest EXCEPT !.op = op, !.ino1 = n])

(* get_path_name and get_path_wrlock: lookup and mknod, mkdir, symlink;    *)
(* create; unlink and rmdir.                                               *)
ReceiveEntry(t) ==
  \E op \in NameOps, p \in Nodes, nm \in Names :
    Receive(t, [NoRequest EXCEPT !.op = op, !.ino1 = p, !.name1 = nm])

ReceiveRename(t) ==
  \E p1, p2 \in Nodes, nm1, nm2 \in Names :
    Receive(t, [NoRequest EXCEPT !.op = "rename", !.ino1 = p1, !.name1 = nm1,
                                 !.ino2 = p2, !.name2 = nm2])

ReceiveLink(t) ==
  \E n, p \in Nodes, nm \in Names :
    Receive(t, [NoRequest EXCEPT !.op = "link", !.ino1 = n, !.ino2 = p, !.name2 = nm])

(* The file system did it: the handler changes the tree to match.  A       *)
(* handler whose file system call fails goes from locked to free_path.     *)
Act(t) ==
  /\ scan = 0 /\ pc[t] = "locked"
  /\ LET r == req[t]
     IN  \/ r.op \in {"lookup", "create"} /\ FindNode(r.ino1, r.name1)
         \/ r.op = "unlink" /\ RemoveNode(r.ino1, r.name1)
         \/ r.op = "unlink" /\ HideNode(r.ino1, r.name1)
         \/ r.op = "link" /\ FindNode(r.ino2, r.name2)
         \/ r.op = "rename" /\ RenameNode(r.ino1, r.name1, r.ino2, r.name2)
  /\ pc' = [pc EXCEPT ![t] = "acted"]
  /\ UNCHANGED <<lockVars, req>>

(* A rename first hides the entry it replaces when it is open; the rename  *)
(* itself may then fail.                                                   *)
Hide(t) ==
  /\ scan = 0 /\ pc[t] = "locked" /\ req[t].op = "rename"
  /\ HideNode(req[t].ino2, req[t].name2)
  /\ UNCHANGED <<lockVars, pc, req>>

(* fuse_reply_open and fuse_reply_create come before free_path.            *)
Reply(t) ==
  /\ pc[t] \in {"locked", "acted"} /\ req[t].op \in EarlyReply
  /\ pc' = [pc EXCEPT ![t] = "replied"]
  /\ UNCHANGED <<treeVars, lockVars, req>>

(* forget_node.  The kernel forgets a node when none of its requests needs *)
(* it, once, and children first; the count misses the lookups that were    *)
(* answered after it gave the node up.                                     *)
KernelMayForget(n) ==
  /\ "forget" \in Ops /\ n \in Requested \ {Root}
  /\ KernelKnows(n) /\ Forgetting(n) = {}
  /\ \A t \in Unanswered : n \notin Pins(req[t])
  /\ \A c \in Nodes \ {n} : n \in Chain(c) => ~KernelKnows(c)

MustWaitNever(n, k) == FALSE

MustWait(n, k) == nlookup[n] = k /\ treelock[n] # 0

ReceiveForget(t) ==
  /\ scan = 0 /\ pc[t] = "idle"
  /\ \E n \in Nodes : \E k \in 1..nlookup[n] :
       /\ KernelMayForget(n)
       /\ \/ /\ MustWait(n, k)
             /\ QueuePath(t, [NoRequest EXCEPT !.op = "forget", !.ino1 = n, !.count = k],
                          treelock)
             /\ UNCHANGED treeVars
          \/ /\ ~MustWait(n, k)
             /\ DropLookups(n, k)
             /\ UNCHANGED <<treelock, lockq, hold, wnode, path, done, err, pc, req>>
  /\ UNCHANGED scan

(* The forget waiter is signalled and looks again.                         *)
ResumeForget(t) ==
  LET n == req[t].ino1
      k == req[t].count
  IN  /\ scan = 0 /\ pc[t] = "waiting" /\ req[t].op = "forget" /\ done[t]
      /\ done' = [done EXCEPT ![t] = FALSE]
      /\ \/ /\ MustWait(n, k)
            /\ UNCHANGED <<treeVars, lockq, pc, req>>
         \/ /\ ~MustWait(n, k)
            /\ DequeuePath(t)
            /\ DropLookups(n, k)
            /\ Idle(t)
      /\ UNCHANGED <<treelock, scan, hold, wnode, path, err>>

Next ==
  \/ WakeElement
  \/ \E t \in Threads :
       \/ ReceiveNode(t) \/ ReceiveEntry(t) \/ ReceiveRename(t) \/ ReceiveLink(t)
       \/ ReceiveForget(t) \/ Act(t) \/ Hide(t) \/ Reply(t) \/ FreePath(t)
       \/ Resume(t) \/ ResumeForget(t)

Spec == Init /\ [][Next]_vars

(* A pass goes on while its thread holds the mutex, a file system call     *)
(* returns, and a thread that wants the mutex gets it in the end although  *)
(* the passes of other threads keep taking it in between.                  *)
Fairness ==
  /\ WF_vars(WakeElement)
  /\ \A t \in Threads : /\ WF_vars(Reply(t))
                        /\ SF_vars(FreePath(t))
                        /\ SF_vars(Resume(t))
                        /\ SF_vars(ResumeForget(t))

FairSpec == Spec /\ Fairness

-----------------------------------------------------------------------------
PathStrings == UNION {[S -> Names \cup Nodes \cup {NoName}] : S \in SUBSET Nodes}

TypeOK ==
  /\ TreeTypeOK
  /\ treelock \in [Nodes -> Int]
  /\ lockq \in Seq(Threads) /\ scan \in 0..Len(lockq)
  /\ pc \in [Threads -> {"idle", "waiting", "locked", "acted", "replied"}]
  /\ req \in [Threads -> Request]
  /\ hold \in [Handles -> BOOLEAN]
  /\ wnode \in [Handles -> Nodes \cup {NoNode}]
  /\ path \in [Handles -> PathStrings]
  /\ done \in [Threads -> BOOLEAN]
  /\ err \in [Threads -> {"ok", "ENOENT", "ENOMEM"}]

(* The paths that hold a read lock on n, and those that hold its write     *)
(* lock.                                                                   *)
HandleIno(h) == Ino(req[h[1]], h[2])
Readers(n) == {h \in Handles : hold[h] /\ n \in Path(HandleIno(h))}
Writers(n) == {h \in Handles : hold[h] /\ wnode[h] = n}

(* treelock is exactly the account of the paths held, so that no assert of *)
(* unlock_path can fail: a writer is alone on its node, and readers are    *)
(* counted one by one, behind WaitOffset or not.  A lock that leaks, is    *)
(* released twice or is released along another path breaks it.             *)
LockAccounting ==
  \A n \in Nodes :
    LET readers == Cardinality(Readers(n))
    IN  \/ treelock[n] = TREELOCK_WRITE /\ readers = 0 /\ Cardinality(Writers(n)) = 1
        \/ treelock[n] = readers /\ Writers(n) = {}
        \/ treelock[n] = readers + WaitOffset /\ readers > 0 /\ Writers(n) = {}

(* While a request holds a path, the string it gave the file system keeps  *)
(* naming the same nodes: nobody renames, removes or deletes any of them.  *)
PathsStay ==
  \A h \in Handles : hold[h] => /\ Attached(HandleIno(h))
                                /\ path[h] = PathNames(HandleIno(h))

(* get_node never aborts: the nodes a request names stay alive until the   *)
(* request ends, even when the kernel forgets them right after the reply.  *)
NodesOutliveRequests ==
  \A t \in Threads : \A n \in {req[t].ino1, req[t].ino2} \ {NoNode} : Alive(n)

(* The assert of delete_node: no node is deleted while a path through it   *)
(* is locked or a writer holds it.                                         *)
DeletedNodesUnlocked == \A n \in Nodes : ~Alive(n) => treelock[n] = 0

(* Of the requests that wait, only the first may hold one of its paths     *)
(* (the comment in queue_element_wakeup).                                  *)
OnlyFirstPartiallyLocked ==
  \A t \in Threads :
    pc[t] = "waiting" /\ ~done[t] /\ (hold[<<t, 1>>] \/ hold[<<t, 2>>])
      => t = lockq[1] /\ HasSecond(req[t])

(* No wake-up is lost: a request left asleep when the mutex is free could  *)
(* not lock its paths if it tried, and a forget waiter's node is locked.   *)
CouldProceed(t) ==
  IF req[t].op = "forget"
  THEN treelock[req[t].ino1] = 0
  ELSE \E o1 \in TryElement(treelock, t, 1) :
         o1.err = "ok" /\ \E o2 \in TrySecond(o1.tl, t) : o2.err \in {"ok", "none"}

NoLostWakeup ==
  scan = 0 => \A t \in Threads : pc[t] = "waiting" /\ ~done[t] => ~CouldProceed(t)

(* The locks a request holds once it has its paths, as LockTable sees them: *)
(* what is locked while it still waits does not count.                     *)
HasPaths(t) == pc[t] \in {"locked", "acted", "replied"}

SharedNodes == [t \in Threads |->
  IF HasPaths(t) THEN DOMAIN path[<<t, 1>>] \cup DOMAIN path[<<t, 2>>] ELSE {}]

ExclusiveNodes == [t \in Threads |->
  IF HasPaths(t) THEN {wnode[<<t, 1>>], wnode[<<t, 2>>]} \ {NoNode} ELSE {}]

Locks == INSTANCE LockTable WITH shared <- SharedNodes, exclusive <- ExclusiveNodes

(* The counters, the queue and its wake-ups implement the table of shared  *)
(* and exclusive locks.                                                    *)
ImplementsLockTable == Locks!Spec

(* Every request that waits for its path is answered in the end.           *)
WaitersAnswered == \A t \in Threads : pc[t] = "waiting" ~> pc[t] # "waiting"
=============================================================================
