------------------------------ MODULE FuseFiles ------------------------------
(***************************************************************************)
(* Open files in lib/fuse.c.  mount.fusedroid opens the backing file anew  *)
(* for every read and write, by its path, so a file that is removed or     *)
(* replaced while it is open has to keep one: hide_node renames it to      *)
(* ".fuse_hidden...", and whoever releases it last unlinks it.             *)
(*                                                                         *)
(* One directory, the root of the mount, is modelled: the backing entries, *)
(* the node of each entry with open_count and is_hidden, the kernel's      *)
(* dentries and handles, and the threads of the daemon, each of which      *)
(* serves one request.  Every critical section of fuse->lock and every     *)
(* call of the file system is an action of its own.  The path lock is taken *)
(* as what LockTable specifies and PathLock implements.                    *)
(***************************************************************************)
EXTENDS Integers, FiniteSets

CONSTANTS
  Threads,      (* the workers that serve requests                         *)
  Nodes,        (* node identities; the root is not one of them            *)
  Names,        (* the entry names users choose                            *)
  HiddenNames,  (* the names hidden_name makes up                          *)
  Files,        (* the files of the backing file system, as inodes         *)
  Handles,      (* the struct file objects of the kernel                   *)
  NoNode, NoName, NoFile, NoHandle,
  Failing,      (* the file system calls that may fail without a reason in *)
                (* the model: "hide" is the rename to a hidden name and    *)
                (* "erase" the unlink of one                               *)
  OpenRaces     (* a file may be opened while its entry is being removed   *)
                (* or replaced                                             *)

Entries == Names \cup HiddenNames
Calls == {"getattr", "mknod", "open", "unlink", "rename", "hide", "erase"}

ASSUME FuseFilesAssumption ==
  /\ IsFiniteSet(Threads) /\ IsFiniteSet(Handles)
  /\ NoNode \notin Nodes /\ NoFile \notin Files /\ NoHandle \notin Handles
  /\ Names \cap HiddenNames = {} /\ NoName \notin Entries
  /\ Failing \subseteq Calls /\ OpenRaces \in BOOLEAN

VARIABLES
  mounted,   (* the session has not ended                                  *)
  dir,       (* the backing directory: which file each entry is            *)
  name,      (* node->name, NoName for a node in no directory              *)
  opens,     (* node->open_count                                           *)
  hidden,    (* node->is_hidden                                            *)
  known,     (* the kernel has looked the node up and not forgotten it     *)
  dentry,    (* the kernel's dentry of each entry                          *)
  hnode,     (* the node each handle of the kernel is for                  *)
  hfile,     (* the file the user has opened with it                       *)
  pc,        (* how far each thread is with its request                    *)
  req,       (* the request                                                *)
  path,      (* the path string the thread got from get_path               *)
  found,     (* the node find_node returned to it                          *)
  got,       (* the file its call of the file system was about             *)
  shared,    (* the nodes it holds read-locked                             *)
  exclusive  (* the nodes it holds write-locked                            *)

kernelVars == <<known, dentry, hnode, hfile>>
nodeVars == <<name, opens, hidden>>
lockVars == <<shared, exclusive>>
vars == <<mounted, dir, nodeVars, kernelVars, pc, req, path, found, got, lockVars>>

DirOps == {"lookup", "mknod", "unlink", "rename"}
FileOps == {"open", "use", "release"}
Ops == DirOps \cup FileOps \cup {"revalidate"}

(* check: before is_open.  hide, hidden: around the rename to a hidden     *)
(* name.  call: before the call of the file system.  table: before the     *)
(* change of the node table.  opened, counted: around open_count++.  drop: *)
(* fuse_do_release of an interrupted open.  erase: before the unlink of a  *)
(* hidden file.  done, failed, refused: about to free the path, or there   *)
(* was none.                                                               *)
PCs == {"idle", "sent", "check", "hide", "hidden", "call", "table", "opened", "counted",
        "drop", "erase", "done", "failed", "refused"}

Request(op, nm, to, n, h) == [op |-> op, nm |-> nm, to |-> to, h |-> h, node |-> n]
None == Request("none", NoName, NoName, NoNode, NoHandle)

TypeOK ==
  /\ mounted \in BOOLEAN
  /\ dir \in [Entries -> Files \cup {NoFile}]
  /\ name \in [Nodes -> Entries \cup {NoName}]
  /\ opens \in [Nodes -> Nat]
  /\ hidden \in [Nodes -> BOOLEAN] /\ known \in [Nodes -> BOOLEAN]
  /\ dentry \in [Entries -> Nodes \cup {NoNode}]
  /\ hnode \in [Handles -> Nodes \cup {NoNode}]
  /\ hfile \in [Handles -> Files \cup {NoFile}]
  /\ pc \in [Threads -> PCs]
  /\ req \in [Threads -> [op : Ops \cup {"none"}, nm : Entries \cup {NoName},
                          to : Entries \cup {NoName}, node : Nodes \cup {NoNode},
                          h : Handles \cup {NoHandle}]]
  /\ path \in [Threads -> Entries \cup {NoName}]
  /\ found \in [Threads -> Nodes \cup {NoNode}]
  /\ got \in [Threads -> Files \cup {NoFile}]
  /\ shared \in [Threads -> SUBSET Nodes] /\ exclusive \in [Threads -> SUBSET Nodes]

(* A fresh mount of a directory with any contents.                         *)
Init ==
  /\ mounted = TRUE
  /\ dir \in [Entries -> Files \cup {NoFile}]
  /\ \A e1, e2 \in Entries : dir[e1] = dir[e2] => e1 = e2 \/ dir[e1] = NoFile
  /\ \A e \in HiddenNames : dir[e] = NoFile
  /\ name = [n \in Nodes |-> NoName]
  /\ opens = [n \in Nodes |-> 0]
  /\ hidden = [n \in Nodes |-> FALSE]
  /\ known = [n \in Nodes |-> FALSE]
  /\ dentry = [e \in Entries |-> NoNode]
  /\ hnode = [h \in Handles |-> NoNode]
  /\ hfile = [h \in Handles |-> NoFile]
  /\ pc = [t \in Threads |-> "idle"]
  /\ req = [t \in Threads |-> None]
  /\ path = [t \in Threads |-> NoName]
  /\ found = [t \in Threads |-> NoNode]
  /\ got = [t \in Threads |-> NoFile]
  /\ shared = [t \in Threads |-> {}]
  /\ exclusive = [t \in Threads |-> {}]

At(t, p) == pc[t] = p
Serves(t, op) == req[t].op = op
Goto(t, p) == pc' = [pc EXCEPT ![t] = p]

-----------------------------------------------------------------------------
(* The kernel.  It holds the mutex of the directory from sending a request *)
(* that looks up or changes an entry until it has the answer.              *)
DirBusy == \E t \in Threads : req[t].op \in DirOps

Send(t, r) ==
  /\ mounted /\ At(t, "idle")
  /\ req' = [req EXCEPT ![t] = r]
  /\ Goto(t, "sent")
  /\ UNCHANGED <<mounted, dir, nodeVars, path, found, got, lockVars>>

SendDir(t, r) == ~DirBusy /\ Send(t, r) /\ UNCHANGED kernelVars

SendLookup(t) ==
  \E nm \in Names :
    /\ dentry[nm] = NoNode
    /\ SendDir(t, Request("lookup", nm, NoName, NoNode, NoHandle))

(* A LOOKUP for a dentry whose time is up; for this one the kernel does not *)
(* hold the mutex.                                                         *)
SendRevalidate(t) ==
  \E nm \in Names :
    /\ dentry[nm] # NoNode
    /\ Send(t, Request("revalidate", nm, NoName, dentry[nm], NoHandle))
    /\ UNCHANGED kernelVars

SendMknod(t) ==
  \E nm \in Names :
    /\ dentry[nm] = NoNode
    /\ SendDir(t, Request("mknod", nm, NoName, NoNode, NoHandle))

(* The kernel does not keep opens apart from removals: an open has been    *)
(* sent for a node, or is sent for a dentry, whose entry goes, or has gone *)
(* in a rename that failed after hiding it.                                *)
Removes(t, e) ==
  \/ Serves(t, "unlink") /\ req[t].nm = e
  \/ Serves(t, "rename") /\ req[t].to = e

MayOpen(e) ==
  \/ OpenRaces
  \/ name[dentry[e]] = e /\ \A t \in Threads : ~Removes(t, e)

MayRemove(e) ==
  OpenRaces \/ \A t \in Threads : Serves(t, "open") => name[req[t].node] # e

SendUnlink(t) ==
  \E nm \in Names :
    /\ dentry[nm] # NoNode /\ MayRemove(nm)
    /\ SendDir(t, Request("unlink", nm, NoName, NoNode, NoHandle))

SendRename(t) ==
  \E nm \in Names : \E to \in Names \ {nm} :
    /\ dentry[nm] # NoNode /\ MayRemove(to)
    /\ SendDir(t, Request("rename", nm, to, NoNode, NoHandle))

(* A struct file is one open: it is not used for two at once.              *)
FreeHandle(h) ==
  /\ hnode[h] = NoNode
  /\ \A t \in Threads : Serves(t, "open") => req[t].h # h

SendOpen(t) ==
  \E e \in Entries, h \in Handles :
    /\ dentry[e] # NoNode /\ FreeHandle(h) /\ MayOpen(e)
    /\ Send(t, Request("open", NoName, NoName, dentry[e], h))
    /\ UNCHANGED kernelVars

(* read, write, fsync, fgetattr, ftruncate: whatever names a handle.       *)
SendUse(t) ==
  \E h \in Handles :
    /\ hnode[h] # NoNode
    /\ Send(t, Request("use", NoName, NoName, hnode[h], h))
    /\ UNCHANGED kernelVars

(* The last close of a handle: nobody is using it any more.                *)
SendRelease(t) ==
  \E h \in Handles :
    /\ hnode[h] # NoNode
    /\ \A u \in Threads : ~(Serves(u, "use") /\ req[u].h = h)
    /\ Send(t, Request("release", NoName, NoName, hnode[h], NoHandle))
    /\ hnode' = [hnode EXCEPT ![h] = NoNode]
    /\ hfile' = [hfile EXCEPT ![h] = NoFile]
    /\ UNCHANGED <<known, dentry>>

-----------------------------------------------------------------------------
(* Nodes.                                                                  *)
LookupNode(e) ==
  IF \E n \in Nodes : name[n] = e
  THEN CHOOSE n \in Nodes : name[n] = e
  ELSE NoNode

(* Looked up by the kernel, or about to be returned to it.                 *)
Alive(n) == known[n] \/ \E t \in Threads : found[t] = n

IsOpen(e) == LookupNode(e) # NoNode /\ opens[LookupNode(e)] > 0

FindNode(t, e) ==
  \E n \in IF LookupNode(e) # NoNode THEN {LookupNode(e)} ELSE {m \in Nodes : ~Alive(m)} :
    /\ found' = [found EXCEPT ![t] = n]
    /\ name' = [name EXCEPT ![n] = e]
    /\ opens' = [opens EXCEPT ![n] = IF Alive(n) THEN @ ELSE 0]
    /\ hidden' = [hidden EXCEPT ![n] = IF Alive(n) THEN @ ELSE FALSE]

RemoveNode(e) ==
  /\ name' = [n \in Nodes |-> IF name[n] = e THEN NoName ELSE name[n]]
  /\ UNCHANGED <<opens, hidden>>

(* rename_node with hide = 0: nothing happens when the old entry has no    *)
(* node.                                                                   *)
RenameNode(e, to) ==
  /\ name' = [n \in Nodes |-> CASE LookupNode(e) = NoNode -> name[n]
                                [] name[n] = e -> to
                                [] name[n] = to -> NoName
                                [] OTHER -> name[n]]
  /\ UNCHANGED <<opens, hidden>>

-----------------------------------------------------------------------------
(* The path lock.                                                          *)
Locks == INSTANCE LockTable WITH Threads <- Threads, Nodes <- Nodes

Lock(t, S, X) ==
  /\ Locks!Compatible(t, S, X)
  /\ shared' = [shared EXCEPT ![t] = S]
  /\ exclusive' = [exclusive EXCEPT ![t] = X]

(* get_path: the string is made of the node's name, which it may have lost *)
(* since the request was sent.  fuse_lib_release goes on without a path.   *)
GrantFile(t) ==
  LET n == req[t].node
      nameless == name[n] = NoName
  IN  /\ At(t, "sent") /\ req[t].op \in FileOps
      /\ Lock(t, IF nameless THEN {} ELSE {n}, {})
      /\ path' = [path EXCEPT ![t] = name[n]]
      /\ Goto(t, IF nameless /\ ~Serves(t, "release") THEN "refused" ELSE "call")
      /\ UNCHANGED <<mounted, dir, nodeVars, kernelVars, req, found, got>>

(* get_path_name locks the directory only, which is the root here and      *)
(* never locked; get_path_wrlock and get_path2 lock the entry's node too.  *)
GrantDir(t) ==
  LET r == req[t]
      changed == CASE r.op = "unlink" -> {r.nm}
                   [] r.op = "rename" -> {r.nm, r.to}
                   [] OTHER -> {}
  IN  /\ At(t, "sent") /\ r.op \in DirOps \cup {"revalidate"}
      /\ Lock(t, {}, {LookupNode(e) : e \in changed} \ {NoNode})
      /\ path' = [path EXCEPT ![t] = r.nm]
      /\ Goto(t, IF r.op \in {"unlink", "rename"} THEN "check" ELSE "call")
      /\ UNCHANGED <<mounted, dir, nodeVars, kernelVars, req, found, got>>

-----------------------------------------------------------------------------
(* mount.fusedroid: every operation is a system call on the backing entry  *)
(* that the path leads to.                                                 *)
Exists(e) == dir[e] # NoFile

InUse(f) ==
  \/ \E e \in Entries : dir[e] = f
  \/ \E h \in Handles : hfile[h] = f
  \/ \E t \in Threads : got[t] = f

XmpMknod(e, f) == ~Exists(e) /\ ~InUse(f) /\ dir' = [dir EXCEPT ![e] = f]
XmpUnlink(e) == Exists(e) /\ dir' = [dir EXCEPT ![e] = NoFile]
XmpRename(e, to) == Exists(e) /\ dir' = [dir EXCEPT ![to] = dir[e], ![e] = NoFile]

(* xmp_read and xmp_write open the path anew.                              *)
XmpRead(e) == dir[e]

-----------------------------------------------------------------------------
(* The handlers.  Locks are kept, so every action between here and Finish  *)
(* leaves them and the kernel alone, unless it says otherwise.             *)
Inside(t) == UNCHANGED <<mounted, req, path, lockVars>>

Fails(t) == Goto(t, "failed") /\ UNCHANGED <<dir, nodeVars, kernelVars, found, got>>

(* The entry that unlink and rename are going to take away.                *)
Victim(t) == IF Serves(t, "unlink") THEN req[t].nm ELSE req[t].to

(* Without is_open: -o hard_remove.                                        *)
CheckNothing(t) ==
  /\ At(t, "check")
  /\ Goto(t, "call")
  /\ Inside(t) /\ UNCHANGED <<dir, nodeVars, kernelVars, found, got>>

(* fuse_lib_unlink and fuse_lib_rename: is_open.                           *)
Check(t) ==
  /\ At(t, "check")
  /\ Goto(t, IF IsOpen(Victim(t)) THEN "hide" ELSE "call")
  /\ Inside(t) /\ UNCHANGED <<dir, nodeVars, kernelVars, found, got>>

(* hidden_name and the rename of hide_node.  A hidden name holds the node  *)
(* id and a counter, so nobody else comes up with the same one, and the    *)
(* kernel lets nobody look into the directory meanwhile.                   *)
Hide(t) ==
  /\ At(t, "hide")
  /\ UNCHANGED <<mounted, req, lockVars>>
  /\ \/ \E e \in HiddenNames :
          /\ ~Exists(e) /\ LookupNode(e) = NoNode
          /\ XmpRename(Victim(t), e)
          /\ path' = [path EXCEPT ![t] = e]
          /\ Goto(t, "hidden")
          /\ UNCHANGED <<nodeVars, kernelVars, found, got>>
     \/ /\ "hide" \in Failing \/ ~Exists(Victim(t))
        /\ Fails(t) /\ UNCHANGED path

(* rename_node that never sees hide.                                       *)
HideNodeUnmarked(t) ==
  /\ At(t, "hidden")
  /\ name' = [name EXCEPT ![LookupNode(Victim(t))] = path[t]]
  /\ Goto(t, IF Serves(t, "unlink") THEN "done" ELSE "call")
  /\ Inside(t) /\ UNCHANGED <<dir, opens, hidden, kernelVars, found, got>>

(* rename_node with hide = 1.                                              *)
HideNode(t) ==
  LET n == LookupNode(Victim(t))
  IN  /\ At(t, "hidden")
      /\ name' = [name EXCEPT ![n] = path[t]]
      /\ hidden' = [hidden EXCEPT ![n] = TRUE]
      /\ Goto(t, IF Serves(t, "unlink") THEN "done" ELSE "call")
      /\ Inside(t) /\ UNCHANGED <<dir, opens, kernelVars, found, got>>

(* The calls of the file system: fuse_fs_x and xmp_x.                      *)
Calling(t, op) == At(t, "call") /\ Serves(t, op) /\ Inside(t)

FsUnlink(t) ==
  /\ Calling(t, "unlink")
  /\ \/ /\ XmpUnlink(req[t].nm)
        /\ Goto(t, "table")
        /\ UNCHANGED <<nodeVars, kernelVars, found, got>>
     \/ /\ "unlink" \in Failing \/ ~Exists(req[t].nm)
        /\ Fails(t)

FsRename(t) ==
  LET r == req[t]
  IN  /\ Calling(t, "rename")
      /\ \/ /\ XmpRename(r.nm, r.to)
            /\ Goto(t, "table")
            /\ UNCHANGED <<nodeVars, kernelVars, found, got>>
         \/ /\ "rename" \in Failing \/ ~Exists(r.nm)
            /\ Fails(t)

(* mknod creates the entry if it is not there (O_EXCL), and lookup_path    *)
(* asks for its attributes, which may fail when the file exists already.   *)
FsMknod(t) ==
  /\ Calling(t, "mknod")
  /\ \/ \E f \in Files :
          /\ XmpMknod(req[t].nm, f)
          /\ \/ Goto(t, "table")
             \/ "getattr" \in Failing /\ Goto(t, "failed")
          /\ UNCHANGED <<nodeVars, kernelVars, found, got>>
     \/ /\ "mknod" \in Failing \/ Exists(req[t].nm)
        /\ Fails(t)

FsGetattr(t) ==
  /\ Calling(t, "lookup") \/ Calling(t, "revalidate")
  /\ \/ /\ Exists(req[t].nm)
        /\ Goto(t, "table")
        /\ UNCHANGED <<dir, nodeVars, kernelVars, found, got>>
     \/ /\ "getattr" \in Failing \/ ~Exists(req[t].nm)
        /\ Fails(t)

(* fuse_lib_open: the file the path leads to is the one the user gets.     *)
FsOpen(t) ==
  /\ Calling(t, "open")
  /\ \/ /\ Exists(path[t])
        /\ got' = [got EXCEPT ![t] = dir[path[t]]]
        /\ Goto(t, "opened")
        /\ UNCHANGED <<dir, nodeVars, kernelVars, found>>
     \/ /\ "open" \in Failing \/ ~Exists(path[t])
        /\ Fails(t)

(* fuse_lib_read, fuse_lib_write_buf, fuse_lib_fsync, ...                  *)
FsUse(t) ==
  /\ Calling(t, "use")
  /\ Goto(t, IF XmpRead(path[t]) = NoFile THEN "failed" ELSE "done")
  /\ UNCHANGED <<dir, nodeVars, kernelVars, found, got>>

(* The changes of the node table after the call: find_node, remove_node,   *)
(* rename_node.                                                            *)
ChangeTable(t) ==
  LET r == req[t]
  IN  /\ At(t, "table")
      /\ Goto(t, "done")
      /\ Inside(t) /\ UNCHANGED <<dir, kernelVars, got>>
      /\ \/ r.op \in {"lookup", "revalidate", "mknod"} /\ FindNode(t, r.nm)
         \/ r.op = "unlink" /\ RemoveNode(r.nm) /\ UNCHANGED found
         \/ r.op = "rename" /\ RenameNode(r.nm, r.to) /\ UNCHANGED found

(* fuse_lib_open after the call of the file system.                        *)
CountOpen(t) ==
  /\ At(t, "opened")
  /\ opens' = [opens EXCEPT ![req[t].node] = @ + 1]
  /\ Goto(t, "counted")
  /\ Inside(t) /\ UNCHANGED <<dir, name, hidden, kernelVars, found, got>>

(* The answer comes before free_path.  It may find that the caller has     *)
(* been interrupted (ENOENT); then the open is taken back.                 *)
ReplyOpen(t) ==
  /\ At(t, "counted")
  /\ UNCHANGED <<mounted, dir, path, nodeVars, known, dentry, found, lockVars>>
  /\ \/ /\ hnode' = [hnode EXCEPT ![req[t].h] = req[t].node]
        /\ hfile' = [hfile EXCEPT ![req[t].h] = got[t]]
        /\ req' = [req EXCEPT ![t] = None]
        /\ got' = [got EXCEPT ![t] = NoFile]
        /\ Goto(t, "done")
     \/ /\ Goto(t, "drop")
        /\ UNCHANGED <<hnode, hfile, req, got>>

(* open_count is not looked at.                                            *)
LastHidden(n) == hidden[n]

Last(n) == hidden[n] /\ opens[n] = 1

(* fuse_do_release: for a release, and for an open taken back.             *)
DropOpen(t) ==
  LET n == req[t].node
      last == Last(n)
  IN  /\ At(t, "drop") \/ (At(t, "call") /\ Serves(t, "release"))
      /\ opens' = [opens EXCEPT ![n] = @ - 1]
      /\ hidden' = [hidden EXCEPT ![n] = @ /\ ~last]
      /\ Goto(t, IF last /\ path[t] # NoName THEN "erase" ELSE "done")
      /\ Inside(t) /\ UNCHANGED <<dir, name, kernelVars, found, got>>

EraseHidden(t) ==
  /\ At(t, "erase")
  /\ \E left \in IF "erase" \in Failing THEN {dir[path[t]], NoFile} ELSE {NoFile} :
       dir' = [dir EXCEPT ![path[t]] = left]
  /\ Goto(t, "done")
  /\ Inside(t) /\ UNCHANGED <<nodeVars, kernelVars, found, got>>

(* What the kernel does with the answer.                                   *)
Answer(t) ==
  LET r == req[t]
      ok == At(t, "done")
  IN  CASE r.op \in {"lookup", "mknod"} /\ ok -> [dentry EXCEPT ![r.nm] = found[t]]
        [] r.op = "revalidate" /\ found[t] # r.node /\ dentry[r.nm] = r.node
             -> [dentry EXCEPT ![r.nm] = NoNode]
        [] r.op = "unlink" /\ ok -> [dentry EXCEPT ![r.nm] = NoNode]
        [] r.op = "rename" /\ ok -> [dentry EXCEPT ![r.to] = dentry[r.nm], ![r.nm] = NoNode]
        [] OTHER -> dentry

(* free_path and the answer; an open has answered before.  When the caller *)
(* of a lookup or mknod has been interrupted (ENOENT), the kernel does not *)
(* know the node it was given, and reply_entry forgets it.                 *)
Finish(t) ==
  LET n == found[t]
      elsewhere == \E u \in Threads \ {t} : found[u] = n
  IN  /\ pc[t] \in {"done", "failed", "refused"}
      /\ pc' = [pc EXCEPT ![t] = "idle"]
      /\ req' = [req EXCEPT ![t] = None]
      /\ path' = [path EXCEPT ![t] = NoName]
      /\ found' = [found EXCEPT ![t] = NoNode]
      /\ got' = [got EXCEPT ![t] = NoFile]
      /\ shared' = [shared EXCEPT ![t] = {}]
      /\ exclusive' = [exclusive EXCEPT ![t] = {}]
      /\ UNCHANGED <<mounted, dir, opens, hidden, hnode, hfile>>
      /\ \/ /\ dentry' = Answer(t)
            /\ known' = [m \in Nodes |-> known[m] \/ m = n]
            /\ UNCHANGED name
         \/ /\ n # NoNode
            /\ name' = [name EXCEPT ![n] = IF known[n] \/ elsewhere THEN @ ELSE NoName]
            /\ UNCHANGED <<dentry, known>>

-----------------------------------------------------------------------------
(* The kernel forgets a node that no dentry, handle or request is for;     *)
(* forget_node waits until it is unlocked.  A node that is being returned  *)
(* by a lookup stays.                                                      *)
Pinned(n) ==
  \/ \E e \in Entries : dentry[e] = n
  \/ \E h \in Handles : hnode[h] = n
  \/ \E t \in Threads : req[t].node = n

Forget(n) ==
  /\ mounted /\ known[n] /\ ~Pinned(n)
  /\ \A t \in Threads : n \notin shared[t] \cup exclusive[t]
  /\ known' = [known EXCEPT ![n] = FALSE]
  /\ name' = [name EXCEPT ![n] = IF \E t \in Threads : found[t] = n THEN @ ELSE NoName]
  /\ UNCHANGED <<mounted, dir, opens, hidden, dentry, hnode, hfile, pc, req, path, found, got,
                 lockVars>>

(* The session has ended and no worker is left: fuse_destroy unlinks what  *)
(* is still hidden and frees the nodes.                                    *)
Destroy ==
  LET marked == {name[n] : n \in {m \in Nodes : hidden[m]}} \ {NoName}
  IN  /\ mounted /\ mounted' = FALSE
      /\ \A t \in Threads : At(t, "idle")
      /\ \E E \in IF "erase" \in Failing THEN SUBSET marked ELSE {marked} :
           dir' = [e \in Entries |-> IF e \in E THEN NoFile ELSE dir[e]]
      /\ name' = [n \in Nodes |-> NoName]
      /\ opens' = [n \in Nodes |-> 0]
      /\ hidden' = [n \in Nodes |-> FALSE]
      /\ known' = [n \in Nodes |-> FALSE]
      /\ dentry' = [e \in Entries |-> NoNode]
      /\ hnode' = [h \in Handles |-> NoNode]
      /\ hfile' = [h \in Handles |-> NoFile]
      /\ UNCHANGED <<pc, req, path, found, got, lockVars>>

Step(t) ==
  \/ SendLookup(t) \/ SendRevalidate(t) \/ SendMknod(t) \/ SendUnlink(t) \/ SendRename(t)
  \/ SendOpen(t) \/ SendUse(t) \/ SendRelease(t)
  \/ GrantFile(t) \/ GrantDir(t)
  \/ Check(t) \/ Hide(t) \/ HideNode(t)
  \/ FsUnlink(t) \/ FsRename(t) \/ FsMknod(t) \/ FsGetattr(t) \/ FsOpen(t) \/ FsUse(t)
  \/ ChangeTable(t) \/ CountOpen(t) \/ ReplyOpen(t) \/ DropOpen(t) \/ EraseHidden(t)
  \/ Finish(t)

Next == (\E t \in Threads : Step(t)) \/ (\E n \in Nodes : Forget(n)) \/ Destroy

Spec == Init /\ [][Next]_vars

-----------------------------------------------------------------------------
(* Whoever reads or writes through a handle reaches the file that was      *)
(* opened with it, whatever happened to its name since: the path           *)
(* fuse_lib_read passes to the file system leads to that file.             *)
UseReachesFile ==
  \A t \in Threads :
    Serves(t, "use") =>
      /\ ~At(t, "refused") /\ ~At(t, "failed")
      /\ At(t, "call") => XmpRead(path[t]) = hfile[req[t].h]

(* No hidden file is left behind: one that hide_node made belongs to a     *)
(* node that is marked and open, so that the last fuse_do_release, or      *)
(* fuse_destroy, removes it; or that is being done right now.              *)
HiddenWillGo ==
  \A e \in HiddenNames : dir[e] # NoFile =>
    \/ \E n \in Nodes : name[n] = e /\ hidden[n] /\ opens[n] > 0
    \/ \E t \in Threads : pc[t] \in {"hidden", "erase"} /\ path[t] = e

(* open_count is the number of handles the kernel has, those it is being   *)
(* given and those it is giving back.                                      *)
CountsOpens(t, n) ==
  /\ req[t].node = n
  /\ \/ pc[t] \in {"counted", "drop"}
     \/ Serves(t, "release") /\ pc[t] \in {"sent", "call"}

OpenCountExact ==
  \A n \in Nodes :
    opens[n] = Cardinality({h \in Handles : hnode[h] = n})
               + Cardinality({t \in Threads : CountsOpens(t, n)})

(* A name that users chose changes its file only by a request about this   *)
(* name: nothing the daemon does for open files touches another one.       *)
VisibleStays ==
  [][\A nm \in Names :
       dir'[nm] # dir[nm] =>
         \E t \in Threads : req[t].op \in {"mknod", "unlink", "rename"}
                            /\ nm \in {req[t].nm, req[t].to}]_vars

(* To the users of the mount it is a directory with handles on its files,  *)
(* in which a file lives while it is named or open.                        *)
Posix == INSTANCE PosixFiles WITH
  entry <- [nm \in Names |-> dir[nm]],
  opened <- hfile,
  stored <- {dir[e] : e \in Entries} \ {NoFile}

ImplementsPosix == Posix!Spec
=============================================================================
