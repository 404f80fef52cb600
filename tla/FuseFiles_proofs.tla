---------------------------- MODULE FuseFiles_proofs ----------------------------
(***************************************************************************)
(* The safety of FuseFiles for any number of threads, handles, names and   *)
(* files: open_count is exact; and when a file is not opened while its     *)
(* entry is being removed, a handle reaches the file it was opened on, no  *)
(* hidden file stays behind, and the mount is a POSIX directory.           *)
(***************************************************************************)
EXTENDS FuseFiles, FiniteSetTheorems, TLAPS

-----------------------------------------------------------------------------
(* What holds of requests, pins and counts, whether opens race or not.     *)

Requests ==
  [op : Ops \cup {"none"}, nm : Entries \cup {NoName}, to : Entries \cup {NoName},
   node : Nodes \cup {NoNode}, h : Handles \cup {NoHandle}]

StagesOf(op) ==
  CASE op \in {"lookup", "mknod", "revalidate"} -> {"sent", "call", "table", "done", "failed"}
    [] op \in {"unlink", "rename"} ->
         {"sent", "check", "hide", "hidden", "call", "table", "done", "failed"}
    [] op = "open" ->
         {"sent", "refused", "call", "opened", "counted", "drop", "erase", "done", "failed"}
    [] op = "use" -> {"sent", "refused", "call", "done", "failed"}
    [] op = "release" -> {"sent", "call", "erase", "done"}
    [] OTHER -> {"idle", "done"}

RequestOK(t) ==
  LET r == req[t]
  IN  /\ pc[t] \in StagesOf(r.op)
      /\ r.op \notin Ops => r = None
      /\ r.op \in DirOps \cup {"revalidate"} => r.nm \in Names
      /\ r.op = "rename" => r.to \in Names /\ r.nm # r.to
      /\ r.op \in FileOps => r.node \in Nodes
      /\ r.op = "use" => r.h \in Handles /\ hnode[r.h] = r.node
      /\ r.op = "open" => r.h \in Handles /\ hnode[r.h] = NoNode
      /\ pc[t] # "done" => found[t] = NoNode
      /\ pc[t] \in {"opened", "counted", "drop"} => got[t] \in Files
      /\ pc[t] \in {"hidden", "opened", "counted", "drop", "erase"} => path[t] \in Entries
      /\ r.op \in {"open", "use"} /\ pc[t] = "call" => path[t] \in Entries

HandlesFree ==
  \A t, u \in Threads :
    Serves(t, "open") /\ Serves(u, "open") /\ req[t].h = req[u].h => t = u

HandleTable == \A h \in Handles : hnode[h] = NoNode <=> hfile[h] = NoFile

PinsKnown == \A n \in Nodes : Pinned(n) => known[n]

OneDirOp ==
  \A t, u \in Threads : req[t].op \in DirOps /\ req[u].op \in DirOps => t = u

UsersOnly == \A e \in HiddenNames : dentry[e] = NoNode

(* The two sets of OpenCountExact.                                         *)
HandlesOf(n) == {h \in Handles : hnode[h] = n}
CountersOf(n) == {t \in Threads : CountsOpens(t, n)}
CountOK(n) == opens[n] = Cardinality(HandlesOf(n)) + Cardinality(CountersOf(n))

BaseInv ==
  /\ TypeOK
  /\ \A t \in Threads : RequestOK(t)
  /\ HandlesFree /\ HandleTable /\ PinsKnown /\ OneDirOp /\ UsersOnly
  /\ \A n \in Nodes : CountOK(n)

-----------------------------------------------------------------------------
(* Finite sets of handles and of threads.                                  *)

LEMMA SetsFinite ==
  ASSUME NEW n
  PROVE  /\ IsFiniteSet(HandlesOf(n)) /\ Cardinality(HandlesOf(n)) \in Nat
         /\ IsFiniteSet(CountersOf(n)) /\ Cardinality(CountersOf(n)) \in Nat
  <1>1. HandlesOf(n) \in SUBSET Handles /\ CountersOf(n) \in SUBSET Threads
    BY DEF HandlesOf, CountersOf
  <1>2. IsFiniteSet(HandlesOf(n)) /\ IsFiniteSet(CountersOf(n))
    BY <1>1, FS_Subset, FuseFilesAssumption
  <1> QED
    BY <1>2, FS_CardinalityType

(* Of a node that the kernel does not know no open is counted.             *)
LEMMA UnknownClosed ==
  ASSUME PinsKnown, \A n \in Nodes : CountOK(n), NEW n \in Nodes, ~known[n]
  PROVE  opens[n] = 0
  <1>1. ~Pinned(n)
    BY DEF PinsKnown
  <1>2. HandlesOf(n) = {} /\ CountersOf(n) = {}
    BY <1>1 DEF Pinned, HandlesOf, CountersOf, CountsOpens
  <1> QED
    BY <1>2, FS_EmptySet DEF CountOK

(* An open that is counted has a handle or a thread.                       *)
LEMMA CountedOpen ==
  ASSUME TypeOK, \A n \in Nodes : CountOK(n), NEW n \in Nodes
  PROVE  /\ \A h \in Handles : hnode[h] = n => opens[n] > 0
         /\ \A t \in Threads : CountsOpens(t, n) => opens[n] > 0
         /\ opens[n] = 1 =>
              /\ \A t \in Threads : CountsOpens(t, n) => \A h \in Handles : hnode[h] # n
              /\ \A t, u \in Threads : CountsOpens(t, n) /\ CountsOpens(u, n) => t = u
  <1>1. opens[n] = Cardinality(HandlesOf(n)) + Cardinality(CountersOf(n))
    BY DEF CountOK
  <1>2. Cardinality(HandlesOf(n)) = 0 <=> HandlesOf(n) = {}
    BY SetsFinite, FS_EmptySet
  <1>3. Cardinality(CountersOf(n)) = 0 <=> CountersOf(n) = {}
    BY SetsFinite, FS_EmptySet
  <1>4. Cardinality(HandlesOf(n)) \in Nat /\ Cardinality(CountersOf(n)) \in Nat
    BY SetsFinite
  <1>5. ASSUME NEW h \in Handles, hnode[h] = n
        PROVE  Cardinality(HandlesOf(n)) >= 1
    BY <1>2, <1>4, <1>5 DEF HandlesOf
  <1>6. ASSUME NEW t \in Threads, CountsOpens(t, n)
        PROVE  Cardinality(CountersOf(n)) >= 1
    BY <1>3, <1>4, <1>6 DEF CountersOf
  <1>7. ASSUME NEW t \in Threads, NEW u \in Threads, CountsOpens(t, n), CountsOpens(u, n), t # u
        PROVE  Cardinality(CountersOf(n)) >= 2
    <2>1. /\ IsFiniteSet(CountersOf(n) \ {t})
          /\ Cardinality(CountersOf(n) \ {t}) = Cardinality(CountersOf(n)) - 1
      BY <1>7, SetsFinite, FS_RemoveElement DEF CountersOf
    <2>2. CountersOf(n) \ {t} # {}
      BY <1>7 DEF CountersOf
    <2>3. Cardinality(CountersOf(n) \ {t}) # 0 /\ Cardinality(CountersOf(n) \ {t}) \in Nat
      BY <2>1, <2>2, FS_EmptySet, FS_CardinalityType
    <2> QED
      BY <1>4, <2>1, <2>3
  <1> QED
    BY <1>1, <1>4, <1>5, <1>6, <1>7

-----------------------------------------------------------------------------
(* What a step of a thread leaves alone.                                   *)
Untouched(u) ==
  /\ pc'[u] = pc[u] /\ req'[u] = req[u] /\ path'[u] = path[u] /\ found'[u] = found[u]
  /\ got'[u] = got[u] /\ shared'[u] = shared[u] /\ exclusive'[u] = exclusive[u]

Sends(t) ==
  \/ SendLookup(t) \/ SendRevalidate(t) \/ SendMknod(t) \/ SendUnlink(t) \/ SendRename(t)
  \/ SendOpen(t) \/ SendUse(t) \/ SendRelease(t)

(* A thread that sends only changes its request and stage.                 *)
LEMMA SendsOne ==
  ASSUME NEW t \in Threads, Sends(t)
  PROVE  \E r : Send(t, r)
  BY DEF Sends, SendDir, SendLookup, SendRevalidate, SendMknod, SendUnlink, SendRename, SendOpen,
         SendUse, SendRelease

(* A step of one thread leaves what the others work with.                  *)
LEMMA OthersWait ==
  ASSUME TypeOK, NEW t \in Threads, Step(t), NEW u \in Threads, u # t
  PROVE  Untouched(u)
  <1> USE DEF Untouched, TypeOK, Goto, Inside, Calling, Fails, lockVars
  <1>1. CASE Sends(t)
    BY <1>1, SendsOne DEF Send
  <1>2. CASE GrantFile(t)
    BY <1>2 DEF GrantFile, Lock
  <1>3. CASE GrantDir(t)
    BY <1>3 DEF GrantDir, Lock
  <1>4. CASE Check(t)
    BY <1>4 DEF Check
  <1>5. CASE Hide(t)
    BY <1>5 DEF Hide
  <1>6. CASE HideNode(t)
    BY <1>6 DEF HideNode
  <1>7. CASE FsUnlink(t)
    BY <1>7 DEF FsUnlink
  <1>8. CASE FsRename(t)
    BY <1>8 DEF FsRename
  <1>9. CASE FsMknod(t)
    BY <1>9 DEF FsMknod
  <1>10. CASE FsGetattr(t)
    BY <1>10 DEF FsGetattr
  <1>11. CASE FsOpen(t)
    BY <1>11 DEF FsOpen
  <1>12. CASE FsUse(t)
    BY <1>12 DEF FsUse
  <1>13. CASE ChangeTable(t)
    BY <1>13 DEF ChangeTable, FindNode
  <1>14. CASE CountOpen(t)
    BY <1>14 DEF CountOpen
  <1>15. CASE ReplyOpen(t)
    BY <1>15 DEF ReplyOpen
  <1>16. CASE DropOpen(t)
    BY <1>16 DEF DropOpen
  <1>17. CASE EraseHidden(t)
    BY <1>17 DEF EraseHidden
  <1>18. CASE Finish(t)
    BY <1>18 DEF Finish
  <1> QED
    BY <1>1, <1>2, <1>3, <1>4, <1>5, <1>6, <1>7, <1>8, <1>9, <1>10, <1>11, <1>12, <1>13, <1>14,
       <1>15, <1>16, <1>17, <1>18 DEF Step, Sends

LEMMA LookupTypes ==
  ASSUME NEW e
  PROVE  LookupNode(e) \in Nodes \cup {NoNode}
  BY DEF LookupNode

(* TypeOK is kept by every step of a thread.                               *)
LEMMA TypesStep ==
  ASSUME BaseInv, NEW t \in Threads, Step(t)
  PROVE  TypeOK'
  <1> USE DEF TypeOK, Goto, Inside, Calling, lockVars, nodeVars, kernelVars, At, Serves, Requests
  <1>0. TypeOK /\ RequestOK(t) /\ None \in Requests
    BY DEF BaseInv, None, Request
  <1>0a. CASE Fails(t) /\ UNCHANGED <<mounted, req, path, lockVars>>
    BY <1>0, <1>0a DEF Fails, PCs
  <1>1. CASE Sends(t)
    <2>1. PICK r : Send(t, r)
      BY <1>1, SendsOne
    <2>2. req'[t] = r /\ req' = [req EXCEPT ![t] = r]
      BY <1>0, <2>1 DEF Send
    <2>3. req'[t] \in Requests
      BY <1>0, <1>1 DEF Sends, Send, SendDir, SendLookup, SendRevalidate, SendMknod, SendUnlink, SendRename,
         SendOpen, SendUse, SendRelease, Request, Entries, Ops, DirOps, FileOps
    <2>4. /\ hnode' \in [Handles -> Nodes \cup {NoNode}] /\ hfile' \in [Handles -> Files \cup {NoFile}]
          /\ UNCHANGED <<known, dentry>>
      BY <1>0, <1>1 DEF Sends, SendDir, SendLookup, SendRevalidate, SendMknod, SendUnlink, SendRename,
         SendOpen, SendUse, SendRelease
    <2> QED
      BY <1>0, <2>1, <2>2, <2>3, <2>4 DEF Send, PCs
  <1>2. CASE GrantFile(t)
    BY <1>0, <1>2 DEF GrantFile, Lock, PCs, RequestOK
  <1>3. CASE GrantDir(t)
    BY <1>0, <1>3, LookupTypes DEF GrantDir, Lock, PCs, RequestOK, Entries
  <1>4. CASE Check(t)
    BY <1>0, <1>4 DEF Check, PCs
  <1>5. CASE Hide(t)
    <2>1. Victim(t) \in Entries
      BY <1>0, <1>5 DEF Hide, Victim, RequestOK, StagesOf, Entries, DirOps
    <2>2. CASE \E e \in HiddenNames : XmpRename(Victim(t), e) /\ path' = [path EXCEPT ![t] = e]
      <3>0. PICK e \in HiddenNames : XmpRename(Victim(t), e) /\ path' = [path EXCEPT ![t] = e]
        BY <2>2
      <3>1. path' \in [Threads -> Entries \cup {NoName}]
        BY <1>0, <3>0 DEF Entries
      <3>2. dir' \in [Entries -> Files \cup {NoFile}]
        BY <1>0, <2>1, <3>0 DEF XmpRename
      <3> QED
        BY <1>0, <1>5, <3>1, <3>2 DEF Hide, PCs, Fails
    <2> QED
      BY <1>5, <1>0a, <2>2 DEF Hide
  <1>6. CASE HideNode(t)
    BY <1>0, <1>6 DEF HideNode, PCs
  <1>7. CASE FsUnlink(t)
    BY <1>0, <1>0a, <1>7 DEF FsUnlink, XmpUnlink, PCs
  <1>8. CASE FsRename(t)
    <2>1. CASE Fails(t)
      BY <1>0a, <1>8, <2>1 DEF FsRename
    <2>2. CASE XmpRename(req[t].nm, req[t].to) /\ Goto(t, "table")
      <3>1. req[t].nm \in Entries /\ dir \in [Entries -> Files \cup {NoFile}]
        BY <1>0, <1>8 DEF FsRename, RequestOK, Entries, DirOps
      <3>2. dir' \in [Entries -> Files \cup {NoFile}]
        BY <2>2, <3>1 DEF XmpRename
      <3> QED
        BY <1>0, <1>8, <2>2, <3>2 DEF FsRename, PCs, Fails
    <2> QED
      BY <1>8, <2>1, <2>2 DEF FsRename
  <1>9. CASE FsMknod(t)
    <2>1. CASE Fails(t)
      BY <1>0a, <1>9, <2>1 DEF FsMknod
    <2>2. CASE ~Fails(t)
      <3>1. dir' \in [Entries -> Files \cup {NoFile}]
        BY <1>0, <1>9, <2>2 DEF FsMknod, XmpMknod
      <3>2. pc' \in [Threads -> PCs]
        BY <1>0, <1>9, <2>2 DEF FsMknod, PCs
      <3> QED
        BY <1>0, <1>9, <2>2, <3>1, <3>2 DEF FsMknod
    <2> QED
      BY <2>1, <2>2
  <1>10. CASE FsGetattr(t)
    BY <1>0, <1>0a, <1>10 DEF FsGetattr, PCs
  <1>11. CASE FsOpen(t)
    BY <1>0, <1>0a, <1>11 DEF FsOpen, PCs, Exists, RequestOK
  <1>12. CASE FsUse(t)
    BY <1>0, <1>12 DEF FsUse, PCs
  <1>13. CASE ChangeTable(t)
    <2>1. req[t].nm \in Entries /\ (Serves(t, "rename") => req[t].to \in Entries)
      BY <1>0, <1>13 DEF ChangeTable, RequestOK, DirOps, Entries
    <2>2. name' \in [Nodes -> Entries \cup {NoName}]
      BY <1>0, <1>13, <2>1 DEF ChangeTable, FindNode, RemoveNode, RenameNode
    <2>3. opens' \in [Nodes -> Nat] /\ hidden' \in [Nodes -> BOOLEAN]
      <3>1. CASE req[t].op \in {"unlink", "rename"}
        BY <1>0, <1>13, <3>1 DEF ChangeTable, RemoveNode, RenameNode
      <3>2. CASE FindNode(t, req[t].nm)
        <4>1. PICK n : /\ opens' = [opens EXCEPT ![n] = IF Alive(n) THEN @ ELSE 0]
                       /\ hidden' = [hidden EXCEPT ![n] = IF Alive(n) THEN @ ELSE FALSE]
          BY <3>2 DEF FindNode
        <4>2. opens' \in [Nodes -> Nat]
          BY <1>0, <4>1
        <4>3. CASE Alive(n)
          BY <1>0, <4>1, <4>2, <4>3
        <4>4. CASE ~Alive(n)
          BY <1>0, <4>1, <4>2, <4>4
        <4> QED
          BY <4>3, <4>4
      <3> QED
        BY <1>13, <3>1, <3>2 DEF ChangeTable
    <2>4. found' \in [Threads -> Nodes \cup {NoNode}]
      <3>1. CASE req[t].op \in {"unlink", "rename"}
        BY <1>0, <1>13, <3>1 DEF ChangeTable
      <3>2. CASE FindNode(t, req[t].nm)
        <4>1. \E n \in Nodes \cup {NoNode} : found' = [found EXCEPT ![t] = n]
          BY <3>2, LookupTypes DEF FindNode
        <4> QED
          BY <1>0, <4>1
      <3> QED
        BY <1>13, <3>1, <3>2 DEF ChangeTable
    <2> QED
      BY <1>0, <1>13, <2>2, <2>3, <2>4 DEF ChangeTable, PCs
  <1>14. CASE CountOpen(t)
    <2>1. opens \in [Nodes -> Nat] /\ opens' = [opens EXCEPT ![req[t].node] = @ + 1]
      BY <1>0, <1>14 DEF CountOpen
    <2>2. \A n \in Nodes : opens[n] + 1 \in Nat
      BY <2>1
    <2>3. opens' \in [Nodes -> Nat]
      BY <2>1, <2>2, Zenon
    <2> QED
      BY <1>0, <1>14, <2>3 DEF CountOpen, PCs
  <1>15. CASE ReplyOpen(t)
    <2>1. pc' \in [Threads -> PCs]
      BY <1>0, <1>15 DEF ReplyOpen, PCs
    <2>2. CASE UNCHANGED <<hnode, hfile, req, got>>
      BY <1>0, <1>15, <2>1, <2>2 DEF ReplyOpen
    <2>3. CASE ~UNCHANGED <<hnode, hfile, req, got>>
      <3>1. /\ hnode' = [hnode EXCEPT ![req[t].h] = req[t].node]
            /\ hfile' = [hfile EXCEPT ![req[t].h] = got[t]]
            /\ req' = [req EXCEPT ![t] = None] /\ got' = [got EXCEPT ![t] = NoFile]
        BY <1>15, <2>3 DEF ReplyOpen
      <3>2. req[t].node \in Nodes \cup {NoNode} /\ got[t] \in Files \cup {NoFile}
        BY <1>0
      <3>3. hnode' \in [Handles -> Nodes \cup {NoNode}]
        BY <1>0, <3>1, <3>2
      <3>4. hfile' \in [Handles -> Files \cup {NoFile}]
        BY <1>0, <3>1, <3>2
      <3>5. req' \in [Threads -> Requests] /\ got' \in [Threads -> Files \cup {NoFile}]
        BY <1>0, <3>1
      <3> QED
        BY <1>0, <1>15, <2>1, <3>3, <3>4, <3>5 DEF ReplyOpen
    <2> QED
      BY <2>2, <2>3
  <1>16. CASE DropOpen(t)
    <2>1. CountsOpens(t, req[t].node) /\ req[t].node \in Nodes
      BY <1>0, <1>16 DEF DropOpen, CountsOpens, RequestOK, FileOps, StagesOf, DirOps
    <2>2. opens[req[t].node] > 0
      BY <2>1, CountedOpen DEF BaseInv
    <2>3. opens' \in [Nodes -> Nat]
      <3>1. opens \in [Nodes -> Nat] /\ opens' = [opens EXCEPT ![req[t].node] = @ - 1]
        BY <1>0, <1>16 DEF DropOpen
      <3>2. opens[req[t].node] - 1 \in Nat
        BY <2>1, <2>2, <3>1
      <3>3. ASSUME NEW n \in Nodes
            PROVE  opens'[n] \in Nat
        BY <3>1, <3>2
      <3> QED
        BY <3>1, <3>3
    <2>4. hidden' \in [Nodes -> BOOLEAN]
      BY <1>0, <1>16, <2>1, Zenon DEF DropOpen
    <2> QED
      BY <1>0, <1>16, <2>3, <2>4 DEF DropOpen, PCs
  <1>17. CASE EraseHidden(t)
    BY <1>0, <1>17 DEF EraseHidden, PCs, RequestOK
  <1>18. CASE Finish(t)
    <2>1. dentry' \in [Entries -> Nodes \cup {NoNode}]
      <3>1. CASE Serves(t, "rename") /\ At(t, "done")
        <4>1. dentry[req[t].nm] \in Nodes \cup {NoNode}
          BY <1>0, <3>1 DEF RequestOK, DirOps, Entries
        <4> QED
          BY <1>0, <1>18, <3>1, <4>1 DEF Finish, Answer
      <3>2. CASE ~(Serves(t, "rename") /\ At(t, "done"))
        BY <1>0, <1>18, <3>2 DEF Finish, Answer
      <3> QED
        BY <3>1, <3>2
    <2>2. known' \in [Nodes -> BOOLEAN]
      <3>1. \A m \in Nodes : (known[m] \/ m = found[t]) \in BOOLEAN
        OBVIOUS
      <3> QED
        BY <1>0, <1>18, <3>1, Zenon DEF Finish
    <2>3. name' \in [Nodes -> Entries \cup {NoName}]
      BY <1>0, <1>18 DEF Finish
    <2>4. /\ pc' \in [Threads -> PCs] /\ req' \in [Threads -> Requests]
          /\ path' \in [Threads -> Entries \cup {NoName}] /\ found' \in [Threads -> Nodes \cup {NoNode}]
          /\ got' \in [Threads -> Files \cup {NoFile}]
      BY <1>0, <1>18 DEF Finish, PCs
    <2>5. shared' \in [Threads -> SUBSET Nodes] /\ exclusive' \in [Threads -> SUBSET Nodes]
      BY <1>0, <1>18 DEF Finish
    <2> QED
      BY <1>0, <1>18, <2>1, <2>2, <2>3, <2>4, <2>5 DEF Finish
  <1> QED
    BY <1>1, <1>2, <1>3, <1>4, <1>5, <1>6, <1>7, <1>8, <1>9, <1>10, <1>11, <1>12, <1>13, <1>14,
       <1>15, <1>16, <1>17, <1>18 DEF Step, Sends

-----------------------------------------------------------------------------
(* Requests, handles and pins.                                             *)

(* The steps in which a thread works on its request.                       *)
Works(t) ==
  \/ GrantFile(t) \/ GrantDir(t)
  \/ Check(t) \/ Hide(t) \/ HideNode(t)
  \/ FsUnlink(t) \/ FsRename(t) \/ FsMknod(t) \/ FsGetattr(t) \/ FsOpen(t) \/ FsUse(t)
  \/ ChangeTable(t) \/ CountOpen(t) \/ DropOpen(t) \/ EraseHidden(t)

(* Every step sends a request, works on one, or answers it.                *)
LEMMA StepKinds ==
  ASSUME NEW t, Step(t)
  PROVE  Sends(t) \/ Works(t) \/ ReplyOpen(t) \/ Finish(t)
  BY DEF Step, Sends, Works

(* Until the answer neither the request nor the kernel changes.            *)
LEMMA WorksAlone ==
  ASSUME NEW t, Works(t)
  PROVE  UNCHANGED <<mounted, req, known, dentry, hnode, hfile>>
  BY DEF Works, GrantFile, GrantDir, Check, Hide, HideNode, FsUnlink, FsRename, FsMknod, FsGetattr,
         FsOpen, FsUse, ChangeTable, CountOpen, DropOpen, EraseHidden, Calling, Inside, Fails, kernelVars

(* Sending changes neither entries nor nodes nor locks.                    *)
LEMMA SendsAlone ==
  ASSUME NEW t, Sends(t)
  PROVE  UNCHANGED <<mounted, dir, name, opens, hidden, known, dentry, path, found, got, shared, exclusive>>
  BY SendsOne DEF Sends, SendDir, SendLookup, SendRevalidate, SendMknod, SendUnlink, SendRename,
         SendOpen, SendUse, SendRelease, Send, nodeVars, kernelVars, lockVars

(* The request sent, for an entry or for a node.                           *)
LEMMA RequestSent ==
  ASSUME BaseInv, NEW t \in Threads, Sends(t)
  PROVE  /\ pc[t] = "idle" /\ pc'[t] = "sent" /\ mounted
         /\ req'[t].op \in DirOps \cup {"revalidate"} => req'[t].nm \in Names
         /\ req'[t].op \in DirOps => ~DirBusy
         /\ req'[t].op = "rename" => req'[t].to \in Names /\ req'[t].nm # req'[t].to
         /\ req'[t].op \in FileOps => req'[t].node \in Nodes
         /\ req'[t].op \in {"unlink", "rename"} => MayRemove(Victim(t)')
         /\ req'[t].op = "open" =>
              /\ req'[t].h \in Handles /\ FreeHandle(req'[t].h)
              /\ \E e \in Names : dentry[e] = req'[t].node /\ MayOpen(e)
         /\ req'[t].op = "use" => req'[t].h \in Handles /\ hnode[req'[t].h] = req'[t].node
         /\ req'[t].op \in Ops
         /\ req'[t].node # NoNode =>
              \/ \E e \in Entries : dentry[e] = req'[t].node
              \/ \E h \in Handles : hnode[h] = req'[t].node
  <1> USE DEF TypeOK, BaseInv, Serves, At, Request, DirOps, FileOps, Ops, Goto
  <1>0. TypeOK
    OBVIOUS
  <1>1. PICK r : Send(t, r)
    BY SendsOne
  <1>2. req'[t] = r /\ pc[t] = "idle" /\ pc'[t] = "sent" /\ mounted
    BY <1>0, <1>1 DEF Send
  <1>3. CASE SendLookup(t) \/ SendMknod(t)
    <2>1. PICK nm \in Names, op \in {"lookup", "mknod"} :
            SendDir(t, Request(op, nm, NoName, NoNode, NoHandle))
      BY <1>3 DEF SendLookup, SendMknod
    <2>2. req'[t] = Request(op, nm, NoName, NoNode, NoHandle) /\ ~DirBusy
      BY <1>0, <2>1 DEF SendDir, Send
    <2> QED
      BY <1>2, <2>2
  <1>4. CASE SendRevalidate(t)
    BY <1>0, <1>2, <1>4 DEF SendRevalidate, Send, Entries
  <1>5. CASE SendUnlink(t)
    BY <1>0, <1>2, <1>5 DEF SendUnlink, SendDir, Send, Victim
  <1>6. CASE SendRename(t)
    BY <1>0, <1>2, <1>6 DEF SendRename, SendDir, Send, Victim
  <1>7. CASE SendOpen(t)
    <2>1. PICK e \in Entries, h \in Handles :
            /\ dentry[e] # NoNode /\ FreeHandle(h) /\ MayOpen(e)
            /\ Send(t, Request("open", NoName, NoName, dentry[e], h))
      BY <1>7 DEF SendOpen
    <2>2. req'[t] = Request("open", NoName, NoName, dentry[e], h)
      BY <1>0, <2>1 DEF Send
    <2>3. e \in Names
      BY <2>1 DEF UsersOnly, Entries
    <2> QED
      BY <1>0, <1>2, <2>1, <2>2, <2>3 DEF Entries
  <1>8. CASE SendUse(t)
    BY <1>0, <1>2, <1>8 DEF SendUse, Send
  <1>9. CASE SendRelease(t)
    BY <1>0, <1>2, <1>9 DEF SendRelease, Send
  <1> QED
    BY <1>3, <1>4, <1>5, <1>6, <1>7, <1>8, <1>9 DEF Sends

(* What happens to the handles.                                            *)
Closes(t, h) ==
  /\ Sends(t) /\ req'[t].op = "release"
  /\ hnode[h] # NoNode /\ req'[t].node = hnode[h]
  /\ \A u \in Threads : ~(Serves(u, "use") /\ req[u].h = h)
  /\ hnode' = [hnode EXCEPT ![h] = NoNode]
  /\ hfile' = [hfile EXCEPT ![h] = NoFile]

Gives(t) ==
  /\ At(t, "counted") /\ pc'[t] = "done" /\ Serves(t, "open")
  /\ req'[t] = None /\ got'[t] = NoFile
  /\ hnode' = [hnode EXCEPT ![req[t].h] = req[t].node]
  /\ hfile' = [hfile EXCEPT ![req[t].h] = got[t]]
  /\ UNCHANGED <<mounted, dir, name, opens, hidden, known, dentry, path, found, shared, exclusive>>

TakesBack(t) ==
  /\ At(t, "counted") /\ pc'[t] = "drop"
  /\ UNCHANGED <<mounted, dir, name, opens, hidden, known, dentry, hnode, hfile, req, path, found, got,
                 shared, exclusive>>

(* An open is answered with a handle or is taken back.                     *)
LEMMA ReplyKinds ==
  ASSUME BaseInv, NEW t \in Threads, ReplyOpen(t)
  PROVE  Gives(t) \/ TakesBack(t)
  <1>1. TypeOK /\ RequestOK(t)
    BY DEF BaseInv
  <1>2. Serves(t, "open")
    BY <1>1 DEF ReplyOpen, RequestOK, StagesOf, At, Serves
  <1> QED
    BY <1>1, <1>2 DEF ReplyOpen, Gives, TakesBack, At, Goto, TypeOK, nodeVars, lockVars

(* A release closes one handle that nobody uses.                           *)
LEMMA ReleaseCloses ==
  ASSUME TypeOK, NEW t \in Threads, SendRelease(t)
  PROVE  \E h \in Handles : Closes(t, h)
  <1>1. PICK h \in Handles :
          /\ hnode[h] # NoNode
          /\ \A u \in Threads : ~(Serves(u, "use") /\ req[u].h = h)
          /\ Send(t, Request("release", NoName, NoName, hnode[h], NoHandle))
          /\ hnode' = [hnode EXCEPT ![h] = NoNode]
          /\ hfile' = [hfile EXCEPT ![h] = NoFile]
    BY DEF SendRelease
  <1>2. req'[t] = Request("release", NoName, NoName, hnode[h], NoHandle)
    BY <1>1 DEF Send, TypeOK
  <1>3. Closes(t, h)
    BY <1>1, <1>2 DEF Closes, Sends, Request
  <1> QED
    BY <1>3

(* A handle is given by an open and closed by a release only.              *)
LEMMA HandleSteps ==
  ASSUME BaseInv, NEW t \in Threads, Step(t)
  PROVE  UNCHANGED <<hnode, hfile>> \/ Gives(t) \/ \E h \in Handles : Closes(t, h)
  <1>0. TypeOK
    BY DEF BaseInv
  <1>1. CASE Sends(t)
    <2>1. CASE SendRelease(t)
      BY <1>0, <2>1, ReleaseCloses
    <2>2. CASE ~SendRelease(t)
      BY <1>1, <2>2 DEF Sends, SendDir, SendLookup, SendRevalidate, SendMknod, SendUnlink, SendRename,
         SendOpen, SendUse, kernelVars
    <2> QED
      BY <2>1, <2>2
  <1>2. CASE Works(t)
    BY <1>2, WorksAlone
  <1>3. CASE ReplyOpen(t)
    BY <1>3, ReplyKinds DEF TakesBack
  <1>4. CASE Finish(t)
    BY <1>4 DEF Finish
  <1> QED
    BY <1>1, <1>2, <1>3, <1>4, StepKinds

LEMMA NotReleaseKeeps ==
  ASSUME BaseInv, NEW t \in Threads, Sends(t)
  PROVE  \/ UNCHANGED <<hnode, hfile>> /\ req'[t].op # "release"
         \/ \E h \in Handles : Closes(t, h)
  <1>0. TypeOK
    BY DEF BaseInv
  <1>1. CASE SendRelease(t)
    BY <1>0, <1>1, ReleaseCloses
  <1>2. CASE ~SendRelease(t)
    BY <1>0, <1>2 DEF Sends, SendDir, Send, SendLookup, SendRevalidate, SendMknod, SendUnlink, SendRename,
         SendOpen, SendUse, kernelVars, TypeOK, Request
  <1> QED
    BY <1>1, <1>2

(* The handle of another thread's request is not touched.                  *)
LEMMA HandlesOfOthers ==
  ASSUME BaseInv, NEW t \in Threads, Step(t), NEW u \in Threads, u # t,
         req[u].op \in {"use", "open"}
  PROVE  req[u].h \in Handles /\ hnode'[req[u].h] = hnode[req[u].h]
  <1>0. TypeOK /\ RequestOK(u) /\ RequestOK(t) /\ HandlesFree
    BY DEF BaseInv
  <1>1. req[u].h \in Handles /\ req[u].node \in Nodes
    BY <1>0 DEF RequestOK, FileOps
  <1>2. CASE UNCHANGED <<hnode, hfile>>
    BY <1>1, <1>2
  <1>3. CASE Gives(t)
    BY <1>0, <1>1, <1>3, FuseFilesAssumption DEF Gives, RequestOK, HandlesFree, TypeOK, Serves, At
  <1>4. ASSUME NEW h \in Handles, Closes(t, h)
        PROVE  hnode'[req[u].h] = hnode[req[u].h]
    BY <1>0, <1>1, <1>4 DEF Closes, RequestOK, TypeOK, Serves
  <1> QED
    BY <1>1, <1>2, <1>3, <1>4, HandleSteps

(* RequestOK of every thread is kept by the steps of every thread.         *)
LEMMA RequestsStep ==
  ASSUME BaseInv, NEW t \in Threads, Step(t), NEW u \in Threads
  PROVE  RequestOK(u)'
  <1> USE DEF TypeOK, RequestOK, At, Serves, Goto
  <1>0. TypeOK /\ RequestOK(t) /\ RequestOK(u)
    BY DEF BaseInv
  <1>1. CASE u # t
    <2>1. Untouched(u)
      BY <1>0, <1>1, OthersWait
    <2>2. req[u].op \in {"use", "open"} => hnode'[req[u].h] = hnode[req[u].h]
      BY <1>1, HandlesOfOthers
    <2> QED
      BY <1>0, <2>1, <2>2 DEF Untouched
  <1>2. CASE Sends(t) /\ u = t
    <2>1. found'[t] = NoNode
      BY <1>0, <1>2, RequestSent, SendsAlone
    <2>2. req'[t].op \in {"open", "use"} => hnode'[req'[t].h] = hnode[req'[t].h]
      BY <1>2, NotReleaseKeeps DEF Closes
    <2>3. pc'[t] \in StagesOf(req'[t].op)
      BY <1>2, RequestSent DEF StagesOf, Ops, DirOps, FileOps
    <2> QED
      BY <1>0, <1>2, <2>1, <2>2, <2>3, RequestSent DEF FreeHandle
  <1>3. CASE Works(t) /\ u = t
    <2>1. UNCHANGED <<req, hnode>>
      BY <1>3, WorksAlone
    <2>2. /\ pc'[t] \in StagesOf(req[t].op)
          /\ pc'[t] # "done" => found'[t] = NoNode
          /\ pc'[t] \in {"opened", "counted", "drop"} => got'[t] \in Files
          /\ pc'[t] \in {"hidden", "opened", "counted", "drop", "erase"} => path'[t] \in Entries
          /\ req[t].op \in {"open", "use"} /\ pc'[t] = "call" => path'[t] \in Entries
      <3> USE DEF Inside, Calling, Fails, StagesOf, Ops, DirOps, FileOps
      <3>1. CASE GrantFile(t)
        BY <1>0, <3>1 DEF GrantFile, Lock
      <3>2. CASE GrantDir(t)
        BY <1>0, <3>2 DEF GrantDir, Lock
      <3>3. CASE Check(t)
        BY <1>0, <3>3 DEF Check
      <3>4. CASE Hide(t)
        BY <1>0, <3>4 DEF Hide, Entries
      <3>5. CASE HideNode(t)
        BY <1>0, <3>5 DEF HideNode
      <3>6. CASE FsUnlink(t) \/ FsRename(t)
        BY <1>0, <3>6 DEF FsUnlink, FsRename
      <3>7. CASE FsMknod(t) \/ FsGetattr(t)
        BY <1>0, <3>7 DEF FsMknod, FsGetattr
      <3>8. CASE FsOpen(t)
        BY <1>0, <3>8 DEF FsOpen, Exists
      <3>9. CASE FsUse(t)
        BY <1>0, <3>9 DEF FsUse
      <3>10. CASE ChangeTable(t)
        BY <1>0, <3>10 DEF ChangeTable
      <3>11. CASE CountOpen(t)
        BY <1>0, <3>11 DEF CountOpen
      <3>12. CASE DropOpen(t)
        BY <1>0, <3>12 DEF DropOpen
      <3>13. CASE EraseHidden(t)
        BY <1>0, <3>13 DEF EraseHidden
      <3> QED
        BY <1>3, <3>1, <3>2, <3>3, <3>4, <3>5, <3>6, <3>7, <3>8, <3>9, <3>10, <3>11, <3>12, <3>13
           DEF Works
    <2> QED
      BY <1>0, <1>3, <2>1, <2>2
  <1>4. CASE ReplyOpen(t) /\ u = t
    <2>1. CASE Gives(t)
      BY <1>0, <1>4, <2>1 DEF Gives, None, Request, StagesOf, Ops, DirOps, FileOps
    <2>2. CASE TakesBack(t)
      BY <1>0, <1>4, <2>2 DEF TakesBack, StagesOf, Ops, DirOps, FileOps
    <2> QED
      BY <1>4, <2>1, <2>2, ReplyKinds
  <1>5. CASE Finish(t) /\ u = t
    BY <1>0, <1>5 DEF Finish, None, Request, StagesOf, Ops, DirOps, FileOps
  <1> QED
    BY <1>1, <1>2, <1>3, <1>4, <1>5, StepKinds

(* No two opens are sent with one handle.                                  *)
LEMMA HandlesFreeStep ==
  ASSUME BaseInv, NEW t \in Threads, Step(t)
  PROVE  HandlesFree'
  <1>0. TypeOK /\ HandlesFree /\ \A u \in Threads : u # t => Untouched(u)
    BY OthersWait DEF BaseInv
  <1>1. CASE Sends(t)
    BY <1>0, <1>1, RequestSent DEF HandlesFree, FreeHandle, Serves, Untouched
  <1>2. CASE ~Sends(t)
    <2>1. req'[t] \in {req[t], None}
      BY <1>0, <1>2, StepKinds, WorksAlone, ReplyKinds DEF Gives, TakesBack, Finish, TypeOK
    <2> QED
      BY <1>0, <2>1 DEF HandlesFree, Serves, Untouched, None, Request
  <1> QED
    BY <1>1, <1>2

LEMMA HandleTableStep ==
  ASSUME BaseInv, NEW t \in Threads, Step(t)
  PROVE  HandleTable'
  <1>0. TypeOK /\ HandleTable /\ RequestOK(t)
    BY DEF BaseInv
  <1>1. CASE UNCHANGED <<hnode, hfile>>
    BY <1>0, <1>1 DEF HandleTable
  <1>2. CASE Gives(t)
    <2>1. req[t].node # NoNode /\ got[t] # NoFile /\ req[t].h \in Handles
      BY <1>0, <1>2, FuseFilesAssumption DEF Gives, RequestOK, At, Serves, FileOps
    <2> QED
      BY <1>0, <1>2, <2>1 DEF Gives, HandleTable, TypeOK
  <1>3. ASSUME NEW h \in Handles, Closes(t, h)
        PROVE  HandleTable'
    BY <1>0, <1>3 DEF Closes, HandleTable, TypeOK
  <1> QED
    BY <1>1, <1>2, <1>3, HandleSteps

(* Only a forget makes the kernel not know a node.                         *)
LEMMA StaysKnown ==
  ASSUME TypeOK, NEW t \in Threads, Step(t), BaseInv, NEW n \in Nodes, known[n]
  PROVE  known'[n]
  <1>1. CASE Finish(t)
    <2>1. known' = [m \in Nodes |-> known[m] \/ m = found[t]] \/ known' = known
      BY <1>1 DEF Finish
    <2>2. CASE known' = [m \in Nodes |-> known[m] \/ m = found[t]]
      BY <2>2, Zenon
    <2> QED
      BY <2>1, <2>2
  <1>2. CASE ~Finish(t)
    BY <1>2, StepKinds, SendsAlone, WorksAlone, ReplyKinds DEF Gives, TakesBack
  <1> QED
    BY <1>1, <1>2

(* The kernel changes a dentry when it has the answer.                     *)
LEMMA DentrySteps ==
  ASSUME BaseInv, NEW t \in Threads, Step(t), NEW e \in Entries, dentry'[e] # dentry[e]
  PROVE  /\ Finish(t) /\ e \in Names
         /\ \/ dentry'[e] = NoNode
            \/ req[t].op \in {"lookup", "mknod"} /\ dentry'[e] = found[t] /\ known' = [m \in Nodes |-> known[m] \/ m = found[t]]
            \/ Serves(t, "rename") /\ At(t, "done") /\ e = req[t].to /\ dentry'[e] = dentry[req[t].nm]
  <1>0. TypeOK /\ RequestOK(t)
    BY DEF BaseInv
  <1>1. Finish(t)
    BY StepKinds, SendsAlone, WorksAlone, ReplyKinds DEF Gives, TakesBack
  <1>2. dentry' = Answer(t) /\ known' = [m \in Nodes |-> known[m] \/ m = found[t]]
    BY <1>1 DEF Finish
  <1>3. req[t].op \in DirOps \cup {"revalidate"}
    BY <1>2 DEF Answer, DirOps
  <1>4. req[t].nm \in Names /\ (req[t].op = "rename" => req[t].to \in Names)
    BY <1>0, <1>3 DEF RequestOK
  <1>5. CASE Serves(t, "rename")
    BY <1>0, <1>1, <1>2, <1>4, <1>5 DEF Answer, Serves, TypeOK
  <1>6. CASE ~Serves(t, "rename")
    BY <1>0, <1>1, <1>2, <1>3, <1>4, <1>6 DEF Answer, Serves, TypeOK, DirOps
  <1> QED
    BY <1>5, <1>6

(* The kernel knows the nodes of its dentries, handles and requests.       *)
LEMMA PinsStep ==
  ASSUME BaseInv, NEW t \in Threads, Step(t)
  PROVE  PinsKnown' /\ UsersOnly'
  <1>0. TypeOK /\ PinsKnown /\ RequestOK(t) /\ \A u \in Threads : u # t => Untouched(u)
    BY OthersWait DEF BaseInv
  <1>1. ASSUME NEW n \in Nodes, NEW e \in Entries, dentry'[e] = n
        PROVE  known'[n]
    <2>1. CASE dentry'[e] = dentry[e]
      BY <1>0, <1>1, <2>1, StaysKnown DEF PinsKnown, Pinned
    <2>2. CASE dentry'[e] # dentry[e]
      <3>0. n # NoNode
        BY FuseFilesAssumption
      <3>1. CASE found[t] = n /\ known' = [m \in Nodes |-> known[m] \/ m = found[t]]
        BY <3>1
      <3>2. CASE Serves(t, "rename") /\ dentry'[e] = dentry[req[t].nm]
        <4>1. req[t].nm \in Entries
          BY <1>0, <3>2 DEF RequestOK, Serves, DirOps, Entries
        <4>2. known[n]
          BY <1>0, <1>1, <3>2, <4>1 DEF PinsKnown, Pinned
        <4> QED
          BY <1>0, <4>2, StaysKnown
      <3> QED
        BY <1>1, <2>2, <3>0, <3>1, <3>2, DentrySteps
    <2> QED
      BY <2>1, <2>2
  <1>2. ASSUME NEW n \in Nodes, NEW h \in Handles, hnode'[h] = n
        PROVE  known'[n]
    <2>0. n # NoNode
      BY FuseFilesAssumption
    <2>1. known[n]
      <3>1. CASE UNCHANGED <<hnode, hfile>>
        BY <1>0, <1>2, <3>1 DEF PinsKnown, Pinned
      <3>2. CASE Gives(t)
        BY <1>0, <1>2, <3>2 DEF Gives, PinsKnown, Pinned, TypeOK
      <3>3. ASSUME NEW g \in Handles, Closes(t, g)
            PROVE  known[n]
        BY <1>0, <1>2, <2>0, <3>3 DEF Closes, PinsKnown, Pinned, TypeOK
      <3> QED
        BY <3>1, <3>2, <3>3, HandleSteps
    <2> QED
      BY <1>0, <2>1, StaysKnown
  <1>3. ASSUME NEW n \in Nodes, NEW u \in Threads, req'[u].node = n
        PROVE  known'[n]
    <2>0. n # NoNode
      BY FuseFilesAssumption
    <2>1. known[n]
      <3>1. CASE u # t
        BY <1>0, <1>3, <3>1 DEF Untouched, PinsKnown, Pinned
      <3>2. CASE u = t /\ Sends(t)
        BY <1>0, <1>3, <2>0, <3>2, RequestSent DEF PinsKnown, Pinned
      <3>3. CASE u = t /\ ~Sends(t)
        <4>1. req'[t] \in {req[t], None}
          BY <1>0, <3>3, StepKinds, WorksAlone, ReplyKinds DEF Gives, TakesBack, Finish, TypeOK
        <4> QED
          BY <1>0, <1>3, <2>0, <3>3, <4>1 DEF None, Request, PinsKnown, Pinned
      <3> QED
        BY <3>1, <3>2, <3>3
    <2> QED
      BY <1>0, <2>1, StaysKnown
  <1>4. PinsKnown'
    BY <1>1, <1>2, <1>3 DEF PinsKnown, Pinned
  <1>5. UsersOnly'
    <2> SUFFICES ASSUME NEW e \in HiddenNames
                 PROVE  dentry'[e] = NoNode
      BY DEF UsersOnly
    <2>1. e \in Entries /\ e \notin Names /\ dentry[e] = NoNode
      BY FuseFilesAssumption DEF Entries, BaseInv, UsersOnly
    <2> QED
      BY <2>1, DentrySteps
  <1> QED
    BY <1>4, <1>5

(* The kernel has one request under way that changes the directory.        *)
LEMMA OneDirOpStep ==
  ASSUME BaseInv, NEW t \in Threads, Step(t)
  PROVE  OneDirOp'
  <1>0. TypeOK /\ OneDirOp /\ \A u \in Threads : u # t => Untouched(u)
    BY OthersWait DEF BaseInv
  <1>1. CASE Sends(t)
    BY <1>0, <1>1, RequestSent DEF OneDirOp, DirBusy, Untouched
  <1>2. CASE ~Sends(t)
    <2>1. req'[t] \in {req[t], None}
      BY <1>0, <1>2, StepKinds, WorksAlone, ReplyKinds DEF Gives, TakesBack, Finish, TypeOK
    <2>2. req'[t].op \in DirOps => req[t].op \in DirOps
      BY <2>1 DEF None, Request, DirOps
    <2> QED
      BY <1>0, <2>2 DEF OneDirOp, Untouched
  <1> QED
    BY <1>1, <1>2

-----------------------------------------------------------------------------
(* Counting.                                                               *)

(* A count stays when no handle and no thread enters or leaves it.         *)
LEMMA CountStays ==
  ASSUME TypeOK, NEW n \in Nodes, CountOK(n), opens'[n] = opens[n],
         \A h \in Handles : hnode'[h] = n <=> hnode[h] = n,
         \A t \in Threads : CountsOpens(t, n)' <=> CountsOpens(t, n)
  PROVE  CountOK(n)'
  <1>1. HandlesOf(n)' = HandlesOf(n)
    BY DEF HandlesOf
  <1>2. CountersOf(n)' = CountersOf(n)
    BY DEF CountersOf
  <1> QED
    BY <1>1, <1>2 DEF CountOK

(* find_node clears the open_count of unknown nodes, which is 0.           *)
LEMMA NodesFound ==
  ASSUME BaseInv, NEW t, NEW e, FindNode(t, e)
  PROVE  opens' = opens
  <1>1. PICK n \in Nodes : opens' = [opens EXCEPT ![n] = IF Alive(n) THEN @ ELSE 0]
    BY DEF FindNode, LookupNode
  <1>2. ~Alive(n) => opens[n] = 0
    BY UnknownClosed DEF BaseInv, Alive
  <1>3. (IF Alive(n) THEN opens[n] ELSE 0) = opens[n]
    BY <1>2
  <1> QED
    BY <1>1, <1>3 DEF BaseInv, TypeOK

(* open_count is kept exact by every step of a thread.                     *)
LEMMA CountStep ==
  ASSUME BaseInv, NEW t \in Threads, Step(t), NEW n \in Nodes
  PROVE  CountOK(n)'
  <1>0. /\ TypeOK /\ CountOK(n) /\ RequestOK(t) /\ RequestOK(t)'
        /\ \A u \in Threads : u # t => Untouched(u)
    BY OthersWait, RequestsStep DEF BaseInv
  <1>1. \A u \in Threads : u # t => (CountsOpens(u, n)' <=> CountsOpens(u, n))
    BY <1>0 DEF Untouched, CountsOpens, Serves
  <1>f. n # NoNode
    BY FuseFilesAssumption
  <1>n. opens[n] \in Nat
    BY <1>0 DEF TypeOK
  <1>c. /\ IsFiniteSet(HandlesOf(n)) /\ Cardinality(HandlesOf(n)) \in Nat
        /\ IsFiniteSet(CountersOf(n)) /\ Cardinality(CountersOf(n)) \in Nat
    BY SetsFinite
  <1>2. CASE Sends(t)
    <2>1. ~CountsOpens(t, n) /\ opens'[n] = opens[n]
      BY <1>0, <1>2, RequestSent, SendsAlone DEF CountsOpens, Serves, RequestOK, StagesOf, Ops, DirOps, FileOps
    <2>2. CASE req'[t].op # "release" /\ UNCHANGED <<hnode, hfile>>
      <3>1. ~CountsOpens(t, n)'
        BY <1>2, <2>2, RequestSent DEF CountsOpens, Serves
      <3> QED
        BY <1>0, <1>1, <2>1, <2>2, <3>1, CountStays
    <2>3. ASSUME NEW h \in Handles, Closes(t, h)
          PROVE  CountOK(n)'
      <3>1. CountsOpens(t, n)' <=> hnode[h] = n
        BY <1>2, <2>3, RequestSent DEF CountsOpens, Serves, Closes
      <3>2. CASE hnode[h] # n
        BY <1>0, <1>1, <1>f, <2>1, <2>3, <3>1, <3>2, CountStays DEF Closes, TypeOK
      <3>3. CASE hnode[h] = n
        <4>1. HandlesOf(n)' = HandlesOf(n) \ {h}
          BY <1>0, <1>f, <2>3, <3>3 DEF Closes, TypeOK, HandlesOf
        <4>2. CountersOf(n)' = CountersOf(n) \cup {t}
          BY <1>1, <3>1, <3>3 DEF CountersOf
        <4>3. h \in HandlesOf(n) /\ t \notin CountersOf(n)
          BY <2>1, <3>3 DEF HandlesOf, CountersOf
        <4>4. Cardinality(HandlesOf(n)') = Cardinality(HandlesOf(n)) - 1
          BY <1>c, <4>1, <4>3, FS_RemoveElement
        <4>5. Cardinality(CountersOf(n)') = Cardinality(CountersOf(n)) + 1
          BY <1>c, <4>2, <4>3, FS_AddElement
        <4> QED
          BY <1>0, <1>c, <2>1, <4>4, <4>5 DEF CountOK
      <3> QED
        BY <3>2, <3>3
    <2> QED
      BY <1>2, <2>2, <2>3, NotReleaseKeeps
  <1>3. CASE Works(t) /\ ~CountOpen(t) /\ ~DropOpen(t)
    <2>0. UNCHANGED <<hnode, req>>
      BY <1>3, WorksAlone
    <2>1. opens' = opens
      BY <1>3, NodesFound DEF Works, GrantFile, GrantDir, Check, Hide, HideNode, FsUnlink, FsRename, FsMknod,
         FsGetattr, FsOpen, FsUse, ChangeTable, RemoveNode, RenameNode, EraseHidden, Calling, Inside, Fails,
         nodeVars, lockVars
    <2>2. /\ pc[t] \notin {"counted", "drop"} /\ pc'[t] \notin {"counted", "drop"}
          /\ Serves(t, "release") => (pc[t] \in {"sent", "call"} <=> pc'[t] \in {"sent", "call"})
      BY <1>0, <1>3 DEF Works, GrantFile, GrantDir, Check, Hide, HideNode, FsUnlink, FsRename, FsMknod,
         FsGetattr, FsOpen, FsUse, ChangeTable, EraseHidden, Calling, Fails, Goto, At, Serves, TypeOK,
         RequestOK, StagesOf, DirOps, FileOps
    <2> QED
      BY <1>0, <1>1, <2>0, <2>1, <2>2, CountStays DEF CountsOpens, Serves
  <1>4. CASE CountOpen(t)
    <2>1. /\ opens' = [opens EXCEPT ![req[t].node] = @ + 1] /\ UNCHANGED <<hnode, req>>
          /\ pc[t] = "opened" /\ pc'[t] = "counted" /\ req[t].op = "open"
      BY <1>0, <1>4 DEF CountOpen, Inside, kernelVars, Goto, At, TypeOK, RequestOK, StagesOf
    <2>2. ~CountsOpens(t, n) /\ (CountsOpens(t, n)' <=> req[t].node = n)
      BY <2>1 DEF CountsOpens, Serves
    <2>3. CASE req[t].node # n
      BY <1>0, <1>1, <2>1, <2>2, <2>3, CountStays DEF TypeOK
    <2>4. CASE req[t].node = n
      <3>1. HandlesOf(n)' = HandlesOf(n) /\ CountersOf(n)' = CountersOf(n) \cup {t} /\ t \notin CountersOf(n)
        BY <1>1, <2>1, <2>2, <2>4 DEF HandlesOf, CountersOf
      <3>2. Cardinality(CountersOf(n)') = Cardinality(CountersOf(n)) + 1
        BY <1>c, <3>1, FS_AddElement
      <3>3. opens'[n] = opens[n] + 1
        BY <1>0, <2>1, <2>4 DEF TypeOK
      <3> QED
        BY <1>0, <1>c, <1>n, <3>1, <3>2, <3>3 DEF CountOK
    <2> QED
      BY <2>3, <2>4
  <1>5. CASE DropOpen(t)
    <2>1. /\ opens' = [opens EXCEPT ![req[t].node] = @ - 1] /\ UNCHANGED <<hnode, req>>
          /\ pc[t] = "drop" \/ (pc[t] = "call" /\ req[t].op = "release")
          /\ pc'[t] \in {"erase", "done"}
      BY <1>0, <1>5 DEF DropOpen, Inside, kernelVars, Goto, At, Serves, TypeOK
    <2>2. ~CountsOpens(t, n)' /\ (CountsOpens(t, n) <=> req[t].node = n)
      BY <2>1 DEF CountsOpens, Serves
    <2>3. CASE req[t].node # n
      BY <1>0, <1>1, <2>1, <2>2, <2>3, CountStays DEF TypeOK
    <2>4. CASE req[t].node = n
      <3>1. HandlesOf(n)' = HandlesOf(n) /\ CountersOf(n)' = CountersOf(n) \ {t} /\ t \in CountersOf(n)
        BY <1>1, <2>1, <2>2, <2>4 DEF HandlesOf, CountersOf
      <3>2. Cardinality(CountersOf(n)') = Cardinality(CountersOf(n)) - 1
        BY <1>c, <3>1, FS_RemoveElement
      <3>3. opens'[n] = opens[n] - 1
        BY <1>0, <2>1, <2>4 DEF TypeOK
      <3> QED
        BY <1>0, <1>c, <1>n, <3>1, <3>2, <3>3 DEF CountOK
    <2> QED
      BY <2>3, <2>4
  <1>6. CASE Gives(t)
    <2>0. req[t].h \in Handles /\ hnode[req[t].h] = NoNode /\ req[t].node \in Nodes
      BY <1>0, <1>6 DEF Gives, RequestOK, Serves, FileOps
    <2>1. ~CountsOpens(t, n)' /\ (CountsOpens(t, n) <=> req[t].node = n)
      BY <1>f, <1>6 DEF Gives, CountsOpens, Serves, At, None, Request
    <2>3. CASE req[t].node # n
      BY <1>0, <1>1, <1>f, <1>6, <2>0, <2>1, <2>3, CountStays DEF Gives, TypeOK
    <2>4. CASE req[t].node = n
      <3>1. /\ HandlesOf(n)' = HandlesOf(n) \cup {req[t].h} /\ req[t].h \notin HandlesOf(n)
            /\ CountersOf(n)' = CountersOf(n) \ {t} /\ t \in CountersOf(n)
        BY <1>0, <1>1, <1>f, <1>6, <2>0, <2>1, <2>4 DEF HandlesOf, CountersOf, Gives, TypeOK
      <3>2. Cardinality(CountersOf(n)') = Cardinality(CountersOf(n)) - 1
        BY <1>c, <3>1, FS_RemoveElement
      <3>3. Cardinality(HandlesOf(n)') = Cardinality(HandlesOf(n)) + 1
        BY <1>c, <3>1, FS_AddElement
      <3>4. opens'[n] = opens[n]
        BY <1>6 DEF Gives
      <3> QED
        BY <1>0, <1>c, <1>n, <3>2, <3>3, <3>4 DEF CountOK
    <2> QED
      BY <2>3, <2>4
  <1>7. CASE TakesBack(t)
    BY <1>0, <1>1, <1>7, CountStays DEF TakesBack, CountsOpens, At, Serves
  <1>8. CASE Finish(t)
    <2>1. ~CountsOpens(t, n)' /\ ~CountsOpens(t, n)
      BY <1>0, <1>f, <1>8 DEF Finish, CountsOpens, Serves, TypeOK, None, Request, RequestOK, StagesOf
    <2> QED
      BY <1>0, <1>1, <1>8, <2>1, CountStays DEF Finish
  <1> QED
    BY <1>2, <1>3, <1>4, <1>5, <1>6, <1>7, <1>8, StepKinds, ReplyKinds

-----------------------------------------------------------------------------
(* The steps without a thread, and the first half of the invariant.        *)

(* A forgotten node is in no count.                                        *)
LEMMA ForgetBase ==
  ASSUME BaseInv, NEW n \in Nodes, Forget(n)
  PROVE  BaseInv'
  <1>0. TypeOK /\ ~Pinned(n) /\ PinsKnown
    BY DEF BaseInv, Forget
  <1>1. /\ UNCHANGED <<mounted, dir, opens, hidden, dentry, hnode, hfile, pc, req, path, found, got, shared, exclusive>>
        /\ known' = [known EXCEPT ![n] = FALSE]
        /\ name' \in [Nodes -> Entries \cup {NoName}]
    BY <1>0 DEF Forget, TypeOK, lockVars
  <1>2. TypeOK'
    BY <1>0, <1>1 DEF TypeOK
  <1>3. \A t \in Threads : RequestOK(t)'
    BY <1>1 DEF BaseInv, RequestOK
  <1>4. \A m \in Nodes : Pinned(m)' <=> Pinned(m)
    BY <1>1 DEF Pinned
  <1>5. PinsKnown'
    BY <1>0, <1>1, <1>4 DEF PinsKnown, TypeOK
  <1>6. HandlesFree' /\ HandleTable' /\ OneDirOp' /\ UsersOnly'
    BY <1>1 DEF BaseInv, HandlesFree, HandleTable, OneDirOp, UsersOnly, Serves
  <1>7. \A m \in Nodes : CountOK(m)'
    BY <1>0, <1>1, CountStays DEF BaseInv, CountsOpens, Serves
  <1> QED
    BY <1>2, <1>3, <1>5, <1>6, <1>7 DEF BaseInv

(* Nobody is served when the nodes are freed.                              *)
LEMMA IdleEnds ==
  ASSUME BaseInv, Destroy, NEW t \in Threads
  PROVE  pc[t] = "idle" /\ req[t] = None
  <1>1. pc[t] = "idle" /\ RequestOK(t)
    BY DEF BaseInv, Destroy, At
  <1> QED
    BY <1>1 DEF RequestOK, StagesOf, Ops, DirOps, FileOps


(* After fuse_destroy all counts are 0.                                    *)
LEMMA DestroyBase ==
  ASSUME BaseInv, Destroy
  PROVE  BaseInv'
  <1>0. TypeOK /\ \A t \in Threads : pc[t] = "idle" /\ req[t] = None
    BY IdleEnds DEF BaseInv
  <1>1. /\ mounted' = FALSE /\ UNCHANGED <<pc, req, path, found, got, shared, exclusive>>
        /\ name' = [n \in Nodes |-> NoName] /\ opens' = [n \in Nodes |-> 0]
        /\ hidden' = [n \in Nodes |-> FALSE] /\ known' = [n \in Nodes |-> FALSE]
        /\ dentry' = [e \in Entries |-> NoNode] /\ hnode' = [h \in Handles |-> NoNode]
        /\ hfile' = [h \in Handles |-> NoFile]
        /\ dir' \in [Entries -> Files \cup {NoFile}]
    BY <1>0 DEF Destroy, TypeOK, lockVars
  <1>2. TypeOK'
    BY <1>0, <1>1 DEF TypeOK
  <1>3. \A t \in Threads : RequestOK(t)'
    <2> SUFFICES ASSUME NEW t \in Threads
                 PROVE  RequestOK(t)'
      OBVIOUS
    <2>1. RequestOK(t) /\ req'[t] = None /\ pc[t] = "idle" /\ pc'[t] = "idle" /\ found'[t] = found[t]
      BY <1>0, <1>1 DEF BaseInv
    <2> QED
      BY <2>1 DEF RequestOK, None, Request, Ops, DirOps, FileOps, StagesOf
  <1>4. PinsKnown'
    BY <1>0, <1>1, FuseFilesAssumption DEF PinsKnown, Pinned, None, Request
  <1>6. HandlesFree' /\ HandleTable' /\ OneDirOp' /\ UsersOnly'
    BY <1>0, <1>1 DEF BaseInv, HandlesFree, HandleTable, OneDirOp, UsersOnly, Serves, None, Request, DirOps, Entries
  <1>7. ASSUME NEW n \in Nodes
        PROVE  CountOK(n)'
    <2>1. HandlesOf(n)' = {} /\ CountersOf(n)' = {}
      BY <1>0, <1>1, FuseFilesAssumption DEF HandlesOf, CountersOf, CountsOpens, Serves, None, Request
    <2> QED
      BY <1>1, <2>1, FS_EmptySet DEF CountOK
  <1> QED
    BY <1>2, <1>3, <1>4, <1>6, <1>7 DEF BaseInv

LEMMA InitBase == Init => BaseInv
  <1> SUFFICES ASSUME Init
               PROVE  BaseInv
    OBVIOUS
  <1>1. TypeOK
    BY DEF Init, TypeOK, PCs, None, Request
  <1>2. \A t \in Threads : RequestOK(t)
    BY DEF Init, RequestOK, None, Request, StagesOf, Ops, DirOps, FileOps
  <1>3. HandlesFree /\ HandleTable /\ PinsKnown /\ OneDirOp /\ UsersOnly
    BY FuseFilesAssumption DEF Init, HandlesFree, HandleTable, PinsKnown, Pinned, OneDirOp, UsersOnly, None,
       Request, DirOps, Serves, Entries
  <1>4. ASSUME NEW n \in Nodes
        PROVE  CountOK(n)
    <2>1. HandlesOf(n) = {} /\ CountersOf(n) = {}
      BY FuseFilesAssumption DEF Init, HandlesOf, CountersOf, CountsOpens, None, Request
    <2> QED
      BY <2>1, FS_EmptySet DEF Init, CountOK
  <1> QED
    BY <1>1, <1>2, <1>3, <1>4 DEF BaseInv

(* BaseInv is inductive.                                                   *)
LEMMA NextBase == BaseInv /\ [Next]_vars => BaseInv'
  <1> SUFFICES ASSUME BaseInv, [Next]_vars
               PROVE  BaseInv'
    OBVIOUS
  <1>1. CASE UNCHANGED vars
    <2> USE <1>1 DEF vars, nodeVars, kernelVars, lockVars
    <2>1. TypeOK'
      BY DEF BaseInv, TypeOK
    <2>2. \A t \in Threads : RequestOK(t)'
      BY DEF BaseInv, RequestOK
    <2>3. HandlesFree' /\ HandleTable' /\ PinsKnown' /\ OneDirOp' /\ UsersOnly'
      BY DEF BaseInv, HandlesFree, HandleTable, PinsKnown, Pinned, OneDirOp, UsersOnly, Serves
    <2>4. \A n \in Nodes : CountOK(n)'
      BY CountStays DEF BaseInv, CountsOpens, Serves
    <2> QED
      BY <2>1, <2>2, <2>3, <2>4 DEF BaseInv
  <1>2. ASSUME NEW t \in Threads, Step(t)
        PROVE  BaseInv'
    BY <1>2, TypesStep, RequestsStep, HandlesFreeStep, HandleTableStep, PinsStep, OneDirOpStep, CountStep
       DEF BaseInv
  <1> QED
    BY <1>1, <1>2, ForgetBase, DestroyBase DEF Next

LEMMA BaseInvariant == Spec => []BaseInv
  BY InitBase, NextBase, PTL DEF Spec

(* The variables of FuseFiles keep their types, in particular no           *)
(* open_count becomes negative, whether or not opens race with removals.   *)
THEOREM TypeCorrect == Spec => []TypeOK
  <1>1. BaseInv => TypeOK
    BY DEF BaseInv
  <1> QED
    BY <1>1, BaseInvariant, PTL

(* open_count is the number of opens that fuse_do_release has still to     *)
(* take back: the kernel's handles, the opens not answered yet, and the    *)
(* releases not counted yet.                                               *)
THEOREM CountsExact == Spec => []OpenCountExact
  <1>1. BaseInv => OpenCountExact
    BY DEF BaseInv, OpenCountExact, CountOK, HandlesOf, CountersOf
  <1> QED
    BY <1>1, BaseInvariant, PTL

-----------------------------------------------------------------------------
(* Names, files and handles, when no file is opened while its entry is     *)
(* being removed or replaced (OpenRaces = FALSE).                          *)

Opening(n) == \E t \in Threads : Serves(t, "open") /\ req[t].node = n
Removing(t) == req[t].op \in {"unlink", "rename"}
Changed(t) == IF Serves(t, "unlink") THEN {req[t].nm} ELSE {req[t].nm, req[t].to}

Exclusion ==
  \A t, u \in Threads :
    exclusive[t] \cap shared[u] = {} /\ (t # u => exclusive[t] \cap exclusive[u] = {})

(* A node with a name is alive, no two have one name, no two entries are   *)
(* one file.                                                               *)
NamedAlive == \A n \in Nodes : name[n] # NoName => Alive(n)
UniqueNames == \A m, n \in Nodes : name[m] = name[n] => m = n \/ name[m] = NoName
OneEntry == \A e1, e2 \in Entries : dir[e1] = dir[e2] => e1 = e2 \/ dir[e1] = NoFile

(* What is marked is hidden and open; what is open has a name, what is     *)
(* being opened one that users chose.                                      *)
MarkedOK(n) == hidden[n] => name[n] \in HiddenNames /\ opens[n] > 0
OpenNamed(n) == (opens[n] > 0 => name[n] # NoName) /\ (Opening(n) => name[n] \in Names)

(* The node of an entry that is about to change is locked by the thread    *)
(* that changes it, or is one that a revalidation has made since, which    *)
(* nobody has open and nobody can open.                                    *)
Fresh(n) == opens[n] = 0 /\ ~Opening(n) /\ dentry[name[n]] # n
Grabs(t) ==
  Removing(t) /\ pc[t] \in {"check", "hide", "hidden", "call", "table"} =>
    \A n \in Nodes : name[n] \in Changed(t) => n \in exclusive[t] \/ Fresh(n)

(* Nobody is opening the victim; is_open is true until it is hidden, and   *)
(* false when the file system removes it.                                  *)
NoOpening(t) ==
  Removing(t) /\ pc[t] \in {"sent", "check", "hide", "hidden", "call", "table"} =>
    \A n \in Nodes : Opening(n) => name[n] # Victim(t)
VictimClosed(t) ==
  Removing(t) /\ pc[t] \in {"call", "table"} =>
    \A n \in Nodes : name[n] = Victim(t) => opens[n] = 0
VictimOpen(t) ==
  pc[t] \in {"hide", "hidden"} => \E n \in Nodes : name[n] = Victim(t) /\ opens[n] > 0

(* Between the rename to a hidden name and the change of the node, the     *)
(* file is at the hidden name alone.                                       *)
HiddenAlone(t) ==
  At(t, "hidden") =>
    /\ path[t] \in HiddenNames /\ dir[path[t]] # NoFile /\ dir[Victim(t)] = NoFile
    /\ \A n \in Nodes : name[n] # path[t]

RemoverOK(t) ==
  Grabs(t) /\ NoOpening(t) /\ VictimClosed(t) /\ VictimOpen(t) /\ HiddenAlone(t)

(* Who works on an open file has a path that leads to it and keeps it so.  *)
PathOK(t) ==
  req[t].op \in FileOps /\ pc[t] \in {"call", "opened", "counted", "drop", "erase"} =>
    path[t] = name[req[t].node] /\ req[t].node \in shared[t]
GotOK(t) == pc[t] \in {"opened", "counted", "drop"} => dir[path[t]] = got[t]
EraserOK(t) == At(t, "erase") => path[t] \in HiddenNames /\ opens[req[t].node] = 0
UseOK(t) == Serves(t, "use") => pc[t] \notin {"refused", "failed"}
UserOK(t) == PathOK(t) /\ GotOK(t) /\ EraserOK(t) /\ UseOK(t)

(* The file of a handle is at the name of the node, but while the entry of *)
(* the node has moved already and the node not yet.                        *)
Moved(t, n) ==
  \/ At(t, "hidden") /\ name[n] = Victim(t)
  \/ At(t, "table") /\ Serves(t, "rename") /\ name[n] = req[t].nm
Place(t) == IF At(t, "hidden") THEN path[t] ELSE req[t].to
HandleAt(h, n) ==
  /\ \A t \in Threads : Moved(t, n) => dir[Place(t)] = hfile[h]
  /\ (\A t \in Threads : ~Moved(t, n)) => dir[name[n]] = hfile[h]
HandleOK(h) == hnode[h] # NoNode => HandleAt(h, hnode[h])

FileInv ==
  /\ Exclusion /\ NamedAlive /\ UniqueNames /\ OneEntry
  /\ \A n \in Nodes : MarkedOK(n) /\ OpenNamed(n)
  /\ \A t \in Threads : RemoverOK(t) /\ UserOK(t)
  /\ \A h \in Handles : HandleOK(h)

-----------------------------------------------------------------------------
(* What the stage of a request says.                                       *)

LEMMA StageOps ==
  ASSUME BaseInv, NEW t \in Threads
  PROVE  /\ pc[t] \in {"check", "hide", "hidden"} => Removing(t)
         /\ pc[t] \in {"opened", "counted", "drop"} => Serves(t, "open")
         /\ pc[t] = "erase" => req[t].op \in {"open", "release"}
         /\ Removing(t) => req[t].op \in DirOps /\ req[t].nm \in Names /\ Victim(t) \in Names
         /\ Removing(t) => Changed(t) \subseteq Names /\ Victim(t) \in Changed(t) /\ req[t].nm \in Changed(t)
         /\ Serves(t, "rename") => req[t].to \in Names /\ req[t].nm # req[t].to /\ Victim(t) = req[t].to
         /\ Serves(t, "unlink") => Victim(t) = req[t].nm
         /\ req[t].op \in FileOps => req[t].node \in Nodes
         /\ ~(Removing(t) /\ req[t].op \in FileOps)
  <1>1. RequestOK(t)
    BY DEF BaseInv
  <1> QED
    BY <1>1 DEF RequestOK, StagesOf, Removing, Victim, Changed, Serves, DirOps, FileOps, Ops

(* At most one thread removes or replaces an entry.                        *)
LEMMA OneRemover ==
  ASSUME BaseInv, NEW t \in Threads, NEW u \in Threads, Removing(t), req[u].op \in DirOps
  PROVE  t = u
  BY DEF BaseInv, OneDirOp, Removing, DirOps

LEMMA NamesApart ==
  ASSUME NEW e \in HiddenNames
  PROVE  e \notin Names /\ e \in Entries /\ e # NoName
  BY FuseFilesAssumption DEF Entries

LEMMA NamesAreEntries ==
  ASSUME NEW e \in Names
  PROVE  e \notin HiddenNames /\ e \in Entries /\ e # NoName
  BY FuseFilesAssumption DEF Entries

(* The node of an entry is unique.                                         *)
LEMMA LookupFacts ==
  ASSUME UniqueNames, NEW e
  PROVE  /\ \A n \in Nodes : name[n] = e /\ e # NoName => LookupNode(e) = n
         /\ LookupNode(e) # NoNode => LookupNode(e) \in Nodes /\ name[LookupNode(e)] = e
         /\ LookupNode(e) = NoNode <=> \A n \in Nodes : name[n] # e
  <1>1. CASE \E n \in Nodes : name[n] = e
    <2>1. LookupNode(e) \in Nodes /\ name[LookupNode(e)] = e
      BY <1>1 DEF LookupNode
    <2> QED
      BY <2>1, FuseFilesAssumption DEF UniqueNames
  <1>2. CASE ~\E n \in Nodes : name[n] = e
    BY <1>2 DEF LookupNode
  <1> QED
    BY <1>1, <1>2

(* Whom the kernel does not know nobody has open, and nobody can open.     *)
LEMMA UnpinnedFree ==
  ASSUME BaseInv, NEW n \in Nodes, ~Pinned(n)
  PROVE  /\ opens[n] = 0 /\ ~Opening(n) /\ \A e \in Entries : dentry[e] # n
         /\ \A h \in Handles : hnode[h] # n
  <1>1. HandlesOf(n) = {} /\ CountersOf(n) = {}
    BY DEF Pinned, HandlesOf, CountersOf, CountsOpens
  <1>2. opens[n] = 0
    BY <1>1, FS_EmptySet DEF CountOK, BaseInv
  <1> QED
    BY <1>2 DEF Pinned, Opening

LEMMA PinnedKnown ==
  ASSUME BaseInv, NEW n \in Nodes, ~known[n]
  PROVE  ~Pinned(n)
  BY DEF BaseInv, PinsKnown

(* Of whom somebody counts on, an open is counted or under way.            *)
LEMMA UsersOpen ==
  ASSUME BaseInv, NEW t \in Threads
  PROVE  /\ Serves(t, "open") => Opening(req[t].node)
         /\ Serves(t, "use") => opens[req[t].node] > 0 /\ req[t].h \in Handles /\ hnode[req[t].h] = req[t].node
         /\ Serves(t, "release") /\ pc[t] \in {"sent", "call"} => opens[req[t].node] > 0
         /\ req[t].op \in FileOps => Pinned(req[t].node)
  <1>1. TypeOK /\ RequestOK(t)
    BY DEF BaseInv
  <1>2. ASSUME Serves(t, "use")
        PROVE  opens[req[t].node] > 0 /\ req[t].h \in Handles /\ hnode[req[t].h] = req[t].node
    BY <1>1, <1>2, CountedOpen DEF BaseInv, RequestOK, Serves, FileOps
  <1>3. ASSUME Serves(t, "release"), pc[t] \in {"sent", "call"}
        PROVE  opens[req[t].node] > 0
    BY <1>1, <1>3, CountedOpen DEF BaseInv, RequestOK, Serves, FileOps, CountsOpens
  <1> QED
    BY <1>1, <1>2, <1>3 DEF Opening, Pinned

(* The node of a handle is open and known.                                 *)
LEMMA HandleOpen ==
  ASSUME BaseInv, NEW h \in Handles, hnode[h] # NoNode
  PROVE  hnode[h] \in Nodes /\ opens[hnode[h]] > 0 /\ hfile[h] \in Files /\ hfile[h] # NoFile
         /\ known[hnode[h]]
  <1>1. TypeOK /\ HandleTable /\ PinsKnown
    BY DEF BaseInv
  <1>2. hnode[h] \in Nodes
    BY <1>1 DEF TypeOK
  <1>3. opens[hnode[h]] > 0
    BY <1>1, <1>2, CountedOpen DEF BaseInv
  <1>4. hfile[h] \in Files /\ hfile[h] # NoFile
    BY <1>1, FuseFilesAssumption DEF TypeOK, HandleTable
  <1> QED
    BY <1>1, <1>2, <1>3, <1>4 DEF PinsKnown, Pinned

(* The entry of an open node that somebody holds is not on its way.        *)
LEMMA Settled ==
  ASSUME BaseInv, FileInv, NEW u \in Threads, NEW n \in shared[u], n \in Nodes,
         opens[n] > 0 \/ Opening(n), NEW t \in Threads
  PROVE  /\ ~Moved(t, n)
         /\ Removing(t) /\ pc[t] \in {"check", "hide", "hidden", "call", "table"} => name[n] \notin Changed(t)
  <1>1. ASSUME Removing(t), pc[t] \in {"check", "hide", "hidden", "call", "table"}, name[n] \in Changed(t)
        PROVE  FALSE
    <2>1. n \in exclusive[t]
      BY <1>1 DEF FileInv, RemoverOK, Grabs, Fresh
    <2> QED
      BY <2>1 DEF FileInv, Exclusion
  <1> QED
    BY <1>1, StageOps DEF Moved, At, Serves, Removing

-----------------------------------------------------------------------------
(* What a step of a thread does to names, counts, opens and entries.       *)

Appears(t, n) ==
  /\ ChangeTable(t) /\ req[t].op \in {"lookup", "revalidate", "mknod"}
  /\ name[n] = NoName /\ ~Pinned(n) /\ name'[n] = req[t].nm /\ req[t].nm \in Names
Vanishes(n) ==
  /\ name'[n] = NoName /\ opens[n] = 0 /\ ~Opening(n)
  /\ name[n] \in Names \/ ~Pinned(n)
Hides(t, n) ==
  /\ HideNode(t) /\ name[n] = Victim(t) /\ name'[n] = path[t] /\ path[t] \in HiddenNames
Renames(t, n) ==
  /\ ChangeTable(t) /\ At(t, "table") /\ Serves(t, "rename")
  /\ name[n] = req[t].nm /\ name'[n] = req[t].to

(* find_node takes the node of the entry or one nobody counts on.          *)
LEMMA FindNodeFacts ==
  ASSUME BaseInv, FileInv, NEW t \in Threads, NEW e \in Names, FindNode(t, e)
  PROVE  \E n \in Nodes :
           /\ found' = [found EXCEPT ![t] = n]
           /\ name' = [name EXCEPT ![n] = e]
           /\ name[n] = e \/ (name[n] = NoName /\ ~Pinned(n) /\ ~Alive(n) /\ \A m \in Nodes : name[m] # e)
           /\ opens' = opens /\ hidden' = hidden
  <1>0. TypeOK /\ UniqueNames /\ NamedAlive
    BY DEF BaseInv, FileInv
  <1>1. PICK n \in IF LookupNode(e) # NoNode THEN {LookupNode(e)} ELSE {m \in Nodes : ~Alive(m)} :
          /\ found' = [found EXCEPT ![t] = n]
          /\ name' = [name EXCEPT ![n] = e]
          /\ hidden' = [hidden EXCEPT ![n] = IF Alive(n) THEN @ ELSE FALSE]
    BY DEF FindNode
  <1>2. opens' = opens
    BY NodesFound
  <1>3. CASE LookupNode(e) # NoNode
    <2>1. n \in Nodes /\ name[n] = e /\ Alive(n)
      BY <1>0, <1>1, <1>3, LookupFacts, NamesAreEntries DEF NamedAlive
    <2>2. hidden' = hidden
      BY <1>0, <1>1, <2>1, Zenon DEF TypeOK
    <2> QED
      BY <1>1, <1>2, <2>1, <2>2
  <1>4. CASE LookupNode(e) = NoNode
    <2>1. n \in Nodes /\ ~Alive(n) /\ (\A m \in Nodes : name[m] # e)
      BY <1>0, <1>1, <1>4, LookupFacts
    <2>2. name[n] = NoName /\ ~Pinned(n) /\ opens[n] = 0
      BY <1>0, <2>1, PinnedKnown, UnpinnedFree DEF NamedAlive, Alive
    <2>3. hidden[n] = FALSE
      BY <1>0, <2>1, <2>2 DEF FileInv, MarkedOK, TypeOK
    <2>4. hidden' = [hidden EXCEPT ![n] = FALSE]
      BY <1>1, <2>1
    <2>5. hidden' = hidden
      BY <1>0, <2>3, <2>4, Zenon DEF TypeOK
    <2> QED
      BY <1>1, <1>2, <2>1, <2>2, <2>5
  <1> QED
    BY <1>3, <1>4

(* rename_node moves one node and unnames the one in its way.              *)
LEMMA RenameNodeFacts ==
  ASSUME UniqueNames, NEW e \in Names, NEW to \in Names \ {e}, RenameNode(e, to)
  PROVE  /\ opens' = opens /\ hidden' = hidden
         /\ \A n \in Nodes : name[n] = e => name'[n] = to
         /\ \A n \in Nodes : name[n] # e =>
               \/ name'[n] = name[n] /\ (name[n] = to => \A m \in Nodes : name[m] # e)
               \/ name'[n] = NoName /\ name[n] = to
         /\ \A n \in Nodes : name'[n] \in {name[n], to, NoName}
  <1>1. opens' = opens /\ hidden' = hidden
    BY DEF RenameNode
  <1>2. e # NoName /\ to # NoName
    BY NamesAreEntries
  <1>3. LookupNode(e) = NoNode <=> \A n \in Nodes : name[n] # e
    BY LookupFacts
  <1>4. \A n \in Nodes : name'[n] = CASE LookupNode(e) = NoNode -> name[n]
                                    [] name[n] = e -> to
                                    [] name[n] = to -> NoName
                                    [] OTHER -> name[n]
    BY DEF RenameNode
  <1>5. CASE LookupNode(e) = NoNode
    BY <1>1, <1>3, <1>4, <1>5
  <1>6. CASE LookupNode(e) # NoNode
    <2>1. ASSUME NEW n \in Nodes, name[n] = e
          PROVE  name'[n] = to
      BY <1>2, <1>4, <1>6, <2>1
    <2>2. ASSUME NEW n \in Nodes, name[n] # e
          PROVE  (name[n] = to => name'[n] = NoName) /\ (name[n] # to => name'[n] = name[n])
      BY <1>4, <1>6, <2>2
    <2> QED
      BY <1>1, <2>1, <2>2
  <1> QED
    BY <1>5, <1>6

(* Every change of a name is one of the four.                              *)
LEMMA NameSteps ==
  ASSUME BaseInv, FileInv, NEW t \in Threads, Step(t), NEW n \in Nodes, name'[n] # name[n]
  PROVE  Appears(t, n) \/ Vanishes(n) \/ Hides(t, n) \/ Renames(t, n)
  <1>0. TypeOK /\ UniqueNames /\ RequestOK(t) /\ RemoverOK(t)
    BY DEF BaseInv, FileInv
  <1>1. ~Sends(t) /\ ~ReplyOpen(t)
    BY SendsAlone, ReplyKinds DEF Gives, TakesBack
  <1>2. CASE Works(t)
    <2>1. HideNode(t) \/ ChangeTable(t)
      BY <1>2 DEF Works, GrantFile, GrantDir, Check, Hide, FsUnlink, FsRename, FsMknod, FsGetattr, FsOpen,
         FsUse, CountOpen, DropOpen, EraseHidden, Calling, Inside, Fails, nodeVars
    <2>2. CASE HideNode(t)
      <3>1. name' = [name EXCEPT ![LookupNode(Victim(t))] = path[t]] /\ At(t, "hidden")
        BY <2>2 DEF HideNode
      <3>2. n = LookupNode(Victim(t)) /\ name'[n] = path[t]
        BY <1>0, <3>1 DEF TypeOK
      <3>3. name[n] = Victim(t)
        BY <1>0, <3>2, LookupFacts, FuseFilesAssumption
      <3> QED
        BY <1>0, <2>2, <3>1, <3>2, <3>3 DEF Hides, RemoverOK, HiddenAlone
    <2>3. CASE ChangeTable(t)
      <3>1. CASE req[t].op \in {"lookup", "revalidate", "mknod"}
        <4>1. req[t].nm \in Names /\ FindNode(t, req[t].nm)
          BY <1>0, <2>3, <3>1 DEF ChangeTable, RequestOK, DirOps
        <4>2. name[n] = NoName /\ ~Pinned(n) /\ name'[n] = req[t].nm
          BY <1>0, <4>1, FindNodeFacts DEF TypeOK
        <4> QED
          BY <2>3, <3>1, <4>1, <4>2 DEF Appears
      <3>2. CASE Serves(t, "unlink")
        <4>1. name[n] = req[t].nm /\ name'[n] = NoName
          BY <2>3, <3>2 DEF ChangeTable, RemoveNode, Serves
        <4>2. opens[n] = 0 /\ ~Opening(n) /\ name[n] \in Names
          BY <1>0, <2>3, <3>2, <4>1, StageOps DEF RemoverOK, VictimClosed, NoOpening, ChangeTable, At, Removing, Serves
        <4> QED
          BY <4>1, <4>2 DEF Vanishes
      <3>3. CASE Serves(t, "rename")
        <4>1. RenameNode(req[t].nm, req[t].to) /\ req[t].nm \in Names /\ req[t].to \in Names \ {req[t].nm} /\ Victim(t) = req[t].to
          BY <2>3, <3>3, StageOps DEF ChangeTable, Serves, Removing
        <4>2. CASE name[n] = req[t].nm
          BY <1>0, <2>3, <3>3, <4>1, <4>2, RenameNodeFacts DEF Renames, ChangeTable
        <4>3. CASE name[n] # req[t].nm
          <5>1. name'[n] = NoName /\ name[n] = req[t].to
            BY <1>0, <4>1, <4>3, RenameNodeFacts
          <5>2. opens[n] = 0 /\ ~Opening(n)
            BY <1>0, <2>3, <3>3, <4>1, <5>1 DEF RemoverOK, VictimClosed, NoOpening, ChangeTable, At, Removing, Serves
          <5> QED
            BY <4>1, <5>1, <5>2 DEF Vanishes
        <4> QED
          BY <4>2, <4>3
      <3> QED
        BY <2>3, <3>1, <3>2, <3>3 DEF ChangeTable, Serves
    <2> QED
      BY <2>1, <2>2, <2>3
  <1>3. CASE Finish(t)
    <2>1. name'[n] = NoName /\ ~known[n]
      BY <1>0, <1>3 DEF Finish, TypeOK
    <2> QED
      BY <2>1, PinnedKnown, UnpinnedFree DEF Vanishes
  <1> QED
    BY <1>1, <1>2, <1>3, StepKinds

(* A node that is open or being opened keeps its name, unless it is hidden *)
(* or renamed; and so does a hidden node that a request is about.          *)
LEMMA NameStays ==
  ASSUME BaseInv, FileInv, NEW t \in Threads, Step(t), NEW n \in Nodes,
         opens[n] > 0 \/ Opening(n) \/ (name[n] \in HiddenNames /\ Pinned(n))
  PROVE  name'[n] = name[n] \/ Hides(t, n) \/ Renames(t, n)
  <1>1. ~Appears(t, n)
    BY UnpinnedFree, NamesApart DEF Appears
  <1>2. ~Vanishes(n)
    BY UnpinnedFree, NamesApart DEF Vanishes
  <1> QED
    BY <1>1, <1>2, NameSteps

(* open_count changes when an open is counted or dropped.                  *)
LEMMA OpensSteps ==
  ASSUME BaseInv, NEW t \in Threads, Step(t), NEW n \in Nodes, opens'[n] # opens[n]
  PROVE  /\ req[t].node = n
         /\ UNCHANGED <<dir, name, req, dentry, hnode, hfile>>
         /\ \/ CountOpen(t) /\ Opening(n) /\ opens'[n] = opens[n] + 1 /\ hidden'[n] = hidden[n]
            \/ DropOpen(t) /\ opens[n] > 0 /\ opens'[n] = opens[n] - 1
                 /\ (req[t].op \in FileOps) /\ pc[t] \in {"call", "drop"}
  <1>0. TypeOK /\ RequestOK(t)
    BY DEF BaseInv
  <1>1. CASE CountOpen(t)
    <2>1. /\ opens' = [opens EXCEPT ![req[t].node] = @ + 1] /\ At(t, "opened")
          /\ UNCHANGED <<dir, name, hidden, req, dentry, hnode, hfile>>
      BY <1>1 DEF CountOpen, Inside, kernelVars
    <2>2. Serves(t, "open")
      BY <2>1, StageOps DEF At
    <2> QED
      BY <1>0, <1>1, <2>1, <2>2 DEF TypeOK, Opening
  <1>2. CASE DropOpen(t)
    <2>1. /\ opens' = [opens EXCEPT ![req[t].node] = @ - 1]
          /\ At(t, "drop") \/ (At(t, "call") /\ Serves(t, "release"))
          /\ UNCHANGED <<dir, name, req, dentry, hnode, hfile>>
      BY <1>2 DEF DropOpen, Inside, kernelVars
    <2>2. req[t].op \in FileOps
      BY <2>1, StageOps DEF At, Serves, FileOps
    <2>3. req[t].node = n /\ opens'[n] = opens[n] - 1
      BY <1>0, <2>1 DEF TypeOK
    <2>4. opens[n] > 0
      BY <1>0, <2>1, <2>3, CountedOpen DEF BaseInv, CountsOpens, At
    <2> QED
      BY <1>2, <2>1, <2>2, <2>3, <2>4 DEF At
  <1>3. CASE Works(t) /\ ~CountOpen(t) /\ ~DropOpen(t)
    BY <1>3, NodesFound DEF Works, GrantFile, GrantDir, Check, Hide, HideNode, FsUnlink, FsRename, FsMknod,
       FsGetattr, FsOpen, FsUse, ChangeTable, RemoveNode, RenameNode, EraseHidden, Calling, Inside, Fails,
       nodeVars
  <1>4. CASE Sends(t) \/ ReplyOpen(t) \/ Finish(t)
    BY <1>4, SendsAlone, ReplyKinds DEF Gives, TakesBack, Finish
  <1> QED
    BY <1>1, <1>2, <1>3, <1>4, StepKinds

(* Only an open that is sent for a dentry opens another node.              *)
LEMMA OpeningSteps ==
  ASSUME BaseInv, ~OpenRaces, NEW t \in Threads, Step(t), NEW n \in Nodes, Opening(n)', ~Opening(n)
  PROVE  /\ Sends(t) /\ UNCHANGED <<dir, name, opens, hidden, dentry>>
         /\ \E e \in Names : dentry[e] = n /\ name[n] = e /\ \A u \in Threads : ~Removes(u, e)
  <1>0. TypeOK /\ \A u \in Threads : u # t => Untouched(u)
    BY OthersWait DEF BaseInv
  <1>1. req'[t].op = "open" /\ req'[t].node = n /\ ~(req[t].op = "open" /\ req[t].node = n)
    BY <1>0 DEF Opening, Serves, Untouched
  <1>2. Sends(t)
    <2>1. CASE ~Sends(t)
      <3>1. req'[t] \in {req[t], None}
        BY <1>0, <2>1, StepKinds, WorksAlone, ReplyKinds DEF Gives, TakesBack, Finish, TypeOK
      <3> QED
        BY <1>1, <3>1 DEF None, Request
    <2> QED
      BY <2>1
  <1>3. \E e \in Names : dentry[e] = n /\ MayOpen(e)
    BY <1>1, <1>2, RequestSent
  <1> QED
    BY <1>2, <1>3, SendsAlone DEF MayOpen

(* Every call of the file system that changes an entry.                    *)
LEMMA EntrySteps ==
  ASSUME BaseInv, NEW t \in Threads, Step(t), NEW e \in Entries, dir'[e] # dir[e]
  PROVE  /\ UNCHANGED <<name, opens, hidden, dentry, hnode, hfile, req>>
         /\ \/ Hide(t) /\ e = Victim(t)
            \/ Hide(t) /\ e = path'[t] /\ e \in HiddenNames /\ dir[e] = NoFile /\ LookupNode(e) = NoNode
            \/ FsUnlink(t) /\ e = Victim(t)
            \/ FsRename(t) /\ e \in {req[t].nm, req[t].to}
            \/ FsMknod(t) /\ e = req[t].nm /\ dir[e] = NoFile
            \/ EraseHidden(t) /\ e = path[t]
  <1>0. TypeOK /\ RequestOK(t)
    BY DEF BaseInv
  <1>1. Works(t)
    BY StepKinds, SendsAlone, ReplyKinds DEF Gives, TakesBack, Finish
  <1>2. Hide(t) \/ FsUnlink(t) \/ FsRename(t) \/ FsMknod(t) \/ EraseHidden(t)
    BY <1>1 DEF Works, GrantFile, GrantDir, Check, HideNode, FsGetattr, FsOpen, FsUse, ChangeTable, CountOpen,
       DropOpen, Calling, Inside, Fails
  <1>3. UNCHANGED <<name, opens, hidden, dentry, hnode, hfile, req>>
    BY <1>1, <1>2, WorksAlone DEF Hide, FsUnlink, FsRename, FsMknod, EraseHidden, nodeVars, Fails
  <1>4. CASE Hide(t)
    <2>1. PICK x \in HiddenNames : /\ ~Exists(x) /\ LookupNode(x) = NoNode
                                   /\ XmpRename(Victim(t), x) /\ path' = [path EXCEPT ![t] = x]
      BY <1>4 DEF Hide, Fails
    <2>2. path'[t] = x /\ dir[x] = NoFile
      BY <1>0, <2>1 DEF TypeOK, Exists
    <2>3. e = Victim(t) \/ e = x
      BY <1>0, <2>1 DEF XmpRename, TypeOK
    <2> QED
      BY <1>3, <1>4, <2>1, <2>2, <2>3
  <1>5. CASE FsUnlink(t)
    BY <1>0, <1>3, <1>5 DEF FsUnlink, XmpUnlink, Fails, TypeOK, Calling, Victim
  <1>6. CASE FsRename(t)
    BY <1>0, <1>3, <1>6 DEF FsRename, XmpRename, Fails, TypeOK
  <1>7. CASE FsMknod(t)
    BY <1>0, <1>3, <1>7 DEF FsMknod, XmpMknod, Fails, TypeOK, Exists
  <1>8. CASE EraseHidden(t)
    BY <1>0, <1>3, <1>8 DEF EraseHidden, TypeOK
  <1> QED
    BY <1>2, <1>4, <1>5, <1>6, <1>7, <1>8

-----------------------------------------------------------------------------
(* The locks, the names and the entries.                                   *)

(* The path lock excludes, as LockTable says.                              *)
LEMMA ExclusionStep ==
  ASSUME BaseInv, FileInv, NEW t \in Threads, Step(t)
  PROVE  Exclusion'
  <1>0. TypeOK /\ Exclusion /\ \A u \in Threads : u # t => Untouched(u)
    BY OthersWait DEF BaseInv, FileInv
  <1>1. CASE \E S, X : Lock(t, S, X)
    <2>1. PICK S, X : Lock(t, S, X)
      BY <1>1
    <2>2. shared'[t] = S /\ exclusive'[t] = X
      BY <1>0, <2>1 DEF Lock, TypeOK
    <2>3. /\ S \cap X = {}
          /\ \A u \in Threads \ {t} : S \cap exclusive[u] = {} /\ X \cap (shared[u] \cup exclusive[u]) = {}
      BY <2>1 DEF Lock, Locks!Compatible
    <2> QED
      BY <1>0, <2>2, <2>3 DEF Exclusion, Untouched
  <1>2. CASE Finish(t)
    <2>1. shared'[t] = {} /\ exclusive'[t] = {}
      BY <1>0, <1>2 DEF Finish, TypeOK
    <2> QED
      BY <1>0, <2>1 DEF Exclusion, Untouched
  <1>3. CASE ~(\E S, X : Lock(t, S, X)) /\ ~Finish(t)
    <2>1. UNCHANGED <<shared, exclusive>>
      BY <1>3, StepKinds, SendsAlone, ReplyKinds DEF Gives, TakesBack, Works, GrantFile, GrantDir, Check, Hide,
         HideNode, FsUnlink, FsRename, FsMknod, FsGetattr, FsOpen, FsUse, ChangeTable, CountOpen, DropOpen,
         EraseHidden, Calling, Inside, lockVars
    <2> QED
      BY <1>0, <2>1 DEF Exclusion
  <1> QED
    BY <1>1, <1>2, <1>3

(* A node loses its name when nobody knows it any more.                    *)
LEMMA NamedAliveStep ==
  ASSUME BaseInv, FileInv, NEW t \in Threads, Step(t)
  PROVE  NamedAlive'
  <1>0. TypeOK /\ NamedAlive /\ RequestOK(t) /\ \A u \in Threads : u # t => Untouched(u)
    BY OthersWait DEF BaseInv, FileInv
  <1> SUFFICES ASSUME NEW n \in Nodes, name'[n] # NoName
               PROVE  known'[n] \/ \E u \in Threads : found'[u] = n
    BY DEF NamedAlive, Alive
  <1>1. CASE name[n] = NoName
    <2>1. Appears(t, n) \/ Hides(t, n) \/ Renames(t, n)
      BY <1>1, NameSteps DEF Vanishes
    <2>2. CASE Appears(t, n)
      <3>1. FindNode(t, req[t].nm) /\ req[t].nm \in Names
        BY <2>2 DEF Appears, ChangeTable
      <3>2. found'[t] = n
        BY <1>0, <1>1, <3>1, FindNodeFacts DEF TypeOK
      <3> QED
        BY <3>2
    <2>3. CASE Hides(t, n) \/ Renames(t, n)
      BY <1>1, <2>3, StageOps, NamesAreEntries DEF Hides, Renames, HideNode, At, Serves, Removing
    <2> QED
      BY <2>1, <2>2, <2>3
  <1>2. CASE name[n] # NoName
    <2>1. Alive(n)
      BY <1>0, <1>2 DEF NamedAlive
    <2>2. CASE known[n]
      BY <1>0, <2>2, StaysKnown
    <2>3. CASE \E u \in Threads \ {t} : found[u] = n
      BY <1>0, <2>3 DEF Untouched
    <2>4. CASE found[t] = n /\ ~known[n] /\ ~\E u \in Threads \ {t} : found[u] = n
      <3>1. pc[t] = "done"
        BY <1>0, <2>4, FuseFilesAssumption DEF RequestOK
      <3>2. Finish(t)
        BY <1>0, <3>1, StepKinds, RequestSent DEF Works, GrantFile, GrantDir, Check, Hide, HideNode, FsUnlink,
           FsRename, FsMknod, FsGetattr, FsOpen, FsUse, ChangeTable, CountOpen, DropOpen, EraseHidden,
           ReplyOpen, Calling, At
      <3>3. CASE known' = [m \in Nodes |-> known[m] \/ m = found[t]]
        BY <2>4, <3>3
      <3>4. CASE name' = [name EXCEPT ![n] = NoName]
        BY <1>0, <3>4 DEF TypeOK
      <3> QED
        BY <2>4, <3>2, <3>3, <3>4 DEF Finish
    <2> QED
      BY <2>1, <2>2, <2>3, <2>4 DEF Alive
  <1> QED
    BY <1>1, <1>2

(* A name is given to a node when no other has it.                         *)
LEMMA UniqueNamesStep ==
  ASSUME BaseInv, FileInv, NEW t \in Threads, Step(t)
  PROVE  UniqueNames'
  <1>0. TypeOK /\ UniqueNames /\ RequestOK(t) /\ RemoverOK(t)
    BY DEF BaseInv, FileInv
  <1> SUFFICES ASSUME NEW m \in Nodes, NEW n \in Nodes, name'[m] = name'[n], m # n, name'[m] # NoName,
                      name'[m] # name[m]
               PROVE  FALSE
    <2>1. \A m, n \in Nodes : name'[m] = name'[n] /\ m # n /\ name'[m] # NoName => name'[m] = name[m]
      OBVIOUS
    <2> QED
      BY <1>0, <2>1 DEF UniqueNames
  <1>1. CASE Appears(t, m)
    <2>1. FindNode(t, req[t].nm) /\ req[t].nm \in Names /\ name[m] # req[t].nm
      BY <1>1, NamesAreEntries DEF Appears, ChangeTable
    <2>2. PICK c \in Nodes : /\ name' = [name EXCEPT ![c] = req[t].nm]
                             /\ name[c] = req[t].nm \/ \A i \in Nodes : name[i] # req[t].nm
      BY <2>1, FindNodeFacts
    <2>3. c = m /\ name'[m] = req[t].nm
      BY <1>0, <1>1, <2>2 DEF TypeOK, Appears
    <2>4. name[n] # req[t].nm /\ name'[n] = name[n]
      BY <1>0, <2>1, <2>2, <2>3 DEF TypeOK
    <2> QED
      BY <2>3, <2>4
  <1>2. CASE Hides(t, m)
    <2>1. name'[n] # name[n]
      BY <1>0, <1>2 DEF Hides, HideNode, RemoverOK, HiddenAlone
    <2>2. Hides(t, n)
      BY <1>0, <1>2, <2>1, NameSteps, StageOps, NamesApart DEF Hides, Appears, Vanishes, Renames, HideNode, At, ChangeTable
    <2> QED
      BY <1>0, <1>2, <2>2, StageOps, NamesAreEntries DEF Hides, UniqueNames, HideNode, At, Removing
  <1>3. CASE Renames(t, m)
    <2>1. /\ RenameNode(req[t].nm, req[t].to) /\ req[t].nm \in Names /\ req[t].to \in Names \ {req[t].nm}
          /\ name'[m] = req[t].to /\ name[m] = req[t].nm
      BY <1>3, StageOps DEF Renames, ChangeTable, Serves, Removing
    <2>2. name[n] # req[t].nm
      BY <1>0, <2>1, NamesAreEntries DEF UniqueNames
    <2> QED
      BY <1>0, <2>1, <2>2, RenameNodeFacts, NamesAreEntries
  <1> QED
    BY <1>1, <1>2, <1>3, NameSteps DEF Vanishes

(* No call of the file system makes a second entry for a file.             *)
LEMMA OneEntryStep ==
  ASSUME BaseInv, FileInv, NEW t \in Threads, Step(t)
  PROVE  OneEntry'
  <1>0. TypeOK /\ OneEntry /\ RequestOK(t)
    BY DEF BaseInv, FileInv
  <1>1. CASE UNCHANGED dir
    BY <1>0, <1>1 DEF OneEntry
  <1>2. CASE \E e, to \in Entries : e # to /\ XmpRename(e, to)
    BY <1>0, <1>2 DEF OneEntry, XmpRename, TypeOK
  <1>3. CASE \E e \in Entries : dir' = [dir EXCEPT ![e] = NoFile]
    BY <1>0, <1>3 DEF OneEntry, TypeOK
  <1>4. CASE \E e \in Entries, f \in Files : XmpMknod(e, f)
    BY <1>0, <1>4 DEF OneEntry, XmpMknod, InUse, TypeOK
  <1>5. CASE ~UNCHANGED dir
    <2>1. PICK e \in Entries : dir'[e] # dir[e]
      <3>1. DOMAIN dir = Entries /\ DOMAIN dir' = Entries /\ dir = [e \in Entries |-> dir[e]] /\ dir' = [e \in Entries |-> dir'[e]]
        BY <1>0, TypesStep DEF TypeOK
      <3> QED
        BY <1>5, <3>1
    <2>2. CASE Hide(t)
      <3>1. Victim(t) \in Names
        BY <2>2, StageOps DEF Hide, At
      <3> QED
        BY <1>2, <1>5, <2>2, <3>1, NamesApart, NamesAreEntries DEF Hide, Fails
    <2>3. CASE FsUnlink(t)
      <3>1. req[t].nm \in Entries
        BY <2>3, StageOps, NamesAreEntries DEF FsUnlink, Calling, Serves, Removing
      <3> QED
        BY <1>3, <1>5, <2>3, <3>1 DEF FsUnlink, XmpUnlink, Fails
    <2>4. CASE FsRename(t)
      <3>1. req[t].nm \in Entries /\ req[t].to \in Entries /\ req[t].nm # req[t].to
        BY <2>4, StageOps, NamesAreEntries DEF FsRename, Calling, Serves, Removing
      <3> QED
        BY <1>2, <1>5, <2>4, <3>1 DEF FsRename, Fails
    <2>5. CASE FsMknod(t)
      <3>1. req[t].nm \in Entries
        BY <1>0, <2>5, NamesAreEntries DEF RequestOK, FsMknod, Calling, Serves, DirOps
      <3> QED
        BY <1>4, <1>5, <2>5, <3>1 DEF FsMknod, Fails
    <2>6. CASE EraseHidden(t)
      <3>1. path[t] \in Entries
        BY <1>0, <2>6 DEF RequestOK, EraseHidden, At
      <3>2. PICK left \in {dir[path[t]], NoFile} : dir' = [dir EXCEPT ![path[t]] = left]
        BY <2>6 DEF EraseHidden
      <3>3. left # dir[path[t]]
        BY <1>0, <1>5, <3>1, <3>2 DEF TypeOK
      <3> QED
        BY <1>3, <3>1, <3>2, <3>3
    <2> QED
      BY <2>1, <2>2, <2>3, <2>4, <2>5, <2>6, EntrySteps
  <1> QED
    BY <1>1, <1>5

(* An open node is not unnamed.                                            *)
LEMMA OpenNamedStep ==
  ASSUME BaseInv, FileInv, ~OpenRaces, NEW t \in Threads, Step(t), NEW n \in Nodes
  PROVE  OpenNamed(n)'
  <1>0. TypeOK /\ OpenNamed(n) /\ RemoverOK(t) /\ TypeOK'
    BY TypesStep DEF BaseInv, FileInv
  <1>1. ASSUME opens[n] > 0 \/ Opening(n)
        PROVE  name'[n] # NoName /\ (Opening(n) => name'[n] \in Names)
    <2>1. CASE name'[n] = name[n]
      BY <1>0, <1>1, <2>1, NamesAreEntries DEF OpenNamed
    <2>2. CASE Hides(t, n)
      <3>1. ~Opening(n)
        BY <1>0, <2>2, StageOps DEF Hides, HideNode, At, RemoverOK, NoOpening
      <3> QED
        BY <2>2, <3>1, NamesApart DEF Hides
    <2>3. CASE Renames(t, n)
      BY <2>3, StageOps, NamesAreEntries DEF Renames
    <2> QED
      BY <1>1, <2>1, <2>2, <2>3, NameStays
  <1>2. ASSUME opens'[n] > 0
        PROVE  name'[n] # NoName
    <2>1. CASE opens[n] > 0
      BY <1>1, <2>1
    <2>2. CASE ~(opens[n] > 0)
      BY <1>0, <1>1, <1>2, <2>2, OpensSteps DEF TypeOK
    <2> QED
      BY <2>1, <2>2
  <1>3. ASSUME Opening(n)'
        PROVE  name'[n] \in Names
    BY <1>1, <1>3, OpeningSteps
  <1> QED
    BY <1>2, <1>3 DEF OpenNamed

(* The mark and the count of a hidden file go together.                    *)
LEMMA MarkedStep ==
  ASSUME BaseInv, FileInv, NEW t \in Threads, Step(t), NEW n \in Nodes
  PROVE  MarkedOK(n)'
  <1>0. TypeOK /\ MarkedOK(n) /\ RemoverOK(t) /\ TypeOK' /\ UniqueNames
    BY TypesStep DEF BaseInv, FileInv
  <1> SUFFICES ASSUME hidden'[n]
               PROVE  name'[n] \in HiddenNames /\ opens'[n] > 0
    BY DEF MarkedOK
  <1>1. CASE hidden[n]
    <2>1. name[n] \in HiddenNames /\ opens[n] > 0
      BY <1>0, <1>1 DEF MarkedOK
    <2>2. name'[n] = name[n]
      BY <2>1, NameStays, StageOps, NamesApart DEF Hides, Renames, HideNode, At, Serves, Removing
    <2>3. opens'[n] > 0
      <3>1. CASE DropOpen(t) /\ req[t].node = n
        <4>1. hidden' = [hidden EXCEPT ![n] = @ /\ ~Last(n)] /\ opens' = [opens EXCEPT ![n] = @ - 1]
          BY <3>1 DEF DropOpen
        <4>2. hidden'[n] = (hidden[n] /\ ~Last(n))
          BY <1>0, <4>1, Zenon DEF TypeOK
        <4>3. opens[n] # 1
          BY <1>1, <4>2 DEF Last
        <4> QED
          BY <1>0, <2>1, <4>1, <4>3 DEF TypeOK
      <3>2. CASE ~(DropOpen(t) /\ req[t].node = n)
        BY <1>0, <2>1, <3>2, OpensSteps DEF TypeOK
      <3> QED
        BY <3>1, <3>2
    <2> QED
      BY <2>1, <2>2, <2>3
  <1>2. CASE ~hidden[n]
    <2>1. HideNode(t) \/ DropOpen(t) \/ ChangeTable(t)
      BY <1>2, StepKinds, SendsAlone, ReplyKinds DEF Gives, TakesBack, Finish, Works, GrantFile, GrantDir, Check, Hide,
         FsUnlink, FsRename, FsMknod, FsGetattr, FsOpen, FsUse, CountOpen, EraseHidden, Calling, Inside, Fails, nodeVars
    <2>2. CASE HideNode(t)
      <3>1. /\ At(t, "hidden") /\ opens' = opens
            /\ name' = [name EXCEPT ![LookupNode(Victim(t))] = path[t]]
            /\ hidden' = [hidden EXCEPT ![LookupNode(Victim(t))] = TRUE]
        BY <2>2 DEF HideNode
      <3>2. PICK v \in Nodes : name[v] = Victim(t) /\ opens[v] > 0
        BY <1>0, <3>1 DEF RemoverOK, VictimOpen, At
      <3>3. LookupNode(Victim(t)) = v
        BY <1>0, <3>1, <3>2, LookupFacts, StageOps, NamesAreEntries DEF At
      <3>4. n = v
        BY <1>0, <1>2, <3>1, <3>3 DEF TypeOK
      <3> QED
        BY <1>0, <3>1, <3>2, <3>3, <3>4 DEF TypeOK, RemoverOK, HiddenAlone
    <2>3. CASE DropOpen(t)
      <3>1. hidden' = [hidden EXCEPT ![req[t].node] = @ /\ ~Last(req[t].node)]
        BY <2>3 DEF DropOpen
      <3> QED
        BY <1>0, <1>2, <3>1, Zenon DEF TypeOK
    <2>4. CASE ChangeTable(t)
      <3>1. hidden' = hidden
        <4>1. CASE req[t].op \in {"lookup", "revalidate", "mknod"}
          <5>1. req[t].nm \in Names /\ FindNode(t, req[t].nm)
            BY <2>4, <4>1 DEF BaseInv, ChangeTable, RequestOK, DirOps
          <5> QED
            BY <5>1, FindNodeFacts
        <4> QED
          BY <2>4, <4>1 DEF ChangeTable, RemoveNode, RenameNode
      <3> QED
        BY <1>2, <3>1
    <2> QED
      BY <2>1, <2>2, <2>3, <2>4
  <1> QED
    BY <1>1, <1>2

-----------------------------------------------------------------------------
(* Who removes or replaces an entry.                                       *)

(* A thread that removes is untouched by the others, who serve no request  *)
(* of this kind.                                                           *)
LEMMA RemoverWaits ==
  ASSUME BaseInv, NEW t \in Threads, Removing(t), NEW u \in Threads \ {t}, Step(u)
  PROVE  /\ Untouched(t) /\ req[u].op \notin DirOps
         /\ Victim(t)' = Victim(t) /\ Changed(t)' = Changed(t) /\ (Removing(t))'
         /\ \A n \in Nodes : ~Hides(u, n) /\ ~Renames(u, n)
  <1>1. TypeOK /\ req[u].op \notin DirOps
    BY OneRemover DEF BaseInv
  <1>2. Untouched(t)
    BY <1>1, OthersWait
  <1>3. ~HideNode(u) /\ ~Serves(u, "rename")
    BY <1>1, StageOps DEF HideNode, At, Serves, DirOps
  <1> QED
    BY <1>1, <1>2, <1>3 DEF Untouched, Victim, Changed, Removing, Serves, Hides, Renames

(* Nobody starts to open what is being removed.                            *)
LEMMA NoOpeningStep ==
  ASSUME BaseInv, FileInv, ~OpenRaces, NEW t \in Threads, NEW u \in Threads, Step(u)
  PROVE  NoOpening(t)'
  <1>0. TypeOK /\ RequestOK(t) /\ RequestOK(t)' /\ NoOpening(t) /\ NoOpening(u)
    BY RequestsStep DEF BaseInv, FileInv, RemoverOK
  <1> SUFFICES ASSUME (Removing(t))', pc'[t] \in {"sent", "check", "hide", "hidden", "call", "table"},
                      NEW n \in Nodes, Opening(n)'
               PROVE  name'[n] # Victim(t)'
    BY DEF NoOpening
  <1>1. CASE u = t /\ Sends(t)
    <2>1. MayRemove(Victim(t)') /\ UNCHANGED name
      BY <1>1, RequestSent, SendsAlone DEF Removing
    <2>2. Opening(n)
      <3>1. req'[t].op # "open"
        BY DEF Removing
      <3> QED
        BY <1>0, <1>1, <3>1, OthersWait DEF Opening, Serves, Untouched
    <2> QED
      BY <2>1, <2>2 DEF MayRemove, Opening
  <1>2. CASE ~(u = t /\ Sends(t))
    <2>1. /\ Removing(t) /\ pc[t] \in {"sent", "check", "hide", "hidden", "call", "table"}
          /\ Victim(t)' = Victim(t)
      <3>1. CASE u # t
        <4>1. Untouched(t)
          BY <1>0, <3>1, OthersWait
        <4> QED
          BY <4>1 DEF Untouched, Removing, Victim, Serves
      <3>2. CASE u = t
        <4>1. req'[t] \in {req[t], None}
          BY <1>0, <1>2, <3>2, StepKinds, WorksAlone, ReplyKinds DEF Gives, TakesBack, Finish, TypeOK
        <4>2. req'[t] = req[t]
          BY <4>1 DEF Removing, None, Request
        <4>3. Works(t)
          BY <1>0, <1>2, <3>2, <4>2, StepKinds, ReplyKinds, StageOps DEF Gives, TakesBack, Finish, At, Serves, TypeOK, Removing
        <4>4. pc[t] \in {"sent", "check", "hide", "hidden", "call", "table"}
          BY <1>0, <4>2, <4>3 DEF Works, GrantFile, GrantDir, Check, Hide, HideNode, FsUnlink, FsRename, FsMknod,
             FsGetattr, FsOpen, FsUse, ChangeTable, CountOpen, DropOpen, EraseHidden, Calling, Goto, At, Removing,
             Serves, TypeOK, RequestOK, StagesOf
        <4> QED
          BY <4>2, <4>4 DEF Removing, Victim, Serves
      <3> QED
        BY <3>1, <3>2
    <2>2. CASE Opening(n)
      <3>1. name[n] # Victim(t)
        BY <1>0, <2>1, <2>2 DEF NoOpening
      <3>2. name'[n] = name[n] \/ Renames(u, n)
        BY <1>0, <2>2, NameStays, StageOps DEF Hides, HideNode, At, NoOpening
      <3>3. ~Renames(u, n)
        <4>1. ASSUME Renames(u, n)
              PROVE  u = t
          BY <2>1, <4>1, OneRemover DEF Renames, Serves, DirOps
        <4>2. ASSUME Renames(u, n), u = t
              PROVE  FALSE
          BY <1>0, <4>2 DEF Renames, ChangeTable, Goto, TypeOK
        <4> QED
          BY <4>1, <4>2
      <3> QED
        BY <2>1, <3>1, <3>2, <3>3
    <2>3. CASE ~Opening(n)
      <3>1. PICK e \in Names : name[n] = e /\ \A v \in Threads : ~Removes(v, e)
        BY <2>3, OpeningSteps
      <3>2. name' = name
        BY <2>3, OpeningSteps
      <3>3. ~Removes(t, e)
        BY <3>1
      <3> QED
        BY <2>1, <3>1, <3>2, <3>3 DEF Removes, Victim, Removing, Serves
    <2> QED
      BY <2>2, <2>3
  <1> QED
    BY <1>1, <1>2

(* A node made by a revalidation meanwhile stays closed.                   *)
LEMMA FreshStays ==
  ASSUME BaseInv, FileInv, ~OpenRaces, NEW t \in Threads, Removing(t), NEW n \in Nodes, Fresh(n),
         name[n] \in Names, NEW u \in Threads, Step(u), name'[n] = name[n], u = t => ~Finish(u)
  PROVE  Fresh(n)'
  <1>0. TypeOK /\ n # NoNode
    BY FuseFilesAssumption DEF BaseInv
  <1>1. opens'[n] = 0
    BY <1>0, OpensSteps DEF Fresh, TypeOK
  <1>2. ~Opening(n)'
    BY OpeningSteps DEF Fresh
  <1>3. dentry'[name[n]] # n
    <2>1. CASE dentry'[name[n]] = dentry[name[n]]
      BY <2>1 DEF Fresh
    <2>2. CASE dentry'[name[n]] # dentry[name[n]]
      <3>1. name[n] \in Entries
        BY NamesAreEntries
      <3>2. u # t /\ req[u].op \notin DirOps
        <4>1. Finish(u)
          BY <2>2, <3>1, DentrySteps
        <4> QED
          BY <4>1, RemoverWaits
      <3> QED
        BY <1>0, <2>2, <3>1, <3>2, DentrySteps DEF DirOps, Serves
    <2> QED
      BY <2>1, <2>2
  <1> QED
    BY <1>1, <1>2, <1>3 DEF Fresh

(* The names somebody changes are locked or stay closed.                   *)
LEMMA GrabsStep ==
  ASSUME BaseInv, FileInv, ~OpenRaces, NEW t \in Threads, NEW u \in Threads, Step(u)
  PROVE  Grabs(t)'
  <1>0. TypeOK /\ RequestOK(t) /\ RequestOK(t)' /\ Grabs(t) /\ UniqueNames
    BY RequestsStep DEF BaseInv, FileInv, RemoverOK
  <1> SUFFICES ASSUME (Removing(t))', pc'[t] \in {"check", "hide", "hidden", "call", "table"},
                      NEW n \in Nodes, name'[n] \in Changed(t)'
               PROVE  n \in exclusive'[t] \/ Fresh(n)'
    BY DEF Grabs
  <1>1. CASE u = t /\ GrantDir(t)
    <2>1. PICK X : Lock(t, {}, {LookupNode(e) : e \in X} \ {NoNode}) /\ X = Changed(t)
      BY <1>1 DEF GrantDir, Removing, Changed, Serves
    <2> QED
      <3>1. /\ exclusive'[t] = {LookupNode(e) : e \in Changed(t)} \ {NoNode}
            /\ UNCHANGED <<name, req>>
        BY <1>0, <1>1, <2>1 DEF Lock, TypeOK, GrantDir, nodeVars
      <3>2. Changed(t)' = Changed(t) /\ Removing(t)
        BY <3>1 DEF Changed, Removing, Serves
      <3>3. LookupNode(name[n]) = n /\ name[n] \in Changed(t)
        BY <1>0, <3>1, <3>2, LookupFacts, StageOps, NamesAreEntries
      <3> QED
        BY <3>1, <3>3, FuseFilesAssumption
  <1>2. CASE ~(u = t /\ GrantDir(t))
    <2>1. /\ Removing(t) /\ pc[t] \in {"check", "hide", "hidden", "call", "table"} /\ Changed(t)' = Changed(t)
          /\ exclusive'[t] = exclusive[t] /\ (u = t => ~Finish(u))
      <3>1. CASE u # t
        <4>1. Untouched(t)
          BY <1>0, <3>1, OthersWait
        <4> QED
          BY <3>1, <4>1 DEF Untouched, Removing, Changed, Serves
      <3>2. CASE u = t
        <4>0. ~Sends(t) /\ ~Finish(t) /\ ~ReplyOpen(t)
          BY <1>0, <3>2, RequestSent, ReplyKinds DEF Gives, TakesBack, Finish, TypeOK
        <4>1. Works(t)
          BY <3>2, <4>0, StepKinds
        <4>2. req'[t] = req[t]
          BY <4>1, WorksAlone
        <4>3. /\ pc[t] \in {"check", "hide", "hidden", "call", "table"}
              /\ ~GrantFile(t)
          BY <1>0, <1>2, <3>2, <4>1, <4>2 DEF Works, GrantFile, GrantDir, Check, Hide, HideNode, FsUnlink, FsRename, FsMknod,
             FsGetattr, FsOpen, FsUse, ChangeTable, CountOpen, DropOpen, EraseHidden, Calling, Goto, At, Removing,
             Serves, TypeOK, RequestOK, StagesOf, FileOps
        <4>4. exclusive' = exclusive
          BY <1>2, <3>2, <4>1, <4>3 DEF Works, Check, Hide, HideNode, FsUnlink, FsRename, FsMknod,
             FsGetattr, FsOpen, FsUse, ChangeTable, CountOpen, DropOpen, EraseHidden, Calling, Inside, lockVars
        <4> QED
          BY <3>2, <4>0, <4>2, <4>3, <4>4 DEF Removing, Changed, Serves
      <3> QED
        BY <3>1, <3>2
    <2>2. name'[n] \in Names
      BY <2>1, StageOps
    <2>3. CASE name'[n] = name[n]
      BY <1>0, <2>1, <2>2, <2>3, FreshStays DEF Grabs
    <2>4. CASE name'[n] # name[n]
      <3>1. ~Vanishes(n) /\ ~Hides(u, n)
        BY <2>2, NamesAreEntries DEF Vanishes, Hides
      <3>2. ~Renames(u, n)
        <4>1. ASSUME Renames(u, n)
              PROVE  u = t
          BY <2>1, <4>1, OneRemover DEF Renames, Serves, DirOps
        <4>2. ASSUME Renames(u, n), u = t
              PROVE  FALSE
          BY <1>0, <4>2 DEF Renames, ChangeTable, Goto, TypeOK
        <4> QED
          BY <4>1, <4>2
      <3>3. Appears(u, n)
        BY <2>4, <3>1, <3>2, NameSteps
      <3>4. opens[n] = 0 /\ ~Opening(n) /\ \A e \in Entries : dentry[e] # n
        BY <3>3, UnpinnedFree DEF Appears
      <3>5. UNCHANGED <<req, dentry>>
        BY <3>3, WorksAlone DEF Appears, Works
      <3>6. opens'[n] = opens[n]
        BY <2>4, OpensSteps
      <3> QED
        BY <2>2, <3>4, <3>5, <3>6, NamesAreEntries DEF Fresh, Opening, Serves
    <2> QED
      BY <2>3, <2>4
  <1> QED
    BY <1>1, <1>2


(* The steps of a thread that leave it with an entry to take away.         *)
LEMMA RemoverSteps ==
  ASSUME BaseInv, NEW t \in Threads, Step(t), (Removing(t))',
         pc'[t] \in {"hide", "hidden", "call", "table"}
  PROVE  /\ Removing(t) /\ req' = req /\ Victim(t)' = Victim(t)
         /\ \/ Check(t) /\ pc'[t] = IF IsOpen(Victim(t)) THEN "hide" ELSE "call"
            \/ Hide(t) /\ pc'[t] = "hidden"
            \/ HideNode(t) /\ pc'[t] = "call"
            \/ (FsUnlink(t) \/ FsRename(t)) /\ pc[t] = "call" /\ pc'[t] = "table"
                 /\ UNCHANGED <<name, opens>>
  <1>0. TypeOK /\ RequestOK(t)
    BY DEF BaseInv
  <1>1. ~Sends(t) /\ ~Finish(t) /\ ~ReplyOpen(t)
    BY <1>0, RequestSent, ReplyKinds DEF Gives, TakesBack, Finish, TypeOK
  <1>2. Works(t)
    BY <1>1, StepKinds
  <1>3. req' = req
    BY <1>2, WorksAlone
  <1>4. Removing(t) /\ Victim(t)' = Victim(t)
    BY <1>3 DEF Removing, Victim, Serves
  <1>5. pc[t] \in {"sent", "check", "hide", "hidden", "call", "table"}
    BY <1>0, <1>2, <1>4 DEF Works, GrantFile, GrantDir, Check, Hide, HideNode, FsUnlink, FsRename, FsMknod,
       FsGetattr, FsOpen, FsUse, ChangeTable, CountOpen, DropOpen, EraseHidden, Calling, At, Removing,
       Serves, RequestOK, StagesOf
  <1>6. Check(t) \/ Hide(t) \/ HideNode(t) \/ FsUnlink(t) \/ FsRename(t)
    BY <1>0, <1>2, <1>4, <1>5 DEF Works, GrantFile, GrantDir, FsMknod,
       FsGetattr, FsOpen, FsUse, ChangeTable, CountOpen, DropOpen, EraseHidden, Calling, Goto, At, Removing,
       Serves, TypeOK, FileOps
  <1> QED
    BY <1>0, <1>3, <1>4, <1>6 DEF Check, Hide, HideNode, FsUnlink, FsRename, Fails, Calling, Goto, At, TypeOK,
       nodeVars

(* What another thread changes meanwhile is a hidden file nobody uses.     *)
LEMMA OthersEntries ==
  ASSUME BaseInv, FileInv, NEW t \in Threads, Removing(t), NEW u \in Threads \ {t}, Step(u),
         NEW e \in Entries, dir'[e] # dir[e]
  PROVE  /\ EraseHidden(u) /\ e = path[u] /\ e \in HiddenNames
         /\ req[u].node \in Nodes /\ name[req[u].node] = e /\ opens[req[u].node] = 0
  <1>1. req[u].op \notin DirOps
    BY OneRemover
  <1>2. EraseHidden(u) /\ e = path[u]
    BY <1>1, EntrySteps, StageOps DEF Hide, FsUnlink, FsRename, FsMknod, Calling, At, Serves, DirOps
  <1>3. At(u, "erase") /\ req[u].op \in FileOps
    BY <1>2, StageOps DEF EraseHidden, At, FileOps
  <1>4. UserOK(u) /\ req[u].node \in Nodes
    BY <1>3, StageOps DEF FileInv
  <1> QED
    BY <1>2, <1>3, <1>4 DEF UserOK, EraserOK, PathOK, At

(* What is_open has found closed stays so until it is removed.             *)
LEMMA VictimClosedStep ==
  ASSUME BaseInv, FileInv, NEW t \in Threads, NEW u \in Threads, Step(u)
  PROVE  VictimClosed(t)'
  <1>0. TypeOK /\ RemoverOK(t) /\ UniqueNames
    BY DEF BaseInv, FileInv
  <1> SUFFICES ASSUME (Removing(t))', pc'[t] \in {"call", "table"},
                      NEW n \in Nodes, name'[n] = Victim(t)'
               PROVE  opens'[n] = 0
    BY DEF VictimClosed
  <1>1. CASE u = t
    <2>1. /\ Removing(t) /\ Victim(t)' = Victim(t)
          /\ \/ Check(t) /\ pc'[t] = IF IsOpen(Victim(t)) THEN "hide" ELSE "call"
             \/ HideNode(t)
             \/ pc[t] = "call" /\ UNCHANGED <<name, opens>>
      BY <1>1, RemoverSteps
    <2>2. Victim(t) \in Names /\ Victim(t) # NoName
      BY <2>1, StageOps, NamesAreEntries
    <2>3. CASE Check(t) /\ pc'[t] = IF IsOpen(Victim(t)) THEN "hide" ELSE "call"
      <3>1. UNCHANGED <<name, opens>> /\ ~IsOpen(Victim(t))
        BY <2>3 DEF Check, nodeVars
      <3>2. LookupNode(Victim(t)) = n /\ n # NoNode
        BY <1>0, <2>1, <2>2, <3>1, LookupFacts, FuseFilesAssumption
      <3> QED
        BY <1>0, <3>1, <3>2 DEF IsOpen, TypeOK
    <2>4. CASE HideNode(t)
      <3>1. /\ name' = [name EXCEPT ![LookupNode(Victim(t))] = path[t]] /\ At(t, "hidden")
        BY <2>4 DEF HideNode
      <3>2. path[t] \in HiddenNames /\ path[t] # Victim(t)
        BY <1>0, <2>2, <3>1, NamesAreEntries DEF RemoverOK, HiddenAlone
      <3>3. n # LookupNode(Victim(t)) /\ name[n] = Victim(t)
        BY <1>0, <2>1, <3>1, <3>2 DEF TypeOK
      <3> QED
        BY <1>0, <2>2, <3>3, LookupFacts
    <2>5. CASE pc[t] = "call" /\ UNCHANGED <<name, opens>>
      BY <1>0, <2>1, <2>5 DEF RemoverOK, VictimClosed
    <2> QED
      BY <2>1, <2>3, <2>4, <2>5
  <1>2. CASE u # t
    <2>1. Removing(t) /\ pc[t] \in {"call", "table"}
      <3>1. Untouched(t)
        BY <1>0, <1>2, OthersWait
      <3> QED
        BY <3>1 DEF Untouched, Removing
    <2>2. Victim(t)' = Victim(t) /\ Victim(t) \in Names /\ ~Hides(u, n) /\ ~Renames(u, n)
      BY <1>2, <2>1, RemoverWaits, StageOps
    <2>3. CASE name'[n] = name[n]
      <3>1. opens[n] = 0 /\ ~Opening(n)
        BY <1>0, <2>1, <2>2, <2>3 DEF RemoverOK, VictimClosed, NoOpening
      <3> QED
        BY <3>1, OpensSteps
    <2>4. CASE name'[n] # name[n]
      <3>1. Appears(u, n)
        BY <2>2, <2>4, NameSteps, NamesAreEntries DEF Vanishes
      <3>2. opens[n] = 0
        BY <3>1, UnpinnedFree DEF Appears
      <3> QED
        BY <2>4, <3>2, OpensSteps
    <2> QED
      BY <2>3, <2>4
  <1> QED
    BY <1>1, <1>2

(* What is_open has found open stays so until it is hidden.                *)
LEMMA VictimOpenStep ==
  ASSUME BaseInv, FileInv, NEW t \in Threads, NEW u \in Threads, Step(u)
  PROVE  VictimOpen(t)'
  <1>0. TypeOK /\ RemoverOK(t) /\ UniqueNames /\ RequestOK(t)'
    BY RequestsStep DEF BaseInv, FileInv
  <1> SUFFICES ASSUME pc'[t] \in {"hide", "hidden"}
               PROVE  \E n \in Nodes : name'[n] = Victim(t)' /\ opens'[n] > 0
    BY DEF VictimOpen
  <1>1. (Removing(t))'
    BY <1>0 DEF RequestOK, StagesOf, Removing, FileOps, DirOps
  <1>2. CASE u = t
    <2>1. /\ Victim(t)' = Victim(t) /\ Removing(t)
          /\ \/ Check(t) /\ pc'[t] = IF IsOpen(Victim(t)) THEN "hide" ELSE "call"
             \/ Hide(t)
      BY <1>1, <1>2, RemoverSteps
    <2>2. UNCHANGED <<name, opens>>
      BY <2>1 DEF Check, Hide, Fails, nodeVars
    <2>3. CASE Check(t) /\ pc'[t] = IF IsOpen(Victim(t)) THEN "hide" ELSE "call"
      <3>1. IsOpen(Victim(t))
        BY <2>3
      <3>2. LookupNode(Victim(t)) \in Nodes /\ name[LookupNode(Victim(t))] = Victim(t)
        BY <1>0, <3>1, LookupFacts DEF IsOpen
      <3> QED
        BY <2>1, <2>2, <3>1, <3>2 DEF IsOpen
    <2>4. CASE Hide(t)
      BY <1>0, <2>1, <2>2, <2>4 DEF Hide, At, RemoverOK, VictimOpen
    <2> QED
      BY <2>1, <2>3, <2>4
  <1>3. CASE u # t
    <2>1. Untouched(t)
      BY <1>0, <1>3, OthersWait
    <2>2. Removing(t) /\ pc[t] \in {"hide", "hidden"}
      BY <1>1, <2>1 DEF Untouched, Removing
    <2>3. PICK n \in Nodes : name[n] = Victim(t) /\ opens[n] > 0
      BY <1>0, <2>2 DEF RemoverOK, VictimOpen
    <2>4. n \in exclusive[t]
      BY <1>0, <2>2, <2>3, StageOps DEF RemoverOK, Grabs, Fresh
    <2>5. name'[n] = name[n] /\ Victim(t)' = Victim(t)
      BY <1>3, <2>2, <2>3, NameStays, RemoverWaits
    <2>6. ~(DropOpen(u) /\ req[u].node = n /\ req[u].op \in FileOps /\ pc[u] \in {"call", "drop"})
      BY <2>4 DEF FileInv, UserOK, PathOK, Exclusion
    <2>7. opens'[n] > 0
      BY <1>0, <2>3, <2>6, OpensSteps DEF TypeOK
    <2> QED
      BY <2>3, <2>5, <2>7
  <1> QED
    BY <1>2, <1>3

(* A hidden name is made for one file and nobody else touches it.          *)
LEMMA HiddenAloneStep ==
  ASSUME BaseInv, FileInv, NEW t \in Threads, NEW u \in Threads, Step(u)
  PROVE  HiddenAlone(t)'
  <1>0. TypeOK /\ RemoverOK(t) /\ UniqueNames /\ RequestOK(t)'
    BY RequestsStep DEF BaseInv, FileInv
  <1> SUFFICES ASSUME pc'[t] = "hidden"
               PROVE  /\ path'[t] \in HiddenNames /\ dir'[path'[t]] # NoFile /\ dir'[Victim(t)'] = NoFile
                      /\ \A n \in Nodes : name'[n] # path'[t]
    BY DEF HiddenAlone, At
  <1>1. (Removing(t))'
    BY <1>0 DEF RequestOK, StagesOf, Removing, FileOps, DirOps
  <1>2. CASE u = t
    <2>1. Hide(t) /\ Victim(t)' = Victim(t) /\ Removing(t)
      BY <1>1, <1>2, RemoverSteps
    <2>2. PICK e \in HiddenNames : /\ LookupNode(e) = NoNode /\ XmpRename(Victim(t), e)
                                   /\ path' = [path EXCEPT ![t] = e] /\ name' = name
      BY <1>0, <2>1 DEF Hide, Fails, Goto, TypeOK, nodeVars
    <2>3. Victim(t) \in Entries /\ e \in Entries /\ e # Victim(t)
      BY <2>1, StageOps, NamesApart, NamesAreEntries
    <2>4. dir'[e] = dir[Victim(t)] /\ dir[Victim(t)] # NoFile /\ dir'[Victim(t)] = NoFile
      BY <1>0, <2>2, <2>3 DEF XmpRename, Exists, TypeOK
    <2>5. \A n \in Nodes : name[n] # e
      BY <1>0, <2>2, LookupFacts
    <2>6. path'[t] = e
      BY <1>0, <2>2 DEF TypeOK
    <2> QED
      BY <2>1, <2>2, <2>4, <2>5, <2>6
  <1>3. CASE u # t
    <2>1. Untouched(t)
      BY <1>0, <1>3, OthersWait
    <2>2. Removing(t) /\ pc[t] = "hidden" /\ path'[t] = path[t]
      BY <1>1, <2>1 DEF Untouched, Removing
    <2>3. /\ path[t] \in HiddenNames /\ dir[path[t]] # NoFile /\ dir[Victim(t)] = NoFile
          /\ \A n \in Nodes : name[n] # path[t]
      BY <1>0, <2>2 DEF RemoverOK, HiddenAlone, At
    <2>4. Victim(t)' = Victim(t) /\ Victim(t) \in Names
      BY <1>3, <2>2, RemoverWaits, StageOps
    <2>5. dir'[path[t]] = dir[path[t]] /\ dir'[Victim(t)] = dir[Victim(t)]
      BY <1>3, <2>2, <2>3, <2>4, OthersEntries, NamesApart, NamesAreEntries
    <2>6. ASSUME NEW n \in Nodes, name'[n] = path[t]
          PROVE  FALSE
      <3>1. name'[n] # name[n] /\ ~Hides(u, n) /\ ~Renames(u, n)
        BY <1>3, <2>2, <2>3, <2>6, RemoverWaits
      <3> QED
        BY <2>3, <2>6, <3>1, NameSteps, NamesApart DEF Appears, Vanishes
    <2> QED
      BY <2>2, <2>3, <2>4, <2>5, <2>6
  <1> QED
    BY <1>2, <1>3

-----------------------------------------------------------------------------
(* Who works on an open file.                                              *)

(* What a thread does with an open file, until it has answered.            *)
LEMMA UserSteps ==
  ASSUME BaseInv, NEW t \in Threads, Step(t), req'[t].op \in FileOps, pc'[t] # "sent"
  PROVE  /\ req' = req /\ req[t].op \in FileOps /\ req[t].node \in Nodes
         /\ \/ GrantFile(t)
            \/ /\ UNCHANGED <<path, name, shared>>
               /\ \/ FsOpen(t) \/ FsUse(t) \/ CountOpen(t) \/ TakesBack(t) \/ DropOpen(t) \/ EraseHidden(t)
  <1>0. TypeOK
    BY DEF BaseInv
  <1>1. ~Sends(t) /\ ~Finish(t) /\ ~Gives(t)
    BY <1>0, RequestSent DEF Gives, Finish, TypeOK, FileOps, None, Request
  <1>2. CASE TakesBack(t)
    BY <1>2, StageOps DEF TakesBack
  <1>3. CASE Works(t)
    <2>1. req' = req
      BY <1>3, WorksAlone
    <2>2. req[t].node \in Nodes /\ ~Removing(t) /\ req[t].op \in {"open", "use", "release"}
      BY <2>1, StageOps DEF FileOps
    <2>3. GrantFile(t) \/ FsOpen(t) \/ FsUse(t) \/ CountOpen(t) \/ DropOpen(t) \/ EraseHidden(t)
      BY <1>3, <2>2, StageOps DEF Works, GrantDir, Check, Hide, HideNode, FsUnlink, FsRename, FsMknod, FsGetattr,
         ChangeTable, Calling, At, Serves, Removing, DirOps
    <2> QED
      BY <2>1, <2>2, <2>3 DEF FsOpen, FsUse, CountOpen, DropOpen, EraseHidden, Calling, Inside, Fails, nodeVars,
         lockVars, FileOps
  <1> QED
    BY <1>1, <1>2, <1>3, StepKinds, ReplyKinds

(* The node somebody works on keeps its name.                              *)
LEMMA UserNode ==
  ASSUME BaseInv, FileInv, NEW t \in Threads, req[t].op \in FileOps,
         pc[t] \in {"call", "opened", "counted", "drop", "erase"},
         NEW u \in Threads \ {t}, Step(u)
  PROVE  req[t].node \in Nodes /\ name'[req[t].node] = name[req[t].node]
  <1> DEFINE n == req[t].node
  <1>0. RequestOK(t) /\ UserOK(t)
    BY DEF BaseInv, FileInv
  <1>1. n \in Nodes /\ Pinned(n) /\ n \in shared[t] /\ path[t] = name[n]
    BY <1>0, StageOps, UsersOpen DEF UserOK, PathOK
  <1>2. CASE opens[n] > 0 \/ Opening(n)
    <2>1. ~Hides(u, n) /\ ~Renames(u, n)
      <3>1. Removing(u) /\ pc[u] \in {"check", "hide", "hidden", "call", "table"} => name[n] \notin Changed(u)
        BY <1>1, <1>2, Settled
      <3> QED
        BY <3>1, StageOps DEF Hides, HideNode, Renames, At, Serves, Removing
    <2> QED
      BY <1>1, <1>2, <2>1, NameStays
  <1>3. CASE ~(opens[n] > 0 \/ Opening(n))
    <2>1. At(t, "erase")
      BY <1>0, <1>3, UsersOpen DEF FileOps, Serves, At, RequestOK, StagesOf
    <2>2. name[n] \in HiddenNames
      BY <1>0, <1>1, <2>1 DEF UserOK, EraserOK
    <2>3. ~Hides(u, n) /\ ~Renames(u, n)
      BY <2>2, StageOps, NamesApart DEF Hides, HideNode, Renames, At, Serves, Removing
    <2> QED
      BY <1>1, <2>2, <2>3, NameStays
  <1> QED
    BY <1>2, <1>3

(* A path that a request on an open file has stays the right one.          *)
LEMMA PathStep ==
  ASSUME BaseInv, FileInv, NEW t \in Threads, NEW u \in Threads, Step(u)
  PROVE  PathOK(t)'
  <1>0. TypeOK /\ UserOK(t) /\ \A n \in Nodes : OpenNamed(n)
    BY DEF BaseInv, FileInv
  <1> SUFFICES ASSUME req'[t].op \in FileOps, pc'[t] \in {"call", "opened", "counted", "drop", "erase"}
               PROVE  path'[t] = name'[req'[t].node] /\ req'[t].node \in shared'[t]
    BY DEF PathOK
  <1>1. CASE u = t
    <2>1. /\ req' = req /\ req[t].op \in FileOps /\ req[t].node \in Nodes
          /\ \/ GrantFile(t)
             \/ /\ UNCHANGED <<path, name, shared>>
                /\ FsOpen(t) \/ FsUse(t) \/ CountOpen(t) \/ TakesBack(t) \/ DropOpen(t) \/ EraseHidden(t)
      BY <1>1, UserSteps
    <2>2. CASE GrantFile(t)
      <3>1. /\ pc[t] = "sent"
            /\ path' = [path EXCEPT ![t] = name[req[t].node]] /\ name' = name
            /\ shared' = [shared EXCEPT ![t] = IF name[req[t].node] = NoName THEN {} ELSE {req[t].node}]
            /\ pc' = [pc EXCEPT ![t] = IF name[req[t].node] = NoName /\ ~Serves(t, "release")
                                       THEN "refused" ELSE "call"]
        BY <2>2 DEF GrantFile, Lock, Goto, At, nodeVars
      <3>2. name[req[t].node] # NoName
        BY <1>0, <2>1, <3>1, UsersOpen DEF OpenNamed, TypeOK
      <3> QED
        BY <1>0, <2>1, <3>1, <3>2 DEF TypeOK
    <2>3. CASE ~GrantFile(t)
      <3>1. pc[t] \in {"call", "opened", "counted", "drop"}
        BY <1>0, <2>1, <2>3 DEF FsOpen, FsUse, CountOpen, TakesBack, DropOpen, EraseHidden, Calling, At, Goto, TypeOK
      <3> QED
        BY <1>0, <2>1, <2>3, <3>1 DEF UserOK, PathOK
    <2> QED
      BY <2>2, <2>3
  <1>2. CASE u # t
    <2>1. Untouched(t)
      BY <1>0, <1>2, OthersWait
    <2>2. /\ req[t].op \in FileOps /\ pc[t] \in {"call", "opened", "counted", "drop", "erase"}
          /\ req'[t].node = req[t].node
      BY <2>1 DEF Untouched
    <2>3. name'[req[t].node] = name[req[t].node]
      BY <1>2, <2>2, UserNode
    <2> QED
      BY <1>0, <2>1, <2>2, <2>3 DEF UserOK, PathOK, Untouched
  <1> QED
    BY <1>1, <1>2

(* The file that is being opened stays at its path.                        *)
LEMMA GotStep ==
  ASSUME BaseInv, FileInv, NEW t \in Threads, NEW u \in Threads, Step(u)
  PROVE  GotOK(t)'
  <1>0. TypeOK /\ UserOK(t) /\ RequestOK(t) /\ RequestOK(t)' /\ \A n \in Nodes : OpenNamed(n)
    BY RequestsStep DEF BaseInv, FileInv
  <1> SUFFICES ASSUME pc'[t] \in {"opened", "counted", "drop"}
               PROVE  dir'[path'[t]] = got'[t]
    BY DEF GotOK
  <1>1. req'[t].op = "open"
    BY <1>0 DEF RequestOK, StagesOf, FileOps, DirOps
  <1>2. CASE u = t
    <2>1. \/ GrantFile(t)
          \/ /\ path' = path
             /\ FsOpen(t) \/ FsUse(t) \/ CountOpen(t) \/ TakesBack(t) \/ DropOpen(t) \/ EraseHidden(t)
      BY <1>1, <1>2, UserSteps DEF FileOps
    <2>2. path' = path /\ (FsOpen(t) \/ CountOpen(t) \/ TakesBack(t))
      BY <1>0, <2>1 DEF GrantFile, FsUse, DropOpen, EraseHidden, Goto, TypeOK, At
    <2>3. CASE FsOpen(t)
      BY <1>0, <2>2, <2>3 DEF FsOpen, Fails, Goto, TypeOK
    <2>4. CASE CountOpen(t) \/ TakesBack(t)
      BY <1>0, <2>2, <2>4 DEF CountOpen, TakesBack, At, UserOK, GotOK
    <2> QED
      BY <2>2, <2>3, <2>4
  <1>3. CASE u # t
    <2>1. Untouched(t)
      BY <1>0, <1>3, OthersWait
    <2>2. /\ pc[t] \in {"opened", "counted", "drop"} /\ Serves(t, "open") /\ req[t].op \in FileOps
          /\ path'[t] = path[t] /\ got'[t] = got[t]
      BY <1>1, <2>1 DEF Untouched, Serves, FileOps
    <2> DEFINE n == req[t].node
    <2>3. n \in Nodes /\ Opening(n) /\ path[t] = name[n] /\ n \in shared[t] /\ dir[path[t]] = got[t] /\ got[t] # NoFile
      BY <1>0, <2>2, StageOps, UsersOpen, FuseFilesAssumption DEF UserOK, PathOK, GotOK, RequestOK
    <2>4. path[t] \in Names
      BY <1>0, <2>3 DEF OpenNamed
    <2>5. /\ Removing(u) /\ pc[u] \in {"check", "hide", "hidden", "call", "table"} => path[t] \notin Changed(u)
          /\ At(u, "erase") => path[u] \in HiddenNames
      BY <2>3, Settled DEF FileInv, UserOK, EraserOK
    <2>6. dir'[path[t]] = dir[path[t]]
      BY <2>3, <2>4, <2>5, EntrySteps, StageOps, NamesAreEntries DEF Hide, FsUnlink, FsRename, EraseHidden,
         Calling, At, Serves, Removing
    <2> QED
      BY <2>2, <2>3, <2>6
  <1> QED
    BY <1>2, <1>3

(* The file about to be erased is hidden and closed for good.              *)
LEMMA EraserStep ==
  ASSUME BaseInv, FileInv, NEW t \in Threads, NEW u \in Threads, Step(u)
  PROVE  EraserOK(t)'
  <1>0. TypeOK /\ UserOK(t) /\ RequestOK(t)' /\ \A n \in Nodes : OpenNamed(n) /\ MarkedOK(n)
    BY RequestsStep DEF BaseInv, FileInv
  <1> SUFFICES ASSUME pc'[t] = "erase"
               PROVE  path'[t] \in HiddenNames /\ opens'[req'[t].node] = 0
    BY DEF EraserOK, At
  <1>1. req'[t].op \in FileOps
    BY <1>0 DEF RequestOK, StagesOf, FileOps, DirOps
  <1>2. CASE u = t
    <2>1. /\ req' = req /\ req[t].op \in FileOps /\ req[t].node \in Nodes
          /\ \/ GrantFile(t)
             \/ /\ path' = path
                /\ FsOpen(t) \/ FsUse(t) \/ CountOpen(t) \/ TakesBack(t) \/ DropOpen(t) \/ EraseHidden(t)
      BY <1>1, <1>2, UserSteps
    <2>2. path' = path /\ DropOpen(t)
      BY <1>0, <2>1 DEF GrantFile, FsOpen, FsUse, CountOpen, TakesBack, EraseHidden, Fails, Goto, TypeOK
    <2>3. /\ pc[t] \in {"call", "drop"} /\ hidden[req[t].node] /\ opens[req[t].node] = 1
          /\ opens' = [opens EXCEPT ![req[t].node] = @ - 1]
      BY <1>0, <2>2 DEF DropOpen, Last, At, Goto, TypeOK
    <2>4. path[t] = name[req[t].node] /\ name[req[t].node] \in HiddenNames
      BY <1>0, <2>1, <2>3 DEF UserOK, PathOK, MarkedOK
    <2> QED
      BY <1>0, <2>1, <2>2, <2>3, <2>4 DEF TypeOK
  <1>3. CASE u # t
    <2>1. Untouched(t)
      BY <1>0, <1>3, OthersWait
    <2>2. At(t, "erase") /\ req[t].op \in FileOps /\ path'[t] = path[t] /\ req'[t].node = req[t].node
      BY <1>1, <2>1 DEF Untouched, At
    <2>3. req[t].node \in Nodes /\ path[t] \in HiddenNames /\ opens[req[t].node] = 0 /\ name[req[t].node] = path[t]
      BY <1>0, <2>2, StageOps DEF UserOK, PathOK, EraserOK, At
    <2>4. ~Opening(req[t].node)
      BY <1>0, <2>3, NamesApart DEF OpenNamed
    <2>5. opens'[req[t].node] = 0
      BY <2>3, <2>4, OpensSteps
    <2> QED
      BY <2>2, <2>3, <2>5
  <1> QED
    BY <1>2, <1>3

(* A handle that somebody uses leads to the file that was opened with it.  *)
LEMMA HandleReached ==
  ASSUME BaseInv, FileInv, NEW t \in Threads, Serves(t, "use"), At(t, "call")
  PROVE  dir[path[t]] = hfile[req[t].h] /\ hfile[req[t].h] # NoFile
  <1>1. req[t].op \in FileOps /\ pc[t] = "call"
    BY DEF Serves, FileOps, At
  <1>2. req[t].node \in Nodes /\ opens[req[t].node] > 0 /\ req[t].h \in Handles /\ hnode[req[t].h] = req[t].node
    BY <1>1, StageOps, UsersOpen
  <1>3. path[t] = name[req[t].node] /\ req[t].node \in shared[t] /\ HandleOK(req[t].h)
    BY <1>1, <1>2 DEF FileInv, UserOK, PathOK
  <1>4. \A u \in Threads : ~Moved(u, req[t].node)
    BY <1>2, <1>3, Settled
  <1>5. req[t].node # NoNode
    BY <1>2, FuseFilesAssumption
  <1> QED
    BY <1>2, <1>3, <1>4, <1>5, HandleOpen DEF HandleOK, HandleAt

(* A read or write is not refused a path and does not fail.                *)
LEMMA UseStep ==
  ASSUME BaseInv, FileInv, NEW t \in Threads, NEW u \in Threads, Step(u)
  PROVE  UseOK(t)'
  <1>0. TypeOK /\ UserOK(t) /\ \A n \in Nodes : OpenNamed(n)
    BY DEF BaseInv, FileInv
  <1> SUFFICES ASSUME Serves(t, "use")'
               PROVE  pc'[t] \notin {"refused", "failed"}
    BY DEF UseOK
  <1>1. req'[t].op = "use"
    BY DEF Serves
  <1>2. CASE u = t
    <2>1. CASE pc'[t] = "sent"
      BY <2>1
    <2>2. CASE pc'[t] # "sent"
      <3>1. /\ req' = req /\ req[t].node \in Nodes /\ Serves(t, "use")
            /\ GrantFile(t) \/ FsOpen(t) \/ FsUse(t) \/ CountOpen(t) \/ TakesBack(t) \/ DropOpen(t) \/ EraseHidden(t)
        BY <1>1, <1>2, <2>2, UserSteps DEF FileOps, Serves
      <3>2. CASE GrantFile(t)
        <4>1. name[req[t].node] # NoName
          BY <1>0, <3>1, UsersOpen DEF OpenNamed
        <4>2. pc' = [pc EXCEPT ![t] = "call"]
          BY <3>2, <4>1 DEF GrantFile, Goto
        <4> QED
          BY <1>0, <4>2 DEF TypeOK
      <3>3. CASE FsUse(t)
        <4>1. dir[path[t]] # NoFile
          BY <3>1, <3>3, HandleReached DEF FsUse, Calling
        <4>2. pc' = [pc EXCEPT ![t] = "done"]
          BY <3>3, <4>1 DEF FsUse, XmpRead, Goto
        <4> QED
          BY <1>0, <4>2 DEF TypeOK
      <3>4. CASE FsOpen(t)
        BY <3>1, <3>4 DEF FsOpen, Calling, Serves
      <3>5. CASE CountOpen(t) \/ TakesBack(t) \/ DropOpen(t) \/ EraseHidden(t)
        BY <1>0, <3>5 DEF CountOpen, TakesBack, DropOpen, EraseHidden, Goto, TypeOK
      <3> QED
        BY <3>1, <3>2, <3>3, <3>4, <3>5
    <2> QED
      BY <2>1, <2>2
  <1>3. CASE u # t
    <2>1. Untouched(t)
      BY <1>0, <1>3, OthersWait
    <2> QED
      BY <1>0, <1>1, <2>1 DEF Untouched, UserOK, UseOK, Serves
  <1> QED
    BY <1>2, <1>3

-----------------------------------------------------------------------------
(* Where the file of a handle is.                                          *)

(* Only who removes or replaces an entry moves one.                        *)
LEMMA MoversRemove ==
  ASSUME BaseInv, NEW t \in Threads, NEW n \in Nodes
  PROVE  /\ Moved(t, n) => Removing(t) /\ name[n] \in Names
         /\ At(t, "hidden") => Removing(t)
         /\ ~At(t, "hidden") /\ Moved(t, n) => Place(t) = req[t].to /\ Place(t) \in Names
  BY StageOps DEF Moved, Removing, Serves, At, Place

(* The moves of all threads but one that removes.                          *)
LEMMA OnlyMover ==
  ASSUME BaseInv, BaseInv', NEW u \in Threads, req[u].op \in DirOps, Step(u), NEW n \in Nodes,
         NEW t \in Threads \ {u}
  PROVE  ~Moved(t, n) /\ ~Moved(t, n)'
  <1>1. ~Removing(t) /\ Untouched(t)
    BY OneRemover, OthersWait DEF BaseInv
  <1>2. pc[t] # "hidden" /\ ~Serves(t, "rename")
    BY <1>1, StageOps DEF Removing, Serves
  <1> QED
    BY <1>1, <1>2 DEF Moved, At, Serves, Untouched

(* A handle keeps its file when neither entry nor node moves.              *)
LEMMA HandleStays ==
  ASSUME TypeOK, NEW h \in Handles, NEW n \in Nodes, HandleAt(h, n),
         hfile'[h] = hfile[h], name'[n] = name[n],
         \A t \in Threads : Moved(t, n)' <=> Moved(t, n),
         \A t \in Threads : Moved(t, n) => Place(t)' = Place(t) /\ dir'[Place(t)] = dir[Place(t)],
         (\A t \in Threads : ~Moved(t, n)) => dir'[name[n]] = dir[name[n]]
  PROVE  HandleAt(h, n)'
  <1>1. \A t \in Threads : Moved(t, n)' => dir'[Place(t)'] = hfile'[h]
    BY DEF HandleAt
  <1>2. (\A t \in Threads : ~Moved(t, n)') => dir'[name'[n]] = hfile'[h]
    BY DEF HandleAt
  <1> QED
    BY <1>1, <1>2 DEF HandleAt

(* Nothing but Hide and FsRename sets out to move an entry, and nothing    *)
(* but the change of the node's name ends it.                              *)
LEMMA MovedStays ==
  ASSUME BaseInv, BaseInv', FileInv, NEW u \in Threads, Step(u), ~Hide(u), ~FsRename(u),
         NEW n \in Nodes, name'[n] = name[n], opens[n] > 0, NEW t \in Threads
  PROVE  /\ Moved(t, n)' <=> Moved(t, n)
         /\ Moved(t, n) => Place(t)' = Place(t)
  <1>0. TypeOK /\ RequestOK(t) /\ UniqueNames /\ RemoverOK(t)
    BY DEF BaseInv, FileInv
  <1>1. CASE u # t
    <2>1. Untouched(t)
      BY <1>0, <1>1, OthersWait
    <2> QED
      BY <2>1 DEF Untouched, Moved, Place, Victim, At, Serves
  <1>2. CASE u = t
    <2>1. ASSUME Moved(t, n)'
          PROVE  FALSE
      <3>1. (Removing(t))' /\ pc'[t] \in {"hidden", "table"}
        BY <2>1, MoversRemove DEF BaseInv, Moved, Removing, At, Serves, RequestOK, StagesOf
      <3>2. FsUnlink(t) /\ pc'[t] = "table" /\ req' = req
        BY <1>2, <3>1, RemoverSteps
      <3> QED
        BY <2>1, <3>2 DEF Moved, FsUnlink, Calling, At, Serves
    <2>2. ASSUME Moved(t, n)
          PROVE  FALSE
      <3>1. Removing(t) /\ pc[t] \in {"hidden", "table"} /\ name[n] \in Names
        BY <2>2, MoversRemove DEF Moved, At
      <3>2. ~Sends(t) /\ ~Finish(t) /\ ~ReplyOpen(t)
        BY <1>2, <3>1, RequestSent, ReplyKinds DEF Gives, TakesBack, Finish, At
      <3>3. Works(t)
        BY <1>2, <3>2, StepKinds
      <3>4. HideNode(t) \/ ChangeTable(t)
        BY <3>1, <3>3 DEF Works, GrantFile, GrantDir, Check, Hide, FsUnlink, FsRename, FsMknod,
           FsGetattr, FsOpen, FsUse, CountOpen, DropOpen, EraseHidden, Calling, At
      <3>5. CASE HideNode(t)
        <4>1. name[n] = Victim(t) /\ At(t, "hidden") /\ name' = [name EXCEPT ![LookupNode(Victim(t))] = path[t]]
          BY <2>2, <3>5 DEF Moved, HideNode, At
        <4>2. LookupNode(Victim(t)) = n
          BY <1>0, <3>1, <4>1, LookupFacts, NamesAreEntries
        <4> QED
          BY <1>0, <3>1, <4>1, <4>2, NamesAreEntries DEF TypeOK, RemoverOK, HiddenAlone
      <3>6. CASE ChangeTable(t)
        <4>1. name[n] = req[t].nm /\ RenameNode(req[t].nm, req[t].to) /\ req[t].nm \in Names
              /\ req[t].to \in Names \ {req[t].nm}
          BY <2>2, <3>1, <3>6, StageOps DEF Moved, ChangeTable, At, Serves
        <4> QED
          BY <1>0, <4>1, RenameNodeFacts
      <3> QED
        BY <3>4, <3>5, <3>6
    <2> QED
      BY <2>1, <2>2
  <1> QED
    BY <1>1, <1>2

(* The steps that move the entry of a node.                                *)
LEMMA HideHandle ==
  ASSUME BaseInv, BaseInv', FileInv, NEW u \in Threads, Step(u), Hide(u),
         NEW h \in Handles, NEW n \in Nodes, opens[n] > 0, HandleAt(h, n), hfile'[h] = hfile[h]
  PROVE  HandleAt(h, n)'
  <1>0. TypeOK /\ TypeOK' /\ UniqueNames /\ name[n] \in Entries
    BY DEF BaseInv, FileInv, OpenNamed, TypeOK
  <1>1. Removing(u) /\ pc[u] = "hide" /\ name' = name /\ req' = req /\ req[u].op \in DirOps /\ Victim(u) \in Names
    BY StageOps DEF Hide, At, Fails, nodeVars
  <1>2. \A t \in Threads \ {u} : ~Moved(t, n) /\ ~Moved(t, n)'
    BY <1>1, OnlyMover
  <1>3. ~Moved(u, n)
    BY <1>1 DEF Moved, At
  <1>4. dir[name[n]] = hfile[h]
    BY <1>2, <1>3 DEF HandleAt
  <1>5. CASE dir' = dir /\ pc'[u] = "failed"
    <2>1. ~Moved(u, n)'
      BY <1>5 DEF Moved, At
    <2>2. \A t \in Threads : ~Moved(t, n)'
      BY <1>2, <2>1
    <2> QED
      BY <1>1, <1>4, <1>5, <2>2 DEF HandleAt
  <1>6. CASE \E e \in HiddenNames : /\ ~Exists(e) /\ LookupNode(e) = NoNode /\ XmpRename(Victim(u), e)
                                    /\ path' = [path EXCEPT ![u] = e] /\ pc'[u] = "hidden"
    <2>1. PICK e \in HiddenNames : /\ ~Exists(e) /\ LookupNode(e) = NoNode /\ XmpRename(Victim(u), e)
                                   /\ path'[u] = e
      BY <1>0, <1>6 DEF TypeOK
    <2>2. e # Victim(u) /\ e \in Entries /\ Victim(u) \in Entries /\ name[n] # e
      BY <1>0, <1>1, <2>1, LookupFacts, NamesApart, NamesAreEntries
    <2>3. dir'[e] = dir[Victim(u)] /\ \A x \in Entries \ {e, Victim(u)} : dir'[x] = dir[x]
      BY <1>0, <2>1, <2>2 DEF XmpRename, TypeOK
    <2>4. Victim(u)' = Victim(u) /\ Place(u)' = e
      BY <1>1, <1>6, <2>1 DEF Victim, Serves, Place, At
    <2>5. CASE name[n] = Victim(u)
      <3>1. Moved(u, n)'
        BY <1>1, <1>6, <2>4, <2>5 DEF Moved, At
      <3>2. dir'[Place(u)'] = hfile'[h]
        BY <1>4, <2>3, <2>4, <2>5
      <3> QED
        BY <1>2, <3>1, <3>2 DEF HandleAt
    <2>6. CASE name[n] # Victim(u)
      <3>1. ~Moved(u, n)'
        BY <1>1, <1>6, <2>4, <2>6 DEF Moved, At
      <3>2. \A t \in Threads : ~Moved(t, n)'
        BY <1>2, <3>1
      <3>3. dir'[name'[n]] = hfile'[h]
        BY <1>0, <1>1, <1>4, <2>2, <2>3, <2>6
      <3> QED
        BY <3>2, <3>3 DEF HandleAt
    <2> QED
      BY <2>5, <2>6
  <1> QED
    BY <1>0, <1>5, <1>6 DEF Hide, Fails, Goto, TypeOK

(* rename moves the entry of an open file to its new name.                 *)
LEMMA RenameHandle ==
  ASSUME BaseInv, BaseInv', FileInv, NEW u \in Threads, Step(u), FsRename(u),
         NEW h \in Handles, NEW n \in Nodes, opens[n] > 0, HandleAt(h, n), hfile'[h] = hfile[h]
  PROVE  HandleAt(h, n)'
  <1>0. TypeOK /\ TypeOK' /\ RemoverOK(u) /\ name[n] \in Entries
    BY DEF BaseInv, FileInv, OpenNamed, TypeOK
  <1>1. /\ Removing(u) /\ Serves(u, "rename") /\ pc[u] = "call" /\ name' = name /\ req' = req /\ req[u].op \in DirOps
        /\ req[u].nm \in Entries /\ req[u].to \in Entries /\ req[u].nm # req[u].to /\ Victim(u) = req[u].to
    BY StageOps, NamesAreEntries DEF FsRename, Calling, Inside, At, Fails, nodeVars, Removing, Serves
  <1>2. \A t \in Threads \ {u} : ~Moved(t, n) /\ ~Moved(t, n)'
    BY <1>1, OnlyMover
  <1>3. ~Moved(u, n)
    BY <1>1 DEF Moved, At
  <1>4. dir[name[n]] = hfile[h]
    BY <1>2, <1>3 DEF HandleAt
  <1>5. CASE dir' = dir /\ pc'[u] = "failed"
    <2>1. ~Moved(u, n)'
      BY <1>5 DEF Moved, At
    <2>2. \A t \in Threads : ~Moved(t, n)'
      BY <1>2, <2>1
    <2> QED
      BY <1>1, <1>4, <1>5, <2>2 DEF HandleAt
  <1>6. CASE XmpRename(req[u].nm, req[u].to) /\ pc'[u] = "table"
    <2>1. name[n] # req[u].to
      BY <1>0, <1>1 DEF RemoverOK, VictimClosed
    <2>2. dir'[req[u].to] = dir[req[u].nm] /\ \A x \in Entries \ {req[u].nm, req[u].to} : dir'[x] = dir[x]
      BY <1>0, <1>1, <1>6 DEF XmpRename, TypeOK
    <2>3. CASE name[n] = req[u].nm
      <3>1. Moved(u, n)' /\ Place(u)' = req[u].to
        BY <1>1, <1>6, <2>3 DEF Moved, Place, At, Serves
      <3>2. dir'[Place(u)'] = hfile'[h]
        BY <1>4, <2>2, <2>3, <3>1
      <3> QED
        BY <1>2, <3>1, <3>2 DEF HandleAt
    <2>4. CASE name[n] # req[u].nm
      <3>1. ~Moved(u, n)'
        BY <1>1, <1>6, <2>4 DEF Moved, At
      <3>2. \A t \in Threads : ~Moved(t, n)'
        BY <1>2, <3>1
      <3>3. dir'[name'[n]] = hfile'[h]
        BY <1>0, <1>1, <1>4, <2>1, <2>2, <2>4
      <3> QED
        BY <3>2, <3>3 DEF HandleAt
    <2> QED
      BY <2>3, <2>4
  <1> QED
    BY <1>0, <1>5, <1>6 DEF FsRename, Fails, Goto, TypeOK

(* The steps that give the node another name.                              *)
LEMMA NamedHandle ==
  ASSUME BaseInv, BaseInv', FileInv, NEW u \in Threads, Step(u), NEW h \in Handles, NEW n \in Nodes,
         Hides(u, n) \/ Renames(u, n), HandleAt(h, n), hfile'[h] = hfile[h]
  PROVE  HandleAt(h, n)'
  <1>0. TypeOK /\ RemoverOK(u)
    BY DEF BaseInv, FileInv
  <1>1. req[u].op \in DirOps /\ Removing(u) /\ dir' = dir /\ req' = req /\ Victim(u) \in Names
    BY StageOps DEF Hides, HideNode, Renames, ChangeTable, Inside, At, Serves, Removing
  <1>2. \A t \in Threads \ {u} : ~Moved(t, n)'
    BY <1>1, OnlyMover
  <1>3. CASE Hides(u, n)
    <2>1. Moved(u, n) /\ Place(u) = path[u] /\ name'[n] = path[u] /\ path[u] \in HiddenNames
      BY <1>3 DEF Hides, HideNode, Moved, Place, At
    <2>2. ~Moved(u, n)'
      BY <1>0, <1>3 DEF Hides, HideNode, Moved, Goto, At, TypeOK
    <2>3. \A t \in Threads : ~Moved(t, n)'
      BY <1>2, <2>2
    <2> QED
      BY <1>1, <2>1, <2>3 DEF HandleAt
  <1>4. CASE Renames(u, n)
    <2>1. Moved(u, n) /\ Place(u) = req[u].to /\ name'[n] = req[u].to
      BY <1>4 DEF Renames, Moved, Place, At
    <2>2. ~Moved(u, n)'
      BY <1>0, <1>4 DEF Renames, ChangeTable, Moved, Goto, At, TypeOK
    <2>3. \A t \in Threads : ~Moved(t, n)'
      BY <1>2, <2>2
    <2> QED
      BY <1>1, <2>1, <2>3 DEF HandleAt
  <1> QED
    BY <1>3, <1>4

(* The other steps change no entry that leads to an open file.             *)
LEMMA OtherHandle ==
  ASSUME BaseInv, BaseInv', FileInv, NEW u \in Threads, Step(u), ~Hide(u), ~FsRename(u),
         NEW h \in Handles, NEW n \in Nodes, opens[n] > 0, name'[n] = name[n],
         HandleAt(h, n), hfile'[h] = hfile[h], hfile[h] # NoFile
  PROVE  HandleAt(h, n)'
  <1>0. /\ TypeOK /\ UniqueNames /\ name[n] \in Entries /\ RemoverOK(u) /\ UserOK(u)
        /\ \A t \in Threads : RemoverOK(t)
    BY DEF BaseInv, FileInv, OpenNamed, TypeOK
  <1>1. \A t \in Threads : (Moved(t, n)' <=> Moved(t, n)) /\ (Moved(t, n) => Place(t)' = Place(t))
    BY MovedStays
  <1>2. ASSUME NEW t \in Threads, Moved(t, n), dir'[Place(t)] # dir[Place(t)]
        PROVE  FALSE
    <2>1. Removing(t) /\ Place(t) \in Entries /\ (At(t, "hidden") \/ Place(t) \in Names)
      BY <1>0, <1>2, MoversRemove, NamesAreEntries, NamesApart DEF Place, RemoverOK, HiddenAlone
    <2>2. CASE u = t
      BY <1>2, <2>1, <2>2, EntrySteps DEF FsUnlink, FsMknod, EraseHidden, Calling, Moved, At
    <2>3. CASE u # t
      <3>1. /\ Place(t) \in HiddenNames /\ req[u].node \in Nodes /\ name[req[u].node] = Place(t)
        BY <1>2, <2>1, <2>3, OthersEntries
      <3> QED
        BY <1>0, <2>1, <3>1, NamesAreEntries DEF RemoverOK, HiddenAlone, Place, At
    <2> QED
      BY <2>2, <2>3
  <1>3. ASSUME \A t \in Threads : ~Moved(t, n), dir'[name[n]] # dir[name[n]]
        PROVE  FALSE
    <2>1. dir[name[n]] = hfile[h]
      BY <1>3 DEF HandleAt
    <2>2. (FsUnlink(u) /\ name[n] = Victim(u)) \/ (EraseHidden(u) /\ name[n] = path[u])
      BY <1>0, <1>3, <2>1, EntrySteps
    <2>3. CASE FsUnlink(u) /\ name[n] = Victim(u)
      BY <1>0, <2>3 DEF FsUnlink, Calling, At, Serves, Removing, RemoverOK, VictimClosed
    <2>4. CASE EraseHidden(u) /\ name[n] = path[u]
      <3>1. At(u, "erase") /\ req[u].op \in FileOps /\ req[u].node \in Nodes
        BY <2>4, StageOps DEF EraseHidden, At, FileOps
      <3>2. path[u] = name[req[u].node] /\ opens[req[u].node] = 0 /\ path[u] \in HiddenNames
        BY <1>0, <3>1 DEF UserOK, PathOK, EraserOK, At
      <3> QED
        BY <1>0, <2>4, <3>1, <3>2, NamesApart DEF UniqueNames
    <2> QED
      BY <2>2, <2>3, <2>4
  <1> QED
    BY <1>0, <1>1, <1>2, <1>3, HandleStays

(* Every open handle keeps its file through every step.                    *)
LEMMA HandleStep ==
  ASSUME BaseInv, BaseInv', FileInv, NEW u \in Threads, Step(u), NEW h \in Handles
  PROVE  HandleOK(h)'
  <1>0. TypeOK /\ HandleOK(h) /\ TypeOK'
    BY DEF BaseInv, FileInv
  <1> SUFFICES ASSUME NEW n \in Nodes, hnode'[h] = n
               PROVE  HandleAt(h, n)'
    BY <1>0 DEF HandleOK, HandleAt, Moved, Place, TypeOK
  <1>1. CASE hnode'[h] = hnode[h] /\ hfile'[h] = hfile[h]
    <2>1. HandleAt(h, n)
      BY <1>0, <1>1, FuseFilesAssumption DEF HandleOK
    <2>2. opens[n] > 0 /\ hfile[h] # NoFile
      BY <1>1, HandleOpen, FuseFilesAssumption
    <2>3. CASE Hides(u, n) \/ Renames(u, n)
      BY <1>1, <2>1, <2>3, NamedHandle
    <2>4. CASE name'[n] = name[n]
      BY <1>1, <2>1, <2>2, <2>4, HideHandle, RenameHandle, OtherHandle
    <2> QED
      BY <2>2, <2>3, <2>4, NameStays
  <1>2. CASE ~(hnode'[h] = hnode[h] /\ hfile'[h] = hfile[h])
    <2>1. Gives(u)
      <3>1. ASSUME NEW x \in Handles, Closes(u, x)
            PROVE  FALSE
        BY <1>0, <1>2, <3>1, FuseFilesAssumption DEF Closes, TypeOK
      <3> QED
        BY <1>2, <3>1, HandleSteps
    <2>2. h = req[u].h /\ n = req[u].node /\ hfile'[h] = got[u] /\ pc[u] = "counted" /\ Serves(u, "open")
      BY <1>0, <1>2, <2>1 DEF Gives, TypeOK, At
    <2>3. /\ path[u] = name[n] /\ n \in shared[u] /\ Opening(n) /\ dir[path[u]] = got[u]
      BY <2>2, UsersOpen DEF FileInv, UserOK, PathOK, GotOK, FileOps, Serves
    <2>4. ASSUME NEW t \in Threads
          PROVE  ~Moved(t, n)'
      <3>1. ~Moved(t, n)
        BY <2>3, Settled
      <3>2. CASE t = u
        BY <2>1, <3>2 DEF Gives, Moved, At
      <3>3. CASE t # u
        <4>1. Untouched(t) /\ name' = name
          BY <1>0, <2>1, <3>3, OthersWait DEF Gives
        <4> QED
          BY <3>1, <4>1 DEF Untouched, Moved, Victim, At, Serves
      <3> QED
        BY <3>2, <3>3
    <2> QED
      BY <2>1, <2>2, <2>3, <2>4 DEF HandleAt, Gives
  <1> QED
    BY <1>1, <1>2

-----------------------------------------------------------------------------
(* The second half of the invariant.                                       *)

(* FileInv is kept by the steps of the threads.                            *)
LEMMA StepFile ==
  ASSUME BaseInv, BaseInv', FileInv, ~OpenRaces, NEW u \in Threads, Step(u)
  PROVE  FileInv'
  <1>1. Exclusion' /\ NamedAlive' /\ UniqueNames' /\ OneEntry'
    BY ExclusionStep, NamedAliveStep, UniqueNamesStep, OneEntryStep
  <1>2. \A n \in Nodes : (MarkedOK(n) /\ OpenNamed(n))'
    BY MarkedStep, OpenNamedStep
  <1>3. ASSUME NEW t \in Threads
        PROVE  (RemoverOK(t) /\ UserOK(t))'
    <2>1. RemoverOK(t)'
      BY GrabsStep, NoOpeningStep, VictimClosedStep, VictimOpenStep, HiddenAloneStep DEF RemoverOK
    <2>2. UserOK(t)'
      BY PathStep, GotStep, EraserStep, UseStep DEF UserOK
    <2> QED
      BY <2>1, <2>2
  <1>4. \A h \in Handles : HandleOK(h)'
    BY HandleStep
  <1> QED
    BY <1>1, <1>2, <1>3, <1>4 DEF FileInv

(* A node that is forgotten is closed, so no handle misses it.             *)
LEMMA ForgetFile ==
  ASSUME BaseInv, FileInv, NEW n \in Nodes, Forget(n)
  PROVE  FileInv'
  <1>0. TypeOK
    BY DEF BaseInv
  <1>1. /\ UNCHANGED <<mounted, dir, opens, hidden, dentry, hnode, hfile, pc, req, path, found, got, shared, exclusive>>
        /\ \A m \in Nodes \ {n} : name'[m] = name[m] /\ known'[m] = known[m]
        /\ (name'[n] = name[n] /\ \E t \in Threads : found[t] = n) \/ name'[n] = NoName
    BY <1>0 DEF Forget, TypeOK, lockVars
  <1>2. /\ opens[n] = 0 /\ ~Opening(n) /\ \A h \in Handles : hnode[h] # n
        /\ \A t \in Threads : req[t].node # n
    BY UnpinnedFree DEF Forget, Pinned
  <1>3. Exclusion' /\ OneEntry'
    BY <1>1 DEF FileInv, Exclusion, OneEntry
  <1>4. NamedAlive'
    BY <1>1 DEF FileInv, NamedAlive, Alive
  <1>5. UniqueNames'
    BY <1>1 DEF FileInv, UniqueNames
  <1>6. ASSUME NEW m \in Nodes
        PROVE  (MarkedOK(m) /\ OpenNamed(m))'
    <2>1. MarkedOK(m) /\ OpenNamed(m)
      BY DEF FileInv
    <2> QED
      BY <1>1, <1>2, <2>1 DEF MarkedOK, OpenNamed, Opening, Serves
  <1>7. ASSUME NEW t \in Threads
        PROVE  RemoverOK(t)'
    <2>1. RemoverOK(t) /\ \A m \in Nodes : name'[m] \in {name[m], NoName}
      BY <1>1 DEF FileInv
    <2>2. /\ Victim(t)' = Victim(t) /\ Changed(t)' = Changed(t) /\ ((Removing(t))' <=> Removing(t))
      BY <1>1 DEF Victim, Changed, Removing, Serves
    <2>3. Removing(t) => Victim(t) \in Names /\ NoName \notin Changed(t) /\ Victim(t) # NoName
      BY StageOps, NamesAreEntries
    <2>4. Grabs(t)'
      BY <1>1, <2>1, <2>2, <2>3 DEF RemoverOK, Grabs, Fresh, Opening, Serves
    <2>5. NoOpening(t)' /\ VictimClosed(t)'
      BY <1>1, <2>1, <2>2, <2>3 DEF RemoverOK, NoOpening, VictimClosed, Opening, Serves
    <2>6. VictimOpen(t)'
      BY <1>1, <1>2, <2>1, <2>2 DEF RemoverOK, VictimOpen
    <2>7. HiddenAlone(t)'
      BY <1>1, <2>1, <2>2, NamesApart DEF RemoverOK, HiddenAlone, At
    <2> QED
      BY <2>4, <2>5, <2>6, <2>7 DEF RemoverOK
  <1>8. ASSUME NEW t \in Threads
        PROVE  UserOK(t)'
    <2>1. UserOK(t)
      BY DEF FileInv
    <2>2. PathOK(t)'
      BY <1>1, <1>2, <2>1, StageOps DEF UserOK, PathOK
    <2> QED
      BY <1>1, <2>1, <2>2 DEF UserOK, GotOK, EraserOK, UseOK, At, Serves
  <1>9. ASSUME NEW h \in Handles
        PROVE  HandleOK(h)'
    <2>1. HandleOK(h)
      BY DEF FileInv
    <2>2. CASE hnode[h] = NoNode
      BY <1>1, <2>2 DEF HandleOK
    <2>3. CASE hnode[h] # NoNode
      <3>1. hnode[h] \in Nodes /\ hnode[h] # n /\ name'[hnode[h]] = name[hnode[h]]
        BY <1>0, <1>1, <1>2, <2>3 DEF TypeOK
      <3> QED
        BY <1>1, <2>1, <3>1 DEF HandleOK, HandleAt, Moved, Place, Victim, At, Serves
    <2> QED
      BY <2>2, <2>3
  <1> QED
    BY <1>3, <1>4, <1>5, <1>6, <1>7, <1>8, <1>9 DEF FileInv

(* When nobody is served and nothing is open there is little to say.       *)
LEMMA QuietFile ==
  ASSUME \A t \in Threads : pc[t] = "idle" /\ req[t] = None /\ shared[t] = {} /\ exclusive[t] = {},
         \A n \in Nodes : name[n] = NoName /\ opens[n] = 0 /\ ~hidden[n],
         \A h \in Handles : hnode[h] = NoNode, OneEntry
  PROVE  FileInv
  <1>1. \A t \in Threads : req[t].op = "none"
    BY DEF None, Request
  <1>2. Exclusion /\ NamedAlive /\ UniqueNames /\ OneEntry
    BY DEF Exclusion, NamedAlive, UniqueNames
  <1>3. \A n \in Nodes : MarkedOK(n) /\ OpenNamed(n)
    BY <1>1 DEF MarkedOK, OpenNamed, Opening, Serves
  <1>4. \A t \in Threads : RemoverOK(t)
    BY <1>1 DEF RemoverOK, Grabs, NoOpening, VictimClosed, VictimOpen, HiddenAlone, Removing, At
  <1>5. \A t \in Threads : UserOK(t)
    BY <1>1 DEF UserOK, PathOK, GotOK, EraserOK, UseOK, At, Serves, FileOps
  <1>6. \A h \in Handles : HandleOK(h)
    BY DEF HandleOK
  <1> QED
    BY <1>2, <1>3, <1>4, <1>5, <1>6 DEF FileInv

LEMMA InitFile == Init => FileInv
  <1> SUFFICES ASSUME Init
               PROVE  FileInv
    OBVIOUS
  <1> QED
    BY QuietFile DEF Init, OneEntry

(* After fuse_destroy nothing is open.                                     *)
LEMMA DestroyFile ==
  ASSUME BaseInv, FileInv, Destroy
  PROVE  FileInv'
  <1>0. TypeOK /\ OneEntry
    BY DEF BaseInv, FileInv
  <1>1. \A t \in Threads : pc'[t] = "idle" /\ req'[t] = None
    BY IdleEnds DEF Destroy
  <1>2. \A n \in Nodes : name'[n] = NoName /\ opens'[n] = 0 /\ ~hidden'[n]
    BY DEF Destroy
  <1>3. \A h \in Handles : hnode'[h] = NoNode
    BY DEF Destroy
  <1>4. PICK E : dir' = [e \in Entries |-> IF e \in E THEN NoFile ELSE dir[e]]
    BY DEF Destroy
  <1>5. OneEntry'
    BY <1>0, <1>4 DEF OneEntry, TypeOK
  <1>6. Exclusion'
    BY DEF Destroy, lockVars, FileInv, Exclusion
  <1>7. \A t \in Threads : req'[t].op = "none"
    BY <1>1 DEF None, Request
  <1>8. NamedAlive' /\ UniqueNames'
    BY <1>2 DEF NamedAlive, UniqueNames
  <1>9. \A n \in Nodes : (MarkedOK(n) /\ OpenNamed(n))'
    BY <1>2, <1>7 DEF MarkedOK, OpenNamed, Opening, Serves
  <1>10. \A t \in Threads : RemoverOK(t)'
    BY <1>1, <1>7 DEF RemoverOK, Grabs, NoOpening, VictimClosed, VictimOpen, HiddenAlone, Removing, At
  <1>11. \A t \in Threads : UserOK(t)'
    BY <1>1, <1>7 DEF UserOK, PathOK, GotOK, EraserOK, UseOK, At, Serves, FileOps
  <1>12. \A h \in Handles : HandleOK(h)'
    BY <1>3 DEF HandleOK
  <1> QED
    BY <1>5, <1>6, <1>8, <1>9, <1>10, <1>11, <1>12 DEF FileInv

LEMMA StutterFile ==
  ASSUME FileInv, UNCHANGED vars
  PROVE  FileInv'
  <1>1. /\ UNCHANGED <<dir, name, opens, hidden, known, dentry, hnode, hfile, pc, req, path, found, got, shared, exclusive>>
    BY DEF vars, nodeVars, kernelVars, lockVars
  <1>2. Exclusion' /\ NamedAlive' /\ UniqueNames' /\ OneEntry'
    BY <1>1 DEF FileInv, Exclusion, NamedAlive, UniqueNames, OneEntry, Alive
  <1>3. \A n \in Nodes : (MarkedOK(n) /\ OpenNamed(n))'
    BY <1>1 DEF FileInv, MarkedOK, OpenNamed, Opening, Serves
  <1>4. ASSUME NEW t \in Threads
        PROVE  RemoverOK(t)'
    <2>1. RemoverOK(t)
      BY DEF FileInv
    <2>2. Grabs(t)'
      BY <1>1, <2>1 DEF RemoverOK, Grabs, Fresh, Removing, Changed, Opening, Serves
    <2>3. NoOpening(t)' /\ VictimClosed(t)'
      BY <1>1, <2>1 DEF RemoverOK, NoOpening, VictimClosed, Removing, Victim, Opening, Serves
    <2>4. VictimOpen(t)' /\ HiddenAlone(t)'
      BY <1>1, <2>1 DEF RemoverOK, VictimOpen, HiddenAlone, Victim, At, Serves
    <2> QED
      BY <2>2, <2>3, <2>4 DEF RemoverOK
  <1>5. \A t \in Threads : UserOK(t)'
    BY <1>1 DEF FileInv, UserOK, PathOK, GotOK, EraserOK, UseOK, At, Serves
  <1>6. \A h \in Handles : HandleOK(h)'
    BY <1>1 DEF FileInv, HandleOK, HandleAt, Moved, Place, Victim, At, Serves
  <1> QED
    BY <1>2, <1>3, <1>4, <1>5, <1>6 DEF FileInv

(* The invariant of both halves.                                           *)
LEMMA FileInvariant ==
  ASSUME ~OpenRaces
  PROVE  Spec => [](BaseInv /\ FileInv)
  <1>1. Init => BaseInv /\ FileInv
    BY InitBase, InitFile
  <1>2. BaseInv /\ FileInv /\ [Next]_vars => (BaseInv /\ FileInv)'
    <2> SUFFICES ASSUME BaseInv, FileInv, [Next]_vars
                 PROVE  BaseInv' /\ FileInv'
      OBVIOUS
    <2>1. BaseInv'
      BY NextBase
    <2>2. CASE \E t \in Threads : Step(t)
      BY <2>1, <2>2, StepFile
    <2>3. CASE \E n \in Nodes : Forget(n)
      BY <2>1, <2>3, ForgetFile
    <2>4. CASE Destroy
      BY <2>1, <2>4, DestroyFile
    <2>5. CASE UNCHANGED vars
      BY <2>1, <2>5, StutterFile
    <2> QED
      BY <2>1, <2>2, <2>3, <2>4, <2>5 DEF Next
  <1> QED
    BY <1>1, <1>2, PTL DEF Spec

(* When no file is opened while its entry is being removed or replaced:    *)
(* the path fuse_lib_read passes to the file system leads to the file that *)
(* was opened with the handle, and it is never refused one.                *)
THEOREM UsesReachFiles ==
  ASSUME ~OpenRaces
  PROVE  Spec => []UseReachesFile
  <1>1. BaseInv /\ FileInv => UseReachesFile
    BY HandleReached DEF FileInv, UserOK, UseOK, UseReachesFile, At, XmpRead
  <1> QED
    BY <1>1, FileInvariant, PTL

-----------------------------------------------------------------------------
(* Hidden files, when the unlink of one does not fail.                     *)

Hidden(e) ==
  dir[e] # NoFile =>
    \/ \E n \in Nodes : name[n] = e /\ hidden[n] /\ opens[n] > 0
    \/ \E t \in Threads : pc[t] \in {"hidden", "erase"} /\ path[t] = e

(* A mark is taken away when the last open is.                             *)
LEMMA UnmarkSteps ==
  ASSUME BaseInv, FileInv, NEW t \in Threads, Step(t), NEW n \in Nodes, hidden[n], ~hidden'[n]
  PROVE  DropOpen(t) /\ req[t].node = n /\ Last(n)
  <1>0. TypeOK
    BY DEF BaseInv
  <1>1. HideNode(t) \/ DropOpen(t) \/ ChangeTable(t)
    BY StepKinds, SendsAlone, ReplyKinds DEF Gives, TakesBack, Finish, Works, GrantFile, GrantDir, Check, Hide,
       FsUnlink, FsRename, FsMknod, FsGetattr, FsOpen, FsUse, CountOpen, EraseHidden, Calling, Inside, Fails, nodeVars
  <1>2. CASE HideNode(t)
    <2>1. hidden' = [hidden EXCEPT ![LookupNode(Victim(t))] = TRUE]
      BY <1>2 DEF HideNode
    <2> QED
      BY <1>0, <2>1 DEF TypeOK
  <1>3. CASE DropOpen(t)
    <2>1. hidden' = [hidden EXCEPT ![req[t].node] = @ /\ ~Last(req[t].node)]
      BY <1>3 DEF DropOpen
    <2>2. req[t].node = n
      BY <1>0, <2>1, Zenon DEF TypeOK
    <2>3. hidden'[n] = (hidden[n] /\ ~Last(n))
      BY <1>0, <2>1, <2>2, Zenon DEF TypeOK
    <2> QED
      BY <1>3, <2>2, <2>3
  <1>4. CASE ChangeTable(t)
    <2>1. CASE req[t].op \in {"lookup", "revalidate", "mknod"}
      <3>1. req[t].nm \in Names /\ FindNode(t, req[t].nm)
        BY <1>4, <2>1 DEF BaseInv, ChangeTable, RequestOK, DirOps
      <3> QED
        BY <3>1, FindNodeFacts
    <2> QED
      BY <1>4, <2>1 DEF ChangeTable, RemoveNode, RenameNode
  <1> QED
    BY <1>1, <1>2, <1>3, <1>4

(* A hidden file comes from hide_node.                                     *)
LEMMA HiddenMade ==
  ASSUME BaseInv, BaseInv', FileInv, NEW t \in Threads, Step(t),
         NEW e \in HiddenNames, dir[e] = NoFile, dir'[e] # NoFile
  PROVE  pc'[t] = "hidden" /\ path'[t] = e
  <1>0. TypeOK /\ RequestOK(t) /\ UserOK(t)
    BY DEF BaseInv, FileInv
  <1>1. \/ Hide(t) /\ e = Victim(t)
        \/ Hide(t) /\ e = path'[t]
        \/ FsUnlink(t) /\ e = Victim(t)
        \/ FsRename(t) /\ e \in {req[t].nm, req[t].to}
        \/ FsMknod(t) /\ e = req[t].nm
        \/ EraseHidden(t) /\ e = path[t]
    BY EntrySteps, NamesApart
  <1>2. ~(EraseHidden(t) /\ e = path[t])
    <2>1. ASSUME EraseHidden(t), e = path[t]
          PROVE  FALSE
      <3>1. dir' = [dir EXCEPT ![e] = NoFile]
        BY <2>1 DEF EraseHidden
      <3> QED
        BY <1>0, <3>1, NamesApart DEF TypeOK
    <2> QED
      BY <2>1
  <1>3. Hide(t) /\ e = path'[t]
    BY <1>0, <1>1, <1>2, StageOps, NamesApart DEF Hide, FsUnlink, FsRename, FsMknod, Calling, At, Serves, Removing,
       RequestOK, DirOps
  <1>4. pc'[t] = "hidden"
    BY <1>0, <1>3 DEF Hide, Fails, Goto, TypeOK
  <1> QED
    BY <1>3, <1>4

(* A hidden file stays somebody's to erase.                                *)
LEMMA HiddenStep ==
  ASSUME BaseInv, BaseInv', FileInv, "erase" \notin Failing, NEW u \in Threads, Step(u),
         NEW e \in HiddenNames, Hidden(e)
  PROVE  Hidden(e)'
  <1>0. TypeOK /\ RemoverOK(u) /\ UserOK(u) /\ UniqueNames /\ TypeOK'
    BY DEF BaseInv, FileInv
  <1> SUFFICES ASSUME dir'[e] # NoFile
               PROVE  \/ \E n \in Nodes : name'[n] = e /\ hidden'[n] /\ opens'[n] > 0
                      \/ \E t \in Threads : pc'[t] \in {"hidden", "erase"} /\ path'[t] = e
    BY DEF Hidden
  <1>1. CASE dir[e] = NoFile
    BY <1>1, HiddenMade
  <1>2. ASSUME NEW n \in Nodes, name[n] = e, hidden[n], opens[n] > 0
        PROVE  (name'[n] = e /\ hidden'[n] /\ opens'[n] > 0) \/ (pc'[u] = "erase" /\ path'[u] = e)
    <2>1. name'[n] = e
      BY <1>2, NameStays, StageOps, NamesApart DEF Hides, Renames, HideNode, At, Serves, Removing
    <2>2. CASE DropOpen(u) /\ req[u].node = n /\ Last(n)
      <3>1. req[u].op \in FileOps /\ pc[u] \in {"call", "drop"}
        BY <2>2, StageOps DEF DropOpen, At, Serves, FileOps
      <3>2. path[u] = e /\ path[u] # NoName
        BY <1>0, <1>2, <2>2, <3>1, NamesApart DEF UserOK, PathOK
      <3> QED
        BY <1>0, <2>2, <3>2 DEF DropOpen, Goto, Inside, TypeOK
    <2>3. CASE ~(DropOpen(u) /\ req[u].node = n /\ Last(n))
      <3>1. hidden'[n]
        BY <1>2, <2>3, UnmarkSteps
      <3>2. opens'[n] > 0
        BY <1>0, <1>2, <2>3, OpensSteps DEF Last, TypeOK
      <3> QED
        BY <2>1, <3>1, <3>2
    <2> QED
      BY <2>2, <2>3
  <1>3. ASSUME NEW t \in Threads, pc[t] \in {"hidden", "erase"}, path[t] = e
        PROVE  \/ \E n \in Nodes : name'[n] = e /\ hidden'[n] /\ opens'[n] > 0
               \/ pc'[t] \in {"hidden", "erase"} /\ path'[t] = e
    <2>1. CASE u # t
      <3>1. Untouched(t)
        BY <1>0, <2>1, OthersWait
      <3> QED
        BY <1>3, <3>1 DEF Untouched
    <2>2. CASE u = t
      <3>1. HideNode(t) \/ EraseHidden(t)
        BY <1>3, <2>2, StepKinds, RequestSent, ReplyKinds DEF Gives, TakesBack, Finish, Works, GrantFile, GrantDir,
           Check, Hide, FsUnlink, FsRename, FsMknod, FsGetattr, FsOpen, FsUse, ChangeTable, CountOpen, DropOpen,
           Calling, At
      <3>2. CASE HideNode(t)
        <4>1. /\ At(t, "hidden") /\ opens' = opens
              /\ name' = [name EXCEPT ![LookupNode(Victim(t))] = path[t]]
              /\ hidden' = [hidden EXCEPT ![LookupNode(Victim(t))] = TRUE]
          BY <3>2 DEF HideNode
        <4>2. PICK v \in Nodes : name[v] = Victim(t) /\ opens[v] > 0
          BY <1>0, <2>2, <4>1 DEF RemoverOK, VictimOpen, At
        <4>3. LookupNode(Victim(t)) = v
          BY <1>0, <4>1, <4>2, LookupFacts, StageOps, NamesAreEntries DEF At
        <4> QED
          BY <1>0, <1>3, <4>1, <4>2, <4>3 DEF TypeOK
      <3>3. CASE EraseHidden(t)
        <4>1. dir' = [dir EXCEPT ![e] = NoFile]
          BY <1>3, <3>3 DEF EraseHidden
        <4> QED
          BY <1>0, <4>1, NamesApart DEF TypeOK
      <3> QED
        BY <3>1, <3>2, <3>3
    <2> QED
      BY <2>1, <2>2
  <1> QED
    BY <1>1, <1>2, <1>3 DEF Hidden

(* fuse_destroy erases the hidden files that are left.                     *)
LEMMA HiddenEnds ==
  ASSUME BaseInv, FileInv, "erase" \notin Failing, (\E n \in Nodes : Forget(n)) \/ Destroy,
         NEW e \in HiddenNames, Hidden(e)
  PROVE  Hidden(e)'
  <1>0. TypeOK /\ e \in Entries /\ e # NoName
    BY NamesApart DEF BaseInv
  <1>1. ASSUME NEW n \in Nodes, Forget(n)
        PROVE  Hidden(e)'
    <2>1. UNCHANGED <<dir, hidden, opens, pc, path>> /\ opens[n] = 0
      BY <1>1, UnpinnedFree DEF Forget
    <2>2. \A m \in Nodes : m # n => name'[m] = name[m]
      BY <1>0, <1>1 DEF Forget, TypeOK
    <2> QED
      BY <2>1, <2>2 DEF Hidden
  <1>2. CASE Destroy
    <2>1. \A t \in Threads : pc[t] = "idle"
      BY <1>2, IdleEnds
    <2>2. dir' = [x \in Entries |-> IF x \in {name[n] : n \in {m \in Nodes : hidden[m]}} \ {NoName}
                                    THEN NoFile ELSE dir[x]]
      BY <1>2 DEF Destroy
    <2>3. CASE \E n \in Nodes : name[n] = e /\ hidden[n]
      BY <1>0, <2>2, <2>3 DEF Hidden
    <2>4. CASE ~\E n \in Nodes : name[n] = e /\ hidden[n]
      BY <1>0, <2>1, <2>2, <2>4 DEF Hidden
    <2> QED
      BY <2>3, <2>4
  <1> QED
    BY <1>1, <1>2

AllHidden == \A e \in HiddenNames : Hidden(e)

(* A file that hide_node has made belongs to a node that is marked and     *)
(* open, so that the last fuse_do_release or fuse_destroy removes it, or   *)
(* is being made or removed right now; when the file system never refuses  *)
(* to remove one, and no file is opened while its entry is being removed   *)
(* or replaced.                                                            *)
THEOREM HiddenFilesGo ==
  ASSUME ~OpenRaces, "erase" \notin Failing
  PROVE  Spec => []HiddenWillGo
  <1>1. Init => AllHidden
    BY DEF Init, AllHidden, Hidden
  <1>2. /\ BaseInv /\ FileInv /\ AllHidden /\ [Next]_vars => AllHidden'
    <2> SUFFICES ASSUME BaseInv, FileInv, AllHidden, [Next]_vars, NEW e \in HiddenNames
                 PROVE  Hidden(e)'
      BY DEF AllHidden
    <2>1. BaseInv' /\ Hidden(e)
      BY NextBase DEF AllHidden
    <2>2. CASE \E t \in Threads : Step(t)
      BY <2>1, <2>2, HiddenStep
    <2>3. CASE (\E n \in Nodes : Forget(n)) \/ Destroy
      BY <2>1, <2>3, HiddenEnds
    <2>4. CASE UNCHANGED vars
      <3>1. UNCHANGED <<dir, name, hidden, opens, pc, path>>
        BY <2>4 DEF vars, nodeVars
      <3> QED
        BY <2>1, <3>1 DEF Hidden
    <2> QED
      BY <2>2, <2>3, <2>4 DEF Next
  <1>3. AllHidden => HiddenWillGo
    BY DEF AllHidden, Hidden, HiddenWillGo
  <1> QED
    BY <1>1, <1>2, <1>3, FileInvariant, PTL DEF Spec

-----------------------------------------------------------------------------
(* The users' view.                                                        *)

Stored == {dir[e] : e \in Entries} \ {NoFile}
Reachable == \A h \in Handles : hfile[h] # NoFile => hfile[h] \in Stored
Viewed == BaseInv /\ FileInv /\ Reachable

(* The file of an open handle has an entry, visible or hidden.             *)
LEMMA FilesReachable == BaseInv /\ FileInv => Reachable
  <1> SUFFICES ASSUME BaseInv, FileInv, NEW h \in Handles, hfile[h] # NoFile
               PROVE  hfile[h] \in Stored
    BY DEF Reachable
  <1>0. TypeOK /\ hnode[h] # NoNode
    BY DEF BaseInv, HandleTable
  <1> DEFINE n == hnode[h]
  <1>1. n \in Nodes /\ name[n] \in Entries /\ HandleAt(h, n)
    BY <1>0, HandleOpen DEF FileInv, HandleOK, OpenNamed, TypeOK
  <1>2. CASE \E t \in Threads : Moved(t, n)
    <2>1. PICK t \in Threads : Moved(t, n)
      BY <1>2
    <2>2. Place(t) \in Entries
      BY <1>1, <2>1, MoversRemove, NamesAreEntries, NamesApart DEF FileInv, RemoverOK, HiddenAlone, Place
    <2> QED
      BY <1>1, <2>1, <2>2 DEF HandleAt, Stored
  <1>3. CASE ~\E t \in Threads : Moved(t, n)
    BY <1>1, <1>3 DEF HandleAt, Stored
  <1> QED
    BY <1>2, <1>3

(* Files are kept while entries or handles are on them.                    *)
LEMMA StoredKeeps ==
  ASSUME TypeOK', Reachable', NEW S, \A e \in Entries : dir'[e] \in Stored \cup S \cup {NoFile}
  PROVE  Posix!Keeps(S)
  <1>1. Stored' = {dir'[e] : e \in Entries} \ {NoFile}
    BY DEF Stored
  <1>2. Stored' \subseteq Stored \cup S
    BY <1>1
  <1>3. {dir'[nm] : nm \in Names} \ {NoFile} \subseteq Stored'
    BY <1>1, NamesAreEntries
  <1>4. {hfile'[h] : h \in Handles} \ {NoFile} \subseteq Stored'
    BY DEF Reachable
  <1> QED
    BY <1>1, <1>2, <1>3, <1>4 DEF Posix!Keeps, Posix!Named, Posix!Held, Stored

(* A step of a thread is a step of PosixFiles or shows nothing.            *)
LEMMA StepPosix ==
  ASSUME Viewed, Viewed', NEW u \in Threads, Step(u)
  PROVE  Posix!Next \/ UNCHANGED <<[nm \in Names |-> dir[nm]], hfile, Stored>>
  <1>0. /\ TypeOK /\ TypeOK' /\ Reachable' /\ BaseInv /\ FileInv
        /\ RequestOK(u) /\ UserOK(u) /\ HandleTable
    BY DEF Viewed, BaseInv, FileInv
  <1>1. \A e \in Entries : dir[e] \in Stored \cup {NoFile}
    BY DEF Stored
  <1>2. CASE Gives(u)
    <2>1. /\ req[u].h \in Handles /\ hnode[req[u].h] = NoNode /\ dir' = dir /\ pc[u] = "counted"
          /\ hfile' = [hfile EXCEPT ![req[u].h] = got[u]]
      BY <1>0, <1>2 DEF Gives, RequestOK, At, Serves
    <2>2. hfile[req[u].h] = NoFile
      BY <1>0, <2>1 DEF HandleTable
    <2>3. got[u] \in Stored /\ got[u] \in Files
      BY <1>0, <2>1, FuseFilesAssumption DEF UserOK, GotOK, RequestOK, Stored
    <2>4. Posix!Keeps({})
      BY <1>0, <1>1, <2>1, StoredKeeps
    <2>5. Posix!Open(req[u].h, got[u])
      BY <2>1, <2>2, <2>3, <2>4 DEF Posix!Open, Stored
    <2> QED
      BY <2>1, <2>3, <2>5 DEF Posix!Next
  <1>3. CASE \E h \in Handles : Closes(u, h)
    <2>1. PICK h \in Handles : Closes(u, h)
      BY <1>3
    <2>2. dir' = dir /\ hfile' = [hfile EXCEPT ![h] = NoFile]
      BY <2>1, SendsAlone DEF Closes
    <2>3. Posix!Keeps({})
      BY <1>0, <1>1, <2>2, StoredKeeps
    <2>4. Posix!Close(h)
      BY <2>2, <2>3 DEF Posix!Close
    <2> QED
      BY <2>4 DEF Posix!Next
  <1>4. CASE hfile' = hfile /\ dir' = dir
    BY <1>4 DEF Stored
  <1>5. CASE hfile' = hfile /\ dir' # dir
    <2>1. Hide(u) \/ FsUnlink(u) \/ FsRename(u) \/ FsMknod(u) \/ EraseHidden(u)
      <3>1. \E e \in Entries : dir'[e] # dir[e]
        BY <1>0, <1>5 DEF TypeOK
      <3> QED
        BY <1>0, <3>1, EntrySteps
    <2>2. ASSUME NEW nm \in Names, dir[nm] # NoFile, dir'[nm] = NoFile,
                 \A x \in Names : x # nm => dir'[x] = dir[x],
                 \A e \in Entries : dir'[e] \in Stored \cup {NoFile}
          PROVE  Posix!Next
      <3>1. Posix!Keeps({})
        BY <1>0, <2>2, StoredKeeps
      <3>2. [x \in Names |-> dir'[x]] = [[x \in Names |-> dir[x]] EXCEPT ![nm] = NoFile]
        BY <2>2
      <3>3. Posix!Remove(nm)
        BY <1>5, <2>2, <3>1, <3>2 DEF Posix!Remove
      <3> QED
        BY <3>3 DEF Posix!Next
    <2>3. CASE Hide(u)
      <3>1. Victim(u) \in Names /\ Victim(u) \in Entries
        BY <1>0, <2>3, StageOps, NamesAreEntries DEF Hide, At
      <3>2. PICK e \in HiddenNames : XmpRename(Victim(u), e)
        BY <1>5, <2>3 DEF Hide, Fails
      <3>3. e \in Entries /\ e \notin Names
        BY NamesApart
      <3>4. /\ dir[Victim(u)] # NoFile /\ dir'[Victim(u)] = NoFile
            /\ dir'[e] = dir[Victim(u)] /\ \A x \in Entries \ {e, Victim(u)} : dir'[x] = dir[x]
        BY <1>0, <3>1, <3>2, <3>3 DEF XmpRename, Exists, TypeOK
      <3>5. \A x \in Names : x # Victim(u) => dir'[x] = dir[x]
        BY <3>3, <3>4, NamesAreEntries
      <3>6. \A x \in Entries : dir'[x] \in Stored \cup {NoFile}
        BY <1>1, <3>1, <3>4
      <3> QED
        BY <2>2, <3>1, <3>4, <3>5, <3>6
    <2>4. CASE FsUnlink(u)
      <3>1. req[u].nm \in Names /\ req[u].nm \in Entries
        BY <1>0, <2>4, StageOps, NamesAreEntries DEF FsUnlink, Calling, Serves, Removing
      <3>2. dir[req[u].nm] # NoFile /\ dir' = [dir EXCEPT ![req[u].nm] = NoFile]
        BY <1>5, <2>4 DEF FsUnlink, XmpUnlink, Exists, Fails
      <3>3. /\ dir'[req[u].nm] = NoFile
            /\ \A x \in Entries \ {req[u].nm} : dir'[x] = dir[x]
        BY <1>0, <3>1, <3>2 DEF TypeOK
      <3> QED
        BY <1>1, <2>2, <3>1, <3>2, <3>3, NamesAreEntries
    <2>5. CASE FsRename(u)
      <3>1. PICK nm \in Names, to \in Names : nm = req[u].nm /\ to = req[u].to /\ nm # to
        BY <1>0, <2>5, StageOps DEF FsRename, Calling, Serves, Removing
      <3>2. dir[nm] # NoFile /\ dir' = [dir EXCEPT ![to] = dir[nm], ![nm] = NoFile]
        BY <1>5, <2>5, <3>1 DEF FsRename, XmpRename, Exists, Fails
      <3>3. /\ dir'[to] = dir[nm] /\ dir'[nm] = NoFile
            /\ \A x \in Entries \ {nm, to} : dir'[x] = dir[x]
        BY <1>0, <3>1, <3>2, NamesAreEntries DEF TypeOK
      <3>4. Posix!Keeps({})
        BY <1>0, <1>1, <3>1, <3>3, StoredKeeps, NamesAreEntries
      <3>5. [x \in Names |-> dir'[x]] = [[x \in Names |-> dir[x]] EXCEPT ![to] = dir[nm], ![nm] = NoFile]
        BY <3>1, <3>3, NamesAreEntries
      <3>6. Posix!Move(nm, to)
        BY <1>5, <3>1, <3>2, <3>4, <3>5 DEF Posix!Move
      <3> QED
        BY <3>1, <3>6 DEF Posix!Next
    <2>6. CASE FsMknod(u)
      <3>1. req[u].nm \in Names /\ req[u].nm \in Entries
        BY <1>0, <2>6, NamesAreEntries DEF FsMknod, Calling, Serves, RequestOK, DirOps
      <3>2. PICK f \in Files : dir[req[u].nm] = NoFile /\ ~InUse(f) /\ dir' = [dir EXCEPT ![req[u].nm] = f]
        BY <1>5, <2>6 DEF FsMknod, XmpMknod, Exists, Fails
      <3>3. dir'[req[u].nm] = f /\ \A x \in Entries \ {req[u].nm} : dir'[x] = dir[x]
        BY <1>0, <3>1, <3>2 DEF TypeOK
      <3>4. Posix!Keeps({f})
        BY <1>0, <1>1, <3>3, StoredKeeps
      <3>5. [x \in Names |-> dir'[x]] = [[x \in Names |-> dir[x]] EXCEPT ![req[u].nm] = f]
        BY <3>1, <3>3, NamesAreEntries
      <3>6. f \notin Stored
        BY <3>2 DEF InUse, Stored
      <3>7. Posix!Make(req[u].nm, f)
        BY <1>5, <3>1, <3>2, <3>4, <3>5, <3>6 DEF Posix!Make, Stored
      <3> QED
        BY <3>1, <3>7 DEF Posix!Next
    <2>7. CASE EraseHidden(u)
      <3>1. path[u] \in HiddenNames
        BY <1>0, <2>7 DEF EraseHidden, UserOK, EraserOK
      <3>2. \A e \in Entries : dir'[e] \in {dir[e], NoFile} /\ (e # path[u] => dir'[e] = dir[e])
        BY <1>0, <2>7, <3>1, NamesApart DEF EraseHidden, TypeOK
      <3>3. Posix!Keeps({})
        BY <1>0, <1>1, <3>2, StoredKeeps
      <3>4. [x \in Names |-> dir'[x]] = [x \in Names |-> dir[x]]
        BY <3>1, <3>2, NamesAreEntries
      <3>5. Posix!Delete
        BY <1>5, <3>3, <3>4 DEF Posix!Delete
      <3> QED
        BY <3>5 DEF Posix!Next
    <2> QED
      BY <2>1, <2>3, <2>4, <2>5, <2>6, <2>7
  <1> QED
    BY <1>0, <1>2, <1>3, <1>4, <1>5, HandleSteps

(* fuse_destroy is an unmount.                                             *)
LEMMA DestroyPosix ==
  ASSUME Viewed, Viewed', Destroy
  PROVE  Posix!Next
  <1>0. TypeOK /\ TypeOK' /\ Reachable' /\ \A n \in Nodes : MarkedOK(n)
    BY DEF Viewed, BaseInv, FileInv
  <1>1. PICK E \in SUBSET HiddenNames : dir' = [e \in Entries |-> IF e \in E THEN NoFile ELSE dir[e]]
    <2>1. {name[n] : n \in {m \in Nodes : hidden[m]}} \ {NoName} \subseteq HiddenNames
      BY <1>0 DEF MarkedOK
    <2> QED
      BY <2>1 DEF Destroy
  <1>2. \A e \in Entries : dir'[e] \in Stored \cup {NoFile}
    BY <1>1 DEF Stored
  <1>3. Posix!Keeps({})
    BY <1>0, <1>2, StoredKeeps
  <1>4. [x \in Names |-> dir'[x]] = [x \in Names |-> dir[x]]
    BY <1>1, NamesAreEntries
  <1>5. hfile' = [h \in Handles |-> NoFile]
    BY DEF Destroy
  <1>6. Posix!Unmount
    BY <1>3, <1>4, <1>5 DEF Posix!Unmount
  <1> QED
    BY <1>6 DEF Posix!Next

LEMMA InitPosix == Init => Posix!Init
  <1> SUFFICES ASSUME Init
               PROVE  Posix!Init
    OBVIOUS
  <1>1. [nm \in Names |-> dir[nm]] \in [Names -> Files \cup {NoFile}]
    BY NamesAreEntries DEF Init
  <1>2. \A n1, n2 \in Names : dir[n1] = dir[n2] => n1 = n2 \/ dir[n1] = NoFile
    BY NamesAreEntries DEF Init
  <1>3. {dir[e] : e \in Entries} \ {NoFile} = {dir[nm] : nm \in Names} \ {NoFile}
    BY DEF Init, Entries
  <1>4. {[x \in Names |-> dir[x]][nm] : nm \in Names} = {dir[nm] : nm \in Names}
    OBVIOUS
  <1>5. \A n1, n2 \in Names : [x \in Names |-> dir[x]][n1] = [x \in Names |-> dir[x]][n2]
                                => n1 = n2 \/ [x \in Names |-> dir[x]][n1] = NoFile
    BY <1>2
  <1>6. hfile = [h \in Handles |-> NoFile]
    BY DEF Init
  <1> QED
    BY <1>1, <1>3, <1>4, <1>5, <1>6, Zenon DEF Posix!Init, Posix!Named

(* To its users the mount is a directory with handles on its files, in     *)
(* which a file is stored while it is named or open, whatever fails; when  *)
(* no file is opened while its entry is being removed or replaced.         *)
THEOREM PosixImplemented ==
  ASSUME ~OpenRaces
  PROVE  Spec => ImplementsPosix
  <1>1. Spec => []Viewed
    BY FilesReachable, FileInvariant, PTL DEF Viewed
  <1>2. Viewed /\ Viewed' /\ [Next]_vars => [Posix!Next]_(Posix!vars)
    <2> SUFFICES ASSUME Viewed, Viewed', [Next]_vars
                 PROVE  Posix!Next \/ UNCHANGED <<[nm \in Names |-> dir[nm]], hfile, Stored>>
      BY DEF Posix!vars, Stored
    <2>1. CASE \E t \in Threads : Step(t)
      BY <2>1, StepPosix
    <2>2. CASE \E n \in Nodes : Forget(n)
      BY <2>2 DEF Forget, Stored
    <2>3. CASE Destroy
      BY <2>3, DestroyPosix
    <2>4. CASE UNCHANGED vars
      BY <2>4 DEF vars, kernelVars, Stored
    <2> QED
      BY <2>1, <2>2, <2>3, <2>4 DEF Next
  <1>3. Posix!Spec <=> Posix!Init /\ [][Posix!Next]_(Posix!vars)
    BY DEF Posix!Spec
  <1> QED
    BY <1>1, <1>2, <1>3, InitPosix, PTL DEF Spec, ImplementsPosix

-----------------------------------------------------------------------------
(* A name that users chose changes its file only by a request about this   *)
(* name: neither the last fuse_do_release of another file nor              *)
(* fuse_destroy touches it; when no file is opened while its entry is      *)
(* being removed or replaced.                                              *)
THEOREM VisibleFilesStay ==
  ASSUME ~OpenRaces
  PROVE  Spec => VisibleStays
  <1> DEFINE Changes(nm) == \E t \in Threads : req[t].op \in {"mknod", "unlink", "rename"}
                                               /\ nm \in {req[t].nm, req[t].to}
  <1>1. BaseInv /\ FileInv /\ [Next]_vars => [\A nm \in Names : dir'[nm] # dir[nm] => Changes(nm)]_vars
    <2> SUFFICES ASSUME BaseInv, FileInv, Next, NEW nm \in Names, dir'[nm] # dir[nm]
                 PROVE  Changes(nm)
      OBVIOUS
    <2>1. nm \in Entries /\ nm \notin HiddenNames
      BY NamesAreEntries
    <2>2. CASE \E t \in Threads : Step(t)
      <3>1. PICK t \in Threads : Step(t)
        BY <2>2
      <3>2. UserOK(t)
        BY DEF FileInv
      <3>3. /\ ~(EraseHidden(t) /\ nm = path[t])
            /\ Hide(t) => Removing(t)
        BY <2>1, <3>2, StageOps DEF EraseHidden, Hide, At, UserOK, EraserOK
      <3>4. \/ nm = Victim(t) /\ Removing(t)
            \/ FsRename(t) /\ nm \in {req[t].nm, req[t].to}
            \/ FsMknod(t) /\ nm = req[t].nm
        BY <2>1, <3>1, <3>3, EntrySteps DEF FsUnlink, Calling, Serves, Removing
      <3> QED
        BY <3>4 DEF FsRename, FsMknod, Calling, Serves, Removing, Victim
    <2>3. CASE \E n \in Nodes : Forget(n)
      BY <2>3 DEF Forget
    <2>4. CASE Destroy
      <3>1. PICK E \in SUBSET ({name[n] : n \in {m \in Nodes : hidden[m]}} \ {NoName}) :
              dir' = [e \in Entries |-> IF e \in E THEN NoFile ELSE dir[e]]
        BY <2>4 DEF Destroy
      <3>2. E \subseteq HiddenNames
        BY <3>1 DEF FileInv, MarkedOK
      <3> QED
        BY <2>1, <3>1, <3>2
    <2> QED
      BY <2>2, <2>3, <2>4 DEF Next
  <1> QED
    BY <1>1, FileInvariant, PTL DEF Spec, VisibleStays
=============================================================================
